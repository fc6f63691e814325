----------------------------- MODULE MCTemplates -----------------------------
(***************************************************************************)
(* Bounds for Templates: shell templates in place, then mako and shell     *)
(* templates into one directory.  The output of a.mako.tmpl has the name   *)
(* of a mako template.                                                     *)
(***************************************************************************)
EXTENDS Templates

MCSources == {<<"a", "mako", "tmpl">>, <<"b", "mako">>, <<"c">>}
MCEngines == << [ext |-> "tmpl", sub |-> Root], [ext |-> "mako", sub |-> "copy"],
                [ext |-> "tmpl", sub |-> "copy"] >>
=============================================================================
