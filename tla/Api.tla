--------------------------------- MODULE Api ---------------------------------
(***************************************************************************)
(* The requests that refresh sources and the pages of the web interface    *)
(* (api.py, ui.py): who asks (security.py), what the answer is, and the    *)
(* refreshes that one request runs together, each of which looks its       *)
(* source up again (registry.py), while a reload may change the sources.   *)
(***************************************************************************)
EXTENDS Naturals, FiniteSets

CONSTANTS
    Sources, Master,  \* ids; Master that of the master source
    Confs,            \* configurations: type, branch, readers, writers
    MasterConf,       \* that of the master source
    Users, Admins,    \* who may log in; who has access to everything
    Branches,         \* that a webhook may tell of
    MaxReloads,       \* bound: reloads of the master configuration
    NoSource, Nobody, NoRef

Trusted == {"github_webhook", "scm_internal", "test_user"}
Ids     == Sources \cup {Master}
Single  == {"refresh", "webhook"}
Every   == {"refresh_all", "webhook_all"}
Kinds   == Single \cup Every \cup {"status", "source_status", "index", "page"}

ASSUME ApiAssumption ==
    /\ Master \notin Sources /\ NoSource \notin Confs \cup {MasterConf} /\ Admins \subseteq Users
    /\ Nobody \notin Users \cup Trusted /\ NoRef \notin Branches
    /\ MaxReloads \in Nat
    /\ \A c \in Confs \cup {MasterConf} : c.readers \subseteq Users /\ c.writers \subseteq Users

VARIABLES
    table,   \* the configuration of each source, or NoSource
    ready,   \* MASTER_SOURCE is there
    request, \* kind, id, who, event, ref
    at,      \* arrives, gathers, has its answer
    chosen,  \* the sources to refresh, or those that a page lists, as they were then
    result,  \* of the refresh of each source
    answer,  \* the status of the response
    reloads,
    stale    \* history: a reload since the request was checked

vars == <<table, ready, request, at, chosen, result, answer, reloads, stale>>

-----------------------------------------------------------------------------
(* security.py and validate_auth                                           *)

\* get_identity: a credential that is wrong is not made up for by a later one.
Identity(test, signature, secret, session) ==
    CASE test -> "test_user"
      [] ~test /\ signature # "none" -> IF signature = "good" THEN "github_webhook" ELSE Nobody
      [] ~test /\ signature = "none" /\ secret # "none" ->
            IF secret = "good" THEN "scm_internal" ELSE Nobody
      [] OTHER -> session

\* has_access and has_write_access.
HasAccess(who, c)      == who \in Admins \cup c.readers
HasWriteAccess(who, c) == who \in Admins \cup c.writers

\* permits; "all" asks for no source in particular.
PermitsAll(who)        == who \in Trusted \cup Admins
Permits(who, c, level) == \/ PermitsAll(who)
                          \/ level = "write" /\ HasWriteAccess(who, c)
                          \/ level = "read" /\ HasAccess(who, c)

\* validate_auth: nobody is sent to the login, somebody is told.
Refusal(who) == IF who = Nobody THEN 302 ELSE 403
ReadError(who, c) ==
    IF c = NoSource THEN {404} ELSE IF Permits(who, c, "read") THEN {} ELSE {Refusal(who)}
WriteErrorNever(who, c) == {}                                        \* mutant
WriteError(who, c) == IF Permits(who, c, "write") THEN {} ELSE {Refusal(who)}

-----------------------------------------------------------------------------
ConfOf(i) == IF i = Master THEN IF ready THEN MasterConf ELSE NoSource ELSE table[i]
Present   == {i \in Sources : table[i] # NoSource}

Init ==
    /\ table \in [Sources -> Confs \cup {NoSource}]
    /\ ready \in BOOLEAN /\ (~ready => Present = {})
    /\ request = [kind |-> "none", id |-> Master, who |-> Nobody, event |-> "none", ref |-> NoRef]
    /\ at = "new" /\ chosen = <<>> /\ result = [i \in Ids |-> "none"] /\ answer = 0
    /\ reloads = 0 /\ stale = FALSE

Reload ==
    /\ ready /\ reloads < MaxReloads
    /\ table' \in [Sources -> Confs \cup {NoSource}]
    /\ reloads' = reloads + 1
    /\ stale' = (at \notin {"new", "check"})
    /\ UNCHANGED <<ready, request, at, chosen, result, answer>>

Arrive ==
    /\ at = "new"
    /\ \E kind \in Kinds, i \in Ids, event \in {"push", "other"}, ref \in Branches \cup {NoRef},
          test \in BOOLEAN, signature \in {"none", "good", "bad"}, secret \in {"none", "good", "bad"},
          session \in Users \cup {Nobody} :
         /\ kind \in Every \cup {"status", "index"} => i = Master
         /\ kind \notin {"webhook", "webhook_all"} => event = "other" /\ ref = NoRef
         /\ request' = [kind |-> kind, id |-> i, event |-> event, ref |-> ref,
                        who |-> Identity(test, signature, secret, session)]
    /\ at' = "check"
    /\ UNCHANGED <<table, ready, chosen, result, answer, reloads, stale>>

-----------------------------------------------------------------------------
(* What a handler makes of its request: an answer at once, or refreshes.    *)

Reply(code) == at' = "answered" /\ answer' = code /\ UNCHANGED <<chosen, result>>
Gather(S) ==
    /\ at' = "gather"
    /\ chosen' = [i \in S |-> ConfOf(i)]
    /\ result' = [i \in Ids |-> IF i \in S THEN "asked" ELSE "none"]
    /\ UNCHANGED answer
Show(S) ==
    /\ at' = "answered" /\ answer' = 200
    /\ chosen' = [i \in S |-> ConfOf(i)]
    /\ UNCHANGED result
Unchanged == UNCHANGED <<table, ready, request, reloads, stale>>

\* A response that says "ignored".
Ignored == 204

\* _refresh_webhook, after the permissions.
WebhookOf(c) ==
    CASE c.type # "git" -> 500
      [] c.type = "git" /\ request.event # "push" -> Ignored
      [] c.type = "git" /\ request.event = "push" /\ request.ref = NoRef -> 500
      [] c.type = "git" /\ request.event = "push" /\ request.ref \notin {c.branch, NoRef} -> Ignored
      [] OTHER -> 0

CheckSingle ==
    LET c == ConfOf(request.id)
        read == ReadError(request.who, c) IN
    /\ at = "check" /\ request.kind \in Single
    /\ IF read # {} THEN \E code \in read : Reply(code)
       ELSE IF WriteError(request.who, c) # {} THEN Reply(Refusal(request.who))
       ELSE IF request.kind = "webhook" /\ WebhookOf(c) # 0 THEN Reply(WebhookOf(c))
       ELSE Gather({request.id})
    /\ Unchanged

MatchesAnyBranch(c) == c.type = "git"                                \* mutant
\* _refresh_all_webhook: the sources that the push is about.
Matches(c) == c.type = "git" /\ request.ref = c.branch

CheckEvery ==
    /\ at = "check" /\ request.kind \in Every
    /\ IF ~ready THEN Reply(500)
       ELSE IF WriteError(request.who, MasterConf) # {} THEN Reply(Refusal(request.who))
       ELSE IF request.kind = "refresh_all" THEN Gather(Present)
       ELSE IF request.event # "push" THEN Reply(Ignored)
       ELSE IF request.ref = NoRef THEN Reply(500)
       ELSE Gather({i \in Present : Matches(table[i])})
    /\ Unchanged

\* _stats and _source_stats; what the processes tell is in Cluster.
CheckStatus ==
    LET read == ReadError(request.who, ConfOf(request.id)) IN
    /\ at = "check" /\ request.kind \in {"status", "source_status"}
    /\ IF read = {} \/ (request.kind = "status" /\ ~ready) THEN Reply(200)
       ELSE \E code \in read : Reply(code)
    /\ Unchanged

ListedUnchecked(who) == Present                                      \* mutant
\* ui_index: the links.
Listed(who) == IF PermitsAll(who) /\ ready THEN Present \cup {Master}
               ELSE {i \in Present : Permits(who, table[i], "read")}

CheckIndex ==
    /\ at = "check" /\ request.kind = "index"
    /\ Show(Listed(request.who))
    /\ Unchanged

\* ui_source
CheckPage ==
    LET read == ReadError(request.who, ConfOf(request.id)) IN
    /\ at = "check" /\ request.kind = "page"
    /\ IF read = {} THEN Show({request.id}) ELSE \E code \in read : Reply(code)
    /\ Unchanged

HasButtonUnlessAdmin(who, c) == HasWriteAccess(who, c)               \* mutant
\* What its has_write_access makes of the Refresh button.
HasButton(who, c) == who # Nobody /\ (HasWriteAccess(who, c) \/ PermitsAll(who))

-----------------------------------------------------------------------------
(* The refreshes of a request: registry.refresh under gather               *)

Becomes(i, res) == result' = [result EXCEPT ![i] = res]

BeginUnchecked(i) ==                                                 \* mutant
    /\ at = "gather" /\ result[i] = "asked"
    /\ Becomes(i, "running") /\ chosen' = [chosen EXCEPT ![i] = ConfOf(i)]
    /\ Unchanged /\ UNCHANGED <<at, answer>>

\* The source is looked up again, and only reading is asked for.
Begin(i) ==
    /\ at = "gather" /\ result[i] = "asked"
    /\ LET error == ReadError(request.who, ConfOf(i)) IN
       IF error # {}
       THEN Becomes(i, IF error = {404} THEN "unknown" ELSE "refused") /\ UNCHANGED chosen
       ELSE Becomes(i, "running") /\ chosen' = [chosen EXCEPT ![i] = ConfOf(i)]
    /\ Unchanged /\ UNCHANGED <<at, answer>>

EndRefresh(i) ==
    /\ at \in {"gather", "answered"} /\ result[i] = "running"
    /\ Becomes(i, "done") \/ Becomes(i, "failed")
    /\ Unchanged /\ UNCHANGED <<at, answer, chosen>>

Results == {result[i] : i \in DOMAIN chosen}
\* Those of which an answer can be told.
HttpErrors ==
    {IF x = "unknown" THEN 404 ELSE Refusal(request.who) : x \in Results \cap {"unknown", "refused"}}
Respond(codes) ==
    /\ at' = "answered"
    /\ answer' \in codes
    /\ Unchanged /\ UNCHANGED <<chosen, result>>

AnswerFirst ==                                                       \* mutant
    /\ at = "gather"
    /\ IF HttpErrors # {} THEN Respond(HttpErrors)
       ELSE IF "failed" \in Results THEN Respond({500}) ELSE Results \subseteq {"done"} /\ Respond({200})
AnswerFailure ==                                                     \* mutant
    /\ at = "gather"
    /\ Results \cap {"asked", "running"} = {}
    /\ Respond(IF "failed" \in Results THEN {500} ELSE HttpErrors \cup {200})

\* gather(return_exceptions=True): all have ended; an HTTPException is preferred.
Answer ==
    /\ at = "gather"
    /\ Results \cap {"asked", "running"} = {}
    /\ Respond(IF HttpErrors # {} THEN HttpErrors
               ELSE IF "failed" \in Results THEN {500} ELSE {200})

Next ==
    \/ Reload \/ Arrive
    \/ CheckSingle \/ CheckEvery \/ CheckStatus \/ CheckIndex \/ CheckPage
    \/ \E i \in Ids : Begin(i) \/ EndRefresh(i)
    \/ Answer

Spec == Init /\ [][Next]_vars

-----------------------------------------------------------------------------
Refreshes == request.kind \in Single \cup Every

TypeOK ==
    /\ table \in [Sources -> Confs \cup {NoSource}]
    /\ request.kind \in Kinds \cup {"none"} /\ request.who \in Users \cup Trusted \cup {Nobody}
    /\ DOMAIN chosen \subseteq Ids /\ \A i \in DOMAIN chosen : chosen[i] \in Confs \cup {MasterConf}
    /\ answer \in {0, 200, Ignored, 302, 403, 404, 500}
    /\ reloads \in 0..MaxReloads

\* No source is left out, or still refreshed behind the back of the answer, because
\* another one failed (_refresh_all).
OneFailsAlone ==
    at = "answered" => \A i \in Ids : result[i] \notin {"asked", "running"}

\* 200 means that every source that was asked for has been refreshed; what went wrong
\* is not hidden behind a 500 if it can be told (_refresh_all).
AnswerHonest ==
    at = "answered" /\ Refreshes /\ chosen # <<>> =>
        /\ answer = 200 <=> Results \subseteq {"done"}
        /\ answer = 500 => Results \cap {"unknown", "refused"} = {}

\* The webhook for all sources refreshes those that their own webhooks would
\* (_refresh_all_webhook, _refresh_webhook).
SameWebhook ==
    at = "gather" /\ request.kind = "webhook_all" /\ ~stale =>
        DOMAIN chosen = {i \in Present : WebhookOf(table[i]) = 0}

\* Whoever has a source refreshed may read it as it is refreshed, whatever was reloaded
\* meanwhile, and may write to it, or to the master source if he asked for all of them;
\* of one source this right may be gone if a reload came between the check and the
\* refresh (README.md, validate_auth, registry.refresh).
WritersRefresh ==
    \A i \in Ids : result[i] = "running" =>
        /\ Permits(request.who, chosen[i], "read")
        /\ IF request.kind \in Every THEN Permits(request.who, MasterConf, "write")
           ELSE stale \/ Permits(request.who, chosen[i], "write")

\* Every link of the index page can be opened, by the one it was rendered for.
LinksOpen ==
    at = "answered" /\ request.kind = "index" /\ ~stale =>
        \A i \in DOMAIN chosen : ReadError(request.who, ConfOf(i)) = {}

\* A page has a Refresh button if and only if the API would not turn it down
\* (ui_source, _refresh_view).
ButtonWorks ==
    at = "answered" /\ request.kind = "page" =>
        \A i \in DOMAIN chosen :
            HasButton(request.who, chosen[i]) <=> WriteError(request.who, chosen[i]) = {}
=============================================================================
