------------------------------ MODULE ApiProofs ------------------------------
(***************************************************************************)
(* What the handlers answer, and for whom they refresh and render, for any  *)
(* sources, configurations, users and branches, and any number of reloads. *)
(***************************************************************************)
EXTENDS Api, TLAPS

ResultStates == {"none", "asked", "running", "done", "failed", "unknown", "refused"}

\* The types that the proofs need beside those of TypeOK.
Shapes ==
    /\ TypeOK
    /\ ready \in BOOLEAN /\ stale \in BOOLEAN
    /\ request.id \in Ids
    /\ result \in [Ids -> ResultStates]

\* How far a request is: what is chosen and asked for at each stage.
Progress ==
    /\ at \in {"new", "check", "gather", "answered"}
    /\ at \in {"new", "check"} => chosen = <<>> /\ \A i \in Ids : result[i] = "none"
    /\ at = "gather" => Refreshes
    /\ at = "gather" => \A i \in DOMAIN chosen : result[i] # "none"
    /\ \A i \in Ids : result[i] \in {"asked", "running"} => at = "gather" /\ i \in DOMAIN chosen

\* Between the check and the refreshes: the right to write the master source and the
\* right to read what is refreshed stand, whatever is reloaded.  As long as no reload
\* comes between, the right to write the one source stands too, and a refresh that runs
\* is that of the source as it is.
Checked ==
    at = "gather" =>
        /\ request.kind \in Every => Permits(request.who, MasterConf, "write")
        /\ \A i \in Ids : result[i] = "running" => ReadError(request.who, chosen[i]) = {}
        /\ ~stale =>
              /\ request.kind \in Single =>
                    DOMAIN chosen = {request.id} /\ Permits(request.who, ConfOf(request.id), "write")
              /\ \A i \in Ids : result[i] = "running" => chosen[i] = ConfOf(i)

ApiInv == Shapes /\ Progress /\ Checked /\ AnswerHonest /\ SameWebhook /\ LinksOpen
-----------------------------------------------------------------------------
(* What the operators of the model return.                                 *)

Codes == {200, Ignored, 302, 403, 404, 500}

\* A credential gives a user, one of the trusted identities or nobody (get_identity).
LEMMA IdentityType ==
    ASSUME NEW test \in BOOLEAN, NEW signature, NEW secret, NEW session \in Users \cup {Nobody}
    PROVE  Identity(test, signature, secret, session) \in Users \cup Trusted \cup {Nobody}
  BY DEF Identity, Trusted

\* What validate_auth answers, and what it means that it answers nothing.
LEMMA ReadErrorCodes ==
    ASSUME NEW who, NEW c
    PROVE  /\ ReadError(who, c) \subseteq {302, 403, 404}
           /\ ReadError(who, c) = {} <=> c # NoSource /\ Permits(who, c, "read")
  BY DEF ReadError, Refusal

\* A write check finds no error exactly when writing is permitted (security.py).
LEMMA WriteErrorCodes ==
    ASSUME NEW who, NEW c
    PROVE  WriteError(who, c) = {} <=> Permits(who, c, "write")
  BY DEF WriteError

\* Who is refused is sent to log in, or away.
LEMMA RefusalCodes == ASSUME NEW who PROVE Refusal(who) \in {302, 403}
  BY DEF Refusal

\* What an id stands for is a configuration, the master one or none.
LEMMA ConfType ==
    ASSUME Shapes, NEW i \in Ids
    PROVE  ConfOf(i) \in Confs \cup {MasterConf, NoSource}
  BY DEF Shapes, TypeOK, ConfOf, Ids

\* A source in the table has a configuration of its own.
LEMMA PresentConf ==
    ASSUME Shapes, NEW i \in Present
    PROVE  i \in Ids /\ i \in Sources /\ ConfOf(i) = table[i] /\ ConfOf(i) \in Confs
  BY ApiAssumption DEF Shapes, TypeOK, Present, ConfOf, Ids

\* The index lists what its reader may open (ui_index).
LEMMA ListedOpens ==
    ASSUME Shapes, NEW i \in Listed(request.who)
    PROVE  i \in Ids /\ ReadError(request.who, ConfOf(i)) = {}
  <1>1. CASE PermitsAll(request.who) /\ ready
    <2>1. i \in Present \cup {Master}
      BY <1>1 DEF Listed
    <2>2. i \in Ids /\ ConfOf(i) # NoSource
      BY <1>1, <2>1, PresentConf, ApiAssumption DEF Ids, ConfOf
    <2> QED
      BY <1>1, <2>2, ReadErrorCodes DEF Permits
  <1>2. CASE ~(PermitsAll(request.who) /\ ready)
    <2>1. i \in Present /\ Permits(request.who, table[i], "read")
      BY <1>2 DEF Listed
    <2> QED
      BY <2>1, PresentConf, ReadErrorCodes, ApiAssumption
  <1> QED
    BY <1>1, <1>2

-----------------------------------------------------------------------------
(* What the handlers make of a request once they have checked it.          *)

Check == CheckSingle \/ CheckEvery \/ CheckStatus \/ CheckIndex \/ CheckPage

\* A refresh begins only for whoever may write and, of a single source, read it.
GathersSingle ==
    /\ request.kind \in Single /\ ConfOf(request.id) # NoSource
    /\ Permits(request.who, ConfOf(request.id), "write")
    /\ Gather({request.id})
GathersAll ==
    /\ request.kind = "refresh_all" /\ Permits(request.who, MasterConf, "write")
    /\ Gather(Present)
GathersPushed ==
    /\ request.kind = "webhook_all" /\ Permits(request.who, MasterConf, "write")
    /\ request.event = "push" /\ request.ref # NoRef
    /\ Gather({i \in Present : Matches(table[i])})
ShowsPage ==
    /\ request.kind = "page" /\ ReadError(request.who, ConfOf(request.id)) = {}
    /\ Show({request.id})

\* What the handlers do between a request and its first suspension.
LEMMA CheckSteps ==
    ASSUME Check
    PROVE  /\ at = "check" /\ Unchanged
           /\ \/ \E code \in Codes : Reply(code)
              \/ GathersSingle \/ GathersAll \/ GathersPushed
              \/ request.kind = "index" /\ Show(Listed(request.who))
              \/ ShowsPage
  <1>1. CASE CheckSingle
    <2> DEFINE c == ConfOf(request.id)
    <2>1. at = "check" /\ request.kind \in Single /\ Unchanged
      BY <1>1 DEF CheckSingle
    <2>2. CASE ReadError(request.who, c) # {}
      BY <1>1, <2>1, <2>2, ReadErrorCodes DEF CheckSingle, Codes
    <2>3. CASE ReadError(request.who, c) = {} /\ WriteError(request.who, c) # {}
      BY <1>1, <2>1, <2>3, RefusalCodes DEF CheckSingle, Codes
    <2>4. CASE ReadError(request.who, c) = {} /\ WriteError(request.who, c) = {}
      <3>1. c # NoSource /\ Permits(request.who, c, "write")
        BY <2>4, ReadErrorCodes, WriteErrorCodes
      <3>2. WebhookOf(c) # 0 => WebhookOf(c) \in Codes
        BY DEF WebhookOf, Codes
      <3> QED
        BY <1>1, <2>1, <2>4, <3>1, <3>2 DEF CheckSingle, GathersSingle
    <2> QED
      BY <2>2, <2>3, <2>4
  <1>2. CASE CheckEvery
    <2>1. at = "check" /\ request.kind \in Every /\ Unchanged
      BY <1>2 DEF CheckEvery
    <2>2. CASE ~ready \/ WriteError(request.who, MasterConf) # {}
      BY <1>2, <2>1, <2>2, RefusalCodes DEF CheckEvery, Codes
    <2>3. CASE ready /\ WriteError(request.who, MasterConf) = {}
      <3>1. Permits(request.who, MasterConf, "write")
        BY <2>3, WriteErrorCodes
      <3> QED
        BY <1>2, <2>1, <2>3, <3>1 DEF CheckEvery, Every, Codes, GathersAll, GathersPushed
    <2> QED
      BY <2>2, <2>3
  <1>3. CASE CheckStatus
    BY <1>3, ReadErrorCodes DEF CheckStatus, Codes
  <1>4. CASE CheckIndex
    BY <1>4 DEF CheckIndex
  <1>5. CASE CheckPage
    BY <1>5, ReadErrorCodes DEF CheckPage, ShowsPage, Codes
  <1> QED
    BY <1>1, <1>2, <1>3, <1>4, <1>5 DEF Check

-----------------------------------------------------------------------------
(* The invariants, step by step.                                           *)

\* Every step keeps the types.
LEMMA ShapesStep ==
    ASSUME Shapes, Progress, Next
    PROVE  Shapes'
  <1>1. CASE Reload
    <2>1. stale' \in BOOLEAN
      BY <1>1, Zenon DEF Reload
    <2> QED
      BY <1>1, <2>1, ApiAssumption DEF Reload, Shapes, TypeOK
  <1>2. CASE Arrive
    <2>1. PICK kind \in Kinds, i \in Ids, event \in {"push", "other"}, ref \in Branches \cup {NoRef},
               test \in BOOLEAN, signature \in {"none", "good", "bad"},
               secret \in {"none", "good", "bad"}, session \in Users \cup {Nobody} :
            request' = [kind |-> kind, id |-> i, event |-> event, ref |-> ref,
                        who |-> Identity(test, signature, secret, session)]
      BY <1>2 DEF Arrive
    <2>2. /\ request'.kind = kind /\ request'.id = i
          /\ request'.who = Identity(test, signature, secret, session)
      BY <2>1
    <2>3. request'.who \in Users \cup Trusted \cup {Nobody}
      BY <2>2, IdentityType
    <2> QED
      BY <1>2, <2>2, <2>3 DEF Arrive, Shapes, TypeOK
  <1>3. CASE Check
    <2>1. Unchanged
      BY <1>3, CheckSteps
    <2>2. CASE \E code \in Codes : Reply(code)
      BY <2>1, <2>2 DEF Reply, Unchanged, Codes, Shapes, TypeOK
    <2>3. ASSUME NEW S, S \subseteq Ids, \A i \in S : ConfOf(i) # NoSource, Gather(S) \/ Show(S)
          PROVE  Shapes'
      <3>1. \A i \in S : ConfOf(i) \in Confs \cup {MasterConf}
        BY <2>3, ConfType
      <3>2. chosen' = [i \in S |-> ConfOf(i)] /\ answer' \in {answer, 200}
        BY <2>3 DEF Gather, Show
      <3>3. result' \in [Ids -> ResultStates]
        BY <2>3 DEF Gather, Show, Shapes, ResultStates
      <3> QED
        BY <2>1, <2>3, <3>1, <3>2, <3>3 DEF Unchanged, Shapes, TypeOK
    <2>4. CASE GathersSingle
      BY <2>3, <2>4 DEF GathersSingle, Shapes
    <2>5. CASE GathersAll
      BY <2>3, <2>5, PresentConf, ApiAssumption DEF GathersAll
    <2>6. CASE GathersPushed
      <3>1. {i \in Present : Matches(table[i])} \subseteq Present
        OBVIOUS
      <3> QED
        BY <2>3, <2>6, <3>1, PresentConf, ApiAssumption DEF GathersPushed
    <2>7. CASE request.kind = "index" /\ Show(Listed(request.who))
      BY <2>3, <2>7, ListedOpens, ReadErrorCodes
    <2>8. CASE ShowsPage
      BY <2>3, <2>8, ReadErrorCodes DEF ShowsPage, Shapes
    <2> QED
      BY <1>3, <2>2, <2>4, <2>5, <2>6, <2>7, <2>8, CheckSteps
  <1>4. ASSUME NEW i \in Ids, Begin(i)
        PROVE  Shapes'
    <2>1. i \in DOMAIN chosen
      BY <1>4 DEF Begin, Progress
    <2>2. result' \in [Ids -> ResultStates]
      BY <1>4 DEF Begin, Becomes, Shapes, ResultStates
    <2>3. \/ UNCHANGED chosen
          \/ ConfOf(i) # NoSource /\ chosen' = [chosen EXCEPT ![i] = ConfOf(i)]
      BY <1>4, ReadErrorCodes DEF Begin
    <2>4. DOMAIN chosen' \subseteq Ids /\ \A j \in DOMAIN chosen' : chosen'[j] \in Confs \cup {MasterConf}
      BY <2>1, <2>3, ConfType DEF Shapes, TypeOK
    <2> QED
      BY <1>4, <2>2, <2>4 DEF Begin, Unchanged, Shapes, TypeOK
  <1>5. ASSUME NEW i \in Ids, EndRefresh(i)
        PROVE  Shapes'
    BY <1>5 DEF EndRefresh, Becomes, Unchanged, Shapes, TypeOK, ResultStates
  <1>6. CASE Answer
    <2>1. HttpErrors \subseteq {302, 403, 404}
      BY RefusalCodes DEF HttpErrors
    <2>2. answer' \in {200, 302, 403, 404, 500}
      BY <1>6, <2>1 DEF Answer, Respond
    <2> QED
      BY <1>6, <2>2 DEF Answer, Respond, Unchanged, Shapes, TypeOK
  <1> QED
    BY <1>1, <1>2, <1>3, <1>4, <1>5, <1>6 DEF Next, Check

\* Every step keeps the account of what is asked, chosen and done.
LEMMA ProgressStep ==
    ASSUME Shapes, Progress, Next
    PROVE  Progress'
  <1>1. CASE Reload \/ Arrive
    BY <1>1 DEF Reload, Arrive, Progress, Refreshes
  <1>2. CASE Check
    <2>1. at = "check" /\ Unchanged /\ chosen = <<>> /\ \A i \in Ids : result[i] = "none"
      BY <1>2, CheckSteps DEF Progress
    <2>2. ASSUME at' = "answered", UNCHANGED result
          PROVE  Progress'
      BY <2>1, <2>2 DEF Progress
    <2>3. ASSUME NEW S, S \subseteq Ids, Gather(S), Refreshes
          PROVE  Progress'
      BY <2>1, <2>3 DEF Gather, Progress, Refreshes, Unchanged
    <2>4. CASE \E code \in Codes : Reply(code)
      BY <2>2, <2>4 DEF Reply
    <2>5. CASE GathersSingle
      BY <2>3, <2>5 DEF GathersSingle, Refreshes, Shapes
    <2>6. CASE GathersAll
      BY <2>3, <2>6, PresentConf DEF GathersAll, Refreshes, Every
    <2>7. CASE GathersPushed
      <3>1. {i \in Present : Matches(table[i])} \subseteq Ids
        BY PresentConf
      <3> QED
        BY <2>3, <2>7, <3>1 DEF GathersPushed, Refreshes, Every
    <2>8. CASE (request.kind = "index" /\ Show(Listed(request.who))) \/ ShowsPage
      BY <2>2, <2>8 DEF Show, ShowsPage
    <2> QED
      BY <1>2, <2>4, <2>5, <2>6, <2>7, <2>8, CheckSteps
  <1>3. ASSUME NEW i \in Ids, Begin(i)
        PROVE  Progress'
    <2>1. /\ at = "gather" /\ i \in DOMAIN chosen
          /\ UNCHANGED <<at, request>> /\ DOMAIN chosen' = DOMAIN chosen
      BY <1>3 DEF Begin, Progress, Unchanged
    <2>2. /\ result'[i] \in {"running", "unknown", "refused"}
          /\ \A j \in Ids \ {i} : result'[j] = result[j]
      BY <1>3 DEF Begin, Becomes, Shapes
    <2> QED
      BY <2>1, <2>2 DEF Progress, Refreshes, Shapes, TypeOK
  <1>4. ASSUME NEW i \in Ids, EndRefresh(i)
        PROVE  Progress'
    <2>1. at = "gather" /\ UNCHANGED <<at, request, chosen>>
      BY <1>4 DEF EndRefresh, Progress, Unchanged
    <2>2. result'[i] \in {"done", "failed"} /\ \A j \in Ids \ {i} : result'[j] = result[j]
      BY <1>4 DEF EndRefresh, Becomes, Shapes
    <2> QED
      BY <2>1, <2>2 DEF Progress, Refreshes, Shapes, TypeOK
  <1>5. CASE Answer
    <2>1. /\ at = "gather" /\ at' = "answered" /\ UNCHANGED <<chosen, result, request>>
          /\ \A i \in DOMAIN chosen : result[i] \notin {"asked", "running"}
      BY <1>5 DEF Answer, Respond, Results, Unchanged
    <2> QED
      BY <2>1 DEF Progress
  <1> QED
    BY <1>1, <1>2, <1>3, <1>4, <1>5 DEF Next, Check

\* What was checked still stands when the sources are looked up again (validate_auth).
LEMMA CheckedStep ==
    ASSUME Shapes, Progress, Checked, Next
    PROVE  Checked'
  <1>1. CASE Reload \/ Arrive
    BY <1>1 DEF Reload, Arrive, Checked, Progress
  <1>2. CASE Check
    <2>1. at = "check" /\ Unchanged
      BY <1>2, CheckSteps
    <2>2. \A i \in Ids : ConfOf(i)' = ConfOf(i)
      BY <2>1 DEF Unchanged, ConfOf
    <2>3. CASE at' = "answered"
      BY <2>3 DEF Checked
    <2>4. CASE GathersSingle
      <3>1. request.kind \in Single /\ request.id \in Ids /\ UNCHANGED request
        BY <2>1, <2>4 DEF GathersSingle, Shapes, Unchanged
      <3>2. \A i \in Ids : result'[i] # "running"
        BY <2>4 DEF GathersSingle, Gather
      <3>3. DOMAIN chosen' = {request.id} /\ Permits(request.who, ConfOf(request.id), "write")
        BY <2>4 DEF GathersSingle, Gather
      <3> QED
        BY <2>2, <3>1, <3>2, <3>3 DEF Checked, Permits, Single, Every
    <2>5. CASE GathersAll \/ GathersPushed
      <3>1. request.kind \in Every /\ UNCHANGED request /\ Permits(request.who, MasterConf, "write")
        BY <2>1, <2>5 DEF GathersAll, GathersPushed, Every, Unchanged
      <3>2. \A i \in Ids : result'[i] # "running"
        BY <2>5 DEF GathersAll, GathersPushed, Gather
      <3> QED
        BY <3>1, <3>2 DEF Checked, Permits, Single, Every
    <2> QED
      BY <1>2, <2>3, <2>4, <2>5, CheckSteps DEF Reply, Show, ShowsPage
  <1>3. ASSUME NEW i \in Ids, Begin(i)
        PROVE  Checked'
    <2>1. /\ at = "gather" /\ i \in DOMAIN chosen
          /\ UNCHANGED <<at, request, stale, table, ready>> /\ DOMAIN chosen' = DOMAIN chosen
      BY <1>3 DEF Begin, Progress, Unchanged
    <2>2. \A j \in Ids : ConfOf(j)' = ConfOf(j)
      BY <2>1 DEF ConfOf
    <2>3. /\ \A j \in Ids \ {i} : result'[j] = result[j]
          /\ \A j \in DOMAIN chosen \ {i} : chosen'[j] = chosen[j]
          /\ result'[i] = "running" => chosen'[i] = ConfOf(i) /\ ReadError(request.who, ConfOf(i)) = {}
      BY <1>3, <2>1 DEF Begin, Becomes, Shapes
    <2>4. \A j \in Ids : result[j] = "running" => j \in DOMAIN chosen
      BY DEF Progress
    <2>5. \A j \in Ids : result'[j] = "running" => ReadError(request.who, chosen'[j]) = {}
      BY <2>1, <2>3, <2>4 DEF Checked
    <2> QED
      BY <2>1, <2>2, <2>3, <2>4, <2>5 DEF Checked, Shapes
  <1>4. ASSUME NEW i \in Ids, EndRefresh(i)
        PROVE  Checked'
    <2>1. UNCHANGED <<at, request, stale, table, ready, chosen>>
      BY <1>4 DEF EndRefresh, Unchanged
    <2>2. \A j \in Ids : ConfOf(j)' = ConfOf(j)
      BY <2>1 DEF ConfOf
    <2>3. result'[i] # "running" /\ \A j \in Ids \ {i} : result'[j] = result[j]
      BY <1>4 DEF EndRefresh, Becomes, Shapes
    <2> QED
      BY <2>1, <2>2, <2>3 DEF Checked, Shapes
  <1>5. CASE Answer
    BY <1>5 DEF Answer, Respond, Checked
  <1> QED
    BY <1>1, <1>2, <1>3, <1>4, <1>5 DEF Next, Check

\* No step makes a refresh of all sources forget one, or answer better than it went.
LEMMA HonestStep ==
    ASSUME Shapes, Progress, AnswerHonest, Next
    PROVE  AnswerHonest'
  <1>1. CASE Reload
    <2>1. UNCHANGED <<at, request, chosen, result, answer>>
      BY <1>1 DEF Reload
    <2>2. Results' = Results /\ Refreshes' = Refreshes
      BY <2>1 DEF Results, Refreshes
    <2> QED
      BY <2>1, <2>2 DEF AnswerHonest
  <1>2. CASE Arrive
    BY <1>2 DEF Arrive, AnswerHonest
  <1>3. CASE Check
    <2>1. chosen = <<>> /\ UNCHANGED request
      BY <1>3, CheckSteps DEF Progress, Unchanged
    <2>2. CASE at' = "gather" \/ UNCHANGED chosen
      BY <2>1, <2>2 DEF AnswerHonest
    <2>3. CASE request.kind \in {"index", "page"}
      BY <2>1, <2>3 DEF AnswerHonest, Refreshes, Single, Every
    <2> QED
      BY <1>3, <2>2, <2>3, CheckSteps
      DEF Reply, GathersSingle, GathersAll, GathersPushed, Gather, ShowsPage
  <1>4. ASSUME NEW i \in Ids, Begin(i) \/ EndRefresh(i)
        PROVE  AnswerHonest'
    <2>1. at = "gather" /\ UNCHANGED at
      BY <1>4 DEF Begin, EndRefresh, Progress
    <2> QED
      BY <2>1 DEF AnswerHonest
  <1>5. CASE Answer
    <2>1. /\ Results \cap {"asked", "running"} = {} /\ UNCHANGED <<chosen, result, request>>
          /\ answer' \in IF HttpErrors # {} THEN HttpErrors
                         ELSE IF "failed" \in Results THEN {500} ELSE {200}
      BY <1>5 DEF Answer, Respond, Unchanged
    <2>2. Results \subseteq {"done", "failed", "unknown", "refused"}
      <3>1. ASSUME NEW i \in DOMAIN chosen
            PROVE  result[i] \in {"done", "failed", "unknown", "refused"}
        <4>1. result[i] \in ResultStates /\ result[i] # "none"
          BY <1>5 DEF Answer, Progress, Shapes, TypeOK
        <4> QED
          BY <2>1, <4>1 DEF Results, ResultStates
      <3> QED
        BY <3>1 DEF Results
    <2>3. Results' = Results
      BY <2>1 DEF Results
    <2>4. CASE HttpErrors # {}
      <3>1. HttpErrors \subseteq {302, 403, 404} /\ Results \cap {"unknown", "refused"} # {}
        BY <2>4, RefusalCodes DEF HttpErrors
      <3>2. answer' \in {302, 403, 404}
        BY <2>1, <2>4, <3>1
      <3> QED
        BY <2>3, <3>1, <3>2 DEF AnswerHonest
    <2>5. CASE HttpErrors = {}
      <3>1. Results \cap {"unknown", "refused"} = {}
        BY <2>5 DEF HttpErrors
      <3> QED
        BY <2>1, <2>2, <2>3, <2>5, <3>1 DEF AnswerHonest
    <2> QED
      BY <2>4, <2>5
  <1> QED
    BY <1>1, <1>2, <1>3, <1>4, <1>5 DEF Next, Check

\* Every step of a webhook for all sources keeps it to what their own would do.
LEMMA WebhookStep ==
    ASSUME Shapes, Progress, SameWebhook, Next
    PROVE  SameWebhook'
  <1>1. CASE Reload \/ Arrive
    BY <1>1 DEF Reload, Arrive, SameWebhook, Progress
  <1>2. CASE Check
    <2>1. Unchanged
      BY <1>2, CheckSteps
    <2>2. CASE at' = "answered" \/ request.kind # "webhook_all"
      BY <2>1, <2>2 DEF SameWebhook, Unchanged
    <2>3. CASE GathersPushed
      <3>1. DOMAIN chosen' = {i \in Present : Matches(table[i])}
        BY <2>3 DEF GathersPushed, Gather
      <3>2. \A c : WebhookOf(c) = 0 <=> Matches(c)
        BY <2>3 DEF GathersPushed, WebhookOf, Matches, Ignored
      <3>3. Present' = Present /\ \A i \in Present : WebhookOf(table[i])' = WebhookOf(table[i])
        BY <2>1 DEF Unchanged, Present, WebhookOf
      <3> QED
        BY <3>1, <3>2, <3>3 DEF SameWebhook
    <2> QED
      BY <1>2, <2>2, <2>3, CheckSteps DEF Reply, GathersSingle, Single, GathersAll, Show, ShowsPage
  <1>3. ASSUME NEW i \in Ids, Begin(i) \/ EndRefresh(i)
        PROVE  SameWebhook'
    <2>1. UNCHANGED <<at, request, stale, table>> /\ DOMAIN chosen' = DOMAIN chosen
      BY <1>3 DEF Begin, EndRefresh, Unchanged
    <2>2. Present' = Present /\ \A j \in Present : WebhookOf(table[j])' = WebhookOf(table[j])
      BY <2>1 DEF Present, WebhookOf
    <2> QED
      BY <2>1, <2>2 DEF SameWebhook
  <1>4. CASE Answer
    BY <1>4 DEF Answer, Respond, SameWebhook
  <1> QED
    BY <1>1, <1>2, <1>3, <1>4 DEF Next, Check

\* Every step keeps what a page shows within what its reader may open (ui.py).
LEMMA LinksStep ==
    ASSUME Shapes, Progress, LinksOpen, Next
    PROVE  LinksOpen'
  <1>1. CASE Reload \/ Arrive
    BY <1>1 DEF Reload, Arrive, LinksOpen
  <1>2. CASE Check
    <2>1. Unchanged
      BY <1>2, CheckSteps
    <2>2. CASE \E code \in Codes : Reply(code)
      <3>1. DOMAIN chosen' = {}
        BY <1>2, <2>2, CheckSteps DEF Reply, Progress
      <3> QED
        BY <3>1 DEF LinksOpen
    <2>3. CASE at' # "answered" \/ request.kind # "index"
      BY <2>1, <2>3 DEF LinksOpen, Unchanged
    <2>4. CASE Show(Listed(request.who))
      <3>1. DOMAIN chosen' = Listed(request.who)
        BY <2>4 DEF Show
      <3>2. \A i \in Ids : ConfOf(i)' = ConfOf(i)
        BY <2>1 DEF Unchanged, ConfOf
      <3>3. UNCHANGED request
        BY <2>1 DEF Unchanged
      <3> QED
        BY <3>1, <3>2, <3>3, ListedOpens DEF LinksOpen, ReadError, Permits
    <2> QED
      BY <1>2, <2>2, <2>3, <2>4, CheckSteps
      DEF GathersSingle, GathersAll, GathersPushed, Gather, ShowsPage
  <1>3. ASSUME NEW i \in Ids, Begin(i) \/ EndRefresh(i)
        PROVE  LinksOpen'
    <2>1. at = "gather" /\ UNCHANGED at
      BY <1>3 DEF Begin, EndRefresh, Progress
    <2> QED
      BY <2>1 DEF LinksOpen
  <1>4. CASE Answer
    <2>1. Refreshes /\ UNCHANGED request
      BY <1>4 DEF Answer, Respond, Unchanged, Progress
    <2> QED
      BY <2>1 DEF LinksOpen, Refreshes, Single, Every
  <1> QED
    BY <1>1, <1>2, <1>3, <1>4 DEF Next, Check

-----------------------------------------------------------------------------
(* The theorems.                                                           *)

\* All of it holds when the process starts.
LEMMA ApiInit ==
    ASSUME Init
    PROVE  ApiInv
  <1>1. at = "new" /\ chosen = <<>> /\ (\A i \in Ids : result[i] = "none") /\ DOMAIN chosen = {}
    BY DEF Init
  <1>2. request.kind = "none" /\ request.id = Master /\ request.who = Nobody
    BY DEF Init
  <1>3. Shapes
    <2>1. table \in [Sources -> Confs \cup {NoSource}] /\ answer = 0 /\ reloads = 0
      BY DEF Init
    <2>2. ready \in BOOLEAN /\ stale \in BOOLEAN /\ result \in [Ids -> ResultStates]
      BY DEF Init, ResultStates
    <2>3. Master \in Ids
      BY DEF Ids
    <2> QED
      BY <1>1, <1>2, <2>1, <2>2, <2>3, ApiAssumption DEF Shapes, TypeOK
  <1>4. Progress /\ Checked /\ AnswerHonest /\ SameWebhook /\ LinksOpen
    BY <1>1 DEF Progress, Checked, AnswerHonest, SameWebhook, LinksOpen
  <1> QED
    BY <1>3, <1>4 DEF ApiInv

\* All of it is kept together.
LEMMA ApiStep ==
    ASSUME ApiInv, [Next]_vars
    PROVE  ApiInv'
  <1>1. CASE Next
    BY <1>1, ShapesStep, ProgressStep, CheckedStep, HonestStep, WebhookStep, LinksStep DEF ApiInv
  <1>2. CASE UNCHANGED vars
    <2>1. Shapes' /\ Progress'
      BY <1>2 DEF ApiInv, vars, Shapes, TypeOK, Progress, Refreshes
    <2>2. (\A i \in Ids : ConfOf(i)' = ConfOf(i)) /\ Present' = Present
      BY <1>2 DEF vars, ConfOf, Present
    <2>3. Checked'
      BY <1>2, <2>2 DEF ApiInv, vars, Checked, Shapes
    <2>4. AnswerHonest'
      <3>1. Results' = Results /\ Refreshes' = Refreshes
        BY <1>2 DEF vars, Results, Refreshes
      <3> QED
        BY <1>2, <3>1 DEF ApiInv, vars, AnswerHonest
    <2>5. SameWebhook'
      BY <1>2, <2>2 DEF ApiInv, vars, SameWebhook, WebhookOf
    <2>6. LinksOpen'
      BY <1>2, <2>2 DEF ApiInv, vars, LinksOpen, Shapes, TypeOK
    <2> QED
      BY <2>1, <2>3, <2>4, <2>5, <2>6 DEF ApiInv
  <1> QED
    BY <1>1, <1>2

\* The inductive invariant: how far a request is, and what its check still says.
THEOREM ApiInvariance == Spec => []ApiInv
  BY ApiInit, ApiStep, PTL DEF Spec

\* The types of the sources, the request and the answer (_refresh_view, ui_index).
THEOREM ApiTypes == Spec => []TypeOK
  BY ApiInvariance, PTL DEF ApiInv, Shapes

\* However many sources a request refreshes, and whichever fail: none is left out or
\* still under way when the answer is given (_refresh_all).
THEOREM EveryOneEnds == Spec => []OneFailsAlone
  <1>1. ApiInv => OneFailsAlone
    BY DEF ApiInv, Progress, OneFailsAlone
  <1> QED
    BY <1>1, ApiInvariance, PTL

\* The answer says what became of the refreshes (_refresh_all).
THEOREM AnswersAreHonest == Spec => []AnswerHonest
  BY ApiInvariance, PTL DEF ApiInv

\* The webhook of all sources refreshes what their own webhooks would (_refresh_all_webhook).
THEOREM WebhooksAgree == Spec => []SameWebhook
  BY ApiInvariance, PTL DEF ApiInv

\* Nobody has a source refreshed that he may not read as it is then, or without the
\* right to write to the master source if he asked for all of them; nor, as long as no
\* reload replaces it after the check, without the right to write to it
\* (validate_auth, refresh).
THEOREM OnlyWritersRefresh == Spec => []WritersRefresh
  <1>1. ApiInv => WritersRefresh
    <2> SUFFICES ASSUME ApiInv, NEW i \in Ids, result[i] = "running"
                 PROVE  /\ Permits(request.who, chosen[i], "read")
                        /\ IF request.kind \in Every THEN Permits(request.who, MasterConf, "write")
                           ELSE stale \/ Permits(request.who, chosen[i], "write")
      BY DEF WritersRefresh
    <2>1. at = "gather" /\ i \in DOMAIN chosen /\ request.kind \in Single \cup Every
      BY DEF ApiInv, Progress, Refreshes
    <2>2. ReadError(request.who, chosen[i]) = {}
      BY <2>1 DEF ApiInv, Checked
    <2>3. Permits(request.who, chosen[i], "read")
      BY <2>2, ReadErrorCodes
    <2>4. CASE request.kind \in Every
      BY <2>1, <2>3, <2>4 DEF ApiInv, Checked
    <2>5. CASE request.kind \notin Every
      <3>1. CASE ~stale
        <4>1. /\ DOMAIN chosen = {request.id} /\ Permits(request.who, ConfOf(request.id), "write")
              /\ chosen[i] = ConfOf(i)
          BY <2>1, <2>5, <3>1 DEF ApiInv, Checked
        <4>2. i = request.id
          BY <2>1, <4>1
        <4> QED
          BY <2>3, <2>5, <4>1, <4>2
      <3>2. CASE stale
        BY <2>3, <2>5, <3>2
      <3> QED
        BY <3>1, <3>2
    <2> QED
      BY <2>4, <2>5
  <1> QED
    BY <1>1, ApiInvariance, PTL

\* Every link of an index page can be opened by its reader (ui_index, ui_source).
THEOREM LinksAllOpen == Spec => []LinksOpen
  BY ApiInvariance, PTL DEF ApiInv

\* For every user, the page of a source has a Refresh button if and only if the API
\* would refresh the source (ui_source, _refresh_view).
THEOREM ButtonsWork == Spec => []ButtonWorks
  <1>1. ApiInv => ButtonWorks
    <2> SUFFICES ASSUME ApiInv, NEW i \in DOMAIN chosen
                 PROVE  HasButton(request.who, chosen[i]) <=> WriteError(request.who, chosen[i]) = {}
      BY DEF ButtonWorks
    <2>1. chosen[i].writers \subseteq Users
      BY ApiAssumption DEF ApiInv, Shapes, TypeOK
    <2>2. ~Permits(Nobody, chosen[i], "write")
      BY <2>1, ApiAssumption DEF Permits, PermitsAll, HasWriteAccess
    <2> QED
      BY <2>2, WriteErrorCodes DEF HasButton, Permits
  <1> QED
    BY <1>1, ApiInvariance, PTL
=============================================================================
