------------------------------ MODULE CallRail ------------------------------
(***************************************************************************)
(* The call rail: a tap of Confirm & Call (or of Retry) on the device, the *)
(* plan-batch and run-batch handlers of the daftar-call-e replicas with    *)
(* their process-local confirm-handle store, and CALL-E behind its         *)
(* idempotency key.                                                        *)
(*                                                                         *)
(* The device side is confirmAndCall, retryUnansweredCalls and             *)
(* _planThenRun of closing_agent_controller.dart; a flow is one tap of one *)
(* of the two.  The server side is agent/calls/router.py and handles.py.   *)
(* A request is served by any replica; its reply may come too late, and    *)
(* the device then gives up while the replica goes on.  What the poll loop *)
(* and the database make of a call is module CallDesk; here it just ends.  *)
(***************************************************************************)
EXTENDS Naturals, FiniteSets

CONSTANTS
    Contacts,       \* contacts the device guard selected for the call rail
    Allowlisted,    \* those the server's gates accept (region, dnc, allowlist)
    Instances,      \* Cloud Run replicas
    ConfirmFlows,   \* taps of Confirm & Call in one desk session
    RetryFlows,     \* taps of Retry
    None,           \* absent value
    MaxRestarts     \* bound on replica restarts

Flows == ConfirmFlows \cup RetryFlows

ASSUME FlowsDisjoint == ConfirmFlows \cap RetryFlows = {}
ASSUME NoneIsNoFlow == None \notin Flows
ASSUME AllowlistedKnown == Allowlisted \subseteq Contacts
ASSUME RestartBound == MaxRestarts \in Nat

VARIABLES
    consented,   \* state.callConsented
    batch,       \* state.collectionsBatchId
    row,         \* state.callProgress, one row per contact
    flow,        \* the taps and where their async code is
    req,         \* request of a flow that no replica has taken yet
    rep,         \* reply on its way to the device
    dialEnv,     \* CALLE_ALLOW_DIAL in each replica's environment
    snaps,       \* _snapshots of each replica
    runIds,      \* _run_ids and _retry_run_ids of each replica
    job,         \* run-batch handlers in progress
    posts,       \* POST /v1/calls on their way to CALL-E
    calls,       \* calls CALL-E has placed
    unanswered,  \* calls that ended noAnswer or voicemail
    restarts     \* replica restarts so far

deviceVars == <<consented, batch, row, flow>>
wireVars == <<req, rep>>
serverVars == <<dialEnv, snaps, runIds, job>>
calleVars == <<posts, calls, unanswered>>
vars == <<deviceVars, wireVars, serverVars, calleVars, restarts>>

(* ------------------------------ data ---------------------------------- *)

\* A confirm tap draws a fresh UUID for its batch: the tap itself names it.
Batches == ConfirmFlows
Attempts == {0, 1}

\* A confirm handle is secrets.token_urlsafe: one per plan request of a flow,
\* and a flow plans at most twice.
Tokens == Flows \X {1, 2}

\* A call, and the request that asks CALL-E for it: tok is the handle it was
\* dialled under, which stands for CALL-E's own id of the call.
Call == [tok: Tokens, b: Batches, c: Contacts, a: Attempts]

\* Mutant: the key is drawn per handle.
IdempotencyKeyPerHandle(p) == <<p.tok, p.c>>

\* CALL-E places one call per key: batch:contact, with :retry1 for attempt 1.
IdempotencyKey(p) == <<p.b, p.c, p.a>>
CallFor(p) == {x \in calls : IdempotencyKey(x) = IdempotencyKey(p)}

Snap == [i: Instances, b: Batches, c: Contacts, tok: Tokens]
RunId == [i: Instances, b: Batches, c: Contacts, a: Attempts, run: Call]

\* "live" is a row that stays planned while its run is polled; "over" any
\* terminal status but a completed call with noAnswer or voicemail.
RowStatus == {"none", "planned", "live", "unanswered", "over"}
Row == [st: RowStatus, run: Call \cup {None}, retried: BOOLEAN]
NoRow == [st |-> "none", run |-> None, retried |-> FALSE]
Terminal(r) == r.st \in {"unanswered", "over"}

Result == [c: Contacts, st: {"queued", "skippedDuplicate", "invalidHandle", "failed"},
           run: Call \cup {None}]

Flow == [pc: {"idle", "hydrate", "plan", "run", "done"}, rnd: {1, 2},
         b: Batches \cup {None}, a: Attempts, want: SUBSET Contacts,
         handles: SUBSET Contacts, saved: [Contacts -> Row]]
IdleFlow == [pc |-> "idle", rnd |-> 1, b |-> None, a |-> 0, want |-> {},
             handles |-> {}, saved |-> [c \in Contacts |-> NoRow]]

Job == [i: Instances \cup {None}, todo: SUBSET Contacts,
        cur: Contacts \cup {None}, res: SUBSET Result]
NoJob == [i |-> None, todo |-> {}, cur |-> None, res |-> {}]

Reply == [kind: {"none", "planned", "ran", "killSwitch"},
          ready: SUBSET Contacts, res: SUBSET Result]
NoReply == [kind |-> "none", ready |-> {}, res |-> {}]

\* Every variable has its type, and only the values of the code's own enums.
TypeOK ==
    /\ consented \in BOOLEAN
    /\ batch \in Batches \cup {None}
    /\ row \in [Contacts -> Row]
    /\ flow \in [Flows -> Flow]
    /\ req \in [Flows -> {"none", "plan", "run"}]
    /\ rep \in [Flows -> Reply]
    /\ dialEnv \in [Instances -> {"true", "unset"}]
    /\ snaps \subseteq Snap
    /\ runIds \subseteq RunId
    /\ job \in [Flows -> Job]
    /\ posts \subseteq Call
    /\ calls \subseteq Call
    /\ unanswered \subseteq calls
    /\ restarts \in 0..MaxRestarts

Init ==
    /\ consented = FALSE
    /\ batch = None
    /\ row = [c \in Contacts |-> NoRow]
    /\ flow = [f \in Flows |-> IdleFlow]
    /\ req = [f \in Flows |-> "none"]
    /\ rep = [f \in Flows |-> NoReply]
    /\ dialEnv \in [Instances -> {"true", "unset"}]
    /\ snaps = {}
    /\ runIds = {}
    /\ job = [f \in Flows |-> NoJob]
    /\ posts = {}
    /\ calls = {}
    /\ unanswered = {}
    /\ restarts = 0

(* ------------------------------ device -------------------------------- *)

\* confirmAndCall up to its first await: the guard reads callConsented, and
\* only the code after the await sets it.
TapConfirm(f) ==
    /\ flow[f].pc = "idle"
    /\ ~consented
    /\ flow' = [flow EXCEPT ![f].pc = "hydrate"]
    /\ UNCHANGED <<consented, batch, row, wireVars, serverVars, calleVars, restarts>>

\* confirmAndCall from the token to the plan request.
ConfirmHydrated(f) ==
    /\ flow[f].pc = "hydrate"
    /\ consented' = TRUE
    /\ batch' = f
    /\ row' = [c \in Contacts |-> [NoRow EXCEPT !.st = "planned"]]
    /\ flow' = [flow EXCEPT ![f].pc = "plan", ![f].b = f, ![f].want = Contacts]
    /\ req' = [req EXCEPT ![f] = "plan"]
    /\ UNCHANGED <<rep, serverVars, calleVars, restarts>>

\* Mutant: every outcome may be retried.
EligibleWhateverOutcome(rows) ==
    {c \in Contacts : Terminal(rows[c]) /\ ~rows[c].retried}

\* Rows the merchant may retry: completed, noAnswer or voicemail, not retried.
Eligible(rows) ==
    {c \in Contacts : rows[c].st = "unanswered" /\ ~rows[c].retried}

\* retryUnansweredCalls up to its first await.
TapRetry(f) ==
    /\ flow[f].pc = "idle"
    /\ \A g \in RetryFlows : flow[g].pc \in {"idle", "done"}
    /\ \A c \in Contacts : Terminal(row[c])
    /\ Eligible(row) # {}
    /\ flow' = [flow EXCEPT ![f].pc = "hydrate", ![f].b = batch, ![f].a = 1,
                            ![f].want = Eligible(row), ![f].saved = row]
    /\ UNCHANGED <<consented, batch, row, wireVars, serverVars, calleVars, restarts>>

\* _retryUnansweredCallsBody from the token to the plan request.
RetryHydrated(f) ==
    /\ flow[f].pc = "hydrate"
    /\ row' = [c \in Contacts |->
                 IF c \in flow[f].want
                 THEN [flow[f].saved[c] EXCEPT !.st = "planned", !.retried = TRUE]
                 ELSE flow[f].saved[c]]
    /\ flow' = [flow EXCEPT ![f].pc = "plan"]
    /\ req' = [req EXCEPT ![f] = "plan"]
    /\ UNCHANGED <<consented, batch, rep, serverVars, calleVars, restarts>>

\* hydrateAgentIdToken failed: neither handler changes a row.
HydrateFails(f) ==
    /\ flow[f].pc = "hydrate"
    /\ flow' = [flow EXCEPT ![f].pc = "done"]
    /\ UNCHANGED <<consented, batch, row, wireVars, serverVars, calleVars, restarts>>

\* Mutant: a failed retry does not put the rows back.
FailKeepsRows(f) ==
    /\ row' = IF f \in ConfirmFlows
              THEN [c \in Contacts |-> [row[c] EXCEPT !.st = "over"]]
              ELSE row
    /\ flow' = [flow EXCEPT ![f].pc = "done"]

\* _failCallProgress fails every row of the desk; restoreProgress puts back
\* the rows the retry started from.
Fail(f) ==
    /\ row' = IF f \in ConfirmFlows
              THEN [c \in Contacts |-> [row[c] EXCEPT !.st = "over"]]
              ELSE flow[f].saved
    /\ flow' = [flow EXCEPT ![f].pc = "done"]

\* The plan response: without a handle there is nothing to run.
RecvPlan(f) ==
    /\ flow[f].pc = "plan"
    /\ rep[f].kind = "planned"
    /\ rep' = [rep EXCEPT ![f] = NoReply]
    /\ \/ /\ rep[f].ready = {}
          /\ Fail(f)
          /\ UNCHANGED req
       \/ /\ rep[f].ready # {}
          /\ flow' = [flow EXCEPT ![f].pc = "run", ![f].handles = rep[f].ready]
          /\ req' = [req EXCEPT ![f] = "run"]
          /\ UNCHANGED row
    /\ UNCHANGED <<consented, batch, serverVars, calleVars, restarts>>

InvalidHandle(res) == \E r \in res : r.st = "invalidHandle"
Queued(res) == {r \in res : r.run # None}

\* Mutant: the row takes the status word of the response.
SettledByWord(rows, res) ==
    [c \in Contacts |->
        IF \E r \in res : r.c = c
        THEN LET r == CHOOSE r \in res : r.c = c
             IN  [rows[c] EXCEPT !.st = r.st, !.run = r.run]
        ELSE rows[c]]

\* The rows after a run response: a result with a run is polled, one without
\* failed, and a contact the response does not name keeps its row.
Settled(rows, res) ==
    [c \in Contacts |->
        IF \E r \in Queued(res) : r.c = c
        THEN [rows[c] EXCEPT !.st = "live",
                             !.run = (CHOOSE r \in Queued(res) : r.c = c).run]
        ELSE IF \E r \in res : r.c = c
        THEN [rows[c] EXCEPT !.st = "over"]
        ELSE rows[c]]

\* The run response: one re-plan when a handle was stale, else the rows settle.
RecvRun(f) ==
    /\ flow[f].pc = "run"
    /\ rep[f].kind = "ran"
    /\ rep' = [rep EXCEPT ![f] = NoReply]
    /\ \/ /\ InvalidHandle(rep[f].res)
          /\ flow[f].rnd = 1
          /\ flow' = [flow EXCEPT ![f].pc = "plan", ![f].rnd = 2, ![f].handles = {}]
          /\ req' = [req EXCEPT ![f] = "plan"]
          /\ UNCHANGED row
       \/ /\ ~InvalidHandle(rep[f].res) \/ flow[f].rnd = 2
          /\ Queued(rep[f].res) = {}
          /\ Fail(f)
          /\ UNCHANGED req
       \/ /\ ~InvalidHandle(rep[f].res) \/ flow[f].rnd = 2
          /\ Queued(rep[f].res) # {}
          /\ row' = Settled(row, rep[f].res)
          /\ flow' = [flow EXCEPT ![f].pc = "done"]
          /\ UNCHANGED req
    /\ UNCHANGED <<consented, batch, serverVars, calleVars, restarts>>

\* A network failure, the receive timeout or the 403 of the kill switch: the
\* flow fails, and what a replica does with the request is not undone.
GiveUp(f) ==
    /\ flow[f].pc \in {"plan", "run"}
    /\ Fail(f)
    /\ UNCHANGED <<consented, batch, wireVars, serverVars, calleVars, restarts>>

\* The call of a live row ends and the poll loop of the device sees it.
CallEnds(c) ==
    /\ row[c].st = "live"
    /\ \/ /\ row' = [row EXCEPT ![c].st = "unanswered"]
          /\ unanswered' = unanswered \cup {row[c].run}
       \/ /\ row' = [row EXCEPT ![c].st = "over"]
          /\ UNCHANGED unanswered
    /\ UNCHANGED <<consented, batch, flow, wireVars, serverVars, posts, calls, restarts>>

(* ------------------------------ server -------------------------------- *)

\* PSTN only if the value is the exact lowercase string true.
AllowDial(v) == v = "true"

\* plan-batch: every recipient's old snapshot is replaced or deleted.
ServePlan(f, i) ==
    LET b == flow[f].b
        want == flow[f].want
        ready == IF AllowDial(dialEnv[i]) THEN want \cap Allowlisted ELSE {}
    IN  /\ req[f] = "plan"
        /\ req' = [req EXCEPT ![f] = "none"]
        /\ snaps' = {s \in snaps : ~(s.i = i /\ s.b = b /\ s.c \in want)}
                    \cup [i: {i}, b: {b}, c: ready, tok: {<<f, flow[f].rnd>>}]
        /\ rep' = [rep EXCEPT ![f] = [NoReply EXCEPT !.kind = "planned", !.ready = ready]]
        /\ UNCHANGED <<deviceVars, dialEnv, runIds, job, calleVars, restarts>>

\* run-batch up to the loop over its recipients.
ServeRun(f, i) ==
    /\ req[f] = "run"
    /\ req' = [req EXCEPT ![f] = "none"]
    /\ \/ /\ ~AllowDial(dialEnv[i])
          /\ rep' = [rep EXCEPT ![f] = [NoReply EXCEPT !.kind = "killSwitch"]]
          /\ UNCHANGED job
       \/ /\ AllowDial(dialEnv[i])
          /\ job' = [job EXCEPT ![f] = [NoJob EXCEPT !.i = i, !.todo = flow[f].handles]]
          /\ UNCHANGED rep
    /\ UNCHANGED <<deviceVars, dialEnv, snaps, runIds, calleVars, restarts>>

\* Mutant: both attempts share one store.
RunIdOfEither(i, b, c, a) == {r \in runIds : r.i = i /\ r.b = b /\ r.c = c}

\* get_run_id (attempt 0) and get_retry_run_id (attempt 1).
RunIdOf(i, b, c, a) == {r \in runIds : r.i = i /\ r.b = b /\ r.c = c /\ r.a = a}

HandleValid(i, b, c, tok) == [i |-> i, b |-> b, c |-> c, tok |-> tok] \in snaps

\* What _run_row answers without dialling; the gates of _snapshot_gate read
\* the settings the plan was made under and cannot change their mind.
Refusals(f, c) ==
    LET i == job[f].i
        b == flow[f].b
        a == flow[f].a
        known == RunIdOf(i, b, c, a)
    IN  IF known # {}
        THEN {[c |-> c, st |-> "skippedDuplicate", run |-> r.run] : r \in known}
        ELSE IF \/ a = 1 /\ RunIdOf(i, b, c, 0) = {}
                \/ ~HandleValid(i, b, c, <<f, flow[f].rnd>>)
        THEN {[c |-> c, st |-> "invalidHandle", run |-> None]}
        ELSE {}

Dial(f, c) ==
    [tok |-> <<f, flow[f].rnd>>, b |-> flow[f].b, c |-> c, a |-> flow[f].a]

\* One recipient of _run_row, up to the await of creator.create.
RunRow(f, c) ==
    /\ job[f].i # None
    /\ job[f].cur = None
    /\ c \in job[f].todo
    /\ \/ \E r \in Refusals(f, c) :
            /\ job' = [job EXCEPT ![f].todo = @ \ {c}, ![f].res = @ \cup {r}]
            /\ UNCHANGED posts
       \/ /\ Refusals(f, c) = {}
          /\ job' = [job EXCEPT ![f].todo = @ \ {c}, ![f].cur = c]
          /\ posts' = posts \cup {Dial(f, c)}
    /\ UNCHANGED <<deviceVars, wireVars, dialEnv, snaps, runIds, calls, unanswered, restarts>>

\* create returned a call id: it is stored and the handle is spent.
CreateOK(f) ==
    LET c == job[f].cur
        p == Dial(f, c)
        i == job[f].i
    IN  /\ c # None
        /\ p \notin posts
        /\ \E x \in CallFor(p) :
             /\ runIds' = (runIds \ RunIdOf(i, p.b, c, p.a))
                  \cup {[i |-> i, b |-> p.b, c |-> c, a |-> p.a, run |-> x]}
             /\ job' = [job EXCEPT ![f].cur = None,
                           ![f].res = @ \cup {[c |-> c, st |-> "queued", run |-> x]}]
        /\ snaps' = {s \in snaps : ~(s.i = i /\ s.b = p.b /\ s.c = c)}
        /\ UNCHANGED <<deviceVars, wireVars, dialEnv, calleVars, restarts>>

\* create raised: an error, or the 30 s timeout, CALL-E having the call or not.
CreateFails(f) ==
    /\ job[f].cur # None
    /\ job' = [job EXCEPT ![f].cur = None,
                  ![f].res = @ \cup {[c |-> job[f].cur, st |-> "failed", run |-> None]}]
    /\ UNCHANGED <<deviceVars, wireVars, dialEnv, snaps, runIds, calleVars, restarts>>

\* run-batch answers.
FinishRun(f) ==
    /\ job[f].i # None
    /\ job[f].todo = {}
    /\ job[f].cur = None
    /\ rep' = [rep EXCEPT ![f] = [NoReply EXCEPT !.kind = "ran", !.res = job[f].res]]
    /\ job' = [job EXCEPT ![f] = NoJob]
    /\ UNCHANGED <<deviceVars, req, dialEnv, snaps, runIds, calleVars, restarts>>

\* Crash, redeploy or scale to zero: the store and the open handlers are gone.
Restart(i) ==
    /\ restarts < MaxRestarts
    /\ restarts' = restarts + 1
    /\ \E v \in {"true", "unset"} : dialEnv' = [dialEnv EXCEPT ![i] = v]
    /\ snaps' = {s \in snaps : s.i # i}
    /\ runIds' = {r \in runIds : r.i # i}
    /\ job' = [f \in Flows |-> IF job[f].i = i THEN NoJob ELSE job[f]]
    /\ UNCHANGED <<deviceVars, wireVars, calleVars>>

(* ------------------------------ CALL-E -------------------------------- *)

\* A create request arrives, at any time: a known key names the known call.
Accept(p) ==
    /\ posts' = posts \ {p}
    /\ calls' = IF CallFor(p) = {} THEN calls \cup {p} ELSE calls
    /\ UNCHANGED <<deviceVars, wireVars, serverVars, unanswered, restarts>>

(* --------------------------- specification ---------------------------- *)

Device ==
    \/ \E f \in ConfirmFlows : TapConfirm(f) \/ ConfirmHydrated(f)
    \/ \E f \in RetryFlows : TapRetry(f) \/ RetryHydrated(f)
    \/ \E f \in Flows : HydrateFails(f) \/ RecvPlan(f) \/ RecvRun(f) \/ GiveUp(f)
    \/ \E c \in Contacts : CallEnds(c)

Server ==
    \/ \E f \in Flows, i \in Instances : ServePlan(f, i) \/ ServeRun(f, i)
    \/ \E f \in Flows, c \in Contacts : RunRow(f, c)
    \/ \E f \in Flows : CreateOK(f) \/ CreateFails(f) \/ FinishRun(f)
    \/ \E i \in Instances : Restart(i)

CallE == \E p \in posts : Accept(p)

Next == Device \/ Server \/ CallE

\* The event loop resumes an await that has completed, a request that gets no
\* answer times out, and a poll loop sees every call end or times out; nothing
\* obliges the merchant to tap, a replica to answer or CALL-E to dial.
Fairness ==
    /\ \A f \in ConfirmFlows : WF_vars(ConfirmHydrated(f) \/ HydrateFails(f))
    /\ \A f \in RetryFlows : WF_vars(RetryHydrated(f) \/ HydrateFails(f))
    /\ \A f \in Flows : WF_vars(RecvPlan(f) \/ RecvRun(f) \/ GiveUp(f))
    /\ \A c \in Contacts : WF_vars(CallEnds(c))

Spec == Init /\ [][Next]_vars
FairSpec == Spec /\ Fairness

(* ---------------------------- properties ------------------------------ *)

\* A contact's telephone rings at most once per batch and attempt, whatever
\* timeouts, re-plans, replicas and lost handle stores do (the idempotency
\* key of _run_row is what a second replica cannot forget).
OneCallPerAttempt ==
    \A x, y \in calls :
        x.b = y.b /\ x.c = y.c /\ x.a = y.a => x = y

\* The retry is dialled only for a contact whose first call of that batch
\* ended unanswered (_eligibleRetryContactIds on the device, the get_run_id
\* check of attempt 1 on the server).
RetryOnlyUnanswered ==
    \A x \in calls : x.a = 1 =>
        \E y \in unanswered : y.b = x.b /\ y.c = x.c /\ y.a = 0

\* A row that is polled or has an outcome shows a call that was placed, to
\* that contact, in the desk's batch, and the retry's call once retried.
RowShowsItsCall ==
    \A c \in Contacts :
        row[c].st \in {"live", "unanswered"} =>
            /\ row[c].run \in calls
            /\ row[c].run.c = c
            /\ row[c].run.b = batch
            /\ row[c].run.a = (IF row[c].retried THEN 1 ELSE 0)

\* Every row of the call progress comes to a terminal status, so that the
\* desk offers the retry and dispatches the queued e-mail.
RowsSettle ==
    \A c \in Contacts : (row[c].st \in {"planned", "live"}) ~> Terminal(row[c])

\* The rail implements the promise made to the merchant.
Contract == INSTANCE CallContract WITH Ids <- Tokens
ContractHolds == Contract!Spec
=============================================================================
