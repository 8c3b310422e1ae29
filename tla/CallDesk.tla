------------------------------ MODULE CallDesk ------------------------------
(***************************************************************************)
(* The Collections Desk on the device: the taps, the async code each tap   *)
(* leaves running (Confirm & Call, Retry, Approve & Send), the poll loops  *)
(* with their epoch, and the Drift tables the poll loops write.            *)
(*                                                                         *)
(* closing_agent_controller.dart keeps one mutable state and no owner: an  *)
(* async method goes on after its await whatever desk is open by then.     *)
(* The rail (plan-batch, run-batch, CALL-E) is module CallRail; here a     *)
(* rail round gives runs to some contacts, or fails.  A run is named by    *)
(* the flow that got it and its contact, a batch by its confirm flow.      *)
(* All e-mail rows of a desk share one status, and local database writes   *)
(* do not fail.                                                            *)
(***************************************************************************)
EXTENDS Naturals, FiniteSets

CONSTANTS
    Contacts,       \* contacts of the call rail; each is on the e-mail rail too
    ConfirmFlows,   \* taps of Confirm & Call
    RetryFlows,     \* taps of Retry
    Senders,        \* executions of approveAndSend
    None,
    MaxSessions,    \* bound on desks opened
    MaxDeaths       \* bound on app deaths

Flows == ConfirmFlows \cup RetryFlows

ASSUME FlowsDisjoint == ConfirmFlows \cap RetryFlows = {}
ASSUME NoneIsNoFlow == None \notin Flows \cup Contacts
ASSUME Bounds == MaxSessions \in Nat \ {0} /\ MaxDeaths \in Nat

VARIABLES
    session,     \* desks opened so far (identity of the open or last desk)
    phase,       \* state.phase; "idle" also means that ritualResult is null
    trigger,     \* state.callBatchTrigger
    consented,   \* state.callConsented
    prog,        \* state.callProgress, or None
    batch,       \* state.collectionsBatchId
    pendingSend, \* state.pendingSendAfterCall
    dismissed,   \* state.callRetryDismissed
    failure,     \* state.actionFailure
    dispatching, \* state.collectionsDispatching
    mail,        \* status of the e-mail rows of state.deskRows
    current,     \* the poll loop whose epoch is _callPollEpoch, or None
    flow,        \* where the async code of each tap is
    send,        \* where each execution of approveAndSend is
    runSt,       \* collection_call_runs.raw_status
    batchSt,     \* collection_call_batches.status
    sendTaps,    \* desks on which the merchant tapped a send
    mailed,      \* desks whose rows were handed to send-batch
    deaths       \* app deaths so far

uiVars == <<consented, prog, batch, dismissed, failure, dispatching, mail>>
deskVars == <<session, phase, trigger, pendingSend, current>>
dbVars == <<runSt, batchSt>>
ghostVars == <<sendTaps, mailed, deaths>>
vars == <<uiVars, deskVars, flow, send, dbVars, ghostVars>>

(* ------------------------------ data ---------------------------------- *)

Row == [st: {"planned", "unanswered", "over"}, run: Flows \cup {None}, retried: BOOLEAN]
Progress == UNION {[cs -> Row] : cs \in SUBSET Contacts}

FlowPc == {"idle", "hydrate", "rail", "save", "delay", "poll", "persist", "drain", "done"}
Outcome == {"unanswered", "completed", "review", "failed"}
Flow == [pc: FlowPc, both: BOOLEAN, b: Flows \cup Senders \cup {None},
         want: SUBSET Contacts, saved: Progress \cup {None}, got: SUBSET Contacts,
         pending: SUBSET Contacts, cur: Contacts \cup {None}, out: Outcome \cup {None}]
IdleFlow == [pc |-> "idle", both |-> FALSE, b |-> None, want |-> {}, saved |-> None,
             got |-> {}, pending |-> {}, cur |-> None, out |-> None]

Send == [pc: {"idle", "hydrate", "dispatch"}, ses: 0..MaxSessions]
IdleSend == [pc |-> "idle", ses |-> 0]

Runs == Flows \X Contacts
FinalRun == {"completed", "failed", "timeout"}

TypeOK ==
    /\ session \in 1..MaxSessions
    /\ phase \in {"desk", "report", "idle"}
    /\ trigger \in {"closeDay", "creditLimit"}
    /\ consented \in BOOLEAN
    /\ prog \in Progress \cup {None}
    /\ batch \in Flows \cup Senders \cup {None}
    /\ pendingSend \in BOOLEAN
    /\ dismissed \in BOOLEAN
    /\ failure \in {"none", "network", "other"}
    /\ dispatching \in BOOLEAN
    /\ mail \in {"pending", "sent", "skipped"}
    /\ current \in Flows \cup {None}
    /\ flow \in [Flows -> Flow]
    /\ send \in [Senders -> Send]
    /\ runSt \in [Runs -> {"none", "open"} \cup FinalRun]
    /\ batchSt \in [Flows \cup Senders -> {"none", "running", "completed", "failed"}]
    /\ sendTaps \subseteq 1..MaxSessions
    /\ mailed \subseteq 1..MaxSessions
    /\ deaths \in 0..MaxDeaths

Init ==
    /\ session = 1
    /\ phase = "desk"
    /\ trigger = "closeDay"
    /\ consented = FALSE
    /\ prog = None
    /\ batch = None
    /\ pendingSend = FALSE
    /\ dismissed = FALSE
    /\ failure = "none"
    /\ dispatching = FALSE
    /\ mail = "pending"
    /\ current = None
    /\ flow = [f \in Flows |-> IdleFlow]
    /\ send = [s \in Senders |-> IdleSend]
    /\ runSt = [r \in Runs |-> "none"]
    /\ batchSt = [b \in Flows \cup Senders |-> "none"]
    /\ sendTaps = {}
    /\ mailed = {}
    /\ deaths = 0

(* --------------------------- reading the desk -------------------------- *)

\* progress.isTerminal
AllTerminal(p) == \A c \in DOMAIN p : p[c].st # "planned"

\* No call in progress on the desk: the CTA is enabled, a send may go out.
CallsDone(p) == p # None => AllTerminal(p)

\* _eligibleRetryContactIds, and callRetryOfferCount's set
Eligible(p) == {c \in DOMAIN p : p[c].st = "unanswered" /\ ~p[c].retried}
Offer(p) == IF dismissed \/ p = None \/ ~CallsDone(p) THEN {} ELSE Eligible(p)

\* The consent card of a closing desk; a credit-limit session has its own
\* card, with Retry and Done only.
CtaEnabled == phase = "desk" /\ trigger = "closeDay" /\ CallsDone(prog) /\ ~dispatching

\* Bound on concurrent executions of approveAndSend: a tap leaves one for the
\* send that pendingSendAfterCall stands for.
IdleSenders == {s \in Senders : send[s].pc = "idle"}
SpareSender == Cardinality(IdleSenders) > (IF pendingSend THEN 1 ELSE 0)

(* --------------------- synchronous parts of methods -------------------- *)

\* finishDesk: the report shows, and _completePersistedQueue clears the queue.
FinishDesk ==
    /\ current' = None
    /\ pendingSend' = FALSE
    /\ dismissed' = TRUE
    /\ mail' = IF mail = "pending" THEN "skipped" ELSE mail
    /\ phase' = "report"
    /\ batch' = None
    /\ dispatching' = FALSE

\* approveAndSend up to its first await, from pendingSend = pend and
\* dismissed = dis; finishDesk returns early in a credit-limit session.
ApproveAndSend(pend, dis) ==
    \/ /\ phase # "desk" \/ dispatching
       /\ pendingSend' = pend
       /\ dismissed' = dis
       /\ UNCHANGED <<current, mail, phase, batch, dispatching, send>>
    \/ /\ phase = "desk" /\ ~dispatching /\ mail # "pending" /\ trigger = "closeDay"
       /\ FinishDesk
       /\ UNCHANGED send
    \/ /\ phase = "desk" /\ ~dispatching /\ mail # "pending" /\ trigger = "creditLimit"
       /\ pendingSend' = pend
       /\ dismissed' = dis
       /\ current' = None
       /\ UNCHANGED <<mail, phase, batch, dispatching, send>>
    \/ /\ phase = "desk" /\ ~dispatching /\ mail = "pending"
       /\ pendingSend' = pend
       /\ dismissed' = dis
       /\ current' = None
       /\ \E s \in IdleSenders :
            send' = [send EXCEPT ![s] = [pc |-> "hydrate", ses |-> session]]
       /\ UNCHANGED <<mail, phase, batch, dispatching>>

NoDispatch ==
    UNCHANGED <<pendingSend, dismissed, current, mail, phase, batch, dispatching, send>>

\* _maybeDispatchPendingSendAfterCall, the progress then being p
MaybeDispatch(p) ==
    IF pendingSend /\ CallsDone(p) /\ Offer(p) = {}
    THEN ApproveAndSend(FALSE, dismissed)
    ELSE NoDispatch

(* ------------------------------ taps ---------------------------------- *)

\* commitDeskOutreach with calls, alone or with the send: the call card shows
\* while callConsented is false, and confirmAndCall runs to its first await.
TapCall(f, both) ==
    /\ CtaEnabled
    /\ ~consented
    /\ flow[f].pc = "idle"
    /\ both => IdleSenders # {}
    /\ pendingSend' = both
    /\ dismissed' = FALSE
    /\ flow' = [flow EXCEPT ![f].pc = "hydrate", ![f].both = both, ![f].want = Contacts]
    /\ sendTaps' = IF both THEN sendTaps \cup {session} ELSE sendTaps
    /\ UNCHANGED <<consented, prog, batch, failure, dispatching, mail, session, phase, trigger,
                   current, send, dbVars, mailed, deaths>>

\* commitDeskOutreach with the send alone: confirmWithoutCalling unless calls
\* were consented, then approveAndSend.
TapSend ==
    /\ CtaEnabled
    /\ SpareSender
    /\ mail = "pending"
    /\ prog' = IF consented THEN prog ELSE None
    /\ ApproveAndSend(FALSE, TRUE)
    /\ sendTaps' = sendTaps \cup {session}
    /\ UNCHANGED <<consented, failure, session, trigger, flow, dbVars, mailed, deaths>>

\* commitDeskOutreach with neither: seal the desk.
TapSeal ==
    /\ CtaEnabled
    /\ FinishDesk
    /\ UNCHANGED <<consented, prog, failure, session, trigger, flow, send, dbVars, ghostVars>>

\* Retry sending, shown whenever a failure shows and a row is pending.
TapRetrySend ==
    /\ phase = "desk"
    /\ trigger = "closeDay"
    /\ failure # "none"
    /\ ~dispatching
    /\ mail = "pending"
    /\ SpareSender
    /\ ApproveAndSend(pendingSend, dismissed)
    /\ sendTaps' = sendTaps \cup {session}
    /\ UNCHANGED <<consented, prog, failure, session, trigger, flow, dbVars, mailed, deaths>>

\* retryUnansweredCalls up to its first await
TapRetry(f) ==
    /\ phase = "desk"
    /\ ~dispatching
    /\ flow[f].pc = "idle"
    /\ \A g \in RetryFlows : flow[g].pc \in {"idle", "done"}
    /\ Offer(prog) # {}
    /\ batch # None
    /\ flow' = [flow EXCEPT ![f].pc = "hydrate", ![f].b = batch, ![f].saved = prog,
                            ![f].want = Eligible(prog)]
    /\ UNCHANGED <<uiVars, deskVars, send, dbVars, ghostVars>>

\* _openCollectionsDesk: the state is reset, but neither the poll epoch nor
\* pendingSendAfterCall is.
OpenDesk(t) ==
    /\ session < MaxSessions
    /\ session' = session + 1
    /\ phase' = "desk"
    /\ trigger' = t
    /\ consented' = FALSE
    /\ prog' = None
    /\ batch' = None
    /\ failure' = "none"
    /\ dispatching' = FALSE
    /\ mail' = "pending"
    /\ UNCHANGED <<dismissed, pendingSend, current, send, dbVars, ghostVars>>

\* The next close of the day: it is not begun at a desk, but the desk of a
\* credit limit may have been opened while it ran.
OpenClosingDesk ==
    /\ phase = "desk" => trigger = "creditLimit"
    /\ OpenDesk("closeDay")
    /\ UNCHANGED flow

\* startCreditLimitCallSession: a desk of one contact over its credit limit,
\* and confirmAndCall at once.  The prompt looks at the phase before its awaits
\* and its sheet only, so another desk may be open by now.
OpenCreditLimitDesk(f, c) ==
    /\ OpenDesk("creditLimit")
    /\ flow[f].pc = "idle"
    /\ flow' = [flow EXCEPT ![f].pc = "hydrate", ![f].want = {c}]

\* dismissCreditLimitSession: Done, shown when every row is terminal.
TapDone ==
    /\ phase = "desk"
    /\ trigger = "creditLimit"
    /\ prog # None
    /\ CallsDone(prog)
    /\ phase' = "idle"
    /\ trigger' = "closeDay"
    /\ current' = None
    /\ consented' = FALSE
    /\ prog' = None
    /\ batch' = None
    /\ failure' = "none"
    /\ dispatching' = FALSE
    /\ mail' = "skipped"
    /\ UNCHANGED <<session, dismissed, pendingSend, flow, send, dbVars, ghostVars>>

(* ------------------------- Confirm & Call, Retry ------------------------ *)

\* confirmAndCall, token in hand: consent, a fresh batch, rows planned.
ConfirmHydrated(f) ==
    /\ flow[f].pc = "hydrate"
    /\ consented' = TRUE
    /\ dismissed' = FALSE
    /\ batch' = f
    /\ prog' = [c \in flow[f].want |-> [st |-> "planned", run |-> None, retried |-> FALSE]]
    /\ failure' = "none"
    /\ flow' = [flow EXCEPT ![f].pc = "rail", ![f].b = f]
    /\ UNCHANGED <<dispatching, mail, deskVars, send, dbVars, ghostVars>>

ConfirmHydrateFails(f) ==
    /\ flow[f].pc = "hydrate"
    /\ failure' = "other"
    /\ flow' = [flow EXCEPT ![f].pc = "done"]
    /\ IF flow[f].both THEN MaybeDispatch(prog) ELSE NoDispatch
    /\ UNCHANGED <<consented, prog, session, trigger, dbVars, ghostVars>>

\* _retryUnansweredCallsBody, token in hand
RetryHydrated(f) ==
    /\ flow[f].pc = "hydrate"
    /\ failure' = "none"
    /\ prog' = [c \in DOMAIN flow[f].saved |->
                  IF c \in flow[f].want
                  THEN [flow[f].saved[c] EXCEPT !.st = "planned", !.retried = TRUE]
                  ELSE flow[f].saved[c]]
    /\ flow' = [flow EXCEPT ![f].pc = "rail"]
    /\ UNCHANGED <<consented, batch, dismissed, dispatching, mail, deskVars, send, dbVars, ghostVars>>

RetryHydrateFails(f) ==
    /\ flow[f].pc = "hydrate"
    /\ failure' = "other"
    /\ flow' = [flow EXCEPT ![f].pc = "done"]
    /\ UNCHANGED <<consented, prog, batch, dismissed, dispatching, mail, deskVars, send, dbVars, ghostVars>>

\* The rail gave no run: _failCallProgress fails the rows of whatever desk is
\* open, restoreProgress puts the rows of the retry's tap back.
RailFails(f) ==
    /\ flow[f].pc = "rail"
    /\ failure' = "other"
    /\ flow' = [flow EXCEPT ![f].pc = "done"]
    /\ IF f \in RetryFlows
       THEN prog' = flow[f].saved /\ NoDispatch
       ELSE /\ prog' = IF prog = None THEN None
                       ELSE [c \in DOMAIN prog |-> [prog[c] EXCEPT !.st = "over"]]
            /\ IF prog # None \/ flow[f].both THEN MaybeDispatch(prog') ELSE NoDispatch
    /\ UNCHANGED <<consented, session, trigger, dbVars, ghostVars>>

\* Rows of p after _setCallRowStatus (p may be the progress of another desk).
Paint(p, cs, st, run) ==
    IF p = None THEN None
    ELSE [c \in DOMAIN p |-> IF c \in cs THEN [p[c] EXCEPT !.st = st, !.run = run] ELSE p[c]]

\* The run response gave runs to got and refused bad; a contact the plan
\* rejected is in neither, and its row is left as it is.
RailAnswers(f, got, bad) ==
    /\ flow[f].pc = "rail"
    /\ prog' = LET p == Paint(prog, got, "planned", f)
               IN  IF p = None THEN None
                   ELSE [c \in DOMAIN p |-> IF c \in bad THEN [p[c] EXCEPT !.st = "over"] ELSE p[c]]
    /\ flow' = [flow EXCEPT ![f].pc = "save", ![f].got = got]
    /\ UNCHANGED <<consented, batch, dismissed, failure, dispatching, mail, deskVars, send,
                   dbVars, ghostVars>>

\* Mutant: persistQueuedBatch leaves a batch that is already stored alone.
SaveQueuedKeepsBatch(f) ==
    /\ flow[f].pc = "save"
    /\ runSt' = [r \in Runs |-> IF r[1] = f /\ r[2] \in flow[f].got THEN "open" ELSE runSt[r]]
    /\ batchSt' = [batchSt EXCEPT ![flow[f].b] = IF @ = "none" THEN "running" ELSE @]
    /\ flow' = [flow EXCEPT ![f].pc = "delay", ![f].pending = flow[f].got]
    /\ current' = f
    /\ UNCHANGED <<uiVars, session, phase, trigger, pendingSend, send, ghostVars>>

\* persistQueuedBatch (one transaction), then the start of _pollQueuedCalls:
\* the loop takes the epoch and sleeps the initial delay.
SaveQueued(f) ==
    /\ flow[f].pc = "save"
    /\ runSt' = [r \in Runs |-> IF r[1] = f /\ r[2] \in flow[f].got THEN "open" ELSE runSt[r]]
    /\ batchSt' = [batchSt EXCEPT ![flow[f].b] = "running"]
    /\ flow' = [flow EXCEPT ![f].pc = "delay", ![f].pending = flow[f].got]
    /\ current' = f
    /\ UNCHANGED <<uiVars, session, phase, trigger, pendingSend, send, ghostVars>>

\* The end of the initial delay: a loop that lost the epoch returns here.
DelayOver(f) ==
    /\ flow[f].pc = "delay"
    /\ IF current = f
       THEN flow' = [flow EXCEPT ![f].pc = "poll"] /\ NoDispatch
       ELSE /\ flow' = [flow EXCEPT ![f].pc = "done"]
            /\ IF flow[f].both THEN MaybeDispatch(prog) ELSE NoDispatch
    /\ UNCHANGED <<consented, prog, failure, session, trigger, dbVars, ghostVars>>

(* ----------------------------- poll loop ------------------------------- *)

\* A GET of a call still under way, under the current epoch: the row is
\* planned again, whatever it was, and a network failure is cleared.
PollRuns(f, c) ==
    /\ flow[f].pc = "poll"
    /\ current = f
    /\ c \in flow[f].pending
    /\ prog' = Paint(prog, {c}, "planned", f)
    /\ failure' = IF failure = "network" THEN "none" ELSE failure
    /\ UNCHANGED <<consented, batch, dismissed, dispatching, mail, deskVars, flow, send,
                   dbVars, ghostVars>>

\* A GET fails: surfaced under the current epoch, and the loop goes on.
PollFails(f) ==
    /\ flow[f].pc = "poll"
    /\ current = f
    /\ failure' = "network"
    /\ UNCHANGED <<consented, prog, batch, dismissed, dispatching, mail, deskVars, flow, send,
                   dbVars, ghostVars>>

\* Mutant: the outcome word is the row status.
RowAfterWord(o) == o

RowAfter(o) == IF o = "unanswered" THEN "unanswered" ELSE "over"

\* Mutant: a terminal run stays pending.
PollEndsStaysPending(f, c, o) ==
    /\ flow[f].pc = "poll"
    /\ c \in flow[f].pending
    /\ IF current = f
       THEN /\ prog' = Paint(prog, {c}, RowAfter(o), f)
            /\ failure' = IF failure = "network" THEN "none" ELSE failure
       ELSE UNCHANGED <<prog, failure>>
    /\ flow' = [flow EXCEPT ![f].pc = "persist", ![f].cur = c, ![f].out = o]
    /\ UNCHANGED <<consented, batch, dismissed, dispatching, mail, deskVars, send, dbVars, ghostVars>>

\* A terminal GET: the row is painted if the loop has the epoch, and the
\* loop awaits persistTerminal.
PollEnds(f, c, o) ==
    /\ flow[f].pc = "poll"
    /\ c \in flow[f].pending
    /\ IF current = f
       THEN /\ prog' = Paint(prog, {c}, RowAfter(o), f)
            /\ failure' = IF failure = "network" THEN "none" ELSE failure
       ELSE UNCHANGED <<prog, failure>>
    /\ flow' = [flow EXCEPT ![f].pc = "persist", ![f].cur = c, ![f].out = o,
                            ![f].pending = @ \ {c}]
    /\ UNCHANGED <<consented, batch, dismissed, dispatching, mail, deskVars, send, dbVars, ghostVars>>

RunsOf(b, rs) == {r \in Runs : flow[r[1]].b = b /\ rs[r] # "none"}

\* Mutant: only the last write's needsHuman decides.
FinalizedByLastWrite(b, rs, human) ==
    IF \E r \in RunsOf(b, rs) : rs[r] \notin FinalRun THEN batchSt
    ELSE [batchSt EXCEPT ![b] = IF human THEN "failed" ELSE "completed"]

\* _maybeFinalizeBatchStatus, after the run statuses became rs
Finalized(b, rs, human) ==
    IF \E r \in RunsOf(b, rs) : rs[r] \notin FinalRun THEN batchSt
    ELSE [batchSt EXCEPT ![b] =
            IF human \/ \E r \in RunsOf(b, rs) : rs[r] \in {"failed", "timeout"}
            THEN "failed" ELSE "completed"]

\* Mutant: a loop that lost the epoch does not write.
PersistUnderEpoch(f) ==
    LET rs == [runSt EXCEPT ![<<f, flow[f].cur>>] =
                 IF current # f THEN @
                 ELSE IF flow[f].out = "failed" THEN "failed" ELSE "completed"]
        human == flow[f].out \in {"review", "failed"}
    IN  /\ flow[f].pc = "persist"
        /\ runSt' = rs
        /\ batchSt' = Finalized(flow[f].b, rs, human)
        /\ failure' = IF human /\ current = f THEN "other" ELSE failure
        /\ flow' = [flow EXCEPT ![f].pc = IF flow[f].pending = {} THEN "done" ELSE "poll",
                                ![f].cur = None, ![f].out = None]
        /\ IF flow[f].pending = {} THEN MaybeDispatch(prog) ELSE NoDispatch
        /\ UNCHANGED <<consented, prog, session, trigger, ghostVars>>

\* persistTerminalWrite of the polled run, then the next GET or the loop's end.
Persist(f) ==
    LET rs == [runSt EXCEPT ![<<f, flow[f].cur>>] =
                 IF flow[f].out = "failed" THEN "failed" ELSE "completed"]
        human == flow[f].out \in {"review", "failed"}
    IN  /\ flow[f].pc = "persist"
        /\ runSt' = rs
        /\ batchSt' = Finalized(flow[f].b, rs, human)
        /\ failure' = IF human /\ current = f THEN "other" ELSE failure
        /\ flow' = [flow EXCEPT ![f].pc = IF flow[f].pending = {} THEN "done" ELSE "poll",
                                ![f].cur = None, ![f].out = None]
        /\ IF flow[f].pending = {} THEN MaybeDispatch(prog) ELSE NoDispatch
        /\ UNCHANGED <<consented, prog, session, trigger, ghostVars>>

\* callPollTimeout: what is still pending is closed as a timeout, one by one.
PollTimeout(f) ==
    /\ flow[f].pc = "poll"
    /\ flow' = [flow EXCEPT ![f].pc = "drain"]
    /\ UNCHANGED <<uiVars, deskVars, send, dbVars, ghostVars>>

Drain(f, c) ==
    LET rs == [runSt EXCEPT ![<<f, c>>] = "timeout"]
        last == flow[f].pending = {c}
    IN  /\ flow[f].pc = "drain"
        /\ c \in flow[f].pending
        /\ runSt' = rs
        /\ batchSt' = Finalized(flow[f].b, rs, TRUE)
        /\ prog' = IF current = f /\ prog # None
                   THEN [x \in DOMAIN prog |-> IF x = c THEN [prog[x] EXCEPT !.st = "over"] ELSE prog[x]]
                   ELSE prog
        /\ failure' = IF last /\ current = f THEN "other" ELSE failure
        /\ flow' = [flow EXCEPT ![f].pc = IF last THEN "done" ELSE "drain",
                                ![f].pending = @ \ {c}]
        /\ IF last THEN MaybeDispatch(prog') ELSE NoDispatch
        /\ UNCHANGED <<consented, session, trigger, ghostVars>>

(* --------------------------- Approve & Send ---------------------------- *)

\* approveAndSend, token in hand: nothing of the guard is checked again.
SendHydrated(s) ==
    /\ send[s].pc = "hydrate"
    /\ dispatching' = TRUE
    /\ batch' = s
    /\ failure' = "none"
    /\ send' = [send EXCEPT ![s].pc = "dispatch"]
    /\ mailed' = mailed \cup {send[s].ses}
    /\ UNCHANGED <<consented, prog, dismissed, mail, deskVars, flow, dbVars, sendTaps, deaths>>

SendHydrateFails(s) ==
    /\ send[s].pc = "hydrate"
    /\ failure' = "other"
    /\ send' = [send EXCEPT ![s] = IdleSend]
    /\ UNCHANGED <<consented, prog, batch, dismissed, dispatching, mail, deskVars, flow, dbVars,
                   ghostVars>>

\* send-batch answered, or needs a human: the report shows, over whatever
\* desk is open, and the queue is cleared.
Dispatched(s) ==
    /\ send[s].pc = "dispatch"
    /\ dispatching' = FALSE
    /\ mail' = "sent"
    /\ phase' = IF phase = "idle" THEN "idle" ELSE "report"
    /\ batch' = None
    /\ failure' \in {failure, "other"}
    /\ send' = [send EXCEPT ![s] = IdleSend]
    /\ UNCHANGED <<consented, prog, dismissed, session, trigger, pendingSend, current, flow,
                   dbVars, ghostVars>>

\* send-batch failed: the desk stays and shows the failure.
DispatchFails(s) ==
    /\ send[s].pc = "dispatch"
    /\ dispatching' = FALSE
    /\ failure' = "other"
    /\ batch' = IF phase = "idle" THEN batch ELSE s
    /\ send' = [send EXCEPT ![s] = IdleSend]
    /\ UNCHANGED <<consented, prog, dismissed, mail, deskVars, flow, dbVars, ghostVars>>

\* The process dies: only the database is left.
AppDies ==
    /\ deaths < MaxDeaths
    /\ deaths' = deaths + 1
    /\ phase' = "idle"
    /\ trigger' = "closeDay"
    /\ consented' = FALSE
    /\ prog' = None
    /\ batch' = None
    /\ pendingSend' = FALSE
    /\ dismissed' = FALSE
    /\ failure' = "none"
    /\ dispatching' = FALSE
    /\ mail' = "skipped"
    /\ current' = None
    /\ flow' = [f \in Flows |-> IF flow[f].pc = "idle" THEN flow[f]
                                ELSE [IdleFlow EXCEPT !.pc = "done", !.b = flow[f].b]]
    /\ send' = [s \in Senders |-> IdleSend]
    /\ UNCHANGED <<session, dbVars, sendTaps, mailed>>

(* --------------------------- specification ---------------------------- *)

Taps ==
    \/ \E f \in ConfirmFlows, both \in BOOLEAN : TapCall(f, both)
    \/ \E f \in RetryFlows : TapRetry(f)
    \/ TapSend \/ TapSeal \/ TapRetrySend \/ TapDone
    \/ OpenClosingDesk
    \/ \E f \in ConfirmFlows, c \in Contacts : OpenCreditLimitDesk(f, c)

Hydrated(f) == IF f \in ConfirmFlows THEN ConfirmHydrated(f) ELSE RetryHydrated(f)
HydrateFails(f) == IF f \in ConfirmFlows THEN ConfirmHydrateFails(f) ELSE RetryHydrateFails(f)

RailStep(f) ==
    \/ RailFails(f)
    \/ \E got \in (SUBSET flow[f].want) \ {{}} :
         \E bad \in SUBSET (flow[f].want \ got) : RailAnswers(f, got, bad)

PollStep(f) ==
    \/ SaveQueued(f) \/ DelayOver(f)
    \/ \E c \in Contacts, o \in Outcome : PollEnds(f, c, o)
    \/ Persist(f) \/ PollTimeout(f)
    \/ \E c \in Contacts : Drain(f, c)

FlowStep(f) ==
    \/ Hydrated(f) \/ HydrateFails(f) \/ RailStep(f) \/ PollStep(f) \/ PollFails(f)
    \/ \E c \in Contacts : PollRuns(f, c)

SendStep(s) == SendHydrated(s) \/ SendHydrateFails(s) \/ Dispatched(s) \/ DispatchFails(s)

Next ==
    \/ Taps
    \/ \E f \in Flows : FlowStep(f)
    \/ \E s \in Senders : SendStep(s)
    \/ AppDies

\* Timers fire and transactions commit; a GET that never ends a call meets the
\* poll timeout.  Taps, networks and senders are not fair.
Fairness == \A f \in Flows : WF_vars(PollStep(f))

Spec == Init /\ [][Next]_vars
FairSpec == Spec /\ Fairness

(* ---------------------------- properties ------------------------------ *)

\* A batch is filed completed or failed only when every run saved under it has
\* its raw status, the runs of a retry too (persistQueuedBatch reopens it).
BatchClosesLast ==
    \A b \in DOMAIN batchSt : batchSt[b] \in {"completed", "failed"} =>
        \A r \in RunsOf(b, runSt) : runSt[r] \in FinalRun

\* A batch filed completed has no run that failed or timed out.
CompletedIsClean ==
    \A b \in DOMAIN batchSt : batchSt[b] = "completed" =>
        \A r \in RunsOf(b, runSt) : runSt[r] = "completed"

\* A run's raw status is written once: no later loop, retry or desk rewrites it.
RunFiledOnce ==
    [][\A r \in Runs : runSt[r] \in FinalRun => runSt'[r] = runSt[r]]_vars

\* A run whose loop survived the initial delay is filed, whatever becomes of
\* the desk and of the epoch (terminal Drift must not lose the runId).
PolledRunIsFiled ==
    \A r \in Runs :
        (flow[r[1]].pc = "poll" /\ r[2] \in flow[r[1]].pending)
            ~> (runSt[r] \in FinalRun \/ deaths > 0)

\* Rows go to send-batch only from a desk on which the merchant tapped a send.
SendNeedsConsent == mailed \subseteq sendTaps
=============================================================================
