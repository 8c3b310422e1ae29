--------------------------- MODULE CallDeskProofs ---------------------------
(* What CallDesk keeps for any number of contacts, taps, retries, sends,   *)
(* desks and app deaths: the Drift tables agree with one another.          *)
EXTENDS CallDesk, TLAPS

(* --------------------------- the invariant ---------------------------- *)

\* A retry on its way to the rail has the rows of its tap to put back.
SavedOK ==
    \A f \in RetryFlows : flow[f].pc \in {"hydrate", "rail"} => flow[f].saved \in Progress

\* A send under way remembers the desk it was tapped on.
SendOK == \A s \in Senders : send[s].pc # "idle" => send[s].ses # 0

\* What flow f has saved.  Before persistQueuedBatch it has no run in Drift,
\* whatever batch it is given; what its loop still polls, and the run whose
\* terminal write is under way, have no raw status yet.
FlowRuns(f) ==
    /\ flow[f].pc \in {"idle", "hydrate", "rail", "save"} =>
          \A c \in Contacts : runSt[<<f, c>>] = "none"
    /\ \A c \in flow[f].pending : runSt[<<f, c>>] = "open"
    /\ flow[f].pc = "persist" =>
          /\ flow[f].cur \in Contacts \ flow[f].pending
          /\ flow[f].out \in Outcome
          /\ runSt[<<f, flow[f].cur>>] = "open"

RunsOK == \A f \in Flows : FlowRuns(f)

TypeInv == TypeOK /\ SavedOK /\ SendOK

(* ---------------------- progress and its operators --------------------- *)

LEMMA ProgressIntro ==
  ASSUME NEW cs \in SUBSET Contacts, NEW p \in [cs -> Row]
  PROVE  p \in Progress
BY DEF Progress

LEMMA ProgressElim ==
  ASSUME NEW p \in Progress
  PROVE  /\ DOMAIN p \subseteq Contacts
         /\ p \in [DOMAIN p -> Row]
<1>1. PICK cs \in SUBSET Contacts : p \in [cs -> Row]
  BY DEF Progress
<1>2. DOMAIN p = cs
  BY <1>1
<1> QED
  BY <1>1, <1>2

LEMMA RowFields ==
  ASSUME NEW r \in Row, NEW st \in {"planned", "unanswered", "over"}
  PROVE  /\ [r EXCEPT !.st = st] \in Row
         /\ \A f \in Flows : [r EXCEPT !.st = st, !.run = f] \in Row
         /\ [r EXCEPT !.st = st, !.retried = TRUE] \in Row
BY DEF Row

\* _setCallRowStatus gives rows a status and a run, and adds no row.
LEMMA PaintType ==
  ASSUME NEW p \in Progress \cup {None}, NEW cs, NEW f \in Flows,
         NEW st \in {"planned", "unanswered", "over"}
  PROVE  Paint(p, cs, st, f) \in Progress \cup {None}
<1>1. CASE p = None
  BY <1>1 DEF Paint
<1>2. CASE p # None
  <2>1. p \in Progress
    BY <1>2
  <2>2. /\ DOMAIN p \subseteq Contacts
        /\ p \in [DOMAIN p -> Row]
    BY <2>1, ProgressElim
  <2> DEFINE q == [c \in DOMAIN p |-> IF c \in cs THEN [p[c] EXCEPT !.st = st, !.run = f] ELSE p[c]]
  <2>3. ASSUME NEW c \in DOMAIN p
        PROVE  (IF c \in cs THEN [p[c] EXCEPT !.st = st, !.run = f] ELSE p[c]) \in Row
    <3>1. p[c] \in Row
      BY <2>2, Zenon
    <3>2. [p[c] EXCEPT !.st = st, !.run = f] \in Row
      BY <3>1, RowFields, Zenon
    <3> QED
      BY <3>1, <3>2
  <2>4. q \in [DOMAIN p -> Row]
    BY <2>3
  <2>5. q \in Progress
    BY <2>2, <2>4, ProgressIntro
  <2> QED
    BY <1>2, <2>5 DEF Paint
<1> QED
  BY <1>1, <1>2

\* A row that a failure or the timeout ends keeps everything but its status.
LEMMA OverType ==
  ASSUME NEW p \in Progress, NEW cs
  PROVE  [c \in DOMAIN p |-> IF c \in cs THEN [p[c] EXCEPT !.st = "over"] ELSE p[c]] \in Progress
<1>1. /\ DOMAIN p \subseteq Contacts
      /\ p \in [DOMAIN p -> Row]
  BY ProgressElim
<1> DEFINE q == [c \in DOMAIN p |-> IF c \in cs THEN [p[c] EXCEPT !.st = "over"] ELSE p[c]]
<1>2. ASSUME NEW c \in DOMAIN p
      PROVE  (IF c \in cs THEN [p[c] EXCEPT !.st = "over"] ELSE p[c]) \in Row
  <2>1. p[c] \in Row
    BY <1>1
  <2>2. [p[c] EXCEPT !.st = "over"] \in Row
    BY <2>1, RowFields, Zenon
  <2> QED
    BY <2>1, <2>2
<1>3. q \in [DOMAIN p -> Row]
  BY <1>2
<1> QED
  BY <1>1, <1>3, ProgressIntro, ZenonT(40)

LEMMA EligibleContacts ==
  ASSUME NEW p \in Progress
  PROVE  Eligible(p) \subseteq Contacts
BY ProgressElim DEF Eligible

(* ------------------------------- types -------------------------------- *)

\* What approveAndSend and the end of a desk write.
DispatchVarsOK ==
    /\ pendingSend \in BOOLEAN
    /\ dismissed \in BOOLEAN
    /\ current \in Flows \cup {None}
    /\ mail \in {"pending", "sent", "skipped"}
    /\ phase \in {"desk", "report", "idle"}
    /\ batch \in Flows \cup Senders \cup {None}
    /\ dispatching \in BOOLEAN
    /\ send \in [Senders -> Send]
    /\ SendOK

\* What approveAndSend does before its first await leaves well-typed state.
LEMMA ApproveTypes ==
  ASSUME TypeInv, NEW pend \in BOOLEAN, NEW dis \in BOOLEAN, ApproveAndSend(pend, dis)
  PROVE  DispatchVarsOK'
<1> USE DEF TypeInv, TypeOK, SendOK, DispatchVarsOK
<1>1. CASE phase # "desk" \/ dispatching
  BY <1>1 DEF ApproveAndSend
<1>2. CASE phase = "desk" /\ ~dispatching /\ mail # "pending" /\ trigger = "closeDay"
  BY <1>2 DEF ApproveAndSend, FinishDesk
<1>3. CASE phase = "desk" /\ ~dispatching /\ mail # "pending" /\ trigger = "creditLimit"
  BY <1>3 DEF ApproveAndSend
<1>4. CASE phase = "desk" /\ ~dispatching /\ mail = "pending"
  <2>1. /\ pendingSend' = pend
        /\ dismissed' = dis
        /\ current' = None
        /\ UNCHANGED <<mail, phase, batch, dispatching>>
    BY <1>4 DEF ApproveAndSend
  <2>2. PICK s \in IdleSenders : send' = [send EXCEPT ![s] = [pc |-> "hydrate", ses |-> session]]
    BY <1>4 DEF ApproveAndSend
  <2>3. s \in Senders
    BY DEF IdleSenders
  <2>4. [pc |-> "hydrate", ses |-> session] \in Send /\ session # 0
    BY Bounds DEF Send
  <2>5. send' \in [Senders -> Send]
    BY <2>2, <2>3, <2>4
  <2>6. ASSUME NEW u \in Senders, send'[u].pc # "idle" PROVE send'[u].ses # 0
    BY <2>2, <2>3, <2>4, <2>6
  <2> QED
    BY <2>1, <2>5, <2>6
<1> QED
  BY <1>1, <1>2, <1>3, <1>4

LEMMA NoDispatchTypes ==
  ASSUME TypeInv, NoDispatch
  PROVE  DispatchVarsOK'
BY DEF TypeInv, TypeOK, SendOK, DispatchVarsOK, NoDispatch

LEMMA MaybeTypes ==
  ASSUME TypeInv, NEW p, MaybeDispatch(p)
  PROVE  DispatchVarsOK'
<1>1. CASE ApproveAndSend(FALSE, dismissed)
  BY <1>1, ApproveTypes DEF TypeInv, TypeOK
<1>2. CASE NoDispatch
  BY <1>2, NoDispatchTypes
<1> QED
  BY <1>1, <1>2 DEF MaybeDispatch

\* The rest of the type invariant, by who writes it.
FlowsOK == flow \in [Flows -> Flow] /\ SavedOK
TablesOK ==
    /\ runSt \in [Runs -> {"none", "open"} \cup FinalRun]
    /\ batchSt \in [Flows \cup Senders -> {"none", "running", "completed", "failed"}]
RowsOK ==
    /\ session \in 1..MaxSessions
    /\ trigger \in {"closeDay", "creditLimit"}
    /\ consented \in BOOLEAN
    /\ prog \in Progress \cup {None}
    /\ failure \in {"none", "network", "other"}
    /\ sendTaps \subseteq 1..MaxSessions
    /\ mailed \subseteq 1..MaxSessions
    /\ deaths \in 0..MaxDeaths

LEMMA TypeParts ==
  /\ TypeInv <=> DispatchVarsOK /\ FlowsOK /\ TablesOK /\ RowsOK
  /\ TypeInv' <=> DispatchVarsOK' /\ FlowsOK' /\ TablesOK' /\ RowsOK'
BY DEF TypeInv, TypeOK, DispatchVarsOK, FlowsOK, TablesOK, RowsOK

\* A flow stays well typed when the fields a handler assigns do.
LEMMA FlowStays ==
  ASSUME FlowsOK, NEW f \in Flows, NEW r \in Flow,
         flow' = [flow EXCEPT ![f] = r],
         f \in RetryFlows /\ r.pc \in {"hydrate", "rail"} => r.saved \in Progress
  PROVE  FlowsOK'
BY DEF FlowsOK, SavedOK, Flows

LEMMA TypeInit == Init => TypeInv
<1> SUFFICES ASSUME Init PROVE TypeInv
  OBVIOUS
<1>1. IdleFlow \in Flow
  BY DEF IdleFlow, Flow, FlowPc
<1>2. IdleSend \in Send
  BY Bounds DEF IdleSend, Send
<1>3. FlowsOK
  BY <1>1 DEF Init, FlowsOK, SavedOK, IdleFlow, Flows
<1>4. DispatchVarsOK
  BY <1>2 DEF Init, DispatchVarsOK, SendOK, IdleSend
<1>5. TablesOK
  BY DEF Init, TablesOK
<1>6. RowsOK
  <2>1. 1 \in 1..MaxSessions /\ 0 \in 0..MaxDeaths
    BY Bounds
  <2> QED
    BY <2>1 DEF Init, RowsOK
<1> QED
  BY <1>3, <1>4, <1>5, <1>6, TypeParts

LEMMA TapsTypes ==
  ASSUME TypeInv, Taps
  PROVE  TypeInv'
<1> USE TypeParts
<1>0. DispatchVarsOK /\ FlowsOK /\ TablesOK /\ RowsOK
  OBVIOUS
<1>1. ASSUME NEW f \in ConfirmFlows, NEW both \in BOOLEAN, TapCall(f, both) PROVE TypeInv'
  <2>1. flow[f] \in Flow /\ f \in Flows /\ f \notin RetryFlows
    BY <1>0, FlowsDisjoint DEF FlowsOK, Flows
  <2>2. flow' = [flow EXCEPT ![f] = [@ EXCEPT !.pc = "hydrate", !.both = both, !.want = Contacts]]
    BY <1>1, <2>1, <1>0 DEF TapCall, FlowsOK
  <2>3. [flow[f] EXCEPT !.pc = "hydrate", !.both = both, !.want = Contacts] \in Flow
    BY <2>1 DEF Flow, FlowPc
  <2>4. FlowsOK'
    BY <1>0, <2>1, <2>2, <2>3, FlowStays
  <2>5. DispatchVarsOK' /\ TablesOK' /\ RowsOK'
    BY <1>0, <1>1, ZenonT(40) DEF TapCall, DispatchVarsOK, TablesOK, RowsOK, SendOK, dbVars
  <2> QED
    BY <2>4, <2>5
<1>2. CASE TapSend
  <2>1. DispatchVarsOK'
    BY <1>2, ApproveTypes DEF TapSend
  <2>2. FlowsOK' /\ TablesOK' /\ RowsOK'
    BY <1>0, <1>2 DEF TapSend, FlowsOK, SavedOK, TablesOK, RowsOK, dbVars
  <2> QED
    BY <2>1, <2>2
<1>3. CASE TapSeal
  <2>1. DispatchVarsOK'
    BY <1>0, <1>3 DEF TapSeal, FinishDesk, DispatchVarsOK, SendOK
  <2>2. FlowsOK' /\ TablesOK' /\ RowsOK'
    BY <1>0, <1>3 DEF TapSeal, FlowsOK, SavedOK, TablesOK, RowsOK, dbVars, ghostVars
  <2> QED
    BY <2>1, <2>2
<1>4. CASE TapRetrySend
  <2>1. DispatchVarsOK'
    BY <1>4, <1>0, ApproveTypes DEF TapRetrySend, DispatchVarsOK
  <2>2. FlowsOK' /\ TablesOK' /\ RowsOK'
    BY <1>0, <1>4 DEF TapRetrySend, FlowsOK, SavedOK, TablesOK, RowsOK, dbVars
  <2> QED
    BY <2>1, <2>2
<1>5. CASE TapDone
  <2>1. DispatchVarsOK'
    BY <1>0, <1>5 DEF TapDone, DispatchVarsOK, SendOK
  <2>2. FlowsOK' /\ TablesOK' /\ RowsOK'
    BY <1>0, <1>5 DEF TapDone, FlowsOK, SavedOK, TablesOK, RowsOK, dbVars, ghostVars
  <2> QED
    BY <2>1, <2>2
<1>6. ASSUME NEW f \in RetryFlows, TapRetry(f) PROVE TypeInv'
  <2>1. flow[f] \in Flow /\ f \in Flows
    BY <1>0 DEF FlowsOK, Flows
  <2>2. prog \in Progress
    BY <1>6, <1>0 DEF TapRetry, Offer, RowsOK
  <2> DEFINE r == [flow[f] EXCEPT !.pc = "hydrate", !.b = batch, !.saved = prog,
                                  !.want = Eligible(prog)]
  <2>3. flow' = [flow EXCEPT ![f] = r]
    BY <1>6, <2>1, <1>0 DEF TapRetry, FlowsOK
  <2>4. Eligible(prog) \subseteq Contacts /\ batch \in Flows \cup Senders \cup {None}
    BY <2>2, <1>0, EligibleContacts DEF DispatchVarsOK
  <2>5. r \in Flow /\ r.saved \in Progress
    BY <2>1, <2>2, <2>4 DEF Flow, FlowPc
  <2>6. FlowsOK'
    BY <1>0, <2>1, <2>3, <2>5, FlowStays
  <2>7. DispatchVarsOK' /\ TablesOK' /\ RowsOK'
    BY <1>0, <1>6 DEF TapRetry, DispatchVarsOK, TablesOK, RowsOK, SendOK, uiVars, deskVars,
                      dbVars, ghostVars
  <2> QED
    BY <2>6, <2>7
<1>7. ASSUME NEW t \in {"closeDay", "creditLimit"}, OpenDesk(t)
      PROVE  DispatchVarsOK' /\ TablesOK' /\ RowsOK'
  <2>1. session' \in 1..MaxSessions
    BY <1>0, <1>7, Bounds DEF OpenDesk, RowsOK
  <2>2. RowsOK'
    BY <1>0, <1>7, <2>1 DEF OpenDesk, RowsOK, ghostVars
  <2>3. DispatchVarsOK' /\ TablesOK'
    BY <1>0, <1>7 DEF OpenDesk, DispatchVarsOK, SendOK, TablesOK, dbVars
  <2> QED
    BY <2>2, <2>3
<1>8. CASE OpenClosingDesk
  <2>1. FlowsOK'
    BY <1>0, <1>8 DEF OpenClosingDesk, FlowsOK, SavedOK
  <2> QED
    BY <1>7, <1>8, <2>1 DEF OpenClosingDesk
<1>9. ASSUME NEW f \in ConfirmFlows, NEW c \in Contacts, OpenCreditLimitDesk(f, c)
      PROVE  TypeInv'
  <2>1. flow[f] \in Flow /\ f \in Flows /\ f \notin RetryFlows
    BY <1>0, FlowsDisjoint DEF FlowsOK, Flows
  <2>2. flow' = [flow EXCEPT ![f] = [@ EXCEPT !.pc = "hydrate", !.want = {c}]]
    BY <1>9, <2>1, <1>0 DEF OpenCreditLimitDesk, FlowsOK
  <2>3. [flow[f] EXCEPT !.pc = "hydrate", !.want = {c}] \in Flow
    BY <2>1 DEF Flow, FlowPc
  <2>4. FlowsOK'
    BY <1>0, <2>1, <2>2, <2>3, FlowStays
  <2> QED
    BY <1>7, <1>9, <2>4 DEF OpenCreditLimitDesk
<1> QED
  BY <1>1, <1>2, <1>3, <1>4, <1>5, <1>6, <1>8, <1>9 DEF Taps

\* The steps of Confirm & Call and of Retry up to persistQueuedBatch.
LEMMA RailTypes ==
  ASSUME TypeInv, NEW f \in Flows,
         Hydrated(f) \/ HydrateFails(f) \/ RailStep(f) \/ SaveQueued(f)
  PROVE  TypeInv'
<1> USE TypeParts
<1>0. /\ DispatchVarsOK /\ FlowsOK /\ TablesOK /\ RowsOK
      /\ flow \in [Flows -> Flow] /\ flow[f] \in Flow
  BY DEF FlowsOK
<1>1. CASE f \in ConfirmFlows /\ ConfirmHydrated(f)
  <2> DEFINE r == [flow[f] EXCEPT !.pc = "rail", !.b = f]
  <2> DEFINE p == [c \in flow[f].want |-> [st |-> "planned", run |-> None, retried |-> FALSE]]
  <2>1. flow' = [flow EXCEPT ![f] = r]
    BY <1>0, <1>1 DEF ConfirmHydrated
  <2>2. r \in Flow /\ f \notin RetryFlows /\ flow[f].want \subseteq Contacts
    BY <1>0, <1>1, FlowsDisjoint DEF Flow, FlowPc
  <2>3. FlowsOK'
    BY <1>0, <2>1, <2>2, FlowStays
  <2>4. p \in [flow[f].want -> Row]
    BY DEF Row
  <2>5. p \in Progress
    BY <2>2, <2>4, ProgressIntro
  <2>6. RowsOK'
    BY <1>0, <1>1, <2>5 DEF ConfirmHydrated, RowsOK, deskVars, ghostVars
  <2>7. DispatchVarsOK' /\ TablesOK'
    BY <1>0, <1>1 DEF ConfirmHydrated, DispatchVarsOK, SendOK, TablesOK, deskVars, dbVars
  <2> QED
    BY <2>3, <2>6, <2>7
<1>2. CASE f \in ConfirmFlows /\ ConfirmHydrateFails(f)
  <2> DEFINE r == [flow[f] EXCEPT !.pc = "done"]
  <2>1. flow' = [flow EXCEPT ![f] = r]
    BY <1>0, <1>2 DEF ConfirmHydrateFails
  <2>2. r \in Flow /\ r.pc = "done"
    BY <1>0 DEF Flow, FlowPc
  <2>3. FlowsOK'
    BY <1>0, <2>1, <2>2, FlowStays
  <2>4. DispatchVarsOK'
    BY <1>2, MaybeTypes, NoDispatchTypes DEF ConfirmHydrateFails
  <2>5. RowsOK' /\ TablesOK'
    BY <1>0, <1>2 DEF ConfirmHydrateFails, RowsOK, TablesOK, dbVars, ghostVars
  <2> QED
    BY <2>3, <2>4, <2>5
<1>3. CASE f \in RetryFlows /\ RetryHydrated(f)
  <2> DEFINE r == [flow[f] EXCEPT !.pc = "rail"]
  <2> DEFINE s == flow[f].saved
  <2> DEFINE p == [c \in DOMAIN s |-> IF c \in flow[f].want
                                     THEN [s[c] EXCEPT !.st = "planned", !.retried = TRUE]
                                     ELSE s[c]]
  <2>1. flow' = [flow EXCEPT ![f] = r]
    BY <1>0, <1>3 DEF RetryHydrated
  <2>2. s \in Progress
    BY <1>0, <1>3 DEF RetryHydrated, FlowsOK, SavedOK
  <2>3. r \in Flow /\ r.saved = s
    BY <1>0 DEF Flow, FlowPc
  <2>4. FlowsOK'
    BY <1>0, <2>1, <2>2, <2>3, FlowStays, Zenon
  <2>5. DOMAIN s \subseteq Contacts /\ s \in [DOMAIN s -> Row]
    BY <2>2, ProgressElim
  <2>6. ASSUME NEW c \in DOMAIN s
        PROVE  (IF c \in flow[f].want THEN [s[c] EXCEPT !.st = "planned", !.retried = TRUE]
                                      ELSE s[c]) \in Row
    <3>1. s[c] \in Row
      BY <2>5
    <3>2. [s[c] EXCEPT !.st = "planned", !.retried = TRUE] \in Row
      BY <3>1, RowFields, Zenon
    <3> QED
      BY <3>1, <3>2
  <2>7. p \in [DOMAIN s -> Row]
    BY <2>6
  <2>8. p \in Progress
    BY <2>5, <2>7, ProgressIntro
  <2>9. prog' = p
    BY <1>3 DEF RetryHydrated
  <2>10. RowsOK'
    BY <1>0, <1>3, <2>8, <2>9 DEF RetryHydrated, RowsOK, deskVars, ghostVars
  <2>11. DispatchVarsOK' /\ TablesOK'
    BY <1>0, <1>3 DEF RetryHydrated, DispatchVarsOK, SendOK, TablesOK, deskVars, dbVars
  <2> QED
    BY <2>4, <2>10, <2>11
<1>4. CASE f \in RetryFlows /\ RetryHydrateFails(f)
  <2> DEFINE r == [flow[f] EXCEPT !.pc = "done"]
  <2>1. flow' = [flow EXCEPT ![f] = r]
    BY <1>0, <1>4 DEF RetryHydrateFails
  <2>2. r \in Flow /\ r.pc = "done"
    BY <1>0 DEF Flow, FlowPc
  <2>3. FlowsOK'
    BY <1>0, <2>1, <2>2, FlowStays
  <2>4. DispatchVarsOK' /\ RowsOK' /\ TablesOK'
    BY <1>0, <1>4 DEF RetryHydrateFails, DispatchVarsOK, SendOK, RowsOK, TablesOK, deskVars,
                      dbVars, ghostVars
  <2> QED
    BY <2>3, <2>4
<1>5. CASE RailFails(f)
  <2> DEFINE r == [flow[f] EXCEPT !.pc = "done"]
  <2>1. flow' = [flow EXCEPT ![f] = r]
    BY <1>0, <1>5 DEF RailFails
  <2>2. r \in Flow /\ r.pc = "done"
    BY <1>0 DEF Flow, FlowPc
  <2>3. FlowsOK'
    BY <1>0, <2>1, <2>2, FlowStays
  <2>4. DispatchVarsOK'
    BY <1>5, MaybeTypes, NoDispatchTypes DEF RailFails
  <2>5. prog' \in Progress \cup {None}
    <3>1. CASE f \in RetryFlows
      BY <1>0, <1>5, <3>1 DEF RailFails, Flow
    <3>2. CASE f \notin RetryFlows /\ prog = None
      BY <1>5, <3>2 DEF RailFails
    <3>3. CASE f \notin RetryFlows /\ prog # None
      <4> DEFINE q == [c \in DOMAIN prog |->
                         IF c \in DOMAIN prog THEN [prog[c] EXCEPT !.st = "over"] ELSE prog[c]]
      <4>1. prog \in Progress
        BY <1>0, <3>3 DEF RowsOK
      <4>2. q \in Progress
        BY <4>1, OverType
      <4>3. prog' = q
        BY <1>5, <3>3 DEF RailFails
      <4> QED
        BY <4>2, <4>3
    <3> QED
      BY <3>1, <3>2, <3>3
  <2>6. RowsOK' /\ TablesOK'
    BY <1>0, <1>5, <2>5 DEF RailFails, RowsOK, TablesOK, dbVars, ghostVars
  <2> QED
    BY <2>3, <2>4, <2>6
<1>6. ASSUME NEW got \in SUBSET flow[f].want, NEW bad \in SUBSET (flow[f].want \ got),
             RailAnswers(f, got, bad)
      PROVE  TypeInv'
  <2> DEFINE r == [flow[f] EXCEPT !.pc = "save", !.got = got]
  <2> DEFINE p == Paint(prog, got, "planned", f)
  <2>1. flow' = [flow EXCEPT ![f] = r]
    BY <1>0, <1>6 DEF RailAnswers
  <2>2. got \subseteq Contacts
    BY <1>0 DEF Flow
  <2>3. r \in Flow /\ r.pc = "save"
    BY <1>0, <2>2 DEF Flow, FlowPc
  <2>4. FlowsOK'
    BY <1>0, <2>1, <2>3, FlowStays
  <2>5. p \in Progress \cup {None}
    BY <1>0, PaintType DEF RowsOK
  <2>6. prog' \in Progress \cup {None}
    <3>1. CASE p = None
      BY <1>6, <3>1 DEF RailAnswers
    <3>2. CASE p # None
      BY <1>6, <2>5, <3>2, OverType DEF RailAnswers
    <3> QED
      BY <3>1, <3>2
  <2>7. DispatchVarsOK' /\ RowsOK' /\ TablesOK'
    BY <1>0, <1>6, <2>6 DEF RailAnswers, DispatchVarsOK, SendOK, RowsOK, TablesOK, deskVars,
                            dbVars, ghostVars
  <2> QED
    BY <2>4, <2>7
<1>7. CASE SaveQueued(f)
  <2> DEFINE r == [flow[f] EXCEPT !.pc = "delay", !.pending = flow[f].got]
  <2>1. flow' = [flow EXCEPT ![f] = r]
    BY <1>0, <1>7 DEF SaveQueued
  <2>2. r \in Flow /\ r.pc = "delay"
    BY <1>0 DEF Flow, FlowPc
  <2>3. FlowsOK'
    BY <1>0, <2>1, <2>2, FlowStays
  <2>4. TablesOK'
    <3>1. runSt' \in [Runs -> {"none", "open"} \cup FinalRun]
      BY <1>0, <1>7 DEF SaveQueued, TablesOK
    <3>2. batchSt' \in [Flows \cup Senders -> {"none", "running", "completed", "failed"}]
      BY <1>0, <1>7 DEF SaveQueued, TablesOK
    <3> QED
      BY <3>1, <3>2 DEF TablesOK
  <2>5. DispatchVarsOK' /\ RowsOK'
    BY <1>0, <1>7 DEF SaveQueued, DispatchVarsOK, SendOK, RowsOK, uiVars, ghostVars
  <2> QED
    BY <2>3, <2>4, <2>5
<1> QED
  BY <1>1, <1>2, <1>3, <1>4, <1>5, <1>6, <1>7 DEF Hydrated, HydrateFails, RailStep, Flows

\* _maybeFinalizeBatchStatus leaves a table of batch states.
LEMMA FinalizedType ==
  ASSUME TypeInv, NEW b, NEW rs, NEW human
  PROVE  Finalized(b, rs, human)
           \in [Flows \cup Senders -> {"none", "running", "completed", "failed"}]
<1>1. batchSt \in [Flows \cup Senders -> {"none", "running", "completed", "failed"}]
  BY DEF TypeInv, TypeOK
<1> QED
  BY <1>1 DEF Finalized

\* The steps of a poll loop.
LEMMA PollTypes ==
  ASSUME TypeInv, NEW f \in Flows, PollStep(f)
  PROVE  TypeInv'
<1> USE TypeParts
<1>0. /\ DispatchVarsOK /\ FlowsOK /\ TablesOK /\ RowsOK
      /\ flow \in [Flows -> Flow] /\ flow[f] \in Flow
  BY DEF FlowsOK
<1>1. CASE SaveQueued(f)
  BY <1>1, RailTypes
<1>2. CASE DelayOver(f)
  <2>1. PICK q \in {"poll", "done"} : flow' = [flow EXCEPT ![f] = [@ EXCEPT !.pc = q]]
    BY <1>0, <1>2 DEF DelayOver
  <2>2. [flow[f] EXCEPT !.pc = q] \in Flow /\ [flow[f] EXCEPT !.pc = q].pc = q
    BY <1>0 DEF Flow, FlowPc
  <2>3. FlowsOK'
    BY <1>0, <2>1, <2>2, FlowStays
  <2>4. DispatchVarsOK'
    BY <1>2, MaybeTypes, NoDispatchTypes DEF DelayOver
  <2>5. RowsOK' /\ TablesOK'
    BY <1>0, <1>2 DEF DelayOver, RowsOK, TablesOK, dbVars, ghostVars
  <2> QED
    BY <2>3, <2>4, <2>5
<1>3. ASSUME NEW c \in Contacts, NEW o \in Outcome, PollEnds(f, c, o) PROVE TypeInv'
  <2> DEFINE r == [flow[f] EXCEPT !.pc = "persist", !.cur = c, !.out = o, !.pending = @ \ {c}]
  <2>1. flow' = [flow EXCEPT ![f] = r]
    BY <1>0, <1>3 DEF PollEnds
  <2>2. r \in Flow /\ r.pc = "persist"
    BY <1>0 DEF Flow, FlowPc
  <2>3. FlowsOK'
    BY <1>0, <2>1, <2>2, FlowStays
  <2>4. RowAfter(o) \in {"planned", "unanswered", "over"}
    BY DEF RowAfter
  <2>5. Paint(prog, {c}, RowAfter(o), f) \in Progress \cup {None}
    BY <1>0, <2>4, PaintType DEF RowsOK
  <2>6. RowsOK'
    <3>1. prog' \in Progress \cup {None} /\ failure' \in {"none", "network", "other"}
      BY <1>0, <1>3, <2>5 DEF PollEnds, RowsOK
    <3> QED
      BY <1>0, <1>3, <3>1 DEF PollEnds, RowsOK, deskVars, ghostVars
  <2>7. DispatchVarsOK' /\ TablesOK'
    BY <1>0, <1>3 DEF PollEnds, DispatchVarsOK, SendOK, TablesOK, deskVars, dbVars
  <2> QED
    BY <2>3, <2>6, <2>7
<1>4. CASE Persist(f)
  <2> DEFINE q == IF flow[f].pending = {} THEN "done" ELSE "poll"
  <2> DEFINE r == [flow[f] EXCEPT !.pc = q, !.cur = None, !.out = None]
  <2>1. flow' = [flow EXCEPT ![f] = r]
    BY <1>0, <1>4 DEF Persist
  <2>2. r \in Flow /\ r.pc \in {"done", "poll"}
    BY <1>0 DEF Flow, FlowPc
  <2>3. FlowsOK'
    BY <1>0, <2>1, <2>2, FlowStays
  <2>4. DispatchVarsOK'
    BY <1>4, MaybeTypes, NoDispatchTypes DEF Persist
  <2>5. TablesOK'
    <3>1. runSt' \in [Runs -> {"none", "open"} \cup FinalRun]
      BY <1>0, <1>4 DEF Persist, TablesOK, FinalRun
    <3>2. batchSt' \in [Flows \cup Senders -> {"none", "running", "completed", "failed"}]
      BY <1>4, FinalizedType DEF Persist
    <3> QED
      BY <3>1, <3>2 DEF TablesOK
  <2>6. RowsOK'
    BY <1>0, <1>4 DEF Persist, RowsOK, ghostVars
  <2> QED
    BY <2>3, <2>4, <2>5, <2>6
<1>5. CASE PollTimeout(f)
  <2> DEFINE r == [flow[f] EXCEPT !.pc = "drain"]
  <2>1. flow' = [flow EXCEPT ![f] = r]
    BY <1>0, <1>5 DEF PollTimeout
  <2>2. r \in Flow /\ r.pc = "drain"
    BY <1>0 DEF Flow, FlowPc
  <2>3. FlowsOK'
    BY <1>0, <2>1, <2>2, FlowStays
  <2>4. DispatchVarsOK' /\ RowsOK' /\ TablesOK'
    BY <1>0, <1>5 DEF PollTimeout, DispatchVarsOK, SendOK, RowsOK, TablesOK, uiVars, deskVars,
                      dbVars, ghostVars
  <2> QED
    BY <2>3, <2>4
<1>6. ASSUME NEW c \in Contacts, Drain(f, c) PROVE TypeInv'
  <2> DEFINE q == IF flow[f].pending = {c} THEN "done" ELSE "drain"
  <2> DEFINE r == [flow[f] EXCEPT !.pc = q, !.pending = @ \ {c}]
  <2>1. flow' = [flow EXCEPT ![f] = r]
    BY <1>0, <1>6 DEF Drain
  <2>2. r \in Flow /\ r.pc \in {"done", "drain"}
    BY <1>0 DEF Flow, FlowPc
  <2>3. FlowsOK'
    BY <1>0, <2>1, <2>2, FlowStays
  <2>4. DispatchVarsOK'
    BY <1>6, MaybeTypes, NoDispatchTypes DEF Drain
  <2>5. TablesOK'
    <3>1. runSt' \in [Runs -> {"none", "open"} \cup FinalRun]
      BY <1>0, <1>6 DEF Drain, TablesOK, FinalRun
    <3>2. batchSt' \in [Flows \cup Senders -> {"none", "running", "completed", "failed"}]
      BY <1>6, FinalizedType DEF Drain
    <3> QED
      BY <3>1, <3>2 DEF TablesOK
  <2>6. prog' \in Progress \cup {None}
    <3>1. CASE current = f /\ prog # None
      <4> DEFINE p == [x \in DOMAIN prog |->
                         IF x \in {c} THEN [prog[x] EXCEPT !.st = "over"] ELSE prog[x]]
      <4>1. p \in Progress
        BY <1>0, <3>1, OverType DEF RowsOK
      <4>2. prog' = p
        BY <1>6, <3>1 DEF Drain
      <4> QED
        BY <4>1, <4>2
    <3>2. CASE ~(current = f /\ prog # None)
      BY <1>0, <1>6, <3>2 DEF Drain, RowsOK
    <3> QED
      BY <3>1, <3>2
  <2>7. RowsOK'
    BY <1>0, <1>6, <2>6 DEF Drain, RowsOK, ghostVars
  <2> QED
    BY <2>3, <2>4, <2>5, <2>7
<1> QED
  BY <1>1, <1>2, <1>3, <1>4, <1>5, <1>6 DEF PollStep

\* A poll that ends no call paints its row, or shows the network failure.
LEMMA GetTypes ==
  ASSUME TypeInv, NEW f \in Flows,
         PollFails(f) \/ (\E c \in Contacts : PollRuns(f, c))
  PROVE  TypeInv'
<1> USE TypeParts
<1>1. CASE PollFails(f)
  BY <1>1 DEF PollFails, DispatchVarsOK, FlowsOK, SavedOK, SendOK, RowsOK, TablesOK, deskVars,
              dbVars, ghostVars
<1>2. ASSUME NEW c \in Contacts, PollRuns(f, c) PROVE TypeInv'
  <2>1. Paint(prog, {c}, "planned", f) \in Progress \cup {None}
    BY PaintType DEF RowsOK
  <2>2. RowsOK'
    BY <1>2, <2>1 DEF PollRuns, RowsOK, deskVars, ghostVars
  <2>3. DispatchVarsOK' /\ FlowsOK' /\ TablesOK'
    BY <1>2 DEF PollRuns, DispatchVarsOK, FlowsOK, SavedOK, SendOK, TablesOK, deskVars, dbVars
  <2> QED
    BY <2>2, <2>3
<1> QED
  BY <1>1, <1>2

\* The steps of a send after its first await.
LEMMA SendTypes ==
  ASSUME TypeInv, NEW s \in Senders, SendStep(s)
  PROVE  TypeInv'
<1> USE TypeParts
<1>0. /\ DispatchVarsOK /\ FlowsOK /\ TablesOK /\ RowsOK
      /\ send \in [Senders -> Send] /\ send[s] \in Send
  BY DEF DispatchVarsOK
<1>1. IdleSend \in Send /\ IdleSend.pc = "idle"
  BY Bounds DEF IdleSend, Send
<1>2. SendHydrated(s) => send'[s].ses # 0 /\ send[s].ses \in 1..MaxSessions
  BY <1>0, Bounds DEF SendHydrated, DispatchVarsOK, SendOK, Send
<1>3. send' \in [Senders -> Send]
  <2>1. [send[s] EXCEPT !.pc = "dispatch"] \in Send
    BY <1>0 DEF Send
  <2>2. \/ send' = [send EXCEPT ![s] = [@ EXCEPT !.pc = "dispatch"]]
        \/ send' = [send EXCEPT ![s] = IdleSend]
    BY <1>0 DEF SendStep, SendHydrated, SendHydrateFails, Dispatched, DispatchFails
  <2> QED
    BY <1>0, <1>1, <2>1, <2>2
<1>4. SendOK'
  <2>1. CASE SendHydrated(s)
    BY <1>0, <1>2, <2>1 DEF SendHydrated, SendOK, DispatchVarsOK
  <2>2. CASE send' = [send EXCEPT ![s] = IdleSend]
    BY <1>0, <1>1, <2>2 DEF SendOK, DispatchVarsOK
  <2> QED
    BY <2>1, <2>2 DEF SendStep, SendHydrateFails, Dispatched, DispatchFails
<1>5. DispatchVarsOK'
  BY <1>0, <1>3, <1>4 DEF SendStep, SendHydrated, SendHydrateFails, Dispatched, DispatchFails,
                          DispatchVarsOK, deskVars
<1>6. FlowsOK' /\ TablesOK'
  BY <1>0 DEF SendStep, SendHydrated, SendHydrateFails, Dispatched, DispatchFails, FlowsOK,
              SavedOK, TablesOK, dbVars
<1>7. RowsOK'
  BY <1>0, <1>2 DEF SendStep, SendHydrated, SendHydrateFails, Dispatched, DispatchFails,
                    RowsOK, deskVars, ghostVars
<1> QED
  BY <1>5, <1>6, <1>7

LEMMA DeathTypes ==
  ASSUME TypeInv, AppDies
  PROVE  TypeInv'
<1> USE TypeParts
<1>1. IdleSend \in Send /\ IdleSend.pc = "idle"
  BY Bounds DEF IdleSend, Send
<1>2. DispatchVarsOK'
  BY <1>1 DEF AppDies, DispatchVarsOK, SendOK
<1>3. FlowsOK'
  <2>1. ASSUME NEW f \in Flows
        PROVE  [IdleFlow EXCEPT !.pc = "done", !.b = flow[f].b] \in Flow
    <3>1. flow[f].b \in Flows \cup Senders \cup {None}
      BY DEF FlowsOK, Flow
    <3> QED
      BY <3>1 DEF IdleFlow, Flow, FlowPc
  <2>2. flow' \in [Flows -> Flow]
    BY <2>1 DEF AppDies, FlowsOK
  <2>3. \A f \in Flows : flow'[f].pc \in {"idle", "done"}
    BY DEF AppDies, IdleFlow
  <2> QED
    BY <2>2, <2>3 DEF FlowsOK, SavedOK, Flows
<1>4. RowsOK'
  <2>1. deaths' \in 0..MaxDeaths
    <3>1. deaths \in 0..MaxDeaths /\ deaths < MaxDeaths /\ deaths' = deaths + 1
      BY DEF AppDies, RowsOK
    <3> HIDE TypeParts
    <3> QED
      BY <3>1, Bounds
  <2> QED
    BY <2>1 DEF AppDies, RowsOK
<1>5. TablesOK'
  BY DEF AppDies, TablesOK, dbVars
<1> QED
  BY <1>2, <1>3, <1>4, <1>5

LEMMA TypeNext ==
  ASSUME TypeInv, [Next]_vars
  PROVE  TypeInv'
<1>1. CASE UNCHANGED vars
  BY <1>1 DEF vars, uiVars, deskVars, dbVars, ghostVars, TypeInv, TypeOK, SavedOK, SendOK
<1>2. ASSUME NEW f \in Flows, FlowStep(f) PROVE TypeInv'
  BY <1>2, RailTypes, PollTypes, GetTypes DEF FlowStep
<1> QED
  BY <1>1, <1>2, TapsTypes, SendTypes, DeathTypes DEF Next

(* -------------------------- what is saved ----------------------------- *)

\* A step of flow f that leaves the runs of the others alone.
LEMMA OthersKeepRuns ==
  ASSUME TypeInv, RunsOK, NEW f \in Flows, NEW r, flow' = [flow EXCEPT ![f] = r],
         \A g \in Flows \ {f}, c \in Contacts : runSt'[<<g, c>>] = runSt[<<g, c>>],
         FlowRuns(f)'
  PROVE  RunsOK'
<1> SUFFICES ASSUME NEW g \in Flows, g # f PROVE FlowRuns(g)'
  BY DEF RunsOK
<1>1. flow'[g] = flow[g] /\ flow[g] \in Flow
  BY DEF TypeInv, TypeOK
<1>2. flow[g].pending \subseteq Contacts
  BY <1>1 DEF Flow
<1>3. FlowRuns(g)
  BY DEF RunsOK
<1> QED
  BY <1>1, <1>2, <1>3 DEF FlowRuns

\* A step of flow f that writes no run and starts no terminal write.
LEMMA FlowMoves ==
  ASSUME TypeInv, RunsOK, NEW f \in Flows, NEW r \in Flow, flow' = [flow EXCEPT ![f] = r],
         runSt' = runSt,
         r.pending \subseteq flow[f].pending,
         r.pc # "persist",
         r.pc \in {"idle", "hydrate", "rail", "save"} =>
            flow[f].pc \in {"idle", "hydrate", "rail", "save"}
  PROVE  RunsOK'
<1>1. flow'[f] = r
  BY DEF TypeInv, TypeOK
<1>2. FlowRuns(f)
  BY DEF RunsOK
<1>3. FlowRuns(f)'
  BY <1>1, <1>2 DEF FlowRuns
<1> QED
  BY <1>3, OthersKeepRuns

\* The tables of a step other than persistQueuedBatch and a terminal write.
LEMMA TapsKeepRuns ==
  ASSUME TypeInv, RunsOK, Taps
  PROVE  /\ UNCHANGED <<runSt, batchSt>>
         /\ RunsOK'
         /\ \A g \in Flows : flow'[g].b = flow[g].b \/ flow[g].pc = "idle"
<1>0. /\ flow \in [Flows -> Flow]
      /\ \A g \in Flows : flow[g] \in Flow
  BY DEF TypeInv, TypeOK
<1>1. ASSUME NEW f \in Flows, NEW r \in Flow, flow[f].pc = "idle", flow' = [flow EXCEPT ![f] = r],
             r.pc = "hydrate", r.pending = flow[f].pending, UNCHANGED <<runSt, batchSt>>
      PROVE  /\ RunsOK'
             /\ \A g \in Flows : flow'[g].b = flow[g].b \/ flow[g].pc = "idle"
  <2>1. RunsOK'
    BY <1>1, FlowMoves
  <2> QED
    BY <1>0, <1>1, <2>1
<1>2. ASSUME NEW f \in ConfirmFlows, NEW both \in BOOLEAN, TapCall(f, both)
      PROVE  /\ UNCHANGED <<runSt, batchSt>>
             /\ RunsOK'
             /\ \A g \in Flows : flow'[g].b = flow[g].b \/ flow[g].pc = "idle"
  <2> DEFINE r == [flow[f] EXCEPT !.pc = "hydrate", !.both = both, !.want = Contacts]
  <2>1. f \in Flows /\ flow[f].pc = "idle" /\ UNCHANGED <<runSt, batchSt>>
    BY <1>2 DEF TapCall, Flows, dbVars
  <2>2. flow' = [flow EXCEPT ![f] = r]
    BY <1>0, <1>2, <2>1 DEF TapCall
  <2>3. r \in Flow /\ r.pc = "hydrate" /\ r.pending = flow[f].pending
    BY <1>0, <2>1 DEF Flow, FlowPc
  <2> QED
    BY <1>1, <2>1, <2>2, <2>3
<1>3. ASSUME NEW f \in RetryFlows, TapRetry(f)
      PROVE  /\ UNCHANGED <<runSt, batchSt>>
             /\ RunsOK'
             /\ \A g \in Flows : flow'[g].b = flow[g].b \/ flow[g].pc = "idle"
  <2> DEFINE r == [flow[f] EXCEPT !.pc = "hydrate", !.b = batch, !.saved = prog,
                                  !.want = Eligible(prog)]
  <2>1. f \in Flows /\ flow[f].pc = "idle" /\ UNCHANGED <<runSt, batchSt>>
    BY <1>3 DEF TapRetry, Flows, dbVars
  <2>2. flow' = [flow EXCEPT ![f] = r]
    BY <1>0, <1>3, <2>1 DEF TapRetry
  <2>3. prog \in Progress /\ batch \in Flows \cup Senders \cup {None}
    BY <1>3 DEF TapRetry, Offer, TypeInv, TypeOK
  <2>4. Eligible(prog) \subseteq Contacts
    BY <2>3, EligibleContacts
  <2>5. r \in Flow /\ r.pc = "hydrate" /\ r.pending = flow[f].pending
    BY <1>0, <2>1, <2>3, <2>4 DEF Flow, FlowPc
  <2> QED
    BY <1>1, <2>1, <2>2, <2>5
<1>4. ASSUME NEW f \in ConfirmFlows, NEW c \in Contacts, OpenCreditLimitDesk(f, c)
      PROVE  /\ UNCHANGED <<runSt, batchSt>>
             /\ RunsOK'
             /\ \A g \in Flows : flow'[g].b = flow[g].b \/ flow[g].pc = "idle"
  <2> DEFINE r == [flow[f] EXCEPT !.pc = "hydrate", !.want = {c}]
  <2>1. f \in Flows /\ flow[f].pc = "idle" /\ UNCHANGED <<runSt, batchSt>>
    BY <1>4 DEF OpenCreditLimitDesk, OpenDesk, Flows, dbVars
  <2>2. flow' = [flow EXCEPT ![f] = r]
    BY <1>0, <1>4, <2>1 DEF OpenCreditLimitDesk
  <2>3. r \in Flow /\ r.pc = "hydrate" /\ r.pending = flow[f].pending
    BY <1>0, <2>1 DEF Flow, FlowPc
  <2> QED
    BY <1>1, <2>1, <2>2, <2>3
<1>5. CASE TapSend \/ TapSeal \/ TapRetrySend \/ TapDone \/ OpenClosingDesk
  <2>1. UNCHANGED <<flow, runSt, batchSt>>
    BY <1>5 DEF TapSend, TapSeal, TapRetrySend, TapDone, OpenClosingDesk, OpenDesk, dbVars
  <2> QED
    BY <2>1 DEF RunsOK, FlowRuns
<1> QED
  BY <1>2, <1>3, <1>4, <1>5 DEF Taps

(* What a step writes to the tables: nothing, the runs of a flow that had   *)
(* none, under a batch that runs again, or the raw status of an open run.   *)

KeepsTables == UNCHANGED <<runSt, batchSt>>

SavesRuns(f) ==
    /\ flow'[f].b = flow[f].b
    /\ \A c \in Contacts : runSt[<<f, c>>] = "none"
    /\ \A r \in Runs : r[1] # f => runSt'[r] = runSt[r]
    /\ batchSt' = [batchSt EXCEPT ![flow[f].b] = "running"]

FilesRun(f, c, st, human) ==
    /\ runSt[<<f, c>>] = "open"
    /\ runSt' = [runSt EXCEPT ![<<f, c>>] = st]
    /\ batchSt' = Finalized(flow[f].b, runSt', human)

\* A batch keeps its flows once they have a run.
BatchesKeepFlows ==
    \A g \in Flows : flow'[g].b = flow[g].b \/ flow[g].pc \in {"idle", "hydrate"}

WritesTables ==
    \/ KeepsTables
    \/ \E f \in Flows : SavesRuns(f)
    \/ \E f \in Flows, c \in Contacts, st \in FinalRun, human \in BOOLEAN :
          FilesRun(f, c, st, human)

\* A step of f whose flow record becomes r: the batch of f is kept, and so
\* are the batches of the others.
LEMMA SameBatches ==
  ASSUME TypeInv, NEW f \in Flows, NEW r \in Flow, flow' = [flow EXCEPT ![f] = r],
         r.b = flow[f].b \/ flow[f].pc \in {"idle", "hydrate"}
  PROVE  BatchesKeepFlows
BY DEF BatchesKeepFlows, TypeInv, TypeOK

LEMMA FlowWrites ==
  ASSUME TypeInv, RunsOK, NEW f \in Flows, FlowStep(f)
  PROVE  RunsOK' /\ BatchesKeepFlows /\ WritesTables
<1>0. /\ flow \in [Flows -> Flow]
      /\ flow[f] \in Flow
      /\ runSt \in [Runs -> {"none", "open"} \cup FinalRun]
      /\ FlowRuns(f)
  BY DEF TypeInv, TypeOK, RunsOK
<1>1. ASSUME NEW r \in Flow, flow' = [flow EXCEPT ![f] = r], KeepsTables,
             r.pending \subseteq flow[f].pending,
             r.pc # "persist",
             r.pc \in {"idle", "hydrate", "rail", "save"} =>
                flow[f].pc \in {"idle", "hydrate", "rail", "save"},
             r.b = flow[f].b \/ flow[f].pc \in {"idle", "hydrate"}
      PROVE  RunsOK' /\ BatchesKeepFlows /\ WritesTables
  BY <1>1, FlowMoves, SameBatches DEF KeepsTables, WritesTables
<1>2. CASE Hydrated(f)
  <2> DEFINE r == [flow[f] EXCEPT !.pc = "rail", !.b = IF f \in ConfirmFlows THEN f ELSE @]
  <2>1. flow[f].pc = "hydrate" /\ flow' = [flow EXCEPT ![f] = r] /\ KeepsTables
    BY <1>0, <1>2 DEF Hydrated, ConfirmHydrated, RetryHydrated, KeepsTables, dbVars
  <2>2. r \in Flow /\ r.pc = "rail" /\ r.pending = flow[f].pending
    BY <1>0 DEF Flow, FlowPc
  <2> HIDE DEF r
  <2> QED
    BY <1>1, <2>1, <2>2
<1>3. CASE HydrateFails(f) \/ RailFails(f)
  <2> DEFINE r == [flow[f] EXCEPT !.pc = "done"]
  <2>1. flow' = [flow EXCEPT ![f] = r] /\ KeepsTables
    BY <1>0, <1>3 DEF HydrateFails, ConfirmHydrateFails, RetryHydrateFails, RailFails,
                      KeepsTables, dbVars
  <2>2. r \in Flow /\ r.pc = "done" /\ r.pending = flow[f].pending /\ r.b = flow[f].b
    BY <1>0 DEF Flow, FlowPc
  <2> HIDE DEF r
  <2> QED
    BY <1>1, <2>1, <2>2
<1>4. ASSUME NEW got \in SUBSET flow[f].want, NEW bad, RailAnswers(f, got, bad)
      PROVE  RunsOK' /\ BatchesKeepFlows /\ WritesTables
  <2> DEFINE r == [flow[f] EXCEPT !.pc = "save", !.got = got]
  <2>1. flow[f].pc = "rail" /\ flow' = [flow EXCEPT ![f] = r] /\ KeepsTables
    BY <1>0, <1>4 DEF RailAnswers, KeepsTables, dbVars
  <2>2. r \in Flow /\ r.pc = "save" /\ r.pending = flow[f].pending /\ r.b = flow[f].b
    BY <1>0 DEF Flow, FlowPc
  <2> HIDE DEF r
  <2> QED
    BY <1>1, <2>1, <2>2
<1>5. CASE SaveQueued(f)
  <2> DEFINE r == [flow[f] EXCEPT !.pc = "delay", !.pending = flow[f].got]
  <2>1. flow[f].pc = "save" /\ flow' = [flow EXCEPT ![f] = r]
    BY <1>0, <1>5 DEF SaveQueued
  <2>2. r \in Flow /\ r.pc = "delay" /\ r.pending = flow[f].got /\ r.b = flow[f].b
    BY <1>0 DEF Flow, FlowPc
  <2>3. flow[f].got \subseteq Contacts
    BY <1>0 DEF Flow
  <2>4. runSt' = [x \in Runs |-> IF x[1] = f /\ x[2] \in flow[f].got THEN "open" ELSE runSt[x]]
    BY <1>5 DEF SaveQueued
  <2>5. /\ \A c \in flow[f].got : runSt'[<<f, c>>] = "open"
        /\ \A g \in Flows \ {f}, c \in Contacts : runSt'[<<g, c>>] = runSt[<<g, c>>]
    BY <2>3, <2>4 DEF Runs
  <2> HIDE DEF r
  <2>6. flow'[f] = r
    BY <1>0, <2>1
  <2>7. FlowRuns(f)'
    BY <2>2, <2>5, <2>6 DEF FlowRuns
  <2>8. RunsOK'
    BY <2>1, <2>5, <2>7, OthersKeepRuns
  <2>9. SavesRuns(f)
    BY <1>0, <1>5, <2>1, <2>2, <2>4, <2>6 DEF SaveQueued, SavesRuns, FlowRuns
  <2> QED
    BY <2>1, <2>2, <2>8, <2>9, SameBatches DEF WritesTables
<1>6. CASE DelayOver(f)
  <2>1. PICK q \in {"poll", "done"} : flow' = [flow EXCEPT ![f] = [@ EXCEPT !.pc = q]]
    BY <1>0, <1>6 DEF DelayOver
  <2> DEFINE r == [flow[f] EXCEPT !.pc = q]
  <2>2. r \in Flow /\ r.pc = q /\ r.pending = flow[f].pending /\ r.b = flow[f].b
    BY <1>0 DEF Flow, FlowPc
  <2>3. KeepsTables /\ flow' = [flow EXCEPT ![f] = r]
    BY <1>6, <2>1 DEF DelayOver, KeepsTables, dbVars
  <2> HIDE DEF r
  <2> QED
    BY <1>1, <2>2, <2>3
<1>7. ASSUME NEW c \in Contacts, NEW o \in Outcome, PollEnds(f, c, o)
      PROVE  RunsOK' /\ BatchesKeepFlows /\ WritesTables
  <2> DEFINE r == [flow[f] EXCEPT !.pc = "persist", !.cur = c, !.out = o, !.pending = @ \ {c}]
  <2>1. c \in flow[f].pending /\ flow' = [flow EXCEPT ![f] = r] /\ KeepsTables
    BY <1>0, <1>7 DEF PollEnds, KeepsTables, dbVars
  <2>2. /\ r \in Flow /\ r.pc = "persist" /\ r.cur = c /\ r.out = o
        /\ r.pending = flow[f].pending \ {c} /\ r.b = flow[f].b
    BY <1>0 DEF Flow, FlowPc
  <2> HIDE DEF r
  <2>3. flow'[f] = r /\ runSt' = runSt
    BY <1>0, <2>1 DEF KeepsTables
  <2>4. FlowRuns(f)'
    BY <1>0, <2>1, <2>2, <2>3 DEF FlowRuns
  <2>5. RunsOK'
    BY <2>1, <2>3, <2>4, OthersKeepRuns
  <2> QED
    BY <2>1, <2>2, <2>5, SameBatches DEF WritesTables
<1>8. CASE Persist(f)
  <2> DEFINE c == flow[f].cur
  <2> DEFINE q == IF flow[f].pending = {} THEN "done" ELSE "poll"
  <2> DEFINE r == [flow[f] EXCEPT !.pc = q, !.cur = None, !.out = None]
  <2> DEFINE st == IF flow[f].out = "failed" THEN "failed" ELSE "completed"
  <2> DEFINE human == flow[f].out \in {"review", "failed"}
  <2>1. /\ flow[f].pc = "persist"
        /\ flow' = [flow EXCEPT ![f] = r]
        /\ runSt' = [runSt EXCEPT ![<<f, c>>] = st]
    BY <1>0, <1>8 DEF Persist
  <2>2. batchSt' = Finalized(flow[f].b, runSt', human)
    BY <1>8 DEF Persist
  <2>3. r \in Flow /\ r.pc \in {"done", "poll"} /\ r.pending = flow[f].pending /\ r.b = flow[f].b
    BY <1>0 DEF Flow, FlowPc
  <2>4. /\ c \in Contacts \ flow[f].pending /\ runSt[<<f, c>>] = "open"
        /\ flow[f].pending \subseteq Contacts
    BY <1>0, <2>1 DEF FlowRuns, Flow
  <2> HIDE DEF r
  <2>5. flow'[f] = r
    BY <1>0, <2>1
  <2>6. \A g \in Flows, x \in Contacts : g # f \/ x # c => runSt'[<<g, x>>] = runSt[<<g, x>>]
    BY <1>0, <2>1, <2>4 DEF Runs
  <2>7. FlowRuns(f)'
    BY <1>0, <2>3, <2>4, <2>5, <2>6 DEF FlowRuns
  <2>8. RunsOK'
    BY <2>1, <2>6, <2>7, OthersKeepRuns
  <2>9. st \in FinalRun /\ human \in BOOLEAN
    BY DEF FinalRun
  <2>10. FilesRun(f, c, st, human)
    BY <2>1, <2>2, <2>4 DEF FilesRun
  <2>11. WritesTables
    BY <2>4, <2>9, <2>10 DEF WritesTables
  <2> QED
    BY <2>1, <2>3, <2>8, <2>11, SameBatches
<1>9. CASE PollTimeout(f)
  <2> DEFINE r == [flow[f] EXCEPT !.pc = "drain"]
  <2>1. flow' = [flow EXCEPT ![f] = r] /\ KeepsTables
    BY <1>0, <1>9 DEF PollTimeout, KeepsTables, dbVars
  <2>2. r \in Flow /\ r.pc = "drain" /\ r.pending = flow[f].pending /\ r.b = flow[f].b
    BY <1>0 DEF Flow, FlowPc
  <2> HIDE DEF r
  <2> QED
    BY <1>1, <2>1, <2>2
<1>10. ASSUME NEW c \in Contacts, Drain(f, c)
       PROVE  RunsOK' /\ BatchesKeepFlows /\ WritesTables
  <2> DEFINE q == IF flow[f].pending = {c} THEN "done" ELSE "drain"
  <2> DEFINE r == [flow[f] EXCEPT !.pc = q, !.pending = @ \ {c}]
  <2>1. /\ c \in flow[f].pending
        /\ flow' = [flow EXCEPT ![f] = r]
        /\ runSt' = [runSt EXCEPT ![<<f, c>>] = "timeout"]
    BY <1>0, <1>10 DEF Drain
  <2>2. batchSt' = Finalized(flow[f].b, runSt', TRUE)
    BY <1>10 DEF Drain
  <2>3. /\ r \in Flow /\ r.pc \in {"done", "drain"} /\ r.pending = flow[f].pending \ {c}
        /\ r.b = flow[f].b
    BY <1>0 DEF Flow, FlowPc
  <2>4. runSt[<<f, c>>] = "open" /\ flow[f].pending \subseteq Contacts
    BY <1>0, <2>1 DEF FlowRuns, Flow
  <2> HIDE DEF r
  <2>5. flow'[f] = r
    BY <1>0, <2>1
  <2>6. \A g \in Flows, x \in Contacts : g # f \/ x # c => runSt'[<<g, x>>] = runSt[<<g, x>>]
    BY <1>0, <2>1 DEF Runs
  <2>7. FlowRuns(f)'
    BY <1>0, <2>3, <2>4, <2>5, <2>6 DEF FlowRuns
  <2>8. RunsOK'
    BY <2>1, <2>6, <2>7, OthersKeepRuns
  <2>9. FilesRun(f, c, "timeout", TRUE) /\ "timeout" \in FinalRun
    BY <2>1, <2>2, <2>4 DEF FilesRun, FinalRun
  <2>10. WritesTables
    BY <2>9 DEF WritesTables
  <2> QED
    BY <2>1, <2>3, <2>8, <2>10, SameBatches
<1>11. ASSUME PollFails(f) \/ \E c \in Contacts : PollRuns(f, c)
       PROVE  RunsOK' /\ BatchesKeepFlows /\ WritesTables
  <2>1. UNCHANGED flow /\ KeepsTables
    BY <1>11 DEF PollFails, PollRuns, KeepsTables, dbVars
  <2> QED
    BY <2>1 DEF RunsOK, FlowRuns, BatchesKeepFlows, WritesTables, KeepsTables
<1> QED
  BY <1>2, <1>3, <1>4, <1>5, <1>6, <1>7, <1>8, <1>9, <1>10, <1>11 DEF FlowStep, RailStep, PollStep

\* The app dies: what was saved stays, under the batch it was saved under.
LEMMA DeathWrites ==
  ASSUME TypeInv, RunsOK, AppDies
  PROVE  RunsOK' /\ BatchesKeepFlows /\ WritesTables
<1>1. KeepsTables
  BY DEF AppDies, KeepsTables, dbVars
<1>2. \A g \in Flows : /\ flow'[g].b = flow[g].b
                       /\ \/ flow'[g] = flow[g]
                          \/ flow'[g].pc = "done" /\ flow'[g].pending = {}
  BY DEF AppDies, IdleFlow
<1>3. RunsOK'
  BY <1>1, <1>2 DEF RunsOK, FlowRuns, KeepsTables
<1> QED
  BY <1>1, <1>2, <1>3 DEF BatchesKeepFlows, WritesTables

LEMMA StepWrites ==
  ASSUME TypeInv, RunsOK, [Next]_vars
  PROVE  RunsOK' /\ BatchesKeepFlows /\ WritesTables
<1>1. CASE Taps
  BY <1>1, TapsKeepRuns DEF BatchesKeepFlows, WritesTables, KeepsTables
<1>2. ASSUME NEW f \in Flows, FlowStep(f) PROVE RunsOK' /\ BatchesKeepFlows /\ WritesTables
  BY <1>2, FlowWrites
<1>3. CASE UNCHANGED vars \/ \E s \in Senders : SendStep(s)
  <2>1. UNCHANGED flow /\ KeepsTables
    BY <1>3 DEF SendStep, SendHydrated, SendHydrateFails, Dispatched, DispatchFails, vars,
                KeepsTables, dbVars
  <2> QED
    BY <2>1 DEF RunsOK, FlowRuns, BatchesKeepFlows, WritesTables, KeepsTables
<1> QED
  BY <1>1, <1>2, <1>3, DeathWrites DEF Next

(* -------------------------- batch statuses ---------------------------- *)

BatchesOK == BatchClosesLast /\ CompletedIsClean

\* A run that was saved stays a run of its batch, and no other becomes one.
LEMMA RunsStayInBatch ==
  ASSUME RunsOK, BatchesKeepFlows, NEW r \in Runs, runSt[r] # "none"
  PROVE  flow'[r[1]].b = flow[r[1]].b
<1>1. /\ r[1] \in Flows
      /\ r[2] \in Contacts
      /\ r = <<r[1], r[2]>>
  BY DEF Runs
<1>2. FlowRuns(r[1])
  BY <1>1 DEF RunsOK
<1>3. flow[r[1]].pc \notin {"idle", "hydrate"}
  BY <1>1, <1>2 DEF FlowRuns
<1> QED
  BY <1>1, <1>3 DEF BatchesKeepFlows

\* _maybeFinalizeBatchStatus closes a batch only over final runs, and calls it
\* completed only when none of them failed or timed out.
LEMMA FinalizedEffect ==
  ASSUME NEW b, NEW rs, NEW human \in BOOLEAN, NEW x \in DOMAIN batchSt
  PROVE  /\ DOMAIN Finalized(b, rs, human) = DOMAIN batchSt
         /\ \/ /\ Finalized(b, rs, human)[x] = batchSt[x]
               /\ x # b \/ \E r \in RunsOf(b, rs) : rs[r] \notin FinalRun
            \/ /\ x = b
               /\ \A r \in RunsOf(b, rs) : rs[r] \in FinalRun
               /\ Finalized(b, rs, human)[x] = "completed" =>
                    \A r \in RunsOf(b, rs) : rs[r] = "completed"
<1>1. CASE \E r \in RunsOf(b, rs) : rs[r] \notin FinalRun
  BY <1>1 DEF Finalized
<1>2. CASE ~ \E r \in RunsOf(b, rs) : rs[r] \notin FinalRun
  <2>1. Finalized(b, rs, human) =
          [batchSt EXCEPT ![b] =
             IF human \/ \E r \in RunsOf(b, rs) : rs[r] \in {"failed", "timeout"}
             THEN "failed" ELSE "completed"]
    BY <1>2 DEF Finalized
  <2>2. CASE x # b
    BY <2>1, <2>2
  <2>3. CASE x = b
    BY <1>2, <2>1, <2>3 DEF FinalRun
  <2> QED
    BY <2>2, <2>3
<1> QED
  BY <1>1, <1>2

LEMMA BatchesNext ==
  ASSUME TypeInv, RunsOK, BatchesOK, BatchesKeepFlows, WritesTables
  PROVE  BatchesOK'
<1>0. /\ runSt \in [Runs -> {"none", "open"} \cup FinalRun]
      /\ DOMAIN batchSt = Flows \cup Senders
  BY DEF TypeInv, TypeOK
<1> DEFINE Old(b) == {r \in Runs : flow[r[1]].b = b /\ runSt[r] # "none"}
<1> DEFINE New(b) == {r \in Runs : flow'[r[1]].b = b /\ runSt'[r] # "none"}
<1>1. SUFFICES ASSUME NEW b \in DOMAIN batchSt', NEW r \in New(b)
               PROVE  /\ batchSt'[b] \in {"completed", "failed"} => runSt'[r] \in FinalRun
                      /\ batchSt'[b] = "completed" => runSt'[r] = "completed"
  BY DEF BatchesOK, BatchClosesLast, CompletedIsClean, RunsOf
<1>2. ASSUME NEW c \in DOMAIN batchSt, NEW x \in Old(c)
      PROVE  /\ batchSt[c] \in {"completed", "failed"} => runSt[x] \in FinalRun
             /\ batchSt[c] = "completed" => runSt[x] = "completed"
  BY <1>2 DEF BatchesOK, BatchClosesLast, CompletedIsClean, RunsOf
<1>3. CASE KeepsTables
  <2>1. r \in Old(b)
    BY <1>3, RunsStayInBatch DEF KeepsTables
  <2> QED
    BY <1>2, <1>3, <2>1 DEF KeepsTables
<1>4. ASSUME NEW f \in Flows, SavesRuns(f)
      PROVE  /\ batchSt'[b] \in {"completed", "failed"} => runSt'[r] \in FinalRun
             /\ batchSt'[b] = "completed" => runSt'[r] = "completed"
  <2>1. b \in DOMAIN batchSt
    BY <1>4 DEF SavesRuns
  <2>2. CASE b = flow[f].b
    BY <1>4, <2>1, <2>2 DEF SavesRuns
  <2>3. CASE b # flow[f].b
    <3>1. r[1] # f
      BY <1>4, <2>3 DEF SavesRuns
    <3>2. runSt'[r] = runSt[r] /\ batchSt'[b] = batchSt[b]
      BY <1>4, <2>1, <2>3, <3>1 DEF SavesRuns
    <3>3. r \in Old(b)
      BY <3>2, RunsStayInBatch
    <3> QED
      BY <1>2, <2>1, <3>2, <3>3
  <2> QED
    BY <2>2, <2>3
<1>5. ASSUME NEW f \in Flows, NEW c \in Contacts, NEW st \in FinalRun, NEW human \in BOOLEAN,
             FilesRun(f, c, st, human)
      PROVE  /\ batchSt'[b] \in {"completed", "failed"} => runSt'[r] \in FinalRun
             /\ batchSt'[b] = "completed" => runSt'[r] = "completed"
  <2>1. /\ runSt[<<f, c>>] = "open"
        /\ <<f, c>> \in Runs
        /\ runSt'[<<f, c>>] = st
        /\ \A x \in Runs : x # <<f, c>> => runSt'[x] = runSt[x]
    BY <1>0, <1>5 DEF FilesRun, Runs
  <2> DEFINE fb == flow[f].b
  <2>2. batchSt' = Finalized(fb, runSt', human)
    BY <1>5 DEF FilesRun
  <2>3. b \in DOMAIN batchSt
    <3>1. DOMAIN batchSt' = DOMAIN batchSt
      BY <2>2 DEF Finalized
    <3> QED
      BY <3>1
  <2>4. RunsOf(fb, runSt') = {x \in Runs : flow[x[1]].b = fb /\ runSt'[x] # "none"}
    BY DEF RunsOf
  <2>5. r \in Old(b)
    <3>1. runSt[r] # "none"
      BY <2>1
    <3> QED
      BY <3>1, RunsStayInBatch
  <2>6. CASE /\ b = fb
             /\ \A x \in RunsOf(fb, runSt') : runSt'[x] \in FinalRun
             /\ batchSt'[b] = "completed" =>
                  \A x \in RunsOf(fb, runSt') : runSt'[x] = "completed"
    <3>1. r \in RunsOf(fb, runSt')
      BY <2>4, <2>5, <2>6
    <3> QED
      BY <2>6, <3>1
  <2>7. CASE batchSt'[b] = batchSt[b] /\ b # fb
    <3>1. r # <<f, c>>
      BY <2>5, <2>7
    <3> QED
      BY <1>2, <2>1, <2>3, <2>5, <2>7, <3>1
  <2>8. CASE batchSt'[b] = batchSt[b] /\ \E x \in RunsOf(fb, runSt') : runSt'[x] \notin FinalRun
    <3>1. CASE b # fb
      BY <2>7, <2>8, <3>1
    <3>2. CASE b = fb
      <4>1. <<f, c>> \in Old(b)
        BY <2>1, <3>2
      <4>2. batchSt[b] \notin {"completed", "failed"}
        BY <1>2, <2>1, <2>3, <4>1 DEF FinalRun
      <4> QED
        BY <2>8, <4>2
    <3> QED
      BY <3>1, <3>2
  <2>9. \/ /\ batchSt'[b] = batchSt[b]
           /\ b # fb \/ \E x \in RunsOf(fb, runSt') : runSt'[x] \notin FinalRun
        \/ /\ b = fb
           /\ \A x \in RunsOf(fb, runSt') : runSt'[x] \in FinalRun
           /\ batchSt'[b] = "completed" =>
                \A x \in RunsOf(fb, runSt') : runSt'[x] = "completed"
    <3> HIDE DEF fb
    <3>1. Finalized(fb, runSt', human)[b] = batchSt'[b]
      BY <2>2
    <3> QED
      BY <2>3, <3>1, FinalizedEffect
  <2> QED
    BY <2>6, <2>7, <2>8, <2>9
<1> QED
  BY <1>3, <1>4, <1>5 DEF WritesTables

(* ------------------------------ theorems ------------------------------- *)

Inv == TypeInv /\ RunsOK

LEMMA InvInit == Init => Inv
<1>1. Init => RunsOK
  BY DEF Init, RunsOK, FlowRuns, IdleFlow, Runs
<1> QED
  BY <1>1, TypeInit DEF Inv

\* Every state the taps, poll loops, sends and deaths reach is one of the
\* model's types.
THEOREM TypeCorrect == Spec => []TypeOK
<1>1. Inv /\ [Next]_vars => Inv'
  BY TypeNext, StepWrites DEF Inv
<1>2. Inv => TypeOK
  BY DEF Inv, TypeInv
<1> QED
  BY <1>1, <1>2, InvInit, PTL DEF Spec

\* A run's raw status is written once: the loop of a retry, a later desk or the
\* poll timeout never rewrites what persistTerminal filed.
THEOREM RunFiledOnceCorrect == Spec => RunFiledOnce
<1>1. Inv /\ [Next]_vars => Inv'
  BY TypeNext, StepWrites DEF Inv
<1>2. ASSUME Inv, [Next]_vars
      PROVE  \A r \in Runs : runSt[r] \in FinalRun => runSt'[r] = runSt[r]
  <2> SUFFICES ASSUME NEW r \in Runs, runSt[r] \in FinalRun PROVE runSt'[r] = runSt[r]
    OBVIOUS
  <2>1. TypeInv /\ RunsOK /\ WritesTables
    BY <1>2, StepWrites DEF Inv
  <2>2. CASE KeepsTables
    BY <2>2 DEF KeepsTables
  <2>3. ASSUME NEW f \in Flows, SavesRuns(f) PROVE runSt'[r] = runSt[r]
    <3>1. r[1] # f
      BY <2>3 DEF SavesRuns, Runs, FinalRun
    <3> QED
      BY <2>3, <3>1 DEF SavesRuns
  <2>4. ASSUME NEW f \in Flows, NEW c \in Contacts, NEW st \in FinalRun, NEW human \in BOOLEAN,
               FilesRun(f, c, st, human)
        PROVE  runSt'[r] = runSt[r]
    <3>1. r # <<f, c>>
      BY <2>4 DEF FilesRun, FinalRun
    <3> QED
      BY <2>1, <2>4, <3>1 DEF FilesRun, TypeInv, TypeOK
  <2> QED
    BY <2>1, <2>2, <2>3, <2>4 DEF WritesTables
<1>3. Inv /\ [Next]_vars => [\A r \in Runs : runSt[r] \in FinalRun => runSt'[r] = runSt[r]]_vars
  BY <1>2
<1> QED
  BY <1>1, <1>3, InvInit, PTL DEF Spec, RunFiledOnce

LEMMA BatchesCorrect == Spec => []BatchesOK
<1>1. Init => Inv /\ BatchesOK
  <2>1. Init => BatchesOK
    BY DEF Init, BatchesOK, BatchClosesLast, CompletedIsClean
  <2> QED
    BY <2>1, InvInit
<1>2. Inv /\ BatchesOK /\ [Next]_vars => (Inv /\ BatchesOK)'
  BY TypeNext, StepWrites, BatchesNext DEF Inv
<1> QED
  BY <1>1, <1>2, PTL DEF Spec

\* A batch is filed completed or failed only over runs that all have their raw
\* status, whatever retries joined it and whatever desk is open.
THEOREM BatchClosesLastCorrect == Spec => []BatchClosesLast
<1>1. BatchesOK => BatchClosesLast
  BY DEF BatchesOK
<1> QED
  BY <1>1, BatchesCorrect, PTL

\* A batch filed completed has no run that failed or timed out, in whatever
\* order the loops of its taps filed them.
THEOREM CompletedIsCleanCorrect == Spec => []CompletedIsClean
<1>1. BatchesOK => CompletedIsClean
  BY DEF BatchesOK
<1> QED
  BY <1>1, BatchesCorrect, PTL
=============================================================================
