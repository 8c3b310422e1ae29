----------------------- MODULE CallRailContractProofs -----------------------
(***************************************************************************)
(* When the desk takes one Confirm & Call (OneConfirm: consent blocks a    *)
(* second one), a retry is dialled only after an unanswered first call,    *)
(* every row shows the call it stands for, and the rail implements         *)
(* CallContract.  JInv strengthens IInv of CallRailProofs with what the    *)
(* taps, the rows and the server's results say of each other.              *)
(***************************************************************************)
EXTENDS CallRailProofs

\* The desk session has at most one Confirm & Call.
OneConfirm == \A f, g \in ConfirmFlows : f = g

(* ------------------------- inductive invariant ------------------------- *)

AttemptOf(f) == IF f \in RetryFlows THEN 1 ELSE 0

\* Confirm & Call dials attempt 0, Retry attempt 1.
AttemptsKnown ==
    /\ \A f \in ConfirmFlows : flow[f].a = 0
    /\ \A f \in RetryFlows : flow[f].b \in Batches => flow[f].a = 1

\* The first call to c is known to be unanswered.
Unanswered(c) == \E y \in unanswered : y.c = c /\ y.a = 0

\* A retry asks only for contacts whose first call is unanswered.
RetriesUnanswered ==
    /\ \A f \in RetryFlows : \A c \in flow[f].want : Unanswered(c)
    /\ \A p \in posts : p.a = 1 => Unanswered(p.c)
    /\ \A x \in calls : x.a = 1 => Unanswered(x.c)

\* Handles, replies and handlers stay within what the flow asked for.
WithinWant ==
    \A f \in Flows :
        /\ flow[f].handles \subseteq flow[f].want
        /\ rep[f].ready \subseteq flow[f].want
        /\ job[f].todo \subseteq flow[f].want
        /\ job[f].cur # None => job[f].cur \in flow[f].want

RowTells(r) ==
    /\ r.st \in {"live", "unanswered"} => r.run.a = (IF r.retried THEN 1 ELSE 0)
    /\ r.st = "unanswered" => r.run \in unanswered

\* A row shows the call of its own attempt, and "unanswered" is CALL-E's word.
RowsTell ==
    /\ \A c \in Contacts : RowTells(row[c])
    /\ \A f \in Flows : \A c \in Contacts : RowTells(flow[f].saved[c])

ResultTells(f, r) == r.c \in flow[f].want /\ (r.run # None => r.run.a = AttemptOf(f))

\* So do the results of run-batch and the replicas' run ids.
ResultsTell ==
    /\ \A f \in Flows : \A r \in job[f].res : ResultTells(f, r)
    /\ \A f \in Flows : \A r \in rep[f].res : ResultTells(f, r)
    /\ \A r \in runIds : r.run.a = r.a

Active(f) == flow[f].pc \in {"hydrate", "plan", "run"}

\* The taps take turns, and the rows are those of the tap whose turn it is.
Turns ==
    /\ \A f \in Flows : flow[f].pc = "idle" => flow[f].want = {}
    /\ \A f \in ConfirmFlows : \A c \in Contacts :
         /\ flow[f].pc \in {"idle", "hydrate"} => row[c].st = "none" /\ ~row[c].retried
         /\ flow[f].pc \in {"plan", "run"} => row[c].st = "planned" /\ ~row[c].retried
    /\ \A f \in ConfirmFlows, g \in RetryFlows : Active(g) => flow[f].pc = "done"
    /\ \A g, h \in RetryFlows : Active(g) /\ Active(h) => g = h
    /\ \A g \in RetryFlows : flow[g].pc \in {"plan", "run"} =>
         \A c \in flow[g].want : row[c].retried

JInv ==
    /\ AttemptsKnown
    /\ RetriesUnanswered
    /\ WithinWant
    /\ RowsTell
    /\ ResultsTell
    /\ Turns

\* The initial states satisfy the strengthening: nothing was dialled yet.
LEMMA JInvInit == Init => JInv
<1> SUFFICES ASSUME Init PROVE JInv
  OBVIOUS
<1> USE DEF Init, NoRow, IdleFlow, NoJob, NoReply
<1>1. AttemptsKnown
  BY NoneIsNoFlow DEF AttemptsKnown, Flows, Batches
<1>2. RetriesUnanswered
  BY DEF RetriesUnanswered, Flows
<1>3. WithinWant
  BY DEF WithinWant
<1>4. RowsTell
  BY DEF RowsTell, RowTells
<1>5. ResultsTell
  BY DEF ResultsTell
<1>6. Turns
  BY DEF Turns, Flows, Active
<1> QED
  BY <1>1, <1>2, <1>3, <1>4, <1>5, <1>6 DEF JInv


(* ------------------------------- device -------------------------------- *)

\* Only the place of flow f changes.
LEMMA OnlyPlace ==
  ASSUME IInv, NEW f \in Flows, NEW pc \in {"idle", "hydrate", "plan", "run", "done"},
         flow' = [flow EXCEPT ![f].pc = pc]
  PROVE  \A g \in Flows :
           /\ flow'[g].pc = (IF g = f THEN pc ELSE flow[g].pc)
           /\ flow'[g].a = flow[g].a /\ flow'[g].b = flow[g].b
           /\ flow'[g].want = flow[g].want /\ flow'[g].handles = flow[g].handles
           /\ flow'[g].saved = flow[g].saved
BY DEF IInv, TypeOK, Flow

\* What does not depend on rows and places is kept when neither the wanted
\* contacts nor the wire, the server and CALL-E change.
LEMMA WantKept ==
  ASSUME JInv,
         \A g \in Flows :
           /\ flow'[g].a = flow[g].a /\ flow'[g].b = flow[g].b
           /\ flow'[g].want = flow[g].want /\ flow'[g].handles = flow[g].handles,
         UNCHANGED <<rep, runIds, job, posts, calls, unanswered>>
  PROVE  AttemptsKnown' /\ RetriesUnanswered' /\ WithinWant' /\ ResultsTell'
<1>1. AttemptsKnown'
  BY DEF JInv, AttemptsKnown, Flows
<1>2. RetriesUnanswered'
  BY DEF JInv, RetriesUnanswered, Unanswered, Flows
<1>3. WithinWant'
  BY DEF JInv, WithinWant
<1>4. ResultsTell'
  BY DEF JInv, ResultsTell, ResultTells, AttemptOf
<1> QED
  BY <1>1, <1>2, <1>3, <1>4

\* RowsTell and RetriesUnanswered only get easier when calls go unanswered.
LEMMA RowsTellStep ==
  ASSUME unanswered \subseteq unanswered',
         \A c \in Contacts : RowTells(row'[c]),
         \A g \in Flows : \A c \in Contacts : RowTells(flow'[g].saved[c])
  PROVE  RowsTell'
BY DEF RowsTell, RowTells

\* No retried call was placed, and none stopped being unanswered.
LEMMA RetriesStep ==
  ASSUME unanswered \subseteq unanswered',
         \A g \in RetryFlows : \A c \in flow'[g].want : Unanswered(c),
         \A p \in posts' : p.a = 1 => Unanswered(p.c),
         \A x \in calls' : x.a = 1 => Unanswered(x.c)
  PROVE  RetriesUnanswered'
BY DEF RetriesUnanswered, Unanswered

\* The only Confirm & Call begins on a desk without rows.
LEMMA TapConfirmJ ==
  ASSUME IInv, JInv, NEW f \in ConfirmFlows, TapConfirm(f)
  PROVE  JInv'
<1>1. f \in Flows /\ f \notin RetryFlows
  BY FlowsDisjoint DEF Flows
<1>2. flow[f].pc = "idle" /\ flow' = [flow EXCEPT ![f].pc = "hydrate"]
  BY DEF TapConfirm
<1>3. UNCHANGED <<row, rep, runIds, job, posts, calls, unanswered>>
  BY DEF TapConfirm, wireVars, serverVars, calleVars
<1>4. AttemptsKnown' /\ RetriesUnanswered' /\ WithinWant' /\ ResultsTell'
  BY <1>1, <1>2, <1>3, OnlyPlace, WantKept
<1>5. RowsTell'
  BY <1>1, <1>2, <1>3, OnlyPlace DEF JInv, RowsTell, RowTells
<1>6. Turns'
  BY <1>1, <1>2, <1>3, OnlyPlace DEF JInv, Turns, Active, Flows
<1> QED
  BY <1>4, <1>5, <1>6 DEF JInv

\* The rows of the first round are planned and unretried.
LEMMA ConfirmHydratedJ ==
  ASSUME OneConfirm, IInv, JInv, NEW f \in ConfirmFlows, ConfirmHydrated(f)
  PROVE  JInv'
<1>1. f \in Flows /\ f \notin RetryFlows
  BY FlowsDisjoint DEF Flows
<1>2. /\ flow[f].pc = "hydrate"
      /\ row' = [c \in Contacts |-> [NoRow EXCEPT !.st = "planned"]]
      /\ flow' = [flow EXCEPT ![f].pc = "plan", ![f].b = f, ![f].want = Contacts]
      /\ UNCHANGED <<rep, runIds, job, posts, calls, unanswered>>
  BY DEF ConfirmHydrated, serverVars, calleVars
<1>3. /\ \A g \in Flows : g # f => flow'[g] = flow[g]
      /\ flow'[f].pc = "plan" /\ flow'[f].a = flow[f].a /\ flow'[f].want = Contacts
      /\ flow'[f].handles = flow[f].handles /\ flow'[f].saved = flow[f].saved
  BY <1>1, <1>2 DEF IInv, TypeOK, Flow
<1>4. \A c \in Contacts : row'[c].st = "planned" /\ row'[c].retried = FALSE
  BY <1>2 DEF NoRow
<1>5. AttemptsKnown'
  BY <1>1, <1>3 DEF JInv, AttemptsKnown, Flows
<1>6. RetriesUnanswered'
  <2>1. \A g \in RetryFlows : flow'[g] = flow[g]
    BY <1>1, <1>3 DEF Flows
  <2> QED
    BY <1>2, <2>1, RetriesStep DEF JInv, RetriesUnanswered
<1>7. flow[f].want \subseteq Contacts
  BY <1>1 DEF IInv, TypeOK, Flow
<1>8. WithinWant'
  BY <1>1, <1>2, <1>3, <1>7 DEF JInv, WithinWant
<1>9. RowsTell'
  <2>1. \A c \in Contacts : RowTells(row'[c])
    BY <1>4 DEF RowTells
  <2>2. \A g \in Flows : \A c \in Contacts : RowTells(flow'[g].saved[c])
    BY <1>3 DEF JInv, RowsTell
  <2> QED
    BY <1>2, <2>1, <2>2, RowsTellStep
<1>10. ResultsTell'
  BY <1>1, <1>2, <1>3, <1>7 DEF JInv, ResultsTell, ResultTells, AttemptOf
<1>11. Turns'
  <2>1. (\A g \in Flows : flow[g].pc = "idle" => flow[g].want = {})'
    BY <1>3 DEF JInv, Turns
  <2>2. \A g \in ConfirmFlows : g = f
    BY DEF OneConfirm
  <2>3. (\A g \in ConfirmFlows : \A c \in Contacts :
           /\ flow[g].pc \in {"idle", "hydrate"} => row[c].st = "none" /\ ~row[c].retried
           /\ flow[g].pc \in {"plan", "run"} => row[c].st = "planned" /\ ~row[c].retried)'
    BY <1>3, <1>4, <2>2
  <2>4. \A g \in RetryFlows : ~Active(g) /\ flow'[g] = flow[g]
    BY <1>1, <1>2, <1>3 DEF JInv, Turns, Flows
  <2>5. \A g \in RetryFlows : flow'[g].pc \notin {"hydrate", "plan", "run"}
    BY <2>4 DEF Active
  <2> QED
    BY <2>1, <2>3, <2>5 DEF Turns, Active
<1> QED
  BY <1>5, <1>6, <1>8, <1>9, <1>10, <1>11 DEF JInv

\* A retry wants only contacts whose rows say that the call of attempt 0
\* went unanswered.
LEMMA TapRetryJ ==
  ASSUME IInv, JInv, NEW f \in RetryFlows, TapRetry(f)
  PROVE  JInv'
<1>1. f \in Flows /\ f \notin ConfirmFlows
  BY FlowsDisjoint DEF Flows
<1>2. /\ flow[f].pc = "idle"
      /\ \A g \in RetryFlows : flow[g].pc \in {"idle", "done"}
      /\ flow' = [flow EXCEPT ![f].pc = "hydrate", ![f].b = batch, ![f].a = 1,
                              ![f].want = Eligible(row), ![f].saved = row]
      /\ UNCHANGED <<row, rep, runIds, job, posts, calls, unanswered>>
  BY DEF TapRetry, wireVars, serverVars, calleVars
<1>3. /\ \A g \in Flows : g # f => flow'[g] = flow[g]
      /\ flow'[f].pc = "hydrate" /\ flow'[f].a = 1 /\ flow'[f].want = Eligible(row)
      /\ flow'[f].handles = flow[f].handles /\ flow'[f].saved = row
  BY <1>1, <1>2 DEF IInv, TypeOK, Flow
<1>4. flow[f].want = {}
  BY <1>1, <1>2 DEF JInv, Turns
<1>5. ASSUME NEW c \in Eligible(row) PROVE Unanswered(c)
  <2>1. c \in Contacts /\ row[c].st = "unanswered" /\ ~row[c].retried
    BY DEF Eligible
  <2>2. row[c].run \in unanswered /\ row[c].run.a = 0
    BY <2>1 DEF JInv, RowsTell, RowTells
  <2>3. row[c].run.c = c
    BY <2>1 DEF IInv, RunsPlaced, RowPlaced, PlacedTo
  <2> QED
    BY <2>2, <2>3 DEF Unanswered
<1>6. AttemptsKnown'
  BY <1>1, <1>3 DEF JInv, AttemptsKnown, Flows
<1>7. RetriesUnanswered'
  <2>1. \A g \in RetryFlows : \A c \in flow'[g].want : Unanswered(c)
    BY <1>3, <1>5 DEF JInv, RetriesUnanswered, Flows
  <2> QED
    BY <1>2, <2>1, RetriesStep DEF JInv, RetriesUnanswered
<1>8. WithinWant'
  BY <1>1, <1>2, <1>3, <1>4 DEF JInv, WithinWant
<1>9. RowsTell'
  <2>1. \A g \in Flows : \A c \in Contacts : RowTells(flow'[g].saved[c])
    BY <1>3 DEF JInv, RowsTell
  <2> QED
    BY <1>2, <2>1, RowsTellStep DEF JInv, RowsTell
<1>10. ResultsTell'
  BY <1>1, <1>2, <1>3, <1>4 DEF JInv, ResultsTell, ResultTells, AttemptOf
<1>11. \A g \in ConfirmFlows : flow[g].pc = "done"
  <2>1. PICK c \in Contacts : row[c].st = "unanswered"
    BY DEF TapRetry, Eligible
  <2>2. \A g \in ConfirmFlows : flow[g].pc \in {"idle", "hydrate", "plan", "run", "done"}
    BY DEF IInv, TypeOK, Flow, Flows
  <2> QED
    BY <2>1, <2>2 DEF JInv, Turns
<1>12. Turns'
  <2>1. (\A g \in Flows : flow[g].pc = "idle" => flow[g].want = {})'
    BY <1>3 DEF JInv, Turns
  <2>2. \A g \in ConfirmFlows : flow'[g].pc = "done"
    BY <1>1, <1>3, <1>11 DEF Flows
  <2>3. \A g \in RetryFlows : g # f => flow'[g].pc \in {"idle", "done"}
    BY <1>2, <1>3 DEF Flows
  <2> QED
    BY <1>3, <2>1, <2>2, <2>3 DEF Turns, Active
<1> QED
  BY <1>6, <1>7, <1>8, <1>9, <1>10, <1>12 DEF JInv

\* A retry marks what it wants as retried, and takes the turn.
LEMMA RetryHydratedJ ==
  ASSUME IInv, JInv, NEW f \in RetryFlows, RetryHydrated(f)
  PROVE  JInv'
<1>1. f \in Flows /\ f \notin ConfirmFlows
  BY FlowsDisjoint DEF Flows
<1>2. flow[f].pc = "hydrate" /\ flow' = [flow EXCEPT ![f].pc = "plan"]
  BY DEF RetryHydrated
<1>3. UNCHANGED <<rep, runIds, job, posts, calls, unanswered>>
  BY DEF RetryHydrated, serverVars, calleVars
<1>4. AttemptsKnown' /\ RetriesUnanswered' /\ WithinWant' /\ ResultsTell'
  BY <1>1, <1>2, <1>3, OnlyPlace, WantKept
<1>5. flow[f].saved \in [Contacts -> Row]
  BY <1>1 DEF IInv, TypeOK, Flow
<1>6. ASSUME NEW c \in Contacts
      PROVE  /\ c \in flow[f].want => row'[c].st = "planned" /\ row'[c].retried = TRUE
             /\ c \notin flow[f].want => row'[c] = flow[f].saved[c]
  BY <1>5 DEF RetryHydrated, Row
<1>7. \A c \in Contacts : RowTells(row'[c])
  <2>1. ASSUME NEW c \in Contacts, c \in flow[f].want PROVE RowTells(row'[c])
    BY <1>6, <2>1 DEF RowTells
  <2>2. ASSUME NEW c \in Contacts, c \notin flow[f].want PROVE RowTells(row'[c])
    BY <1>1, <1>6, <2>2 DEF JInv, RowsTell
  <2> QED
    BY <2>1, <2>2
<1>8. \A g \in Flows : \A c \in Contacts : RowTells(flow'[g].saved[c])
  BY <1>1, <1>2, OnlyPlace DEF JInv, RowsTell
<1>9. RowsTell'
  BY <1>3, <1>7, <1>8, RowsTellStep
<1>10. flow[f].want \subseteq Contacts
  BY <1>1 DEF IInv, TypeOK, Flow
<1>11. Turns'
  <2>1. \A g \in Flows :
          /\ flow'[g].pc = (IF g = f THEN "plan" ELSE flow[g].pc)
          /\ flow'[g].want = flow[g].want
    BY <1>1, <1>2 DEF IInv, TypeOK, Flow
  <2>2. (\A g \in Flows : flow[g].pc = "idle" => flow[g].want = {})'
    BY <2>1 DEF JInv, Turns
  <2>3. Active(f)
    BY <1>2 DEF Active
  <2>4. \A g \in ConfirmFlows : flow'[g].pc = "done"
    BY <1>1, <2>1, <2>3 DEF JInv, Turns, Flows
  <2>5. \A g \in RetryFlows : g # f => flow'[g].pc \notin {"hydrate", "plan", "run"}
    BY <2>1, <2>3 DEF JInv, Turns, Active, Flows
  <2>6. \A c \in flow'[f].want : row'[c].retried
    BY <1>1, <1>6, <1>10, <2>1
  <2> QED
    BY <2>2, <2>4, <2>5, <2>6 DEF Turns, Active
<1> QED
  BY <1>4, <1>9, <1>11 DEF JInv

\* Without a token the turn is over and the rows are as they were.
LEMMA HydrateFailsJ ==
  ASSUME IInv, JInv, NEW f \in Flows, HydrateFails(f)
  PROVE  JInv'
<1>1. flow[f].pc = "hydrate" /\ flow' = [flow EXCEPT ![f].pc = "done"]
  BY DEF HydrateFails
<1>2. UNCHANGED <<row, rep, runIds, job, posts, calls, unanswered>>
  BY DEF HydrateFails, wireVars, serverVars, calleVars
<1>3. AttemptsKnown' /\ RetriesUnanswered' /\ WithinWant' /\ ResultsTell'
  BY <1>1, <1>2, OnlyPlace, WantKept
<1>4. RowsTell'
  BY <1>1, <1>2, OnlyPlace DEF JInv, RowsTell, RowTells
<1>5. Turns'
  BY <1>1, <1>2, OnlyPlace DEF JInv, Turns, Active, Flows
<1> QED
  BY <1>3, <1>4, <1>5 DEF JInv

\* Who waits for a response has the turn: every other tap is over, or (a
\* Confirm & Call) there is no other.
LEMMA OthersRest ==
  ASSUME OneConfirm, IInv, JInv, NEW f \in Flows, flow[f].pc \in {"plan", "run"}
  PROVE  /\ \A g \in ConfirmFlows : g # f => flow[g].pc = "done"
         /\ \A g \in RetryFlows : g # f => flow[g].pc \in {"idle", "done"}
<1>1. CASE f \in ConfirmFlows
  <2>1. \A g \in ConfirmFlows : g = f
    BY <1>1 DEF OneConfirm
  <2>2. \A g \in RetryFlows : flow[g].pc \notin {"hydrate", "plan", "run"}
    BY <1>1 DEF JInv, Turns, Active
  <2>3. \A g \in RetryFlows : flow[g].pc \in {"idle", "hydrate", "plan", "run", "done"}
    BY DEF IInv, TypeOK, Flow, Flows
  <2> QED
    BY <2>1, <2>2, <2>3
<1>2. CASE f \in RetryFlows
  <2>1. Active(f)
    BY DEF Active
  <2>2. \A g \in ConfirmFlows : flow[g].pc = "done"
    BY <1>2, <2>1 DEF JInv, Turns
  <2>3. \A g \in RetryFlows : g # f => flow[g].pc \notin {"hydrate", "plan", "run"}
    BY <1>2, <2>1 DEF JInv, Turns, Active
  <2>4. \A g \in RetryFlows : flow[g].pc \in {"idle", "hydrate", "plan", "run", "done"}
    BY DEF IInv, TypeOK, Flow, Flows
  <2> QED
    BY <2>2, <2>3, <2>4
<1> QED
  BY <1>1, <1>2 DEF Flows

\* Once flow f, which had the turn, is over, any rows will do.
LEMMA TurnOver ==
  ASSUME OneConfirm, IInv, JInv, NEW f \in Flows, flow[f].pc \in {"plan", "run"},
         flow' = [flow EXCEPT ![f].pc = "done"]
  PROVE  Turns'
<1>1. \A g \in Flows :
        /\ flow'[g].pc = (IF g = f THEN "done" ELSE flow[g].pc)
        /\ flow'[g].want = flow[g].want
  BY DEF IInv, TypeOK, Flow
<1>2. (\A g \in Flows : flow[g].pc = "idle" => flow[g].want = {})'
  BY <1>1 DEF JInv, Turns
<1>3. \A g \in ConfirmFlows : flow'[g].pc = "done"
  BY <1>1, OthersRest DEF Flows
<1>4. \A g \in RetryFlows : flow'[g].pc \in {"idle", "done"}
  BY <1>1, OthersRest DEF Flows
<1> QED
  BY <1>2, <1>3, <1>4 DEF Turns, Active

\* Whoever fails leaves rows that tell the truth: all over, or those saved.
LEMMA FailJ ==
  ASSUME OneConfirm, IInv, JInv, NEW f \in Flows, flow[f].pc \in {"plan", "run"}, Fail(f),
         UNCHANGED unanswered
  PROVE  RowsTell' /\ Turns'
<1>1. Turns'
  BY TurnOver DEF Fail
<1>2. \A g \in Flows : \A c \in Contacts : RowTells(flow'[g].saved[c])
  BY OnlyPlace DEF JInv, RowsTell, Fail
<1>3. ASSUME NEW c \in Contacts PROVE RowTells(row'[c])
  <2>1. CASE f \in ConfirmFlows
    BY <2>1 DEF Fail, RowTells, IInv, TypeOK, Row
  <2>2. CASE f \notin ConfirmFlows
    BY <2>2 DEF Fail, JInv, RowsTell
  <2> QED
    BY <2>1, <2>2
<1> QED
  BY <1>1, <1>2, <1>3, RowsTellStep

\* A flow that gives up ends its turn, whatever the server still does.
LEMMA GiveUpJ ==
  ASSUME OneConfirm, IInv, JInv, NEW f \in Flows, GiveUp(f)
  PROVE  JInv'
<1>1. /\ flow[f].pc \in {"plan", "run"} /\ Fail(f)
      /\ flow' = [flow EXCEPT ![f].pc = "done"]
      /\ UNCHANGED <<rep, runIds, job, posts, calls, unanswered>>
  BY DEF GiveUp, Fail, wireVars, serverVars, calleVars
<1>2. AttemptsKnown' /\ RetriesUnanswered' /\ WithinWant' /\ ResultsTell'
  BY <1>1, OnlyPlace, WantKept
<1>3. RowsTell' /\ Turns'
  BY <1>1, FailJ
<1> QED
  BY <1>2, <1>3 DEF JInv

\* A response was read, and the flow keeps what it wants.
LEMMA ReplyRead ==
  ASSUME JInv, NEW f \in Flows, rep' = [rep EXCEPT ![f] = NoReply], rep \in [Flows -> Reply],
         \A g \in Flows :
           /\ flow'[g].a = flow[g].a /\ flow'[g].b = flow[g].b
           /\ flow'[g].want = flow[g].want /\ flow'[g].handles \subseteq flow[g].want,
         UNCHANGED <<runIds, job, posts, calls, unanswered>>
  PROVE  AttemptsKnown' /\ RetriesUnanswered' /\ WithinWant' /\ ResultsTell'
<1>1. \A g \in Flows : rep'[g] = rep[g] \/ (rep'[g].ready = {} /\ rep'[g].res = {})
  BY DEF NoReply
<1>2. AttemptsKnown'
  BY DEF JInv, AttemptsKnown, Flows
<1>3. RetriesUnanswered'
  BY DEF JInv, RetriesUnanswered, Unanswered, Flows
<1>4. WithinWant'
  BY <1>1 DEF JInv, WithinWant
<1>5. ResultsTell'
  <2>1. \A g \in Flows : \A r \in job[g].res : ResultTells(g, r)'
    BY DEF JInv, ResultsTell, ResultTells, AttemptOf
  <2>2. \A g \in Flows : \A r \in rep'[g].res : ResultTells(g, r)'
    BY <1>1 DEF JInv, ResultsTell, ResultTells, AttemptOf
  <2>3. \A r \in runIds : r.run.a = r.a
    BY DEF JInv, ResultsTell
  <2> QED
    BY <2>1, <2>2, <2>3 DEF ResultsTell, ResultTells
<1> QED
  BY <1>2, <1>3, <1>4, <1>5

\* The turn stays with flow f, and so do the rows.
LEMMA TurnKept ==
  ASSUME JInv, NEW f \in Flows, flow[f].pc \in {"plan", "run"}, UNCHANGED row,
         \A g \in Flows : g # f => flow'[g] = flow[g],
         flow'[f].pc \in {"plan", "run"}, flow'[f].want = flow[f].want
  PROVE  Turns'
<1>1. \A g \in Flows : (Active(g) <=> flow'[g].pc \in {"hydrate", "plan", "run"})
                       /\ flow'[g].want = flow[g].want
  BY DEF Active
<1>2. (\A g \in Flows : flow[g].pc = "idle" => flow[g].want = {})'
  BY DEF JInv, Turns
<1>3. (\A g \in ConfirmFlows : \A c \in Contacts :
         /\ flow[g].pc \in {"idle", "hydrate"} => row[c].st = "none" /\ ~row[c].retried
         /\ flow[g].pc \in {"plan", "run"} => row[c].st = "planned" /\ ~row[c].retried)'
  BY DEF JInv, Turns, Flows
<1>4. (\A g \in ConfirmFlows, h \in RetryFlows : Active(h) => flow[g].pc = "done")'
  <2>1. \A g \in ConfirmFlows, h \in RetryFlows : Active(h) => flow[g].pc = "done" /\ g # f
    BY DEF JInv, Turns
  <2> QED
    BY <1>1, <2>1 DEF Active, Flows
<1>5. (\A g, h \in RetryFlows : Active(g) /\ Active(h) => g = h)'
  BY <1>1 DEF JInv, Turns, Active, Flows
<1>6. (\A g \in RetryFlows : flow[g].pc \in {"plan", "run"} =>
         \A c \in flow[g].want : row[c].retried)'
  BY DEF JInv, Turns, Flows
<1> QED
  BY <1>2, <1>3, <1>4, <1>5, <1>6 DEF Turns

\* A plan response keeps the turn, or ends it.
LEMMA RecvPlanJ ==
  ASSUME OneConfirm, IInv, JInv, NEW f \in Flows, RecvPlan(f)
  PROVE  JInv'
<1>1. /\ flow[f].pc = "plan" /\ rep' = [rep EXCEPT ![f] = NoReply]
      /\ UNCHANGED <<runIds, job, posts, calls, unanswered>>
  BY DEF RecvPlan, serverVars, calleVars
<1>2. rep \in [Flows -> Reply]
  BY DEF IInv, TypeOK
<1>3. \A g \in Flows : flow[g].handles \subseteq flow[g].want /\ rep[g].ready \subseteq flow[g].want
  BY DEF JInv, WithinWant
<1>4. CASE Fail(f)
  <2>1. \A g \in Flows :
          /\ flow'[g].a = flow[g].a /\ flow'[g].b = flow[g].b
          /\ flow'[g].want = flow[g].want /\ flow'[g].handles = flow[g].handles
    BY <1>4, OnlyPlace DEF Fail
  <2>2. AttemptsKnown' /\ RetriesUnanswered' /\ WithinWant' /\ ResultsTell'
    BY <1>1, <1>2, <1>3, <2>1, ReplyRead
  <2>3. RowsTell' /\ Turns'
    BY <1>1, <1>4, FailJ
  <2> QED
    BY <2>2, <2>3 DEF JInv
<1>5. CASE /\ flow' = [flow EXCEPT ![f].pc = "run", ![f].handles = rep[f].ready]
           /\ UNCHANGED row
  <2>1. /\ \A g \in Flows : g # f => flow'[g] = flow[g]
        /\ flow'[f].pc = "run" /\ flow'[f].a = flow[f].a /\ flow'[f].b = flow[f].b
        /\ flow'[f].want = flow[f].want /\ flow'[f].handles = rep[f].ready
        /\ flow'[f].saved = flow[f].saved
    BY <1>5 DEF IInv, TypeOK, Flow
  <2>2. AttemptsKnown' /\ RetriesUnanswered' /\ WithinWant' /\ ResultsTell'
    <3>1. \A g \in Flows :
            /\ flow'[g].a = flow[g].a /\ flow'[g].b = flow[g].b
            /\ flow'[g].want = flow[g].want /\ flow'[g].handles \subseteq flow[g].want
      BY <1>3, <2>1
    <3> QED
      BY <1>1, <1>2, <3>1, ReplyRead
  <2>3. Turns'
    BY <1>1, <1>5, <2>1, TurnKept
  <2>4. RowsTell'
    <3>1. \A g \in Flows : \A c \in Contacts : RowTells(flow'[g].saved[c])
      BY <2>1 DEF JInv, RowsTell
    <3> QED
      BY <1>1, <1>5, <3>1, RowsTellStep DEF JInv, RowsTell
  <2> QED
    BY <2>2, <2>3, <2>4 DEF JInv
<1> QED
  BY <1>4, <1>5 DEF RecvPlan

\* The results of a run response are calls of the flow's batch and attempt,
\* so the rows settled with them tell the truth.
LEMMA RecvRunJ ==
  ASSUME OneConfirm, IInv, JInv, NEW f \in Flows, RecvRun(f)
  PROVE  JInv'
<1>1. /\ flow[f].pc = "run" /\ rep' = [rep EXCEPT ![f] = NoReply]
      /\ UNCHANGED <<runIds, job, posts, calls, unanswered>>
  BY DEF RecvRun, serverVars, calleVars
<1>2. rep \in [Flows -> Reply]
  BY DEF IInv, TypeOK
<1>3. \A g \in Flows : flow[g].handles \subseteq flow[g].want
  BY DEF JInv, WithinWant
<1>4. CASE Fail(f)
  <2>1. \A g \in Flows :
          /\ flow'[g].a = flow[g].a /\ flow'[g].b = flow[g].b
          /\ flow'[g].want = flow[g].want /\ flow'[g].handles = flow[g].handles
    BY <1>4, OnlyPlace DEF Fail
  <2>2. AttemptsKnown' /\ RetriesUnanswered' /\ WithinWant' /\ ResultsTell'
    BY <1>1, <1>2, <1>3, <2>1, ReplyRead
  <2>3. RowsTell' /\ Turns'
    BY <1>1, <1>4, FailJ
  <2> QED
    BY <2>2, <2>3 DEF JInv
<1>5. CASE /\ flow' = [flow EXCEPT ![f].pc = "plan", ![f].rnd = 2, ![f].handles = {}]
           /\ UNCHANGED row
  <2>1. /\ \A g \in Flows : g # f => flow'[g] = flow[g]
        /\ flow'[f].pc = "plan" /\ flow'[f].a = flow[f].a /\ flow'[f].b = flow[f].b
        /\ flow'[f].want = flow[f].want /\ flow'[f].handles = {}
        /\ flow'[f].saved = flow[f].saved
    BY <1>5 DEF IInv, TypeOK, Flow
  <2>2. AttemptsKnown' /\ RetriesUnanswered' /\ WithinWant' /\ ResultsTell'
    <3>1. \A g \in Flows :
            /\ flow'[g].a = flow[g].a /\ flow'[g].b = flow[g].b
            /\ flow'[g].want = flow[g].want /\ flow'[g].handles \subseteq flow[g].want
      BY <1>3, <2>1
    <3> QED
      BY <1>1, <1>2, <3>1, ReplyRead
  <2>3. Turns'
    BY <1>1, <1>5, <2>1, TurnKept
  <2>4. RowsTell'
    <3>1. \A g \in Flows : \A c \in Contacts : RowTells(flow'[g].saved[c])
      BY <2>1 DEF JInv, RowsTell
    <3> QED
      BY <1>1, <1>5, <3>1, RowsTellStep DEF JInv, RowsTell
  <2> QED
    BY <2>2, <2>3, <2>4 DEF JInv
<1>6. CASE /\ row' = Settled(row, rep[f].res)
           /\ flow' = [flow EXCEPT ![f].pc = "done"]
  <2>1. \A g \in Flows :
          /\ flow'[g].a = flow[g].a /\ flow'[g].b = flow[g].b
          /\ flow'[g].want = flow[g].want /\ flow'[g].handles = flow[g].handles
          /\ flow'[g].saved = flow[g].saved
    BY <1>6, OnlyPlace
  <2>2. AttemptsKnown' /\ RetriesUnanswered' /\ WithinWant' /\ ResultsTell'
    BY <1>1, <1>2, <1>3, <2>1, ReplyRead
  <2>3. Turns'
    BY <1>1, <1>6, TurnOver
  <2>4. ASSUME NEW c \in Contacts PROVE RowTells(Settled(row, rep[f].res)[c])
    <3> DEFINE res == rep[f].res
               w == CHOOSE r \in Queued(res) : r.c = c
    <3>1. row[c] \in Row /\ RowTells(row[c])
      BY DEF IInv, TypeOK, JInv, RowsTell
    <3>2. CASE \E r \in Queued(res) : r.c = c
      <4>1. w \in Queued(res) /\ w.c = c
        BY <3>2
      <4>2. w \in res /\ w.run # None
        BY <4>1 DEF Queued
      <4>3. ResultTells(f, w)
        BY <4>2 DEF JInv, ResultsTell
      <4>4. Settled(row, res)[c] = [row[c] EXCEPT !.st = "live", !.run = w.run]
        BY <3>2 DEF Settled
      <4> HIDE DEF w
      <4>5. c \in flow[f].want /\ w.run.a = AttemptOf(f)
        BY <4>1, <4>2, <4>3 DEF ResultTells
      <4>6. AttemptOf(f) = IF row[c].retried THEN 1 ELSE 0
        <5>1. CASE f \in RetryFlows
          <6>1. row[c].retried
            BY <1>1, <4>5, <5>1 DEF JInv, Turns
          <6> QED
            BY <5>1, <6>1 DEF AttemptOf
        <5>2. CASE f \notin RetryFlows
          <6>1. ~row[c].retried
            BY <1>1, <5>2 DEF JInv, Turns, Flows
          <6> QED
            BY <5>2, <6>1 DEF AttemptOf
        <5> QED
          BY <5>1, <5>2
      <4> QED
        BY <3>1, <4>4, <4>5, <4>6 DEF RowTells, Row
    <3>3. CASE (~ \E r \in Queued(res) : r.c = c) /\ \E r \in res : r.c = c
      <4>1. Settled(row, res)[c] = [row[c] EXCEPT !.st = "over"]
        BY <3>3 DEF Settled
      <4> QED
        BY <3>1, <4>1 DEF RowTells, Row
    <3>4. CASE (~ \E r \in Queued(res) : r.c = c) /\ ~ \E r \in res : r.c = c
      <4>1. Settled(row, res)[c] = row[c]
        BY <3>4 DEF Settled
      <4> QED
        BY <3>1, <4>1
    <3> QED
      BY <3>2, <3>3, <3>4
  <2>5. RowsTell'
    <3>1. \A g \in Flows : \A c \in Contacts : RowTells(flow'[g].saved[c])
      BY <2>1 DEF JInv, RowsTell
    <3> QED
      BY <1>1, <1>6, <2>4, <3>1, RowsTellStep
  <2> QED
    BY <2>2, <2>3, <2>5 DEF JInv
<1> QED
  BY <1>4, <1>5, <1>6 DEF RecvRun

\* The row of a call that ends unanswered names that very call.
LEMMA CallEndsJ ==
  ASSUME IInv, JInv, NEW c \in Contacts, CallEnds(c)
  PROVE  JInv'
<1>1. row[c] \in Row /\ row[c].st = "live"
  BY DEF IInv, TypeOK, CallEnds
<1>2. /\ unanswered \subseteq unanswered'
      /\ UNCHANGED <<flow, rep, runIds, job, posts, calls>>
  BY DEF CallEnds, wireVars, serverVars
<1>3. PICK st \in {"unanswered", "over"} :
        /\ row' = [row EXCEPT ![c].st = st]
        /\ st = "unanswered" => unanswered' = unanswered \cup {row[c].run}
  BY DEF CallEnds
<1>4. row \in [Contacts -> Row]
  BY DEF IInv, TypeOK
<1>5. /\ \A x \in Contacts : x # c => row'[x] = row[x]
      /\ row'[c].st = st /\ row'[c].run = row[c].run /\ row'[c].retried = row[c].retried
  BY <1>1, <1>3, <1>4 DEF Row
<1>6. AttemptsKnown'
  BY <1>2 DEF JInv, AttemptsKnown
<1>7. RetriesUnanswered'
  BY <1>2, RetriesStep DEF JInv, RetriesUnanswered
<1>8. WithinWant' /\ ResultsTell'
  BY <1>2 DEF JInv, WithinWant, ResultsTell, ResultTells, AttemptOf
<1>9. (\A x \in Contacts : RowTells(row[x]))'
  <2>1. ASSUME NEW x \in Contacts, x # c PROVE RowTells(row[x])'
    BY <1>2, <1>5, <2>1 DEF JInv, RowsTell, RowTells
  <2>2. RowTells(row[c])'
    BY <1>1, <1>3, <1>5 DEF JInv, RowsTell, RowTells
  <2> QED
    BY <2>1, <2>2
<1>10. RowsTell'
  BY <1>2, <1>9 DEF JInv, RowsTell, RowTells
<1>11. Turns'
  <2>1. \A g \in ConfirmFlows : flow[g].pc \notin {"idle", "hydrate", "plan", "run"}
    BY <1>1 DEF JInv, Turns
  <2>2. \A x \in Contacts : row'[x].retried = row[x].retried
    BY <1>5
  <2>3. \A g \in RetryFlows : flow[g].want \subseteq Contacts
    BY DEF IInv, TypeOK, Flow, Flows
  <2> QED
    BY <1>2, <2>1, <2>2, <2>3 DEF JInv, Turns, Active
<1> QED
  BY <1>6, <1>7, <1>8, <1>10, <1>11 DEF JInv

(* ------------------------------- server -------------------------------- *)

\* The server and CALL-E leave the rows and the turns alone.
LEMMA RowsKept ==
  ASSUME JInv, UNCHANGED <<row, flow, unanswered>>
  PROVE  AttemptsKnown' /\ RowsTell' /\ Turns'
BY DEF JInv, AttemptsKnown, RowsTell, RowTells, Turns, Active

\* plan-batch dials nothing.
LEMMA ServePlanJ ==
  ASSUME IInv, JInv, NEW f \in Flows, NEW i \in Instances, ServePlan(f, i)
  PROVE  JInv'
<1> DEFINE ready == IF AllowDial(dialEnv[i]) THEN flow[f].want \cap Allowlisted ELSE {}
           reply == [NoReply EXCEPT !.kind = "planned", !.ready = ready]
<1>1. /\ rep' = [rep EXCEPT ![f] = reply]
      /\ UNCHANGED <<row, flow, runIds, job, posts, calls, unanswered>>
  BY DEF ServePlan, deviceVars, calleVars
<1>2. reply.ready \subseteq flow[f].want /\ reply.res = {}
  BY DEF NoReply
<1> HIDE DEF reply
<1>3. AttemptsKnown' /\ RowsTell' /\ Turns'
  BY <1>1, RowsKept
<1>4. RetriesUnanswered'
  BY <1>1, RetriesStep DEF JInv, RetriesUnanswered
<1>5. WithinWant'
  BY <1>1, <1>2 DEF JInv, WithinWant, IInv, TypeOK
<1>6. ResultsTell'
  BY <1>1, <1>2 DEF JInv, ResultsTell, ResultTells, AttemptOf, IInv, TypeOK
<1> QED
  BY <1>3, <1>4, <1>5, <1>6 DEF JInv

\* The handler's recipients are contacts that the flow wants.
LEMMA ServeRunJ ==
  ASSUME IInv, JInv, NEW f \in Flows, NEW i \in Instances, ServeRun(f, i)
  PROVE  JInv'
<1> DEFINE reply == [NoReply EXCEPT !.kind = "killSwitch"]
           j == [NoJob EXCEPT !.i = i, !.todo = flow[f].handles]
<1>1. /\ \/ rep' = [rep EXCEPT ![f] = reply] /\ UNCHANGED job
         \/ job' = [job EXCEPT ![f] = j] /\ UNCHANGED rep
      /\ UNCHANGED <<row, flow, runIds, posts, calls, unanswered>>
  BY DEF ServeRun, deviceVars, calleVars
<1>2. reply.ready = {} /\ reply.res = {}
  BY DEF NoReply
<1>3. j.todo \subseteq flow[f].want /\ j.res = {} /\ j.cur = None
  BY DEF NoJob, JInv, WithinWant
<1> HIDE DEF reply, j
<1>4. AttemptsKnown' /\ RowsTell' /\ Turns'
  BY <1>1, RowsKept
<1>5. RetriesUnanswered'
  BY <1>1, RetriesStep DEF JInv, RetriesUnanswered
<1>6. WithinWant'
  BY <1>1, <1>2, <1>3 DEF JInv, WithinWant, IInv, TypeOK
<1>7. ResultsTell'
  BY <1>1, <1>2, <1>3 DEF JInv, ResultsTell, ResultTells, AttemptOf, IInv, TypeOK
<1> QED
  BY <1>4, <1>5, <1>6, <1>7 DEF JInv

\* The attempt a busy flow dials.
LEMMA BusyAttempt ==
  ASSUME IInv, JInv, NEW f \in Flows, Busy(f)
  PROVE  flow[f].a = AttemptOf(f)
<1>1. flow[f].b \in Batches
  BY DEF IInv, BatchKnown
<1> QED
  BY <1>1, FlowsDisjoint DEF JInv, AttemptsKnown, AttemptOf, Flows

\* A handler with one more result about a wanted contact.
LEMMA JobStepJ ==
  ASSUME IInv, JInv, NEW f \in Flows, NEW j, job' = [job EXCEPT ![f] = j],
         j.todo \subseteq flow[f].want, j.cur # None => j.cur \in flow[f].want,
         \A r \in j.res : ResultTells(f, r), UNCHANGED <<flow, rep>>
  PROVE  /\ WithinWant'
         /\ (\A g \in Flows : \A r \in job[g].res : ResultTells(g, r))'
         /\ (\A g \in Flows : \A r \in rep[g].res : ResultTells(g, r))'
<1>1. \A g \in Flows : job'[g] = IF g = f THEN j ELSE job[g]
  BY DEF IInv, TypeOK
<1>2. WithinWant'
  BY <1>1 DEF JInv, WithinWant
<1>3. (\A g \in Flows : \A r \in job[g].res : ResultTells(g, r))'
  BY <1>1 DEF JInv, ResultsTell, ResultTells, AttemptOf
<1>4. (\A g \in Flows : \A r \in rep[g].res : ResultTells(g, r))'
  BY DEF JInv, ResultsTell, ResultTells, AttemptOf
<1> QED
  BY <1>2, <1>3, <1>4

\* A refusal names a run of the handler's batch and attempt; a posted retry
\* is for a contact that the flow wants, hence unanswered.
LEMMA RunRowJ ==
  ASSUME IInv, JInv, NEW f \in Flows, NEW c \in Contacts, RunRow(f, c)
  PROVE  JInv'
<1>1. job[f] \in Job /\ Busy(f)
  BY DEF IInv, TypeOK, RunRow, Busy
<1>2. UNCHANGED <<row, flow, rep, runIds, calls, unanswered>> /\ c \in job[f].todo
  BY DEF RunRow, deviceVars, wireVars
<1>3. c \in flow[f].want
  BY <1>2 DEF JInv, WithinWant
<1>4. flow[f].a = AttemptOf(f)
  BY <1>1, BusyAttempt
<1>5. AttemptsKnown' /\ RowsTell' /\ Turns'
  BY <1>2, RowsKept
<1>6. job[f].todo \subseteq flow[f].want /\ \A r \in job[f].res : ResultTells(f, r)
  BY DEF JInv, WithinWant, ResultsTell
<1>7. CASE \E r \in Refusals(f, c) :
             /\ job' = [job EXCEPT ![f].todo = @ \ {c}, ![f].res = @ \cup {r}]
             /\ UNCHANGED posts
  <2>1. PICK r \in Refusals(f, c) :
          /\ job' = [job EXCEPT ![f].todo = @ \ {c}, ![f].res = @ \cup {r}]
          /\ UNCHANGED posts
    BY <1>7
  <2> DEFINE j == [job[f] EXCEPT !.todo = @ \ {c}, !.res = @ \cup {r}]
             known == RunIdOf(job[f].i, flow[f].b, c, flow[f].a)
  <2>2. ResultTells(f, r)
    <3>1. CASE \E x \in known : r = [c |-> c, st |-> "skippedDuplicate", run |-> x.run]
      <4>1. PICK x \in known : r = [c |-> c, st |-> "skippedDuplicate", run |-> x.run]
        BY <3>1
      <4>2. x.run.a = flow[f].a
        BY DEF RunIdOf, JInv, ResultsTell
      <4> QED
        BY <1>3, <1>4, <4>1, <4>2 DEF ResultTells
    <3>2. CASE r = [c |-> c, st |-> "invalidHandle", run |-> None]
      BY <1>3, <3>2 DEF ResultTells
    <3>3. (\E x \in known : r = [c |-> c, st |-> "skippedDuplicate", run |-> x.run])
          \/ r = [c |-> c, st |-> "invalidHandle", run |-> None]
      BY DEF Refusals
    <3> QED
      BY <3>1, <3>2, <3>3
  <2>3. job' = [job EXCEPT ![f] = j]
    BY <2>1 DEF IInv, TypeOK
  <2>4. /\ j.todo = job[f].todo \ {c} /\ j.cur = job[f].cur
        /\ j.res = job[f].res \cup {r}
    BY <1>1 DEF Job
  <2> HIDE DEF j
  <2>5. j.todo \subseteq flow[f].want /\ (j.cur # None => j.cur \in flow[f].want)
    BY <1>6, <2>4 DEF JInv, WithinWant
  <2>6. \A x \in j.res : ResultTells(f, x)
    BY <1>6, <2>2, <2>4
  <2>7. /\ WithinWant'
        /\ (\A g \in Flows : \A x \in job[g].res : ResultTells(g, x))'
        /\ (\A g \in Flows : \A x \in rep[g].res : ResultTells(g, x))'
    BY <1>2, <2>3, <2>5, <2>6, JobStepJ
  <2>8. RetriesUnanswered'
    BY <1>2, <2>1, RetriesStep DEF JInv, RetriesUnanswered
  <2>9. ResultsTell'
    BY <1>2, <2>7 DEF JInv, ResultsTell
  <2> QED
    BY <1>5, <2>7, <2>8, <2>9 DEF JInv
<1>8. CASE /\ job' = [job EXCEPT ![f].todo = @ \ {c}, ![f].cur = c]
           /\ posts' = posts \cup {Dial(f, c)}
  <2> DEFINE j == [job[f] EXCEPT !.todo = @ \ {c}, !.cur = c]
  <2>1. job' = [job EXCEPT ![f] = j]
    BY <1>8 DEF IInv, TypeOK
  <2>2. /\ j.todo = job[f].todo \ {c} /\ j.cur = c /\ j.res = job[f].res
    BY <1>1 DEF Job
  <2> HIDE DEF j
  <2>3. /\ WithinWant'
        /\ (\A g \in Flows : \A x \in job[g].res : ResultTells(g, x))'
        /\ (\A g \in Flows : \A x \in rep[g].res : ResultTells(g, x))'
    BY <1>2, <1>3, <1>6, <2>1, <2>2, JobStepJ
  <2>4. Dial(f, c).a = 1 => Unanswered(Dial(f, c).c)
    <3>1. Dial(f, c).a = AttemptOf(f) /\ Dial(f, c).c = c
      BY <1>4 DEF Dial
    <3>2. f \in RetryFlows => Unanswered(c)
      BY <1>3 DEF JInv, RetriesUnanswered
    <3> QED
      BY <3>1, <3>2 DEF AttemptOf
  <2>5. RetriesUnanswered'
    BY <1>2, <1>8, <2>4, RetriesStep DEF JInv, RetriesUnanswered
  <2>6. ResultsTell'
    BY <1>2, <2>3 DEF JInv, ResultsTell
  <2> QED
    BY <1>5, <2>3, <2>5, <2>6 DEF JInv
<1> QED
  BY <1>7, <1>8 DEF RunRow

\* The stored run has the batch, the contact and the attempt of the request.
LEMMA CreateOKJ ==
  ASSUME IInv, JInv, NEW f \in Flows, CreateOK(f)
  PROVE  JInv'
<1> DEFINE c == job[f].cur
           i == job[f].i
           p == Dial(f, c)
           rid(x) == [i |-> i, b |-> p.b, c |-> c, a |-> p.a, run |-> x]
           q(x) == [c |-> c, st |-> "queued", run |-> x]
           j(x) == [job[f] EXCEPT !.cur = None, !.res = @ \cup {q(x)}]
<1>1. job[f] \in Job /\ c # None /\ Busy(f)
  BY DEF IInv, TypeOK, CreateOK, Busy
<1>2. UNCHANGED <<row, flow, rep, posts, calls, unanswered>>
  BY DEF CreateOK, deviceVars, wireVars, calleVars
<1>3. c \in flow[f].want
  BY <1>1 DEF JInv, WithinWant
<1>4. p.a = AttemptOf(f)
  BY <1>1, BusyAttempt DEF Dial
<1>5. PICK x \in CallFor(p) :
        /\ runIds' = (runIds \ RunIdOf(i, p.b, c, p.a)) \cup {rid(x)}
        /\ job' = [job EXCEPT ![f].cur = None, ![f].res = @ \cup {q(x)}]
  BY DEF CreateOK
<1>6. x.a = p.a
  BY DEF CallFor, IdempotencyKey
<1>7. ResultTells(f, q(x)) /\ rid(x).run.a = rid(x).a
  BY <1>3, <1>4, <1>6 DEF ResultTells
<1>8. job' = [job EXCEPT ![f] = j(x)]
  BY <1>5 DEF IInv, TypeOK
<1> HIDE DEF c, i, p, rid, q
<1>9. j(x).todo = job[f].todo /\ j(x).cur = None /\ j(x).res = job[f].res \cup {q(x)}
  BY <1>1 DEF Job
<1> HIDE DEF j
<1>10. /\ j(x).todo \subseteq flow[f].want
       /\ \A r \in j(x).res : ResultTells(f, r)
  BY <1>7, <1>9 DEF JInv, WithinWant, ResultsTell
<1>11. /\ WithinWant'
       /\ (\A g \in Flows : \A r \in job[g].res : ResultTells(g, r))'
       /\ (\A g \in Flows : \A r \in rep[g].res : ResultTells(g, r))'
  BY <1>2, <1>8, <1>9, <1>10, JobStepJ
<1>12. AttemptsKnown' /\ RowsTell' /\ Turns'
  BY <1>2, RowsKept
<1>13. RetriesUnanswered'
  BY <1>2, RetriesStep DEF JInv, RetriesUnanswered
<1>14. \A r \in runIds' : r.run.a = r.a
  BY <1>5, <1>7 DEF JInv, ResultsTell
<1>15. ResultsTell'
  BY <1>11, <1>14 DEF ResultsTell
<1> QED
  BY <1>11, <1>12, <1>13, <1>15 DEF JInv

\* A failed create tells of no run.
LEMMA CreateFailsJ ==
  ASSUME IInv, JInv, NEW f \in Flows, CreateFails(f)
  PROVE  JInv'
<1> DEFINE q == [c |-> job[f].cur, st |-> "failed", run |-> None]
           j == [job[f] EXCEPT !.cur = None, !.res = @ \cup {q}]
<1>1. job[f] \in Job /\ job[f].cur # None
  BY DEF IInv, TypeOK, CreateFails
<1>2. UNCHANGED <<row, flow, rep, runIds, posts, calls, unanswered>>
  BY DEF CreateFails, deviceVars, wireVars, calleVars
<1>3. job' = [job EXCEPT ![f] = j]
  BY DEF CreateFails, IInv, TypeOK
<1>4. ResultTells(f, q)
  BY <1>1 DEF ResultTells, JInv, WithinWant
<1> HIDE DEF q
<1>5. j.todo = job[f].todo /\ j.cur = None /\ j.res = job[f].res \cup {q}
  BY <1>1 DEF Job
<1> HIDE DEF j
<1>6. j.todo \subseteq flow[f].want /\ \A r \in j.res : ResultTells(f, r)
  BY <1>4, <1>5 DEF JInv, WithinWant, ResultsTell
<1>7. /\ WithinWant'
      /\ (\A g \in Flows : \A r \in job[g].res : ResultTells(g, r))'
      /\ (\A g \in Flows : \A r \in rep[g].res : ResultTells(g, r))'
  BY <1>2, <1>3, <1>5, <1>6, JobStepJ
<1>8. AttemptsKnown' /\ RowsTell' /\ Turns'
  BY <1>2, RowsKept
<1>9. RetriesUnanswered'
  BY <1>2, RetriesStep DEF JInv, RetriesUnanswered
<1>10. ResultsTell'
  BY <1>2, <1>7 DEF JInv, ResultsTell
<1> QED
  BY <1>7, <1>8, <1>9, <1>10 DEF JInv

\* The answer carries the results of the handler.
LEMMA FinishRunJ ==
  ASSUME IInv, JInv, NEW f \in Flows, FinishRun(f)
  PROVE  JInv'
<1> DEFINE reply == [NoReply EXCEPT !.kind = "ran", !.res = job[f].res]
<1>1. /\ rep' = [rep EXCEPT ![f] = reply]
      /\ job' = [job EXCEPT ![f] = NoJob]
      /\ UNCHANGED <<row, flow, runIds, posts, calls, unanswered>>
  BY DEF FinishRun, deviceVars, calleVars
<1>2. reply.ready = {} /\ reply.res = job[f].res
  BY DEF NoReply
<1>3. NoJob.todo = {} /\ NoJob.res = {} /\ NoJob.cur = None
  BY DEF NoJob
<1> HIDE DEF reply
<1>4. \A g \in Flows : /\ rep'[g] = (IF g = f THEN reply ELSE rep[g])
                       /\ job'[g] = (IF g = f THEN NoJob ELSE job[g])
  BY <1>1 DEF IInv, TypeOK
<1>5. AttemptsKnown' /\ RowsTell' /\ Turns'
  BY <1>1, RowsKept
<1>6. RetriesUnanswered'
  BY <1>1, RetriesStep DEF JInv, RetriesUnanswered
<1>7. WithinWant'
  BY <1>1, <1>2, <1>3, <1>4 DEF JInv, WithinWant
<1>8. ResultsTell'
  BY <1>1, <1>2, <1>3, <1>4 DEF JInv, ResultsTell, ResultTells, AttemptOf
<1> QED
  BY <1>5, <1>6, <1>7, <1>8 DEF JInv

\* A restart forgets handles and runs, and dials nothing.
LEMMA RestartJ ==
  ASSUME IInv, JInv, NEW i \in Instances, Restart(i)
  PROVE  JInv'
<1>1. /\ runIds' \subseteq runIds
      /\ job' = [f \in Flows |-> IF job[f].i = i THEN NoJob ELSE job[f]]
      /\ UNCHANGED <<row, flow, rep, posts, calls, unanswered>>
  BY DEF Restart, deviceVars, wireVars, calleVars
<1>2. NoJob.todo = {} /\ NoJob.res = {} /\ NoJob.cur = None
  BY DEF NoJob
<1>3. AttemptsKnown' /\ RowsTell' /\ Turns'
  BY <1>1, RowsKept
<1>4. RetriesUnanswered'
  BY <1>1, RetriesStep DEF JInv, RetriesUnanswered
<1>5. WithinWant'
  BY <1>1, <1>2 DEF JInv, WithinWant
<1>6. ResultsTell'
  BY <1>1, <1>2 DEF JInv, ResultsTell, ResultTells, AttemptOf
<1> QED
  BY <1>3, <1>4, <1>5, <1>6 DEF JInv

(* ------------------------------- CALL-E -------------------------------- *)

\* A call that CALL-E places was posted, for a contact that some flow wanted.
LEMMA AcceptJ ==
  ASSUME IInv, JInv, NEW p \in posts, Accept(p)
  PROVE  JInv'
<1>1. /\ calls' \subseteq calls \cup {p}
      /\ posts' \subseteq posts
      /\ UNCHANGED <<row, flow, rep, runIds, job, unanswered>>
  BY DEF Accept, deviceVars, wireVars, serverVars
<1>2. AttemptsKnown' /\ RowsTell' /\ Turns'
  BY <1>1, RowsKept
<1>3. RetriesUnanswered'
  BY <1>1, RetriesStep DEF JInv, RetriesUnanswered
<1>4. WithinWant' /\ ResultsTell'
  BY <1>1 DEF JInv, WithinWant, ResultsTell, ResultTells, AttemptOf
<1> QED
  BY <1>2, <1>3, <1>4 DEF JInv

(* ------------------------------ invariance ----------------------------- *)

\* Every step keeps the strengthening, given the inductive invariant of the
\* rail and one Confirm & Call.
LEMMA JInvNext ==
  ASSUME OneConfirm
  PROVE  IInv /\ JInv /\ [Next]_vars => JInv'
<1> SUFFICES ASSUME IInv, JInv, [Next]_vars PROVE JInv'
  OBVIOUS
<1>1. CASE Device
  <2>1. \A f \in ConfirmFlows : TapConfirm(f) \/ ConfirmHydrated(f) => JInv'
    BY TapConfirmJ, ConfirmHydratedJ
  <2>2. \A f \in RetryFlows : TapRetry(f) \/ RetryHydrated(f) => JInv'
    BY TapRetryJ, RetryHydratedJ
  <2>3. \A f \in Flows : HydrateFails(f) \/ RecvPlan(f) \/ RecvRun(f) \/ GiveUp(f) => JInv'
    BY HydrateFailsJ, RecvPlanJ, RecvRunJ, GiveUpJ
  <2>4. \A c \in Contacts : CallEnds(c) => JInv'
    BY CallEndsJ
  <2> QED
    BY <1>1, <2>1, <2>2, <2>3, <2>4 DEF Device
<1>2. CASE Server
  <2>1. \A f \in Flows, i \in Instances : ServePlan(f, i) \/ ServeRun(f, i) => JInv'
    BY ServePlanJ, ServeRunJ
  <2>2. \A f \in Flows, c \in Contacts : RunRow(f, c) => JInv'
    BY RunRowJ
  <2>3. \A f \in Flows : CreateOK(f) \/ CreateFails(f) \/ FinishRun(f) => JInv'
    BY CreateOKJ, CreateFailsJ, FinishRunJ
  <2>4. \A i \in Instances : Restart(i) => JInv'
    BY RestartJ
  <2> QED
    BY <1>2, <2>1, <2>2, <2>3, <2>4 DEF Server
<1>3. CASE CallE
  BY <1>3, AcceptJ DEF CallE
<1>4. CASE UNCHANGED vars
  <2>1. UNCHANGED <<row, flow, rep, runIds, job, posts, calls, unanswered>>
    BY <1>4 DEF vars, deviceVars, wireVars, serverVars, calleVars
  <2>2. AttemptsKnown' /\ RowsTell' /\ Turns'
    BY <2>1, RowsKept
  <2>3. RetriesUnanswered'
    BY <2>1, RetriesStep DEF JInv, RetriesUnanswered
  <2>4. WithinWant' /\ ResultsTell'
    BY <2>1 DEF JInv, WithinWant, ResultsTell, ResultTells, AttemptOf
  <2> QED
    BY <2>2, <2>3, <2>4 DEF JInv
<1> QED
  BY <1>1, <1>2, <1>3, <1>4 DEF Next

\* Both invariants hold in every reachable state.
LEMMA JInvariance ==
  ASSUME OneConfirm
  PROVE  Spec => [](IInv /\ JInv)
<1>1. Init => IInv /\ JInv
  BY IInvInit, JInvInit
<1>2. IInv /\ JInv /\ [Next]_vars => (IInv /\ JInv)'
  BY IInvNext, JInvNext
<1> QED
  BY <1>1, <1>2, PTL DEF Spec

(* ------------------------------- theorems ------------------------------ *)

\* With one Confirm & Call there is one batch.
LEMMA OneBatch ==
  ASSUME OneConfirm, TypeOK, NEW x \in calls, NEW y \in calls
  PROVE  x.b = y.b
BY DEF OneConfirm, TypeOK, Call, Batches

\* A retry is dialled only for a contact whose first call of that batch ended
\* in no answer or voicemail, whatever replica serves it and however late.
THEOREM RetriesOnlyUnanswered ==
  ASSUME OneConfirm
  PROVE  Spec => []RetryOnlyUnanswered
<1>1. IInv /\ JInv => RetryOnlyUnanswered
  <2> SUFFICES ASSUME IInv, JInv, NEW x \in calls, x.a = 1
               PROVE  \E y \in unanswered : y.b = x.b /\ y.c = x.c /\ y.a = 0
    BY DEF RetryOnlyUnanswered
  <2>1. PICK y \in unanswered : y.c = x.c /\ y.a = 0
    BY DEF JInv, RetriesUnanswered, Unanswered
  <2>2. y \in calls
    BY DEF IInv, TypeOK
  <2>3. y.b = x.b
    BY <2>2, OneBatch DEF IInv
  <2> QED
    BY <2>1, <2>3
<1> QED
  BY <1>1, JInvariance, PTL

\* A row that is polled or unanswered shows the call placed to its contact, in
\* the desk's batch, of the attempt the row is at.
THEOREM RowsShowTheirCall ==
  ASSUME OneConfirm
  PROVE  Spec => []RowShowsItsCall
<1>1. IInv /\ JInv => RowShowsItsCall
  <2> SUFFICES ASSUME IInv, JInv, NEW c \in Contacts, row[c].st \in {"live", "unanswered"}
               PROVE  /\ row[c].run \in calls
                      /\ row[c].run.c = c
                      /\ row[c].run.b = batch
                      /\ row[c].run.a = (IF row[c].retried THEN 1 ELSE 0)
    BY DEF RowShowsItsCall
  <2>1. row[c].run \in calls /\ row[c].run.c = c
    BY DEF IInv, RunsPlaced, RowPlaced, PlacedTo
  <2>2. row[c].run.b \in Batches
    BY <2>1 DEF IInv, TypeOK, Call
  <2>3. batch \in Batches
    BY DEF IInv, BatchKnown
  <2>4. row[c].run.b = batch
    BY <2>2, <2>3 DEF OneConfirm, Batches
  <2>5. row[c].run.a = (IF row[c].retried THEN 1 ELSE 0)
    BY DEF JInv, RowsTell, RowTells
  <2> QED
    BY <2>1, <2>4, <2>5
<1> QED
  BY <1>1, JInvariance, PTL

(* ----------------------------- refinement ------------------------------ *)

\* Every step of the rail is a step of the contract or a stutter of it.
LEMMA ContractStep ==
  ASSUME OneConfirm, IInv, JInv, [Next]_vars
  PROVE  [Contract!Next]_(Contract!vars)
<1>1. CASE UNCHANGED <<calls, unanswered>>
  BY <1>1 DEF Contract!vars
<1>2. ASSUME NEW c \in Contacts, CallEnds(c) PROVE [Contract!Next]_(Contract!vars)
  <2>1. row[c].run \in calls
    BY <1>2 DEF CallEnds, IInv, RunsPlaced, RowPlaced, PlacedTo
  <2>2. calls' = calls
    BY <1>2 DEF CallEnds
  <2>3. unanswered' = unanswered \cup {row[c].run} \/ unanswered' = unanswered
    BY <1>2 DEF CallEnds
  <2>4. CASE unanswered' = unanswered \cup {row[c].run}
    BY <2>1, <2>2, <2>4 DEF Contract!Next, Contract!HangUp
  <2>5. CASE unanswered' = unanswered
    BY <1>1, <2>2, <2>5
  <2> QED
    BY <2>3, <2>4, <2>5
<1>3. ASSUME NEW p \in posts, Accept(p) PROVE [Contract!Next]_(Contract!vars)
  <2>1. unanswered' = unanswered
    BY <1>3 DEF Accept
  <2>2. CASE CallFor(p) # {}
    BY <1>1, <1>3, <2>1, <2>2 DEF Accept
  <2>3. CASE CallFor(p) = {}
    <3>1. calls' = calls \cup {p}
      BY <1>3, <2>3 DEF Accept
    <3>2. p \in Call
      BY DEF IInv, TypeOK
    <3>3. p \in Contract!Call
      BY <3>2 DEF Call, Contract!Call, Attempts
    <3>4. ~ \E x \in calls : x.b = p.b /\ x.c = p.c /\ x.a = p.a
      BY <2>3 DEF CallFor, IdempotencyKey
    <3>5. CASE p.a = 0
      <4>1. Contract!Place(p)
        BY <2>1, <3>1, <3>4, <3>5 DEF Contract!Place, Contract!Placed
      <4> QED
        BY <3>3, <4>1 DEF Contract!Next
    <3>6. CASE p.a = 1
      <4>1. PICK y \in unanswered : y.c = p.c /\ y.a = 0
        BY <3>6 DEF JInv, RetriesUnanswered, Unanswered
      <4>2. y.b \in Batches /\ p.b \in Batches
        BY <3>2 DEF IInv, TypeOK, Call
      <4>3. y.b = p.b
        BY <4>2 DEF OneConfirm, Batches
      <4>4. Contract!Redial(p)
        BY <2>1, <3>1, <3>4, <3>6, <4>1, <4>3 DEF Contract!Redial, Contract!Placed
      <4> QED
        BY <3>3, <4>4 DEF Contract!Next
    <3>7. p.a \in {0, 1}
      BY <3>2 DEF Call, Attempts
    <3> QED
      BY <3>5, <3>6, <3>7
  <2> QED
    BY <2>2, <2>3
<1>4. CASE Device
  <2>1. (\E c \in Contacts : CallEnds(c)) \/ UNCHANGED <<calls, unanswered>>
    BY <1>4, DeviceCalls
  <2> QED
    BY <1>1, <1>2, <2>1
<1>5. CASE Server
  <2>1. UNCHANGED <<calls, unanswered>>
    BY <1>5, ServerCalls
  <2> QED
    BY <1>1, <2>1
<1>6. CASE CallE
  BY <1>3, <1>6 DEF CallE
<1>7. CASE UNCHANGED vars
  BY <1>1, <1>7 DEF vars, calleVars
<1> QED
  BY <1>4, <1>5, <1>6, <1>7 DEF Next

\* The rail implements the promise made to the merchant: calls appear as
\* CallContract lets them, and every other step is a stutter of it.
THEOREM RailImplementsContract ==
  ASSUME OneConfirm
  PROVE  Spec => ContractHolds
<1>1. Init => Contract!Init
  BY DEF Init, Contract!Init
<1>2. IInv /\ JInv /\ [Next]_vars => [Contract!Next]_(Contract!vars)
  BY ContractStep
<1> QED
  BY <1>1, <1>2, JInvariance, PTL DEF Spec, ContractHolds, Contract!Spec
=============================================================================
