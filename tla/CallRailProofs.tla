--------------------------- MODULE CallRailProofs ---------------------------
(***************************************************************************)
(* Theorems about the call rail, for any contacts, replicas, taps and      *)
(* number of restarts.  IInv is the inductive invariant: the types, where  *)
(* the batch id of a request comes from, and where a shown run comes from. *)
(***************************************************************************)
EXTENDS CallRail, TLAPS

(* ------------------------- inductive invariant ------------------------- *)

\* A flow with a request, a handler or a reply to wait for.
Busy(f) ==
    \/ req[f] # "none"
    \/ job[f].i # None
    \/ job[f].cur # None
    \/ flow[f].pc \in {"plan", "run"}
    \/ f \in RetryFlows /\ flow[f].pc = "hydrate"

\* Whatever asks for a call names a batch that a Confirm & Call drew.
BatchKnown ==
    /\ \A c \in Contacts : row[c].st # "none" => batch \in Batches
    /\ \A f \in Flows : flow[f].b \in Batches => batch \in Batches
    /\ \A f \in Flows : \A c \in Contacts :
          flow[f].saved[c].st # "none" => batch \in Batches
    /\ \A f \in Flows : Busy(f) => flow[f].b \in Batches
    /\ \A f \in Flows : job[f].cur # None => job[f].i \in Instances

\* run is a call that was placed, to contact c.
PlacedTo(run, c) == run \in calls /\ run.c = c

RowPlaced(r, c) == r.st \in {"live", "unanswered"} => PlacedTo(r.run, c)

ResultsPlaced(res) == \A r \in res : r.run # None => PlacedTo(r.run, r.c)

\* Every run id that a store, a response or a row carries is that of a call
\* to the contact it is filed under.
RunsPlaced ==
    /\ \A c \in Contacts : RowPlaced(row[c], c)
    /\ \A f \in Flows : \A c \in Contacts : RowPlaced(flow[f].saved[c], c)
    /\ \A f \in Flows : ResultsPlaced(job[f].res) /\ ResultsPlaced(rep[f].res)
    /\ \A r \in runIds : PlacedTo(r.run, r.c)

IInv == TypeOK /\ BatchKnown /\ RunsPlaced

(* -------------------------------- types -------------------------------- *)

\* The initial states satisfy the inductive invariant.
LEMMA IInvInit == Init => IInv
<1> SUFFICES ASSUME Init PROVE IInv
  OBVIOUS
<1> USE DEF Init, NoRow, IdleFlow, NoJob, NoReply
<1>1. TypeOK
  <2>1. row \in [Contacts -> Row]
    BY DEF Row, RowStatus
  <2>2. flow \in [Flows -> Flow]
    BY <2>1 DEF Flow, Row, RowStatus, Attempts
  <2>3. rep \in [Flows -> Reply] /\ job \in [Flows -> Job]
    BY DEF Reply, Job, Result
  <2>4. restarts \in 0..MaxRestarts
    BY RestartBound
  <2> QED
    BY <2>1, <2>2, <2>3, <2>4 DEF TypeOK
<1>2. BatchKnown
  BY DEF BatchKnown, Busy
<1>3. RunsPlaced
  BY DEF RunsPlaced, RowPlaced, ResultsPlaced
<1> QED
  BY <1>1, <1>2, <1>3 DEF IInv

(* ------------------------------- device -------------------------------- *)

\* A flow that moves on to another place is a flow.
LEMMA FlowMove ==
  ASSUME NEW x \in Flow, NEW pc \in {"idle", "hydrate", "plan", "run", "done"}
  PROVE  [x EXCEPT !.pc = pc] \in Flow
BY DEF Flow

\* confirmAndCall up to the token touches only the place of its flow.
LEMMA TapConfirmInv ==
  ASSUME IInv, NEW f \in ConfirmFlows, TapConfirm(f)
  PROVE  IInv'
<1> USE DEF IInv, TapConfirm, deviceVars, wireVars, serverVars, calleVars
<1>1. f \in Flows /\ f \notin RetryFlows
  BY FlowsDisjoint DEF Flows
<1>2. TypeOK'
  BY <1>1, FlowMove DEF TypeOK
<1>3. BatchKnown'
  BY <1>1 DEF TypeOK, BatchKnown, Busy, Flow
<1>4. RunsPlaced'
  BY <1>1 DEF TypeOK, RunsPlaced, RowPlaced, ResultsPlaced, PlacedTo, Flow
<1> QED
  BY <1>2, <1>3, <1>4

\* The consent draws a known batch, and its planned rows name no run yet.
LEMMA ConfirmHydratedInv ==
  ASSUME IInv, NEW f \in ConfirmFlows, ConfirmHydrated(f)
  PROVE  IInv'
<1> USE DEF IInv, ConfirmHydrated, serverVars, calleVars
<1>1. f \in Flows /\ f \in Batches
  BY DEF Flows, Batches
<1>2. row' \in [Contacts -> Row]
  BY DEF NoRow, Row, RowStatus
<1>3. TypeOK'
  <2>1. flow[f] \in Flow
    BY <1>1 DEF TypeOK
  <2>2. [flow[f] EXCEPT !.pc = "plan", !.b = f, !.want = Contacts] \in Flow
    <3> HIDE DEF IInv, ConfirmHydrated
    <3> QED
      BY <1>1, <2>1 DEF Flow
  <2>3. flow' \in [Flows -> Flow]
    BY <1>1, <2>2 DEF TypeOK
  <2> QED
    BY <1>1, <1>2, <2>3 DEF TypeOK
<1>4. BatchKnown'
  BY <1>1 DEF TypeOK, BatchKnown, Busy, Flow
<1>5. RunsPlaced'
  BY <1>1 DEF TypeOK, RunsPlaced, RowPlaced, ResultsPlaced, PlacedTo, Flow, NoRow
<1> QED
  BY <1>3, <1>4, <1>5

\* A retry takes the desk's batch and keeps the rows it will put back.
LEMMA TapRetryInv ==
  ASSUME IInv, NEW f \in RetryFlows, TapRetry(f)
  PROVE  IInv'
<1> USE DEF IInv, TapRetry, wireVars, serverVars, calleVars
<1>1. f \in Flows
  BY DEF Flows
<1>2. batch \in Batches
  BY DEF Eligible, BatchKnown
<1>3. Eligible(row) \in SUBSET Contacts
  BY DEF Eligible
<1>4. TypeOK'
  <2>1. [flow[f] EXCEPT !.pc = "hydrate", !.b = batch, !.a = 1,
                        !.want = Eligible(row), !.saved = row] \in Flow
    <3>1. flow[f] \in Flow /\ row \in [Contacts -> Row]
      BY <1>1 DEF TypeOK
    <3> HIDE DEF IInv, TapRetry
    <3> QED
      BY <1>2, <1>3, <3>1 DEF Flow, Attempts
  <2>2. flow' \in [Flows -> Flow]
    BY <1>1, <2>1 DEF TypeOK
  <2> QED
    BY <2>2 DEF TypeOK
<1>5. BatchKnown'
  BY <1>1, <1>2 DEF TypeOK, BatchKnown, Busy, Flow
<1>6. RunsPlaced'
  BY <1>1 DEF TypeOK, RunsPlaced, RowPlaced, ResultsPlaced, PlacedTo, Flow
<1> QED
  BY <1>4, <1>5, <1>6

\* The rows of a retry are those saved, which named placed calls already.
LEMMA RetryHydratedInv ==
  ASSUME IInv, NEW f \in RetryFlows, RetryHydrated(f)
  PROVE  IInv'
<1>1. f \in Flows
  BY DEF Flows
<1>2. flow[f].saved \in [Contacts -> Row] /\ flow[f].want \in SUBSET Contacts
  BY <1>1 DEF IInv, TypeOK, Flow
<1>3. row' \in [Contacts -> Row]
  BY <1>2 DEF RetryHydrated, Row, RowStatus
<1>4. flow[f].b \in Batches /\ batch \in Batches
  BY <1>1 DEF IInv, BatchKnown, Busy, RetryHydrated
<1>5. UNCHANGED <<calls, rep, job, runIds>>
  BY DEF RetryHydrated, serverVars, calleVars
<1>6. TypeOK'
  BY <1>1, <1>3, FlowMove DEF IInv, TypeOK, RetryHydrated, serverVars, calleVars
<1>7. BatchKnown'
  BY <1>1, <1>4 DEF IInv, TypeOK, BatchKnown, Busy, Flow, RetryHydrated, serverVars
<1>8. RunsPlaced'
  <2>1. (\A c \in Contacts : RowPlaced(row[c], c))'
    <3>1. ASSUME NEW c \in Contacts PROVE RowPlaced(row[c], c)'
      <4>1. CASE c \in flow[f].want
        BY <1>2, <4>1 DEF RetryHydrated, RowPlaced, Row
      <4>2. CASE c \notin flow[f].want
        <5>1. row'[c] = flow[f].saved[c]
          BY <4>2 DEF RetryHydrated
        <5>2. RowPlaced(flow[f].saved[c], c)
          BY <1>1 DEF IInv, RunsPlaced
        <5> QED
          BY <1>5, <5>1, <5>2 DEF RowPlaced, PlacedTo
      <4> QED
        BY <4>1, <4>2
    <3> QED
      BY <3>1
  <2>2. \A g \in Flows : flow'[g].saved = flow[g].saved
    BY <1>1 DEF IInv, TypeOK, Flow, RetryHydrated
  <2>3. \A g \in Flows : \A c \in Contacts : RowPlaced(flow'[g].saved[c], c)
    BY <2>2 DEF IInv, RunsPlaced
  <2> QED
    BY <1>5, <2>1, <2>3 DEF IInv, RunsPlaced, RowPlaced, ResultsPlaced, PlacedTo
<1> QED
  BY <1>6, <1>7, <1>8 DEF IInv

\* Without a token no row changes.
LEMMA HydrateFailsInv ==
  ASSUME IInv, NEW f \in Flows, HydrateFails(f)
  PROVE  IInv'
<1> USE DEF IInv, HydrateFails, wireVars, serverVars, calleVars
<1>1. TypeOK'
  BY FlowMove DEF TypeOK
<1>2. BatchKnown'
  BY DEF TypeOK, BatchKnown, Busy, Flow
<1>3. RunsPlaced'
  BY DEF TypeOK, RunsPlaced, RowPlaced, ResultsPlaced, PlacedTo, Flow
<1> QED
  BY <1>1, <1>2, <1>3

\* Both ways to fail leave rows that the invariant allows, and touch nothing
\* of the flow but its place.
LEMMA FailRows ==
  ASSUME IInv, NEW f \in Flows, flow[f].pc \in {"plan", "run"}, Fail(f)
  PROVE  /\ row' \in [Contacts -> Row]
         /\ batch \in Batches
         /\ \A c \in Contacts : row'[c].st \in {"live", "unanswered"} => PlacedTo(row'[c].run, c)
         /\ flow' \in [Flows -> Flow]
         /\ \A g \in Flows :
              /\ flow'[g].saved = flow[g].saved
              /\ flow'[g].b = flow[g].b
              /\ flow'[g].pc = IF g = f THEN "done" ELSE flow[g].pc
<1> USE DEF IInv, Fail
<1>1. flow[f].saved \in [Contacts -> Row]
  BY DEF TypeOK, Flow
<1>2. row' \in [Contacts -> Row]
  BY <1>1, SMTT(30) DEF TypeOK, Row, RowStatus
<1>3. batch \in Batches
  BY DEF BatchKnown, Busy
<1>4. \A c \in Contacts : row'[c].st \in {"live", "unanswered"} => PlacedTo(row'[c].run, c)
  <2>1. CASE f \in ConfirmFlows
    BY <2>1 DEF TypeOK, Row
  <2>2. CASE f \notin ConfirmFlows
    BY <2>2 DEF RunsPlaced, RowPlaced
  <2> QED
    BY <2>1, <2>2
<1>5. flow' \in [Flows -> Flow]
  BY FlowMove DEF TypeOK
<1>6. \A g \in Flows :
        /\ flow'[g].saved = flow[g].saved
        /\ flow'[g].b = flow[g].b
        /\ flow'[g].pc = IF g = f THEN "done" ELSE flow[g].pc
  BY DEF TypeOK, Flow
<1> QED
  BY <1>2, <1>3, <1>4, <1>5, <1>6

\* A flow that gives up leaves the wire and the server as they are.
LEMMA GiveUpInv ==
  ASSUME IInv, NEW f \in Flows, GiveUp(f)
  PROVE  IInv'
<1> USE DEF IInv, GiveUp, wireVars, serverVars, calleVars
<1>1. TypeOK'
  BY FailRows DEF TypeOK
<1>2. BatchKnown'
  BY FailRows DEF BatchKnown, Busy
<1>3. RunsPlaced'
  BY FailRows DEF RunsPlaced, RowPlaced, ResultsPlaced, PlacedTo
<1> QED
  BY <1>1, <1>2, <1>3

\* A placed call stays placed.
LEMMA RunsPlacedStays ==
  ASSUME RunsPlaced, calls \subseteq calls',
         UNCHANGED <<row, rep, job, runIds>>,
         \A g \in Flows : flow'[g].saved = flow[g].saved
  PROVE  RunsPlaced'
<1>1. (\A c \in Contacts : RowPlaced(row[c], c))'
  BY DEF RunsPlaced, RowPlaced, PlacedTo
<1>2. (\A g \in Flows : \A c \in Contacts : RowPlaced(flow[g].saved[c], c))'
  <2>1. \A g \in Flows : \A c \in Contacts : RowPlaced(flow'[g].saved[c], c)
    BY DEF RunsPlaced
  <2> QED
    BY <2>1 DEF RowPlaced, PlacedTo
<1>3. (\A g \in Flows : ResultsPlaced(job[g].res) /\ ResultsPlaced(rep[g].res))'
  BY DEF RunsPlaced, ResultsPlaced, PlacedTo
<1>4. (\A r \in runIds : PlacedTo(r.run, r.c))'
  BY DEF RunsPlaced, PlacedTo
<1> QED
  BY <1>1, <1>2, <1>3, <1>4 DEF RunsPlaced

\* A plan response moves the flow on to run-batch, or fails it.
LEMMA RecvPlanInv ==
  ASSUME IInv, NEW f \in Flows, RecvPlan(f)
  PROVE  IInv'
<1>1. rep' = [rep EXCEPT ![f] = NoReply] /\ flow[f].pc = "plan"
  BY DEF RecvPlan
<1>2. NoReply \in Reply /\ NoReply.res = {}
  BY DEF NoReply, Reply
<1>3. UNCHANGED <<calls, job, runIds, batch>>
  BY DEF RecvPlan, serverVars, calleVars
<1>4. (\A g \in Flows : ResultsPlaced(job[g].res) /\ ResultsPlaced(rep[g].res))'
  BY <1>1, <1>2, <1>3 DEF IInv, TypeOK, RunsPlaced, ResultsPlaced, PlacedTo
<1>5. CASE rep[f].ready = {} /\ Fail(f) /\ UNCHANGED req
  <2>1. TypeOK'
    BY <1>1, <1>2, <1>5, FailRows DEF IInv, TypeOK, RecvPlan, serverVars, calleVars
  <2>2. BatchKnown'
    BY <1>1, <1>3, <1>5, FailRows DEF IInv, BatchKnown, Busy
  <2>3. RunsPlaced'
    BY <1>1, <1>3, <1>4, <1>5, FailRows DEF IInv, RunsPlaced, RowPlaced, PlacedTo
  <2> QED
    BY <2>1, <2>2, <2>3 DEF IInv
<1>6. CASE /\ flow' = [flow EXCEPT ![f].pc = "run", ![f].handles = rep[f].ready]
           /\ req' = [req EXCEPT ![f] = "run"]
           /\ UNCHANGED row
  <2>1. [flow[f] EXCEPT !.pc = "run", !.handles = rep[f].ready] \in Flow
    <3>1. rep[f].ready \in SUBSET Contacts
      BY DEF IInv, TypeOK, Reply
    <3>2. flow[f] \in Flow
      BY DEF IInv, TypeOK
    <3> QED
      BY <3>1, <3>2 DEF Flow
  <2>2. TypeOK'
    BY <1>1, <1>2, <1>6, <2>1 DEF IInv, TypeOK, RecvPlan, serverVars, calleVars
  <2>3. flow[f].b \in Batches
    BY <1>1 DEF IInv, BatchKnown, Busy
  <2>4. BatchKnown'
    BY <1>1, <1>3, <1>6, <2>3 DEF IInv, TypeOK, BatchKnown, Busy, Flow
  <2>5. \A g \in Flows : flow'[g].saved = flow[g].saved
    BY <1>6 DEF IInv, TypeOK, Flow
  <2>6. \A g \in Flows : \A c \in Contacts : RowPlaced(flow'[g].saved[c], c)
    BY <2>5 DEF IInv, RunsPlaced
  <2>7. RunsPlaced'
    BY <1>3, <1>4, <1>6, <2>6 DEF IInv, RunsPlaced, RowPlaced, PlacedTo
  <2> QED
    BY <2>2, <2>4, <2>7 DEF IInv
<1> QED
  BY <1>5, <1>6 DEF RecvPlan

\* The rows after a run response have their type and show placed calls.
LEMMA SettledRows ==
  ASSUME IInv, NEW f \in Flows
  PROVE  /\ Settled(row, rep[f].res) \in [Contacts -> Row]
         /\ \A c \in Contacts : RowPlaced(Settled(row, rep[f].res)[c], c)
<1> DEFINE res == rep[f].res
           W(c) == CHOOSE r \in Queued(res) : r.c = c
<1>1. res \subseteq Result
  BY DEF IInv, TypeOK, Reply
<1>2. ASSUME NEW c \in Contacts
      PROVE  Settled(row, res)[c] \in Row /\ RowPlaced(Settled(row, res)[c], c)
  <2>1. row[c] \in Row /\ RowPlaced(row[c], c)
    BY DEF IInv, TypeOK, RunsPlaced
  <2>2. CASE \E r \in Queued(res) : r.c = c
    <3>1. W(c) \in Queued(res) /\ W(c).c = c
      BY <2>2
    <3>2. W(c).run \in Call /\ PlacedTo(W(c).run, c)
      <4>1. W(c) \in res /\ W(c).run # None
        BY <3>1 DEF Queued
      <4>2. PlacedTo(W(c).run, W(c).c)
        BY <4>1 DEF IInv, RunsPlaced, ResultsPlaced
      <4> QED
        BY <3>1, <4>2 DEF PlacedTo, IInv, TypeOK
    <3>3. Settled(row, res)[c] = [row[c] EXCEPT !.st = "live", !.run = W(c).run]
      BY <2>2 DEF Settled
    <3> HIDE DEF W
    <3> QED
      BY <2>1, <3>2, <3>3 DEF Row, RowStatus, RowPlaced
  <2>3. CASE (~ \E r \in Queued(res) : r.c = c) /\ \E r \in res : r.c = c
    <3>1. Settled(row, res)[c] = [row[c] EXCEPT !.st = "over"]
      BY <2>3 DEF Settled
    <3> QED
      BY <2>1, <3>1 DEF Row, RowStatus, RowPlaced
  <2>4. CASE (~ \E r \in Queued(res) : r.c = c) /\ ~ \E r \in res : r.c = c
    <3>1. Settled(row, res)[c] = row[c]
      BY <2>4 DEF Settled
    <3> QED
      BY <2>1, <3>1
  <2> QED
    BY <2>2, <2>3, <2>4
<1>3. Settled(row, res) = [c \in Contacts |-> Settled(row, res)[c]]
  BY DEF Settled
<1> QED
  BY <1>2, <1>3

\* A run response is planned again, fails, or settles the rows with placed
\* calls.
LEMMA RecvRunInv ==
  ASSUME IInv, NEW f \in Flows, RecvRun(f)
  PROVE  IInv'
<1>1. rep' = [rep EXCEPT ![f] = NoReply] /\ flow[f].pc = "run"
  BY DEF RecvRun
<1>2. NoReply \in Reply /\ NoReply.res = {}
  BY DEF NoReply, Reply
<1>3. UNCHANGED <<calls, job, runIds, batch>>
  BY DEF RecvRun, serverVars, calleVars
<1>4. (\A g \in Flows : ResultsPlaced(job[g].res) /\ ResultsPlaced(rep[g].res))'
  BY <1>1, <1>2, <1>3 DEF IInv, TypeOK, RunsPlaced, ResultsPlaced, PlacedTo
<1>5. flow[f].b \in Batches /\ batch \in Batches
  BY <1>1 DEF IInv, BatchKnown, Busy
<1>6. CASE /\ flow' = [flow EXCEPT ![f].pc = "plan", ![f].rnd = 2, ![f].handles = {}]
           /\ req' = [req EXCEPT ![f] = "plan"]
           /\ UNCHANGED row
  <2>1. [flow[f] EXCEPT !.pc = "plan", !.rnd = 2, !.handles = {}] \in Flow
    <3>1. flow[f] \in Flow
      BY DEF IInv, TypeOK
    <3> QED
      BY <3>1 DEF Flow
  <2>2. TypeOK'
    BY <1>1, <1>2, <1>6, <2>1 DEF IInv, TypeOK, RecvRun, serverVars, calleVars
  <2>3. BatchKnown'
    BY <1>1, <1>3, <1>5, <1>6 DEF IInv, TypeOK, BatchKnown, Busy, Flow
  <2>4. \A g \in Flows : flow'[g].saved = flow[g].saved
    BY <1>6 DEF IInv, TypeOK, Flow
  <2>5. \A g \in Flows : \A c \in Contacts : RowPlaced(flow'[g].saved[c], c)
    BY <2>4 DEF IInv, RunsPlaced
  <2>6. RunsPlaced'
    BY <1>3, <1>4, <1>6, <2>5 DEF IInv, RunsPlaced, RowPlaced, PlacedTo
  <2> QED
    BY <2>2, <2>3, <2>6 DEF IInv
<1>7. CASE Fail(f) /\ UNCHANGED req
  <2>1. TypeOK'
    BY <1>1, <1>2, <1>7, FailRows DEF IInv, TypeOK, RecvRun, serverVars, calleVars
  <2>2. BatchKnown'
    BY <1>1, <1>3, <1>7, FailRows DEF IInv, BatchKnown, Busy
  <2>3. RunsPlaced'
    BY <1>1, <1>3, <1>4, <1>7, FailRows DEF IInv, RunsPlaced, RowPlaced, PlacedTo
  <2> QED
    BY <2>1, <2>2, <2>3 DEF IInv
<1>8. CASE /\ row' = Settled(row, rep[f].res)
           /\ flow' = [flow EXCEPT ![f].pc = "done"]
           /\ UNCHANGED req
  <2>1. TypeOK'
    BY <1>1, <1>2, <1>8, SettledRows, FlowMove DEF IInv, TypeOK, RecvRun, serverVars, calleVars
  <2>2. BatchKnown'
    BY <1>3, <1>5, <1>8 DEF IInv, TypeOK, BatchKnown, Busy, Flow
  <2>3. \A g \in Flows : flow'[g].saved = flow[g].saved
    BY <1>8 DEF IInv, TypeOK, Flow
  <2>4. \A g \in Flows : \A c \in Contacts : RowPlaced(flow'[g].saved[c], c)
    BY <2>3 DEF IInv, RunsPlaced
  <2>5. \A c \in Contacts : RowPlaced(row'[c], c)
    BY <1>8, SettledRows
  <2>6. RunsPlaced'
    BY <1>3, <1>4, <2>4, <2>5 DEF IInv, RunsPlaced, RowPlaced, PlacedTo
  <2> QED
    BY <2>1, <2>2, <2>6 DEF IInv
<1> QED
  BY <1>6, <1>7, <1>8 DEF RecvRun

\* The call of a live row was placed, so it may end.
LEMMA CallEndsInv ==
  ASSUME IInv, NEW c \in Contacts, CallEnds(c)
  PROVE  IInv'
<1>1. row[c] \in Row /\ PlacedTo(row[c].run, c) /\ row[c].st = "live"
  BY DEF IInv, TypeOK, RunsPlaced, RowPlaced, CallEnds
<1>2. PICK st \in {"unanswered", "over"} : row' = [row EXCEPT ![c].st = st]
  BY DEF CallEnds
<1>3. [row[c] EXCEPT !.st = st] \in Row
  BY <1>1 DEF Row, RowStatus
<1>4. unanswered' \subseteq calls
  BY <1>1 DEF IInv, TypeOK, CallEnds, PlacedTo
<1>5. UNCHANGED <<batch, flow, req, rep, runIds, job, calls>>
  BY DEF CallEnds, wireVars, serverVars
<1>6. TypeOK'
  BY <1>2, <1>3, <1>4 DEF IInv, TypeOK, CallEnds, wireVars, serverVars
<1>7. BatchKnown'
  BY <1>1, <1>2, <1>5 DEF IInv, TypeOK, BatchKnown, Busy, Row
<1>8. \A x \in Contacts : RowPlaced(row'[x], x)
  BY <1>1, <1>2 DEF IInv, TypeOK, RunsPlaced, RowPlaced, Row
<1>9. RunsPlaced'
  BY <1>5, <1>8 DEF IInv, RunsPlaced, RowPlaced, ResultsPlaced, PlacedTo
<1> QED
  BY <1>6, <1>7, <1>9 DEF IInv

(* ------------------------------- server -------------------------------- *)

\* plan-batch only replaces the snapshots of its batch on its replica.
LEMMA ServePlanInv ==
  ASSUME IInv, NEW f \in Flows, NEW i \in Instances, ServePlan(f, i)
  PROVE  IInv'
<1> DEFINE b == flow[f].b
           ready == IF AllowDial(dialEnv[i]) THEN flow[f].want \cap Allowlisted ELSE {}
           tok == <<f, flow[f].rnd>>
           added == [i: {i}, b: {b}, c: ready, tok: {tok}]
           reply == [NoReply EXCEPT !.kind = "planned", !.ready = ready]
<1>1. /\ req[f] = "plan"
      /\ req' = [req EXCEPT ![f] = "none"]
      /\ snaps' = {s \in snaps : ~(s.i = i /\ s.b = b /\ s.c \in flow[f].want)} \cup added
      /\ rep' = [rep EXCEPT ![f] = reply]
      /\ UNCHANGED <<consented, batch, row, flow, dialEnv, runIds, job, posts, calls,
                     unanswered, restarts>>
  BY DEF ServePlan, deviceVars, calleVars
<1>2. b \in Batches
  BY <1>1 DEF IInv, BatchKnown, Busy
<1>3. flow[f].want \in SUBSET Contacts /\ flow[f].rnd \in {1, 2}
  BY DEF IInv, TypeOK, Flow
<1>4. added \subseteq Snap
  BY <1>2, <1>3 DEF Snap, Tokens
<1>5. reply \in Reply /\ reply.res = {}
  BY <1>3 DEF Reply, NoReply
<1> HIDE DEF b, ready, tok, added, reply
<1>6. TypeOK'
  BY <1>1, <1>4, <1>5 DEF IInv, TypeOK
<1>7. BatchKnown'
  BY <1>1 DEF IInv, TypeOK, BatchKnown, Busy
<1>8. RunsPlaced'
  BY <1>1, <1>5 DEF IInv, TypeOK, RunsPlaced, RowPlaced, ResultsPlaced, PlacedTo
<1> QED
  BY <1>6, <1>7, <1>8 DEF IInv

\* run-batch opens a handler that has no result yet, or answers 403.
LEMMA ServeRunInv ==
  ASSUME IInv, NEW f \in Flows, NEW i \in Instances, ServeRun(f, i)
  PROVE  IInv'
<1> DEFINE reply == [NoReply EXCEPT !.kind = "killSwitch"]
           j == [NoJob EXCEPT !.i = i, !.todo = flow[f].handles]
<1>1. /\ req[f] = "run"
      /\ req' = [req EXCEPT ![f] = "none"]
      /\ \/ rep' = [rep EXCEPT ![f] = reply] /\ UNCHANGED job
         \/ job' = [job EXCEPT ![f] = j] /\ UNCHANGED rep
      /\ UNCHANGED <<consented, batch, row, flow, dialEnv, snaps, runIds, posts, calls,
                     unanswered, restarts>>
  BY DEF ServeRun, deviceVars, calleVars
<1>2. flow[f].b \in Batches
  BY <1>1 DEF IInv, BatchKnown, Busy
<1>3. reply \in Reply /\ reply.res = {}
  BY DEF Reply, NoReply
<1>4. j \in Job /\ j.res = {} /\ j.cur = None
  <2>1. flow[f].handles \in SUBSET Contacts
    BY DEF IInv, TypeOK, Flow
  <2> QED
    BY <2>1 DEF Job, NoJob
<1> HIDE DEF reply, j
<1>5. TypeOK'
  BY <1>1, <1>3, <1>4 DEF IInv, TypeOK
<1>6. BatchKnown'
  BY <1>1, <1>2, <1>4 DEF IInv, TypeOK, BatchKnown, Busy
<1>7. RunsPlaced'
  BY <1>1, <1>3, <1>4 DEF IInv, TypeOK, RunsPlaced, RowPlaced, ResultsPlaced, PlacedTo
<1> QED
  BY <1>5, <1>6, <1>7 DEF IInv

\* What _run_row answers without dialling is a result about c.
LEMMA RefusalsTyped ==
  ASSUME IInv, NEW f \in Flows, NEW c \in Contacts, NEW r \in Refusals(f, c)
  PROVE  r \in Result /\ (r.run # None => PlacedTo(r.run, r.c))
<1> DEFINE known == RunIdOf(job[f].i, flow[f].b, c, flow[f].a)
<1>1. CASE \E x \in known : r = [c |-> c, st |-> "skippedDuplicate", run |-> x.run]
  <2>1. PICK x \in known : r = [c |-> c, st |-> "skippedDuplicate", run |-> x.run]
    BY <1>1
  <2>2. x \in runIds /\ x.c = c
    BY DEF RunIdOf
  <2>3. PlacedTo(x.run, c) /\ x.run \in Call
    BY <2>2 DEF IInv, RunsPlaced, TypeOK, PlacedTo
  <2> QED
    BY <2>1, <2>3 DEF Result
<1>2. CASE r = [c |-> c, st |-> "invalidHandle", run |-> None]
  BY <1>2 DEF Result
<1>3. (\E x \in known : r = [c |-> c, st |-> "skippedDuplicate", run |-> x.run])
      \/ r = [c |-> c, st |-> "invalidHandle", run |-> None]
  BY DEF Refusals
<1> QED
  BY <1>1, <1>2, <1>3

\* A handler that goes on with its recipients, one more result at hand.
LEMMA JobStep ==
  ASSUME IInv, NEW f \in Flows, NEW j \in Job,
         job' = [job EXCEPT ![f] = j],
         j.i = job[f].i, Busy(f), j.cur # None => j.i \in Instances,
         \A r \in j.res : r.run # None => PlacedTo(r.run, r.c),
         UNCHANGED <<batch, row, flow, req, rep, calls>>
  PROVE  /\ job' \in [Flows -> Job]
         /\ BatchKnown'
         /\ (\A g \in Flows : ResultsPlaced(job[g].res) /\ ResultsPlaced(rep[g].res))'
<1>1. job' \in [Flows -> Job]
  BY DEF IInv, TypeOK
<1>2. flow[f].b \in Batches
  BY DEF IInv, BatchKnown
<1>3. BatchKnown'
  BY <1>2 DEF IInv, TypeOK, BatchKnown, Busy
<1>4. (\A g \in Flows : ResultsPlaced(job[g].res) /\ ResultsPlaced(rep[g].res))'
  BY DEF IInv, TypeOK, RunsPlaced, ResultsPlaced, PlacedTo
<1> QED
  BY <1>1, <1>3, <1>4

\* _run_row answers from the store, whose runs were placed, or posts a call.
LEMMA RunRowInv ==
  ASSUME IInv, NEW f \in Flows, NEW c \in Contacts, RunRow(f, c)
  PROVE  IInv'
<1>1. job[f] \in Job /\ job[f].i \in Instances /\ Busy(f)
  BY DEF IInv, TypeOK, RunRow, Busy, Job
<1>2. flow[f].b \in Batches
  BY <1>1 DEF IInv, BatchKnown
<1>3. UNCHANGED <<consented, batch, row, flow, req, rep, dialEnv, snaps, runIds, calls,
                  unanswered, restarts>>
  BY DEF RunRow, deviceVars, wireVars
<1>4. CASE \E r \in Refusals(f, c) :
             /\ job' = [job EXCEPT ![f].todo = @ \ {c}, ![f].res = @ \cup {r}]
             /\ UNCHANGED posts
  <2>1. PICK r \in Refusals(f, c) :
          /\ job' = [job EXCEPT ![f].todo = @ \ {c}, ![f].res = @ \cup {r}]
          /\ UNCHANGED posts
    BY <1>4
  <2> DEFINE j == [job[f] EXCEPT !.todo = @ \ {c}, !.res = @ \cup {r}]
  <2>2. r \in Result /\ (r.run # None => PlacedTo(r.run, r.c))
    BY RefusalsTyped
  <2>3. j \in Job /\ j.i = job[f].i
    BY <1>1, <2>2 DEF Job
  <2>4. \A x \in j.res : x.run # None => PlacedTo(x.run, x.c)
    <3>1. j.res = job[f].res \cup {r}
      BY <1>1 DEF Job
    <3> QED
      BY <2>2, <3>1 DEF IInv, RunsPlaced, ResultsPlaced
  <2>5. job' = [job EXCEPT ![f] = j]
    BY <2>1 DEF IInv, TypeOK
  <2> HIDE DEF j
  <2>6. /\ job' \in [Flows -> Job]
        /\ BatchKnown'
        /\ (\A g \in Flows : ResultsPlaced(job[g].res) /\ ResultsPlaced(rep[g].res))'
    BY <1>1, <1>3, <2>3, <2>4, <2>5, JobStep
  <2>7. TypeOK'
    BY <1>3, <2>1, <2>6 DEF IInv, TypeOK
  <2>8. RunsPlaced'
    BY <1>3, <2>6 DEF IInv, RunsPlaced, RowPlaced, PlacedTo
  <2> QED
    BY <2>6, <2>7, <2>8 DEF IInv
<1>5. CASE /\ job' = [job EXCEPT ![f].todo = @ \ {c}, ![f].cur = c]
           /\ posts' = posts \cup {Dial(f, c)}
  <2> DEFINE j == [job[f] EXCEPT !.todo = @ \ {c}, !.cur = c]
  <2>1. j \in Job /\ j.i = job[f].i /\ j.res = job[f].res
    BY <1>1 DEF Job
  <2>2. \A x \in j.res : x.run # None => PlacedTo(x.run, x.c)
    BY <2>1 DEF IInv, RunsPlaced, ResultsPlaced
  <2>3. job' = [job EXCEPT ![f] = j]
    BY <1>5 DEF IInv, TypeOK
  <2> HIDE DEF j
  <2>4. /\ job' \in [Flows -> Job]
        /\ BatchKnown'
        /\ (\A g \in Flows : ResultsPlaced(job[g].res) /\ ResultsPlaced(rep[g].res))'
    BY <1>1, <1>3, <2>1, <2>2, <2>3, JobStep
  <2>5. Dial(f, c) \in Call
    BY <1>2 DEF IInv, TypeOK, Flow, Dial, Call, Tokens
  <2>6. TypeOK'
    BY <1>3, <1>5, <2>4, <2>5 DEF IInv, TypeOK
  <2>7. RunsPlaced'
    BY <1>3, <2>4 DEF IInv, RunsPlaced, RowPlaced, PlacedTo
  <2> QED
    BY <2>4, <2>6, <2>7 DEF IInv
<1> QED
  BY <1>4, <1>5 DEF RunRow

\* The id that create returned is that of a placed call with the same key.
LEMMA CreateOKInv ==
  ASSUME IInv, NEW f \in Flows, CreateOK(f)
  PROVE  IInv'
<1> DEFINE c == job[f].cur
           i == job[f].i
           p == Dial(f, c)
           rid(x) == [i |-> i, b |-> p.b, c |-> c, a |-> p.a, run |-> x]
           q(x) == [c |-> c, st |-> "queued", run |-> x]
           j(x) == [job[f] EXCEPT !.cur = None, !.res = @ \cup {q(x)}]
<1>1. job[f] \in Job /\ c \in Contacts /\ Busy(f)
  BY DEF IInv, TypeOK, CreateOK, Busy, Job
<1>2. flow[f].b \in Batches /\ i \in Instances
  BY <1>1 DEF IInv, BatchKnown, CreateOK
<1>3. p.b \in Batches /\ p.a \in Attempts /\ p.c = c
  BY <1>2 DEF Dial, IInv, TypeOK, Flow
<1>4. PICK x \in CallFor(p) :
        /\ runIds' = (runIds \ RunIdOf(i, p.b, c, p.a)) \cup {rid(x)}
        /\ job' = [job EXCEPT ![f].cur = None, ![f].res = @ \cup {q(x)}]
  BY DEF CreateOK
<1>5. snaps' \subseteq snaps /\ UNCHANGED <<consented, batch, row, flow, req, rep, dialEnv,
                                            posts, calls, unanswered, restarts>>
  BY DEF CreateOK, deviceVars, wireVars, calleVars
<1>6. x \in Call /\ PlacedTo(x, c)
  BY <1>3 DEF CallFor, IdempotencyKey, PlacedTo, IInv, TypeOK
<1>7. rid(x) \in RunId /\ PlacedTo(rid(x).run, rid(x).c)
  BY <1>1, <1>2, <1>3, <1>6 DEF RunId
<1>8. q(x) \in Result /\ PlacedTo(q(x).run, q(x).c)
  BY <1>1, <1>6 DEF Result
<1>9. job' = [job EXCEPT ![f] = j(x)]
  BY <1>4 DEF IInv, TypeOK
<1> HIDE DEF c, i, p, rid, q
<1>10. j(x) \in Job /\ j(x).i = job[f].i /\ j(x).cur = None /\ j(x).res = job[f].res \cup {q(x)}
  BY <1>1, <1>8 DEF Job
<1>11. \A r \in j(x).res : r.run # None => PlacedTo(r.run, r.c)
  BY <1>8, <1>10 DEF IInv, RunsPlaced, ResultsPlaced
<1> HIDE DEF j
<1>12. /\ job' \in [Flows -> Job]
       /\ BatchKnown'
       /\ (\A g \in Flows : ResultsPlaced(job[g].res) /\ ResultsPlaced(rep[g].res))'
  BY <1>1, <1>5, <1>9, <1>10, <1>11, JobStep
<1>13. TypeOK'
  BY <1>4, <1>5, <1>7, <1>12 DEF IInv, TypeOK
<1>14. RunsPlaced'
  BY <1>4, <1>5, <1>7, <1>12 DEF IInv, RunsPlaced, RowPlaced, PlacedTo
<1> QED
  BY <1>12, <1>13, <1>14 DEF IInv

\* A failed create adds a result without a run.
LEMMA CreateFailsInv ==
  ASSUME IInv, NEW f \in Flows, CreateFails(f)
  PROVE  IInv'
<1> DEFINE q == [c |-> job[f].cur, st |-> "failed", run |-> None]
           j == [job[f] EXCEPT !.cur = None, !.res = @ \cup {q}]
<1>1. job[f] \in Job /\ job[f].cur \in Contacts /\ Busy(f)
  BY DEF IInv, TypeOK, CreateFails, Busy, Job
<1>2. job' = [job EXCEPT ![f] = j]
  BY DEF CreateFails, IInv, TypeOK
<1>3. UNCHANGED <<consented, batch, row, flow, req, rep, dialEnv, snaps, runIds, posts, calls,
                  unanswered, restarts>>
  BY DEF CreateFails, deviceVars, wireVars, calleVars
<1>4. q \in Result /\ q.run = None
  BY <1>1 DEF Result
<1> HIDE DEF q
<1>5. j \in Job /\ j.i = job[f].i /\ j.cur = None /\ j.res = job[f].res \cup {q}
  BY <1>1, <1>4 DEF Job
<1>6. \A r \in j.res : r.run # None => PlacedTo(r.run, r.c)
  BY <1>4, <1>5 DEF IInv, RunsPlaced, ResultsPlaced
<1> HIDE DEF j
<1>7. /\ job' \in [Flows -> Job]
      /\ BatchKnown'
      /\ (\A g \in Flows : ResultsPlaced(job[g].res) /\ ResultsPlaced(rep[g].res))'
  BY <1>1, <1>2, <1>3, <1>5, <1>6, JobStep
<1>8. TypeOK'
  BY <1>3, <1>7 DEF IInv, TypeOK
<1>9. RunsPlaced'
  BY <1>3, <1>7 DEF IInv, RunsPlaced, RowPlaced, PlacedTo
<1> QED
  BY <1>7, <1>8, <1>9 DEF IInv

\* run-batch answers with the results of its handler.
LEMMA FinishRunInv ==
  ASSUME IInv, NEW f \in Flows, FinishRun(f)
  PROVE  IInv'
<1> DEFINE reply == [NoReply EXCEPT !.kind = "ran", !.res = job[f].res]
<1>1. /\ rep' = [rep EXCEPT ![f] = reply]
      /\ job' = [job EXCEPT ![f] = NoJob]
      /\ UNCHANGED <<consented, batch, row, flow, req, dialEnv, snaps, runIds, posts, calls,
                     unanswered, restarts>>
  BY DEF FinishRun, deviceVars, calleVars
<1>2. reply \in Reply /\ reply.res = job[f].res
  BY DEF IInv, TypeOK, Reply, NoReply, Job
<1>3. NoJob \in Job /\ NoJob.i = None /\ NoJob.cur = None /\ NoJob.res = {}
  BY DEF NoJob, Job
<1> HIDE DEF reply
<1>4. TypeOK'
  BY <1>1, <1>2, <1>3 DEF IInv, TypeOK
<1>5. BatchKnown'
  BY <1>1, <1>3 DEF IInv, TypeOK, BatchKnown, Busy
<1>6. RunsPlaced'
  BY <1>1, <1>2, <1>3 DEF IInv, TypeOK, RunsPlaced, RowPlaced, ResultsPlaced, PlacedTo
<1> QED
  BY <1>4, <1>5, <1>6 DEF IInv

\* A restart only forgets.
LEMMA RestartInv ==
  ASSUME IInv, NEW i \in Instances, Restart(i)
  PROVE  IInv'
<1>1. /\ restarts' \in 0..MaxRestarts
      /\ dialEnv' \in [Instances -> {"true", "unset"}]
  BY RestartBound DEF Restart, IInv, TypeOK
<1>2. /\ snaps' \subseteq snaps
      /\ runIds' \subseteq runIds
      /\ job' = [f \in Flows |-> IF job[f].i = i THEN NoJob ELSE job[f]]
      /\ UNCHANGED <<consented, batch, row, flow, req, rep, posts, calls, unanswered>>
  BY DEF Restart, deviceVars, wireVars, calleVars
<1>3. NoJob \in Job /\ NoJob.i = None /\ NoJob.cur = None /\ NoJob.res = {}
  BY DEF NoJob, Job
<1>4. TypeOK'
  BY <1>1, <1>2, <1>3 DEF IInv, TypeOK
<1>5. BatchKnown'
  BY <1>2, <1>3 DEF IInv, BatchKnown, Busy
<1>6. RunsPlaced'
  BY <1>2, <1>3 DEF IInv, RunsPlaced, RowPlaced, ResultsPlaced, PlacedTo
<1> QED
  BY <1>4, <1>5, <1>6 DEF IInv

(* ------------------------------- CALL-E -------------------------------- *)

\* CALL-E only adds calls.
LEMMA AcceptInv ==
  ASSUME IInv, NEW p \in posts, Accept(p)
  PROVE  IInv'
<1>1. /\ calls \subseteq calls'
      /\ calls' \subseteq calls \cup {p}
      /\ posts' \subseteq posts
      /\ UNCHANGED <<consented, batch, row, flow, req, rep, dialEnv, snaps, runIds, job,
                     unanswered, restarts>>
  BY DEF Accept, deviceVars, wireVars, serverVars
<1>2. TypeOK'
  BY <1>1 DEF IInv, TypeOK
<1>3. BatchKnown'
  BY <1>1 DEF IInv, BatchKnown, Busy
<1>4. RunsPlaced'
  BY <1>1, RunsPlacedStays DEF IInv
<1> QED
  BY <1>2, <1>3, <1>4 DEF IInv

(* ------------------------------ invariance ----------------------------- *)

\* Every step keeps the inductive invariant.
LEMMA IInvNext == IInv /\ [Next]_vars => IInv'
<1> SUFFICES ASSUME IInv, [Next]_vars PROVE IInv'
  OBVIOUS
<1>1. CASE Device
  <2>1. \A f \in ConfirmFlows : TapConfirm(f) \/ ConfirmHydrated(f) => IInv'
    BY TapConfirmInv, ConfirmHydratedInv
  <2>2. \A f \in RetryFlows : TapRetry(f) \/ RetryHydrated(f) => IInv'
    BY TapRetryInv, RetryHydratedInv
  <2>3. \A f \in Flows : HydrateFails(f) \/ RecvPlan(f) \/ RecvRun(f) \/ GiveUp(f) => IInv'
    BY HydrateFailsInv, RecvPlanInv, RecvRunInv, GiveUpInv
  <2>4. \A c \in Contacts : CallEnds(c) => IInv'
    BY CallEndsInv
  <2> QED
    BY <1>1, <2>1, <2>2, <2>3, <2>4 DEF Device
<1>2. CASE Server
  <2>1. \A f \in Flows, i \in Instances : ServePlan(f, i) \/ ServeRun(f, i) => IInv'
    BY ServePlanInv, ServeRunInv
  <2>2. \A f \in Flows, c \in Contacts : RunRow(f, c) => IInv'
    BY RunRowInv
  <2>3. \A f \in Flows : CreateOK(f) \/ CreateFails(f) \/ FinishRun(f) => IInv'
    BY CreateOKInv, CreateFailsInv, FinishRunInv
  <2>4. \A i \in Instances : Restart(i) => IInv'
    BY RestartInv
  <2> QED
    BY <1>2, <2>1, <2>2, <2>3, <2>4 DEF Server
<1>3. CASE CallE
  BY <1>3, AcceptInv DEF CallE
<1>4. CASE UNCHANGED vars
  <2>1. UNCHANGED <<consented, batch, row, flow, req, rep, dialEnv, snaps, runIds, job, posts,
                    calls, unanswered, restarts>>
    BY <1>4 DEF vars, deviceVars, wireVars, serverVars, calleVars
  <2>2. TypeOK'
    BY <2>1 DEF IInv, TypeOK
  <2>3. BatchKnown'
    BY <2>1 DEF IInv, BatchKnown, Busy
  <2>4. RunsPlaced'
    BY <2>1, RunsPlacedStays DEF IInv
  <2> QED
    BY <2>2, <2>3, <2>4 DEF IInv
<1> QED
  BY <1>1, <1>2, <1>3, <1>4 DEF Next

\* The inductive invariant holds in every reachable state.
THEOREM Invariance == Spec => []IInv
<1> QED
  BY IInvInit, IInvNext, PTL DEF Spec

\* Every variable keeps its type, whatever is lost, late or restarted.
THEOREM TypeCorrect == Spec => []TypeOK
<1>1. IInv => TypeOK
  BY DEF IInv
<1> QED
  BY <1>1, Invariance, PTL

(* --------------------------- one call per attempt ---------------------- *)

\* The device places no call, and only the end of a poll tells it of one
\* that was not answered.
LEMMA DeviceCalls ==
  ASSUME Device
  PROVE  /\ UNCHANGED calls
         /\ (\E c \in Contacts : CallEnds(c)) \/ UNCHANGED unanswered
<1> USE DEF calleVars
<1>1. CASE \E f \in ConfirmFlows : TapConfirm(f) \/ ConfirmHydrated(f)
  BY <1>1 DEF TapConfirm, ConfirmHydrated
<1>2. CASE \E f \in RetryFlows : TapRetry(f) \/ RetryHydrated(f)
  BY <1>2 DEF TapRetry, RetryHydrated
<1>3. CASE \E f \in Flows : HydrateFails(f) \/ RecvPlan(f) \/ RecvRun(f) \/ GiveUp(f)
  BY <1>3 DEF HydrateFails, RecvPlan, RecvRun, GiveUp
<1>4. CASE \E c \in Contacts : CallEnds(c)
  BY <1>4 DEF CallEnds
<1> QED
  BY <1>1, <1>2, <1>3, <1>4 DEF Device

\* No handler of a replica places a call by itself: it posts to CALL-E.
LEMMA ServerCalls ==
  ASSUME Server
  PROVE  UNCHANGED <<calls, unanswered>>
<1> USE DEF calleVars
<1>1. CASE \E f \in Flows, i \in Instances : ServePlan(f, i) \/ ServeRun(f, i)
  BY <1>1 DEF ServePlan, ServeRun
<1>2. CASE \E f \in Flows : CreateOK(f) \/ CreateFails(f) \/ FinishRun(f)
  BY <1>2 DEF CreateOK, CreateFails, FinishRun
<1>3. CASE \E f \in Flows : \E c \in Contacts : RunRow(f, c)
  BY <1>3 DEF RunRow
<1>4. CASE \E i \in Instances : Restart(i)
  BY <1>4 DEF Restart
<1> QED
  BY <1>1, <1>2, <1>3, <1>4 DEF Server

\* Only CALL-E places calls, and it looks the key up first.
LEMMA OneCallNext == OneCallPerAttempt /\ [Next]_vars => OneCallPerAttempt'
<1> SUFFICES ASSUME OneCallPerAttempt, [Next]_vars PROVE OneCallPerAttempt'
  OBVIOUS
<1>1. CASE Device
  <2>1. UNCHANGED calls
    BY <1>1, DeviceCalls
  <2> QED
    BY <2>1 DEF OneCallPerAttempt
<1>2. CASE Server
  <2>1. UNCHANGED calls
    BY <1>2, ServerCalls
  <2> QED
    BY <2>1 DEF OneCallPerAttempt
<1>3. CASE CallE
  <2>1. PICK p \in posts : Accept(p)
    BY <1>3 DEF CallE
  <2>2. CASE CallFor(p) = {}
    <3>1. calls' = calls \cup {p}
      BY <2>1, <2>2 DEF Accept
    <3>2. \A x \in calls : ~(x.b = p.b /\ x.c = p.c /\ x.a = p.a)
      BY <2>2 DEF CallFor, IdempotencyKey
    <3> QED
      BY <3>1, <3>2 DEF OneCallPerAttempt
  <2>3. CASE CallFor(p) # {}
    <3>1. calls' = calls
      BY <2>1, <2>3 DEF Accept
    <3> QED
      BY <3>1 DEF OneCallPerAttempt
  <2> QED
    BY <2>2, <2>3
<1>4. CASE UNCHANGED vars
  BY <1>4 DEF vars, calleVars, OneCallPerAttempt
<1> QED
  BY <1>1, <1>2, <1>3, <1>4 DEF Next

\* A contact's telephone rings at most once per batch and attempt, for any
\* number of replicas, restarts, confirm taps and retries: the idempotency key
\* alone carries it.
THEOREM RingsOncePerAttempt == Spec => []OneCallPerAttempt
<1>1. Init => OneCallPerAttempt
  BY DEF Init, OneCallPerAttempt
<1> QED
  BY <1>1, OneCallNext, PTL DEF Spec

\* A run id shown on a row is that of a call placed to the row's contact, even
\* if several Confirm & Call of one desk overlap.
THEOREM RowsShowPlacedCalls == Spec => [](\A c \in Contacts : RowPlaced(row[c], c))
<1>1. IInv => \A c \in Contacts : RowPlaced(row[c], c)
  BY DEF IInv, RunsPlaced
<1> QED
  BY <1>1, Invariance, PTL
=============================================================================
