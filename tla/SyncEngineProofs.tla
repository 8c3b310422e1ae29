-------------------------- MODULE SyncEngineProofs --------------------------
(***************************************************************************)
(* Theorems about the push and the pull of SyncEngine, for any devices,    *)
(* books, clocks, page size and number of writes and faults.  What a merge *)
(* does to the rows is the matter of SyncMergeProofs; nothing below        *)
(* depends on it.                                                          *)
(***************************************************************************)
EXTENDS SyncEngine, WellFoundedInduction, TLAPS

(* ------------------- sequences and bounded sets ------------------------ *)

\* A sequence of something.
IsSeq(s) == s \in Seq(ToSet(s))

\* What a set of naturals has at its lower end.
LEMMA LeastNatural ==
  ASSUME NEW S, S \subseteq Nat, S # {}
  PROVE  \E x \in S : \A y \in S : x =< y
<1>1. PICK x \in S : \A y \in S : ~ (<<y, x>> \in OpToRel(<, Nat))
  BY NatLessThanWellFounded, WFMin
<1>2. \A y \in S : ~ (y < x)
  BY <1>1 DEF OpToRel
<1> QED
  BY <1>2

\* The minimum of a set of naturals is a member of it.
LEMMA MinOfNaturals ==
  ASSUME NEW S, S \subseteq Nat, S # {}
  PROVE  Min(S) \in S
BY LeastNatural DEF Min

\* A bounded set of naturals has its maximum.
LEMMA MaxOfBounded ==
  ASSUME NEW S, NEW n \in Nat, S \subseteq 0..n, S # {}
  PROVE  Max(S) \in S /\ \A y \in S : y =< Max(S)
<1> DEFINE U == {m \in Nat : \A y \in S : y =< m}
<1>1. n \in U
  OBVIOUS
<1>2. PICK u \in U : \A m \in U : u =< m
  <2>1. U \subseteq Nat /\ U # {}
    BY <1>1
  <2> HIDE DEF U
  <2> QED
    BY <2>1, LeastNatural
<1>3. u \in S
  <2> SUFFICES ASSUME u \notin S PROVE FALSE
    OBVIOUS
  <2>1. \A y \in S : y =< u - 1
    BY <1>2
  <2>2. u - 1 \in Nat
    <3>1. PICK y \in S : y =< u - 1
      BY <2>1
    <3> QED
      BY <1>2, <3>1
  <2>3. u - 1 \in U
    BY <2>1, <2>2
  <2> QED
    BY <1>2, <2>3
<1>4. \E x \in S : \A y \in S : x >= y
  BY <1>2, <1>3
<1> QED
  BY <1>4 DEF Max

\* What a concatenation holds, and where.
LEMMA Concatenation ==
  ASSUME NEW S, NEW c \in Seq(S), NEW b \in Seq(S)
  PROVE  /\ c \o b \in Seq(S) /\ Len(c \o b) = Len(c) + Len(b)
         /\ \A k \in 1..Len(c) : (c \o b)[k] = c[k]
         /\ \A k \in 1..Len(b) : (c \o b)[Len(c) + k] = b[k]
OBVIOUS

\* Appending keeps what was there and adds one element.
LEMMA Appended ==
  ASSUME NEW s, IsSeq(s), NEW e
  PROVE  LET r == Append(s, e) IN
         /\ IsSeq(r) /\ Len(r) = Len(s) + 1 /\ DOMAIN r = 1..Len(s) + 1
         /\ \A k \in 1..Len(s) : r[k] = s[k]
         /\ r[Len(s) + 1] = e
         /\ ToSet(r) = ToSet(s) \cup {e}
<1> DEFINE S == ToSet(s) \cup {e}
           r == Append(s, e)
<1>1. s \in Seq(S)
  BY DEF IsSeq
<1>2. /\ r \in Seq(S) /\ Len(r) = Len(s) + 1
      /\ \A k \in 1..Len(s) : r[k] = s[k]
      /\ r[Len(s) + 1] = e
  BY <1>1
<1>3. DOMAIN r = 1..Len(s) + 1 /\ DOMAIN s = 1..Len(s) /\ Len(s) \in Nat
  BY <1>1, <1>2
<1>4. ToSet(r) = S
  BY <1>2, <1>3 DEF ToSet
<1> QED
  BY <1>2, <1>3, <1>4 DEF IsSeq

\* So does inserting.
LEMMA Inserted ==
  ASSUME NEW s, IsSeq(s), NEW i \in 1..Len(s) + 1, NEW e
  PROVE  IsSeq(InsertAt(s, i, e)) /\ ToSet(InsertAt(s, i, e)) = ToSet(s) \cup {e}
<1> DEFINE S == ToSet(s) \cup {e}
           a == SubSeq(s, 1, i - 1)
           b == SubSeq(s, i, Len(s))
           r == InsertAt(s, i, e)
<1>1. s \in Seq(S) /\ Len(s) \in Nat /\ DOMAIN s = 1..Len(s)
  BY DEF IsSeq
<1>2. /\ a \in Seq(S) /\ Len(a) = i - 1
      /\ \A k \in 1..i - 1 : a[k] = s[k]
  BY <1>1
<1>3. /\ b \in Seq(S) /\ Len(b) = Len(s) - i + 1
      /\ \A k \in 1..Len(s) - i + 1 : b[k] = s[k + i - 1]
  BY <1>1
<1>4. /\ <<e>> \in Seq(S) /\ Len(<<e>>) = 1 /\ <<e>>[1] = e
  OBVIOUS
<1>5. /\ a \o <<e>> \in Seq(S) /\ Len(a \o <<e>>) = i
      /\ \A k \in 1..i - 1 : (a \o <<e>>)[k] = s[k]
      /\ (a \o <<e>>)[i] = e
  BY <1>2, <1>4
<1>6. /\ r \in Seq(S) /\ Len(r) = Len(s) + 1
      /\ \A k \in 1..i - 1 : r[k] = s[k]
      /\ r[i] = e
      /\ \A k \in i..Len(s) : r[k + 1] = s[k]
  <2> DEFINE c == a \o <<e>>
  <2>1. r = c \o b
    BY DEF InsertAt
  <2>2. c \in Seq(S) /\ Len(c) = i /\ c[i] = e /\ \A k \in 1..i - 1 : c[k] = s[k]
    BY <1>5
  <2> HIDE DEF c, a, b, r, S
  <2>3. /\ c \o b \in Seq(S) /\ Len(c \o b) = Len(c) + Len(b)
        /\ \A k \in 1..Len(c) : (c \o b)[k] = c[k]
        /\ \A k \in 1..Len(b) : (c \o b)[Len(c) + k] = b[k]
    <3>1. b \in Seq(S)
      BY <1>3
    <3>2. c \in Seq(S)
      BY <2>2
    <3> QED
      BY <3>1, <3>2, Concatenation
  <2>4. r \in Seq(S) /\ Len(r) = Len(s) + 1
    BY <1>1, <1>3, <2>1, <2>2, <2>3
  <2>5. \A k \in 1..i : r[k] = c[k]
    BY <2>1, <2>2, <2>3
  <2>6. ASSUME NEW k \in i..Len(s) PROVE r[k + 1] = s[k]
    <3>1. k - i + 1 \in 1..Len(b) /\ Len(c) + (k - i + 1) = k + 1
      BY <1>1, <1>3, <2>2
    <3>2. b[k - i + 1] = s[k]
      BY SMTT(20), <1>1, <1>3, <3>1
    <3> QED
      BY <2>1, <2>3, <3>1, <3>2
  <2> QED
    BY <1>1, <2>2, <2>4, <2>5, <2>6
<1>7. ToSet(r) \subseteq S
  BY <1>6 DEF ToSet
<1>8. S \subseteq ToSet(r)
  <2>1. e \in ToSet(r)
    BY <1>6 DEF ToSet
  <2>2. ASSUME NEW k \in 1..Len(s) PROVE s[k] \in ToSet(r)
    <3>1. CASE k < i
      BY <1>6, <3>1 DEF ToSet
    <3>2. CASE k >= i
      BY SMTT(20), <1>6, <3>2 DEF ToSet
    <3> QED
      BY <3>1, <3>2
  <2> QED
    BY <1>1, <2>1, <2>2 DEF ToSet
<1> QED
  BY <1>6, <1>7, <1>8 DEF IsSeq

\* The watermark: the cursor or an applied entry, whichever is further.
LEMMA MarkOf ==
  ASSUME NEW n \in Nat, NEW c \in 0..n, NEW A, \A x \in A : x.seq \in 0..n
  PROVE  LET m == Max({c} \cup {x.seq : x \in A}) IN
         /\ m \in 0..n
         /\ m = c \/ \E x \in A : x.seq = m
         /\ c =< m
         /\ \A x \in A : x.seq =< m
<1> DEFINE S == {c} \cup {x.seq : x \in A}
<1>1. S \subseteq 0..n /\ S # {}
  OBVIOUS
<1>2. Max(S) \in S /\ \A y \in S : y =< Max(S)
  BY <1>1, MaxOfBounded
<1> QED
  BY <1>1, <1>2

(* ------------------------ inductive invariants ------------------------- *)

\* Every operation that was ever made; each is in the queue of its device.
Made == UNION {ToSet(audit[d]) : d \in Devices}

\* Operations have ids of their own, and acknowledgements are of ids.
QueueOK ==
    /\ writes \in Nat
    /\ audit = [d \in Devices |-> audit[d]]
    /\ acked \in [Devices -> SUBSET Nat]
    /\ \A d \in Devices : IsSeq(audit[d])
    /\ \A op \in Made : op.id \in 1..writes /\ op.ent \in Entities
    /\ \A a, b \in Made : a.id = b.id => a = b

\* The log numbers its entries and holds an operation once.
LogOK ==
    /\ IsSeq(log)
    /\ \A k \in 1..Len(log) : log[k].seq = k /\ log[k].op \in Made
    /\ LoggedOnce

\* What a device has merged is in the log.
InboxOK ==
    /\ applied \in [Devices -> SUBSET ToSet(log)]
    /\ cursor \in [Devices -> 0..Len(log)]

Cycles0 ==
    [pc : {"idle", "push", "ack", "quarantine", "pull", "merge", "mark"},
     tries : Nat, batch : SUBSET Made, pulls : BOOLEAN,
     page : SUBSET ToSet(log), next : 0..Len(log), more : BOOLEAN]

Handlers0 ==
    [dev : Devices, left : SUBSET Made, doing : SUBSET Made, failed : BOOLEAN, heard : BOOLEAN,
     lost : 0..MaxFaults]

\* The cycles and the handlers work on operations that were made; what a
\* handler projects is logged.
WorkOK ==
    /\ cycle \in [Devices -> Cycles0]
    /\ handlers \subseteq Handlers0
    /\ \A h \in handlers : \A op \in h.doing : \E k \in 1..Len(log) : log[k].op = op

\* A cycle that pushes hears one handler, which has logged whatever is not
\* left to it; when the answer is there, everything accepted is logged.
PushOK ==
    /\ \A h \in handlers : h.heard =>
           /\ cycle[h.dev].pc = "push"
           /\ \A op \in Accepted(h.dev) : op \in h.left \/ Logged(op.id)
    /\ \A g, h \in handlers : g.heard /\ h.heard /\ g.dev = h.dev => g = h
    /\ \A d \in Devices : cycle[d].pc = "ack" => \A op \in Accepted(d) : Logged(op.id)

\* A ledger the server holds as archived was archived by an operation.
MirrorOK ==
    /\ mirror \in [Entities -> [there : BOOLEAN, arch : BOOLEAN, seq : Nat]]
    /\ \A e \in Entities : mirror[e].arch =>
           \E k \in 1..Len(log) : log[k].op.act = "USER_ARCHIVE" /\ log[k].op.ent = e

\* Up to its end, what a page does not hold is merged or was withheld.
PullOK ==
    \A d \in Devices : cycle[d].pc \in {"merge", "mark"} =>
        /\ \A x \in cycle[d].page : x.seq =< cycle[d].next
        /\ \A k \in 1..cycle[d].next :
               \/ log[k] \in applied[d] \cup cycle[d].page
               \/ EverArchived(log[k].op.ent)
        /\ cycle[d].pc = "mark" => cycle[d].page = {}

SettledOK ==
    /\ conflicts = [d \in Devices |-> conflicts[d]]
    /\ SettledIsKept

\* The faults are counted up to their bound.
FaultsOK == faults \in 0..MaxFaults

IInv ==
    /\ QueueOK /\ LogOK /\ InboxOK /\ WorkOK
    /\ PushOK /\ MirrorOK /\ PullOK /\ SettledOK /\ NothingSkipped

\* The watermark lies within the log.
LEMMA WatermarkBounds ==
  ASSUME LogOK, InboxOK, NEW d \in Devices
  PROVE  /\ Watermark(d) \in 0..Len(log)
         /\ Watermark(d) = cursor[d] \/ \E x \in applied[d] : x.seq = Watermark(d)
         /\ cursor[d] =< Watermark(d)
         /\ \A x \in applied[d] : x.seq =< Watermark(d)
<1>1. Len(log) \in Nat /\ cursor[d] \in 0..Len(log)
  BY DEF LogOK, InboxOK, IsSeq
<1>2. \A x \in applied[d] : x.seq \in 0..Len(log)
  BY DEF LogOK, InboxOK, IsSeq, ToSet
<1> QED
  BY <1>1, <1>2, MarkOf DEF Watermark

\* The invariants hold at the start.
LEMMA InvInit == Init => IInv
<1> SUFFICES ASSUME Init PROVE IInv
  OBVIOUS
<1>1. \A d \in Devices : audit[d] = <<>> /\ ToSet(audit[d]) = {}
  BY DEF Init, ToSet
<1>2. Made = {}
  <2>1. \A x \in Made : \E d \in Devices : x \in ToSet(audit[d])
    BY DEF Made
  <2> QED
    BY <1>1, <2>1
<1>3. log = <<>> /\ Len(log) = 0 /\ DOMAIN log = {} /\ ToSet(log) = {}
  BY DEF Init, ToSet
<1>4. QueueOK
  BY <1>1, <1>2 DEF Init, QueueOK, IsSeq
<1>5. LogOK
  BY <1>3 DEF LogOK, IsSeq, LoggedOnce
<1>6. InboxOK
  BY <1>3 DEF Init, InboxOK
<1>7. WorkOK
  BY <1>2, <1>3 DEF Init, WorkOK, Idle, Cycles0
<1>8. PushOK /\ PullOK
  BY DEF Init, PushOK, PullOK, Idle
<1>9. MirrorOK
  BY DEF Init, MirrorOK
<1>10. SettledOK
  BY DEF Init, SettledOK, SettledIsKept
<1>11. NothingSkipped
  <2>1. \A d \in Devices : Watermark(d) = 0
    BY <1>3, <1>5, <1>6, WatermarkBounds
  <2> QED
    BY <2>1 DEF NothingSkipped
<1> QED
  BY <1>4, <1>5, <1>6, <1>7, <1>8, <1>9, <1>10, <1>11 DEF IInv

(* ------------------------------ the steps ------------------------------ *)

\* While the queues and the log stay as they are, so do the invariants about
\* them alone.
LEMMA QueueUnchanged ==
  ASSUME UNCHANGED <<audit, writes>>
  PROVE  /\ Made' = Made
         /\ QueueOK /\ acked' \in [Devices -> SUBSET Nat] => QueueOK'
BY DEF QueueOK, Made

LEMMA LogUnchanged ==
  ASSUME UNCHANGED <<audit, log>>
  PROVE  /\ LogOK => LogOK'
         /\ \A id : Logged(id)' = Logged(id)
         /\ \A e : EverArchived(e)' = EverArchived(e)
         /\ Made' = Made /\ ToSet(log)' = ToSet(log) /\ Len(log)' = Len(log)
BY DEF LogOK, LoggedOnce, Made, Logged, EverArchived

\* A local write enters the queue under an id of its own.
LEMMA WriteStep ==
  ASSUME IInv, NEW d \in Devices, NEW act, NEW e \in Entities,
         NEW val, NEW newRows, NEW changed, Write(d, act, e, val, newRows, changed)
  PROVE  IInv'
<1>1. PICK bad \in BOOLEAN :
        \E q \in Queued(audit[d], [id |-> writes + 1, dev |-> d, ent |-> e, act |-> act,
                                   val |-> val, t |-> LocalNow(d), bad |-> bad]) :
            audit' = [audit EXCEPT ![d] = q]
  BY DEF Write
<1> DEFINE op == [id |-> writes + 1, dev |-> d, ent |-> e, act |-> act,
                  val |-> val, t |-> LocalNow(d), bad |-> bad]
<1>2. PICK i \in 1..Len(audit[d]) + 1 : audit' = [audit EXCEPT ![d] = InsertAt(audit[d], i, op)]
  BY <1>1 DEF Queued
<1>3. /\ writes' = writes + 1
      /\ UNCHANGED <<acked, applied, cursor, conflicts, cycle, log, mirror, handlers>>
  BY DEF Write, inbox, server
<1>4. op.id = writes + 1 /\ op.ent = e
  OBVIOUS
<1> HIDE DEF op
<1>5. audit = [x \in Devices |-> audit[x]] /\ IsSeq(audit[d])
  BY DEF IInv, QueueOK
<1>6. /\ audit' = [x \in Devices |-> audit'[x]]
      /\ audit'[d] = InsertAt(audit[d], i, op)
      /\ \A x \in Devices \ {d} : audit'[x] = audit[x]
  BY <1>2, <1>5
<1>7. IsSeq(audit'[d]) /\ ToSet(audit'[d]) = ToSet(audit[d]) \cup {op}
  BY <1>5, <1>6, Inserted
<1>8. Made' = Made \cup {op}
  <2>1. \A x \in Made' : x = op \/ x \in Made
    BY <1>6, <1>7 DEF Made
  <2>2. \A x \in Made : x \in Made'
    BY <1>6, <1>7 DEF Made
  <2>3. op \in Made'
    BY <1>7 DEF Made
  <2> QED
    BY <2>1, <2>2, <2>3
<1>9. QueueOK'
  <2>1. \A x \in Devices : IsSeq(audit'[x])
    BY <1>6, <1>7 DEF IInv, QueueOK
  <2>2. writes \in Nat /\ writes' \in Nat
    BY <1>3 DEF IInv, QueueOK
  <2>3. \A x \in Made' : x.id \in 1..writes' /\ x.ent \in Entities
    BY <1>3, <1>4, <1>8, <2>2 DEF IInv, QueueOK
  <2>4. \A a, b \in Made' : a.id = b.id => a = b
    BY <1>4, <1>8, <2>2 DEF IInv, QueueOK
  <2> QED
    BY <1>3, <1>6, <2>1, <2>2, <2>3, <2>4 DEF IInv, QueueOK
<1>10. LogOK'
  BY <1>3, <1>8 DEF IInv, LogOK, LoggedOnce
<1>11. InboxOK' /\ MirrorOK' /\ SettledOK'
  BY <1>3 DEF IInv, InboxOK, MirrorOK, SettledOK, SettledIsKept
<1>12. WorkOK'
  <2>1. Cycles0 \subseteq Cycles0' /\ Handlers0 \subseteq Handlers0'
    BY <1>3, <1>8 DEF Cycles0, Handlers0
  <2> QED
    BY <1>3, <2>1 DEF IInv, WorkOK
<1>13. PushOK'
  BY <1>3 DEF IInv, PushOK, Accepted, Logged
<1>14. PullOK' /\ NothingSkipped'
  BY <1>3 DEF IInv, PullOK, NothingSkipped, EverArchived, Watermark
<1> QED
  BY <1>9, <1>10, <1>11, <1>12, <1>13, <1>14 DEF IInv

\* Every local write is one.
LEMMA LocalStep ==
  ASSUME IInv, NEW d \in Devices, LocalWrite(d)
  PROVE  IInv'
<1>1. PICK e \in Entities :
        \/ CreateRow(d, e)
        \/ \E f \in Fields : UpdateRow(d, e, f)
        \/ DeleteRow(d, e)
        \/ RestoreRow(d, e)
        \/ \E act \in {"USER_ARCHIVE", "USER_UNARCHIVE"} : ArchiveLedger(d, e, act)
  BY DEF LocalWrite
<1>2. \E act, val, newRows, changed : Write(d, act, e, val, newRows, changed)
  BY <1>1 DEF CreateRow, UpdateRow, DeleteRow, RestoreRow, ArchiveLedger
<1> QED
  BY <1>2, WriteStep

\* A handler that listens to d and has the whole batch left is a good one to
\* add, when no other is heard.
LEMMA NewHandler ==
  ASSUME QueueOK, NEW d \in Devices, NEW batch \in SUBSET Made
  PROVE  /\ Handler(d, batch) \in Handlers0
         /\ Handler(d, batch).dev = d /\ Handler(d, batch).heard
         /\ Handler(d, batch).doing = {}
         /\ \A op \in batch : ~op.bad => op \in Handler(d, batch).left
BY SyncAssumption DEF Handler, Handlers0

\* A cycle that is about to pull.
LEMMA IdleCycle ==
  ASSUME LogOK
  PROVE  Idle \in Cycles0 /\ [Idle EXCEPT !.pc = "pull"] \in Cycles0
<1>1. 0 \in 0..Len(log)
  BY DEF LogOK, IsSeq
<1>2. Idle \in Cycles0
  BY <1>1 DEF Idle, Cycles0
<1> QED
  BY <1>2 DEF Cycles0

\* A cycle takes what is pending.
LEMMA StartStep ==
  ASSUME IInv, NEW d \in Devices, NEW kind, StartCycle(d, kind)
  PROVE  IInv'
<1> DEFINE batch == IF kind = "pull" THEN {} ELSE Pending(d)
<1>1. /\ UNCHANGED <<writes, audit, acked, applied, cursor, conflicts, log, mirror>>
      /\ cycle[d].pc = "idle"
  BY DEF StartCycle, books, outbox, inbox
<1>2. /\ QueueOK' /\ LogOK' /\ InboxOK' /\ MirrorOK' /\ SettledOK' /\ Made' = Made
  <2>1. QueueOK' /\ LogOK' /\ Made' = Made
    BY <1>1, QueueUnchanged, LogUnchanged DEF IInv, QueueOK
  <2>2. InboxOK' /\ MirrorOK'
    BY <1>1 DEF IInv, InboxOK, MirrorOK
  <2>3. SettledOK'
    BY <1>1 DEF IInv, SettledOK, SettledIsKept
  <2> QED
    BY <2>1, <2>2, <2>3
<1>3. \A h \in handlers : h.heard => h.dev # d
  BY <1>1 DEF IInv, PushOK
<1>4. batch \in SUBSET Made
  BY DEF Pending, Made
<1>5. cycle \in [Devices -> Cycles0] /\ Cycles0' = Cycles0 /\ Handlers0' = Handlers0
  BY <1>1, <1>2 DEF IInv, WorkOK, Cycles0, Handlers0
<1>6. Len(log) \in Nat
  BY DEF IInv, LogOK, IsSeq
<1>7. CASE batch = {}
  <2>1. cycle' = [cycle EXCEPT ![d] = [Idle EXCEPT !.pc = "pull"]] /\ handlers' = handlers
    BY <1>7 DEF StartCycle
  <2>2. [Idle EXCEPT !.pc = "pull"] \in Cycles0
    BY IdleCycle DEF IInv
  <2>3. cycle'[d].pc = "pull" /\ \A x \in Devices \ {d} : cycle'[x] = cycle[x]
    BY <1>5, <2>1 DEF Idle
  <2>4. WorkOK'
    BY <1>1, <1>5, <2>1, <2>2 DEF IInv, WorkOK
  <2>5. PushOK'
    BY <1>1, <1>3, <1>5, <2>1, <2>3 DEF IInv, PushOK, WorkOK, Handlers0, Accepted, Logged
  <2>6. PullOK' /\ NothingSkipped'
    BY <1>1, <2>3 DEF IInv, PullOK, NothingSkipped, EverArchived, Watermark
  <2> QED
    BY <1>2, <2>4, <2>5, <2>6 DEF IInv
<1>8. CASE batch # {}
  <2> DEFINE c == [Idle EXCEPT !.pc = "push", !.tries = 1, !.batch = batch, !.pulls = (kind # "push")]
             g == Handler(d, batch)
  <2>1. cycle' = [cycle EXCEPT ![d] = c] /\ handlers' = handlers \cup {g}
    BY <1>8 DEF StartCycle
  <2>2. c \in Cycles0 /\ c.pc = "push" /\ c.batch = batch
    <3>1. Idle \in Cycles0
      BY IdleCycle DEF IInv
    <3>2. (kind # "push") \in BOOLEAN
      OBVIOUS
    <3> HIDE DEF batch
    <3> QED
      BY <1>4, <3>1, <3>2 DEF Cycles0
  <2>3. /\ g \in Handlers0 /\ g.dev = d /\ g.heard /\ g.doing = {}
        /\ \A op \in batch : ~op.bad => op \in g.left
    BY <1>4, NewHandler DEF IInv
  <2> HIDE DEF c, g, batch
  <2>4. cycle'[d] = c /\ \A x \in Devices \ {d} : cycle'[x] = cycle[x]
    BY <1>5, <2>1
  <2>5. WorkOK'
    BY <1>1, <1>5, <2>1, <2>2, <2>3 DEF IInv, WorkOK
  <2>6. PushOK'
    <3>1. ASSUME NEW h \in handlers', h.heard
          PROVE  /\ cycle'[h.dev].pc = "push"
                 /\ \A op \in Accepted(h.dev)' : op \in h.left \/ Logged(op.id)'
      <4>1. CASE h = g
        BY <2>2, <2>3, <2>4, <4>1 DEF Accepted
      <4>2. CASE h # g
        <5>1. h \in handlers /\ h.dev \in Devices \ {d}
          BY <1>3, <2>1, <3>1, <4>2 DEF IInv, WorkOK, Handlers0
        <5> QED
          BY <1>1, <2>4, <3>1, <5>1 DEF IInv, PushOK, Accepted, Logged
      <4> QED
        BY <4>1, <4>2
    <3>2. \A x, y \in handlers' : x.heard /\ y.heard /\ x.dev = y.dev => x = y
      BY <1>3, <2>1, <2>3 DEF IInv, PushOK
    <3>3. \A x \in Devices : cycle'[x].pc = "ack" => \A op \in Accepted(x)' : Logged(op.id)'
      BY <1>1, <2>2, <2>4 DEF IInv, PushOK, Accepted, Logged
    <3> QED
      BY <3>1, <3>2, <3>3 DEF PushOK
  <2>7. PullOK' /\ NothingSkipped'
    BY <1>1, <2>2, <2>4 DEF IInv, PullOK, NothingSkipped, EverArchived, Watermark
  <2> QED
    BY <1>2, <2>5, <2>6, <2>7 DEF IInv
<1> QED
  BY <1>7, <1>8

\* The server appends an operation it does not hold.
LEMMA AppendStep ==
  ASSUME IInv, NEW h \in handlers, Append1(h)
  PROVE  IInv'
<1>1. PICK op \in Upcoming(h) :
        /\ IF Logged(op.id)
           THEN UNCHANGED <<log, now>>
           ELSE /\ log' = Append(log, [op |-> op, seq |-> Len(log) + 1, at |-> now + 1])
                /\ now' = now + 1
        /\ handlers' = (handlers \ {h}) \cup {[h EXCEPT !.left = @ \ {op}, !.doing = {op}]}
        /\ UNCHANGED <<writes, faults, books, outbox, inbox, conflicts, cycle, mirror>>
  BY DEF Append1
<1> DEFINE g == [h EXCEPT !.left = @ \ {op}, !.doing = {op}]
           entry == [op |-> op, seq |-> Len(log) + 1, at |-> now + 1]
<1>2. UNCHANGED <<writes, audit, acked, applied, cursor, conflicts, cycle, mirror>>
  BY <1>1 DEF outbox, inbox
<1>3. QueueOK' /\ Made' = Made
  BY <1>2, QueueUnchanged DEF IInv, QueueOK
<1>4. h \in Handlers0 /\ op \in h.left /\ op \in Made
  BY DEF Upcoming, IInv, WorkOK, Handlers0
<1>5. /\ g \in Handlers0 /\ g.dev = h.dev /\ g.heard = h.heard
      /\ g.left = h.left \ {op} /\ g.doing = {op}
  BY <1>4 DEF Handlers0
<1>6. IsSeq(log) /\ Len(log) \in Nat /\ DOMAIN log = 1..Len(log)
  BY DEF IInv, LogOK, IsSeq
<1>7. entry.op = op /\ entry.seq = Len(log) + 1
  OBVIOUS
<1> HIDE DEF g, entry
<1>8. /\ LogOK' /\ Len(log) =< Len(log') /\ Len(log') \in Nat /\ DOMAIN log' = 1..Len(log')
      /\ \A k \in 1..Len(log) : log'[k] = log[k]
      /\ ToSet(log) \subseteq ToSet(log')
      /\ \E k \in 1..Len(log') : log'[k].op = op
  <2>1. CASE Logged(op.id)
    <3>1. log' = log
      BY <1>1, <2>1
    <3>2. PICK k \in 1..Len(log) : log[k].op.id = op.id
      BY <1>6, <2>1 DEF Logged
    <3>3. log[k].op = op
      BY <1>4, <3>2 DEF IInv, QueueOK, LogOK
    <3>4. LogOK'
      BY <1>3, <3>1 DEF IInv, LogOK, LoggedOnce
    <3> QED
      BY <1>6, <3>1, <3>3, <3>4
  <2>2. CASE ~Logged(op.id)
    <3>1. log' = Append(log, entry)
      BY <1>1, <2>2 DEF entry
    <3>2. /\ IsSeq(log') /\ Len(log') = Len(log) + 1 /\ DOMAIN log' = 1..Len(log) + 1
          /\ \A k \in 1..Len(log) : log'[k] = log[k]
          /\ log'[Len(log) + 1] = entry
          /\ ToSet(log') = ToSet(log) \cup {entry}
      BY <1>6, <3>1, Appended
    <3>3. \A k \in 1..Len(log') : log'[k].seq = k /\ log'[k].op \in Made'
      BY <1>3, <1>4, <1>6, <1>7, <3>2 DEF IInv, LogOK
    <3>4. \A k \in 1..Len(log) : log[k].op.id # op.id
      BY <1>6, <2>2 DEF Logged
    <3>5. LoggedOnce'
      BY <1>6, <1>7, <3>2, <3>4 DEF IInv, LogOK, LoggedOnce
    <3> QED
      BY <1>6, <1>7, <3>2, <3>3, <3>5 DEF LogOK
  <2> QED
    BY <2>1, <2>2
<1>9. /\ \A id : Logged(id) => Logged(id)'
      /\ \A e : EverArchived(e) => EverArchived(e)'
      /\ Logged(op.id)'
  BY <1>6, <1>8 DEF Logged, EverArchived
<1>10. InboxOK'
  BY <1>2, <1>6, <1>8 DEF IInv, InboxOK
<1>11. WorkOK'
  <2>1. Cycles0 \subseteq Cycles0' /\ Handlers0' = Handlers0
    BY <1>3, <1>6, <1>8 DEF Cycles0, Handlers0
  <2>2. \A x \in handlers' : \A o \in x.doing : \E k \in 1..Len(log') : log'[k].op = o
    <3>1. ASSUME NEW x \in handlers', NEW o \in x.doing
          PROVE  \E k \in 1..Len(log') : log'[k].op = o
      <4>1. CASE x = g
        BY <1>5, <1>8, <3>1, <4>1
      <4>2. CASE x # g
        <5>1. x \in handlers
          BY <1>1, <4>2 DEF g
        <5>2. PICK k \in 1..Len(log) : log[k].op = o
          BY <3>1, <5>1 DEF IInv, WorkOK
        <5> QED
          BY <1>6, <1>8, <5>2
      <4> QED
        BY <4>1, <4>2
    <3> QED
      BY <3>1
  <2>3. handlers' \subseteq Handlers0'
    BY <1>1, <1>5, <2>1 DEF IInv, WorkOK, g
  <2> QED
    BY <1>2, <2>1, <2>2, <2>3 DEF IInv, WorkOK
<1>12. PushOK'
  <2>1. ASSUME NEW x \in handlers', x.heard
        PROVE  /\ cycle'[x.dev].pc = "push"
               /\ \A o \in Accepted(x.dev)' : o \in x.left \/ Logged(o.id)'
    <3>1. CASE x = g
      BY <1>2, <1>5, <1>9, <2>1, <3>1 DEF IInv, PushOK, Accepted
    <3>2. CASE x # g
      <4>1. x \in handlers
        BY <1>1, <3>2 DEF g
      <4> QED
        BY <1>2, <1>9, <2>1, <4>1 DEF IInv, PushOK, Accepted
    <3> QED
      BY <3>1, <3>2
  <2>2. \A x, y \in handlers' : x.heard /\ y.heard /\ x.dev = y.dev => x = y
    <3>1. \A x \in handlers' : x = g \/ (x \in handlers /\ x # h)
      BY <1>1 DEF g
    <3>2. \A x, y \in handlers : x.heard /\ y.heard /\ x.dev = y.dev => x = y
      BY DEF IInv, PushOK
    <3> QED
      BY <1>5, <3>1, <3>2
  <2>3. \A x \in Devices : cycle'[x].pc = "ack" => \A o \in Accepted(x)' : Logged(o.id)'
    BY <1>2, <1>9 DEF IInv, PushOK, Accepted
  <2> QED
    BY <2>1, <2>2, <2>3 DEF PushOK
<1>13. MirrorOK'
  BY <1>2, <1>6, <1>8 DEF IInv, MirrorOK
<1>14. PullOK'
  <2>1. \A d \in Devices : cycle[d] \in Cycles0
    BY DEF IInv, WorkOK
  <2>2. \A d \in Devices : cycle[d].next \in 0..Len(log)
    BY <2>1 DEF Cycles0
  <2> QED
    BY <1>2, <1>6, <1>8, <1>9, <2>2 DEF IInv, PullOK
<1>15. SettledOK'
  BY <1>2, <1>9 DEF IInv, SettledOK, SettledIsKept, Logged
<1>16. NothingSkipped'
  <2>1. \A d \in Devices : Watermark(d) \in 0..Len(log) /\ Watermark(d)' = Watermark(d)
    BY <1>2, WatermarkBounds DEF IInv, Watermark
  <2> QED
    BY <1>2, <1>6, <1>8, <1>9, <2>1 DEF IInv, NothingSkipped
<1> QED
  BY <1>3, <1>8, <1>10, <1>11, <1>12, <1>13, <1>14, <1>15, <1>16 DEF IInv

\* A step that leaves queues, log and inboxes alone.
LEMMA OnlyWork ==
  ASSUME IInv, UNCHANGED <<writes, audit, acked, applied, cursor, conflicts, log>>,
         WorkOK', PushOK', PullOK', MirrorOK'
  PROVE  IInv'
<1>1. QueueOK' /\ LogOK'
  BY QueueUnchanged, LogUnchanged DEF IInv, QueueOK
<1>2. InboxOK'
  BY DEF IInv, InboxOK
<1>3. SettledOK'
  BY DEF IInv, SettledOK, SettledIsKept
<1>4. NothingSkipped'
  BY DEF IInv, NothingSkipped, EverArchived, Watermark
<1> QED
  BY <1>1, <1>2, <1>3, <1>4 DEF IInv

\* A handler that goes on, fails or ends, and is heard by nobody new.
LEMMA OnlyHandler ==
  ASSUME IInv, UNCHANGED <<audit, cycle, log>>,
         NEW h \in handlers, NEW g \in Handlers0,
         handlers' \subseteq (handlers \ {h}) \cup {g},
         g.dev = h.dev, g.heard => h.heard, g.left = h.left, g.doing \subseteq h.doing
  PROVE  WorkOK' /\ PushOK'
<1>1. Cycles0' = Cycles0 /\ Handlers0' = Handlers0
  BY LogUnchanged DEF Cycles0, Handlers0
<1>2. \A x \in handlers' : x = g \/ (x \in handlers /\ x # h)
  OBVIOUS
<1>3. WorkOK'
  <2>1. handlers' \subseteq Handlers0'
    BY <1>1, <1>2 DEF IInv, WorkOK
  <2>2. \A x \in handlers' : \A o \in x.doing : \E k \in 1..Len(log) : log[k].op = o
    BY <1>2 DEF IInv, WorkOK
  <2> QED
    BY <1>1, <2>1, <2>2 DEF IInv, WorkOK
<1>4. \A x \in handlers' : x.heard =>
          /\ cycle[x.dev].pc = "push"
          /\ \A op \in Accepted(x.dev) : op \in x.left \/ Logged(op.id)
  BY <1>2 DEF IInv, PushOK
<1>5. \A x, y \in handlers' : x.heard /\ y.heard /\ x.dev = y.dev => x = y
  BY <1>2 DEF IInv, PushOK
<1>6. (\A d : Accepted(d)' = Accepted(d)) /\ (\A id : Logged(id)' = Logged(id))
  BY DEF Accepted, Logged
<1>7. PushOK'
  BY <1>4, <1>5, <1>6 DEF IInv, PushOK
<1> QED
  BY <1>3, <1>7

\* The projection of an operation that is logged.
LEMMA ProjectStep ==
  ASSUME IInv, NEW h \in handlers, Project(h)
  PROVE  IInv'
<1>1. PICK op \in h.doing :
        LET seq == CHOOSE k \in DOMAIN log : log[k].op.id = op.id
            orphan == op.act = "CREATE" /\ \E p \in Parent(op.ent) : ~mirror[p].there
        IN
        /\ IF orphan
           THEN /\ handlers' = (handlers \ {h}) \cup {[h EXCEPT !.failed = TRUE]}
                /\ UNCHANGED mirror
           ELSE /\ handlers' = (handlers \ {h}) \cup {[h EXCEPT !.doing = {}]}
                /\ mirror' = [mirror EXCEPT ![op.ent] = Projected(op, seq)]
        /\ UNCHANGED <<now, writes, faults, books, outbox, inbox, conflicts, cycle, log>>
  BY DEF Project
<1> DEFINE seq == CHOOSE k \in DOMAIN log : log[k].op.id = op.id
<1>2. UNCHANGED <<writes, audit, acked, applied, cursor, conflicts, cycle, log>>
  BY <1>1 DEF outbox, inbox
<1>3. h \in Handlers0
  BY DEF IInv, WorkOK
<1>4. PICK g \in Handlers0 :
        /\ handlers' = (handlers \ {h}) \cup {g}
        /\ g.dev = h.dev /\ g.heard = h.heard /\ g.left = h.left /\ g.doing \subseteq h.doing
  <2>1. /\ [h EXCEPT !.failed = TRUE] \in Handlers0
        /\ [h EXCEPT !.failed = TRUE].dev = h.dev
        /\ [h EXCEPT !.failed = TRUE].heard = h.heard
        /\ [h EXCEPT !.failed = TRUE].left = h.left
        /\ [h EXCEPT !.failed = TRUE].doing = h.doing
    BY <1>3 DEF Handlers0
  <2>2. /\ [h EXCEPT !.doing = {}] \in Handlers0
        /\ [h EXCEPT !.doing = {}].dev = h.dev
        /\ [h EXCEPT !.doing = {}].heard = h.heard
        /\ [h EXCEPT !.doing = {}].left = h.left
        /\ [h EXCEPT !.doing = {}].doing = {}
    BY <1>3 DEF Handlers0
  <2>3. \/ handlers' = (handlers \ {h}) \cup {[h EXCEPT !.failed = TRUE]}
        \/ handlers' = (handlers \ {h}) \cup {[h EXCEPT !.doing = {}]}
    BY <1>1
  <2> QED
    BY <2>1, <2>2, <2>3
<1>5. WorkOK' /\ PushOK'
  BY <1>2, <1>4, OnlyHandler
<1>6. PullOK'
  BY <1>2 DEF IInv, PullOK, EverArchived
<1>7. PICK k \in 1..Len(log) : log[k].op = op
  BY DEF IInv, WorkOK
<1>8. seq \in DOMAIN log /\ seq \in Nat /\ op.ent \in Entities
  <2>1. DOMAIN log = 1..Len(log) /\ Len(log) \in Nat
    BY DEF IInv, LogOK, IsSeq
  <2>2. k \in DOMAIN log /\ log[k].op.id = op.id
    BY <1>7, <2>1
  <2>3. op \in Made
    BY <1>3 DEF Handlers0
  <2> QED
    BY <2>1, <2>2, <2>3 DEF IInv, QueueOK
<1>9. MirrorOK'
  <2>1. CASE mirror' = mirror
    BY <1>2, <2>1 DEF IInv, MirrorOK
  <2>2. CASE mirror' = [mirror EXCEPT ![op.ent] = Projected(op, seq)]
    <3> DEFINE m == mirror[op.ent]
    <3>1. m \in [there : BOOLEAN, arch : BOOLEAN, seq : Nat]
      BY <1>8 DEF IInv, MirrorOK
    <3>2. /\ Projected(op, seq) \in [there : BOOLEAN, arch : BOOLEAN, seq : Nat]
          /\ Projected(op, seq).arch => m.arch \/ op.act = "USER_ARCHIVE"
      <4> HIDE DEF seq
      <4>1. CASE op.act = "CREATE"
        BY <1>8, <3>1, <4>1 DEF Projected
      <4>2. CASE op.act # "CREATE" /\ (~m.there \/ m.seq >= seq)
        BY <1>8, <3>1, <4>2 DEF Projected
      <4>3. CASE op.act # "CREATE" /\ m.there /\ m.seq < seq
        BY <1>8, <3>1, <4>3 DEF Projected
      <4> QED
        BY <1>8, <3>1, <4>1, <4>2, <4>3
    <3> HIDE DEF seq
    <3>3. mirror' \in [Entities -> [there : BOOLEAN, arch : BOOLEAN, seq : Nat]]
      BY <1>8, <2>2, <3>2 DEF IInv, MirrorOK
    <3>4. \A e \in Entities : mirror'[e].arch => mirror[e].arch \/ (e = op.ent /\ op.act = "USER_ARCHIVE")
      BY <1>8, <2>2, <3>2 DEF IInv, MirrorOK
    <3> QED
      BY <1>2, <1>7, <3>3, <3>4 DEF IInv, MirrorOK
  <2> QED
    BY <1>1, <2>1, <2>2
<1> QED
  BY <1>2, <1>5, <1>6, <1>9, OnlyWork

\* A handler that ends unheard, or dies.
LEMMA HandlerEndStep ==
  ASSUME IInv, NEW h \in handlers, Unheard(h) \/ HandlerDies(h)
  PROVE  IInv'
<1>1. UNCHANGED <<writes, audit, acked, applied, cursor, conflicts, cycle, log, mirror>>
  BY DEF Unheard, HandlerDies, outbox, inbox
<1>2. h \in Handlers0
  BY DEF IInv, WorkOK
<1>3. PICK g \in Handlers0 :
        /\ handlers' \subseteq (handlers \ {h}) \cup {g}
        /\ g.dev = h.dev /\ g.heard = h.heard /\ g.left = h.left /\ g.doing = h.doing
  <2>1. CASE Unheard(h)
    BY <1>2, <2>1 DEF Unheard
  <2>2. CASE HandlerDies(h)
    <3>1. handlers' = (handlers \ {h}) \cup {[h EXCEPT !.failed = TRUE]}
      BY <2>2 DEF HandlerDies
    <3>2. /\ [h EXCEPT !.failed = TRUE] \in Handlers0
          /\ [h EXCEPT !.failed = TRUE].dev = h.dev
          /\ [h EXCEPT !.failed = TRUE].heard = h.heard
          /\ [h EXCEPT !.failed = TRUE].left = h.left
          /\ [h EXCEPT !.failed = TRUE].doing = h.doing
      BY <1>2 DEF Handlers0
    <3> QED
      BY <3>1, <3>2
  <2> QED
    BY <2>1, <2>2
<1>4. WorkOK' /\ PushOK'
  BY <1>1, <1>3, OnlyHandler
<1>5. PullOK' /\ MirrorOK'
  BY <1>1 DEF IInv, PullOK, EverArchived, MirrorOK
<1> QED
  BY <1>1, <1>4, <1>5, OnlyWork

\* The cycle of d goes on as c.
LEMMA OnlyCycle ==
  ASSUME IInv, UNCHANGED <<audit, log>>, NEW d \in Devices, NEW c \in Cycles0,
         cycle' = [cycle EXCEPT ![d] = c],
         handlers' \subseteq Handlers0,
         \A x \in handlers' : \A o \in x.doing : \E k \in 1..Len(log) : log[k].op = o,
         \A x \in handlers' : x.heard /\ x.dev # d => x \in handlers,
         \A x \in handlers' : x.heard /\ x.dev = d =>
             /\ c.pc = "push"
             /\ \A op \in c.batch : ~op.bad => op \in x.left \/ Logged(op.id),
         \A x, y \in handlers' : x.heard /\ y.heard /\ x.dev = d /\ y.dev = d => x = y,
         c.pc = "ack" => \A op \in c.batch : ~op.bad => Logged(op.id)
  PROVE  /\ WorkOK' /\ PushOK'
         /\ cycle'[d] = c /\ \A x \in Devices \ {d} : cycle'[x] = cycle[x]
<1>1. Cycles0' = Cycles0 /\ Handlers0' = Handlers0
  BY LogUnchanged DEF Cycles0, Handlers0
<1>2. cycle \in [Devices -> Cycles0]
  BY DEF IInv, WorkOK
<1>3. cycle'[d] = c /\ \A x \in Devices \ {d} : cycle'[x] = cycle[x]
  BY <1>2
<1>4. WorkOK'
  BY <1>1, <1>2 DEF WorkOK
<1>5. \A id : Logged(id)' = Logged(id)
  BY DEF Logged
<1>6. \A x \in handlers' : x.heard =>
          /\ cycle'[x.dev].pc = "push"
          /\ \A op \in Accepted(x.dev)' : op \in x.left \/ Logged(op.id)
  <2>1. ASSUME NEW x \in handlers', x.heard, x.dev = d
        PROVE  /\ cycle'[x.dev].pc = "push"
               /\ \A op \in Accepted(x.dev)' : op \in x.left \/ Logged(op.id)
    BY <1>3, <2>1 DEF Accepted
  <2>2. ASSUME NEW x \in handlers', x.heard, x.dev # d
        PROVE  /\ cycle'[x.dev].pc = "push"
               /\ \A op \in Accepted(x.dev)' : op \in x.left \/ Logged(op.id)
    <3>1. x \in handlers /\ x.dev \in Devices \ {d}
      BY <2>2 DEF Handlers0
    <3> QED
      BY <1>3, <2>2, <3>1 DEF IInv, PushOK, Accepted
  <2> QED
    BY <2>1, <2>2
<1>7. \A x, y \in handlers' : x.heard /\ y.heard /\ x.dev = y.dev => x = y
  BY DEF IInv, PushOK
<1>8. \A x \in Devices : cycle'[x].pc = "ack" => \A op \in Accepted(x)' : Logged(op.id)
  BY <1>3 DEF IInv, PushOK, Accepted
<1>9. PushOK'
  BY <1>5, <1>6, <1>7, <1>8 DEF PushOK
<1> QED
  BY <1>3, <1>4, <1>9

\* The handler the cycle of d listened to is gone or unheard, and the push is
\* tried again or given up.
LEMMA RetryStep ==
  ASSUME IInv, UNCHANGED <<writes, audit, acked, applied, cursor, conflicts, log, mirror>>,
         NEW d \in Devices, NEW h \in Heard(d), NEW rest, Retry(d, rest),
         \A x \in rest : \/ x \in handlers \ {h}
                         \/ x \in Handlers0 /\ ~x.heard /\ x.doing = h.doing
  PROVE  IInv'
<1>1. h \in handlers /\ h.heard /\ h.dev = d
  BY DEF Heard
<1>2. /\ cycle[d].pc = "push" /\ cycle[d] \in Cycles0
      /\ \A x \in handlers : x.heard /\ x.dev = d => x = h
  BY <1>1 DEF IInv, PushOK, WorkOK
<1>3. /\ rest \subseteq Handlers0
      /\ \A x \in rest : \A o \in x.doing : \E k \in 1..Len(log) : log[k].op = o
      /\ \A x \in rest : x.heard => x.dev # d /\ x \in handlers
  BY <1>1, <1>2 DEF IInv, WorkOK
<1>4. PICK c \in Cycles0 :
        /\ cycle' = [cycle EXCEPT ![d] = c]
        /\ \/ c.pc = "idle" /\ handlers' = rest
           \/ c.pc = "push" /\ c.batch = cycle[d].batch
              /\ handlers' = rest \cup {Handler(d, cycle[d].batch)}
  <2>1. CASE cycle[d].tries < MaxAttempts
    <3> DEFINE c == [cycle[d] EXCEPT !.tries = @ + 1]
    <3>1. c \in Cycles0 /\ c.pc = "push" /\ c.batch = cycle[d].batch
      BY <1>2 DEF Cycles0
    <3>2. cycle' = [cycle EXCEPT ![d] = c] /\ handlers' = rest \cup {Handler(d, cycle[d].batch)}
      BY <2>1 DEF Retry
    <3> QED
      BY <3>1, <3>2
  <2>2. CASE ~ (cycle[d].tries < MaxAttempts)
    <3>1. cycle' = [cycle EXCEPT ![d] = Idle] /\ handlers' = rest
      BY <2>2 DEF Retry
    <3>2. Idle \in Cycles0 /\ Idle.pc = "idle"
      BY IdleCycle DEF IInv, Idle
    <3> QED
      BY <3>1, <3>2
  <2> QED
    BY <2>1, <2>2
<1> DEFINE g == Handler(d, cycle[d].batch)
<1>5. cycle[d].batch \in SUBSET Made
  BY <1>2 DEF Cycles0
<1>6. /\ g \in Handlers0 /\ g.dev = d /\ g.doing = {}
      /\ \A op \in cycle[d].batch : ~op.bad => op \in g.left
  BY <1>5, NewHandler DEF IInv
<1> HIDE DEF g
<1>7. \A x \in handlers' : x \in rest \/ (x = g /\ c.pc = "push" /\ c.batch = cycle[d].batch)
  BY <1>4 DEF g
<1>8. handlers' \subseteq Handlers0
  BY <1>3, <1>6, <1>7
<1>9. \A x \in handlers' : \A o \in x.doing : \E k \in 1..Len(log) : log[k].op = o
  BY <1>3, <1>6, <1>7
<1>10. \A x \in handlers' : x.heard /\ x.dev # d => x \in handlers
  BY <1>3, <1>6, <1>7
<1>11. \A x \in handlers' : x.heard /\ x.dev = d => x = g
  BY <1>3, <1>7
<1>12. \A x \in handlers' : x.heard /\ x.dev = d =>
             /\ c.pc = "push"
             /\ \A op \in c.batch : ~op.bad => op \in x.left \/ Logged(op.id)
  BY <1>3, <1>6, <1>7
<1>13. c.pc # "ack" /\ c.pc \notin {"merge", "mark"}
  BY <1>4
<1>14. \A x, y \in handlers' : x.heard /\ y.heard /\ x.dev = d /\ y.dev = d => x = y
  BY <1>11
<1>15. c.pc = "ack" => \A op \in c.batch : ~op.bad => Logged(op.id)
  BY <1>13
<1>16. cycle' = [cycle EXCEPT ![d] = c]
  BY <1>4
<1>17. /\ WorkOK' /\ PushOK'
       /\ cycle'[d] = c /\ \A x \in Devices \ {d} : cycle'[x] = cycle[x]
  BY <1>8, <1>9, <1>10, <1>12, <1>14, <1>15, <1>16, OnlyCycle
<1>18. PullOK' /\ MirrorOK'
  BY <1>13, <1>17 DEF IInv, PullOK, EverArchived, MirrorOK
<1> QED
  BY <1>17, <1>18, OnlyWork

\* A handler nobody listens to any more is one still.
LEMMA LostHandler ==
  ASSUME FaultsOK, faults < MaxFaults, NEW h \in Handlers0
  PROVE  Lost(h) \in Handlers0 /\ ~Lost(h).heard /\ Lost(h).doing = h.doing
<1>1. faults + 1 \in 0..MaxFaults
  BY SyncAssumption DEF FaultsOK
<1> QED
  BY <1>1 DEF Lost, Handlers0

\* A push that failed, or whose answer was lost.
LEMMA PushFailedStep ==
  ASSUME IInv, FaultsOK, NEW d \in Devices, PushFailed(d) \/ AnswerLost(d)
  PROVE  IInv'
<1>1. UNCHANGED <<writes, audit, acked, applied, cursor, conflicts, log, mirror>>
  BY DEF PushFailed, AnswerLost, outbox, inbox
<1>2. CASE PushFailed(d)
  <2>1. PICK h \in Heard(d) : Retry(d, handlers \ {h})
    BY <1>2 DEF PushFailed
  <2> QED
    BY <1>1, <2>1, RetryStep
<1>3. CASE AnswerLost(d)
  <2>1. PICK h \in Heard(d) : Retry(d, (handlers \ {h}) \cup {Lost(h)}) /\ faults < MaxFaults
    BY <1>3 DEF AnswerLost
  <2>2. h \in Handlers0
    BY DEF Heard, IInv, WorkOK
  <2> DEFINE g == Lost(h)
             rest == (handlers \ {h}) \cup {g}
  <2>3. g \in Handlers0 /\ ~g.heard /\ g.doing = h.doing
    BY <2>1, <2>2, LostHandler
  <2>4. Retry(d, rest)
    BY <2>1
  <2> HIDE DEF g
  <2>5. \A x \in rest : \/ x \in handlers \ {h}
                        \/ x \in Handlers0 /\ ~x.heard /\ x.doing = h.doing
    BY <2>3
  <2> HIDE DEF rest
  <2> QED
    BY <1>1, <2>4, <2>5, RetryStep
<1> QED
  BY <1>2, <1>3

\* The cycle dies and its handler goes on unheard.
LEMMA CycleDiesStep ==
  ASSUME IInv, FaultsOK, NEW d \in Devices, CycleDies(d)
  PROVE  IInv'
<1>1. /\ UNCHANGED <<writes, audit, acked, applied, cursor, conflicts, log, mirror>>
      /\ cycle' = [cycle EXCEPT ![d] = Idle]
      /\ handlers' = (handlers \ Heard(d)) \cup {Lost(h) : h \in Heard(d)}
      /\ faults < MaxFaults
  BY DEF CycleDies, outbox, inbox
<1>2. ASSUME NEW x \in handlers'
      PROVE  /\ x \in Handlers0
             /\ \A o \in x.doing : \E k \in 1..Len(log) : log[k].op = o
             /\ x.heard => x \in handlers /\ x.dev # d
  <2>1. CASE x \in handlers \ Heard(d)
    BY <2>1 DEF Heard, IInv, WorkOK
  <2>2. CASE x \notin handlers \ Heard(d)
    <3>1. PICK h \in Heard(d) : x = Lost(h)
      BY <1>1, <2>2
    <3>2. h \in handlers /\ h \in Handlers0
      BY DEF Heard, IInv, WorkOK
    <3>3. x \in Handlers0 /\ ~x.heard /\ x.doing = h.doing
      BY <1>1, <3>1, <3>2, LostHandler
    <3> QED
      BY <3>2, <3>3 DEF IInv, WorkOK
  <2> QED
    BY <2>1, <2>2
<1>3. Idle \in Cycles0 /\ Idle.pc = "idle"
  BY IdleCycle DEF IInv, Idle
<1>4. /\ WorkOK' /\ PushOK'
      /\ cycle'[d] = Idle /\ \A x \in Devices \ {d} : cycle'[x] = cycle[x]
  BY <1>1, <1>2, <1>3, OnlyCycle
<1>5. PullOK' /\ MirrorOK'
  BY <1>1, <1>3, <1>4 DEF IInv, PullOK, EverArchived, MirrorOK
<1> QED
  BY <1>1, <1>4, <1>5, OnlyWork

\* The answer arrives: everything accepted is logged.
LEMMA PushAnsweredStep ==
  ASSUME IInv, NEW d \in Devices, PushAnswered(d)
  PROVE  IInv'
<1>1. PICK h \in Heard(d) :
        /\ Finished(h)
        /\ handlers' = handlers \ {h}
        /\ cycle' = [cycle EXCEPT ![d].pc = "ack"]
        /\ UNCHANGED <<writes, audit, acked, applied, cursor, conflicts, log, mirror>>
  BY DEF PushAnswered, outbox, inbox
<1> DEFINE c == [cycle[d] EXCEPT !.pc = "ack"]
<1>2. h \in handlers /\ h.heard /\ h.dev = d
  BY DEF Heard
<1>3. /\ cycle[d] \in Cycles0
      /\ \A op \in Accepted(d) : Logged(op.id)
      /\ \A x \in handlers : x.heard /\ x.dev = d => x = h
  BY <1>1, <1>2 DEF IInv, PushOK, WorkOK, Finished
<1>4. c \in Cycles0 /\ c.pc = "ack" /\ c.batch = cycle[d].batch
  BY <1>3 DEF Cycles0
<1>5. cycle' = [cycle EXCEPT ![d] = c]
  BY <1>1
<1> HIDE DEF c
<1>6. handlers' \subseteq handlers /\ handlers \subseteq Handlers0
  BY <1>1 DEF IInv, WorkOK
<1>7. \A op \in c.batch : ~op.bad => Logged(op.id)
  BY <1>3, <1>4 DEF Accepted
<1>8. \A x \in handlers' : \A o \in x.doing : \E k \in 1..Len(log) : log[k].op = o
  BY <1>6 DEF IInv, WorkOK
<1>9. \A x \in handlers' : x.heard => x.dev # d
  BY <1>1, <1>3
<1>10. /\ WorkOK' /\ PushOK'
       /\ cycle'[d] = c /\ \A x \in Devices \ {d} : cycle'[x] = cycle[x]
  BY ZenonT(40), <1>1, <1>4, <1>5, <1>6, <1>7, <1>8, <1>9, OnlyCycle
<1>11. PullOK' /\ MirrorOK'
  BY <1>1, <1>4, <1>10 DEF IInv, PullOK, EverArchived, MirrorOK
<1> QED
  BY <1>1, <1>10, <1>11, OnlyWork

\* A step of the cycle of d that has no handler, to a cycle that pushes
\* nothing and is past no page.
LEMMA QuietCycle ==
  ASSUME IInv, UNCHANGED <<audit, log, handlers>>, NEW d \in Devices, NEW c \in Cycles0,
         cycle[d].pc # "push", c.pc # "ack", cycle' = [cycle EXCEPT ![d] = c]
  PROVE  /\ WorkOK' /\ PushOK'
         /\ cycle'[d] = c /\ \A x \in Devices \ {d} : cycle'[x] = cycle[x]
<1>1. \A x \in handlers' : x.heard => x.dev # d
  BY DEF IInv, PushOK
<1>2. /\ handlers' \subseteq Handlers0
      /\ \A x \in handlers' : \A o \in x.doing : \E k \in 1..Len(log) : log[k].op = o
      /\ \A x \in handlers' : x.heard /\ x.dev # d => x \in handlers
  BY DEF IInv, WorkOK
<1>3. \A x \in handlers' : x.heard /\ x.dev = d =>
             /\ c.pc = "push"
             /\ \A op \in c.batch : ~op.bad => op \in x.left \/ Logged(op.id)
  BY <1>1
<1>4. \A x, y \in handlers' : x.heard /\ y.heard /\ x.dev = d /\ y.dev = d => x = y
  BY <1>1
<1>5. c.pc = "ack" => \A op \in c.batch : ~op.bad => Logged(op.id)
  OBVIOUS
<1> QED
  BY <1>2, <1>3, <1>4, <1>5, OnlyCycle

\* The cycle after the push.
LEMMA AfterPushCycle ==
  ASSUME LogOK, NEW d \in Devices
  PROVE  AfterPush(d) \in Cycles0 /\ AfterPush(d).pc \in {"idle", "pull"}
<1>1. Idle \in Cycles0 /\ Idle.pc = "idle"
  BY IdleCycle DEF Idle
<1>2. [Idle EXCEPT !.pc = "pull"] \in Cycles0 /\ [Idle EXCEPT !.pc = "pull"].pc = "pull"
  BY <1>1 DEF Cycles0
<1> QED
  BY <1>1, <1>2 DEF AfterPush

\* What the server accepted is acknowledged, and is in its log.
LEMMA AckStep ==
  ASSUME IInv, NEW d \in Devices, RecordAcks(d)
  PROVE  IInv'
<1> DEFINE ids == {op.id : op \in Accepted(d)}
<1>1. /\ cycle[d].pc = "ack"
      /\ acked' = [acked EXCEPT ![d] = @ \cup ids]
      /\ cycle' = [cycle EXCEPT ![d] = IF RefusedOps(d) = {} THEN AfterPush(d)
                                       ELSE [@ EXCEPT !.pc = "quarantine"]]
      /\ UNCHANGED <<writes, audit, applied, cursor, conflicts, log, mirror, handlers>>
  BY DEF RecordAcks, inbox, server
<1>2. cycle \in [Devices -> Cycles0] /\ cycle[d] \in Cycles0
  BY DEF IInv, WorkOK
<1>3. PICK c \in Cycles0 :
        cycle' = [cycle EXCEPT ![d] = c] /\ c.pc \in {"idle", "pull", "quarantine"}
  <2>1. AfterPush(d) \in Cycles0 /\ AfterPush(d).pc \in {"idle", "pull"}
    BY AfterPushCycle DEF IInv
  <2>2. /\ [cycle[d] EXCEPT !.pc = "quarantine"] \in Cycles0
        /\ [cycle[d] EXCEPT !.pc = "quarantine"].pc = "quarantine"
    BY <1>2 DEF Cycles0
  <2>3. CASE RefusedOps(d) = {}
    BY <1>1, <2>1, <2>3
  <2>4. CASE RefusedOps(d) # {}
    <3>1. cycle' = [cycle EXCEPT ![d] = [cycle[d] EXCEPT !.pc = "quarantine"]]
      BY <1>1, <2>4
    <3> QED
      BY <2>2, <3>1
  <2> QED
    BY <2>3, <2>4
<1>4. /\ WorkOK' /\ PushOK'
      /\ cycle'[d] = c /\ \A x \in Devices \ {d} : cycle'[x] = cycle[x]
  BY <1>1, <1>3, QuietCycle
<1>5. Accepted(d) \subseteq Made /\ \A op \in Accepted(d) : op.id \in Nat /\ Logged(op.id)
  <2>1. Accepted(d) \subseteq Made
    BY <1>2 DEF Accepted, Cycles0
  <2>2. \A op \in Made : op.id \in Nat
    BY DEF IInv, QueueOK
  <2>3. \A op \in Accepted(d) : Logged(op.id)
    BY <1>1 DEF IInv, PushOK
  <2> QED
    BY <2>1, <2>2, <2>3
<1>6. ids \subseteq Nat /\ \A id \in ids : Logged(id)
  BY <1>5
<1> HIDE DEF ids
<1>7. /\ acked' \in [Devices -> SUBSET Nat]
      /\ \A x \in Devices : \A id \in acked'[x] : id \in acked[x] \/ Logged(id)
  BY <1>1, <1>6 DEF IInv, QueueOK
<1>8. QueueOK' /\ LogOK'
  BY <1>1, <1>7, QueueUnchanged, LogUnchanged DEF IInv
<1>9. InboxOK' /\ MirrorOK' /\ NothingSkipped'
  BY <1>1 DEF IInv, InboxOK, MirrorOK, NothingSkipped, EverArchived, Watermark
<1>10. PullOK'
  BY <1>1, <1>3, <1>4 DEF IInv, PullOK, EverArchived
<1>11. SettledOK'
  BY <1>1, <1>7 DEF IInv, SettledOK, SettledIsKept, Logged
<1> QED
  BY <1>4, <1>8, <1>9, <1>10, <1>11 DEF IInv

\* What it refused leaves the queue as a conflict the merchant sees.
LEMMA RejectStep ==
  ASSUME IInv, NEW d \in Devices, RecordRejections(d)
  PROVE  IInv'
<1> DEFINE ids == {op.id : op \in RefusedOps(d)}
           shown == {[kind |-> "rejectedByServer", op |-> op.id, dev |-> d, ent |-> op.ent] :
                        op \in RefusedOps(d)}
<1>1. /\ cycle[d].pc = "quarantine"
      /\ acked' = [acked EXCEPT ![d] = @ \cup ids]
      /\ conflicts' = [conflicts EXCEPT ![d] = @ \cup shown]
      /\ cycle' = [cycle EXCEPT ![d] = AfterPush(d)]
      /\ UNCHANGED <<writes, audit, applied, cursor, log, mirror, handlers>>
  BY DEF RecordRejections, inbox, server
<1>2. cycle[d] \in Cycles0
  BY DEF IInv, WorkOK
<1>3. AfterPush(d) \in Cycles0 /\ AfterPush(d).pc \in {"idle", "pull"}
  BY AfterPushCycle DEF IInv
<1>4. /\ WorkOK' /\ PushOK'
      /\ cycle'[d] = AfterPush(d) /\ \A x \in Devices \ {d} : cycle'[x] = cycle[x]
  BY <1>1, <1>3, QuietCycle
<1>5. RefusedOps(d) \subseteq Made
  BY <1>2 DEF RefusedOps, Cycles0
<1>6. /\ ids \subseteq Nat
      /\ \A id \in ids : \E x \in shown : x.kind = "rejectedByServer" /\ x.op = id
  <2>1. \A op \in Made : op.id \in Nat
    BY DEF IInv, QueueOK
  <2>2. ids \subseteq Nat
    BY <1>5, <2>1
  <2>3. ASSUME NEW id \in ids PROVE \E x \in shown : x.kind = "rejectedByServer" /\ x.op = id
    <3>1. PICK op \in RefusedOps(d) : op.id = id
      BY <2>3
    <3> DEFINE x == [kind |-> "rejectedByServer", op |-> op.id, dev |-> d, ent |-> op.ent]
    <3>2. x \in shown /\ x.kind = "rejectedByServer" /\ x.op = id
      BY <3>1
    <3> QED
      BY <3>2
  <2> QED
    BY <2>2, <2>3
<1> HIDE DEF ids, shown
<1>7. /\ acked' \in [Devices -> SUBSET Nat]
      /\ \A x \in Devices \ {d} : acked'[x] = acked[x]
      /\ acked'[d] = acked[d] \cup ids
  BY <1>1, <1>6 DEF IInv, QueueOK
<1>8. /\ conflicts' = [x \in Devices |-> conflicts'[x]]
      /\ \A x \in Devices \ {d} : conflicts'[x] = conflicts[x]
      /\ conflicts'[d] = conflicts[d] \cup shown
  BY <1>1 DEF IInv, SettledOK
<1>9. QueueOK' /\ LogOK'
  BY <1>1, <1>7, QueueUnchanged, LogUnchanged DEF IInv
<1>10. InboxOK' /\ MirrorOK' /\ NothingSkipped'
  BY <1>1 DEF IInv, InboxOK, MirrorOK, NothingSkipped, EverArchived, Watermark
<1>11. PullOK'
  BY <1>1, <1>3, <1>4 DEF IInv, PullOK, EverArchived
<1>12. SettledOK'
  <2>1. ASSUME NEW x \in Devices, NEW id \in acked'[x]
        PROVE  \/ \E k \in DOMAIN log : log[k].op.id = id
               \/ \E y \in conflicts'[x] : y.kind = "rejectedByServer" /\ y.op = id
    <3>1. CASE id \in acked[x]
      BY <1>8, <3>1 DEF IInv, SettledOK, SettledIsKept
    <3>2. CASE id \notin acked[x]
      <4>1. x = d /\ id \in ids
        BY <1>7, <2>1, <3>2
      <4> QED
        BY <1>6, <1>8, <4>1
    <3> QED
      BY <3>1, <3>2
  <2> QED
    BY <1>1, <1>8, <2>1 DEF SettledOK, SettledIsKept
<1> QED
  BY <1>4, <1>9, <1>10, <1>11, <1>12 DEF IInv

\* What is withheld lies in a ledger that was archived.
LEMMA WithheldArchived ==
  ASSUME IInv, NEW e \in Entities, Withheld(e)
  PROVE  EverArchived(e)
<1> DEFINE up == Parent(e) \cup UNION {Parent(p) : p \in Parent(e)}
<1>1. PICK l \in up \cap Ledgers : mirror[l].arch
  BY DEF Withheld
<1>2. l \in Entities /\ \E k \in 1..Len(log) : log[k].op.act = "USER_ARCHIVE" /\ log[k].op.ent = l
  BY <1>1 DEF IInv, MirrorOK, Entities
<1>3. e \in Beneath(l, Entities)
  <2>1. CASE e \in Contacts
    <3>1. Parent(e) = {LedgerOf[e]} /\ LedgerOf[e] \in Ledgers
      BY <2>1, MergeAssumption DEF Parent
    <3>2. LedgerOf[e] \notin Contacts \cup Transactions
      BY <3>1, MergeAssumption
    <3>3. Parent(LedgerOf[e]) = {}
      BY <3>2 DEF Parent
    <3>4. up = {LedgerOf[e]}
      BY <3>1, <3>3
    <3> QED
      BY <1>1, <2>1, <3>4 DEF Beneath, Entities
  <2>2. CASE e \in Transactions
    <3> DEFINE c == ContactOf[e]
    <3>1. c \in Contacts /\ c \notin Ledgers /\ e \notin Contacts
      BY <2>2, MergeAssumption
    <3>2. Parent(e) = {c} /\ Parent(c) = {LedgerOf[c]}
      BY <2>2, <3>1 DEF Parent
    <3>3. up = {c, LedgerOf[c]}
      BY <3>2
    <3>4. l = LedgerOf[c]
      BY <1>1, <3>1, <3>3
    <3> QED
      BY <2>2, <3>1, <3>4 DEF Beneath, Entities
  <2>3. CASE e \notin Contacts \cup Transactions
    BY <1>1, <2>3 DEF Parent
  <2> QED
    BY <2>1, <2>2, <2>3
<1> QED
  BY <1>2, <1>3 DEF IInv, LogOK, IsSeq, EverArchived

\* A page takes what lies behind the watermark, up to its end, that is not
\* withheld.
LEMMA PullStep ==
  ASSUME IInv, NEW d \in Devices, PullPage(d)
  PROVE  IInv'
<1> DEFINE page == {x \in Replayed(d) : x.seq =< PageEnd(d)}
           more == PageEnd(d) < Len(log)
           c == [Idle EXCEPT !.pc = "merge", !.next = PageEnd(d), !.more = more, !.page = page]
<1>1. /\ cycle[d].pc = "pull"
      /\ cycle' = [cycle EXCEPT ![d] = c]
      /\ UNCHANGED <<writes, audit, acked, applied, cursor, conflicts, log, mirror, handlers>>
  BY DEF PullPage, TakePage, outbox, inbox, server
<1>2. IsSeq(log) /\ Len(log) \in Nat /\ DOMAIN log = 1..Len(log) /\ Watermark(d) \in 0..Len(log)
  BY WatermarkBounds DEF IInv, LogOK, IsSeq
<1>3. PageEnd(d) \in 0..Len(log)
  <2>1. CASE FullAt(d) = {}
    BY <1>2, <2>1 DEF PageEnd
  <2>2. CASE FullAt(d) # {}
    <3>1. FullAt(d) \subseteq Watermark(d)..Len(log)
      BY DEF FullAt
    <3>2. Min(FullAt(d)) \in FullAt(d)
      BY <1>2, <2>2, <3>1, MinOfNaturals
    <3> QED
      BY <1>2, <2>2, <3>1, <3>2 DEF PageEnd
  <2> QED
    BY <2>1, <2>2
<1>4. page \subseteq ToSet(log)
  <2>1. \A x \in Replayed(d) : \E k \in Watermark(d) + 1..Len(log) : x = log[k]
    BY DEF Replayed
  <2> QED
    BY <1>2, <2>1 DEF ToSet
<1>5. \A k \in Watermark(d) + 1..PageEnd(d) : log[k] \in page \/ Withheld(log[k].op.ent)
  BY <1>2, <1>3 DEF Replayed, IInv, LogOK
<1> HIDE DEF page
<1>6. c \in Cycles0 /\ c.pc = "merge" /\ c.next = PageEnd(d) /\ c.page = page
  <2>1. Idle \in Cycles0 /\ more \in BOOLEAN
    BY IdleCycle DEF IInv
  <2> HIDE DEF more
  <2> QED
    BY <1>3, <1>4, <2>1 DEF Cycles0
<1> HIDE DEF c
<1>7. /\ WorkOK' /\ PushOK'
      /\ cycle'[d] = c /\ \A x \in Devices \ {d} : cycle'[x] = cycle[x]
  BY <1>1, <1>6, QuietCycle
<1>8. \A x \in page : x.seq =< PageEnd(d)
  BY DEF page
<1>9. \A k \in 1..PageEnd(d) : log[k] \in applied[d] \cup page \/ EverArchived(log[k].op.ent)
  <2> SUFFICES ASSUME NEW k \in 1..PageEnd(d)
               PROVE  log[k] \in applied[d] \cup page \/ EverArchived(log[k].op.ent)
    OBVIOUS
  <2>1. CASE k =< Watermark(d)
    BY <1>2, <1>3, <2>1 DEF IInv, NothingSkipped
  <2>2. CASE k > Watermark(d)
    <3>1. log[k] \in page \/ Withheld(log[k].op.ent)
      BY <1>2, <1>3, <1>5, <2>2
    <3>2. log[k].op.ent \in Entities
      BY <1>2, <1>3 DEF IInv, LogOK, QueueOK
    <3> QED
      BY <3>1, <3>2, WithheldArchived
  <2> QED
    BY <1>2, <1>3, <2>1, <2>2
<1>10. PullOK'
  BY <1>1, <1>6, <1>7, <1>8, <1>9 DEF IInv, PullOK, EverArchived
<1>11. MirrorOK'
  BY <1>1 DEF IInv, MirrorOK
<1> QED
  BY <1>1, <1>7, <1>10, <1>11, OnlyWork

\* A merge applies the page; what it decides about rows and conflicts is
\* of no concern here.
LEMMA MergeStep ==
  ASSUME IInv, NEW d \in Devices, Merge(d)
  PROVE  IInv'
<1> DEFINE page == cycle[d].page
           c == [cycle[d] EXCEPT !.pc = "mark", !.page = {}]
<1>1. PICK found :
        /\ cycle[d].pc = "merge"
        /\ applied' = [applied EXCEPT ![d] = @ \cup page]
        /\ conflicts' = [conflicts EXCEPT ![d] = @ \cup found]
        /\ cycle' = [cycle EXCEPT ![d].pc = "mark", ![d].page = {}]
        /\ UNCHANGED <<writes, audit, acked, cursor, log, mirror, handlers>>
  BY DEF Merge, outbox, server
<1>2. cycle \in [Devices -> Cycles0] /\ cycle[d] \in Cycles0
  BY DEF IInv, WorkOK
<1>3. cycle' = [cycle EXCEPT ![d] = c]
  BY <1>1, <1>2
<1>4. c \in Cycles0 /\ c.pc = "mark" /\ c.page = {} /\ c.next = cycle[d].next
  BY <1>2 DEF Cycles0
<1> HIDE DEF c
<1>5. /\ WorkOK' /\ PushOK'
      /\ cycle'[d] = c /\ \A x \in Devices \ {d} : cycle'[x] = cycle[x]
  BY <1>1, <1>3, <1>4, QuietCycle
<1>6. page \subseteq ToSet(log) /\ cycle[d].next \in 0..Len(log)
  BY <1>2 DEF Cycles0
<1>7. /\ applied'[d] = applied[d] \cup page
      /\ \A x \in Devices \ {d} : applied'[x] = applied[x]
      /\ applied' \in [Devices -> SUBSET ToSet(log)]
  BY <1>1, <1>6 DEF IInv, InboxOK
<1>8. QueueOK' /\ LogOK'
  BY <1>1, QueueUnchanged, LogUnchanged DEF IInv, QueueOK
<1>9. InboxOK' /\ MirrorOK'
  BY <1>1, <1>7 DEF IInv, InboxOK, MirrorOK
<1>10. PullOK'
  <2>1. \A k \in 1..cycle[d].next : log[k] \in applied'[d] \/ EverArchived(log[k].op.ent)
    BY <1>1, <1>7 DEF IInv, PullOK
  <2>2. /\ \A x \in cycle'[d].page : x.seq =< cycle'[d].next
        /\ \A k \in 1..cycle'[d].next :
               log[k] \in applied'[d] \cup cycle'[d].page \/ EverArchived(log[k].op.ent)
        /\ cycle'[d].page = {}
    BY <1>4, <1>5, <2>1
  <2>3. ASSUME NEW x \in Devices \ {d}, cycle'[x].pc \in {"merge", "mark"}
        PROVE  /\ \A y \in cycle'[x].page : y.seq =< cycle'[x].next
               /\ \A k \in 1..cycle'[x].next :
                      log[k] \in applied'[x] \cup cycle'[x].page \/ EverArchived(log[k].op.ent)
               /\ cycle'[x].pc = "mark" => cycle'[x].page = {}
    BY <1>5, <1>7, <2>3 DEF IInv, PullOK
  <2> QED
    BY <1>1, <2>2, <2>3 DEF PullOK, EverArchived
<1>11. SettledOK'
  <2>1. /\ conflicts' = [x \in Devices |-> conflicts'[x]]
        /\ \A x \in Devices : conflicts[x] \subseteq conflicts'[x]
    BY <1>1 DEF IInv, SettledOK
  <2> QED
    BY SMTT(20), <1>1, <2>1 DEF IInv, SettledOK, SettledIsKept
<1>12. NothingSkipped'
  <2>1. Len(log) \in Nat /\ IsSeq(log)
    BY DEF IInv, LogOK, IsSeq
  <2>2. ASSUME NEW k \in 1..Watermark(d)'
        PROVE  log[k] \in applied'[d] \/ EverArchived(log[k].op.ent)
    <3>1. /\ Watermark(d)' \in 0..Len(log)
          /\ Watermark(d)' = cursor[d] \/ \E x \in applied'[d] : x.seq = Watermark(d)'
      <4>1. cursor[d] \in 0..Len(log) /\ Len(log) \in Nat
        BY <1>1 DEF IInv, InboxOK, LogOK, IsSeq
      <4>2. \A x \in applied'[d] : x.seq \in 0..Len(log)
        BY SMTT(20), <1>7 DEF IInv, InboxOK, LogOK, IsSeq, ToSet
      <4>3. Watermark(d)' = Max({cursor[d]} \cup {x.seq : x \in applied'[d]})
        BY <1>1, <1>7 DEF Watermark
      <4> QED
        BY ZenonT(40), <4>1, <4>2, <4>3, MarkOf
    <3>2. /\ Watermark(d) \in 0..Len(log) /\ cursor[d] =< Watermark(d)
          /\ \A x \in applied[d] : x.seq =< Watermark(d)
      BY WatermarkBounds DEF IInv
    <3>3. CASE k =< Watermark(d)
      BY <1>7, <3>1, <3>2, <3>3 DEF IInv, NothingSkipped
    <3>4. CASE k > Watermark(d)
      <4>1. PICK x \in page : x.seq = Watermark(d)'
        BY <1>7, <3>1, <3>2, <3>4
      <4>2. Watermark(d)' =< cycle[d].next
        BY <1>1, <4>1 DEF IInv, PullOK
      <4>3. k \in 1..cycle[d].next
        BY <1>6, <2>1, <3>1, <4>2
      <4> QED
        BY <1>1, <1>7, <4>3 DEF IInv, PullOK
    <3> QED
      BY <3>1, <3>2, <3>3, <3>4
  <2>3. \A x \in Devices \ {d} : Watermark(x)' = Watermark(x)
    BY <1>1, <1>7 DEF Watermark
  <2> QED
    BY <1>1, <1>7, <2>2, <2>3 DEF IInv, NothingSkipped, EverArchived
<1> QED
  BY <1>5, <1>8, <1>9, <1>10, <1>11, <1>12 DEF IInv

\* The cursor moves to the end of a page that is merged.
LEMMA MarkStep ==
  ASSUME IInv, NEW d \in Devices, RecordPullWatermark(d)
  PROVE  IInv'
<1> DEFINE next == cycle[d].next
           far == IF next > Watermark(d) THEN next ELSE cursor[d]
<1>1. /\ cycle[d].pc = "mark"
      /\ cursor' = [cursor EXCEPT ![d] = far]
      /\ cycle' = [cycle EXCEPT ![d] = IF cycle[d].more THEN [Idle EXCEPT !.pc = "pull"] ELSE Idle]
      /\ UNCHANGED <<writes, audit, acked, applied, conflicts, log, mirror, handlers>>
  BY DEF RecordPullWatermark, outbox, server
<1>2. Len(log) \in Nat /\ next \in 0..Len(log) /\ cursor \in [Devices -> 0..Len(log)]
  BY DEF IInv, WorkOK, Cycles0, LogOK, IsSeq, InboxOK
<1>3. PICK c \in Cycles0 : cycle' = [cycle EXCEPT ![d] = c] /\ c.pc \in {"idle", "pull"}
  <2>1. Idle \in Cycles0 /\ Idle.pc = "idle"
    BY IdleCycle DEF IInv, Idle
  <2>2. [Idle EXCEPT !.pc = "pull"] \in Cycles0 /\ [Idle EXCEPT !.pc = "pull"].pc = "pull"
    BY <2>1 DEF Cycles0
  <2> QED
    BY <1>1, <2>1, <2>2
<1>4. /\ WorkOK' /\ PushOK'
      /\ cycle'[d] = c /\ \A x \in Devices \ {d} : cycle'[x] = cycle[x]
  BY <1>1, <1>3, QuietCycle
<1>5. /\ Watermark(d) \in 0..Len(log) /\ cursor[d] =< Watermark(d)
      /\ \A x \in applied[d] : x.seq =< Watermark(d)
  BY WatermarkBounds DEF IInv
<1>6. far \in 0..Len(log) /\ (far = next \/ far = cursor[d])
  BY <1>2
<1> HIDE DEF far
<1>7. /\ cursor' \in [Devices -> 0..Len(log)] /\ cursor'[d] = far
      /\ \A x \in Devices \ {d} : cursor'[x] = cursor[x]
  BY <1>1, <1>2, <1>6
<1>8. QueueOK' /\ LogOK'
  BY <1>1, QueueUnchanged, LogUnchanged DEF IInv, QueueOK
<1>9. InboxOK' /\ MirrorOK' /\ SettledOK'
  <2>1. InboxOK'
    BY <1>1, <1>7 DEF IInv, InboxOK
  <2>2. MirrorOK'
    BY <1>1 DEF IInv, MirrorOK
  <2>3. SettledOK'
    BY <1>1 DEF IInv, SettledOK, SettledIsKept
  <2> QED
    BY <2>1, <2>2, <2>3
<1>10. PullOK'
  BY <1>1, <1>3, <1>4 DEF IInv, PullOK, EverArchived
<1>11. NothingSkipped'
  <2>1. ASSUME NEW k \in 1..Watermark(d)'
        PROVE  log[k] \in applied[d] \/ EverArchived(log[k].op.ent)
    <3>1. /\ Watermark(d)' \in 0..Len(log)
          /\ Watermark(d)' = far \/ \E x \in applied[d] : x.seq = Watermark(d)'
      <4>1. Watermark(d)' = Max({far} \cup {x.seq : x \in applied[d]})
        BY <1>1, <1>7 DEF Watermark
      <4>2. \A x \in applied[d] : x.seq \in 0..Len(log)
        BY <1>2 DEF IInv, InboxOK, LogOK, IsSeq, ToSet
      <4>3. far \in 0..Len(log) /\ Len(log) \in Nat
        BY <1>2, <1>6
      <4> QED
        BY ZenonT(40), <4>1, <4>2, <4>3, MarkOf
    <3>2. CASE k =< Watermark(d)
      BY <1>5, <3>1, <3>2 DEF IInv, NothingSkipped
    <3>3. CASE k > Watermark(d)
      <4>1. Watermark(d)' = next
        BY <1>2, <1>5, <1>6, <3>1, <3>3
      <4>2. /\ \A j \in 1..next : log[j] \in applied[d] \cup cycle[d].page \/ EverArchived(log[j].op.ent)
            /\ cycle[d].page = {}
        BY <1>1 DEF IInv, PullOK
      <4> QED
        BY <4>1, <4>2
    <3> QED
      BY <1>5, <3>1, <3>2, <3>3
  <2>2. \A x \in Devices \ {d} : Watermark(x)' = Watermark(x)
    BY <1>1, <1>7 DEF Watermark
  <2> QED
    BY <1>1, <2>1, <2>2 DEF IInv, NothingSkipped, EverArchived
<1> QED
  BY <1>4, <1>8, <1>9, <1>10, <1>11 DEF IInv

(* ----------------------------- the theorems ---------------------------- *)

\* The invariants hold after every step.
LEMMA InvNext == IInv /\ FaultsOK /\ [Next]_vars => IInv'
<1> SUFFICES ASSUME IInv, FaultsOK, [Next]_vars PROVE IInv'
  OBVIOUS
<1>1. ASSUME NEW d \in Devices, LocalWrite(d) PROVE IInv'
  BY <1>1, LocalStep
<1>2. ASSUME NEW d \in Devices, NEW kind \in Cycles, StartCycle(d, kind) PROVE IInv'
  BY <1>2, StartStep
<1>3. ASSUME NEW d \in Devices, CycleStep(d) PROVE IInv'
  BY <1>3, PushFailedStep, PushAnsweredStep, AckStep, RejectStep, PullStep, MergeStep, MarkStep
     DEF CycleStep
<1>4. ASSUME NEW h \in handlers, ServerStep(h) PROVE IInv'
  BY <1>4, AppendStep, ProjectStep, HandlerEndStep DEF ServerStep
<1>5. ASSUME Fault PROVE IInv'
  BY <1>5, PushFailedStep, CycleDiesStep, HandlerEndStep DEF Fault
<1>6. CASE UNCHANGED vars
  <2>1. UNCHANGED <<writes, audit, acked, applied, cursor, conflicts, cycle, log, mirror, handlers>>
    BY <1>6 DEF vars, outbox, inbox, server
  <2>2. WorkOK' /\ PushOK'
    BY <2>1 DEF IInv, WorkOK, PushOK, Cycles0, Handlers0, Made, Accepted, Logged
  <2>3. PullOK' /\ MirrorOK'
    BY <2>1 DEF IInv, PullOK, MirrorOK, EverArchived
  <2> QED
    BY <2>1, <2>2, <2>3, OnlyWork
<1> QED
  BY <1>1, <1>2, <1>3, <1>4, <1>5, <1>6 DEF Next

\* The bound on the faults is kept.
LEMMA FaultsNext == FaultsOK /\ [Next]_vars => FaultsOK'
<1> SUFFICES ASSUME FaultsOK, [Next]_vars PROVE FaultsOK'
  OBVIOUS
<1>1. faults' = faults \/ (faults < MaxFaults /\ faults' = faults + 1)
  <2>1. ASSUME NEW d \in Devices, LocalWrite(d) PROVE faults' = faults
    BY <2>1 DEF LocalWrite, CreateRow, UpdateRow, DeleteRow, RestoreRow, ArchiveLedger, Write
  <2>2. ASSUME NEW d \in Devices, NEW kind \in Cycles, StartCycle(d, kind) PROVE faults' = faults
    BY <2>2 DEF StartCycle
  <2>3. ASSUME NEW d \in Devices, CycleStep(d) PROVE faults' = faults
    BY <2>3 DEF CycleStep, PushFailed, PushAnswered, RecordAcks, RecordRejections, PullPage,
                TakePage, Merge, RecordPullWatermark
  <2>4. ASSUME NEW h \in handlers, ServerStep(h) PROVE faults' = faults
    BY <2>4 DEF ServerStep, Append1, Project, Unheard
  <2>5. ASSUME Fault PROVE faults < MaxFaults /\ faults' = faults + 1
    BY <2>5 DEF Fault, AnswerLost, CycleDies, HandlerDies
  <2> QED
    BY <2>1, <2>2, <2>3, <2>4, <2>5 DEF Next, vars
<1> QED
  BY <1>1, SyncAssumption DEF FaultsOK

\* The strengthened invariant holds of every state of every behaviour.
THEOREM InvCorrect == Spec => []IInv
<1>1. Init => IInv /\ FaultsOK
  BY InvInit, SyncAssumption DEF Init, FaultsOK
<1>2. IInv /\ FaultsOK /\ [Next]_vars => (IInv /\ FaultsOK)'
  BY InvNext, FaultsNext
<1> QED
  BY <1>1, <1>2, PTL DEF Spec

\* An operation enters the server's log once, however often its push is
\* repeated and whichever handlers run: append_sync_audit_op.
THEOREM LoggedOnceCorrect == Spec => []LoggedOnce
<1>1. IInv => LoggedOnce
  BY DEF IInv, LogOK
<1> QED
  BY <1>1, InvCorrect, PTL

\* An operation leaves the queue only if the server has it or the merchant
\* sees that it was refused: pushPending.
THEOREM SettledIsKeptCorrect == Spec => []SettledIsKept
<1>1. IInv => SettledIsKept
  BY DEF IInv, SettledOK
<1> QED
  BY <1>1, InvCorrect, PTL

\* The pull watermark passes nothing that is not merged, but for what was
\* withheld in an archived ledger: pullAndMerge.
THEOREM NothingSkippedCorrect == Spec => []NothingSkipped
<1>1. IInv => NothingSkipped
  BY DEF IInv
<1> QED
  BY <1>1, InvCorrect, PTL
=============================================================================
