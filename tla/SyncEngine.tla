----------------------------- MODULE SyncEngine -----------------------------
(***************************************************************************)
(* Offline-first sync of a workspace: devices that write their own books   *)
(* at any time, push their audit log to the server, pull the server's log  *)
(* and merge it.                                                           *)
(*                                                                         *)
(* `now` is true time; it moves with every local write and every append.   *)
(* A device reads now + Skew.  A device's step is one database transaction *)
(* or one network call; an append and a projection of the server are one   *)
(* statement each.  `id` of an operation is its UUID: the number of the    *)
(* write.  audit[d] is kept in the order in which getPendingPushLogs reads *)
(* it: by the stored second, and within a second by the random UUIDs.      *)
(*                                                                         *)
(* Left out: who may sync (entitlement, tokens, the viewer role, device    *)
(* and monthly caps), which only keep a cycle from starting or end it;     *)
(* MergeEngine lists what is left out of the merge.  An operation the      *)
(* server refuses (validateEntityDeltas) is marked `bad` when it is made.  *)
(***************************************************************************)
EXTENDS MergeEngine, Sequences, SequencesExt

CONSTANTS
    Shared,       \* what every device and the server hold at the start
    Menu,         \* the <<action, entity>> pairs the merchants may do
    Cycles,       \* "sync", "push" and "pull": the cycles that are started
    Skew,         \* how far the clock of each device is ahead of the server's
    CanRefuse,    \* whether the server may refuse an operation
    PageLimit,    \* operations in a page of a pull
    MaxAttempts,  \* of a push in one cycle, 5 in the code
    MaxWrites,    \* bound: local writes of all devices
    MaxFaults     \* bound: answers lost, handlers and cycles killed

ASSUME SyncAssumption ==
    /\ Shared \subseteq Entities
    /\ Skew \in [Devices -> Int]
    /\ CanRefuse \in BOOLEAN
    /\ PageLimit \in Nat \ {0}
    /\ MaxAttempts \in Nat
    /\ MaxWrites \in Nat
    /\ MaxFaults \in Nat

VARIABLES
    now, writes, faults,
    rows,       \* the ledgers, contacts and transactions tables of each device
    bal,        \* contact_balances
    audit,      \* audit_logs: the device's own operations, in push order
    acked,      \* sync_outbound_acks: ids the server has settled
    applied,    \* sync_operations: the entries merged here
    cursor,     \* syncPullWatermarkOpSeq
    conflicts,  \* merge_conflicts
    cycle,      \* the sync cycle in flight
    log,        \* the server's audit_logs, in op_seq order
    mirror,     \* the server's entity tables
    handlers    \* the push-sync-ops handlers that run

books == <<rows, bal>>
outbox == <<audit, acked>>
inbox == <<applied, cursor>>
server == <<log, mirror, handlers>>
vars == <<now, writes, faults, books, outbox, inbox, conflicts, cycle, server>>

Actions == {"CREATE", "UPDATE", "DELETE", "RESTORE", "USER_ARCHIVE", "USER_UNARCHIVE"}

Idle == [pc |-> "idle", tries |-> 0, batch |-> {}, pulls |-> FALSE,
         page |-> {}, next |-> 0, more |-> FALSE]

LocalNow(d) == Stored(now + 1 + Skew[d])

Parent(e) == IF e \in Contacts THEN {LedgerOf[e]}
             ELSE IF e \in Transactions THEN {ContactOf[e]} ELSE {}

Init ==
    /\ now = 0 /\ writes = 0 /\ faults = 0
    /\ rows = [d \in Devices |-> [e \in Entities |->
                 [st |-> IF e \in Shared THEN "live" ELSE "none",
                  val |-> [f \in Fields |-> 0], upd |-> 0, arch |-> FALSE]]]
    /\ bal = [d \in Devices |-> [c \in Contacts |-> Books(rows[d], c)]]
    /\ audit = [d \in Devices |-> <<>>]
    /\ acked = [d \in Devices |-> {}]
    /\ applied = [d \in Devices |-> {}]
    /\ cursor = [d \in Devices |-> 0]
    /\ conflicts = [d \in Devices |-> {}]
    /\ cycle = [d \in Devices |-> Idle]
    /\ log = <<>>
    /\ mirror = [e \in Entities |-> [there |-> e \in Shared, arch |-> FALSE, seq |-> 0]]
    /\ handlers = {}
-----------------------------------------------------------------------------
(* Local writes of the repositories: the rows, the balances and the audit  *)
(* row in one transaction, sync cycle or not.                              *)

(* A guarded use case finds the row, its contact and its ledger alive and  *)
(* the ledger out of the archive.                                          *)
Writable(d, e) ==
    LET up == Parent(e) \cup UNION {Parent(p) : p \in Parent(e)} IN
    \A p \in up \cup {e} : rows[d][p].st = "live" /\ ~rows[d][p].arch

(* The push order: the second of the write, then the random id. *)
Queued(q, op) ==
    {InsertAt(q, i, op) : i \in {j \in 1..Len(q) + 1 : \A k \in j..Len(q) : q[k].t = op.t}}

Write(d, act, e, val, newRows, changed) ==
    /\ <<act, e>> \in Menu
    /\ writes < MaxWrites
    /\ writes' = writes + 1
    /\ now' = now + 1
    /\ rows' = [rows EXCEPT ![d] = newRows]
    /\ bal' = [bal EXCEPT ![d] = Recalculate(@, newRows, Affected(changed))]
    /\ \E bad \in {b \in BOOLEAN : b => CanRefuse /\ e \notin Ledgers /\ act \in {"CREATE", "UPDATE"}} :
       \E q \in Queued(audit[d], [id |-> writes + 1, dev |-> d, ent |-> e, act |-> act,
                                  val |-> val, t |-> LocalNow(d), bad |-> bad]) :
            audit' = [audit EXCEPT ![d] = q]
    /\ UNCHANGED <<faults, acked, inbox, conflicts, cycle, server>>

CreateRow(d, e) ==
    LET val == [f \in Fields |-> writes + 1] IN
    /\ \A other \in Devices : rows[other][e].st = "none"
    /\ \A p \in Parent(e) : Writable(d, p)
    /\ Write(d, "CREATE", e, val, [rows[d] EXCEPT ![e] = NewRow(val, LocalNow(d))], {e} \cap Transactions)

(* The payload of an edit holds every field that travels, whatever the     *)
(* merchant changed.  doNotCall and avatarColor of a contact never do, and *)
(* Fields are the others.                                                  *)
UpdateRow(d, e, f) ==
    LET val == [rows[d][e].val EXCEPT ![f] = writes + 1] IN
    /\ Writable(d, e)
    /\ Write(d, "UPDATE", e, val,
             [rows[d] EXCEPT ![e].val = val, ![e].upd = LocalNow(d)], {e} \cap Transactions)

(* The delete of a contact stamps later than any of its transactions bears,*)
(* so that a restore finds its own cascade and no other.                   *)
DeleteStamp(d, e) ==
    Max({LocalNow(d)} \cup
        {rows[d][t].upd + Second : t \in {u \in Transactions : ContactOf[u] = e /\ rows[d][u].st # "none"}})

(* A ledger is deleted in the archive too.  The repository writes its row  *)
(* anew, here and in a restore, and isUserArchived falls to its default.   *)
DeleteRow(d, e) ==
    /\ rows[d][e].st = "live"
    /\ e \in Ledgers \/ Writable(d, e)
    /\ Write(d, "DELETE", e, rows[d][e].val,
             [Sweep(rows[d], e, DeleteStamp(d, e)) EXCEPT ![e].arch = FALSE],
             Taken(rows[d], e))

RestoreRow(d, e) ==
    /\ rows[d][e].st = "dead"
    /\ Write(d, "RESTORE", e, rows[d][e].val,
             [Revive(rows[d], e, LocalNow(d)) EXCEPT ![e].arch = FALSE],
             BroughtBack(rows[d], e))

ArchiveLedger(d, l, act) ==
    /\ rows[d][l].st = "live"
    /\ rows[d][l].arch = (act = "USER_UNARCHIVE")
    /\ Write(d, act, l, rows[d][l].val,
             [rows[d] EXCEPT ![l].arch = ~@, ![l].upd = LocalNow(d)], {})

LocalWrite(d) ==
    \E e \in Entities :
        \/ CreateRow(d, e)
        \/ \E f \in Fields : UpdateRow(d, e, f)
        \/ DeleteRow(d, e)
        \/ RestoreRow(d, e)
        \/ e \in Ledgers /\ \E act \in {"USER_ARCHIVE", "USER_UNARCHIVE"} : ArchiveLedger(d, e, act)
-----------------------------------------------------------------------------
(* The cycle: push what is pending, then pull page after page.             *)

Pending(d) == {op \in ToSet(audit[d]) : op.id \notin acked[d]}

(* getPullWatermark: the stored cursor or the last entry applied. *)
Watermark(d) == Max({cursor[d]} \cup {x.seq : x \in applied[d]})

(* Mutant: the handler logs what it answers as refused. *)
HandlerOfAll(d, batch) ==
    [dev |-> d, left |-> batch, doing |-> {}, failed |-> FALSE, heard |-> TRUE, lost |-> 0]

(* A handler of push-sync-ops refuses what is bad and goes through the     *)
(* rest in the order of the batch, which is that of the queue.             *)
Handler(d, batch) ==
    [dev |-> d, left |-> {op \in batch : ~op.bad}, doing |-> {}, failed |-> FALSE,
     heard |-> TRUE, lost |-> 0]

(* Nobody listens any more; `lost`, the number of the fault, keeps it apart*)
(* from others that are as far with the same batch.                        *)
Lost(h) == [h EXCEPT !.heard = FALSE, !.lost = faults + 1]

Precedes(q, a, b) == \E j \in DOMAIN q : q[j] = b /\ \E i \in 1..j - 1 : q[i] = a

Upcoming(h) ==
    {op \in h.left : \A other \in h.left \ {op} : Precedes(audit[h.dev], op, other)}

Finished(h) == h.left = {} /\ h.doing = {}
Running(h) == ~h.failed /\ ~Finished(h)

Logged(id) == \E k \in DOMAIN log : log[k].op.id = id

Heard(d) == {h \in handlers : h.dev = d /\ h.heard}

(* _claimSyncSlot: one cycle at a time. *)
StartCycle(d, kind) ==
    LET batch == IF kind = "pull" THEN {} ELSE Pending(d)
        pulls == kind # "push"
    IN
    /\ kind \in Cycles
    /\ cycle[d].pc = "idle"
    /\ IF batch = {}
       THEN /\ pulls
            /\ cycle' = [cycle EXCEPT ![d] = [Idle EXCEPT !.pc = "pull"]]
            /\ UNCHANGED handlers
       ELSE /\ cycle' = [cycle EXCEPT ![d] = [Idle EXCEPT !.pc = "push", !.tries = 1,
                                                          !.batch = batch, !.pulls = pulls]]
            /\ handlers' = handlers \cup {Handler(d, batch)}
    /\ UNCHANGED <<now, writes, faults, books, outbox, inbox, conflicts, log, mirror>>

(* Mutants: no probe for the id; a repeated id is an error. *)
Append1Blind(h) ==
    \E op \in Upcoming(h) :
        /\ Running(h) /\ h.doing = {}
        /\ log' = Append(log, [op |-> op, seq |-> Len(log) + 1, at |-> now + 1])
        /\ now' = now + 1
        /\ handlers' = (handlers \ {h}) \cup {[h EXCEPT !.left = @ \ {op}, !.doing = {op}]}
        /\ UNCHANGED <<writes, faults, books, outbox, inbox, conflicts, cycle, mirror>>

Append1Strict(h) ==
    \E op \in Upcoming(h) :
        /\ Running(h) /\ h.doing = {}
        /\ IF Logged(op.id)
           THEN /\ handlers' = (handlers \ {h}) \cup {[h EXCEPT !.failed = TRUE]}
                /\ UNCHANGED <<log, now>>
           ELSE /\ log' = Append(log, [op |-> op, seq |-> Len(log) + 1, at |-> now + 1])
                /\ now' = now + 1
                /\ handlers' = (handlers \ {h}) \cup {[h EXCEPT !.left = @ \ {op}, !.doing = {op}]}
        /\ UNCHANGED <<writes, faults, books, outbox, inbox, conflicts, cycle, mirror>>

(* append_sync_audit_op, under the workspace's lock. *)
Append1(h) ==
    \E op \in Upcoming(h) :
        /\ Running(h) /\ h.doing = {}
        /\ IF Logged(op.id)
           THEN UNCHANGED <<log, now>>
           ELSE /\ log' = Append(log, [op |-> op, seq |-> Len(log) + 1, at |-> now + 1])
                /\ now' = now + 1
        /\ handlers' = (handlers \ {h}) \cup {[h EXCEPT !.left = @ \ {op}, !.doing = {op}]}
        /\ UNCHANGED <<writes, faults, books, outbox, inbox, conflicts, cycle, mirror>>

(* applyEntityOp: a create upserts and needs its parent there; the rest is *)
(* written over older operations only.                                     *)
Projected(op, seq) ==
    LET m == mirror[op.ent] IN
    CASE op.act = "CREATE" -> [m EXCEPT !.there = TRUE, !.seq = seq]
      [] op.act # "CREATE" /\ (~m.there \/ m.seq >= seq) -> m
      [] op.act # "CREATE" /\ m.there /\ m.seq < seq ->
           [m EXCEPT !.seq = seq,
                     !.arch = CASE op.act = "USER_ARCHIVE" -> TRUE
                                [] op.act = "USER_UNARCHIVE" -> FALSE
                                [] OTHER -> @]

Project(h) ==
    \E op \in h.doing :
        LET seq == CHOOSE k \in DOMAIN log : log[k].op.id = op.id
            orphan == op.act = "CREATE" /\ \E p \in Parent(op.ent) : ~mirror[p].there
        IN
        /\ Running(h)
        /\ IF orphan
           THEN /\ handlers' = (handlers \ {h}) \cup {[h EXCEPT !.failed = TRUE]}
                /\ UNCHANGED mirror
           ELSE /\ handlers' = (handlers \ {h}) \cup {[h EXCEPT !.doing = {}]}
                /\ mirror' = [mirror EXCEPT ![op.ent] = Projected(op, seq)]
        /\ UNCHANGED <<now, writes, faults, books, outbox, inbox, conflicts, cycle, log>>

(* A handler nobody listens to any more ends. *)
Unheard(h) ==
    /\ ~h.heard /\ ~Running(h)
    /\ handlers' = handlers \ {h}
    /\ UNCHANGED <<now, writes, faults, books, outbox, inbox, conflicts, cycle, log, mirror>>

(* The handler dies between two statements; the client sees an error. *)
HandlerDies(h) ==
    /\ Running(h)
    /\ faults < MaxFaults
    /\ faults' = faults + 1
    /\ handlers' = (handlers \ {h}) \cup {[h EXCEPT !.failed = TRUE]}
    /\ UNCHANGED <<now, writes, books, outbox, inbox, conflicts, cycle, log, mirror>>

(* NetworkRetryPolicy: the same batch again, until the attempts are spent. *)
Retry(d, rest) ==
    IF cycle[d].tries < MaxAttempts
    THEN /\ cycle' = [cycle EXCEPT ![d].tries = @ + 1]
         /\ handlers' = rest \cup {Handler(d, cycle[d].batch)}
    ELSE /\ cycle' = [cycle EXCEPT ![d] = Idle]
         /\ handlers' = rest

PushFailed(d) ==
    \E h \in Heard(d) :
        /\ h.failed
        /\ Retry(d, handlers \ {h})
        /\ UNCHANGED <<now, writes, faults, books, outbox, inbox, conflicts, log, mirror>>

(* The answer does not come back, or not in time: the handler goes on. *)
AnswerLost(d) ==
    \E h \in Heard(d) :
        /\ faults < MaxFaults
        /\ faults' = faults + 1
        /\ Retry(d, (handlers \ {h}) \cup {Lost(h)})
        /\ UNCHANGED <<now, writes, books, outbox, inbox, conflicts, log, mirror>>

PushAnswered(d) ==
    \E h \in Heard(d) :
        /\ Finished(h)
        /\ handlers' = handlers \ {h}
        /\ cycle' = [cycle EXCEPT ![d].pc = "ack"]
        /\ UNCHANGED <<now, writes, faults, books, outbox, inbox, conflicts, log, mirror>>

AfterPush(d) == IF cycle[d].pulls THEN [Idle EXCEPT !.pc = "pull"] ELSE Idle

(* Mutant: the whole batch counts as accepted. *)
AcceptedAll(d) == cycle[d].batch
Accepted(d) == {op \in cycle[d].batch : ~op.bad}
RefusedOps(d) == cycle[d].batch \ Accepted(d)

RecordAcks(d) ==
    /\ cycle[d].pc = "ack"
    /\ acked' = [acked EXCEPT ![d] = @ \cup {op.id : op \in Accepted(d)}]
    /\ cycle' = [cycle EXCEPT ![d] = IF RefusedOps(d) = {} THEN AfterPush(d)
                                     ELSE [@ EXCEPT !.pc = "quarantine"]]
    /\ UNCHANGED <<now, writes, faults, books, audit, inbox, conflicts, server>>

(* A refused operation leaves the queue and becomes visible in one go. *)
RecordRejections(d) ==
    /\ cycle[d].pc = "quarantine"
    /\ acked' = [acked EXCEPT ![d] = @ \cup {op.id : op \in RefusedOps(d)}]
    /\ conflicts' = [conflicts EXCEPT ![d] = @ \cup
           {[kind |-> "rejectedByServer", op |-> op.id, dev |-> d, ent |-> op.ent] : op \in RefusedOps(d)}]
    /\ cycle' = [cycle EXCEPT ![d] = AfterPush(d)]
    /\ UNCHANGED <<now, writes, faults, books, audit, inbox, server>>

(* resolveArchivedEntityIds, by the rows the mirror has. *)
Withheld(e) ==
    LET up == Parent(e) \cup UNION {Parent(p) : p \in Parent(e)} IN
    /\ \A p \in ((up \cup {e}) \cap (Contacts \cup Transactions)) : mirror[p].there
    /\ \E l \in up \cap Ledgers : mirror[l].arch

(* The entries behind the watermark that are not withheld. *)
Replayed(d) == {x \in {log[k] : k \in Watermark(d) + 1..Len(log)} : ~Withheld(x.op.ent)}

(* Where a page ends: at the entry that fills it, or at the end of the log.*)
FullAt(d) == {n \in Watermark(d)..Len(log) :
                 Cardinality({x \in Replayed(d) : x.seq =< n}) = PageLimit}
PageEnd(d) == IF FullAt(d) = {} THEN Len(log) ELSE Min(FullAt(d))

TakePage(d, next, more) ==
    /\ cycle[d].pc = "pull"
    /\ cycle' = [cycle EXCEPT ![d] =
           [Idle EXCEPT !.pc = "merge", !.next = next, !.more = more,
                        !.page = {x \in Replayed(d) : x.seq =< PageEnd(d)}]]
    /\ UNCHANGED <<now, writes, faults, books, outbox, inbox, conflicts, server>>

(* Mutants: the cursor jumps to the end of the log; has_more at the end. *)
PullPageToEnd(d) == TakePage(d, Len(log), FALSE)
PullPageForEver(d) == TakePage(d, PageEnd(d), PageEnd(d) =< Len(log))

(* pull-sync-ops: the cursor moves to the end of the page. *)
PullPage(d) == TakePage(d, PageEnd(d), PageEnd(d) < Len(log))

(* The page by op_seq. *)
InOrder(page) ==
    CHOOSE s \in [1..Cardinality(page) -> page] : \A i, j \in DOMAIN s : i < j => s[i].seq < s[j].seq

(* The entries one after the other. *)
ApplyAll(d, start, entries) == FoldLeft(LAMBDA s, x : ApplyOp(d, s, x), start, entries)

(* applyRemoteOps: the whole page, sorted by op_seq, and the balances in   *)
(* one transaction.                                                        *)
Merge(d) ==
    LET start == [rows |-> rows[d], seen |-> applied[d], conflicts |-> {}, affected |-> {}]
        merged == ApplyAll(d, start, InOrder(cycle[d].page))
    IN
    /\ cycle[d].pc = "merge"
    /\ rows' = [rows EXCEPT ![d] = merged.rows]
    /\ applied' = [applied EXCEPT ![d] = @ \cup cycle[d].page]
    /\ conflicts' = [conflicts EXCEPT ![d] = @ \cup merged.conflicts]
    /\ bal' = [bal EXCEPT ![d] = Recalculate(@, merged.rows, merged.affected)]
    /\ cycle' = [cycle EXCEPT ![d].pc = "mark", ![d].page = {}]
    /\ UNCHANGED <<now, writes, faults, outbox, cursor, server>>

RecordPullWatermark(d) ==
    /\ cycle[d].pc = "mark"
    /\ cursor' = [cursor EXCEPT ![d] = IF cycle[d].next > Watermark(d) THEN cycle[d].next ELSE @]
    /\ cycle' = [cycle EXCEPT ![d] = IF cycle[d].more THEN [Idle EXCEPT !.pc = "pull"] ELSE Idle]
    /\ UNCHANGED <<now, writes, faults, books, outbox, applied, conflicts, server>>

(* The cycle fails or the app dies; what the database has, it keeps. *)
CycleDies(d) ==
    /\ cycle[d].pc # "idle"
    /\ faults < MaxFaults
    /\ faults' = faults + 1
    /\ cycle' = [cycle EXCEPT ![d] = Idle]
    /\ handlers' = (handlers \ Heard(d)) \cup {Lost(h) : h \in Heard(d)}
    /\ UNCHANGED <<now, writes, books, outbox, inbox, conflicts, log, mirror>>

ServerStep(h) == Append1(h) \/ Project(h) \/ Unheard(h)

CycleStep(d) ==
    \/ PushFailed(d) \/ PushAnswered(d) \/ RecordAcks(d) \/ RecordRejections(d)
    \/ PullPage(d) \/ Merge(d) \/ RecordPullWatermark(d)

Fault == \/ \E d \in Devices : AnswerLost(d) \/ CycleDies(d)
         \/ \E h \in handlers : HandlerDies(h)

Next ==
    \/ \E d \in Devices :
        \/ LocalWrite(d)
        \/ \E kind \in Cycles : StartCycle(d, kind)
        \/ CycleStep(d)
    \/ \E h \in handlers : ServerStep(h)
    \/ Fault

Spec == Init /\ [][Next]_vars

(* The network and the server answer in the end, and some trigger keeps    *)
(* starting a cycle: a resume, a reconnect, a wake-up or Sync Now.         *)
Fairness ==
    /\ WF_vars(\E h \in handlers : ServerStep(h))
    /\ \A d \in Devices : WF_vars(StartCycle(d, "sync") \/ CycleStep(d))

FairSpec == Spec /\ Fairness
-----------------------------------------------------------------------------
(* Every variable keeps its type. *)
Ops == [id : 1..MaxWrites, dev : Devices, ent : Entities, act : Actions,
        val : [Fields -> Nat], t : Int, bad : BOOLEAN]

Entries == [op : Ops, seq : Nat, at : Nat]

TypeOK ==
    /\ now \in Nat /\ writes \in 0..MaxWrites /\ faults \in 0..MaxFaults
    /\ rows \in [Devices -> [Entities -> Rows]]
    /\ \A d \in Devices :
        /\ \A c \in Contacts : bal[d][c] \subseteq (Transactions \X [Fields -> Nat])
        /\ audit[d] \in Seq(Ops)
        /\ acked[d] \subseteq 1..MaxWrites
        /\ applied[d] \subseteq Entries
        /\ cursor[d] \in Nat
        /\ conflicts[d] \subseteq
              [kind : {"ambiguous", "concurrentCreate", "deleteVsEdit", "rejectedByServer"},
               op : 1..MaxWrites, dev : Devices, ent : Entities]
        /\ cycle[d] \in [pc : {"idle", "push", "ack", "quarantine", "pull", "merge", "mark"},
                         tries : 0..Max({1, MaxAttempts}), batch : SUBSET Ops, pulls : BOOLEAN,
                         page : SUBSET Entries, next : Nat, more : BOOLEAN]
    /\ log \in Seq(Entries)
    /\ mirror \in [Entities -> [there : BOOLEAN, arch : BOOLEAN, seq : Nat]]
    /\ handlers \subseteq [dev : Devices, left : SUBSET Ops, doing : SUBSET Ops,
                          failed : BOOLEAN, heard : BOOLEAN, lost : 0..MaxFaults]

(* However often a push is repeated, and while an earlier one still runs,  *)
(* an operation enters the server's log once: "retried pushes can't        *)
(* double-apply".                                                          *)
LoggedOnce ==
    \A j, k \in DOMAIN log : log[j].op.id = log[k].op.id => j = k

(* The watermark never passes an operation the device has not merged,      *)
(* whatever dies between the merge and the cursor and whatever other       *)
(* devices append meanwhile; only what lies in a ledger that was archived  *)
(* may have been withheld.                                                 *)
EverArchived(e) ==
    \E k \in DOMAIN log : /\ log[k].op.act = "USER_ARCHIVE"
                          /\ e \in Beneath(log[k].op.ent, Entities)

NothingSkipped ==
    \A d \in Devices : \A k \in 1..Watermark(d) :
        log[k] \in applied[d] \/ EverArchived(log[k].op.ent)

(* An operation leaves the push queue only if the server has it or the     *)
(* merchant is shown that it was refused.                                  *)
SettledIsKept ==
    \A d \in Devices : \A id \in acked[d] :
        \/ \E k \in DOMAIN log : log[k].op.id = id
        \/ \E c \in conflicts[d] : c.kind = "rejectedByServer" /\ c.op = id

(* The stored balance of a contact is the sum of its live transactions     *)
(* after every local write and every merge.                                *)
BalanceIsTheBooks ==
    \A d \in Devices : \A c \in Contacts : bal[d][c] = Books(rows[d], c)

(* Everything written anywhere has reached the server and every device. *)
Quiet ==
    /\ handlers = {}
    /\ \A d \in Devices : /\ cycle[d].pc = "idle"
                          /\ Pending(d) = {}
                          /\ Watermark(d) = Len(log)

(* "CONVERGENCE - two devices must reach identical state": once everything *)
(* is pushed and pulled, the devices show the same live rows with the same *)
(* values, each as the last operation of the log left it.                  *)
LastWrite(e) ==
    {k \in DOMAIN log : log[k].op.ent = e /\ log[k].op.act \in {"CREATE", "UPDATE"}}

Converged ==
    Quiet => \A d \in Devices : \A e \in Entities :
        /\ \A other \in Devices : e \in Live(rows[d]) <=> e \in Live(rows[other])
        /\ e \in Live(rows[d]) /\ LastWrite(e) # {} =>
              rows[d][e].val = log[Max(LastWrite(e))].op.val

(* A cycle gives its slot back: nothing it waits for can wait for ever. *)
SlotIsReleased == \A d \in Devices : cycle[d].pc # "idle" ~> cycle[d].pc = "idle"

(* What a device writes leaves its queue in the end, as push-sync-ops has  *)
(* it: one operation must not hold up the rest of the queue.               *)
QueueDrains == \A d \in Devices : Pending(d) # {} ~> Pending(d) = {}

(* The sync implements what offline-first promises about an operation.  Of *)
(* SyncContract, a device has made what its audit log holds, has settled   *)
(* what is not pending, shows as refused what a conflict says so of, is at *)
(* its pull watermark and was given what it has merged.                    *)
Archives(a, o) == a.act = "USER_ARCHIVE" /\ o.ent \in Beneath(a.ent, Entities)

MadeOn == [d \in Devices |-> ToSet(audit[d])]
LoggedOps == [k \in 1..Len(log) |-> log[k].op]
SettledOn == [d \in Devices |-> ToSet(audit[d]) \ Pending(d)]
RefusedOn == [d \in Devices |->
                {op \in ToSet(audit[d]) :
                   \E c \in conflicts[d] : c.kind = "rejectedByServer" /\ c.op = op.id}]
PlaceOf == [d \in Devices |-> Watermark(d)]
GivenTo == [d \in Devices |-> {<<x.seq, x.op>> : x \in applied[d]}]

Contract == INSTANCE SyncContract WITH
    made <- MadeOn, log <- LoggedOps, settled <- SettledOn,
    refused <- RefusedOn, place <- PlaceOf, got <- GivenTo

SyncContractHolds == Contract!Spec
=============================================================================
