---------------------------- MODULE MergeEngine ----------------------------
(***************************************************************************)
(* The merge engine of one device: what a remote operation does to the     *)
(* rows of the books, and the delete and restore cascades the repositories *)
(* and the engine share.  No state of its own: SyncEngine holds the rows   *)
(* and applies these operators.                                            *)
(*                                                                         *)
(* A row is [st, val, upd, arch]: missing, live or deleted; its fields; its*)
(* updatedAt as Drift stores it, in whole seconds; isUserArchived, which   *)
(* only ledgers use.  A field's value is the number of the operation that  *)
(* wrote it, 0 before any.  The fields of a transaction are the financial  *)
(* ones.  An entry of the server's log is [op, seq, at]: the operation, its *)
(* op_seq and its server_updated_at, which is not cut to seconds.          *)
(*                                                                         *)
(* Left out: ACTIVATE_ARCHIVED, CARRY_FORWARD, unknown verbs and entity    *)
(* types, malformed payloads, field parsing, audit notes and the search    *)
(* index.  resolveConflict has no caller.                                  *)
(***************************************************************************)
EXTENDS Integers, FiniteSets, FiniteSetsExt

CONSTANTS
    Devices,
    Ledgers, Contacts, Transactions,
    LedgerOf,     \* the ledger of each contact
    ContactOf,    \* the contact of each transaction
    Fields,       \* the fields of a row
    Rank,         \* the tiebreaker: role, then device id; the lower wins
    Second        \* clock ticks in a second

Entities == Ledgers \cup Contacts \cup Transactions

ASSUME MergeAssumption ==
    /\ IsFiniteSet(Entities)
    /\ Ledgers \cap (Contacts \cup Transactions) = {}
    /\ Contacts \cap Transactions = {}
    /\ LedgerOf \in [Contacts -> Ledgers]
    /\ ContactOf \in [Transactions -> Contacts]
    /\ Rank \in [Devices -> Nat]
    /\ \A d, e \in Devices : d # e => Rank[d] # Rank[e]
    /\ Second \in Nat \ {0}

Rows == [st : {"none", "live", "dead"}, val : [Fields -> Nat],
         upd : Int, arch : BOOLEAN]

(* Drift keeps a DateTime in whole seconds. *)
Stored(t) == (t \div Second) * Second

NewRow(val, t) == [st |-> "live", val |-> val, upd |-> Stored(t), arch |-> FALSE]

Live(rows) == {e \in Entities : rows[e].st = "live"}

(* The members of `among` under e: the contacts of a ledger and their      *)
(* transactions, the transactions of a contact.                            *)
Beneath(e, among) ==
    LET contacts == {c \in Contacts \cap among : LedgerOf[c] = e} IN
    contacts \cup {t \in Transactions \cap among : ContactOf[t] \in contacts \cup {e}}

(* A delete takes every live row under e and stamps all of them alike. *)
Taken(rows, e) == {e} \cup Beneath(e, Live(rows))

Sweep(rows, e, stamp) ==
    [x \in Entities |-> IF x \in Taken(rows, e)
                        THEN [rows[x] EXCEPT !.st = "dead", !.upd = stamp]
                        ELSE rows[x]]

(* A restore brings back the rows under e that bear the stamp of e itself. *)
BroughtBack(rows, e) ==
    {e} \cup Beneath(e, {x \in Entities : rows[x].st = "dead" /\ rows[x].upd = rows[e].upd})

Revive(rows, e, stamp) ==
    [x \in Entities |-> IF x \in BroughtBack(rows, e)
                        THEN [rows[x] EXCEPT !.st = "live", !.upd = stamp]
                        ELSE rows[x]]

(* The contacts whose balance a change of `changed` calls into question. *)
Affected(changed) ==
    (Contacts \cap changed) \cup {ContactOf[t] : t \in Transactions \cap changed}

(* What the balance of c sums up: its live transactions and their amounts. *)
Books(rows, c) ==
    {<<t, rows[t].val>> : t \in {u \in Transactions \cap Live(rows) : ContactOf[u] = c}}

Recalculate(bal, rows, affected) ==
    [c \in Contacts |-> IF c \in affected THEN Books(rows, c) ELSE bal[c]]

-----------------------------------------------------------------------------
(* A merge carries [rows, seen, conflicts, affected] from one operation to *)
(* the next: `seen` are the entries recorded so far.                       *)

(* Mutant: the conflict is filed under the verb of the operation. *)
SurfacedByVerb(s, kind, op) ==
    [s EXCEPT !.conflicts = @ \cup {[kind |-> op.act, op |-> op.id, dev |-> op.dev, ent |-> op.ent]}]

Surfaced(s, kind, op) ==
    [s EXCEPT !.conflicts = @ \cup {[kind |-> kind, op |-> op.id, dev |-> op.dev, ent |-> op.ent]}]

(* Who wrote the value an operation competes with: the last recorded       *)
(* operation stamped like the row, or else device d itself.                *)
LocalAuthority(d, s, e) ==
    LET authors == {x \in s.seen : x.op.ent = e /\ Stored(x.at) = s.rows[e].upd} IN
    IF authors = {} THEN d
    ELSE (CHOOSE x \in authors : \A y \in authors : y.seq =< x.seq).op.dev

(* Mutant: the clock of the device that wrote decides. *)
RemoteWinsByDevice(d, s, op, at) == op.t > s.rows[op.ent].upd

RemoteWins(d, s, op, at) ==
    \/ at > s.rows[op.ent].upd
    \/ at = s.rows[op.ent].upd /\ Rank[op.dev] < Rank[LocalAuthority(d, s, op.ent)]

(* _serverOrderedUpdatedAt *)
ServerOrdered(upd, at) == IF at > upd THEN Stored(at) ELSE upd

MergeCreate(d, s, op, at) ==
    LET row == s.rows[op.ent] IN
    CASE row.st = "none" ->
           [s EXCEPT !.rows[op.ent] = NewRow(op.val, at),
                     !.affected = @ \cup Affected(Transactions \cap {op.ent})]
      [] row.st # "none" /\ op.ent \in Transactions ->
           IF row.val = op.val THEN s ELSE Surfaced(s, "ambiguous", op)
      [] row.st # "none" /\ op.ent \notin Transactions ->
           IF op.dev = d THEN s ELSE Surfaced(s, "concurrentCreate", op)

(* An edit revives a deleted row, not what was deleted with it. *)
MergeUpdate(d, s, op, at) ==
    LET row == s.rows[op.ent] IN
    IF row.st = "none" THEN Surfaced(s, "ambiguous", op)
    ELSE [s EXCEPT
            !.rows[op.ent] = [row EXCEPT !.st = "live",
                                         !.val = IF RemoteWins(d, s, op, at) THEN op.val ELSE @,
                                         !.upd = ServerOrdered(@, at)],
            !.affected = @ \cup IF row.st = "live" /\ op.ent \in Contacts THEN {}
                                ELSE Affected({op.ent})]

MergeDelete(s, op, at) ==
    LET row == s.rows[op.ent] IN
    CASE row.st # "live" -> s
      [] row.st = "live" /\ row.upd > at -> Surfaced(s, "deleteVsEdit", op)
      [] row.st = "live" /\ row.upd =< at ->
           [s EXCEPT !.rows = Sweep(s.rows, op.ent, Stored(at)),
                     !.affected = @ \cup Affected(Taken(s.rows, op.ent))]

(* Mutant: the balances of what was restored are left as they were. *)
MergeRestoreOnly(s, op, at) ==
    LET row == s.rows[op.ent] IN
    CASE row.st = "none" -> Surfaced(s, "ambiguous", op)
      [] row.st = "live" -> s
      [] row.st = "dead" -> [s EXCEPT !.rows = Revive(s.rows, op.ent, Stored(at))]

MergeRestore(s, op, at) ==
    LET row == s.rows[op.ent] IN
    CASE row.st = "none" -> Surfaced(s, "ambiguous", op)
      [] row.st = "live" -> s
      [] row.st = "dead" ->
           [s EXCEPT !.rows = Revive(s.rows, op.ent, Stored(at)),
                     !.affected = @ \cup Affected(BroughtBack(s.rows, op.ent))]

(* _setLedgerFlag *)
MergeArchive(s, op, at) ==
    LET row == s.rows[op.ent] IN
    IF row.st = "none" THEN Surfaced(s, "ambiguous", op)
    ELSE [s EXCEPT !.rows[op.ent] = [row EXCEPT !.arch = op.act = "USER_ARCHIVE",
                                                !.upd = ServerOrdered(@, at)]]

(* One pass of the loop of _applyRemoteOps: skip what was applied before,  *)
(* merge, record.                                                          *)
ApplyOp(d, s, entry) ==
    LET op == entry.op
        at == entry.at
        merged == CASE op.act = "CREATE"  -> MergeCreate(d, s, op, at)
                    [] op.act = "UPDATE"  -> MergeUpdate(d, s, op, at)
                    [] op.act = "DELETE"  -> MergeDelete(s, op, at)
                    [] op.act = "RESTORE" -> MergeRestore(s, op, at)
                    [] op.act \in {"USER_ARCHIVE", "USER_UNARCHIVE"} -> MergeArchive(s, op, at)
    IN IF \E x \in s.seen : x.op.id = op.id THEN s
       ELSE [merged EXCEPT !.seen = @ \cup {entry}]
=============================================================================
