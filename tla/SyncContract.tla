---------------------------- MODULE SyncContract ----------------------------
(***************************************************************************)
(* What offline-first sync promises about an operation, whatever the       *)
(* network, the server's handlers and the app do: the server takes an      *)
(* operation at most once and keeps it where it put it; a device lets go   *)
(* of an operation only when the server has it or else shows it as         *)
(* refused, and what is shown as refused the server never takes; and each  *)
(* device is given the server's log from the first entry to the last,      *)
(* nothing twice and nothing left out but what lies in an archived ledger. *)
(* SyncEngine is shown to implement this specification.                    *)
(***************************************************************************)
EXTENDS Naturals, Sequences

CONSTANTS
    Devices,
    Archives(_, _)  \* whether the one operation archives what the other is about

VARIABLES
    made,      \* the operations the merchant did on each device
    log,       \* the operations the server took, in its order
    settled,   \* the operations each device does not push any more
    refused,   \* the operations each device shows as refused
    place,     \* how far in the log each device is
    got        \* the <<place, operation>> pairs each device was given

vars == <<made, log, settled, refused, place, got>>

Init ==
    /\ made = [d \in Devices |-> {}]
    /\ log = <<>>
    /\ settled = [d \in Devices |-> {}]
    /\ refused = [d \in Devices |-> {}]
    /\ place = [d \in Devices |-> 0]
    /\ got = [d \in Devices |-> {}]

Logged(op) == \E k \in 1..Len(log) : log[k] = op

Make(d) ==
    /\ \E op \in made'[d] :
        /\ \A other \in Devices : op \notin made[other]
        /\ made' = [made EXCEPT ![d] = @ \cup {op}]
    /\ UNCHANGED <<log, settled, refused, place, got>>

Take(op) ==
    /\ ~Logged(op)
    /\ \A d \in Devices : op \notin refused[d]
    /\ log' = Append(log, op)
    /\ UNCHANGED <<made, settled, refused, place, got>>

\* What the server does not have when it leaves the queue is shown.
Settle(d, ops) ==
    /\ settled' = [settled EXCEPT ![d] = @ \cup ops]
    /\ refused' = [refused EXCEPT ![d] = @ \cup {op \in ops : ~Logged(op)}]
    /\ UNCHANGED <<made, log, place, got>>

\* The log from where the device is up to n, but for what may be left out.
Deliver(d, n) ==
    /\ \E given \in SUBSET (place[d] + 1..n) :
        /\ \A k \in (place[d] + 1..n) \ given :
              \E j \in 1..Len(log) : Archives(log[j], log[k])
        /\ got' = [got EXCEPT ![d] = @ \cup {<<k, log[k]>> : k \in given}]
    /\ place' = [place EXCEPT ![d] = n]
    /\ UNCHANGED <<made, log, settled, refused>>

Next ==
    \E d \in Devices :
        \/ Make(d)
        \/ \E op \in made[d] : Take(op)
        \/ \E ops \in SUBSET made[d] : Settle(d, ops)
        \/ \E n \in place[d]..Len(log) : Deliver(d, n)

Spec == Init /\ [][Next]_vars
=============================================================================
