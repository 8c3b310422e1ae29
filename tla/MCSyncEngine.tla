---------------------------- MODULE MCSyncEngine ----------------------------
(* Instances of SyncEngine for TLC. *)
EXTENDS SyncEngine

CONSTANTS d1, d2, l1, c1, t1, t2

MCLedgerOf == [c \in Contacts |-> l1]
MCContactOf == [t \in Transactions |-> c1]
MCRank == [d \in Devices |-> IF d = d1 THEN 1 ELSE 2]
Symmetry == Permutations(Devices)
NoSkew == [d \in Devices |-> 0]

Mixed == {<<"CREATE", t2>>} \cup ({"UPDATE", "DELETE", "RESTORE"} \X Contacts)
         \cup ({"DELETE", "RESTORE", "USER_ARCHIVE", "USER_UNARCHIVE"} \X Ledgers)
Edits == {"UPDATE", "DELETE"} \X Transactions
ContactEnds == {"UPDATE", "DELETE"} \X Contacts
FirstSales == {"CREATE"} \X (Contacts \cup Transactions)
=============================================================================
