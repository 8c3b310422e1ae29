---------------------------- MODULE CallContract ----------------------------
(***************************************************************************)
(* What Confirm & Call promises a merchant, whatever the network, the      *)
(* Cloud Run replicas and the taps do: the telephone of a contact rings at *)
(* most once per batch and attempt, and the second attempt is made only    *)
(* for a contact whose first call is known to be unanswered.               *)
(* CallRail is shown to implement this specification.                      *)
(***************************************************************************)
CONSTANTS
    Batches,      \* ids of call batches (UuidUtil.generate)
    Contacts,     \* contacts on the call rail
    Ids           \* identities of calls

VARIABLES
    calls,        \* calls CALL-E has placed
    unanswered    \* calls that ended in no answer or in voicemail

vars == <<calls, unanswered>>

Call == [tok: Ids, b: Batches, c: Contacts, a: {0, 1}]

Placed(b, c, a) == \E x \in calls : x.b = b /\ x.c = c /\ x.a = a

Init ==
    /\ calls = {}
    /\ unanswered = {}

\* The first call of a batch to a contact.
Place(x) ==
    /\ x.a = 0
    /\ ~Placed(x.b, x.c, 0)
    /\ calls' = calls \cup {x}
    /\ UNCHANGED unanswered

\* The one retry the merchant may ask for.
Redial(x) ==
    /\ x.a = 1
    /\ ~Placed(x.b, x.c, 1)
    /\ \E y \in unanswered : y.b = x.b /\ y.c = x.c /\ y.a = 0
    /\ calls' = calls \cup {x}
    /\ UNCHANGED unanswered

HangUp(x) ==
    /\ unanswered' = unanswered \cup {x}
    /\ UNCHANGED calls

Next ==
    \/ \E x \in Call : Place(x) \/ Redial(x)
    \/ \E x \in calls : HangUp(x)

Spec == Init /\ [][Next]_vars
=============================================================================
