---------------------------- MODULE EmailContract ----------------------------
(***************************************************************************)
(* What Confirm & Send promises, whatever taps overlap, requests get lost  *)
(* and SMTP answers: an approval is for rows the merchant was not told are *)
(* sent; it mails only those rows, each once, and none after a failure     *)
(* that a human must settle; a row the merchant is told is sent has been   *)
(* mailed, and it is taken back only when two approvals were for that row. *)
(* EmailRail is shown to implement this specification.                     *)
(***************************************************************************)
EXTENDS Naturals

CONSTANTS
    Contacts,
    Flows      \* approvals

VARIABLES
    mailbox,   \* the address of each contact
    asked,     \* the rows each approval is for
    mails,     \* how many mails Gmail accepted for an approval and a contact
    halted,    \* the approvals a human must settle
    told       \* the rows the merchant sees as sent

vars == <<mailbox, asked, mails, halted, told>>

Init ==
    /\ asked = [f \in Flows |-> {}]
    /\ mails = [f \in Flows |-> [c \in Contacts |-> 0]]
    /\ halted = {}
    /\ told = {}

Approve(f) ==
    /\ asked[f] = {}
    /\ \E rows \in SUBSET (Contacts \ told) :
        /\ rows # {}
        /\ asked' = [asked EXCEPT ![f] = rows]
    /\ UNCHANGED <<mailbox, mails, halted, told>>

Mail(f, c) ==
    /\ c \in asked[f]
    /\ mails[f][c] = 0
    /\ f \notin halted
    /\ mails' = [mails EXCEPT ![f][c] = 1]
    /\ UNCHANGED <<mailbox, asked, halted, told>>

Halt(f) ==
    /\ asked[f] # {}
    /\ halted' = halted \cup {f}
    /\ UNCHANGED <<mailbox, asked, mails, told>>

\* The rows that approval f is for are shown anew.
Tell(f, rows) ==
    /\ \A c \in rows \ told :
          /\ c \in asked[f]
          /\ \E d \in asked[f] : mailbox[d] = mailbox[c] /\ mails[f][d] > 0
    /\ \A c \in told \ rows :
          c \in asked[f] /\ \E g \in Flows \ {f} : c \in asked[g]
    /\ told' = rows
    /\ UNCHANGED <<mailbox, asked, mails, halted>>

Next ==
    \E f \in Flows :
        \/ Approve(f)
        \/ \E c \in Contacts : Mail(f, c)
        \/ Halt(f)
        \/ \E rows \in SUBSET Contacts : Tell(f, rows)

Spec == Init /\ [][Next]_vars
=============================================================================
