-------------------------- MODULE ProposalContract --------------------------
(***************************************************************************)
(* What Confirm and Skip promise of the capture cards, whatever frames the *)
(* taps act on and whatever writes fail: the customer is created once and  *)
(* no sale is without one; a sale is recorded again only after the confirm *)
(* that recorded it reported failure, or Skip was tapped on its card; a    *)
(* card is confirmed, and shown so, only when it is in the books; it is    *)
(* skipped only by a Skip; and nothing leaves the books.                   *)
(* ProposalCommit is shown to implement this specification.                *)
(***************************************************************************)
EXTENDS Naturals

CONSTANTS ContactCards, MoneyCards, Taps, None

Cards == ContactCards \cup MoneyCards

VARIABLES
    turn,       \* "pending", "confirmed" or "skipped" for each card
    person,     \* the card that created the customer, or None
    txs,        \* the sales: card and tap
    committed,  \* the cards shown as confirmed
    failed,     \* the <<tap, card>> whose confirm reported failure
    skips       \* the cards on which Skip was tapped

vars == <<turn, person, txs, committed, failed, skips>>

Init ==
    /\ turn = [p \in Cards |-> "pending"]
    /\ person = None
    /\ txs = {}
    /\ committed = {}
    /\ failed = {}
    /\ skips = {}

InTheBooks(p) ==
    IF p \in MoneyCards THEN \E x \in txs : x.card = p ELSE person # None

CreateContact(p) ==
    /\ person = None
    /\ turn[p] # "confirmed"
    /\ person' = p
    /\ UNCHANGED <<turn, txs, committed, failed, skips>>

Record(t, m) ==
    /\ person # None
    /\ turn[m] # "confirmed"
    /\ \A x \in txs : x.card = m => <<x.tap, m>> \in failed \/ m \in skips
    /\ txs' = txs \cup {[card |-> m, tap |-> t]}
    /\ UNCHANGED <<turn, person, committed, failed, skips>>

Confirm(p) ==
    /\ InTheBooks(p)
    /\ turn' = [turn EXCEPT ![p] = "confirmed"]
    /\ committed' = committed \cup {p}
    /\ UNCHANGED <<person, txs, failed, skips>>

Fail(t, p) ==
    /\ \A q \in Cards : <<t, q>> \notin failed
    /\ failed' = failed \cup {<<t, p>>}
    /\ UNCHANGED <<turn, person, txs, committed, skips>>

TapSkip(cards) ==
    /\ skips' = skips \cup cards
    /\ UNCHANGED <<turn, person, txs, committed, failed>>

Skip(p) ==
    /\ p \in skips
    /\ turn' = [turn EXCEPT ![p] = "skipped"]
    /\ UNCHANGED <<person, txs, committed, failed, skips>>

\* A new goal forgets what the cards showed.
Forget ==
    /\ committed' \in SUBSET committed
    /\ UNCHANGED <<turn, person, txs, failed, skips>>

Next ==
    \/ \E p \in Cards : CreateContact(p) \/ Confirm(p) \/ Skip(p)
    \/ \E t \in Taps : \/ \E m \in MoneyCards : Record(t, m)
                       \/ \E p \in Cards : Fail(t, p)
    \/ \E cards \in SUBSET Cards : TapSkip(cards)
    \/ Forget

Spec == Init /\ [][Next]_vars
=============================================================================
