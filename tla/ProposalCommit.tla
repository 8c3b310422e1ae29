--------------------------- MODULE ProposalCommit ---------------------------
(***************************************************************************)
(* Confirm and Skip on the capture cards of one agent turn: the handlers   *)
(* of closing_agent_controller.dart, the single-flight gate, and the use   *)
(* cases that write the contact, the money, the journal and the state of   *)
(* the turn, each in a transaction of its own.                             *)
(*                                                                         *)
(* The cards are about one customer who is not in the books yet: at most   *)
(* one card creates the contact, the others record a debt or a payment.    *)
(* A tap acts on the frame on the screen, which may be older than the      *)
(* state; an execution of a handler is named by its tap.                   *)
(***************************************************************************)
EXTENDS Naturals, FiniteSets

CONSTANTS
    ContactCards,   \* proposals propose_create_contact
    MoneyCards,     \* proposals propose_debt and propose_payment
    Taps,           \* taps of Confirm or Skip
    None,
    TurnId,         \* the id of an agent turn, which names no contact
    MaxFaults,      \* bound on writes and reads that fail
    MaxTurns        \* bound on new goals submitted

Cards == ContactCards \cup MoneyCards

ASSUME CardsDisjoint == ContactCards \cap MoneyCards = {}
ASSUME OneContactCard == \A j, k \in ContactCards : j = k
ASSUME NotCards == None \notin Cards /\ TurnId \notin Cards /\ None # TurnId
ASSUME Bounds == MaxFaults \in Nat /\ MaxTurns \in Nat

VARIABLES
    turn,        \* agent_turns.confirm_state of each proposal
    person,      \* the card that created the customer's contact, or None
    txs,         \* transactions written
    gate,        \* AgentConfirmGate._inFlight
    confirming,  \* confirmingProposalId: {}, one card, or the key of a bundle
    committed,   \* committedIds
    skipped,     \* skippedIds
    contactOf,   \* contactIdByProposal
    failure,     \* actionFailure is set
    phase,       \* "ready", "running", or "gone" when other cards show
    painted,     \* the cards and the busy key of the last frame
    flow,        \* where the handler of each tap is
    faults, turns

dbVars == <<turn, person, txs>>
uiVars == <<confirming, committed, skipped, contactOf, failure>>
boundVars == <<faults, turns>>
vars == <<dbVars, gate, uiVars, phase, painted, flow, boundVars>>

(* ------------------------------ data ---------------------------------- *)

Id == Cards \cup {None, TurnId}

\* cards is the bundle in commit order, left what follows cur in it; to and
\* new are the overrides of cur; bad is the card whose failure was reported.
Flow == [pc: {"idle", "find", "write", "contactJournal", "journal", "mark",
              "cancelFind", "cancelMark", "done"},
         kind: {"none", "one", "bundle", "skip"},
         cards: SUBSET Cards, left: SUBSET Cards, cur: Cards \cup {None},
         thr: Id, to: Id, new: BOOLEAN, bad: Cards \cup {None}]
IdleFlow == [pc |-> "idle", kind |-> "none", cards |-> {}, left |-> {}, cur |-> None,
             thr |-> None, to |-> None, new |-> FALSE, bad |-> None]

TypeOK ==
    /\ turn \in [Cards -> {"pending", "confirmed", "skipped"}]
    /\ person \in Cards \cup {None}
    /\ txs \subseteq [card: MoneyCards, tap: Taps]
    /\ gate \subseteq Cards
    /\ confirming \subseteq Cards
    /\ committed \subseteq Cards
    /\ skipped \subseteq Cards
    /\ contactOf \in [Cards -> Id]
    /\ failure \in BOOLEAN
    /\ phase \in {"ready", "running", "gone"}
    /\ painted \in [cards: SUBSET Cards, busy: SUBSET Cards]
    /\ flow \in [Taps -> Flow]
    /\ faults \in 0..MaxFaults
    /\ turns \in 0..MaxTurns

Pending == Cards \ (committed \cup skipped)

Init ==
    /\ turn = [p \in Cards |-> "pending"]
    /\ person = None
    /\ txs = {}
    /\ gate = {}
    /\ confirming = {}
    /\ committed = {}
    /\ skipped = {}
    /\ contactOf = [p \in Cards |-> None]
    /\ failure = FALSE
    /\ phase = "ready"
    /\ painted = [cards |-> Cards, busy |-> {}]
    /\ flow = [t \in Taps |-> IdleFlow]
    /\ faults = 0
    /\ turns = 0

(* ------------------------------ frames -------------------------------- *)

\* The screen is rebuilt from the state.
Frame ==
    /\ painted' = [cards |-> IF phase = "ready" THEN Pending ELSE {}, busy |-> confirming]
    /\ UNCHANGED <<dbVars, gate, uiVars, phase, flow, boundVars>>

\* Two pending cards or more are one bundle, with one pair of buttons.
Bundled == Cardinality(painted.cards) >= 2
Busy ==
    \/ painted.busy = painted.cards
    \/ \E p \in painted.cards : painted.busy = {p}

\* The contact of a bundle is committed before its money.
Earliest(cards) ==
    IF cards \cap ContactCards # {} THEN cards \cap ContactCards ELSE cards

(* ----------------------------- confirming ------------------------------ *)

\* Mutant: the key of the busy card is kept.
ReportKeepsKey(t, p) ==
    /\ confirming' = confirming
    /\ failure' = TRUE
    /\ flow' = [flow EXCEPT ![t].pc = "done", ![t].cur = None, ![t].bad = p]

\* The execution t of a confirm reports the failure of card p.
Report(t, p) ==
    /\ confirming' = {}
    /\ failure' = TRUE
    /\ flow' = [flow EXCEPT ![t].pc = "done", ![t].cur = None, ![t].bad = p]

\* Commit of p by execution t, f being the record of t by then: rejected in
\* flight, or begun under the gate gt.
Begin(t, f, p, gt, key, fail) ==
    \/ /\ p \in gt
       /\ gate' = gt
       /\ confirming' = {}
       /\ failure' = TRUE
       /\ flow' = [flow EXCEPT ![t] = [f EXCEPT !.pc = "done", !.cur = None]]
    \/ /\ p \notin gt
       /\ gate' = gt \cup {p}
       /\ confirming' = key
       /\ failure' = fail
       /\ flow' = [flow EXCEPT ![t] = [f EXCEPT !.pc = "find", !.cur = p]]

\* _bundleContactOverride: the card's own contact, else the threaded one.
Override(ids, thr, p) == IF ids[p] # None THEN ids[p] ELSE thr

\* The loop of confirmCaptureBundle over the cards left in f, those in com
\* being committed and ids being contactIdByProposal.
BundleLoop(t, f, com, ids, gt, key, fail) ==
    LET known == {ids[k] : k \in f.cards \cap com \cap ContactCards} \ {None}
        thr == IF known # {} THEN CHOOSE i \in known : TRUE ELSE f.thr
        todo == f.left \ com
    IN  \/ /\ todo = {}
           /\ gate' = gt
           /\ confirming' = {}
           /\ failure' = fail
           /\ flow' = [flow EXCEPT ![t] = [f EXCEPT !.pc = "done", !.cur = None]]
        \/ \E p \in Earliest(todo) :
             Begin(t, [f EXCEPT !.thr = thr, !.left = todo \ {p},
                                !.to = Override(ids, thr, p),
                                !.new = f.cards \cap ContactCards = {} /\ ids[p] = None],
                   p, gt, key, fail)

\* confirm, on the one card of the frame
TapConfirm(t, p) ==
    /\ flow[t].pc = "idle"
    /\ painted.cards = {p}
    /\ ~Busy
    /\ confirming \in {{}, {p}}
    /\ Begin(t, [IdleFlow EXCEPT !.kind = "one", !.cards = {p}, !.to = contactOf[p],
                                 !.new = contactOf[p] = None],
             p, gate, {p}, IF confirming = {} THEN FALSE ELSE failure)
    /\ UNCHANGED <<dbVars, committed, skipped, contactOf, phase, painted, boundVars>>

\* confirmCaptureBundle, on the bundle of the frame
TapBundle(t) ==
    LET cards == painted.cards
        key == IF confirming = {} THEN cards ELSE confirming
    IN  /\ flow[t].pc = "idle"
        /\ Bundled
        /\ ~Busy
        /\ confirming = {} \/ confirming = cards \/ \E p \in cards : confirming = {p}
        /\ BundleLoop(t, [IdleFlow EXCEPT !.kind = "bundle", !.cards = cards, !.left = cards],
                      committed, contactOf, gate, key,
                      IF confirming = {} THEN FALSE ELSE failure)
        /\ UNCHANGED <<dbVars, committed, skipped, contactOf, phase, painted, boundVars>>

\* A read or a write of the database fails, or a use case refuses.
Fault ==
    /\ faults < MaxFaults
    /\ faults' = faults + 1

\* Mutant: a bundle counts the card that failed.
CommitFailsCounted(t) ==
    /\ flow[t].pc \in {"find", "write", "contactJournal", "journal", "mark"}
    /\ Fault
    /\ Report(t, flow[t].cur)
    /\ gate' = gate \ {flow[t].cur}
    /\ committed' = committed \cup {flow[t].cur}
    /\ UNCHANGED <<dbVars, skipped, contactOf, phase, painted, turns>>

\* The commit of the current card fails, whatever it has written by then.
CommitFails(t) ==
    /\ flow[t].pc \in {"find", "write", "contactJournal", "journal", "mark"}
    /\ Fault
    /\ Report(t, flow[t].cur)
    /\ gate' = gate \ {flow[t].cur}
    /\ UNCHANGED <<dbVars, committed, skipped, contactOf, phase, painted, turns>>

\* The commit of p returned the id of an entity.
Committed(t, id) ==
    LET p == flow[t].cur
        ids == IF flow[t].kind = "bundle" /\ p \in ContactCards
               THEN [q \in Cards |-> IF q = p \/ q \in flow[t].cards \cap MoneyCards
                                     THEN id ELSE contactOf[q]]
               ELSE contactOf
    IN  /\ committed' = committed \cup {p}
        /\ contactOf' = ids
        /\ \/ /\ flow[t].kind = "one"
              /\ gate' = gate \ {p}
              /\ confirming' = {}
              /\ flow' = [flow EXCEPT ![t].pc = "done", ![t].cur = None]
              /\ UNCHANGED failure
           \/ /\ flow[t].kind = "bundle"
              /\ BundleLoop(t, flow[t], committed', ids, gate \ {p}, confirming, failure)

\* Mutant: a committed proposal is committed again.
FindAgain(t) ==
    /\ flow[t].pc = "find"
    /\ flow' = [flow EXCEPT ![t].pc = "write"]
    /\ UNCHANGED <<dbVars, gate, uiVars, phase, painted, boundVars>>

\* findByProposalId: a confirmed turn is a noop, which returns the turn's id.
Find(t) ==
    /\ flow[t].pc = "find"
    /\ \/ /\ turn[flow[t].cur] = "confirmed"
          /\ Committed(t, TurnId)
       \/ /\ turn[flow[t].cur] # "confirmed"
          /\ flow' = [flow EXCEPT ![t].pc = "write"]
          /\ UNCHANGED <<gate, uiVars>>
    /\ UNCHANGED <<dbVars, skipped, phase, painted, boundVars>>

\* The refusal of a write: the name exists, or the contact is not found.
Refuse(t) ==
    /\ Report(t, flow[t].cur)
    /\ gate' = gate \ {flow[t].cur}
    /\ UNCHANGED <<person, txs, committed, skipped, contactOf>>

\* CreateContactUseCase refuses a name that the ledger has.
WriteContact(t) ==
    /\ flow[t].pc = "write"
    /\ flow[t].cur \in ContactCards
    /\ \/ /\ person # None
          /\ Refuse(t)
       \/ /\ person = None
          /\ person' = flow[t].cur
          /\ flow' = [flow EXCEPT ![t].pc = "journal"]
          /\ UNCHANGED <<txs, gate, uiVars>>
    /\ UNCHANGED <<turn, phase, painted, boundVars>>

\* _commitMoney: the contact is the override, else the one of that name, else
\* a new one where the card may create it.
WriteMoney(t) ==
    LET m == flow[t].cur
    IN  /\ flow[t].pc = "write"
        /\ m \in MoneyCards
        /\ \/ /\ flow[t].to = TurnId \/ (person = None /\ ~flow[t].new)
              /\ Refuse(t)
           \/ /\ person = None
              /\ flow[t].new
              /\ person' = m
              /\ flow' = [flow EXCEPT ![t].pc = "contactJournal"]
              /\ UNCHANGED <<txs, gate, uiVars>>
           \/ /\ person # None
              /\ flow[t].to # TurnId
              /\ txs' = txs \cup {[card |-> m, tap |-> t]}
              /\ flow' = [flow EXCEPT ![t].pc = "journal"]
              /\ UNCHANGED <<person, gate, uiVars>>
        /\ UNCHANGED <<turn, phase, painted, boundVars>>

\* The journal row of the contact that _commitMoney created, then its money.
JournalContact(t) ==
    /\ flow[t].pc = "contactJournal"
    /\ flow' = [flow EXCEPT ![t].pc = "write"]
    /\ UNCHANGED <<dbVars, gate, uiVars, phase, painted, boundVars>>

Journal(t) ==
    /\ flow[t].pc = "journal"
    /\ flow' = [flow EXCEPT ![t].pc = "mark"]
    /\ UNCHANGED <<dbVars, gate, uiVars, phase, painted, boundVars>>

\* Mutant: the first card of a bundle confirms the turn of all.
MarkBundle(t) ==
    /\ flow[t].pc = "mark"
    /\ turn' = [p \in Cards |-> IF p \in flow[t].cards THEN "confirmed" ELSE turn[p]]
    /\ Committed(t, person)
    /\ UNCHANGED <<person, txs, skipped, phase, painted, boundVars>>

\* The turn is confirmed; the entity of a contact card is its contact.
Mark(t) ==
    /\ flow[t].pc = "mark"
    /\ turn' = [turn EXCEPT ![flow[t].cur] = "confirmed"]
    /\ Committed(t, person)
    /\ UNCHANGED <<person, txs, skipped, phase, painted, boundVars>>

(* ------------------------------ skipping ------------------------------- *)

\* cancel of p, up to its first await: refused while a confirm is in flight.
BeginCancel(t, f, p) ==
    \/ /\ p \in gate
       /\ failure' = TRUE
       /\ flow' = [flow EXCEPT ![t] = [f EXCEPT !.pc = "done", !.cur = None, !.bad = p]]
    \/ /\ p \notin gate
       /\ flow' = [flow EXCEPT ![t] = [f EXCEPT !.pc = "cancelFind", !.cur = p]]
       /\ UNCHANGED failure

\* The loop of cancelCaptureBundle over the cards left in f.
CancelLoop(t, f, gone) ==
    LET todo == f.left \ gone
    IN  \/ /\ todo = {}
           /\ flow' = [flow EXCEPT ![t] = [f EXCEPT !.pc = "done", !.cur = None]]
           /\ UNCHANGED failure
        \/ \E p \in Earliest(todo) : BeginCancel(t, [f EXCEPT !.left = todo \ {p}], p)

\* Skip, on the card or on the bundle of the frame
TapSkip(t) ==
    LET f == [IdleFlow EXCEPT !.kind = "skip", !.cards = painted.cards]
    IN  /\ flow[t].pc = "idle"
        /\ ~Busy
        /\ \/ /\ ~Bundled
              /\ \E p \in painted.cards : BeginCancel(t, f, p)
           \/ /\ Bundled
              /\ CancelLoop(t, [f EXCEPT !.left = painted.cards], committed \cup skipped)
        /\ UNCHANGED <<dbVars, gate, confirming, committed, skipped, contactOf, phase, painted,
                       boundVars>>

CancelFails(t) ==
    /\ flow[t].pc \in {"cancelFind", "cancelMark"}
    /\ Fault
    /\ failure' = TRUE
    /\ flow' = [flow EXCEPT ![t].pc = "done", ![t].cur = None, ![t].bad = flow[t].cur]
    /\ UNCHANGED <<dbVars, gate, confirming, committed, skipped, contactOf, phase, painted, turns>>

\* The card is skipped; a bundle goes on unless a failure shows.
Cancelled(t) ==
    /\ skipped' = skipped \cup {flow[t].cur}
    /\ \/ /\ failure
          /\ flow' = [flow EXCEPT ![t].pc = "done", ![t].cur = None]
          /\ UNCHANGED failure
       \/ /\ ~failure
          /\ CancelLoop(t, flow[t], committed \cup skipped')

\* findByProposalId: a confirmed proposal is not cancelled.
CancelFind(t) ==
    /\ flow[t].pc = "cancelFind"
    /\ \/ /\ turn[flow[t].cur] = "confirmed"
          /\ failure' = TRUE
          /\ flow' = [flow EXCEPT ![t].pc = "done", ![t].cur = None, ![t].bad = flow[t].cur]
          /\ UNCHANGED skipped
       \/ /\ turn[flow[t].cur] = "skipped"
          /\ Cancelled(t)
       \/ /\ turn[flow[t].cur] = "pending"
          /\ flow' = [flow EXCEPT ![t].pc = "cancelMark"]
          /\ UNCHANGED <<skipped, failure>>
    /\ UNCHANGED <<dbVars, gate, confirming, committed, contactOf, phase, painted, boundVars>>

\* Mutant: the state written is not one of confirm_state.
CancelMarkByVerb(t) ==
    /\ flow[t].pc = "cancelMark"
    /\ turn' = [turn EXCEPT ![flow[t].cur] = "cancelled"]
    /\ Cancelled(t)
    /\ UNCHANGED <<person, txs, gate, confirming, committed, contactOf, phase, painted, boundVars>>

\* updateConfirmState: the turn is skipped.
CancelMark(t) ==
    /\ flow[t].pc = "cancelMark"
    /\ turn' = [turn EXCEPT ![flow[t].cur] = "skipped"]
    /\ Cancelled(t)
    /\ UNCHANGED <<person, txs, gate, confirming, committed, contactOf, phase, painted, boundVars>>

(* ------------------------------ new goals ------------------------------ *)

\* _submitTurn forgets what was committed, skipped and threaded, and the
\* screen shows that a goal is running.
Submit ==
    /\ phase = "ready"
    /\ turns < MaxTurns
    /\ turns' = turns + 1
    /\ phase' = "running"
    /\ committed' = {}
    /\ skipped' = {}
    /\ contactOf' = [p \in Cards |-> None]
    /\ failure' = FALSE
    /\ painted' = [cards |-> {}, busy |-> confirming]
    /\ UNCHANGED <<dbVars, gate, confirming, flow, faults>>

\* _failCloudCall: turnResult is the old one, and its cards show again.
TurnFails ==
    /\ phase = "running"
    /\ phase' = "ready"
    /\ failure' = TRUE
    /\ UNCHANGED <<dbVars, gate, confirming, committed, skipped, contactOf, painted, flow,
                   boundVars>>

\* A new state with new cards; handlers of the old ones go on.
TurnAnswers ==
    /\ phase = "running"
    /\ phase' = "gone"
    /\ confirming' = {}
    /\ committed' = {}
    /\ skipped' = {}
    /\ contactOf' = [p \in Cards |-> None]
    /\ failure' = FALSE
    /\ UNCHANGED <<dbVars, gate, painted, flow, boundVars>>

(* --------------------------- specification ---------------------------- *)

Confirming(t) ==
    \/ \E p \in Cards : TapConfirm(t, p)
    \/ TapBundle(t)
    \/ Find(t) \/ WriteContact(t) \/ WriteMoney(t) \/ JournalContact(t) \/ Journal(t)
    \/ Mark(t) \/ CommitFails(t)

Skipping(t) == TapSkip(t) \/ CancelFind(t) \/ CancelMark(t) \/ CancelFails(t)

Next ==
    \/ Frame
    \/ \E t \in Taps : Confirming(t) \/ Skipping(t)
    \/ Submit \/ TurnFails \/ TurnAnswers

Spec == Init /\ [][Next]_vars

(* ---------------------------- properties ------------------------------ *)

\* The sale of a card is recorded twice only if a confirm of that card
\* reported failure or Skip was tapped on it as well: neither double taps,
\* nor stale frames, nor cards that show again after a failed goal double it
\* (AgentConfirmGate and the noop of a confirmed turn).
TwiceOnlyAfterFailure ==
    \A x, y \in txs : x.card = y.card /\ x # y =>
        \/ flow[x.tap].bad = x.card
        \/ flow[y.tap].bad = y.card
        \/ \E t \in Taps : flow[t].kind = "skip" /\ x.card \in flow[t].cards

\* A card shown as confirmed has been written to the books.
CommittedIsWritten ==
    \A p \in committed :
        IF p \in MoneyCards THEN \E x \in txs : x.card = p ELSE person # None

\* While a confirm key is held, some confirm is under way that will release
\* it: no card stays busy for ever.
BusyHasOwner ==
    confirming # {} =>
        \E t \in Taps : flow[t].kind \in {"one", "bundle"} /\ flow[t].pc # "done"

\* A proposal records its sale at most once (proposalId is its idempotency
\* key; a second confirm makes no second money write).
MoneyOncePerProposal ==
    \A x, y \in txs : x.card = y.card => x = y

\* The capture cards implement what Confirm and Skip promise.  Of
\* ProposalContract, a confirm has failed when its tap told the merchant so.
FailedOnes == {x \in Taps \X Cards : flow[x[1]].kind # "skip" /\ flow[x[1]].bad = x[2]}
SkipTaps == {p \in Cards : \E t \in Taps : flow[t].kind = "skip" /\ p \in flow[t].cards}

Contract == INSTANCE ProposalContract WITH failed <- FailedOnes, skips <- SkipTaps

ProposalContractHolds == Contract!Spec
=============================================================================
