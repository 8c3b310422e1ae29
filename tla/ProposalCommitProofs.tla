------------------------ MODULE ProposalCommitProofs ------------------------
(* What ProposalCommit keeps for any number of cards, taps, failed writes  *)
(* and new goals: one commit of a card at a time, what a confirmed turn    *)
(* says of the books, and when a sale may be in them twice; and that the   *)
(* commit implements ProposalContract.                                     *)
EXTENDS ProposalCommit, TLAPS

(* --------------------------- the invariant ---------------------------- *)

\* Where a confirm is under way: from the gate's acquisition to its release.
ConfirmPc == {"find", "write", "contactJournal", "journal", "mark"}
CancelPc == {"cancelFind", "cancelMark"}

\* What a card asked for is in the books.
Written(p) == IF p \in MoneyCards THEN \E x \in txs : x.card = p ELSE person # None

\* Skip was tapped on a frame that showed card p.
SkipTapped(p) == \E t \in Taps : flow[t].kind = "skip" /\ p \in flow[t].cards

\* The record of one tap: a handler works on cards of the frame it was tapped
\* on, past findByProposalId only while the turn is not confirmed, and past
\* its transaction only with the books written.
FlowShape(t) ==
    /\ flow[t].left \subseteq flow[t].cards
    /\ flow[t].pc = "idle" => flow[t].kind = "none"
    /\ flow[t].pc \in ConfirmPc =>
          flow[t].kind \in {"one", "bundle"} /\ flow[t].cur \in flow[t].cards
    /\ flow[t].pc \in CancelPc => flow[t].kind = "skip" /\ flow[t].cur \in flow[t].cards
    /\ flow[t].bad # None => flow[t].pc = "done"
    /\ flow[t].pc \in {"journal", "mark"} => Written(flow[t].cur)
    /\ flow[t].pc \in ConfirmPc \ {"find"} => turn[flow[t].cur] # "confirmed"
ShapeOK == \A t \in Taps : FlowShape(t)

\* AgentConfirmGate: a confirm under way holds its card, and no other confirm
\* under way is about that card.
SingleFlight ==
    \A t \in Taps : flow[t].pc \in ConfirmPc =>
        /\ flow[t].cur \in gate
        /\ \A u \in Taps \ {t} : flow[u].pc \in ConfirmPc => flow[u].cur # flow[t].cur

\* A card is locked only by a confirm under way.
GateHasOwner ==
    \A p \in gate : \E t \in Taps : flow[t].pc \in ConfirmPc /\ flow[t].cur = p

ConfirmedIsWritten == \A p \in Cards : turn[p] = "confirmed" => Written(p)

\* A sale in the books: its turn is confirmed or about to be, or the merchant
\* was told that the confirm failed, or tapped Skip as well.
Excused(x) == flow[x.tap].bad = x.card \/ SkipTapped(x.card)
SaleOK(x) ==
    \/ Excused(x)
    \/ turn[x.card] = "confirmed"
    \/ flow[x.tap].pc \in {"journal", "mark"} /\ flow[x.tap].cur = x.card
SalesOK == \A x \in txs : SaleOK(x)

(* ------------------------- effects of handlers ------------------------- *)

\* Execution t goes on from record f: it is over, or it begins the commit of
\* a card of ps that gt does not hold.
Goes(t, f, ps, gt, key) ==
    \E r \in Flow :
        /\ flow' = [flow EXCEPT ![t] = r]
        /\ r.kind = f.kind /\ r.cards = f.cards /\ r.left \subseteq f.left /\ r.bad = f.bad
        /\ \/ r.pc = "done" /\ gate' = gt /\ confirming' = {}
           \/ /\ r.pc = "find" /\ r.cur \in ps \ gt
              /\ gate' = gt \cup {r.cur} /\ confirming' = key

LEMMA BeginGoes ==
  ASSUME NEW t \in Taps, NEW f \in Flow, NEW ps \in SUBSET Cards, NEW p \in ps,
         NEW gt, NEW key, NEW fail \in BOOLEAN, Begin(t, f, p, gt, key, fail)
  PROVE  Goes(t, f, ps, gt, key) /\ failure' \in BOOLEAN
<1>1. CASE p \in gt
  <2> DEFINE r == [f EXCEPT !.pc = "done", !.cur = None]
  <2>1. /\ flow' = [flow EXCEPT ![t] = r]
        /\ gate' = gt /\ confirming' = {} /\ failure' = TRUE
    BY <1>1 DEF Begin
  <2>2. /\ r \in Flow /\ r.pc = "done" /\ r.kind = f.kind /\ r.cards = f.cards
        /\ r.left = f.left /\ r.bad = f.bad
    BY DEF Flow
  <2> HIDE DEF r
  <2> QED
    BY <2>1, <2>2 DEF Goes
<1>2. CASE p \notin gt
  <2> DEFINE r == [f EXCEPT !.pc = "find", !.cur = p]
  <2>1. /\ flow' = [flow EXCEPT ![t] = r]
        /\ gate' = gt \cup {p} /\ confirming' = key /\ failure' = fail
    BY <1>2 DEF Begin
  <2>2. /\ r \in Flow /\ r.pc = "find" /\ r.cur = p /\ r.kind = f.kind /\ r.cards = f.cards
        /\ r.left = f.left /\ r.bad = f.bad
    BY DEF Flow
  <2> HIDE DEF r
  <2> QED
    BY <1>2, <2>1, <2>2 DEF Goes
<1> QED
  BY <1>1, <1>2

\* _bundleContactOverride and the threaded contact are ids.
LEMMA BundleGoes ==
  ASSUME NEW t \in Taps, NEW f \in Flow, NEW com, NEW ids \in [Cards -> Id],
         NEW gt, NEW key, NEW fail \in BOOLEAN, BundleLoop(t, f, com, ids, gt, key, fail)
  PROVE  Goes(t, f, f.left, gt, key) /\ failure' \in BOOLEAN
<1> DEFINE known == {ids[k] : k \in f.cards \cap com \cap ContactCards} \ {None}
<1> DEFINE thr == IF known # {} THEN CHOOSE i \in known : TRUE ELSE f.thr
<1> DEFINE todo == f.left \ com
<1>1. thr \in Id
  <2>1. known \subseteq Id
    BY DEF Flow, Cards
  <2>2. f.thr \in Id
    BY DEF Flow
  <2> HIDE DEF known
  <2>3. known # {} => (CHOOSE i \in known : TRUE) \in known
    OBVIOUS
  <2> QED
    BY <2>1, <2>2, <2>3
<1>2. f.left \subseteq Cards
  BY DEF Flow
<1>3. CASE todo = {} /\ gate' = gt /\ confirming' = {} /\ failure' = fail
            /\ flow' = [flow EXCEPT ![t] = [f EXCEPT !.pc = "done", !.cur = None]]
  <2> DEFINE r == [f EXCEPT !.pc = "done", !.cur = None]
  <2>1. /\ r \in Flow /\ r.pc = "done" /\ r.kind = f.kind /\ r.cards = f.cards
        /\ r.left = f.left /\ r.bad = f.bad
    BY DEF Flow
  <2>2. flow' = [flow EXCEPT ![t] = r]
    BY <1>3
  <2> HIDE DEF r
  <2> QED
    BY <1>3, <2>1, <2>2 DEF Goes
<1>4. ASSUME NEW p \in Earliest(todo),
             Begin(t, [f EXCEPT !.thr = thr, !.left = todo \ {p},
                                !.to = Override(ids, thr, p),
                                !.new = f.cards \cap ContactCards = {} /\ ids[p] = None],
                   p, gt, key, fail)
      PROVE  Goes(t, f, f.left, gt, key) /\ failure' \in BOOLEAN
  <2> DEFINE new == f.cards \cap ContactCards = {} /\ ids[p] = None
  <2> DEFINE to == Override(ids, thr, p)
  <2> DEFINE g == [f EXCEPT !.thr = thr, !.left = todo \ {p}, !.to = to, !.new = new]
  <2>1. p \in f.left /\ todo \ {p} \subseteq f.left
    BY DEF Earliest
  <2>2. to \in Id /\ new \in BOOLEAN
    BY <1>1, <1>2, <2>1 DEF Override
  <2>3. Begin(t, g, p, gt, key, fail)
    BY <1>4
  <2> HIDE DEF to, new, thr, todo
  <2>4. /\ g \in Flow /\ g.kind = f.kind /\ g.cards = f.cards /\ g.bad = f.bad
        /\ g.left = todo \ {p}
    BY <1>1, <1>2, <2>1, <2>2 DEF Flow
  <2> HIDE DEF g
  <2>5. Goes(t, g, f.left, gt, key) /\ failure' \in BOOLEAN
    BY <1>2, <2>1, <2>3, <2>4, BeginGoes
  <2> QED
    BY <2>1, <2>4, <2>5 DEF Goes
<1> QED
  BY <1>3, <1>4 DEF BundleLoop

\* The end of a commit: the card is released, and the bundle goes on.
LEMMA CommittedGoes ==
  ASSUME TypeOK, ShapeOK, NEW t \in Taps, flow[t].pc \in ConfirmPc, NEW id \in Id,
         Committed(t, id)
  PROVE  /\ Goes(t, flow[t], flow[t].cards, gate \ {flow[t].cur}, confirming)
         /\ committed' = committed \cup {flow[t].cur}
         /\ contactOf' \in [Cards -> Id]
         /\ failure' \in BOOLEAN
<1> DEFINE p == flow[t].cur
<1> DEFINE ids == IF flow[t].kind = "bundle" /\ p \in ContactCards
                  THEN [q \in Cards |-> IF q = p \/ q \in flow[t].cards \cap MoneyCards
                                        THEN id ELSE contactOf[q]]
                  ELSE contactOf
<1>1. /\ flow[t] \in Flow /\ contactOf \in [Cards -> Id] /\ failure \in BOOLEAN
      /\ flow[t].left \subseteq flow[t].cards
  BY DEF TypeOK, ShapeOK, FlowShape
<1>2. ids \in [Cards -> Id]
  BY <1>1
<1>3. /\ committed' = committed \cup {p}
      /\ contactOf' = ids
      /\ \/ /\ gate' = gate \ {p} /\ confirming' = {} /\ UNCHANGED failure
            /\ flow' = [flow EXCEPT ![t].pc = "done", ![t].cur = None]
         \/ BundleLoop(t, flow[t], committed', ids, gate \ {p}, confirming, failure)
  BY DEF Committed
<1>4. CASE /\ gate' = gate \ {p} /\ confirming' = {} /\ UNCHANGED failure
           /\ flow' = [flow EXCEPT ![t].pc = "done", ![t].cur = None]
  <2> DEFINE r == [flow[t] EXCEPT !.pc = "done", !.cur = None]
  <2>1. /\ r \in Flow /\ r.pc = "done" /\ r.kind = flow[t].kind /\ r.cards = flow[t].cards
        /\ r.left = flow[t].left /\ r.bad = flow[t].bad
    BY <1>1 DEF Flow
  <2>2. flow' = [flow EXCEPT ![t] = r]
    BY <1>4 DEF TypeOK
  <2> HIDE DEF r
  <2>3. Goes(t, flow[t], flow[t].cards, gate \ {p}, confirming)
    BY <1>4, <2>1, <2>2 DEF Goes
  <2> QED
    BY <1>1, <1>2, <1>3, <1>4, <2>3
<1>5. CASE BundleLoop(t, flow[t], committed', ids, gate \ {p}, confirming, failure)
  <2> HIDE DEF ids, p
  <2>1. Goes(t, flow[t], flow[t].left, gate \ {p}, confirming) /\ failure' \in BOOLEAN
    BY <1>1, <1>2, <1>5, BundleGoes
  <2>2. Goes(t, flow[t], flow[t].cards, gate \ {p}, confirming)
    BY <1>1, <2>1 DEF Goes
  <2> QED
    BY <1>2, <1>3, <2>1, <2>2 DEF p
<1> QED
  BY <1>3, <1>4, <1>5

(* ----------------- the steps, as the invariant sees them ---------------- *)

\* A tap of Confirm.
Starts(t) ==
    /\ flow[t].pc = "idle"
    /\ \E f \in Flow, key \in SUBSET Cards :
         /\ f.kind \in {"one", "bundle"} /\ f.left \subseteq f.cards /\ f.bad = None
         /\ Goes(t, f, f.cards, gate, key)
    /\ UNCHANGED <<turn, person, txs, committed>>

\* The commit of a card returns: the turn was confirmed, or is now.
Returns(t) ==
    /\ Goes(t, flow[t], flow[t].cards, gate \ {flow[t].cur}, confirming)
    /\ committed' = committed \cup {flow[t].cur}
    /\ UNCHANGED <<person, txs>>
    /\ \/ flow[t].pc = "find" /\ turn[flow[t].cur] = "confirmed" /\ turn' = turn
       \/ flow[t].pc = "mark" /\ turn' = [turn EXCEPT ![flow[t].cur] = "confirmed"]

\* A commit goes from one transaction to the next.
Moves(t, q) ==
    /\ flow' = [flow EXCEPT ![t].pc = q]
    /\ UNCHANGED <<turn, gate, confirming, committed>>
    /\ \/ /\ flow[t].pc = "find" /\ q = "write" /\ turn[flow[t].cur] # "confirmed"
          /\ UNCHANGED <<person, txs>>
       \/ /\ flow[t].pc = "contactJournal" /\ q = "write"
          /\ UNCHANGED <<person, txs>>
       \/ /\ flow[t].pc = "journal" /\ q = "mark"
          /\ UNCHANGED <<person, txs>>
       \/ /\ flow[t].pc = "write" /\ person = None /\ person' = flow[t].cur /\ txs' = txs
          /\ \/ q = "journal" /\ flow[t].cur \in ContactCards
             \/ q = "contactJournal" /\ flow[t].cur \in MoneyCards
       \/ /\ flow[t].pc = "write" /\ q = "journal" /\ flow[t].cur \in MoneyCards
          /\ person # None /\ person' = person
          /\ txs' = txs \cup {[card |-> flow[t].cur, tap |-> t]}

\* A commit ends in a failure that is reported.
Reports(t) ==
    /\ flow[t].pc \in ConfirmPc
    /\ flow' = [flow EXCEPT ![t].pc = "done", ![t].cur = None, ![t].bad = flow[t].cur]
    /\ gate' = gate \ {flow[t].cur}
    /\ confirming' = {}
    /\ UNCHANGED <<turn, person, txs, committed>>

Commits(t) ==
    Starts(t) \/ Returns(t) \/ Reports(t) \/ \E q \in ConfirmPc \ {"find"} : Moves(t, q)

\* A step of Skip.
Skips(t) ==
    /\ \E r \in Flow :
         /\ flow' = [flow EXCEPT ![t] = r]
         /\ r.kind = "skip" /\ r.left \subseteq r.cards
         /\ r.pc \in CancelPc \cup {"done"}
         /\ r.pc \in CancelPc => r.cur \in r.cards /\ r.bad = None
         /\ flow[t].pc = "idle" \/ (flow[t].pc \in CancelPc /\ r.cards = flow[t].cards)
    /\ UNCHANGED <<gate, confirming, committed, person, txs>>
    /\ \/ turn' = turn
       \/ flow[t].pc = "cancelMark" /\ turn' = [turn EXCEPT ![flow[t].cur] = "skipped"]

\* Frames and new goals.
Repaints ==
    /\ UNCHANGED <<flow, gate, turn, person, txs>>
    /\ confirming' \in {confirming, {}}
    /\ committed' \subseteq committed

\* The types of what the invariant does not read.
SideTypes ==
    /\ confirming \subseteq Cards
    /\ skipped \subseteq Cards
    /\ contactOf \in [Cards -> Id]
    /\ failure \in BOOLEAN
    /\ phase \in {"ready", "running", "gone"}
    /\ painted \in [cards: SUBSET Cards, busy: SUBSET Cards]
    /\ faults \in 0..MaxFaults
    /\ turns \in 0..MaxTurns

\* What Goes leaves of the busy key.
LEMMA GoesKey ==
  ASSUME NEW t, NEW f, NEW ps, NEW gt, NEW key \in SUBSET Cards, Goes(t, f, ps, gt, key)
  PROVE  confirming' \subseteq Cards
BY DEF Goes

LEMMA TapEffects ==
  ASSUME TypeOK, NEW t \in Taps, TapBundle(t) \/ \E p \in Cards : TapConfirm(t, p)
  PROVE  Commits(t) /\ SideTypes'
<1>0. /\ painted.cards \subseteq Cards /\ confirming \subseteq Cards
      /\ contactOf \in [Cards -> Id] /\ failure \in BOOLEAN
  BY DEF TypeOK
<1>1. ASSUME NEW p \in Cards, TapConfirm(t, p) PROVE Commits(t) /\ SideTypes'
  <2> DEFINE new == contactOf[p] = None
  <2> DEFINE f == [IdleFlow EXCEPT !.kind = "one", !.cards = {p}, !.to = contactOf[p], !.new = new]
  <2> DEFINE fail == IF confirming = {} THEN FALSE ELSE failure
  <2>1. /\ flow[t].pc = "idle" /\ Begin(t, f, p, gate, {p}, fail)
        /\ UNCHANGED <<dbVars, committed, skipped, contactOf, phase, painted, boundVars>>
    BY <1>1 DEF TapConfirm
  <2>2. fail \in BOOLEAN /\ new \in BOOLEAN /\ contactOf[p] \in Id
    BY <1>0
  <2> HIDE DEF new
  <2>3. f \in Flow /\ f.kind = "one" /\ f.left = {} /\ f.cards = {p} /\ f.bad = None
    BY <2>2 DEF IdleFlow, Flow, Id
  <2> HIDE DEF f, fail
  <2>4. Goes(t, f, f.cards, gate, {p}) /\ failure' \in BOOLEAN
    BY <2>1, <2>2, <2>3, BeginGoes
  <2>5. Starts(t)
    BY <2>1, <2>3, <2>4 DEF Starts, dbVars
  <2>6. SideTypes'
    BY <2>1, <2>4, GoesKey DEF SideTypes, TypeOK, boundVars
  <2> QED
    BY <2>5, <2>6 DEF Commits
<1>2. CASE TapBundle(t)
  <2> DEFINE cards == painted.cards
  <2> DEFINE key == IF confirming = {} THEN cards ELSE confirming
  <2> DEFINE f == [IdleFlow EXCEPT !.kind = "bundle", !.cards = cards, !.left = cards]
  <2> DEFINE fail == IF confirming = {} THEN FALSE ELSE failure
  <2>1. /\ flow[t].pc = "idle"
        /\ BundleLoop(t, f, committed, contactOf, gate, key, fail)
        /\ UNCHANGED <<dbVars, committed, skipped, contactOf, phase, painted, boundVars>>
    BY <1>2 DEF TapBundle
  <2>2. fail \in BOOLEAN /\ key \subseteq Cards
    BY <1>0
  <2>3. f \in Flow /\ f.kind = "bundle" /\ f.left = cards /\ f.cards = cards /\ f.bad = None
    BY <1>0 DEF IdleFlow, Flow, Id
  <2> HIDE DEF f, fail, key
  <2>4. Goes(t, f, f.cards, gate, key) /\ failure' \in BOOLEAN
    BY <1>0, <2>1, <2>2, <2>3, BundleGoes
  <2>5. Starts(t)
    BY <2>1, <2>2, <2>3, <2>4 DEF Starts, dbVars
  <2>6. SideTypes'
    BY <2>1, <2>2, <2>4, GoesKey DEF SideTypes, TypeOK, boundVars
  <2> QED
    BY <2>5, <2>6 DEF Commits
<1> QED
  BY <1>1, <1>2

LEMMA CommitEffects ==
  ASSUME TypeOK, ShapeOK, NEW t \in Taps, Confirming(t)
  PROVE  Commits(t) /\ SideTypes'
<1>0. /\ flow[t] \in Flow /\ confirming \subseteq Cards /\ FlowShape(t)
      /\ person \in Id /\ TurnId \in Id
  BY DEF TypeOK, ShapeOK, Id
<1>1. SideTypes
  BY DEF SideTypes, TypeOK
<1>2. ASSUME Fault PROVE faults' \in 0..MaxFaults
  BY <1>1, <1>2, Bounds DEF Fault, SideTypes
<1>3. CASE Find(t)
  <2>1. /\ flow[t].pc = "find"
        /\ UNCHANGED <<turn, person, txs, skipped, phase, painted, faults, turns>>
    BY <1>3 DEF Find, dbVars, boundVars
  <2>2. CASE turn[flow[t].cur] = "confirmed" /\ Committed(t, TurnId)
    <3>1. /\ Goes(t, flow[t], flow[t].cards, gate \ {flow[t].cur}, confirming)
          /\ committed' = committed \cup {flow[t].cur}
          /\ contactOf' \in [Cards -> Id]
          /\ failure' \in BOOLEAN
      BY <1>0, <2>1, <2>2, CommittedGoes DEF ConfirmPc
    <3>2. Returns(t)
      BY <2>1, <2>2, <3>1 DEF Returns
    <3>3. confirming' \subseteq Cards
      BY <1>0, <3>1, GoesKey
    <3>4. SideTypes'
      BY <1>1, <2>1, <3>1, <3>3 DEF SideTypes
    <3> QED
      BY <3>2, <3>4 DEF Commits
  <2>3. CASE /\ turn[flow[t].cur] # "confirmed" /\ flow' = [flow EXCEPT ![t].pc = "write"]
             /\ UNCHANGED <<gate, uiVars>>
    <3>1. Moves(t, "write")
      BY <2>1, <2>3 DEF Moves, uiVars
    <3>2. SideTypes'
      BY <1>1, <2>1, <2>3 DEF SideTypes, uiVars
    <3> QED
      BY <3>1, <3>2 DEF Commits, ConfirmPc
  <2> QED
    BY <1>3, <2>2, <2>3 DEF Find
<1>4. ASSUME flow[t].pc = "write", Refuse(t), UNCHANGED <<turn, phase, painted, boundVars>>
      PROVE  Commits(t) /\ SideTypes'
  <2>1. Reports(t)
    BY <1>4 DEF Refuse, Report, Reports, ConfirmPc
  <2>2. SideTypes'
    BY <1>1, <1>4 DEF Refuse, Report, SideTypes, boundVars
  <2> QED
    BY <2>1, <2>2 DEF Commits
<1>5. CASE WriteContact(t)
  <2>1. CASE Refuse(t)
    BY <1>4, <1>5, <2>1 DEF WriteContact
  <2>2. CASE person = None /\ person' = flow[t].cur /\ flow' = [flow EXCEPT ![t].pc = "journal"]
             /\ UNCHANGED <<txs, gate, uiVars>>
    <3>1. Moves(t, "journal")
      BY <1>5, <2>2 DEF WriteContact, Moves, uiVars
    <3>2. SideTypes'
      BY <1>1, <1>5, <2>2 DEF WriteContact, SideTypes, uiVars, boundVars
    <3> QED
      BY <3>1, <3>2 DEF Commits, ConfirmPc
  <2> QED
    BY <1>5, <2>1, <2>2 DEF WriteContact
<1>6. CASE WriteMoney(t)
  <2>1. CASE Refuse(t)
    BY <1>4, <1>6, <2>1 DEF WriteMoney
  <2>2. CASE /\ person = None /\ person' = flow[t].cur
             /\ flow' = [flow EXCEPT ![t].pc = "contactJournal"]
             /\ UNCHANGED <<txs, gate, uiVars>>
    <3>1. Moves(t, "contactJournal")
      BY <1>6, <2>2 DEF WriteMoney, Moves, uiVars
    <3>2. SideTypes'
      BY <1>1, <1>6, <2>2 DEF WriteMoney, SideTypes, uiVars, boundVars
    <3> QED
      BY <3>1, <3>2 DEF Commits, ConfirmPc
  <2>3. CASE /\ person # None /\ txs' = txs \cup {[card |-> flow[t].cur, tap |-> t]}
             /\ flow' = [flow EXCEPT ![t].pc = "journal"]
             /\ UNCHANGED <<person, gate, uiVars>>
    <3>1. Moves(t, "journal")
      BY <1>6, <2>3 DEF WriteMoney, Moves, uiVars
    <3>2. SideTypes'
      BY <1>1, <1>6, <2>3 DEF WriteMoney, SideTypes, uiVars, boundVars
    <3> QED
      BY <3>1, <3>2 DEF Commits, ConfirmPc
  <2> QED
    BY <1>6, <2>1, <2>2, <2>3 DEF WriteMoney
<1>7. CASE JournalContact(t)
  <2>1. Moves(t, "write")
    BY <1>7 DEF JournalContact, Moves, dbVars, uiVars
  <2>2. SideTypes'
    BY <1>1, <1>7 DEF JournalContact, SideTypes, uiVars, boundVars
  <2> QED
    BY <2>1, <2>2 DEF Commits, ConfirmPc
<1>8. CASE Journal(t)
  <2>1. Moves(t, "mark")
    BY <1>8 DEF Journal, Moves, dbVars, uiVars
  <2>2. SideTypes'
    BY <1>1, <1>8 DEF Journal, SideTypes, uiVars, boundVars
  <2> QED
    BY <2>1, <2>2 DEF Commits, ConfirmPc
<1>9. CASE Mark(t)
  <2>1. /\ flow[t].pc = "mark" /\ turn' = [turn EXCEPT ![flow[t].cur] = "confirmed"]
        /\ Committed(t, person)
        /\ UNCHANGED <<person, txs, skipped, phase, painted, faults, turns>>
    BY <1>9 DEF Mark, boundVars
  <2>2. /\ Goes(t, flow[t], flow[t].cards, gate \ {flow[t].cur}, confirming)
        /\ committed' = committed \cup {flow[t].cur}
        /\ contactOf' \in [Cards -> Id]
        /\ failure' \in BOOLEAN
    BY <1>0, <2>1, CommittedGoes DEF ConfirmPc
  <2>3. Returns(t)
    BY <2>1, <2>2 DEF Returns
  <2>4. confirming' \subseteq Cards
    BY <1>0, <2>2, GoesKey
  <2>5. SideTypes'
    BY <1>1, <2>1, <2>2, <2>4 DEF SideTypes
  <2> QED
    BY <2>3, <2>5 DEF Commits
<1>10. CASE CommitFails(t)
  <2>1. Reports(t)
    BY <1>10 DEF CommitFails, Report, Reports, ConfirmPc, dbVars
  <2>2. SideTypes'
    BY <1>1, <1>2, <1>10 DEF CommitFails, Report, SideTypes
  <2> QED
    BY <2>1, <2>2 DEF Commits
<1> QED
  BY <1>3, <1>5, <1>6, <1>7, <1>8, <1>9, <1>10, TapEffects DEF Confirming

(* The loop of cancelCaptureBundle, and the cancel it begins. *)

Cancels(t, f, ps) ==
    \E r \in Flow :
        /\ flow' = [flow EXCEPT ![t] = r]
        /\ r.kind = f.kind /\ r.cards = f.cards /\ r.left \subseteq f.left
        /\ \/ r.pc = "done"
           \/ r.pc = "cancelFind" /\ r.cur \in ps /\ r.bad = f.bad

LEMMA BeginCancels ==
  ASSUME NEW t \in Taps, NEW f \in Flow, NEW ps \in SUBSET Cards, NEW p \in ps,
         failure \in BOOLEAN, BeginCancel(t, f, p)
  PROVE  Cancels(t, f, ps) /\ failure' \in BOOLEAN
<1>1. CASE p \in gate
  <2> DEFINE r == [f EXCEPT !.pc = "done", !.cur = None, !.bad = p]
  <2>1. flow' = [flow EXCEPT ![t] = r] /\ failure' = TRUE
    BY <1>1 DEF BeginCancel
  <2>2. r \in Flow /\ r.pc = "done" /\ r.kind = f.kind /\ r.cards = f.cards /\ r.left = f.left
    BY DEF Flow
  <2> HIDE DEF r
  <2> QED
    BY <2>1, <2>2 DEF Cancels
<1>2. CASE p \notin gate
  <2> DEFINE r == [f EXCEPT !.pc = "cancelFind", !.cur = p]
  <2>1. flow' = [flow EXCEPT ![t] = r] /\ UNCHANGED failure
    BY <1>2 DEF BeginCancel
  <2>2. /\ r \in Flow /\ r.pc = "cancelFind" /\ r.cur = p /\ r.kind = f.kind
        /\ r.cards = f.cards /\ r.left = f.left /\ r.bad = f.bad
    BY DEF Flow
  <2> HIDE DEF r
  <2> QED
    BY <2>1, <2>2 DEF Cancels
<1> QED
  BY <1>1, <1>2

LEMMA LoopCancels ==
  ASSUME NEW t \in Taps, NEW f \in Flow, NEW gone, failure \in BOOLEAN, CancelLoop(t, f, gone)
  PROVE  Cancels(t, f, f.left) /\ failure' \in BOOLEAN
<1> DEFINE todo == f.left \ gone
<1>1. f.left \subseteq Cards
  BY DEF Flow
<1>2. CASE flow' = [flow EXCEPT ![t] = [f EXCEPT !.pc = "done", !.cur = None]] /\ UNCHANGED failure
  <2> DEFINE r == [f EXCEPT !.pc = "done", !.cur = None]
  <2>1. r \in Flow /\ r.pc = "done" /\ r.kind = f.kind /\ r.cards = f.cards /\ r.left = f.left
    BY DEF Flow
  <2>2. flow' = [flow EXCEPT ![t] = r]
    BY <1>2
  <2> HIDE DEF r
  <2> QED
    BY <1>2, <2>1, <2>2 DEF Cancels
<1>3. ASSUME NEW p \in Earliest(todo), BeginCancel(t, [f EXCEPT !.left = todo \ {p}], p)
      PROVE  Cancels(t, f, f.left) /\ failure' \in BOOLEAN
  <2> DEFINE g == [f EXCEPT !.left = todo \ {p}]
  <2>1. p \in f.left /\ todo \ {p} \subseteq f.left
    BY DEF Earliest
  <2>2. /\ g \in Flow /\ g.kind = f.kind /\ g.cards = f.cards /\ g.bad = f.bad
        /\ g.left = todo \ {p}
    BY <1>1 DEF Flow
  <2>3. BeginCancel(t, g, p)
    BY <1>3
  <2> HIDE DEF g
  <2>4. Cancels(t, g, f.left) /\ failure' \in BOOLEAN
    BY <1>1, <2>1, <2>2, <2>3, BeginCancels
  <2> QED
    BY <2>1, <2>2, <2>4 DEF Cancels
<1> QED
  BY <1>2, <1>3 DEF CancelLoop

\* The record of a tap of Skip after one of its steps.
SkipRecord(t) ==
    \E r \in Flow :
        /\ flow' = [flow EXCEPT ![t] = r]
        /\ r.kind = "skip" /\ r.left \subseteq r.cards
        /\ r.pc \in CancelPc \cup {"done"}
        /\ r.pc \in CancelPc => r.cur \in r.cards /\ r.bad = None
        /\ flow[t].pc = "idle" \/ (flow[t].pc \in CancelPc /\ r.cards = flow[t].cards)

LEMMA CancelsRecord ==
  ASSUME NEW t \in Taps, NEW f \in Flow, f.kind = "skip", f.left \subseteq f.cards, f.bad = None,
         Cancels(t, f, f.left) \/ Cancels(t, f, f.cards),
         flow[t].pc = "idle" \/ (flow[t].pc \in CancelPc /\ f.cards = flow[t].cards)
  PROVE  SkipRecord(t)
BY DEF Cancels, SkipRecord, CancelPc

LEMMA CancelledEffect ==
  ASSUME TypeOK, ShapeOK, NEW t \in Taps, flow[t].pc \in CancelPc, Cancelled(t)
  PROVE  SkipRecord(t) /\ failure' \in BOOLEAN /\ skipped' \subseteq Cards
<1>0. /\ flow[t] \in Flow /\ failure \in BOOLEAN /\ skipped \subseteq Cards
      /\ flow[t].left \subseteq flow[t].cards /\ flow[t].kind = "skip"
      /\ flow[t].cur \in flow[t].cards /\ flow[t].bad = None
  BY DEF TypeOK, ShapeOK, FlowShape, CancelPc
<1>1. skipped' \subseteq Cards
  BY <1>0 DEF Cancelled, Flow
<1>2. CASE flow' = [flow EXCEPT ![t].pc = "done", ![t].cur = None] /\ UNCHANGED failure
  <2> DEFINE r == [flow[t] EXCEPT !.pc = "done", !.cur = None]
  <2>1. /\ r \in Flow /\ r.pc = "done" /\ r.kind = "skip" /\ r.cards = flow[t].cards
        /\ r.left = flow[t].left
    BY <1>0 DEF Flow
  <2>2. flow' = [flow EXCEPT ![t] = r]
    BY <1>2 DEF TypeOK
  <2> HIDE DEF r
  <2>3. SkipRecord(t)
    BY <1>0, <2>1, <2>2 DEF SkipRecord, CancelPc
  <2> QED
    BY <1>0, <1>1, <1>2, <2>3
<1>3. CASE CancelLoop(t, flow[t], committed \cup skipped')
  <2>1. Cancels(t, flow[t], flow[t].left) /\ failure' \in BOOLEAN
    BY <1>0, <1>3, LoopCancels
  <2>2. SkipRecord(t)
    BY <1>0, <2>1, CancelsRecord
  <2> QED
    BY <1>1, <2>1, <2>2
<1> QED
  BY <1>2, <1>3 DEF Cancelled

LEMMA SkipEffects ==
  ASSUME TypeOK, ShapeOK, NEW t \in Taps, Skipping(t)
  PROVE  Skips(t) /\ SideTypes'
<1>0. /\ SideTypes /\ flow[t] \in Flow /\ FlowShape(t) /\ failure \in BOOLEAN
      /\ painted.cards \subseteq Cards
  BY DEF SideTypes, TypeOK, ShapeOK
<1>1. ASSUME SkipRecord(t), UNCHANGED <<gate, confirming, committed, person, txs, contactOf,
                                        phase, painted, turns>>,
             \/ turn' = turn
             \/ flow[t].pc = "cancelMark" /\ turn' = [turn EXCEPT ![flow[t].cur] = "skipped"],
             failure' \in BOOLEAN, skipped' \subseteq Cards, faults' \in 0..MaxFaults
      PROVE  Skips(t) /\ SideTypes'
  BY <1>0, <1>1 DEF SkipRecord, Skips, SideTypes
<1>2. ASSUME flow[t].pc \in CancelPc, failure' = TRUE,
             flow' = [flow EXCEPT ![t].pc = "done", ![t].cur = None, ![t].bad = flow[t].cur]
      PROVE  SkipRecord(t)
  <2> DEFINE r == [flow[t] EXCEPT !.pc = "done", !.cur = None, !.bad = flow[t].cur]
  <2>1. /\ r \in Flow /\ r.pc = "done" /\ r.kind = flow[t].kind /\ r.cards = flow[t].cards
        /\ r.left = flow[t].left
    BY <1>0 DEF Flow
  <2>2. flow' = [flow EXCEPT ![t] = r]
    BY <1>2 DEF TypeOK
  <2> HIDE DEF r
  <2> QED
    BY <1>0, <1>2, <2>1, <2>2 DEF SkipRecord, CancelPc, FlowShape
<1>3. CASE TapSkip(t)
  <2> DEFINE f == [IdleFlow EXCEPT !.kind = "skip", !.cards = painted.cards]
  <2> DEFINE g == [f EXCEPT !.left = painted.cards]
  <2>1. /\ flow[t].pc = "idle"
        /\ \/ \E p \in painted.cards : BeginCancel(t, f, p)
           \/ CancelLoop(t, g, committed \cup skipped)
        /\ UNCHANGED <<dbVars, gate, confirming, committed, skipped, contactOf, phase, painted,
                       boundVars>>
    BY <1>3 DEF TapSkip
  <2>2. /\ f \in Flow /\ f.kind = "skip" /\ f.cards = painted.cards /\ f.left = {} /\ f.bad = None
        /\ g \in Flow /\ g.kind = "skip" /\ g.cards = painted.cards /\ g.left = painted.cards
        /\ g.bad = None
    BY <1>0 DEF IdleFlow, Flow, Id
  <2> HIDE DEF f, g
  <2>3. SkipRecord(t) /\ failure' \in BOOLEAN
    <3>1. CASE \E p \in painted.cards : BeginCancel(t, f, p)
      <4>1. Cancels(t, f, f.cards) /\ failure' \in BOOLEAN
        BY <1>0, <2>2, <3>1, BeginCancels
      <4> QED
        BY <2>1, <2>2, <4>1, CancelsRecord
    <3>2. CASE CancelLoop(t, g, committed \cup skipped)
      <4>1. Cancels(t, g, g.left) /\ failure' \in BOOLEAN
        BY <1>0, <2>2, <3>2, LoopCancels
      <4> QED
        BY <2>1, <2>2, <4>1, CancelsRecord
    <3> QED
      BY <2>1, <3>1, <3>2
  <2> QED
    BY <1>0, <1>1, <2>1, <2>3 DEF dbVars, boundVars, SideTypes
<1>4. CASE CancelFind(t)
  <2>1. /\ flow[t].pc = "cancelFind"
        /\ UNCHANGED <<turn, person, txs, gate, confirming, committed, contactOf, phase, painted,
                       faults, turns>>
    BY <1>4 DEF CancelFind, dbVars, boundVars
  <2>2. SkipRecord(t) /\ failure' \in BOOLEAN /\ skipped' \subseteq Cards
    <3>1. CASE /\ failure' = TRUE /\ UNCHANGED skipped
               /\ flow' = [flow EXCEPT ![t].pc = "done", ![t].cur = None, ![t].bad = flow[t].cur]
      BY <1>0, <1>2, <2>1, <3>1 DEF SideTypes, CancelPc
    <3>2. CASE Cancelled(t)
      BY <2>1, <3>2, CancelledEffect DEF CancelPc
    <3>3. CASE flow' = [flow EXCEPT ![t].pc = "cancelMark"] /\ UNCHANGED <<skipped, failure>>
      <4> DEFINE r == [flow[t] EXCEPT !.pc = "cancelMark"]
      <4>1. /\ r \in Flow /\ r.pc = "cancelMark" /\ r.kind = flow[t].kind
            /\ r.cards = flow[t].cards /\ r.left = flow[t].left /\ r.cur = flow[t].cur
            /\ r.bad = flow[t].bad
        BY <1>0 DEF Flow
      <4>2. flow' = [flow EXCEPT ![t] = r]
        BY <3>3 DEF TypeOK
      <4> HIDE DEF r
      <4>3. SkipRecord(t)
        BY <1>0, <2>1, <4>1, <4>2 DEF SkipRecord, CancelPc, FlowShape
      <4> QED
        BY <1>0, <3>3, <4>3 DEF SideTypes
    <3> QED
      BY <1>4, <3>1, <3>2, <3>3 DEF CancelFind
  <2> QED
    BY <1>0, <1>1, <2>1, <2>2 DEF SideTypes
<1>5. CASE CancelMark(t)
  <2>1. /\ flow[t].pc = "cancelMark" /\ Cancelled(t)
        /\ turn' = [turn EXCEPT ![flow[t].cur] = "skipped"]
        /\ UNCHANGED <<person, txs, gate, confirming, committed, contactOf, phase, painted,
                       faults, turns>>
    BY <1>5 DEF CancelMark, boundVars
  <2>2. SkipRecord(t) /\ failure' \in BOOLEAN /\ skipped' \subseteq Cards
    BY <2>1, CancelledEffect DEF CancelPc
  <2> QED
    BY <1>0, <1>1, <2>1, <2>2 DEF SideTypes
<1>6. CASE CancelFails(t)
  <2>1. /\ flow[t].pc \in CancelPc /\ failure' = TRUE
        /\ flow' = [flow EXCEPT ![t].pc = "done", ![t].cur = None, ![t].bad = flow[t].cur]
        /\ UNCHANGED <<turn, person, txs, gate, confirming, committed, skipped, contactOf, phase,
                       painted, turns>>
    BY <1>6 DEF CancelFails, CancelPc, dbVars
  <2>2. SkipRecord(t)
    BY <1>2, <2>1
  <2>3. faults' \in 0..MaxFaults
    BY <1>0, <1>6, Bounds DEF CancelFails, Fault, SideTypes
  <2> QED
    BY <1>0, <1>1, <2>1, <2>2, <2>3 DEF SideTypes
<1> QED
  BY <1>3, <1>4, <1>5, <1>6 DEF Skipping

LEMMA RepaintEffects ==
  ASSUME TypeOK, Frame \/ Submit \/ TurnFails \/ TurnAnswers \/ UNCHANGED vars
  PROVE  Repaints /\ SideTypes'
<1>0. SideTypes
  BY DEF SideTypes, TypeOK
<1>1. CASE Frame
  BY <1>0, <1>1 DEF Frame, Repaints, SideTypes, Pending, dbVars, uiVars, boundVars
<1>2. CASE Submit
  <2>1. turns' \in 0..MaxTurns
    BY <1>0, <1>2, Bounds DEF Submit, SideTypes
  <2> QED
    BY <1>0, <1>2, <2>1 DEF Submit, Repaints, SideTypes, dbVars, Id
<1>3. CASE TurnFails
  BY <1>0, <1>3 DEF TurnFails, Repaints, SideTypes, dbVars, boundVars
<1>4. CASE TurnAnswers
  BY <1>0, <1>4 DEF TurnAnswers, Repaints, SideTypes, dbVars, boundVars, Id
<1>5. CASE UNCHANGED vars
  BY <1>0, <1>5 DEF vars, Repaints, SideTypes, dbVars, uiVars, boundVars
<1> QED
  BY <1>1, <1>2, <1>3, <1>4, <1>5

LEMMA StepEffects ==
  ASSUME TypeOK, ShapeOK, [Next]_vars
  PROVE  /\ SideTypes'
         /\ Repaints \/ \E t \in Taps : Commits(t) \/ Skips(t)
BY CommitEffects, SkipEffects, RepaintEffects DEF Next

(* ------------------- the invariant, step by step ------------------------ *)

\* A step writes the record of one tap.
LEMMA OneRecord ==
  ASSUME TypeOK, NEW t \in Taps, Commits(t) \/ Skips(t)
  PROVE  /\ flow' \in [Taps -> Flow]
         /\ \A u \in Taps \ {t} : flow'[u] = flow[u]
<1>0. flow \in [Taps -> Flow] /\ flow[t] \in Flow
  BY DEF TypeOK
<1>1. \E r \in Flow : flow' = [flow EXCEPT ![t] = r]
  <2>1. CASE Starts(t) \/ Returns(t) \/ Skips(t)
    BY <2>1 DEF Starts, Returns, Skips, Goes
  <2>2. CASE Reports(t)
    <3> DEFINE r == [flow[t] EXCEPT !.pc = "done", !.cur = None, !.bad = flow[t].cur]
    <3>1. r \in Flow
      BY <1>0 DEF Flow
    <3>2. flow' = [flow EXCEPT ![t] = r]
      BY <1>0, <2>2 DEF Reports
    <3> QED
      BY <3>1, <3>2
  <2>3. ASSUME NEW q \in ConfirmPc \ {"find"}, Moves(t, q)
        PROVE  \E r \in Flow : flow' = [flow EXCEPT ![t] = r]
    <3> DEFINE r == [flow[t] EXCEPT !.pc = q]
    <3>1. r \in Flow
      BY <1>0 DEF Flow, ConfirmPc
    <3>2. flow' = [flow EXCEPT ![t] = r]
      BY <1>0, <2>3 DEF Moves
    <3> QED
      BY <3>1, <3>2
  <2> QED
    BY <2>1, <2>2, <2>3 DEF Commits
<1> QED
  BY <1>0, <1>1

LEMMA TypeStep ==
  ASSUME TypeOK, ShapeOK, [Next]_vars
  PROVE  TypeOK'
<1>1. SideTypes'
  BY StepEffects
<1>2. CASE Repaints
  BY <1>1, <1>2 DEF Repaints, TypeOK, SideTypes
<1>3. ASSUME NEW t \in Taps, Commits(t) \/ Skips(t) PROVE TypeOK'
  <2>1. flow[t] \in Flow /\ FlowShape(t)
    BY DEF TypeOK, ShapeOK
  <2>2. flow' \in [Taps -> Flow]
    BY <1>3, OneRecord
  <2>3. gate' \subseteq Cards
    <3>1. ASSUME NEW f \in Flow, NEW gt \in SUBSET Cards, NEW key, Goes(t, f, f.cards, gt, key)
          PROVE  gate' \subseteq Cards
      BY <3>1 DEF Goes, Flow
    <3>2. CASE Starts(t)
      BY <3>1, <3>2 DEF Starts, TypeOK
    <3>3. CASE Returns(t)
      BY <2>1, <3>1, <3>3 DEF Returns, TypeOK
    <3> QED
      BY <1>3, <3>2, <3>3 DEF Commits, Skips, Reports, Moves, TypeOK
  <2>4. turn' \in [Cards -> {"pending", "confirmed", "skipped"}]
    BY <1>3 DEF Commits, Starts, Returns, Reports, Moves, Skips, TypeOK
  <2>5. committed' \subseteq Cards
    <3>1. Returns(t) => flow[t].cur \in Cards
      BY <2>1 DEF Returns, FlowShape, ConfirmPc, Flow
    <3> QED
      BY <1>3, <3>1 DEF Commits, Starts, Returns, Reports, Moves, Skips, TypeOK
  <2>6. person' \in Cards \cup {None}
    BY <1>3 DEF Commits, Starts, Returns, Reports, Moves, Skips, TypeOK, Cards
  <2>7. txs' \subseteq [card: MoneyCards, tap: Taps]
    BY <1>3 DEF Commits, Starts, Returns, Reports, Moves, Skips, TypeOK
  <2> QED
    BY <1>1, <2>2, <2>3, <2>4, <2>5, <2>6, <2>7 DEF TypeOK, SideTypes
<1> QED
  BY <1>2, <1>3, StepEffects

\* What is in the books stays there.
LEMMA BooksGrow ==
  ASSUME TypeOK, ShapeOK, NEW t \in Taps, Commits(t) \/ Skips(t), NEW p
  PROVE  Written(p) => Written(p)'
<1>1. txs \subseteq txs' /\ (person # None => person' # None)
  BY DEF Commits, Starts, Returns, Reports, Moves, Skips
<1> QED
  BY <1>1 DEF Written

\* The gate: taps that race for a card, or commit it from an older frame,
\* never run its use case side by side.
LEMMA FlightStep ==
  ASSUME TypeOK, ShapeOK, SingleFlight, NEW t \in Taps, Commits(t) \/ Skips(t)
  PROVE  SingleFlight'
<1>0. /\ flow \in [Taps -> Flow] /\ FlowShape(t)
      /\ \A u \in Taps \ {t} : flow'[u] = flow[u]
  BY OneRecord DEF TypeOK, ShapeOK
<1>1. ASSUME NEW f, NEW ps, NEW gt, NEW key, Goes(t, f, ps, gt, key),
             \A u \in Taps \ {t} : flow[u].pc \in ConfirmPc => flow[u].cur \in gt
      PROVE  SingleFlight'
  <2>1. PICK r \in Flow : /\ flow' = [flow EXCEPT ![t] = r]
                          /\ \/ r.pc = "done" /\ gate' = gt
                             \/ r.cur \notin gt /\ gate' = gt \cup {r.cur}
    BY <1>1 DEF Goes
  <2>2. flow'[t] = r
    BY <1>0, <2>1
  <2>3. CASE r.pc = "done" /\ gate' = gt
    BY <1>0, <1>1, <2>2, <2>3 DEF SingleFlight, ConfirmPc
  <2>4. CASE r.cur \notin gt /\ gate' = gt \cup {r.cur}
    BY <1>0, <1>1, <2>2, <2>4 DEF SingleFlight
  <2> QED
    BY <2>1, <2>3, <2>4
<1>2. CASE Starts(t)
  BY <1>1, <1>2 DEF Starts, SingleFlight
<1>3. flow[t].pc \in ConfirmPc =>
        \A u \in Taps \ {t} : flow[u].pc \in ConfirmPc => flow[u].cur \in gate \ {flow[t].cur}
  BY DEF SingleFlight
<1>4. CASE Returns(t)
  <2>1. flow[t].pc \in ConfirmPc
    BY <1>4 DEF Returns, ConfirmPc
  <2> QED
    BY <1>1, <1>3, <1>4, <2>1 DEF Returns
<1>5. CASE Reports(t)
  <2>1. flow'[t].pc = "done" /\ gate' = gate \ {flow[t].cur} /\ flow[t].pc \in ConfirmPc
    BY <1>0, <1>5 DEF Reports, Flow
  <2> QED
    BY <1>0, <1>3, <2>1 DEF SingleFlight, ConfirmPc
<1>6. ASSUME NEW q \in ConfirmPc \ {"find"}, Moves(t, q) PROVE SingleFlight'
  <2>1. flow'[t].cur = flow[t].cur /\ gate' = gate /\ flow[t].pc \in ConfirmPc
    BY <1>0, <1>6 DEF Moves, Flow, ConfirmPc
  <2> QED
    BY <1>0, <2>1 DEF SingleFlight
<1>7. CASE Skips(t)
  <2>1. gate' = gate /\ flow'[t].pc \notin ConfirmPc
    BY <1>0, <1>7 DEF Skips, ConfirmPc, CancelPc
  <2> QED
    BY <1>0, <2>1 DEF SingleFlight
<1> QED
  BY <1>2, <1>4, <1>5, <1>6, <1>7 DEF Commits

\* A locked card is let go by the confirm that locked it, however it ends.
LEMMA OwnerStep ==
  ASSUME TypeOK, ShapeOK, GateHasOwner, NEW t \in Taps, Commits(t) \/ Skips(t)
  PROVE  GateHasOwner'
<1>0. /\ flow \in [Taps -> Flow] /\ FlowShape(t)
      /\ \A u \in Taps \ {t} : flow'[u] = flow[u]
  BY OneRecord DEF TypeOK, ShapeOK
<1>1. ASSUME NEW f, NEW ps, NEW gt, NEW key, Goes(t, f, ps, gt, key),
             \A p \in gt : \E u \in Taps \ {t} : flow[u].pc \in ConfirmPc /\ flow[u].cur = p
      PROVE  GateHasOwner'
  <2>1. PICK r \in Flow : /\ flow' = [flow EXCEPT ![t] = r]
                          /\ \/ gate' = gt
                             \/ r.pc = "find" /\ gate' = gt \cup {r.cur}
    BY <1>1 DEF Goes
  <2>2. flow'[t] = r
    BY <1>0, <2>1
  <2> QED
    BY <1>0, <1>1, <2>1, <2>2 DEF GateHasOwner, ConfirmPc
<1>2. CASE Starts(t)
  <2>1. flow[t].pc \notin ConfirmPc
    BY <1>2 DEF Starts, ConfirmPc
  <2> QED
    BY <1>1, <1>2, <2>1 DEF Starts, GateHasOwner
<1>3. CASE Returns(t)
  BY <1>1, <1>3 DEF Returns, GateHasOwner
<1>4. CASE Reports(t)
  BY <1>0, <1>4 DEF Reports, GateHasOwner
<1>5. ASSUME NEW q \in ConfirmPc \ {"find"}, Moves(t, q) PROVE GateHasOwner'
  <2>1. flow'[t].cur = flow[t].cur /\ flow'[t].pc \in ConfirmPc /\ gate' = gate
    BY <1>0, <1>5 DEF Moves, Flow
  <2> QED
    BY <1>0, <2>1 DEF GateHasOwner
<1>6. CASE Skips(t)
  <2>1. gate' = gate /\ flow[t].pc \notin ConfirmPc
    BY <1>6 DEF Skips, ConfirmPc, CancelPc
  <2> QED
    BY <1>0, <2>1 DEF GateHasOwner
<1> QED
  BY <1>2, <1>3, <1>4, <1>5, <1>6 DEF Commits

\* The record of the tap that steps.
LEMMA OwnShape ==
  ASSUME TypeOK, ShapeOK, ConfirmedIsWritten, NEW t \in Taps, Commits(t) \/ Skips(t)
  PROVE  FlowShape(t)'
<1>0. /\ flow \in [Taps -> Flow] /\ flow[t] \in Flow /\ FlowShape(t)
  BY DEF TypeOK, ShapeOK
<1>1. ASSUME NEW f \in Flow, NEW gt, NEW key, Goes(t, f, f.cards, gt, key),
             f.left \subseteq f.cards, f.bad = None, f.kind \in {"one", "bundle"}
      PROVE  FlowShape(t)'
  <2>1. PICK r \in Flow : /\ flow' = [flow EXCEPT ![t] = r]
                          /\ r.kind = f.kind /\ r.cards = f.cards /\ r.left \subseteq f.left
                          /\ r.bad = f.bad
                          /\ r.pc = "done" \/ (r.pc = "find" /\ r.cur \in f.cards)
    BY <1>1 DEF Goes
  <2>2. flow'[t] = r
    BY <1>0, <2>1
  <2> QED
    BY <1>1, <2>1, <2>2 DEF FlowShape, ConfirmPc, CancelPc
<1>2. CASE Starts(t)
  BY <1>1, <1>2 DEF Starts
<1>3. CASE Returns(t)
  BY <1>0, <1>1, <1>3 DEF Returns, FlowShape, ConfirmPc
<1>4. CASE Reports(t)
  <2>1. /\ flow'[t].pc = "done" /\ flow'[t].left = flow[t].left
        /\ flow'[t].cards = flow[t].cards
    BY <1>0, <1>4 DEF Reports, Flow
  <2> QED
    BY <1>0, <2>1 DEF FlowShape, ConfirmPc, CancelPc
<1>5. ASSUME NEW q \in ConfirmPc \ {"find"}, Moves(t, q) PROVE FlowShape(t)'
  <2>1. /\ flow'[t].pc = q /\ flow'[t].left = flow[t].left /\ flow'[t].cards = flow[t].cards
        /\ flow'[t].cur = flow[t].cur /\ flow'[t].kind = flow[t].kind
        /\ flow'[t].bad = flow[t].bad
    BY <1>0, <1>5 DEF Moves, Flow
  <2>2. flow[t].pc \in ConfirmPc /\ turn' = turn
    BY <1>5 DEF Moves, ConfirmPc
  <2>3. turn[flow[t].cur] # "confirmed"
    BY <1>0, <1>5 DEF Moves, FlowShape, ConfirmPc
  <2>4. flow[t].cur \in Cards
    BY <1>0, <2>2 DEF FlowShape, Flow
  <2>5. PICK p \in Cards : p = flow[t].cur
    BY <2>4
  <2>6. q \in {"journal", "mark"} => Written(p)'
    <3>1. CASE flow[t].pc = "journal" /\ q = "mark" /\ UNCHANGED <<person, txs>>
      BY <1>0, <2>5, <3>1 DEF FlowShape, Written
    <3>2. CASE person' = p /\ p \in ContactCards
      BY <3>2, NotCards, CardsDisjoint DEF Written, Cards
    <3>3. CASE p \in MoneyCards /\ txs' = txs \cup {[card |-> p, tap |-> t]}
      <4>1. [card |-> p, tap |-> t] \in txs' /\ [card |-> p, tap |-> t].card = p
        BY <3>3
      <4>2. \E x \in txs' : x.card = p
        BY <4>1
      <4> QED
        BY <3>3, <4>2 DEF Written
    <3> QED
      BY <1>5, <2>5, <3>1, <3>2, <3>3 DEF Moves
  <2> QED
    BY <1>0, <2>1, <2>2, <2>3, <2>5, <2>6 DEF FlowShape, ConfirmPc, CancelPc, Written
<1>6. CASE Skips(t)
  <2>1. PICK r \in Flow : /\ flow' = [flow EXCEPT ![t] = r]
                          /\ r.kind = "skip" /\ r.left \subseteq r.cards
                          /\ r.pc \in CancelPc \cup {"done"}
                          /\ r.pc \in CancelPc => r.cur \in r.cards /\ r.bad = None
    BY <1>6 DEF Skips
  <2>2. flow'[t] = r
    BY <1>0, <2>1
  <2> QED
    BY <2>1, <2>2 DEF FlowShape, ConfirmPc, CancelPc
<1> QED
  BY <1>2, <1>3, <1>4, <1>5, <1>6 DEF Commits

\* The records of the other taps: no step confirms a turn whose card another
\* confirm has under way.
LEMMA ShapeStep ==
  ASSUME TypeOK, ShapeOK, SingleFlight, ConfirmedIsWritten, NEW t \in Taps,
         Commits(t) \/ Skips(t)
  PROVE  ShapeOK'
<1> SUFFICES ASSUME NEW u \in Taps, u # t PROVE FlowShape(u)'
  BY OwnShape DEF ShapeOK
<1>1. /\ flow'[u] = flow[u] /\ FlowShape(u) /\ flow[u] \in Flow
      /\ turn \in [Cards -> {"pending", "confirmed", "skipped"}]
  BY OneRecord DEF ShapeOK, TypeOK
<1>2. PICK p : p = flow[u].cur
  OBVIOUS
<1>4. Written(p) => Written(p)'
  BY BooksGrow
<1>3. ASSUME flow[u].pc \in ConfirmPc \ {"find"} PROVE turn'[flow[u].cur] # "confirmed"
  <2>1. flow[u].cur \in Cards /\ turn[flow[u].cur] # "confirmed"
    BY <1>1, <1>3 DEF FlowShape, Flow
  <2>2. CASE flow[t].pc = "mark" /\ turn' = [turn EXCEPT ![flow[t].cur] = "confirmed"]
    <3>1. flow[t].cur # flow[u].cur
      BY <1>3, <2>2 DEF SingleFlight, ConfirmPc
    <3> QED
      BY <1>1, <2>1, <2>2, <3>1
  <2>3. CASE turn' = turn \/ turn' = [turn EXCEPT ![flow[t].cur] = "skipped"]
    BY <1>1, <2>1, <2>3
  <2> QED
    BY <2>2, <2>3 DEF Commits, Starts, Returns, Reports, Moves, Skips
<1> QED
  BY <1>1, <1>2, <1>3, <1>4 DEF FlowShape, Written

\* A turn is confirmed only after its money or its contact was written.
LEMMA ConfirmedStep ==
  ASSUME TypeOK, ShapeOK, ConfirmedIsWritten, NEW t \in Taps, Commits(t) \/ Skips(t)
  PROVE  ConfirmedIsWritten'
<1> SUFFICES ASSUME NEW p \in Cards, turn'[p] = "confirmed" PROVE Written(p)'
  BY DEF ConfirmedIsWritten
<1>0. turn \in [Cards -> {"pending", "confirmed", "skipped"}]
  BY DEF TypeOK
<1>1. CASE turn[p] = "confirmed"
  BY <1>1, BooksGrow DEF ConfirmedIsWritten
<1>2. CASE flow[t].pc = "mark" /\ p = flow[t].cur
  <2>1. Written(p)
    BY <1>2 DEF ShapeOK, FlowShape
  <2> QED
    BY <2>1, BooksGrow
<1> QED
  BY <1>0, <1>1, <1>2 DEF Commits, Starts, Returns, Reports, Moves, Skips

\* A failure that was reported, and a Skip that was tapped, stay on record.
LEMMA ExcuseStays ==
  ASSUME TypeOK, ShapeOK, NEW t \in Taps, Commits(t) \/ Skips(t),
         NEW x \in [card: MoneyCards, tap: Taps], Excused(x)
  PROVE  Excused(x)'
<1>0. /\ flow \in [Taps -> Flow] /\ flow[t] \in Flow /\ FlowShape(t)
      /\ \A u \in Taps \ {t} : flow'[u] = flow[u]
      /\ x.card \in Cards /\ x.tap \in Taps
  BY OneRecord DEF TypeOK, ShapeOK, Cards
<1>1. flow[t].pc # "done"
  BY DEF Commits, Starts, Returns, Reports, Moves, Skips, ConfirmPc, CancelPc
<1>2. CASE flow[x.tap].bad = x.card
  <2>1. flow[x.tap].pc = "done"
    BY <1>0, <1>2, NotCards DEF ShapeOK, FlowShape
  <2>2. flow'[x.tap] = flow[x.tap]
    BY <1>0, <1>1, <2>1
  <2> QED
    BY <1>2, <2>2 DEF Excused
<1>3. CASE SkipTapped(x.card)
  <2>1. PICK u \in Taps : flow[u].kind = "skip" /\ x.card \in flow[u].cards
    BY <1>3 DEF SkipTapped
  <2>2. flow'[u].kind = "skip" /\ x.card \in flow'[u].cards
    <3>1. CASE u # t
      BY <1>0, <2>1, <3>1
    <3>2. CASE u = t
      <4>1. flow[t].pc \notin ConfirmPc \cup {"idle"}
        BY <1>0, <2>1, <3>2 DEF FlowShape
      <4>2. Skips(t)
        BY <4>1 DEF Commits, Starts, Returns, Reports, Moves, ConfirmPc
      <4>3. PICK r \in Flow : flow' = [flow EXCEPT ![t] = r] /\ r.kind = "skip" /\ r.cards = flow[t].cards
        BY <4>1, <4>2 DEF Skips
      <4>4. flow'[t] = r
        BY <1>0, <4>3
      <4> QED
        BY <2>1, <3>2, <4>3, <4>4
    <3> QED
      BY <3>1, <3>2
  <2> QED
    BY <2>2 DEF Excused, SkipTapped
<1> QED
  BY <1>2, <1>3 DEF Excused

\* The books of the tap that steps: what its money write leaves is accounted
\* for until its turn is confirmed or its failure reported.
LEMMA SalesStep ==
  ASSUME TypeOK, ShapeOK, SalesOK, NEW t \in Taps, Commits(t) \/ Skips(t)
  PROVE  SalesOK'
<1> SUFFICES ASSUME NEW x \in txs' PROVE SaleOK(x)'
  BY DEF SalesOK
<1>0. /\ flow \in [Taps -> Flow] /\ flow[t] \in Flow /\ FlowShape(t)
      /\ \A u \in Taps \ {t} : flow'[u] = flow[u]
      /\ turn \in [Cards -> {"pending", "confirmed", "skipped"}]
      /\ txs \subseteq [card: MoneyCards, tap: Taps]
  BY OneRecord DEF TypeOK, ShapeOK
<1>1. CASE x \notin txs
  <2>1. PICK q \in ConfirmPc : Moves(t, q)
    BY <1>1 DEF Commits, Starts, Returns, Reports, Moves, Skips
  <2>2. /\ q = "journal" /\ x = [card |-> flow[t].cur, tap |-> t]
        /\ flow' = [flow EXCEPT ![t].pc = q]
    BY <1>1, <2>1 DEF Moves
  <2>3. flow'[t].pc = "journal" /\ flow'[t].cur = flow[t].cur
    BY <1>0, <2>2 DEF Flow
  <2>4. x.card = flow[t].cur /\ x.tap = t
    BY <2>2
  <2> QED
    BY <2>3, <2>4 DEF SaleOK
<1>2. CASE x \in txs /\ Excused(x)
  BY <1>0, <1>2, ExcuseStays DEF SaleOK
<1>3. CASE x \in txs /\ turn[x.card] = "confirmed"
  <2>1. x.card \in Cards
    BY <1>0, <1>3 DEF Cards
  <2>2. CASE turn'[x.card] = "confirmed"
    BY <2>2 DEF SaleOK
  <2>3. CASE flow[t].pc = "cancelMark" /\ turn' = [turn EXCEPT ![flow[t].cur] = "skipped"]
    <3>1. CASE flow[t].cur # x.card
      BY <1>0, <1>3, <2>1, <2>3, <3>1 DEF SaleOK
    <3>2. CASE flow[t].cur = x.card
      <4>1. SkipTapped(x.card)
        BY <1>0, <2>3, <3>2 DEF FlowShape, CancelPc, SkipTapped
      <4>2. x \in [card: MoneyCards, tap: Taps] /\ Excused(x)
        BY <1>0, <1>3, <4>1 DEF Excused
      <4> QED
        BY <4>2, ExcuseStays DEF SaleOK
    <3> QED
      BY <3>1, <3>2
  <2>4. CASE turn' = turn \/ turn' = [turn EXCEPT ![flow[t].cur] = "confirmed"]
    BY <1>0, <1>3, <2>1, <2>4 DEF SaleOK
  <2> QED
    BY <2>3, <2>4 DEF Commits, Starts, Returns, Reports, Moves, Skips
<1>4. CASE x \in txs /\ flow[x.tap].pc \in {"journal", "mark"} /\ flow[x.tap].cur = x.card
  <2>0. x.tap \in Taps /\ x.card \in Cards
    BY <1>0, <1>4 DEF Cards
  <2>1. CASE x.tap # t
    <3>1. flow'[x.tap] = flow[x.tap]
      BY <1>0, <2>0, <2>1
    <3> QED
      BY <1>4, <3>1 DEF SaleOK
  <2>2. CASE x.tap = t /\ Returns(t)
    <3>1. turn' = [turn EXCEPT ![flow[t].cur] = "confirmed"]
      BY <1>4, <2>2 DEF Returns
    <3> QED
      BY <1>0, <1>4, <2>0, <2>2, <3>1 DEF SaleOK
  <2>3. CASE x.tap = t /\ Reports(t)
    <3>1. flow'[t].bad = flow[t].cur
      BY <1>0, <2>3 DEF Reports, Flow
    <3> QED
      BY <1>4, <2>3, <3>1 DEF SaleOK, Excused
  <2>4. ASSUME x.tap = t, NEW q \in ConfirmPc \ {"find"}, Moves(t, q) PROVE SaleOK(x)'
    <3>1. q = "mark" /\ flow' = [flow EXCEPT ![t].pc = q]
      BY <1>4, <2>4 DEF Moves
    <3>2. flow'[t].pc = "mark" /\ flow'[t].cur = flow[t].cur
      BY <1>0, <3>1 DEF Flow
    <3> QED
      BY <1>4, <2>4, <3>2 DEF SaleOK
  <2> QED
    BY <1>4, <2>1, <2>2, <2>3, <2>4 DEF Commits, Starts, Skips, CancelPc
<1> QED
  BY <1>1, <1>2, <1>3, <1>4 DEF SalesOK, SaleOK

\* Only a money write adds a sale, and then a sale of that card that is there
\* already is one whose failure was reported or that was skipped as well.
LEMMA TwiceStep ==
  ASSUME TypeOK, ShapeOK, SingleFlight, SalesOK, TwiceOnlyAfterFailure, NEW t \in Taps,
         Commits(t) \/ Skips(t)
  PROVE  TwiceOnlyAfterFailure'
<1> SUFFICES ASSUME NEW x \in txs', NEW y \in txs', x.card = y.card, x # y
             PROVE  Excused(x)' \/ Excused(y)'
  BY DEF TwiceOnlyAfterFailure, Excused, SkipTapped
<1>0. txs \subseteq [card: MoneyCards, tap: Taps] /\ FlowShape(t)
  BY DEF TypeOK, ShapeOK
<1>1. CASE x \in txs /\ y \in txs
  <2>1. Excused(x) \/ Excused(y)
    BY <1>1 DEF TwiceOnlyAfterFailure, Excused, SkipTapped
  <2> QED
    BY <1>0, <1>1, <2>1, ExcuseStays
<1>2. ASSUME NEW new \in txs', new \notin txs, NEW old \in txs, new.card = old.card
      PROVE  Excused(old)'
  <2>1. PICK q \in ConfirmPc : Moves(t, q)
    BY <1>2 DEF Commits, Starts, Returns, Reports, Moves, Skips
  <2>2. flow[t].pc = "write" /\ new = [card |-> flow[t].cur, tap |-> t]
    BY <1>2, <2>1 DEF Moves
  <2>3. old.card = flow[t].cur /\ old.tap \in Taps
    BY <1>0, <1>2, <2>2
  <2>4. turn[old.card] # "confirmed"
    BY <1>0, <2>2, <2>3 DEF FlowShape, ConfirmPc
  <2>5. ~(flow[old.tap].pc \in {"journal", "mark"} /\ flow[old.tap].cur = old.card)
    <3>1. CASE old.tap = t
      BY <2>2, <3>1
    <3>2. CASE old.tap # t
      BY <2>2, <2>3, <3>2 DEF SingleFlight, ConfirmPc
    <3> QED
      BY <3>1, <3>2
  <2>6. Excused(old)
    BY <2>4, <2>5 DEF SalesOK, SaleOK
  <2> QED
    BY <1>0, <2>6, ExcuseStays
<1>3. CASE x \notin txs /\ y \notin txs
  <2>1. PICK q \in ConfirmPc : Moves(t, q)
    BY <1>3 DEF Commits, Starts, Returns, Reports, Moves, Skips
  <2>2. x = [card |-> flow[t].cur, tap |-> t] /\ y = [card |-> flow[t].cur, tap |-> t]
    BY <1>3, <2>1 DEF Moves
  <2> QED
    BY <2>2
<1> QED
  BY <1>1, <1>2, <1>3

\* A card is shown as confirmed by the return of its own commit.
LEMMA CommittedStep ==
  ASSUME TypeOK, ShapeOK, ConfirmedIsWritten, CommittedIsWritten, NEW t \in Taps,
         Commits(t) \/ Skips(t)
  PROVE  CommittedIsWritten'
<1> SUFFICES ASSUME NEW p \in committed' PROVE Written(p)'
  BY DEF CommittedIsWritten, Written
<1>0. FlowShape(t) /\ flow[t] \in Flow
  BY DEF ShapeOK, TypeOK
<1>1. CASE p \in committed
  <2>1. Written(p)
    BY <1>1 DEF CommittedIsWritten, Written
  <2> QED
    BY <2>1, BooksGrow
<1>2. CASE p \notin committed
  <2>1. Returns(t) /\ p = flow[t].cur
    BY <1>2 DEF Commits, Starts, Returns, Reports, Moves, Skips
  <2>2. p \in Cards
    BY <1>0, <2>1 DEF Returns, FlowShape, ConfirmPc, Flow
  <2>3. Written(p)
    BY <1>0, <2>1, <2>2 DEF Returns, FlowShape, ConfirmedIsWritten
  <2> QED
    BY <2>3, BooksGrow
<1> QED
  BY <1>1, <1>2

\* The busy key is cleared by every end of a confirm, so what is left of it
\* belongs to one that goes on.
LEMMA BusyStep ==
  ASSUME TypeOK, ShapeOK, BusyHasOwner, NEW t \in Taps, Commits(t) \/ Skips(t)
  PROVE  BusyHasOwner'
<1>0. /\ flow \in [Taps -> Flow] /\ flow[t] \in Flow /\ FlowShape(t)
      /\ \A u \in Taps \ {t} : flow'[u] = flow[u]
  BY OneRecord DEF TypeOK, ShapeOK
<1>1. ASSUME NEW f \in Flow, NEW ps, NEW gt, NEW key, Goes(t, f, ps, gt, key),
             f.kind \in {"one", "bundle"}
      PROVE  BusyHasOwner'
  <2>1. PICK r \in Flow : /\ flow' = [flow EXCEPT ![t] = r] /\ r.kind = f.kind
                          /\ (r.pc = "done" /\ confirming' = {}) \/ r.pc = "find"
    BY <1>1 DEF Goes
  <2>2. flow'[t] = r
    BY <1>0, <2>1
  <2> QED
    BY <1>1, <2>1, <2>2 DEF BusyHasOwner
<1>2. CASE Starts(t)
  BY <1>1, <1>2 DEF Starts
<1>3. CASE Returns(t)
  BY <1>0, <1>1, <1>3 DEF Returns, FlowShape, ConfirmPc
<1>4. CASE Reports(t)
  BY <1>4 DEF Reports, BusyHasOwner
<1>5. ASSUME NEW q \in ConfirmPc \ {"find"}, Moves(t, q) PROVE BusyHasOwner'
  <2>1. flow'[t].pc = q /\ flow'[t].kind = flow[t].kind /\ flow[t].pc \in ConfirmPc
    BY <1>0, <1>5 DEF Moves, Flow, ConfirmPc
  <2> QED
    BY <1>0, <2>1 DEF BusyHasOwner, FlowShape, ConfirmPc
<1>6. CASE Skips(t)
  <2>1. confirming' = confirming /\ flow[t].kind \notin {"one", "bundle"}
    BY <1>0, <1>6 DEF Skips, FlowShape, CancelPc
  <2> QED
    BY <1>0, <2>1 DEF BusyHasOwner
<1> QED
  BY <1>2, <1>3, <1>4, <1>5, <1>6 DEF Commits

(* ------------------------------ theorems ------------------------------- *)

GateInv == ShapeOK /\ SingleFlight /\ GateHasOwner /\ BusyHasOwner
BooksInv == ConfirmedIsWritten /\ SalesOK /\ CommittedIsWritten /\ TwiceOnlyAfterFailure
Inv == TypeOK /\ GateInv /\ BooksInv

LEMMA InvInit == Init => Inv
<1> SUFFICES ASSUME Init PROVE Inv
  OBVIOUS
<1>1. IdleFlow \in Flow
  BY DEF IdleFlow, Flow, Id
<1>2. 0 \in 0..MaxFaults /\ 0 \in 0..MaxTurns
  BY Bounds
<1>3. TypeOK
  BY <1>1, <1>2 DEF Init, TypeOK, Id
<1>4. \A t \in Taps : flow[t] = IdleFlow
  BY DEF Init
<1>5. GateInv
  BY <1>4 DEF Init, GateInv, ShapeOK, FlowShape, SingleFlight, GateHasOwner, BusyHasOwner,
              IdleFlow, ConfirmPc, CancelPc
<1>6. BooksInv
  BY DEF Init, BooksInv, ConfirmedIsWritten, SalesOK, CommittedIsWritten, TwiceOnlyAfterFailure
<1> QED
  BY <1>3, <1>5, <1>6 DEF Inv

LEMMA InvNext == Inv /\ [Next]_vars => Inv'
<1> SUFFICES ASSUME Inv, [Next]_vars PROVE Inv'
  OBVIOUS
<1>0. TypeOK /\ GateInv /\ BooksInv /\ ShapeOK /\ TypeOK'
  BY TypeStep DEF Inv, GateInv
<1>1. CASE Repaints
  <2>1. GateInv'
    BY <1>0, <1>1 DEF Repaints, GateInv, ShapeOK, FlowShape, SingleFlight, GateHasOwner,
                      BusyHasOwner, Written
  <2>2. BooksInv'
    BY <1>0, <1>1 DEF Repaints, BooksInv, ConfirmedIsWritten, SalesOK, SaleOK, Excused,
                      SkipTapped, CommittedIsWritten, TwiceOnlyAfterFailure, Written
  <2> QED
    BY <1>0, <2>1, <2>2 DEF Inv
<1>2. ASSUME NEW t \in Taps, Commits(t) \/ Skips(t) PROVE Inv'
  <2>1. GateInv'
    BY <1>0, <1>2, ShapeStep, FlightStep, OwnerStep, BusyStep DEF GateInv, BooksInv
  <2>2. BooksInv'
    BY <1>0, <1>2, ConfirmedStep, SalesStep, CommittedStep, TwiceStep DEF GateInv, BooksInv
  <2> QED
    BY <1>0, <2>1, <2>2 DEF Inv
<1> QED
  BY <1>0, <1>1, <1>2, StepEffects

LEMMA InvCorrect == Spec => []Inv
BY InvInit, InvNext, PTL DEF Spec

\* Every state that taps, frames, failures and goals reach is one of the
\* model's types.
THEOREM TypeCorrect == Spec => []TypeOK
<1>1. Inv => TypeOK
  BY DEF Inv
<1> QED
  BY <1>1, InvCorrect, PTL

\* AgentConfirmGate: at most one confirm of a card is between its acquisition
\* and its release, whatever frames the taps acted on, and a card the gate
\* holds is held by one, so no card stays locked.
THEOREM GateCorrect == Spec => [](SingleFlight /\ GateHasOwner)
<1>1. Inv => SingleFlight /\ GateHasOwner
  BY DEF Inv, GateInv
<1> QED
  BY <1>1, InvCorrect, PTL

\* A confirm key that disables the buttons belongs to a confirm that will
\* release it, also when handlers of two frames overlap.
THEOREM BusyHasOwnerCorrect == Spec => []BusyHasOwner
<1>1. Inv => BusyHasOwner
  BY DEF Inv, GateInv
<1> QED
  BY <1>1, InvCorrect, PTL

\* A card shown as confirmed, and a turn stored as confirmed, have their money
\* or their contact in the books.
THEOREM CommittedIsWrittenCorrect == Spec => [](CommittedIsWritten /\ ConfirmedIsWritten)
<1>1. Inv => CommittedIsWritten /\ ConfirmedIsWritten
  BY DEF Inv, BooksInv
<1> QED
  BY <1>1, InvCorrect, PTL

\* The sale of a card is in the books twice only when one of its confirms
\* reported failure, or Skip was tapped on it too: never by double taps, old
\* frames, bundles or a failed goal alone.
THEOREM TwiceOnlyAfterFailureCorrect == Spec => []TwiceOnlyAfterFailure
<1>1. Inv => TwiceOnlyAfterFailure
  BY DEF Inv, BooksInv
<1> QED
  BY <1>1, InvCorrect, PTL

(* ------------------ what Confirm and Skip promise ----------------------- *)

\* A sale comes from a tap of Confirm.
SaleTaps == \A x \in txs : flow[x.tap].kind \in {"one", "bundle"}

\* A tap stays what it was, and so do its failure and the cards it skipped.
LEMMA TapsStay ==
  ASSUME TypeOK, ShapeOK, NEW t \in Taps, Commits(t) \/ Skips(t)
  PROVE  /\ \A u \in Taps : flow[u].kind # "none" => flow'[u].kind = flow[u].kind
         /\ Commits(t) => flow'[t].kind \in {"one", "bundle"}
         /\ Skips(t) => flow'[t].kind = "skip" /\ flow[t].kind \in {"none", "skip"}
         /\ Commits(t) /\ ~Reports(t) => flow[t].bad = None /\ flow'[t].bad = None
         /\ Reports(t) => flow[t].bad = None /\ flow'[t].bad = flow[t].cur
<1>0. /\ flow \in [Taps -> Flow] /\ flow[t] \in Flow /\ FlowShape(t)
      /\ \A u \in Taps \ {t} : flow'[u] = flow[u]
  BY OneRecord DEF TypeOK, ShapeOK
<1>1. CASE Starts(t)
  <2>1. /\ flow'[t].kind \in {"one", "bundle"} /\ flow'[t].bad = None
        /\ flow[t].kind = "none" /\ flow[t].bad = None
    BY <1>0, <1>1 DEF Starts, Goes, FlowShape
  <2> QED
    BY <1>0, <1>1, <2>1 DEF Skips, CancelPc, Reports, ConfirmPc, Starts
<1>2. CASE Returns(t)
  <2>1. /\ flow[t].kind \in {"one", "bundle"} /\ flow[t].bad = None /\ flow[t].pc \in ConfirmPc
    BY <1>0, <1>2 DEF Returns, FlowShape, ConfirmPc
  <2>2. flow'[t].kind = flow[t].kind /\ flow'[t].bad = flow[t].bad
    BY <1>0, <1>2 DEF Returns, Goes
  <2>3. ~Skips(t)
    BY <2>1, <1>0 DEF Skips, CancelPc, ConfirmPc
  <2>4. ~Reports(t)
    <3>1. flow[t].cur \in Cards
      BY <1>0, <2>1 DEF FlowShape, Flow
    <3>2. Reports(t) => flow'[t].bad = flow[t].cur
      BY <1>0 DEF Reports, Flow
    <3> QED
      BY <2>1, <2>2, <3>1, <3>2, NotCards
  <2> QED
    BY <1>0, <2>1, <2>2, <2>3, <2>4
<1>3. CASE Reports(t)
  <2>1. /\ flow[t].kind \in {"one", "bundle"} /\ flow[t].bad = None /\ flow[t].pc \in ConfirmPc
    BY <1>0, <1>3 DEF Reports, FlowShape, ConfirmPc
  <2>2. flow'[t].kind = flow[t].kind /\ flow'[t].bad = flow[t].cur
    BY <1>0, <1>3 DEF Reports, Flow
  <2>3. ~Skips(t)
    BY <2>1 DEF Skips, CancelPc, ConfirmPc
  <2> QED
    BY <1>0, <1>3, <2>1, <2>2, <2>3
<1>4. ASSUME NEW q \in ConfirmPc \ {"find"}, Moves(t, q)
      PROVE  /\ \A u \in Taps : flow[u].kind # "none" => flow'[u].kind = flow[u].kind
             /\ flow'[t].kind \in {"one", "bundle"} /\ ~Skips(t) /\ ~Reports(t)
             /\ flow[t].bad = None /\ flow'[t].bad = None
  <2>1. /\ flow[t].kind \in {"one", "bundle"} /\ flow[t].bad = None /\ flow[t].pc \in ConfirmPc
    BY <1>0, <1>4 DEF Moves, FlowShape, ConfirmPc
  <2>2. flow'[t].kind = flow[t].kind /\ flow'[t].bad = flow[t].bad /\ flow'[t].pc = q
    BY <1>0, <1>4 DEF Moves, Flow
  <2>3. ~Skips(t)
    BY <2>1 DEF Skips, CancelPc, ConfirmPc
  <2>4. ~Reports(t)
    BY <1>0, <1>4, <2>2 DEF Reports, ConfirmPc, Flow
  <2> QED
    BY <1>0, <2>1, <2>2, <2>3, <2>4
<1>5. CASE Skips(t)
  <2>1. /\ flow'[t].kind = "skip" /\ flow[t].kind \in {"none", "skip"}
        /\ flow[t].pc = "idle" \/ flow[t].pc \in CancelPc
    BY <1>0, <1>5 DEF Skips, FlowShape
  <2>2. ~Returns(t) /\ ~Reports(t) /\ \A q \in ConfirmPc : ~Moves(t, q)
    BY <2>1 DEF Returns, Reports, Moves, CancelPc, ConfirmPc
  <2>3. ~Starts(t)
    BY <1>0, <2>1 DEF Starts, Goes
  <2> QED
    BY <1>0, <2>1, <2>2, <2>3 DEF Commits
<1> QED
  BY <1>1, <1>2, <1>3, <1>4, <1>5 DEF Commits

\* The taps that fail and the cards that are skipped, as a step leaves them.
LEMMA MarksOf ==
  ASSUME TypeOK, ShapeOK, NEW t \in Taps, Commits(t) \/ Skips(t)
  PROVE  /\ Reports(t) => FailedOnes' = FailedOnes \cup {<<t, flow[t].cur>>}
         /\ ~Reports(t) => FailedOnes' = FailedOnes
         /\ Commits(t) => SkipTaps' = SkipTaps
         /\ Skips(t) => \E cards \in SUBSET Cards : SkipTaps' = SkipTaps \cup cards
         /\ Skips(t) /\ flow[t].pc # "idle" => SkipTaps' = SkipTaps
<1>0. /\ flow \in [Taps -> Flow] /\ flow[t] \in Flow /\ FlowShape(t) /\ flow'[t] \in Flow
      /\ \A u \in Taps \ {t} : flow'[u] = flow[u]
  BY OneRecord DEF TypeOK, ShapeOK
<1>1. CASE Reports(t)
  <2>1. /\ flow[t].cur \in Cards /\ flow[t].kind \in {"one", "bundle"}
        /\ flow'[t].kind = flow[t].kind
    BY <1>0, <1>1, TapsStay DEF Reports, FlowShape, ConfirmPc, Flow
  <2>2. flow[t].bad = None /\ flow'[t].bad = flow[t].cur /\ Commits(t) /\ ~Skips(t)
    BY <1>1, <2>1, TapsStay DEF Commits
  <2>3. \A p \in Cards : p # None
    BY NotCards
  <2>4. FailedOnes' = FailedOnes \cup {<<t, flow[t].cur>>}
    <3>1. ASSUME NEW u \in Taps, NEW p \in Cards
          PROVE  flow'[u].kind # "skip" /\ flow'[u].bad = p <=>
                     (flow[u].kind # "skip" /\ flow[u].bad = p) \/ (u = t /\ p = flow[t].cur)
      BY <1>0, <2>1, <2>2, <2>3
    <3> QED
      BY <2>1, <3>1 DEF FailedOnes
  <2>5. SkipTaps' = SkipTaps
    BY <1>0, <2>1 DEF SkipTaps
  <2> QED
    BY <1>1, <2>2, <2>4, <2>5
<1>2. CASE Commits(t) /\ ~Reports(t)
  <2>1. /\ flow'[t].kind \in {"one", "bundle"} /\ flow[t].kind # "skip"
        /\ flow[t].bad = None /\ flow'[t].bad = None /\ ~Skips(t)
    BY <1>2, TapsStay
  <2>2. \A p \in Cards : p # None
    BY NotCards
  <2>3. FailedOnes' = FailedOnes
    BY <1>0, <2>1, <2>2 DEF FailedOnes
  <2>4. SkipTaps' = SkipTaps
    BY <1>0, <2>1 DEF SkipTaps
  <2> QED
    BY <1>2, <2>1, <2>3, <2>4
<1>3. CASE Skips(t)
  <2>1. flow'[t].kind = "skip" /\ flow[t].kind \in {"none", "skip"} /\ ~Commits(t) /\ ~Reports(t)
    BY <1>3, TapsStay DEF Commits
  <2>2. \A p \in Cards : flow[t].kind = "none" => flow[t].bad # p
    <3>1. flow[t].kind = "none" => flow[t].bad = None
      BY <1>0, <1>3 DEF FlowShape, Skips, CancelPc
    <3> QED
      BY <3>1, NotCards
  <2>3. FailedOnes' = FailedOnes
    BY <1>0, <2>1, <2>2 DEF FailedOnes
  <2>4. PICK cards \in SUBSET Cards : cards = flow'[t].cards
    BY <1>0 DEF Flow
  <2>5. \/ flow[t].kind = "none"
        \/ flow[t].kind = "skip" /\ cards = flow[t].cards
    BY <1>0, <1>3, <2>4 DEF Skips, FlowShape
  <2>6. SkipTaps' = SkipTaps \cup cards
    BY <1>0, <2>1, <2>4, <2>5 DEF SkipTaps
  <2>7. flow[t].pc # "idle" => SkipTaps' = SkipTaps
    <3>1. flow[t].pc # "idle" => flow[t].kind = "skip" /\ cards = flow[t].cards
      BY <1>0, <1>3, <2>4 DEF Skips, FlowShape
    <3>2. flow[t].pc # "idle" => cards \subseteq SkipTaps
      BY <2>4, <3>1 DEF SkipTaps
    <3> QED
      BY <2>6, <3>2
  <2> QED
    BY <2>1, <2>3, <2>6, <2>7
<1> QED
  BY <1>1, <1>2, <1>3

\* A sale that is in the books already was excused before it is recorded again.
LEMMA RecordAgain ==
  ASSUME TypeOK, ShapeOK, SingleFlight, SalesOK, SaleTaps, NEW t \in Taps,
         flow[t].pc = "write", NEW x \in txs, x.card = flow[t].cur
  PROVE  <<x.tap, x.card>> \in FailedOnes \/ x.card \in SkipTaps
<1>1. x.tap \in Taps /\ x.card \in Cards /\ flow[t].pc \in ConfirmPc \ {"find"}
  BY DEF TypeOK, ConfirmPc, Cards
<1>2. turn[x.card] # "confirmed"
  BY <1>1 DEF ShapeOK, FlowShape
<1>3. ~(flow[x.tap].pc \in {"journal", "mark"} /\ flow[x.tap].cur = x.card)
  <2>1. SUFFICES ASSUME flow[x.tap].pc \in {"journal", "mark"}, flow[x.tap].cur = x.card
                 PROVE  FALSE
    OBVIOUS
  <2>2. x.tap # t /\ flow[x.tap].pc \in ConfirmPc
    BY <2>1 DEF ConfirmPc
  <2> QED
    BY <1>1, <2>1, <2>2 DEF SingleFlight
<1>4. Excused(x)
  BY <1>2, <1>3 DEF SalesOK, SaleOK
<1>5. flow[x.tap].kind # "skip"
  BY DEF SaleTaps
<1> QED
  BY <1>1, <1>4, <1>5 DEF Excused, SkipTapped, FailedOnes, SkipTaps

\* A handler keeps the promise: each of its steps is one step of the contract.
LEMMA HandlersPromise ==
  ASSUME Inv, SaleTaps, NEW t \in Taps, Commits(t) \/ Skips(t)
  PROVE  SaleTaps' /\ [Contract!Next]_(Contract!vars)
<1>0. /\ TypeOK /\ ShapeOK /\ SingleFlight /\ SalesOK /\ ConfirmedIsWritten
      /\ flow \in [Taps -> Flow] /\ flow[t] \in Flow /\ FlowShape(t)
      /\ txs \subseteq [card: MoneyCards, tap: Taps]
      /\ turn \in [Cards -> {"pending", "confirmed", "skipped"}]
      /\ committed \subseteq Cards
  BY DEF Inv, GateInv, BooksInv, ShapeOK, TypeOK
<1>1. \A x \in txs : flow'[x.tap].kind \in {"one", "bundle"}
  <2>1. ASSUME NEW x \in txs PROVE flow'[x.tap].kind \in {"one", "bundle"}
    <3>1. x.tap \in Taps /\ flow[x.tap].kind \in {"one", "bundle"}
      BY <1>0 DEF SaleTaps
    <3> QED
      BY <1>0, <3>1, TapsStay
  <2> QED
    BY <2>1
<1>2. flow[t].pc \in ConfirmPc => flow[t].cur \in Cards
  BY <1>0 DEF FlowShape, Flow
<1>3. CASE Starts(t)
  <2>1. UNCHANGED <<turn, person, txs, committed>> /\ Commits(t) /\ ~Reports(t)
    BY <1>3 DEF Starts, Reports, ConfirmPc, Commits
  <2>2. UNCHANGED <<FailedOnes, SkipTaps>>
    BY <1>0, <2>1, MarksOf
  <2> QED
    BY <1>1, <2>1, <2>2 DEF SaleTaps, Contract!vars
<1>4. CASE Returns(t)
  <2>1. PICK p \in Cards : p = flow[t].cur
    BY <1>2, <1>4 DEF Returns, ConfirmPc
  <2>2. /\ committed' = committed \cup {p} /\ UNCHANGED <<person, txs>>
        /\ turn' = [turn EXCEPT ![p] = "confirmed"]
    BY <1>0, <1>4, <2>1 DEF Returns
  <2>3. Written(p)
    BY <1>0, <1>4, <2>1 DEF Returns, FlowShape, ConfirmedIsWritten
  <2>4. Commits(t) /\ flow[t].bad = None /\ flow'[t].bad = None
    <3>1. flow[t].bad = None
      BY <1>0, <1>4 DEF Returns, FlowShape
    <3>2. flow'[t].bad = None
      BY <1>0, <1>4, <3>1 DEF Returns, Goes
    <3> QED
      BY <1>4, <3>1, <3>2 DEF Commits
  <2>5. ~Reports(t)
    <3>1. SUFFICES ASSUME Reports(t) PROVE FALSE
      OBVIOUS
    <3>2. flow'[t].bad = p
      BY <1>0, <2>1, <3>1, TapsStay DEF Commits
    <3> QED
      BY <2>4, <3>2, NotCards
  <2>6. UNCHANGED <<FailedOnes, SkipTaps>>
    BY <1>0, <2>4, <2>5, MarksOf
  <2>7. Contract!Confirm(p)
    BY <2>2, <2>3, <2>6 DEF Contract!Confirm, Contract!InTheBooks, Written
  <2>8. Contract!Cards = Cards
    BY DEF Contract!Cards, Cards
  <2> QED
    BY <1>1, <2>2, <2>7, <2>8 DEF SaleTaps, Contract!Next
<1>5. CASE Reports(t)
  <2>1. PICK p \in Cards : p = flow[t].cur
    BY <1>2, <1>5 DEF Reports
  <2>2. UNCHANGED <<turn, person, txs, committed>> /\ Commits(t)
    BY <1>5 DEF Reports, Commits
  <2>3. FailedOnes' = FailedOnes \cup {<<t, p>>} /\ SkipTaps' = SkipTaps
    BY <1>0, <1>5, <2>1, <2>2, MarksOf
  <2>4. \A q \in Cards : <<t, q>> \notin FailedOnes
    <3>1. flow[t].bad = None
      BY <1>0, <1>5, TapsStay DEF Commits
    <3> QED
      BY <3>1, NotCards DEF FailedOnes
  <2>5. Contract!Cards = Cards
    BY DEF Contract!Cards, Cards
  <2>6. Contract!Fail(t, p)
    BY <2>2, <2>3, <2>4, <2>5 DEF Contract!Fail
  <2> QED
    BY <1>1, <2>2, <2>5, <2>6 DEF SaleTaps, Contract!Next
<1>6. ASSUME NEW q \in ConfirmPc \ {"find"}, Moves(t, q)
      PROVE  SaleTaps' /\ [Contract!Next]_(Contract!vars)
  <2>1. flow[t].pc \in ConfirmPc /\ UNCHANGED <<turn, committed>> /\ Commits(t)
    BY <1>6 DEF Moves, Commits, ConfirmPc
  <2>2. PICK p \in Cards : p = flow[t].cur
    BY <1>2, <2>1
  <2>3. UNCHANGED <<FailedOnes, SkipTaps>>
    <3>1. flow'[t].pc = q /\ q # "done"
      BY <1>0, <1>6 DEF Moves, ConfirmPc
    <3>2. ~Reports(t)
      BY <1>0, <3>1 DEF Reports, Flow
    <3> QED
      BY <1>0, <2>1, <3>2, MarksOf
  <2>4. Contract!Cards = Cards
    BY DEF Contract!Cards, Cards
  <2>5. flow[t].pc = "write" => turn[p] # "confirmed"
    BY <1>0, <2>2 DEF FlowShape, ConfirmPc
  <2>6. CASE UNCHANGED <<person, txs>>
    BY <1>1, <2>1, <2>3, <2>6 DEF SaleTaps, Contract!vars
  <2>7. CASE flow[t].pc = "write" /\ person = None /\ person' = flow[t].cur /\ txs' = txs
    <3>1. Contract!CreateContact(p)
      BY <2>1, <2>2, <2>3, <2>5, <2>7 DEF Contract!CreateContact
    <3> QED
      BY <1>1, <2>4, <2>7, <3>1 DEF SaleTaps, Contract!Next
  <2>8. CASE /\ flow[t].pc = "write" /\ flow[t].cur \in MoneyCards /\ person # None
             /\ person' = person /\ txs' = txs \cup {[card |-> flow[t].cur, tap |-> t]}
    <3>1. \A x \in txs : x.card = p => <<x.tap, p>> \in FailedOnes \/ p \in SkipTaps
      BY <1>0, <2>2, <2>8, RecordAgain
    <3>2. p \in MoneyCards /\ Contract!Record(t, p)
      BY <2>1, <2>2, <2>3, <2>5, <2>8, <3>1 DEF Contract!Record
    <3>3. flow'[t].kind \in {"one", "bundle"}
      BY <1>0, <2>1, TapsStay
    <3>4. SaleTaps'
      BY <1>1, <2>8, <3>3 DEF SaleTaps
    <3> QED
      BY <3>2, <3>4 DEF Contract!Next
  <2> QED
    BY <1>6, <2>6, <2>7, <2>8 DEF Moves
<1>7. CASE Skips(t)
  <2>1. UNCHANGED <<committed, person, txs>>
    BY <1>7 DEF Skips
  <2>2. FailedOnes' = FailedOnes
    <3>1. ~Reports(t)
      BY <1>0, <1>7, TapsStay DEF Commits
    <3> QED
      BY <1>0, <3>1, MarksOf
  <2>3. SaleTaps'
    BY <1>1, <2>1 DEF SaleTaps
  <2>4. Contract!Cards = Cards
    BY DEF Contract!Cards, Cards
  <2>5. CASE turn' = turn
    <3>1. PICK cards \in SUBSET Cards : SkipTaps' = SkipTaps \cup cards
      BY <1>0, <1>7, MarksOf
    <3>2. Contract!TapSkip(cards)
      BY <2>1, <2>2, <2>5, <3>1 DEF Contract!TapSkip
    <3> QED
      BY <2>3, <2>4, <3>2 DEF Contract!Next
  <2>6. CASE flow[t].pc = "cancelMark" /\ turn' = [turn EXCEPT ![flow[t].cur] = "skipped"]
    <3>1. flow[t].kind = "skip" /\ flow[t].cur \in flow[t].cards /\ flow[t].cards \subseteq Cards
      BY <1>0, <2>6 DEF FlowShape, CancelPc, Flow
    <3>2. PICK p \in Cards : p = flow[t].cur
      BY <3>1
    <3>3. p \in SkipTaps
      BY <3>1, <3>2 DEF SkipTaps
    <3>4. SkipTaps' = SkipTaps
      BY <1>0, <1>7, <2>6, MarksOf
    <3>5. Contract!Skip(p)
      BY <2>1, <2>2, <2>6, <3>2, <3>3, <3>4 DEF Contract!Skip
    <3> QED
      BY <2>3, <2>4, <3>5 DEF Contract!Next
  <2> QED
    BY <1>7, <2>5, <2>6 DEF Skips
<1> QED
  BY <1>3, <1>4, <1>5, <1>6, <1>7 DEF Commits

\* Confirm and Skip keep their promise to the merchant, for any cards, taps,
\* frames, failures and goals: the handlers of the capture cards, the gate and
\* the use cases together implement ProposalContract.
THEOREM ProposalImplementsContract == Spec => ProposalContractHolds
<1>1. Init => SaleTaps /\ Contract!Init
  <2> SUFFICES ASSUME Init PROVE SaleTaps /\ Contract!Init
    OBVIOUS
  <2>1. \A t \in Taps : flow[t] = IdleFlow
    BY DEF Init
  <2>2. FailedOnes = {}
    BY <2>1, NotCards DEF FailedOnes, IdleFlow
  <2>3. SkipTaps = {}
    BY <2>1 DEF SkipTaps, IdleFlow
  <2>4. Contract!Cards = Cards
    BY DEF Contract!Cards, Cards
  <2> QED
    BY <2>2, <2>3, <2>4 DEF Init, SaleTaps, Contract!Init
<1>2. Inv /\ SaleTaps /\ [Next]_vars => SaleTaps' /\ [Contract!Next]_(Contract!vars)
  <2> SUFFICES ASSUME Inv, SaleTaps, [Next]_vars
               PROVE  SaleTaps' /\ [Contract!Next]_(Contract!vars)
    OBVIOUS
  <2>1. TypeOK /\ ShapeOK
    BY DEF Inv, GateInv
  <2>2. CASE Repaints
    <3>1. UNCHANGED <<FailedOnes, SkipTaps>>
      BY <2>2 DEF Repaints, FailedOnes, SkipTaps
    <3>2. Contract!Forget
      BY <2>2, <3>1 DEF Repaints, Contract!Forget
    <3> QED
      BY <2>2, <3>2 DEF Repaints, SaleTaps, Contract!Next
  <2> QED
    BY <2>1, <2>2, StepEffects, HandlersPromise
<1> QED
  BY <1>1, <1>2, InvCorrect, InvInit, InvNext, PTL DEF Spec, ProposalContractHolds, Contract!Spec
=============================================================================
