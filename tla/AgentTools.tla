----------------------------- MODULE AgentTools -----------------------------
(***************************************************************************)
(* The function tools of the closing agent (tools.py with the helpers of   *)
(* proposal.py).  In a turn the device sends its DeviceAgentRequest, the   *)
(* model hears the goal and calls tools with arguments of its own making;  *)
(* each tool answers with a proposal or with an error the model may act    *)
(* on.  A tool keeps nothing between two calls, so every call of a turn    *)
(* has a behaviour of its own.                                             *)
(*                                                                         *)
(* A name is a sequence of letter tokens.  An argument that may be a name  *)
(* or a UUID is a record of both; "" is a blank id and Malformed stands    *)
(* for any other text that is not a UUID.  An amount that is no integer is *)
(* rejected like one that is not positive and shows as 0.  Titles, bodies, *)
(* notes, goods, phones and tones only matter as blank or not.             *)
(***************************************************************************)
EXTENDS SpokenAmount

CONSTANTS
    Requests,     \* what the device may send: goalText, voiceHints (displayName and
                  \* contactId), ledgers, defaultCurrency, isMultiCurrencyEnabled,
                  \* merchantLocalDay; and `said`, the names and amounts in major units
                  \* the merchant spoke, which no code reads
    Calls(_)      \* the tool calls the model may make for a request

IsList(s) == Len(s) \in Nat /\ DOMAIN s = 1..Len(s)

ASSUME RequestsAssumption ==
    \A r \in Requests :
        /\ IsList(r.voiceHints)
        /\ \A c \in Calls(r) : c.tool = "propose_whatsapp_drafts" => IsList(c.contactIds)

VARIABLES
    request,      \* daftarContext of the turn, <<>> before it
    call,         \* the tool call
    answer        \* its answer

toolVars == <<request, call, answer>>

Malformed == "not a uuid"

IsUuid(id) == id \notin {"", Malformed}

Error == [tool |-> "error"]

GoalClasses == {"capture_debt", "capture_payment", "ask", "close_day", "statement",
                "create_contact", "create_ledger", "backup_only"}

LedgerTypes == {"customers", "suppliers", "personal", "custom"}

ProposalTools == {"parse_goal", "propose_debt", "propose_payment",
                  "propose_create_contact", "propose_create_ledger",
                  "propose_closing_plan", "propose_whatsapp_drafts",
                  "propose_statement"}

\* _CONFIRM_ALWAYS, and confirm_required=False of parse_goal.
MakeProposal(tool, payload) ==
    [tool |-> tool, payload |-> payload, confirmRequired |-> tool # "parse_goal"]

-----------------------------------------------------------------------------
(* Names, ids and currencies of a request                                  *)

Blank == 0
Alef == 1
AlefVariant == 2

\* _fold_search: every alef is the bare one.
FoldSearch(text) ==
    LET Fold(t) == IF t.kind = "letter" /\ t.n = AlefVariant THEN [t EXCEPT !.n = Alef] ELSE t
    IN  [i \in DOMAIN text |-> Fold(text[i])]

\* Names are also alike when they differ in blanks only.
FoldArabicName(name) == SelectSeq(FoldSearch(name), LAMBDA t : t.n # Blank)

\* The spoken name of a contact the device sent a hint for.
DisplayNameForContactId(r, id) ==
    LET named == {i \in DOMAIN r.voiceHints :
                     r.voiceHints[i].contactId = id /\ r.voiceHints[i].displayName # <<>>}
    IN  IF ~IsUuid(id) \/ named = {} THEN <<>> ELSE r.voiceHints[Min(named)].displayName

\* A hint that is a UUID becomes the id, and the hint the name of that id.
SpokenHintAndId(r, hint, contactId) ==
    LET given == IF IsUuid(contactId) THEN contactId ELSE ""
        id == IF given = "" THEN hint.uuid ELSE given
    IN  [hint |-> IF hint.name = <<>> THEN DisplayNameForContactId(r, id) ELSE hint.name,
         id |-> id]

\* Mutant: the first contact that sounds like the name.
ResolveFirst(r, name) ==
    LET alike == {i \in DOMAIN r.voiceHints :
                     /\ IsUuid(r.voiceHints[i].contactId)
                     /\ FoldArabicName(r.voiceHints[i].displayName) = FoldArabicName(name)}
    IN  IF name = <<>> \/ alike = {} THEN "" ELSE r.voiceHints[Min(alike)].contactId

\* The one contact of that name, else the one whose folded name is the same.
ResolveContactId(r, name) ==
    LET Hinted(Same(_)) == {i \in DOMAIN r.voiceHints :
                               /\ IsUuid(r.voiceHints[i].contactId)
                               /\ Same(r.voiceHints[i].displayName)}
        exact == Hinted(LAMBDA n : n = name)
        folded == Hinted(LAMBDA n : FoldArabicName(n) = FoldArabicName(name))
        One(s) == r.voiceHints[CHOOSE i \in s : TRUE].contactId
    IN  IF name = <<>> THEN ""
        ELSE IF Cardinality(exact) = 1 THEN One(exact)
        ELSE IF exact = {} /\ Cardinality(folded) = 1 THEN One(folded)
        ELSE ""

\* Without several currencies the default one is forced.
ResolveCurrency(r, code) ==
    IF r.isMultiCurrencyEnabled /\ code # "" THEN code ELSE r.defaultCurrency

-----------------------------------------------------------------------------
(* The tools                                                               *)

ParseGoal(c) ==
    IF c.goalText = <<>> \/ c.goalClass \notin GoalClasses THEN Error
    ELSE MakeProposal("parse_goal", [goalClass |-> c.goalClass, notes |-> c.goalText])

\* propose_debt and propose_payment.
MoneyProposal(r, c) ==
    LET spoken == SpokenHintAndId(r, c.contactHint, "")
        currency == ResolveCurrency(r, c.currencyCode)
        names == {FoldSearch(r.voiceHints[i].displayName) : i \in DOMAIN r.voiceHints}
        amount == CorrectZeroDecimalScale(FoldSearch(r.goalText), FoldSearch(spoken.hint),
                                          names, currency, c.amountMinor)
    IN  IF \/ spoken.hint = <<>>
           \/ c.amountMinor <= 0
           \/ c.ledgerId = Malformed
        THEN Error
        ELSE MakeProposal(c.tool,
                [contactHint |-> spoken.hint, amountMinor |-> amount,
                 currencyCode |-> currency, ledgerId |-> c.ledgerId,
                 contactId |-> IF spoken.id # "" THEN spoken.id
                               ELSE ResolveContactId(r, spoken.hint)])

\* The only ledger is filled in; with several of them the device asks.
ProposeCreateContact(r, c) ==
    LET ledger == IF c.ledgerId # "" THEN c.ledgerId
                  ELSE IF Len(r.ledgers) = 1 THEN r.ledgers[1] ELSE ""
    IN  IF c.name = <<>> \/ ledger = Malformed THEN Error
        ELSE MakeProposal("propose_create_contact",
                          [name |-> c.name, ledgerId |-> ledger])

ProposeCreateLedger(c) ==
    LET type == IF c.ledgerType = "" THEN "customers" ELSE c.ledgerType
    IN  IF c.name = <<>> \/ type \notin LedgerTypes THEN Error
        ELSE MakeProposal("propose_create_ledger", [name |-> c.name, type |-> type])

\* stepTools is parallel to stepTitles, may be shorter and may have blanks.
ProposeClosingPlan(r, c) ==
    LET Tool(i) == IF i \in DOMAIN c.stepTools THEN c.stepTools[i] ELSE ""
    IN  IF \/ c.stepTitles = <<>>
           \/ \E i \in DOMAIN c.stepTitles :
                c.stepTitles[i] = "" \/ Tool(i) \notin ProposalTools \cup {""}
        THEN Error
        ELSE MakeProposal("propose_closing_plan",
                [steps |-> [i \in DOMAIN c.stepTitles |->
                               [title |-> c.stepTitles[i], tool |-> Tool(i)]],
                 localDay |-> IF c.localDay # "" THEN c.localDay ELSE r.merchantLocalDay])

\* Mutant: contacts that do not resolve are left out, their bodies are not.
DraftsZipped(r, c) ==
    LET ids == [i \in DOMAIN c.contactIds |->
                   IF IsUuid(c.contactIds[i].uuid) THEN c.contactIds[i].uuid
                   ELSE ResolveContactId(r, c.contactIds[i].name)]
        found == SelectSeq(ids, LAMBDA id : id # "")
    IN  IF found = <<>> \/ Len(ids) # Len(c.bodies) THEN Error
        ELSE MakeProposal("propose_whatsapp_drafts",
                [i \in DOMAIN found |->
                    [contactId |-> found[i], tone |-> "polite", body |-> c.bodies[i]]])

\* Parallel lists; the one of the tones may be left out, and one tone then goes
\* for all.  One entry that does not resolve fails the whole call.
ProposeWhatsappDrafts(r, c) ==
    LET Id(i) == IF IsUuid(c.contactIds[i].uuid) THEN c.contactIds[i].uuid
                 ELSE ResolveContactId(r, c.contactIds[i].name)
        Tone(i) == IF c.tonesGiven THEN c.tones[i]
                   ELSE IF c.tone # "" THEN c.tone ELSE "polite"
        Fails(i) == c.bodies[i] = "" \/ Tone(i) = "" \/ Id(i) = ""
    IN  IF \/ c.contactIds = <<>>
           \/ Len(c.contactIds) # Len(c.bodies)
           \/ c.tonesGiven /\ Len(c.tones) # Len(c.contactIds)
        THEN Error
        ELSE IF \E i \in DOMAIN c.contactIds : Fails(i) THEN Error
        ELSE MakeProposal("propose_whatsapp_drafts",
                [i \in DOMAIN c.contactIds |->
                    [contactId |-> Id(i), tone |-> Tone(i), body |-> c.bodies[i]]])

\* A miss is not an error: the device looks the name up.
ProposeStatement(r, c) ==
    LET spoken == SpokenHintAndId(r, c.contactHint, c.contactId)
        id == IF spoken.id # "" THEN spoken.id ELSE ResolveContactId(r, spoken.hint)
    IN  IF \/ Malformed \in {c.contactId, c.ledgerId}
           \/ id = "" /\ spoken.hint = <<>>
        THEN Error
        ELSE MakeProposal("propose_statement",
                [contactId |-> id, contactHint |-> spoken.hint, ledgerId |-> c.ledgerId])

-----------------------------------------------------------------------------
(* A turn                                                                  *)

ToolsInit ==
    /\ request = <<>>
    /\ call = <<>>
    /\ answer = <<>>

\* POST /run with the context of the device.
StartTurn ==
    /\ request = <<>>
    /\ request' \in Requests
    /\ UNCHANGED <<call, answer>>

CallTool(c, tool, result) ==
    /\ c.tool = tool
    /\ call' = c
    /\ answer' = result
    /\ UNCHANGED request

RunTool ==
    /\ request # <<>> /\ call = <<>>
    /\ \E c \in Calls(request) :
          \/ CallTool(c, "parse_goal", ParseGoal(c))
          \/ CallTool(c, "propose_debt", MoneyProposal(request, c))
          \/ CallTool(c, "propose_payment", MoneyProposal(request, c))
          \/ CallTool(c, "propose_create_contact", ProposeCreateContact(request, c))
          \/ CallTool(c, "propose_create_ledger", ProposeCreateLedger(c))
          \/ CallTool(c, "propose_closing_plan", ProposeClosingPlan(request, c))
          \/ CallTool(c, "propose_whatsapp_drafts", ProposeWhatsappDrafts(request, c))
          \/ CallTool(c, "propose_statement", ProposeStatement(request, c))

ToolsNext == StartTurn \/ RunTool

-----------------------------------------------------------------------------
(* Properties                                                              *)

\* Types of the answers.
ToolsTypeOK ==
    answer # <<>> =>
        /\ answer.tool \in ProposalTools \cup {"error"}
        /\ answer.tool \in {"propose_debt", "propose_payment"} =>
              answer.payload.amountMinor \in Nat \ {0}

\* What an amount in minor units becomes when the model is off by a factor of
\* ten or a hundred, or forgets the minor units.
Slips(expected, factor) ==
    {expected, expected * 10, expected * 100, expected \div factor}

\* A debt or payment proposal carries the amount the merchant said for that
\* contact, in digits, words or both, in either language, with years and other
\* contacts' amounts around it, though the model slipped; an amount that is no
\* slip of it stays the model's own.
MoneyAsSpoken ==
    answer # <<>> /\ answer.tool \in {"propose_debt", "propose_payment"} =>
        \A said \in request.said :
            LET factor == MinorUnitFactor(answer.payload.currencyCode)
                expected == said.major * factor
            IN  FoldSearch(call.contactHint.name) = said.name =>
                    answer.payload.amountMinor =
                        IF call.amountMinor \in Slips(expected, factor)
                        THEN expected ELSE call.amountMinor

\* The name names this contact and no other: nobody else sounds like it, or
\* nobody else is spelt like it.
OnlyOneNamed(name, id) ==
    \E i \in DOMAIN request.voiceHints :
        LET hint == request.voiceHints[i]
        IN  /\ hint.contactId = id
            /\ FoldArabicName(hint.displayName) = FoldArabicName(name)
            /\ \A j \in DOMAIN request.voiceHints \ {i} :
                  LET other == request.voiceHints[j]
                  IN  IsUuid(other.contactId) =>
                        \/ FoldArabicName(other.displayName) # FoldArabicName(name)
                        \/ hint.displayName = name /\ other.displayName # name

\* An id the server fills in on its own is that of the only contact the name can
\* mean: with namesakes the merchant is asked, never a ledger entry guessed.
IdNeedsUniqueName ==
    answer # <<>> /\ answer.tool \in {"propose_debt", "propose_payment", "propose_statement"} =>
        LET given == {call.contactHint.uuid} \cup
                        (IF call.tool = "propose_statement" THEN {call.contactId} ELSE {})
        IN  answer.payload.contactId \in given \cup {""}
            \/ OnlyOneNamed(answer.payload.contactHint, answer.payload.contactId)

\* A batch of drafts is complete and nobody gets another one's text.
DraftsReachTheNamed ==
    answer # <<>> /\ answer.tool = "propose_whatsapp_drafts" =>
        /\ Len(answer.payload) = Len(call.contactIds)
        /\ \A i \in DOMAIN answer.payload :
              /\ answer.payload[i].body = call.bodies[i]
              /\ \/ answer.payload[i].contactId = call.contactIds[i].uuid
                 \/ /\ ~IsUuid(call.contactIds[i].uuid)
                    /\ OnlyOneNamed(call.contactIds[i].name, answer.payload[i].contactId)
=============================================================================
