---------------------------- MODULE MCAgentServer ----------------------------
(***************************************************************************)
(* Instances of AgentServer for TLC: what a merchant may say, what the     *)
(* model may make of it, the desks and the results of calls.  The words of *)
(* an amount are spelled here by the grammar of the language, not by the   *)
(* tables of the code: they are the reference the parser is held to.       *)
(***************************************************************************)
EXTENDS AgentServer

-----------------------------------------------------------------------------
(* Speech                                                                  *)

Digits(n) == Token("digits", n, FALSE)
Word(kind, n) == Token(kind, n, FALSE)
Filler == Word("enWord", 0)
ArFiller == Word("arWord", 0)

OneIf(condition, tokens) == IF condition THEN tokens ELSE <<>>

EnBelow100(n) ==
    IF n < 20 THEN OneIf(n > 0, <<Word("enUnit", n)>>)
    ELSE <<Word("enUnit", n - (n % 10))>> \o OneIf(n % 10 > 0, <<Word("enUnit", n % 10)>>)

EnBelow1000(n) ==
    OneIf(n >= 100, <<Word("enUnit", n \div 100), Word("enScale", 100)>>
                    \o OneIf(n % 100 > 0, <<Word("and", 0)>>))
    \o EnBelow100(n % 100)

EnglishWords(n) ==
    OneIf(n >= 1000000, EnBelow1000(n \div 1000000) \o <<Word("enScale", 1000000)>>)
    \o LET k == (n \div 1000) % 1000
       IN  OneIf(k > 0, EnBelow1000(k) \o <<Word("enScale", 1000)>>)
    \o EnBelow1000(n % 1000)

\* "a hundred", "a thousand"
EnglishWithArticle(n) ==
    LET words == EnglishWords(n)
    IN  IF Len(words) > 1 /\ words[1].n = 1 THEN <<Word("a", 0)>> \o Tail(words) ELSE words

ArBelow100(n) ==
    CASE n = 0 -> <<>>
      [] n <= 10 -> <<Word("arUnit", n)>>
      [] n < 20 -> <<Word("arUnit", n - 10), Word("arUnit", 10)>>
      [] OTHER -> OneIf(n % 10 > 0, <<Word("arUnit", n % 10)>>) \o <<Word("arUnit", n - (n % 10))>>

ArHundreds(h) ==
    CASE h = 0 -> <<>>
      [] h <= 2 -> <<Word("arHundred", 100 * h)>>
      [] OTHER -> <<Word("arGlued", 100 * h)>>

\* A one, a dual, a plural after three to ten, the singular after more.
ArScaled(n, one, many) ==
    CASE n = 0 -> <<>>
      [] n <= 2 -> <<Word(one.kind, n * one.n)>>
      [] n <= 10 -> <<Word("arUnit", n), many>>
      [] OTHER -> ArHundreds(n \div 100) \o ArBelow100(n % 100) \o <<one>>

\* Every word after the first has its "and" glued to it.
ArabicWords(n) ==
    LET words == ArScaled(n \div 1000000, Word("arMillion", 1000000), Word("arMillions", 1000000))
                 \o ArScaled((n \div 1000) % 1000, Word("arThousand", 1000),
                             Word("arThousand", 1000))
                 \o ArHundreds((n \div 100) % 10) \o ArBelow100(n % 100)
    IN  [i \in DOMAIN words |-> IF i = 1 THEN words[i] ELSE [words[i] EXCEPT !.waw = TRUE]]

\* The same with the plain hundred spelled with alef and ha.
ArabicWordsHa(n) ==
    LET words == ArabicWords(n)
    IN  [i \in DOMAIN words |->
            IF words[i].kind = "arHundred" /\ words[i].n = 100
            THEN [words[i] EXCEPT !.kind = "arHundredHa"] ELSE words[i]]

Riyals == Word("enCurrency", 0)
ArRiyals == Word("arCurrency", 0)

EnScales == {100, 1000, 1000000}

\* The ways to say n riyals.
Sayings(n) ==
    {<<Digits(n)>>, <<Digits(n), Riyals>>, <<ArRiyals, Digits(n)>>,
     EnglishWords(n) \o <<Riyals>>, EnglishWithArticle(n), ArabicWords(n) \o <<ArRiyals>>,
     ArabicWordsHa(n)}
    \cup {<<Digits(n \div s), Word("enScale", s)>> : s \in {m \in EnScales : n % m = 0}}
    \cup {<<Digits(n \div s[2]), Word(s[1], s[2])>> :
            s \in {m \in {<<"arHundred", 100>>, <<"arThousand", 1000>>} : n % m[2] = 0}}

\* A date in the goal, behind the amount or before it.
Dated(tokens) == {tokens, tokens \o <<Filler, Digits(2026)>>,
                  <<Filler, Digits(2026), Filler>> \o tokens}

-----------------------------------------------------------------------------
(* Names                                                                   *)

Letter(n) == Word("letter", n)
Ali == <<Letter(3), Letter(4)>>
Alia == Ali \o <<Letter(5)>>
SpacedAli == <<Letter(3), Letter(Blank), Letter(4)>>
Ahmad == <<Letter(Alef), Letter(6)>>
HamzaAhmad == <<Letter(AlefVariant), Letter(6)>>

Hint(name, id) == [displayName |-> name, contactId |-> id]

Request(goal, said, hints, currency) ==
    [goalText |-> goal, said |-> said, voiceHints |-> hints, defaultCurrency |-> currency,
     isMultiCurrencyEnabled |-> FALSE, ledgers |-> <<"ledger">>, merchantLocalDay |-> "today"]

Said(name, n) == [name |-> FoldSearch(name), major |-> n]

-----------------------------------------------------------------------------
(* Requests                                                                *)

\* Below the year numbers, so that a year beside them is no amount.
SmallAmounts == (1 .. 120) \cup {199, 200, 250, 300, 999, 1000, 1001, 1200}
LargeAmounts == {2500, 3000, 10000, 11000, 12345, 20000, 100000, 102000, 202020}

\* One contact and one amount, beside a contact whose name begins alike.
Clauses(amounts, currencies, names) ==
    UNION {{Request(name \o tokens, {Said(name, n)}, <<Hint(Ali, "a"), Hint(Alia, "b")>>, currency) :
               tokens \in UNION {Dated(t) : t \in Sayings(n)}} :
           n \in amounts, currency \in currencies, name \in names}

Pairs == {<<300, 3000>>, <<3000, 300>>, <<25, 2500>>}

\* Two contacts, each with an amount behind the name; in the second the goal
\* spells one of them with another alef than the hint does.
TwoClauses ==
    LET Goals(first, second, pair) ==
            {first \o t \o <<Filler>> \o second \o u : t \in Sayings(pair[1]), u \in Sayings(pair[2])}
        Saids(first, second, pair) == {Said(first, pair[1]), Said(second, pair[2])}
        Goal(first, second, hints, currency, pair) ==
            {Request(goal, Saids(FoldSearch(first), second, pair), hints, currency) :
                goal \in Goals(first, second, pair)}
    IN  UNION {Goal(Ali, Alia, <<Hint(Alia, "b"), Hint(Ali, "a")>>, "YER", pair)
               \cup Goal(Alia, Ali, <<Hint(Ali, "a"), Hint(Alia, "b")>>, "YER", pair)
               \cup Goal(HamzaAhmad, Ali, <<Hint(Ali, "a"), Hint(Ahmad, "c")>>, "USD", pair) :
               pair \in Pairs}

\* Namesakes, for the tools that resolve a name.
HintLists ==
    {<<Hint(n1, "a"), Hint(n2, "b"), Hint(n3, id)>> :
        n1 \in {Ali, Ahmad, HamzaAhmad}, n2 \in {Ali, Alia, SpacedAli},
        n3 \in {SpacedAli, Ali, Ahmad, HamzaAhmad}, id \in {"c", Malformed}}

Unspoken ==
    {[Request(<<Filler>>, {}, hints, "USD") EXCEPT !.isMultiCurrencyEnabled = multi,
                                                   !.ledgers = ledgers] :
        hints \in HintLists, multi \in {FALSE}, ledgers \in {<<"ledger">>}}
    \cup {[Request(<<Filler>>, {}, <<>>, "USD") EXCEPT !.isMultiCurrencyEnabled = multi,
                                                       !.ledgers = ledgers] :
        multi \in BOOLEAN, ledgers \in {<<>>, <<"ledger">>, <<"ledger", "other">>}}

MCRequests ==
    Clauses(SmallAmounts, {"YER", "USD"}, {Ali})
        \cup Clauses(LargeAmounts, {"YER", "USD"}, {Alia})
        \cup Clauses({1000000, 2000000, 3005000}, {"YER"}, {Ali})
        \cup TwoClauses \cup Unspoken

-----------------------------------------------------------------------------
(* What the model makes of them                                            *)

Named(name) == [name |-> name, uuid |-> ""]
ById(uuid) == [name |-> <<>>, uuid |-> uuid]

Money(tool, hint, amount, currency, ledger) ==
    [tool |-> tool, contactHint |-> hint, amountMinor |-> amount, currencyCode |-> currency,
     ledgerId |-> ledger]

\* The right amount, a slip of it, or one of its own.
SpokenCalls(r) ==
    UNION {{Money(tool, Named(said.name), amount, "", "") :
               amount \in Slips(said.major * MinorUnitFactor(r.defaultCurrency),
                                MinorUnitFactor(r.defaultCurrency)) \cup {777},
               tool \in {"propose_debt", "propose_payment"}} :
           said \in r.said}

Hints == {Named(n) : n \in {<<>>, Ali, Alia, SpacedAli, Ahmad, HamzaAhmad}}
            \cup {ById("a"), ById("x")}

ResolvingCalls(r) ==
    {Money("propose_debt", hint, amount, currency, ledger) :
        hint \in Hints, amount \in {0, 500}, currency \in {"", "YER"},
        ledger \in {"", "ledger", Malformed}}
    \cup {[tool |-> "propose_statement", contactHint |-> hint, contactId |-> id,
           ledgerId |-> ledger] :
        hint \in Hints, id \in {"", "a", "b", Malformed}, ledger \in {"", Malformed}}
    \cup {[tool |-> "propose_whatsapp_drafts", contactIds |-> ids, bodies |-> bodies,
           tonesGiven |-> tones[1], tones |-> tones[2], tone |-> ""] :
        ids \in {<<h>> : h \in Hints} \cup (Hints \X Hints),
        bodies \in {<<"hello">>, <<"hello", "dear">>, <<"hello", "">>},
        tones \in {<<FALSE, <<>>>>, <<TRUE, <<>>>>, <<TRUE, <<"firm", "brief">>>>}}

PlainCalls(r) ==
    {[tool |-> "parse_goal", goalText |-> text, goalClass |-> class] :
        text \in {<<>>, <<Filler>>}, class \in {"ask", "gossip"}}
    \cup {[tool |-> "propose_create_contact", name |-> name, ledgerId |-> ledger] :
        name \in {<<>>, Ali}, ledger \in {"", "ledger", Malformed}}
    \cup {[tool |-> "propose_create_ledger", name |-> name, ledgerType |-> type] :
        name \in {<<>>, Ali}, type \in {"", "suppliers", "friends"}}
    \cup {[tool |-> "propose_closing_plan", stepTitles |-> titles, stepTools |-> tools,
           localDay |-> day] :
        titles \in {<<>>, <<"close">>, <<"close", "call">>, <<"close", "">>},
        tools \in {<<>>, <<"propose_debt">>, <<"send_money">>}, day \in {"", "tomorrow"}}

MCCalls(r) ==
    IF r.said # {} THEN SpokenCalls(r)
    ELSE IF r.voiceHints # <<>> THEN ResolvingCalls(r)
    ELSE ResolvingCalls(r) \cup PlainCalls(r)

-----------------------------------------------------------------------------
(* Desks and results                                                       *)

Phone(code) == [e164 |-> TRUE, code |-> code]
NotAPhone == [e164 |-> FALSE, code |-> ""]
Saudi == Phone("966")

Phones == {Saudi, Phone("20"), Phone("44"), Phone("1"), Phone("967"), Phone("7"), NotAPhone}

Configuration == [allowDial : BOOLEAN, allowlist : {Phones, {}}, allowlistRegion : {"US", "CA"}]

\* A phone of every country in a table of either side, allowed on both.
Coded == {Phone(p[1]) : p \in CallingPrefixes \cup DeviceCallingPrefixes}
Everyone == [allowDial |-> TRUE, allowlist |-> Coded, allowlistRegion |-> "US"]

MCDesks ==
    [contact : [phone : Phones, doNotCall : BOOLEAN], policy : Configuration,
     settings : Configuration, uiLocale : {"ar", "en"}]
    \cup [contact : [phone : Coded, doNotCall : {FALSE}], policy : {Everyone},
          settings : {Everyone}, uiLocale : {"ar"}]

Amount(kind) == [kind |-> kind, value |-> 5000]

MCResults ==
    [outcome : {"absent", "promised", "refused", "other"},
     amount : {Absent} \cup {Amount(k) : k \in {"int", "wholeFloat", "fraction", "bool"}},
     currency : {"absent", "blank", "YER", "notText"},
     date : {"absent", "day", "noSuchDay", "malformed"},
     rest : {"absent", "good", "bad"}]

\* Results are told apart at the desks with one phone: no gate reads them.
Apart ==
    (desk # Nothing /\ desk.contact.phone # Saudi /\ report # Nothing) =>
        report.result \in {NoFields, [outcome |-> "promised", amount |-> Amount("int"),
                                      currency |-> "YER", date |-> "day", rest |-> "good"]}
=============================================================================
