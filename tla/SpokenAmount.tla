---------------------------- MODULE SpokenAmount ----------------------------
(***************************************************************************)
(* How the agent server hears an amount in the merchant's goal and snaps   *)
(* the model's amountMinor to it: the spoken-amount part of proposal.py,   *)
(* whose twin on the device is correct_spoken_amount_minor.dart.           *)
(*                                                                         *)
(* A text is a sequence of tokens as the regular expressions and the word  *)
(* tables see them once _normalize_spoken_text has folded digits, alefs    *)
(* and separators: a run of digits, a number word with its value, the      *)
(* currency, or one letter of a name.  Where the code returns None the     *)
(* operators return 0, which `or` treats alike.                            *)
(***************************************************************************)
EXTENDS Integers, SequencesExt, FiniteSetsExt

\* waw tells a word with a glued "and" in front.
Token(kind, n, waw) == [kind |-> kind, n |-> n, waw |-> waw]

\* _EN_ONES and _EN_TENS: both are added to the group being read.
EnglishUnits == (1..19) \cup {20, 30, 40, 50, 60, 70, 80, 90}

\* hundred, thousand and million: the words that multiply in English.
EnglishScales == {100, 1000, 1000000}

\* _AR_ONES and _AR_TENS.
ArabicUnits == (1..10) \cup {20, 30, 40, 50, 60, 70, 80, 90}

\* Words _EN_WORD_RE and _AR_WORD_RE find; digits are invisible to both.
IsEnglishWord(t) ==
    t.kind \in {"enUnit", "enScale", "kilo", "and", "a", "enCurrency", "letter", "enWord"}

IsArabicWord(t) ==
    t.kind \in {"arUnit", "arGlued", "arHundred", "arHundredHa", "arThousand", "arMillion",
                "arMillions", "waw", "arCurrency", "arWord"}

\* The scale words that may follow digits: k counts, the Arabic duals, the
\* plural of million, the spelling of hundred with alef and ha (arHundredHa),
\* and any word with a glued "and" do not.
IsDigitScale(t) ==
    /\ ~t.waw
    /\ \/ t.kind \in {"enScale", "kilo"}
       \/ t.kind = "arHundred" /\ t.n = 100
       \/ t.kind = "arThousand" /\ t.n = 1000
       \/ t.kind = "arMillion" /\ t.n = 1000000

\* "2 hundred", "5k": the last such pair of the text.
FromMixedDigitScale(text) ==
    LET pairs == {i \in 1 .. Len(text) - 1 :
                     text[i].kind = "digits" /\ IsDigitScale(text[i + 1])}
    IN  IF pairs = {} THEN 0 ELSE text[Max(pairs)].n * text[Max(pairs) + 1].n

OneIfNone(current) == IF current = 0 THEN 1 ELSE current

\* A sum of groups; a hundred multiplies the group, a thousand or a million
\* closes it.  The article counts as one only before a scale.
FromEnglishWords(text) ==
    LET words == SelectSeq(text, IsEnglishWord)
        Closes(i) == words[i].kind = "enScale" /\ words[i].n > 100
        Article(i) == /\ words[i].kind = "a"
                      /\ i < Len(words)
                      /\ words[i + 1].kind = "enScale"
        Read(sum, i) ==
            CASE Article(i) -> [sum EXCEPT !.current = @ + 1]
              [] words[i].kind = "enUnit" -> [sum EXCEPT !.current = @ + words[i].n]
              [] Closes(i) -> [total |-> sum.total + OneIfNone(sum.current) * words[i].n,
                               current |-> 0]
              [] words[i].kind = "enScale" -> [sum EXCEPT !.current = OneIfNone(@) * 100]
              [] OTHER -> sum
        sum == FoldLeftDomain(Read, [total |-> 0, current |-> 0], words)
    IN  sum.total + sum.current

\* A dual stands for its own value, whatever was read before it.
IsDual(t) ==
    \/ t.kind = "arHundred" /\ t.n = 200
    \/ t.kind = "arThousand" /\ t.n = 2000
    \/ t.kind = "arMillion" /\ t.n = 2000000

\* The same sum in Arabic, where units come before tens and three to nine
\* hundred are one word.  A glued "and" is dropped from a number word.
FromArabicWords(text) ==
    LET words == SelectSeq(text, IsArabicWord)
        Closes(t) == t.kind \in {"arThousand", "arMillion", "arMillions"}
        Read(sum, t) ==
            CASE t.kind \in {"arUnit", "arGlued"} -> [sum EXCEPT !.current = @ + t.n]
              [] t.kind \in {"arHundred", "arHundredHa"} ->
                     [sum EXCEPT !.current = IF IsDual(t) THEN 200 ELSE OneIfNone(@) * 100]
              [] Closes(t) -> [total |-> sum.total +
                                   IF IsDual(t) THEN t.n ELSE OneIfNone(sum.current) * t.n,
                               current |-> 0]
              [] OTHER -> sum
        sum == FoldLeft(Read, [total |-> 0, current |-> 0], words)
    IN  sum.total + sum.current

\* Digits before or after one currency word, matched from the left without
\* overlap: the last match above zero, with the place where it starts.
CurrencyAnchored(text, currency) ==
    LET Anchors(i, j) == text[i].kind = "digits" /\ text[j].kind = currency
        Scan(found, i) ==
            IF i < found.next \/ i = Len(text) THEN found
            ELSE LET digits == IF Anchors(i, i + 1) THEN i
                               ELSE IF Anchors(i + 1, i) THEN i + 1 ELSE 0
                 IN  IF digits = 0 THEN found
                     ELSE IF text[digits].n = 0 THEN [found EXCEPT !.next = i + 2]
                     ELSE [next |-> i + 2, start |-> i, value |-> text[digits].n]
    IN  FoldLeftDomain(Scan, [next |-> 1, start |-> 0, value |-> 0], text)

FromCurrencyAnchoredDigit(text) ==
    LET en == CurrencyAnchored(text, "enCurrency")
        ar == CurrencyAnchored(text, "arCurrency")
    IN  IF en.start > ar.start THEN en.value ELSE ar.value

IsYear(n) == n \in 1900..2100

\* Digits that are not part of a decimal and not glued to a full stop; the
\* last one that is not a year, else the last year.
LastWholeInteger(text) ==
    LET Whole(i) ==
            /\ text[i].kind = "digits" /\ text[i].n > 0
            /\ i > 1 => text[i - 1].kind # "point"
            /\ i < Len(text) => text[i + 1].kind \notin {"point", "stop"}
        whole == {i \in DOMAIN text : Whole(i)}
        amounts == {i \in whole : ~IsYear(text[i].n)}
    IN  IF whole = {} THEN 0
        ELSE text[Max(IF amounts # {} THEN amounts ELSE whole)].n

\* The readings in the order in which they are tried.
ParseSpokenMajor(text) ==
    LET readings == <<FromMixedDigitScale(text), FromEnglishWords(text),
                      FromArabicWords(text), FromCurrencyAnchoredDigit(text),
                      LastWholeInteger(text)>>
        heard == {i \in DOMAIN readings : readings[i] > 0}
    IN  IF heard = {} THEN 0 ELSE readings[Min(heard)]

-----------------------------------------------------------------------------
(* Which part of the goal belongs to a contact                             *)

OccursAt(text, name, i) ==
    /\ i + Len(name) - 1 <= Len(text)
    /\ SubSeq(text, i, i + Len(name) - 1) = name

\* Mutant: the first place, whichever name stands there.
FindHintIndexFirst(text, name, siblings) ==
    LET places == {i \in DOMAIN text : OccursAt(text, name, i)}
    IN  IF places = {} THEN 0 ELSE Min(places)

\* The first place of a name that is not the beginning of a longer sibling.
FindHintIndex(text, name, siblings) ==
    LET Shadowed(i) == \E s \in siblings : /\ Len(s) > Len(name)
                                           /\ IsPrefix(name, s)
                                           /\ OccursAt(text, s, i)
        places == {i \in DOMAIN text : OccursAt(text, name, i) /\ ~Shadowed(i)}
    IN  IF places = {} THEN 0 ELSE Min(places)

\* From the contact's name to the next other name; the whole goal when the
\* name does not occur in it.
GoalSlice(goal, hint, names) ==
    LET siblings == names \ {hint, <<>>}
        start == FindHintIndex(goal, hint, siblings)
        suffix == SubSeq(goal, start + Len(hint), Len(goal))
        next == {FindHintIndex(suffix, s, siblings) : s \in siblings} \ {0}
    IN  IF hint = <<>> \/ start = 0 THEN goal
        ELSE IF next = {} THEN SubSeq(goal, start, Len(goal))
        ELSE SubSeq(goal, start, start + Len(hint) + Min(next) - 2)

\* CurrencyPrecision: YER has no decimals, every other currency two.
MinorUnitFactor(currency) == IF currency = "YER" THEN 1 ELSE 100

\* The model's amount is snapped to the spoken one when it is off by a factor
\* of ten or a hundred, or in major units; any other amount is the model's own.
CorrectZeroDecimalScale(goal, hint, names, currency, amountMinor) ==
    LET spoken == ParseSpokenMajor(GoalSlice(goal, hint, names))
        factor == MinorUnitFactor(currency)
        expected == spoken * factor
    IN  IF spoken = 0 THEN amountMinor
        ELSE IF \/ amountMinor \in {expected, expected * 10, expected * 100}
                \/ factor > 1 /\ amountMinor = spoken
             THEN expected
             ELSE amountMinor
=============================================================================
