------------------------------ MODULE CallStatus ------------------------------
(***************************************************************************)
(* What becomes of a call CALL-E reports: get_map.py turns the report into *)
(* the answer of GET /v1/calls/{runId}, call_get_result.dart reads that    *)
(* answer, and collection_call_persist.dart decides whether a promise is   *)
(* kept of it.                                                             *)
(*                                                                         *)
(* A report is its status, task_completed and the structured result of the *)
(* recipient.  A field of a result is its JSON kind with, for an amount,   *)
(* its value.  `rest` stands for completed_count, language,                *)
(* acknowledged_hold and evidence_quote, which only matter as well typed   *)
(* or not.  Absent and null are one, as in the code.                       *)
(***************************************************************************)
EXTENDS Integers

TerminalStatuses == {"completed", "failed", "canceled"}

OutcomeValues == {"promised", "refused", "voicemail", "no_answer", "wrong_number",
                  "callback_requested"}

Absent == [kind |-> "absent"]

\* A number without a fraction; 1500.0 is one.
IsWhole(field) == field.kind \in {"int", "wholeFloat"}

\* Mutant: a fraction is cut off.
CoerceIntTruncating(field) ==
    IF field.kind \in {"int", "wholeFloat", "fraction"}
    THEN [field EXCEPT !.kind = "int"] ELSE Absent

\* _coerce_int_field of a present value.
CoerceInt(field) == IF IsWhole(field) THEN [field EXCEPT !.kind = "int"] ELSE Absent

\* What _DATE_RE takes for a date, and what is a day of the calendar.
LooksLikeDate(date) == date \in {"day", "noSuchDay"}
IsCalendarDay(date) == date = "day"

\* _merge_recipient_fields and _merge_task_fields: a field of the wrong type is
\* left out of the answer.
MergeFields(result) ==
    [outcome |-> IF result.outcome \in OutcomeValues THEN result.outcome ELSE "absent",
     amount |-> CoerceInt(result.amount),
     currency |-> IF result.currency = "notText" THEN "absent" ELSE result.currency,
     date |-> IF LooksLikeDate(result.date) THEN result.date ELSE "absent",
     rest |-> IF result.rest = "bad" THEN "absent" ELSE result.rest]

\* Some field was there and of the wrong type.
SchemaInvalid(result) ==
    \/ result.outcome = "other"
    \/ result.amount # Absent /\ ~IsWhole(result.amount)
    \/ result.currency = "notText"
    \/ result.date = "malformed"
    \/ result.rest = "bad"

NoFields == [outcome |-> "absent", amount |-> Absent, currency |-> "absent",
             date |-> "absent", rest |-> "absent"]

\* map_call_get_response; NoFields stands for no structured result.
MapCallGetResponse(report) ==
    LET structured == MergeFields(report.result)
        terminal == report.status \in TerminalStatuses
    IN  [status |-> report.status, terminal |-> terminal, structured |-> structured,
         needsHuman |->
            \/ SchemaInvalid(report.result)
            \/ /\ report.status # "completed" /\ terminal
               /\ structured.outcome = "absent"
            \/ /\ ~terminal /\ report.taskCompleted
               /\ structured = NoFields]

-----------------------------------------------------------------------------
(* The device                                                              *)

\* isInvalidPresent of PromisedAmountMinor and of PromisedCalendarDay.
AmountInvalid(structured) == structured.amount # Absent /\ ~IsWhole(structured.amount)
DateInvalid(structured) == structured.date # "absent" /\ ~IsCalendarDay(structured.date)

\* The needsHuman of CallGetResult.fromJson: that of the wire does not count for
\* a completed call.
NeedsHuman(answer) ==
    \/ AmountInvalid(answer.structured) \/ DateInvalid(answer.structured)
    \/ /\ answer.status # "completed"
       /\ answer.needsHuman \/ answer.status \in {"failed", "canceled"}

\* Mutant: the row shows the status as CALL-E words it.
DeskStatusByWord(answer) == answer.status

DeskStatus(answer) ==
    IF \/ AmountInvalid(answer.structured) \/ DateInvalid(answer.structured)
       \/ answer.status \in {"failed", "canceled"}
    THEN "failed"
    ELSE IF answer.terminal THEN "completed"
    ELSE IF NeedsHuman(answer) THEN "failed"
    ELSE IF answer.status \in {"queued", "preparing"} THEN "planned" ELSE "ringing"

\* The poll loop files a run at the first such answer and asks no more.
EndsPoll(answer) == answer.terminal \/ NeedsHuman(answer)

\* `review` of the poll loop, the needsHuman a run is filed with.
Review(answer) ==
    \/ AmountInvalid(answer.structured) \/ DateInvalid(answer.structured)
    \/ NeedsHuman(answer) /\ answer.status # "completed"

ShouldUpsertPromise(structured) ==
    /\ structured.outcome = "promised"
    /\ ~AmountInvalid(structured) /\ ~DateInvalid(structured)
    /\ structured.amount # Absent
    /\ IsCalendarDay(structured.date)
    /\ structured.currency \notin {"absent", "blank"}
=============================================================================
