----------------------------- MODULE CallOutcome -----------------------------
(***************************************************************************)
(* One collections call from the gate of the desk to the promise it leaves:*)
(* the plan of confirmAndCall, the gates of plan-batch and run-batch, what *)
(* CALL-E reports of the call, and the poll loop that files the run.       *)
(* CallGate says who may be called, CallStatus what a report means; lost   *)
(* answers, retries and several rows are the matter of CallRail and        *)
(* CallDesk.  The server's settings last as long as its process, and so do *)
(* its plan snapshots: both are part of the desk's surroundings.           *)
(***************************************************************************)
EXTENDS CallGate, CallStatus

CONSTANTS
    Desks,      \* [contact, policy, settings, uiLocale] the desk may open with
    Results     \* the structured results CALL-E may extract

ASSUME DesksAssumption ==
    /\ \A d \in Desks :
        /\ d.contact.phone.e164 \in BOOLEAN /\ d.contact.doNotCall \in BOOLEAN
        /\ d.policy.allowDial \in BOOLEAN /\ d.settings.allowDial \in BOOLEAN
        /\ d.uiLocale \in {"ar", "en"}
    /\ Results \subseteq
          [outcome : STRING, amount : {Absent} \cup [kind : STRING, value : Int],
           currency : STRING, date : STRING, rest : STRING]

VARIABLES
    desk,       \* the contact, the two configurations and the language
    recipient,  \* the row of the plan request
    planned,    \* the server's answer to it
    snapshot,   \* ConfirmHandleStore
    created,    \* the arguments of calls.create
    report,     \* the call as CALL-E reports it
    callRow,    \* the status of the row on the desk
    filed,      \* rawStatus and needsHuman of the run's terminal write
    promise     \* the row of collection_promises

callVars == <<desk, recipient, planned, snapshot, created, report, callRow, filed, promise>>

Nothing == <<>>

CallInit ==
    /\ desk = Nothing
    /\ recipient = Nothing
    /\ planned = Nothing
    /\ snapshot = Nothing
    /\ created = Nothing
    /\ report = Nothing
    /\ callRow = "none"
    /\ filed = Nothing
    /\ promise = Nothing

OpenDesk ==
    /\ desk = Nothing
    /\ desk' \in Desks
    /\ UNCHANGED <<recipient, planned, snapshot, created, report, callRow, filed, promise>>

\* A row the guard leaves out fails at once and no plan is sent.
OmitRow ==
    /\ desk # Nothing /\ recipient = Nothing
    /\ OmitReason(desk.contact, desk.policy) # "none"
    /\ callRow' = "failed"
    /\ UNCHANGED <<desk, recipient, planned, snapshot, created, report, filed, promise>>

\* plan-batch as confirmAndCall sends it, never as a dry run.
PlanBatch ==
    /\ desk # Nothing /\ recipient = Nothing
    /\ OmitReason(desk.contact, desk.policy) = "none"
    /\ recipient' = PlanRecipient(desk.contact, desk.policy, desk.uiLocale)
    /\ planned' = PlanRow(recipient', desk.settings, FALSE)
    /\ snapshot' = IF planned'.status = "planned" THEN recipient' ELSE Nothing
    /\ callRow' = IF planned'.status = "planned" THEN "planned" ELSE "failed"
    /\ UNCHANGED <<desk, created, report, filed, promise>>

\* run-batch, which answers 403 without the kill switch.
CanDial ==
    /\ snapshot # Nothing
    /\ desk.settings.allowDial
    /\ SnapshotGate(snapshot, desk.settings) = "none"

RunFails ==
    /\ snapshot # Nothing /\ callRow = "planned" /\ report = Nothing
    /\ callRow' = "failed"
    /\ UNCHANGED <<desk, recipient, planned, snapshot, created, report, filed, promise>>

RunBatch ==
    /\ CanDial /\ callRow = "planned"
    /\ created' = [phone |-> snapshot.phone, region |-> snapshot.region,
                   locale |-> CanonicalizeLocale(snapshot.region, snapshot.locale)]
    /\ snapshot' = Nothing
    /\ report' = [status |-> "queued", taskCompleted |-> FALSE, result |-> NoFields]
    /\ UNCHANGED <<desk, recipient, planned, callRow, filed, promise>>

-----------------------------------------------------------------------------
(* CALL-E                                                                  *)

NextStatus ==
    {<<"queued", "preparing">>, <<"preparing", "ringing">>, <<"ringing", "in_progress">>}

Advance ==
    /\ report # Nothing
    /\ \E status \in {"preparing", "ringing", "in_progress"} :
        /\ <<report.status, status>> \in NextStatus
        /\ report' = [report EXCEPT !.status = status]
    /\ UNCHANGED <<desk, recipient, planned, snapshot, created, callRow, filed, promise>>

\* The agent has done its task and still closes the conversation.
TaskDone ==
    /\ report # Nothing /\ report.status = "in_progress"
    /\ report' = [report EXCEPT !.taskCompleted = TRUE]
    /\ UNCHANGED <<desk, recipient, planned, snapshot, created, callRow, filed, promise>>

\* The result is extracted when the call is over.
EndCall ==
    /\ report # Nothing /\ report.status \notin TerminalStatuses
    /\ \E status \in TerminalStatuses, result \in Results :
        /\ status = "completed" => report.status = "in_progress"
        /\ report' = [report EXCEPT !.status = status, !.result = result]
    /\ UNCHANGED <<desk, recipient, planned, snapshot, created, callRow, filed, promise>>

-----------------------------------------------------------------------------
(* The poll loop                                                           *)

\* One GET, and the terminal write with its promise when the answer ends it.
PollCall ==
    LET got == MapCallGetResponse(report)
    IN  /\ report # Nothing /\ filed = Nothing
        /\ callRow' = DeskStatus(got)
        /\ IF EndsPoll(got)
           THEN /\ filed' = [rawStatus |-> got.status, needsHuman |-> Review(got)]
                /\ promise' = IF ShouldUpsertPromise(got.structured)
                              THEN [amountMinor |-> got.structured.amount.value,
                                    currency |-> got.structured.currency,
                                    date |-> got.structured.date]
                              ELSE Nothing
           ELSE UNCHANGED <<filed, promise>>
        /\ UNCHANGED <<desk, recipient, planned, snapshot, created, report>>

PollTimeout ==
    /\ report # Nothing /\ filed = Nothing
    /\ filed' = [rawStatus |-> "timeout", needsHuman |-> TRUE]
    /\ callRow' = "failed"
    /\ UNCHANGED <<desk, recipient, planned, snapshot, created, report, promise>>

CallNext ==
    \/ OpenDesk \/ OmitRow \/ PlanBatch
    \/ RunBatch \/ RunFails
    \/ Advance \/ TaskDone \/ EndCall
    \/ PollCall \/ PollTimeout

-----------------------------------------------------------------------------
(* Properties                                                              *)

\* Types of the variables of a call.
CallTypeOK ==
    /\ desk \in Desks \cup {Nothing}
    /\ planned # Nothing =>
        planned.status \in {"planned", "rejected"} /\ (planned.status = "planned") =
                                                          (planned.reason = "none")
    /\ callRow \in {"none", "planned", "ringing", "completed", "failed"}
    /\ report # Nothing => report.result \in Results \cup {NoFields}
    /\ created # Nothing => created.region \in SupportedRegions

\* The voice of the call speaks the language the task was composed in, though
\* the device picks the one and the server the other.
SpokenAsComposed ==
    created # Nothing => created.locale.language = recipient.taskLanguage

\* The two gates are kept in step by hand: under one configuration the server
\* rejects no row the device has picked, neither in the plan nor in the run.
TwinGatesAgree ==
    (desk # Nothing /\ desk.policy = desk.settings) =>
        /\ recipient # Nothing => planned.status = "planned"
        /\ snapshot # Nothing => CanDial

\* Whatever the two sides are configured to, a call that is made goes to a
\* number its owner allowed on both, that may be called, in the number's own
\* region: the second of the two checks misses nothing the first let pass.
OnlyAllowedCalls ==
    created # Nothing =>
        /\ created.phone = desk.contact.phone /\ ~desk.contact.doNotCall
        /\ desk.policy.allowDial /\ desk.settings.allowDial
        /\ created.phone \in desk.policy.allowlist \cap desk.settings.allowlist
        /\ CallingRegion(created.phone) \in {"NANP", created.region}
        /\ created.region # "YE"

\* The preview script of the skill, which has its own copy of the rules, finds
\* nothing wrong with a contact the server would call.
PreviewAgrees ==
    (planned # Nothing /\ planned.status = "planned") =>
        ValidateIntake([contactIdValid |-> TRUE, displayNameValid |-> TRUE,
                        phone |-> recipient.phone, doNotCall |-> recipient.doNotCall,
                        amountValid |-> TRUE, currencyValid |-> TRUE,
                        locale |-> desk.uiLocale, region |-> recipient.region,
                        promisedDateValid |-> TRUE]) = "none"

\* A promise as the task asks CALL-E for it: an amount without a fraction, a
\* currency and a day there is.
IsPromise(result) ==
    /\ result.outcome = "promised"
    /\ IsWhole(result.amount)
    /\ result.currency \notin {"absent", "blank", "notText"}
    /\ result.date = "day"

\* The customer's promise is on the promise card with its own amount, currency
\* and day exactly when a call that was heard to its end has left one: it passes
\* two mappings and two languages, and a bad field beside it does not cost it.
PromiseIsWhatWasSaid ==
    /\ promise # Nothing =>
        /\ IsPromise(report.result)
        /\ promise.amountMinor = report.result.amount.value
        /\ promise.currency = report.result.currency
        /\ promise.date = report.result.date
    /\ filed # Nothing /\ filed.rawStatus \in TerminalStatuses /\ IsPromise(report.result) =>
        promise # Nothing
=============================================================================
