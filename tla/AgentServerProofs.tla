-------------------------- MODULE AgentServerProofs --------------------------
(***************************************************************************)
(* Theorems about the two things the agent server does for a desk, for any *)
(* desks, results, requests and tool calls: the gates of a call and the    *)
(* promise it leaves, and whom a proposal is made out to.  How an amount   *)
(* is heard is a fold over the words of the goal and stays with TLC.       *)
(***************************************************************************)
EXTENDS AgentServer, FiniteSetTheorems, WellFoundedInduction, TLAPS

(* ------------------------------ the gates ------------------------------ *)

\* What a set of naturals has at its lower end.
LEMMA LeastNatural ==
  ASSUME NEW S, S \subseteq Nat, S # {}
  PROVE  \E x \in S : \A y \in S : x =< y
<1>1. PICK x \in S : \A y \in S : ~ (<<y, x>> \in OpToRel(<, Nat))
  BY NatLessThanWellFounded, WFMin
<1>2. \A y \in S : ~ (y < x)
  BY <1>1 DEF OpToRel
<1> QED
  BY <1>2

\* A gate lets pass exactly what passes each of its checks: no reason is
\* called "none".
LEMMA GatePasses ==
  ASSUME NEW checks, DOMAIN checks \subseteq Nat,
         \A i \in DOMAIN checks : checks[i][2] # "none"
  PROVE  FirstFailing(checks) = "none" <=> \A i \in DOMAIN checks : checks[i][1]
<1> DEFINE failing == {i \in DOMAIN checks : ~checks[i][1]}
<1>1. CASE failing = {}
  BY <1>1 DEF FirstFailing
<1>2. CASE failing # {}
  <2>1. \E i \in failing : \A j \in failing : i <= j
    BY <1>2, LeastNatural
  <2> DEFINE first == CHOOSE i \in failing : \A j \in failing : i <= j
  <2>2. first \in failing
    BY <2>1
  <2>3. FirstFailing(checks) = checks[first][2]
    BY <1>2 DEF FirstFailing
  <2> QED
    BY <2>2, <2>3
<1> QED
  BY <1>1, <1>2

\* What the server asks of a row.
LEMMA ServerGate ==
  ASSUME NEW phone, NEW region, NEW doNotCall, NEW settings
  PROVE  RejectReason(phone, region, doNotCall, settings) = "none" <=>
            /\ phone.e164
            /\ RegionGate(phone, region, settings.allowlistRegion)
            /\ ~doNotCall
            /\ phone \in settings.allowlist
<1> DEFINE checks == <<<<phone.e164, "invalidPhone">>,
                   <<RegionGate(phone, region, settings.allowlistRegion),
                     "unsupportedRegion">>,
                   <<~doNotCall, "dnc">>,
                   <<phone \in settings.allowlist, "notAllowlisted">>>>
<1>1. DOMAIN checks = 1..4
  OBVIOUS
<1>2. /\ checks[1][1] = phone.e164 /\ checks[1][2] = "invalidPhone"
      /\ checks[2][1] = RegionGate(phone, region, settings.allowlistRegion)
      /\ checks[2][2] = "unsupportedRegion"
      /\ checks[3][1] = ~doNotCall /\ checks[3][2] = "dnc"
      /\ checks[4][1] = (phone \in settings.allowlist) /\ checks[4][2] = "notAllowlisted"
  OBVIOUS
<1>3. RejectReason(phone, region, doNotCall, settings) = FirstFailing(checks)
  BY DEF RejectReason
<1> HIDE DEF checks
<1>4. \A i \in DOMAIN checks : checks[i][2] # "none"
  BY <1>1, <1>2
<1>5. FirstFailing(checks) = "none" <=> \A i \in DOMAIN checks : checks[i][1]
  BY <1>1, <1>4, GatePasses
<1>6. (\A i \in DOMAIN checks : checks[i][1]) <=>
        checks[1][1] /\ checks[2][1] /\ checks[3][1] /\ checks[4][1]
  BY <1>1
<1> QED
  BY <1>2, <1>3, <1>5, <1>6

\* The tables of the device and of the preview have the entries of the server's.
LEMMA TablesAgree ==
  /\ DeviceSupportedRegions = SupportedRegions
  /\ DeviceCallingPrefixes = CallingPrefixes
  /\ DeviceArabicRegions = ArabicCapableRegions
  /\ PreviewSupportedRegions = SupportedRegions
BY DEF DeviceSupportedRegions, SupportedRegions, DeviceCallingPrefixes, CallingPrefixes,
       DeviceArabicRegions, ArabicCapableRegions, PreviewSupportedRegions

\* So the device's gate of a region is the server's.
LEMMA TwinRegionGates ==
  ASSUME NEW phone, NEW region, NEW allowlistRegion
  PROVE  DeviceRegionGate(phone, region, allowlistRegion) <=>
            RegionGate(phone, region, allowlistRegion)
BY TablesAgree DEF DeviceRegionGate, RegionGate, DeviceCallingRegion, CallingRegion

\* What the device asks of a contact.
LEMMA DeviceGate ==
  ASSUME NEW contact, NEW policy
  PROVE  OmitReason(contact, policy) = "none" <=>
            /\ ~contact.doNotCall
            /\ policy.allowDial
            /\ contact.phone.e164
            /\ RegionGate(contact.phone,
                          DeclaredRegionFor(contact.phone, policy.allowlistRegion),
                          policy.allowlistRegion)
            /\ contact.phone \in policy.allowlist
<1> DEFINE region == DeclaredRegionFor(contact.phone, policy.allowlistRegion)
           checks == <<<<~contact.doNotCall, "dnc">>,
                       <<policy.allowDial, "killSwitch">>,
                       <<contact.phone.e164, "invalidPhone">>,
                       <<DeviceRegionGate(contact.phone, region, policy.allowlistRegion),
                         "unsupportedRegion">>,
                       <<contact.phone \in policy.allowlist, "notAllowlisted">>>>
<1>1. DOMAIN checks = 1..5
  OBVIOUS
<1>2. /\ checks[1][1] = ~contact.doNotCall /\ checks[1][2] = "dnc"
      /\ checks[2][1] = policy.allowDial /\ checks[2][2] = "killSwitch"
      /\ checks[3][1] = contact.phone.e164 /\ checks[3][2] = "invalidPhone"
      /\ checks[4][1] = DeviceRegionGate(contact.phone, region, policy.allowlistRegion)
      /\ checks[4][2] = "unsupportedRegion"
      /\ checks[5][1] = (contact.phone \in policy.allowlist)
      /\ checks[5][2] = "notAllowlisted"
  OBVIOUS
<1>3. OmitReason(contact, policy) = FirstFailing(checks)
  BY DEF OmitReason
<1> HIDE DEF checks, region
<1>4. \A i \in DOMAIN checks : checks[i][2] # "none"
  BY <1>1, <1>2
<1>5. FirstFailing(checks) = "none" <=> \A i \in DOMAIN checks : checks[i][1]
  BY <1>1, <1>4, GatePasses
<1>6. (\A i \in DOMAIN checks : checks[i][1]) <=>
        checks[1][1] /\ checks[2][1] /\ checks[3][1] /\ checks[4][1] /\ checks[5][1]
  BY <1>1
<1>7. FirstFailing(checks) = "none" <=>
            /\ ~contact.doNotCall /\ policy.allowDial /\ contact.phone.e164
            /\ RegionGate(contact.phone, region, policy.allowlistRegion)
            /\ contact.phone \in policy.allowlist
  BY <1>2, <1>5, <1>6, TwinRegionGates
<1> QED
  BY <1>3, <1>7 DEF region

\* What the preview asks of an intake whose other fields are good.
LEMMA PreviewGate ==
  ASSUME NEW intake,
         intake.contactIdValid = TRUE, intake.displayNameValid = TRUE,
         intake.amountValid = TRUE, intake.currencyValid = TRUE,
         intake.promisedDateValid = TRUE,
         intake.phone.e164, ~intake.doNotCall,
         intake.locale \in {"en", "ar"},
         intake.phone.code # "967",
         intake.region \in SupportedRegions,
         intake.phone.code = "1" => intake.region \in NanpRegions
  PROVE  ValidateIntake(intake) = "none"
<1> DEFINE checks == <<<<intake.contactIdValid, "invalidContactId">>,
                   <<intake.displayNameValid, "invalidDisplayName">>,
                   <<intake.phone.e164, "invalidPhone">>,
                   <<~intake.doNotCall, "dnc">>,
                   <<intake.amountValid, "invalidAmount">>,
                   <<intake.currencyValid, "invalidCurrency">>,
                   <<intake.locale \in {"en", "ar"}, "invalidLocale">>,
                   <<intake.phone.code # "967", "unsupportedRegion">>,
                   <<intake.region \in PreviewSupportedRegions, "unsupportedRegion">>,
                   <<intake.phone.code = "1" => intake.region \in NanpRegions,
                     "unsupportedRegion">>,
                   <<intake.promisedDateValid, "invalidPromisedDate">>>>
<1>1. DOMAIN checks = 1..11
  OBVIOUS
<1>2. /\ checks[1][2] # "none" /\ checks[2][2] # "none" /\ checks[3][2] # "none"
      /\ checks[4][2] # "none" /\ checks[5][2] # "none" /\ checks[6][2] # "none"
      /\ checks[7][2] # "none" /\ checks[8][2] # "none" /\ checks[9][2] # "none"
      /\ checks[10][2] # "none" /\ checks[11][2] # "none"
  OBVIOUS
<1>3. /\ checks[1][1] /\ checks[2][1] /\ checks[3][1] /\ checks[4][1]
      /\ checks[5][1] /\ checks[6][1] /\ checks[7][1] /\ checks[8][1]
      /\ checks[9][1] /\ checks[10][1] /\ checks[11][1]
  BY TablesAgree
<1>4. ValidateIntake(intake) = FirstFailing(checks)
  BY DEF ValidateIntake
<1> HIDE DEF checks
<1>5. \A i \in DOMAIN checks : checks[i][2] # "none" /\ checks[i][1]
  BY <1>1, <1>2, <1>3
<1> QED
  BY <1>1, <1>4, <1>5, GatePasses

\* Yemen has a code of its own in the table.
LEMMA YemenIsKnown ==
  ASSUME NEW phone, phone.code = "967"
  PROVE  CallingRegion(phone) = "YE"
<1> DEFINE found == {p \in CallingPrefixes : p[1] = "967"}
<1>1. <<"967", "YE">> \in found
  BY DEF CallingPrefixes
<1>2. \A p \in found : p[2] = "YE"
  BY DEF CallingPrefixes
<1> HIDE DEF found
<1>3. (CHOOSE p \in found : TRUE) \in found
  BY <1>1
<1>4. CallingRegion(phone) = (CHOOSE p \in found : TRUE)[2]
  BY <1>1 DEF CallingRegion, RegionIn, found
<1> QED
  BY <1>2, <1>3, <1>4

\* The region of a row that passes is the number's own, and one CALL-E calls.
LEMMA RegionOfTheNumber ==
  ASSUME NEW phone, NEW region, NEW allowlistRegion,
         RegionGate(phone, region, allowlistRegion)
  PROVE  /\ region \in SupportedRegions /\ region # "YE"
         /\ CallingRegion(phone) \in {"NANP", region}
         /\ CallingRegion(phone) = "NANP" => region = allowlistRegion
         /\ phone.code # "967"
         /\ phone.code = "1" => CallingRegion(phone) = "NANP"
<1>1. phone.code = "1" => CallingRegion(phone) = "NANP"
  BY DEF CallingRegion, RegionIn
<1> QED
  BY <1>1, YemenIsKnown DEF RegionGate

(* ------------------------------- a call -------------------------------- *)

\* What a plan rests on, once it is made: the desk, which passed the gate of
\* the device, and the row and the answer that follow from it.
PlanMade ==
    /\ desk # Nothing /\ desk \in Desks
    /\ OmitReason(desk.contact, desk.policy) = "none"
    /\ recipient = PlanRecipient(desk.contact, desk.policy, desk.uiLocale)
    /\ planned = PlanRow(recipient, desk.settings, FALSE)

PlanInv ==
    /\ desk # Nothing => desk \in Desks
    /\ recipient # Nothing => PlanMade
    /\ planned # Nothing => PlanMade
    /\ snapshot # Nothing => PlanMade /\ snapshot = recipient /\ planned.status = "planned"

\* What a call that was made rests on.
CreatedInv ==
    created # Nothing =>
        /\ PlanMade
        /\ desk.settings.allowDial
        /\ SnapshotGate(recipient, desk.settings) = "none"
        /\ created = [phone |-> recipient.phone, region |-> recipient.region,
                      locale |-> CanonicalizeLocale(recipient.region, recipient.locale)]

\* The promise the poll loop keeps of an answer.
PromiseOf(got) ==
    IF ShouldUpsertPromise(got.structured)
    THEN [amountMinor |-> got.structured.amount.value,
          currency |-> got.structured.currency,
          date |-> got.structured.date]
    ELSE Nothing

Statuses == {"queued", "preparing", "ringing", "in_progress"} \cup TerminalStatuses

\* A call is reported of only after its plan, has a result only when it is
\* over, and what it leaves is filed once and of its last report.
ReportInv ==
    /\ snapshot # Nothing => report = Nothing
    /\ report # Nothing =>
        /\ recipient # Nothing
        /\ report \in [status : Statuses, taskCompleted : BOOLEAN, result : Results \cup {NoFields}]
        /\ report.status \notin TerminalStatuses => report.result = NoFields
    /\ report = Nothing => filed = Nothing
    /\ filed = Nothing => promise = Nothing
    /\ filed # Nothing =>
        IF filed.rawStatus \in TerminalStatuses
        THEN report.status \in TerminalStatuses /\ promise = PromiseOf(MapCallGetResponse(report))
        ELSE promise = Nothing

CallInv == PlanInv /\ CreatedInv /\ ReportInv

\* Records are not Nothing.
LEMMA RecordsAreSomething ==
  /\ \A contact, policy, uiLocale : PlanRecipient(contact, policy, uiLocale) # Nothing
  /\ \A s, t, r : [status |-> s, taskCompleted |-> t, result |-> r] # Nothing
  /\ \A s, n : [rawStatus |-> s, needsHuman |-> n] # Nothing
  /\ \A a, c, d : [amountMinor |-> a, currency |-> c, date |-> d] # Nothing
<1>1. DOMAIN Nothing = {}
  BY DEF Nothing
<1>2. \A contact, policy, uiLocale : "phone" \in DOMAIN PlanRecipient(contact, policy, uiLocale)
  BY DEF PlanRecipient
<1>3. \A s, t, r : "status" \in DOMAIN [status |-> s, taskCompleted |-> t, result |-> r]
  OBVIOUS
<1>4. \A s, n : "rawStatus" \in DOMAIN [rawStatus |-> s, needsHuman |-> n]
  OBVIOUS
<1>5. \A a, c, d : "currency" \in DOMAIN [amountMinor |-> a, currency |-> c, date |-> d]
  OBVIOUS
<1> QED
  BY <1>1, <1>2, <1>3, <1>4, <1>5

\* At the start there is no desk.
LEMMA CallInvInit == Init => CallInv
BY DEF Init, CallInit, CallInv, PlanInv, CreatedInv, ReportInv

\* The plan is as the desk, the row and the answer have it.
LEMMA PlanKept ==
  ASSUME UNCHANGED <<desk, recipient, planned>>
  PROVE  /\ PlanMade' <=> PlanMade
         /\ PlanInv /\ UNCHANGED snapshot => PlanInv'
         /\ CreatedInv /\ UNCHANGED created => CreatedInv'
BY DEF PlanMade, PlanInv, CreatedInv

\* Every step of a call keeps the invariants of a call.
LEMMA CallStep ==
  ASSUME CallInv, CallNext
  PROVE  CallInv'
<1> USE DEF CallInv
<1>1. CASE OpenDesk
  <2>1. /\ recipient = Nothing /\ planned = Nothing /\ snapshot = Nothing /\ created = Nothing
        /\ report = Nothing
    BY <1>1 DEF OpenDesk, PlanInv, CreatedInv, ReportInv, PlanMade
  <2> QED
    BY <1>1, <2>1 DEF OpenDesk, PlanInv, CreatedInv, ReportInv
<1>2. CASE OmitRow
  <2>1. UNCHANGED <<desk, recipient, planned, snapshot, created, report, filed, promise>>
    BY <1>2 DEF OmitRow
  <2> QED
    BY <2>1, PlanKept DEF ReportInv
<1>3. CASE PlanBatch
  <2>1. PlanMade'
    BY <1>3 DEF PlanBatch, PlanInv, PlanMade
  <2>2. PlanInv'
    BY <1>3, <2>1 DEF PlanBatch, PlanInv, PlanMade
  <2>3. CreatedInv'
    <3>1. created' = created
      BY <1>3 DEF PlanBatch
    <3>2. created # Nothing => recipient' = recipient /\ desk' = desk
      BY <1>3 DEF PlanBatch, CreatedInv, PlanMade
    <3> QED
      BY <2>1, <3>1, <3>2 DEF CreatedInv
  <2>4. ReportInv'
    BY <1>3 DEF PlanBatch, ReportInv
  <2> QED
    BY <2>2, <2>3, <2>4
<1>4. CASE RunFails
  <2>1. UNCHANGED <<desk, recipient, planned, snapshot, created, report, filed, promise>>
    BY <1>4 DEF RunFails
  <2> QED
    BY <2>1, PlanKept DEF ReportInv
<1>5. CASE RunBatch
  <2>1. UNCHANGED <<desk, recipient, planned, filed, promise>> /\ snapshot' = Nothing
    BY <1>5 DEF RunBatch
  <2>2. PlanMade /\ snapshot # Nothing /\ snapshot = recipient
    BY <1>5 DEF RunBatch, CanDial, PlanInv
  <2>3. PlanInv'
    BY <2>1, <2>2, PlanKept DEF PlanInv
  <2>4. CreatedInv'
    BY <1>5, <2>1, <2>2, PlanKept DEF RunBatch, CanDial, CreatedInv
  <2>5. ReportInv'
    <3>1. report = Nothing /\ filed = Nothing /\ promise = Nothing /\ recipient # Nothing
      BY <2>2 DEF ReportInv
    <3>2. report' = [status |-> "queued", taskCompleted |-> FALSE, result |-> NoFields]
      BY <1>5 DEF RunBatch
    <3>3. /\ report' \in [status : Statuses, taskCompleted : BOOLEAN, result : Results \cup {NoFields}]
          /\ report'.result = NoFields
      BY <3>2 DEF Statuses
    <3> QED
      BY <2>1, <3>1, <3>3 DEF ReportInv
  <2> QED
    BY <2>3, <2>4, <2>5
<1>6. CASE Advance \/ TaskDone \/ EndCall
  <2>1. /\ UNCHANGED <<desk, recipient, planned, snapshot, created, filed, promise>>
        /\ report # Nothing
    BY <1>6 DEF Advance, TaskDone, EndCall
  <2>2. report.status \notin TerminalStatuses
    BY <1>6 DEF Advance, TaskDone, EndCall, NextStatus, TerminalStatuses
  <2>3. /\ report' \in [status : Statuses, taskCompleted : BOOLEAN, result : Results \cup {NoFields}]
        /\ report'.status \notin TerminalStatuses => report'.result = NoFields
    <3>1. CASE Advance
      <4>1. PICK status \in {"preparing", "ringing", "in_progress"} :
              report' = [report EXCEPT !.status = status]
        BY <3>1 DEF Advance
      <4>2. report \in [status : Statuses, taskCompleted : BOOLEAN, result : Results \cup {NoFields}]
            /\ report.result = NoFields
        BY <2>1, <2>2 DEF ReportInv
      <4>3. status \in Statuses
        BY DEF Statuses
      <4> QED
        BY <4>1, <4>2, <4>3
    <3>2. CASE TaskDone
      BY <2>1, <2>2, <3>2 DEF TaskDone, ReportInv
    <3>3. CASE EndCall
      <4>1. PICK status \in TerminalStatuses, result \in Results :
              report' = [report EXCEPT !.status = status, !.result = result]
        BY <3>3 DEF EndCall
      <4>2. report \in [status : Statuses, taskCompleted : BOOLEAN, result : Results \cup {NoFields}]
        BY <2>1 DEF ReportInv
      <4>3. status \in Statuses
        BY DEF Statuses
      <4> QED
        BY <4>1, <4>2, <4>3
    <3> QED
      BY <1>6, <3>1, <3>2, <3>3
  <2>4. report' # Nothing
    <3>1. DOMAIN report' # {}
      BY <2>3
    <3> QED
      BY <3>1 DEF Nothing
  <2>5. filed # Nothing => filed.rawStatus \notin TerminalStatuses
    BY <2>2 DEF ReportInv
  <2>6. ReportInv'
    <3>1. snapshot = Nothing /\ recipient # Nothing
      BY <2>1 DEF ReportInv
    <3> QED
      BY <2>1, <2>3, <2>4, <2>5, <3>1 DEF ReportInv
  <2> QED
    BY <2>1, <2>6, PlanKept
<1>7. CASE PollCall
  <2> DEFINE got == MapCallGetResponse(report)
  <2>1. /\ UNCHANGED <<desk, recipient, planned, snapshot, created, report>>
        /\ report # Nothing /\ filed = Nothing
        /\ \/ /\ filed' = [rawStatus |-> got.status, needsHuman |-> Review(got)]
              /\ promise' = PromiseOf(got)
           \/ UNCHANGED <<filed, promise>>
    BY <1>7 DEF PollCall, PromiseOf
  <2>2. got.status = report.status
    BY DEF MapCallGetResponse
  <2>3. report.status \notin TerminalStatuses => PromiseOf(got) = Nothing
    <3>1. SUFFICES ASSUME report.result = NoFields PROVE PromiseOf(got) = Nothing
      BY <2>1 DEF ReportInv
    <3>2. got.structured.outcome = "absent"
      BY <3>1 DEF MapCallGetResponse, MergeFields, NoFields, OutcomeValues
    <3> QED
      BY <3>2 DEF PromiseOf, ShouldUpsertPromise
  <2> HIDE DEF got
  <2>4. ReportInv'
    <3>1. CASE filed' = [rawStatus |-> got.status, needsHuman |-> Review(got)] /\ promise' = PromiseOf(got)
      <4>1. filed' # Nothing /\ filed'.rawStatus = report.status
        BY <2>2, <3>1, RecordsAreSomething
      <4>2. PromiseOf(got) = PromiseOf(MapCallGetResponse(report'))
        BY <2>1 DEF got
      <4> QED
        BY <2>1, <2>3, <3>1, <4>1, <4>2 DEF ReportInv
    <3>2. CASE UNCHANGED <<filed, promise>>
      BY <2>1, <3>2 DEF ReportInv
    <3> QED
      BY <2>1, <3>1, <3>2
  <2> QED
    BY <2>1, <2>4, PlanKept
<1>8. CASE PollTimeout
  <2>1. /\ UNCHANGED <<desk, recipient, planned, snapshot, created, report, promise>>
        /\ report # Nothing /\ filed = Nothing
        /\ filed' = [rawStatus |-> "timeout", needsHuman |-> TRUE]
    BY <1>8 DEF PollTimeout
  <2>2. ReportInv'
    BY <2>1 DEF ReportInv, TerminalStatuses
  <2> QED
    BY <2>1, <2>2, PlanKept
<1> QED
  BY <1>1, <1>2, <1>3, <1>4, <1>5, <1>6, <1>7, <1>8 DEF CallNext

\* So does every step of the server.
LEMMA CallInvStep == CallInv /\ [Next]_<<toolVars, callVars>> => CallInv'
<1> SUFFICES ASSUME CallInv, [Next]_<<toolVars, callVars>> PROVE CallInv'
  OBVIOUS
<1>1. CASE UNCHANGED callVars
  BY <1>1, PlanKept DEF callVars, CallInv, ReportInv
<1>2. CASE CallNext
  BY <1>2, CallStep
<1> QED
  BY <1>1, <1>2 DEF Next

\* The invariants of a call hold in every reachable state.
THEOREM CallInvariance == Spec => []CallInv
<1>1. Init => CallInv
  BY CallInvInit
<1>2. CallInv /\ [Next]_<<toolVars, callVars>> => CallInv'
  BY CallInvStep
<1> QED
  BY <1>1, <1>2, PTL DEF Spec

\* A plan answered with "planned" passed the server's gate of its row.
LEMMA PlannedPasses ==
  ASSUME PlanMade, planned.status = "planned"
  PROVE  /\ desk.settings.allowDial
         /\ SnapshotGate(recipient, desk.settings) = "none"
BY DEF PlanMade, PlanRow, SnapshotGate

\* The row of a plan is the contact of the desk, in the region of its number.
LEMMA RowOfThePlan ==
  ASSUME PlanMade
  PROVE  LET region == DeclaredRegionFor(desk.contact.phone, desk.policy.allowlistRegion) IN
         /\ recipient.phone = desk.contact.phone
         /\ recipient.doNotCall = desk.contact.doNotCall
         /\ recipient.region = region
         /\ recipient.locale = Bcp47(region, desk.uiLocale)
         /\ recipient.taskLanguage = Bcp47(region, desk.uiLocale).language
BY DEF PlanMade, PlanRecipient

\* The voice of every call speaks the language its task was composed in: the
\* device's choice of a tag and the server's agree.
THEOREM SpokenAsComposedCorrect == Spec => []SpokenAsComposed
<1>1. CallInv => SpokenAsComposed
  <2> SUFFICES ASSUME CallInv, created # Nothing
               PROVE  created.locale.language = recipient.taskLanguage
    BY DEF SpokenAsComposed
  <2>1. PlanMade /\ created.locale = CanonicalizeLocale(recipient.region, recipient.locale)
    BY DEF CallInv, CreatedInv
  <2>2. \A region, uiLocale :
          CanonicalizeLocale(region, Bcp47(region, uiLocale)) = Bcp47(region, uiLocale)
    BY TablesAgree DEF CanonicalizeLocale, Bcp47, English
  <2> QED
    BY <2>1, <2>2, RowOfThePlan
<1> QED
  BY <1>1, CallInvariance, PTL

\* Under one configuration the server rejects no row the device has picked,
\* neither in the plan nor in the run.
THEOREM TwinGatesAgreeCorrect == Spec => []TwinGatesAgree
<1>1. CallInv => TwinGatesAgree
  <2> SUFFICES ASSUME CallInv, desk # Nothing, desk.policy = desk.settings
               PROVE  /\ recipient # Nothing => planned.status = "planned"
                      /\ snapshot # Nothing => CanDial
    BY DEF TwinGatesAgree
  <2>1. ASSUME recipient # Nothing PROVE planned.status = "planned"
    <3>1. PlanMade
      BY <2>1 DEF CallInv, PlanInv
    <3> DEFINE region == DeclaredRegionFor(desk.contact.phone, desk.policy.allowlistRegion)
    <3>2. /\ ~desk.contact.doNotCall /\ desk.policy.allowDial /\ desk.contact.phone.e164
          /\ RegionGate(desk.contact.phone, region, desk.policy.allowlistRegion)
          /\ desk.contact.phone \in desk.policy.allowlist
      BY <3>1, DeviceGate DEF PlanMade
    <3>3. RejectReason(recipient.phone, recipient.region, recipient.doNotCall,
                       desk.settings) = "none"
      BY <3>1, <3>2, RowOfThePlan, ServerGate
    <3> QED
      BY <3>1, <3>2, <3>3 DEF PlanMade, PlanRow
  <2>2. ASSUME snapshot # Nothing PROVE CanDial
    BY <2>2, PlannedPasses DEF CallInv, PlanInv, CanDial
  <2> QED
    BY <2>1, <2>2
<1> QED
  BY <1>1, CallInvariance, PTL

\* Whatever the two sides are configured to, a call that is made goes to a
\* number both allow, that may be called, in the number's own region.
THEOREM OnlyAllowedCallsCorrect == Spec => []OnlyAllowedCalls
<1>1. CallInv => OnlyAllowedCalls
  <2> SUFFICES ASSUME CallInv, created # Nothing PROVE OnlyAllowedCalls
    BY DEF OnlyAllowedCalls
  <2>1. /\ PlanMade /\ desk.settings.allowDial
        /\ SnapshotGate(recipient, desk.settings) = "none"
        /\ created.phone = recipient.phone /\ created.region = recipient.region
    BY DEF CallInv, CreatedInv
  <2>2. created.phone = desk.contact.phone
    BY <2>1, RowOfThePlan
  <2>3. /\ ~desk.contact.doNotCall /\ desk.policy.allowDial
        /\ desk.contact.phone \in desk.policy.allowlist
    BY <2>1, DeviceGate DEF PlanMade
  <2>4. /\ recipient.phone \in desk.settings.allowlist
        /\ RegionGate(recipient.phone, recipient.region, desk.settings.allowlistRegion)
    BY <2>1, ServerGate DEF SnapshotGate
  <2>5. CallingRegion(created.phone) \in {"NANP", created.region} /\ created.region # "YE"
    BY <2>1, <2>4, RegionOfTheNumber
  <2> QED
    BY <2>1, <2>2, <2>3, <2>4, <2>5 DEF OnlyAllowedCalls
<1> QED
  BY <1>1, CallInvariance, PTL

\* The server's region for a shared +1 number, which its environment names, is
\* one of the two the preview knows.
NanpConfigured == \A d \in Desks : d.settings.allowlistRegion \in NanpRegions

\* The preview script finds nothing wrong with a contact the server would call,
\* as long as the server is configured to the United States or Canada for +1.
THEOREM PreviewAgreesCorrect ==
  ASSUME NanpConfigured
  PROVE  Spec => []PreviewAgrees
<1>1. CallInv => PreviewAgrees
  <2> SUFFICES ASSUME CallInv, planned # Nothing, planned.status = "planned"
               PROVE  PreviewAgrees
    BY DEF PreviewAgrees
  <2> DEFINE intake == [contactIdValid |-> TRUE, displayNameValid |-> TRUE,
                        phone |-> recipient.phone, doNotCall |-> recipient.doNotCall,
                        amountValid |-> TRUE, currencyValid |-> TRUE,
                        locale |-> desk.uiLocale, region |-> recipient.region,
                        promisedDateValid |-> TRUE]
  <2>1. PlanMade
    BY DEF CallInv, PlanInv
  <2>2. /\ recipient.phone.e164 /\ ~recipient.doNotCall
        /\ RegionGate(recipient.phone, recipient.region, desk.settings.allowlistRegion)
    BY <2>1, PlannedPasses, ServerGate DEF SnapshotGate
  <2>3. /\ recipient.phone.code # "967"
        /\ recipient.region \in SupportedRegions
        /\ recipient.phone.code = "1" => recipient.region \in NanpRegions
    <3>1. desk.settings.allowlistRegion \in NanpRegions
      BY <2>1 DEF PlanMade, NanpConfigured
    <3> QED
      BY <2>2, <3>1, RegionOfTheNumber
  <2>4. desk.uiLocale \in {"en", "ar"}
    BY <2>1, DesksAssumption DEF PlanMade
  <2>5. ValidateIntake(intake) = "none"
    <3>1. /\ intake.contactIdValid = TRUE /\ intake.displayNameValid = TRUE
          /\ intake.amountValid = TRUE /\ intake.currencyValid = TRUE
          /\ intake.promisedDateValid = TRUE
          /\ intake.phone = recipient.phone /\ intake.doNotCall = recipient.doNotCall
          /\ intake.locale = desk.uiLocale /\ intake.region = recipient.region
      OBVIOUS
    <3> HIDE DEF intake
    <3> QED
      BY <2>2, <2>3, <2>4, <3>1, PreviewGate
  <2> QED
    BY <2>5 DEF PreviewAgrees
<1> QED
  BY <1>1, CallInvariance, PTL

\* A promise survives the mapping of the server, and nothing else becomes one.
LEMMA PromiseSurvives ==
  ASSUME NEW result \in Results \cup {NoFields}
  PROVE  LET structured == MergeFields(result) IN
         /\ ShouldUpsertPromise(structured) <=> IsPromise(result)
         /\ IsPromise(result) =>
                /\ structured.amount.value = result.amount.value
                /\ structured.currency = result.currency
                /\ structured.date = result.date
<1> DEFINE structured == MergeFields(result)
<1>1. result.amount \in {Absent} \cup [kind : STRING, value : Int]
  BY DesksAssumption DEF NoFields
<1>2. /\ IsWhole(result.amount) =>
            /\ IsWhole(structured.amount) /\ structured.amount # Absent
            /\ structured.amount.value = result.amount.value
      /\ ~IsWhole(result.amount) => structured.amount = Absent
  <2>1. structured.amount = CoerceInt(result.amount)
    BY DEF MergeFields
  <2>2. ~IsWhole(Absent)
    BY DEF IsWhole, Absent
  <2>3. ASSUME IsWhole(result.amount)
        PROVE  /\ CoerceInt(result.amount).kind = "int"
               /\ CoerceInt(result.amount).value = result.amount.value
    <3>1. result.amount \in [kind : STRING, value : Int]
      BY <1>1, <2>2, <2>3
    <3> QED
      BY <2>3, <3>1 DEF CoerceInt
  <2>4. \A field : field.kind = "int" => IsWhole(field) /\ field # Absent
    BY DEF IsWhole, Absent
  <2> QED
    BY <2>1, <2>3, <2>4 DEF CoerceInt
<1>3. /\ structured.outcome = "promised" <=> result.outcome = "promised"
      /\ structured.currency = IF result.currency = "notText" THEN "absent" ELSE result.currency
      /\ structured.date = IF LooksLikeDate(result.date) THEN result.date ELSE "absent"
  BY DEF MergeFields, OutcomeValues
<1> HIDE DEF structured
<1>4. ShouldUpsertPromise(structured) <=> IsPromise(result)
  BY <1>2, <1>3 DEF ShouldUpsertPromise, IsPromise, AmountInvalid, DateInvalid,
                    IsCalendarDay, LooksLikeDate
<1>5. IsPromise(result) =>
                /\ structured.amount.value = result.amount.value
                /\ structured.currency = result.currency
                /\ structured.date = result.date
  BY <1>2, <1>3 DEF IsPromise, LooksLikeDate
<1> QED
  BY <1>4, <1>5 DEF structured

\* The promise card shows exactly what the customer promised in a call that was
\* heard to its end, and no other call leaves one.
THEOREM PromiseIsWhatWasSaidCorrect == Spec => []PromiseIsWhatWasSaid
<1>1. CallInv => PromiseIsWhatWasSaid
  <2> SUFFICES ASSUME CallInv PROVE PromiseIsWhatWasSaid
    OBVIOUS
  <2> DEFINE got == MapCallGetResponse(report)
  <2>1. got.structured = MergeFields(report.result)
    BY DEF MapCallGetResponse
  <2> HIDE DEF got
  <2>2. ASSUME filed # Nothing, filed.rawStatus \in TerminalStatuses
        PROVE  /\ report.result \in Results \cup {NoFields}
               /\ promise = PromiseOf(got)
    BY <2>2 DEF CallInv, ReportInv, got
  <2>3. ASSUME promise # Nothing
        PROVE  filed # Nothing /\ filed.rawStatus \in TerminalStatuses
    BY <2>3 DEF CallInv, ReportInv
  <2>4. ASSUME promise # Nothing
        PROVE  /\ IsPromise(report.result)
               /\ promise.amountMinor = report.result.amount.value
               /\ promise.currency = report.result.currency
               /\ promise.date = report.result.date
    <3>1. ShouldUpsertPromise(got.structured)
      BY <2>2, <2>3, <2>4 DEF PromiseOf
    <3>2. promise = [amountMinor |-> got.structured.amount.value,
                     currency |-> got.structured.currency,
                     date |-> got.structured.date]
      BY <2>2, <2>3, <2>4, <3>1 DEF PromiseOf
    <3>3. report.result \in Results \cup {NoFields}
      BY <2>2, <2>3, <2>4
    <3> QED
      BY <2>1, <3>1, <3>2, <3>3, PromiseSurvives
  <2>5. ASSUME filed # Nothing, filed.rawStatus \in TerminalStatuses, IsPromise(report.result)
        PROVE  promise # Nothing
    <3>1. ShouldUpsertPromise(got.structured)
      BY <2>1, <2>2, <2>5, PromiseSurvives
    <3> QED
      BY <2>2, <2>5, <3>1, RecordsAreSomething DEF PromiseOf
  <2> QED
    BY <2>4, <2>5 DEF PromiseIsWhatWasSaid
<1> QED
  BY <1>1, CallInvariance, PTL

(* ------------------------------ the tools ------------------------------ *)

Money == {"propose_debt", "propose_payment"}

\* An answer that names somebody is what its tool makes of the call.
AnswerOK ==
    \/ call.tool \in Money /\ answer = MoneyProposal(request, call)
    \/ call.tool = "propose_statement" /\ answer = ProposeStatement(request, call)
    \/ call.tool = "propose_whatsapp_drafts" /\ answer = ProposeWhatsappDrafts(request, call)
    \/ answer.tool \notin Money \cup {"propose_statement", "propose_whatsapp_drafts"}

ToolsInv ==
    /\ request # <<>> => request \in Requests
    /\ answer # <<>> => request # <<>> /\ call \in Calls(request) /\ AnswerOK

\* The tools that name nobody.
LEMMA PlainAnswers ==
  ASSUME NEW r, NEW c,
         NEW a \in {ParseGoal(c), ProposeCreateContact(r, c), ProposeCreateLedger(c),
                   ProposeClosingPlan(r, c)}
  PROVE  a.tool \notin Money \cup {"propose_statement", "propose_whatsapp_drafts"}
<1>1. CASE a = ParseGoal(c)
  BY <1>1 DEF ParseGoal, MakeProposal, Error, Money
<1>2. CASE a = ProposeCreateContact(r, c)
  BY <1>2 DEF ProposeCreateContact, MakeProposal, Error, Money
<1>3. CASE a = ProposeCreateLedger(c)
  BY <1>3 DEF ProposeCreateLedger, MakeProposal, Error, Money
<1>4. CASE a = ProposeClosingPlan(r, c)
  BY <1>4 DEF ProposeClosingPlan, MakeProposal, Error, Money
<1> QED
  BY <1>1, <1>2, <1>3, <1>4

\* Every tool call gives such an answer.
LEMMA ToolStep ==
  ASSUME ToolsInv, ToolsNext
  PROVE  ToolsInv'
<1>1. CASE StartTurn
  BY <1>1 DEF StartTurn, ToolsInv
<1>2. CASE RunTool
  <2>1. PICK c \in Calls(request) :
          \/ CallTool(c, "parse_goal", ParseGoal(c))
          \/ CallTool(c, "propose_debt", MoneyProposal(request, c))
          \/ CallTool(c, "propose_payment", MoneyProposal(request, c))
          \/ CallTool(c, "propose_create_contact", ProposeCreateContact(request, c))
          \/ CallTool(c, "propose_create_ledger", ProposeCreateLedger(c))
          \/ CallTool(c, "propose_closing_plan", ProposeClosingPlan(request, c))
          \/ CallTool(c, "propose_whatsapp_drafts", ProposeWhatsappDrafts(request, c))
          \/ CallTool(c, "propose_statement", ProposeStatement(request, c))
    BY <1>2 DEF RunTool
  <2>2. request' = request /\ call' = c /\ request # <<>>
    BY <1>2, <2>1 DEF CallTool, RunTool
  <2>3. AnswerOK'
    <3>1. \/ c.tool \in Money /\ answer' = MoneyProposal(request, c)
          \/ c.tool = "propose_statement" /\ answer' = ProposeStatement(request, c)
          \/ c.tool = "propose_whatsapp_drafts" /\ answer' = ProposeWhatsappDrafts(request, c)
          \/ answer' \in {ParseGoal(c), ProposeCreateContact(request, c),
                         ProposeCreateLedger(c), ProposeClosingPlan(request, c)}
      BY <2>1 DEF CallTool, Money
    <3>2. \A a \in {ParseGoal(c), ProposeCreateContact(request, c),
                    ProposeCreateLedger(c), ProposeClosingPlan(request, c)} :
            a.tool \notin Money \cup {"propose_statement", "propose_whatsapp_drafts"}
      BY PlainAnswers
    <3> QED
      BY <2>2, <3>1, <3>2 DEF AnswerOK
  <2> QED
    BY <2>2, <2>3 DEF ToolsInv
<1> QED
  BY <1>1, <1>2 DEF ToolsNext

\* The invariant of a turn holds in every reachable state.
THEOREM ToolsInvariance == Spec => []ToolsInv
<1>1. Init => ToolsInv
  BY DEF Init, ToolsInit, ToolsInv
<1>2. ToolsInv /\ [Next]_<<toolVars, callVars>> => ToolsInv'
  <2> SUFFICES ASSUME ToolsInv, [Next]_<<toolVars, callVars>> PROVE ToolsInv'
    OBVIOUS
  <2>1. CASE UNCHANGED toolVars
    BY <2>1 DEF toolVars, ToolsInv, AnswerOK
  <2>2. CASE ToolsNext
    BY <2>2, ToolStep
  <2> QED
    BY <2>1, <2>2 DEF Next
<1> QED
  BY <1>1, <1>2, PTL DEF Spec

\* A part of a list's domain is finite.
LEMMA PartOfDomain ==
  ASSUME NEW n \in Nat, NEW S \in SUBSET (1..n)
  PROVE  IsFiniteSet(S)
<1>1. IsFiniteSet(1..n)
  BY FS_Interval
<1> QED
  BY <1>1, FS_Subset

\* An id that a name resolves to is that of the only contact it can mean.
LEMMA ResolvedIsUnique ==
  ASSUME request \in Requests, NEW name, ResolveContactId(request, name) # ""
  PROVE  OnlyOneNamed(name, ResolveContactId(request, name))
<1> DEFINE hints == request.voiceHints
           id == ResolveContactId(request, name)
           exact == {i \in DOMAIN hints :
                        IsUuid(hints[i].contactId) /\ hints[i].displayName = name}
           folded == {i \in DOMAIN hints :
                        /\ IsUuid(hints[i].contactId)
                        /\ FoldArabicName(hints[i].displayName) = FoldArabicName(name)}
<1>1. IsFiniteSet(exact) /\ IsFiniteSet(folded)
  <2>1. PICK n \in Nat : DOMAIN hints = 1..n
    BY RequestsAssumption DEF IsList
  <2>2. exact \in SUBSET (1..n) /\ folded \in SUBSET (1..n)
    BY <2>1
  <2> QED
    BY <2>2, PartOfDomain
<1>2. \/ Cardinality(exact) = 1 /\ id = hints[CHOOSE i \in exact : TRUE].contactId
      \/ /\ exact = {} /\ Cardinality(folded) = 1
         /\ id = hints[CHOOSE i \in folded : TRUE].contactId
  BY DEF ResolveContactId
<1> HIDE DEF id
<1>3. CASE Cardinality(exact) = 1 /\ id = hints[CHOOSE i \in exact : TRUE].contactId
  <2>1. PICK i : exact = {i}
    BY <1>1, <1>3, FS_Singleton
  <2>2. i \in DOMAIN hints /\ hints[i].contactId = id /\ hints[i].displayName = name
    BY <1>3, <2>1
  <2>3. \A j \in DOMAIN hints \ {i} :
          IsUuid(hints[j].contactId) => hints[j].displayName # name
    BY <2>1
  <2> QED
    BY <2>2, <2>3 DEF OnlyOneNamed, id
<1>4. CASE /\ exact = {} /\ Cardinality(folded) = 1
           /\ id = hints[CHOOSE i \in folded : TRUE].contactId
  <2>1. PICK i : folded = {i}
    BY <1>1, <1>4, FS_Singleton
  <2>2. /\ i \in DOMAIN hints /\ hints[i].contactId = id
        /\ FoldArabicName(hints[i].displayName) = FoldArabicName(name)
    BY <1>4, <2>1
  <2>3. \A j \in DOMAIN hints \ {i} :
          IsUuid(hints[j].contactId) =>
              FoldArabicName(hints[j].displayName) # FoldArabicName(name)
    BY <2>1
  <2> QED
    BY <2>2, <2>3 DEF OnlyOneNamed, id
<1> QED
  BY <1>2, <1>3, <1>4

\* An id that was not in the call is that of the only contact its name can mean:
\* nobody's ledger entry is guessed.
THEOREM IdNeedsUniqueNameCorrect == Spec => []IdNeedsUniqueName
<1>1. ToolsInv => IdNeedsUniqueName
  <2> SUFFICES ASSUME ToolsInv, answer # <<>>, answer.tool \in Money \cup {"propose_statement"}
               PROVE  LET given == {call.contactHint.uuid} \cup
                                (IF call.tool = "propose_statement" THEN {call.contactId} ELSE {})
                      IN  answer.payload.contactId \in given \cup {""}
                          \/ OnlyOneNamed(answer.payload.contactHint, answer.payload.contactId)
    BY DEF IdNeedsUniqueName, Money
  <2>1. request \in Requests /\ AnswerOK
    BY DEF ToolsInv
  <2>2. CASE call.tool \in Money /\ answer = MoneyProposal(request, call)
    <3> DEFINE spoken == SpokenHintAndId(request, call.contactHint, "")
    <3>1. answer # Error
      BY DEF Error, Money
    <3>2. /\ answer.payload.contactHint = spoken.hint
          /\ answer.payload.contactId = IF spoken.id # "" THEN spoken.id
                                        ELSE ResolveContactId(request, spoken.hint)
      BY <2>2, <3>1 DEF MoneyProposal, MakeProposal
    <3>3. spoken.id = call.contactHint.uuid
      BY DEF SpokenHintAndId, IsUuid
    <3> HIDE DEF spoken
    <3> QED
      BY <2>1, <3>2, <3>3, ResolvedIsUnique
  <2>3. CASE call.tool = "propose_statement" /\ answer = ProposeStatement(request, call)
    <3> DEFINE spoken == SpokenHintAndId(request, call.contactHint, call.contactId)
    <3>1. answer # Error
      BY DEF Error, Money
    <3>2. /\ answer.payload.contactHint = spoken.hint
          /\ answer.payload.contactId = IF spoken.id # "" THEN spoken.id
                                        ELSE ResolveContactId(request, spoken.hint)
      BY <2>3, <3>1 DEF ProposeStatement, MakeProposal
    <3>3. spoken.id \in {call.contactHint.uuid, call.contactId}
      BY DEF SpokenHintAndId, IsUuid
    <3> HIDE DEF spoken
    <3> QED
      BY <2>1, <2>3, <3>2, <3>3, ResolvedIsUnique
  <2>4. CASE call.tool = "propose_whatsapp_drafts" /\ answer = ProposeWhatsappDrafts(request, call)
    BY <2>4 DEF ProposeWhatsappDrafts, MakeProposal, Error, Money
  <2> QED
    BY <2>1, <2>2, <2>3, <2>4 DEF AnswerOK
<1> QED
  BY <1>1, ToolsInvariance, PTL

\* A batch of drafts is complete, and every text goes to the contact it was
\* written for or to the only one its name can mean.
THEOREM DraftsReachTheNamedCorrect == Spec => []DraftsReachTheNamed
<1>1. ToolsInv => DraftsReachTheNamed
  <2> SUFFICES ASSUME ToolsInv, answer # <<>>, answer.tool = "propose_whatsapp_drafts"
               PROVE  DraftsReachTheNamed
    BY DEF DraftsReachTheNamed
  <2> DEFINE ids == call.contactIds
             Id(i) == IF IsUuid(ids[i].uuid) THEN ids[i].uuid
                      ELSE ResolveContactId(request, ids[i].name)
  <2>1. /\ request \in Requests /\ call \in Calls(request)
        /\ call.tool = "propose_whatsapp_drafts"
        /\ answer = ProposeWhatsappDrafts(request, call)
    <3>1. request \in Requests /\ call \in Calls(request) /\ AnswerOK
      BY DEF ToolsInv
    <3>2. MoneyProposal(request, call).tool \in {call.tool, "error"}
      BY DEF MoneyProposal, MakeProposal, Error
    <3>3. ProposeStatement(request, call).tool \in {"propose_statement", "error"}
      BY DEF ProposeStatement, MakeProposal, Error
    <3> QED
      BY <3>1, <3>2, <3>3 DEF AnswerOK, Money
  <2>2. Len(ids) \in Nat /\ DOMAIN ids = 1..Len(ids)
    BY <2>1, RequestsAssumption DEF IsList
  <2>3. answer # Error
    BY DEF Error
  <2>4. /\ DOMAIN answer.payload = DOMAIN ids
        /\ \A i \in DOMAIN ids :
              /\ Id(i) # ""
              /\ answer.payload[i].contactId = Id(i)
              /\ answer.payload[i].body = call.bodies[i]
    BY <2>1, <2>3 DEF ProposeWhatsappDrafts, MakeProposal
  <2>5. Len(answer.payload) = Len(ids)
    <3> DEFINE Tone(i) == IF call.tonesGiven THEN call.tones[i]
                          ELSE IF call.tone # "" THEN call.tone ELSE "polite"
               drafts == [i \in 1..Len(ids) |-> [contactId |-> Id(i), tone |-> Tone(i),
                                                 body |-> call.bodies[i]]]
    <3>1. answer.payload = drafts
      BY <2>1, <2>2, <2>3 DEF ProposeWhatsappDrafts, MakeProposal
    <3>2. Len(drafts) = Len(ids)
      BY <2>2
    <3> QED
      BY <3>1, <3>2
  <2>6. ASSUME NEW i \in DOMAIN ids
        PROVE  \/ answer.payload[i].contactId = ids[i].uuid
               \/ /\ ~IsUuid(ids[i].uuid)
                  /\ OnlyOneNamed(ids[i].name, answer.payload[i].contactId)
    <3>1. Id(i) # "" /\ answer.payload[i].contactId = Id(i)
      BY <2>4
    <3>2. CASE IsUuid(ids[i].uuid)
      BY <3>1, <3>2
    <3>3. CASE ~IsUuid(ids[i].uuid)
      BY <2>1, <3>1, <3>3, ResolvedIsUnique
    <3> QED
      BY <3>2, <3>3
  <2> QED
    BY <2>4, <2>5, <2>6 DEF DraftsReachTheNamed
<1> QED
  BY <1>1, ToolsInvariance, PTL
=============================================================================
