------------------------------ MODULE CallGate ------------------------------
(***************************************************************************)
(* Who may be called, in which region and which language: J.10 and its     *)
(* twins.  The gate of the device picks the recipients of a plan, the      *)
(* server gates every row of the plan and every snapshot of a run, and the *)
(* preview script of the published skill gates an intake without a host.   *)
(*                                                                         *)
(* A phone is its calling code (the longest prefix of the table, as no     *)
(* code begins another) and whether it is E.164.  Regions are upper case,  *)
(* as the device sends them; a BCP-47 tag is its language and its region.  *)
(***************************************************************************)
EXTENDS Integers, Sequences

\* The country a table gives a number; +1 is shared and says no more than NANP.
RegionIn(prefixes, phone) ==
    LET found == {p \in prefixes : p[1] = phone.code}
    IN  IF phone.code = "1" THEN "NANP"
        ELSE IF found = {} THEN "unknown" ELSE (CHOOSE p \in found : TRUE)[2]

\* The checks of a gate in their order, each with the reason it gives: the
\* first that fails decides.
FirstFailing(checks) ==
    LET failing == {i \in DOMAIN checks : ~checks[i][1]}
    IN  IF failing = {} THEN "none"
        ELSE checks[CHOOSE i \in failing : \A j \in failing : i <= j][2]

-----------------------------------------------------------------------------
(* The server                                                              *)

\* CALL-E's supported regions; YE is never one.
SupportedRegions ==
    {"AE", "AU", "BD", "BR", "BW", "CA", "CM", "DE", "EG", "ES", "FI", "FR", "GB", "GH",
     "HN", "ID", "IE", "IL", "IN", "JP", "KE", "LK", "MX", "MY", "MZ", "NA", "NG", "NL",
     "OM", "PH", "PK", "PL", "SA", "SG", "TH", "TN", "TR", "TW", "UA", "US", "VN", "ZA"}

\* _CALLING_PREFIXES.
CallingPrefixes ==
    {<<"20", "EG">>, <<"27", "ZA">>, <<"31", "NL">>, <<"33", "FR">>, <<"34", "ES">>,
     <<"44", "GB">>, <<"48", "PL">>, <<"49", "DE">>, <<"52", "MX">>, <<"55", "BR">>,
     <<"60", "MY">>, <<"61", "AU">>, <<"62", "ID">>, <<"63", "PH">>, <<"65", "SG">>,
     <<"66", "TH">>, <<"81", "JP">>, <<"84", "VN">>, <<"90", "TR">>, <<"91", "IN">>,
     <<"92", "PK">>, <<"94", "LK">>, <<"216", "TN">>, <<"233", "GH">>, <<"234", "NG">>,
     <<"237", "CM">>, <<"254", "KE">>, <<"258", "MZ">>, <<"264", "NA">>, <<"267", "BW">>,
     <<"353", "IE">>, <<"358", "FI">>, <<"380", "UA">>, <<"504", "HN">>, <<"880", "BD">>,
     <<"886", "TW">>, <<"966", "SA">>, <<"967", "YE">>, <<"968", "OM">>, <<"971", "AE">>,
     <<"972", "IL">>}

CallingRegion(phone) == RegionIn(CallingPrefixes, phone)

\* The region must be the number's own, for +1 the configured one.
RegionGate(phone, region, allowlistRegion) ==
    /\ region # "YE"
    /\ CallingRegion(phone) \notin {"YE", "unknown"}
    /\ region \in SupportedRegions
    /\ region = IF CallingRegion(phone) = "NANP" THEN allowlistRegion
                ELSE CallingRegion(phone)

\* Mutant: the server leaves the allowlist to the device.
RejectReasonUnlisted(phone, region, doNotCall, settings) ==
    FirstFailing(<<<<phone.e164, "invalidPhone">>,
                   <<RegionGate(phone, region, settings.allowlistRegion),
                     "unsupportedRegion">>,
                   <<~doNotCall, "dnc">>>>)

RejectReason(phone, region, doNotCall, settings) ==
    FirstFailing(<<<<phone.e164, "invalidPhone">>,
                   <<RegionGate(phone, region, settings.allowlistRegion),
                     "unsupportedRegion">>,
                   <<~doNotCall, "dnc">>,
                   <<phone \in settings.allowlist, "notAllowlisted">>>>)

\* _plan_row: a dry run stops before the kill switch and stores no snapshot.
PlanRow(recipient, settings, dryRun) ==
    LET reason == RejectReason(recipient.phone, recipient.region, recipient.doNotCall,
                               settings)
    IN  IF reason # "none" THEN [status |-> "rejected", reason |-> reason]
        ELSE IF dryRun THEN [status |-> "dryRun", reason |-> "none"]
        ELSE IF settings.allowDial THEN [status |-> "planned", reason |-> "none"]
        ELSE [status |-> "rejected", reason |-> "killSwitch"]

\* _snapshot_gate, before a run dials.
SnapshotGate(snapshot, settings) ==
    RejectReason(snapshot.phone, snapshot.region, snapshot.doNotCall, settings)

English == [language |-> "en", region |-> "US"]
ArabicCapableRegions == {"AE", "SA", "EG", "OM"}

\* Mutant: the server's list of Arabic regions is out of step.
CanonicalizeLocaleGulf(region, locale) ==
    IF locale.language # "en" /\ region \in {"AE", "SA", "OM"}
    THEN [language |-> "ar", region |-> region] ELSE English

\* The tag calls.create gets: Arabic only where CALL-E speaks it.
CanonicalizeLocale(region, locale) ==
    IF locale.language # "en" /\ region \in ArabicCapableRegions
    THEN [language |-> "ar", region |-> region] ELSE English

-----------------------------------------------------------------------------
(* The device                                                              *)

\* The device's copies of the three tables, kept in step by hand.
DeviceSupportedRegions ==
    {"AE", "AU", "BD", "BR", "BW", "CA", "CM", "DE", "EG", "ES", "FI", "FR", "GB", "GH",
     "HN", "ID", "IE", "IL", "IN", "JP", "KE", "LK", "MX", "MY", "MZ", "NA", "NG", "NL",
     "OM", "PH", "PK", "PL", "SA", "SG", "TH", "TN", "TR", "TW", "UA", "US", "VN", "ZA"}

\* Mutant: a code of two neighbours in the table is mistaken.
DevicePrefixesSlipped ==
    (CallingPrefixes \ {<<"968", "OM">>}) \cup {<<"968", "AE">>}

DeviceCallingPrefixes ==
    {<<"20", "EG">>, <<"27", "ZA">>, <<"31", "NL">>, <<"33", "FR">>, <<"34", "ES">>,
     <<"44", "GB">>, <<"48", "PL">>, <<"49", "DE">>, <<"52", "MX">>, <<"55", "BR">>,
     <<"60", "MY">>, <<"61", "AU">>, <<"62", "ID">>, <<"63", "PH">>, <<"65", "SG">>,
     <<"66", "TH">>, <<"81", "JP">>, <<"84", "VN">>, <<"90", "TR">>, <<"91", "IN">>,
     <<"92", "PK">>, <<"94", "LK">>, <<"216", "TN">>, <<"233", "GH">>, <<"234", "NG">>,
     <<"237", "CM">>, <<"254", "KE">>, <<"258", "MZ">>, <<"264", "NA">>, <<"267", "BW">>,
     <<"353", "IE">>, <<"358", "FI">>, <<"380", "UA">>, <<"504", "HN">>, <<"880", "BD">>,
     <<"886", "TW">>, <<"966", "SA">>, <<"967", "YE">>, <<"968", "OM">>, <<"971", "AE">>,
     <<"972", "IL">>}

DeviceArabicRegions == {"AE", "SA", "EG", "OM"}

DeviceCallingRegion(phone) == RegionIn(DeviceCallingPrefixes, phone)

\* The same gate as the server's, over the device's tables.
DeviceRegionGate(phone, region, allowlistRegion) ==
    /\ region # "YE"
    /\ DeviceCallingRegion(phone) \notin {"YE", "unknown"}
    /\ region \in DeviceSupportedRegions
    /\ region = IF DeviceCallingRegion(phone) = "NANP" THEN allowlistRegion
                ELSE DeviceCallingRegion(phone)

\* The region the device declares: a contact has none of its own.
DeclaredRegionFor(phone, allowlistRegion) ==
    IF DeviceCallingRegion(phone) \in {"NANP", "unknown"} THEN allowlistRegion
    ELSE DeviceCallingRegion(phone)

\* RunBatchRecipientGuard: the reason a row of the call set is left out.
OmitReason(contact, policy) ==
    LET region == DeclaredRegionFor(contact.phone, policy.allowlistRegion)
    IN  FirstFailing(<<<<~contact.doNotCall, "dnc">>,
                       <<policy.allowDial, "killSwitch">>,
                       <<contact.phone.e164, "invalidPhone">>,
                       <<DeviceRegionGate(contact.phone, region, policy.allowlistRegion),
                         "unsupportedRegion">>,
                       <<contact.phone \in policy.allowlist, "notAllowlisted">>>>)

\* CalleSpokenLocale.bcp47 of the merchant's language.
Bcp47(region, uiLocale) ==
    IF uiLocale = "ar" /\ region \in DeviceArabicRegions
    THEN [language |-> "ar", region |-> region] ELSE English

\* The row of the plan: the task is composed in the language of the call.
PlanRecipient(contact, policy, uiLocale) ==
    LET region == DeclaredRegionFor(contact.phone, policy.allowlistRegion)
    IN  [phone |-> contact.phone, region |-> region, doNotCall |-> contact.doNotCall,
         locale |-> Bcp47(region, uiLocale),
         taskLanguage |-> Bcp47(region, uiLocale).language]

-----------------------------------------------------------------------------
(* The preview of the skill                                                *)

\* The script's own copy of the regions.
PreviewSupportedRegions ==
    {"AE", "AU", "BD", "BR", "BW", "CA", "CM", "DE", "EG", "ES", "FI", "FR", "GB", "GH",
     "HN", "ID", "IE", "IL", "IN", "JP", "KE", "LK", "MX", "MY", "MZ", "NA", "NG", "NL",
     "OM", "PH", "PK", "PL", "SA", "SG", "TH", "TN", "TR", "TW", "UA", "US", "VN", "ZA"}

\* Mutant: Canada is forgotten.
NanpRegionsUS == {"US"}

NanpRegions == {"US", "CA"}

\* validate_intake; the fields the gates above do not know are valid or not.
ValidateIntake(intake) ==
    FirstFailing(<<<<intake.contactIdValid, "invalidContactId">>,
                   <<intake.displayNameValid, "invalidDisplayName">>,
                   <<intake.phone.e164, "invalidPhone">>,
                   <<~intake.doNotCall, "dnc">>,
                   <<intake.amountValid, "invalidAmount">>,
                   <<intake.currencyValid, "invalidCurrency">>,
                   <<intake.locale \in {"en", "ar"}, "invalidLocale">>,
                   <<intake.phone.code # "967", "unsupportedRegion">>,
                   <<intake.region \in PreviewSupportedRegions, "unsupportedRegion">>,
                   <<intake.phone.code = "1" => intake.region \in NanpRegions,
                     "unsupportedRegion">>,
                   <<intake.promisedDateValid, "invalidPromisedDate">>>>)
=============================================================================
