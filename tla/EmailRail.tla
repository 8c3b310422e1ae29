------------------------------ MODULE EmailRail ------------------------------
(***************************************************************************)
(* Confirm & Send on one Collections Desk: the taps of approveAndSend on   *)
(* the device, the request each of them makes, the send-batch handler of   *)
(* the agent server and its SMTP conversations with Gmail.                 *)
(*                                                                         *)
(* A device action is the code between two awaits of a tap, but the queue  *)
(* is saved in the step that hands it to the database.  Rows and           *)
(* recipients are visited in any order, the code visits them in the order  *)
(* of the desk.  Every tap draws a new batch id, so the tap itself stands  *)
(* for it: two requests never share a key of the idempotency store, and    *)
(* one store stands for those of all replicas.  A process that is replaced *)
(* loses its handlers and its store, and no other request ever asks for    *)
(* what was in it: the handler merely takes no further step, which the     *)
(* specification always allows.                                            *)
(*                                                                         *)
(* Left out: the leftover Hybrid E buttons (hidden on every screen), the   *)
(* credit-limit desk (no report), drafts, PDFs and headers of the mails.   *)
(***************************************************************************)
EXTENDS Naturals, FiniteSets

CONSTANTS
    Contacts,           \* the rows of the desk
    Mailboxes,          \* e-mail addresses; two contacts may share one
    Flows,              \* taps on Confirm & Send or Retry sending
    MaxEmailRecipients, \* the cap of one batch, 20 in the code
    None

ASSUME EmailAssumption ==
    /\ IsFiniteSet(Contacts)
    /\ None \notin Contacts
    /\ MaxEmailRecipients \in Nat

VARIABLES
    mailbox,     \* the address of each contact
    emailRows,   \* the rows on the e-mail rail
    row,         \* state.deskRows: the status of each row
    phase,       \* state.phase
    dispatching, \* state.collectionsDispatching
    saved,       \* the rows of the queue in the database, None before
    pc,          \* the await at which a tap stands
    work,        \* `working` of the tap's dispatch
    now,         \* the row it is preparing
    handler,     \* the tap's request and its handler on the server
    left,        \* recipients the handler has not visited
    halt,        \* halt_auth
    human,       \* needs_human
    result,      \* the results list
    smtp,        \* the SMTP conversation of the handler, None between them
    store,       \* the idempotency store
    mails        \* how many mails Gmail accepted for a tap and a contact

device == <<row, phase, dispatching, saved, pc, work, now>>
server == <<halt, human, result, smtp, store, mails>>
inputs == <<mailbox, emailRows>>
vars == <<inputs, device, handler, left, server>>

RowStatus == {"pending", "sending", "sent", "failed", "skipped"}
RemoteStatus == {"sent", "failed", "skippedDuplicate"}
Conversation == [to : Contacts, port : {587, 465},
                 step : {"connect", "loggedIn", "accepted"}]

Init ==
    /\ mailbox \in [Contacts -> Mailboxes]
    /\ emailRows \in SUBSET Contacts
    /\ row = [c \in Contacts |-> "pending"]
    /\ phase = "desk"
    /\ dispatching = FALSE
    /\ saved = None
    /\ pc = [f \in Flows |-> "idle"]
    /\ work = [f \in Flows |-> [c \in Contacts |-> "absent"]]
    /\ now = [f \in Flows |-> None]
    /\ handler = [f \in Flows |-> "none"]
    /\ left = [f \in Flows |-> {}]
    /\ halt = [f \in Flows |-> FALSE]
    /\ human = [f \in Flows |-> FALSE]
    /\ result = [f \in Flows |-> [c \in Contacts |-> "none"]]
    /\ smtp = [f \in Flows |-> None]
    /\ store = {}
    /\ mails = [f \in Flows |-> [c \in Contacts |-> 0]]

-----------------------------------------------------------------------------
(* The device                                                              *)

\* Mutant: the rows of a dispatch are taken for the whole desk.
MergeDeskRowsWhole(w) == w

\* _mergeDeskRows: the rows of a dispatch replace those of the desk.
MergeDeskRows(w) ==
    [c \in Contacts |-> IF w[c] = "absent" THEN row[c] ELSE w[c]]

\* What is still pending when the desk closes counts as skipped.
Closed(rows) ==
    [c \in Contacts |-> IF rows[c] = "pending" THEN "skipped" ELSE rows[c]]

\* The rows an approval is for, read before its first await.
Pending == {c \in emailRows : row[c] = "pending"}

\* finishDesk; the button is disabled during a dispatch.
FinishDesk ==
    /\ phase = "desk"
    /\ ~dispatching
    /\ row' = Closed(row)
    /\ phase' = "report"
    /\ UNCHANGED <<inputs, dispatching, saved, pc, work, now, handler, left,
                   server>>

\* approveAndSend up to the await of the token.
ApproveAndSend(f) ==
    /\ pc[f] = "idle"
    /\ phase = "desk"
    /\ ~dispatching
    /\ Pending # {}
    /\ pc' = [pc EXCEPT ![f] = "token"]
    /\ work' = [work EXCEPT ![f] =
                   [c \in Contacts |-> IF c \in Pending THEN "pending" ELSE "absent"]]
    /\ UNCHANGED <<inputs, row, phase, dispatching, saved, now, handler, left,
                   server>>

TokenFails(f) ==
    /\ pc[f] = "token"
    /\ pc' = [pc EXCEPT ![f] = "done"]
    /\ UNCHANGED <<inputs, row, phase, dispatching, saved, work, now, handler,
                   left, server>>

Batch(f) == {c \in Contacts : work[f][c] # "absent"}

\* The token is there and the batch within the cap: the first row is sending.
StartDispatch(f) ==
    /\ pc[f] = "token"
    /\ Cardinality(Batch(f)) <= MaxEmailRecipients
    /\ \E c \in Batch(f) :
        /\ work' = [work EXCEPT ![f][c] = "sending"]
        /\ now' = [now EXCEPT ![f] = c]
    /\ row' = MergeDeskRows(work'[f])
    /\ dispatching' = TRUE
    /\ pc' = [pc EXCEPT ![f] = "prepare"]
    /\ UNCHANGED <<inputs, phase, saved, handler, left, server>>

\* Mutant: the queue is saved before its rows are reverted.
StayOnDeskSavedFirst(f, rows) ==
    /\ row' = rows
    /\ saved' = row
    /\ dispatching' = FALSE
    /\ pc' = [pc EXCEPT ![f] = "done"]
    /\ UNCHANGED phase

\* The tail of approveAndSend after a failure that is not Gmail's: the desk
\* stays open, and the queue is saved as it is.
StayOnDesk(f, rows) ==
    /\ row' = rows
    /\ saved' = rows
    /\ dispatching' = FALSE
    /\ pc' = [pc EXCEPT ![f] = "done"]
    /\ UNCHANGED phase

\* The tail after a result, or a failure a human must settle: the report.
CloseDesk(f, rows) ==
    /\ row' = Closed(rows)
    /\ saved' = Closed(rows)
    /\ dispatching' = FALSE
    /\ phase' = "report"
    /\ pc' = [pc EXCEPT ![f] = "done"]

CapExceeded(f) ==
    /\ pc[f] = "token"
    /\ Cardinality(Batch(f)) > MaxEmailRecipients
    /\ StayOnDesk(f, row)
    /\ UNCHANGED <<inputs, work, now, handler, left, server>>

\* _prepareRow has returned: without an address, a statement or a PDF of at
\* most 5 MB the row has failed.  The next row is begun, or the request sent,
\* or the dispatch is over because no row is left to send.
Prepare(f, ok) ==
    LET prepared == [work[f] EXCEPT ![now[f]] = IF ok THEN "sending" ELSE "failed"]
        recipients == {c \in Contacts : prepared[c] = "sending"}
        waiting == {c \in Contacts : prepared[c] = "pending"}
    IN  /\ pc[f] = "prepare"
        /\ \/ /\ waiting # {}
              /\ \E c \in waiting :
                  /\ work' = [work EXCEPT ![f] = [prepared EXCEPT ![c] = "sending"]]
                  /\ now' = [now EXCEPT ![f] = c]
              /\ row' = MergeDeskRows(work'[f])
              /\ UNCHANGED <<phase, dispatching, saved, pc, handler, left>>
           \/ /\ waiting = {} /\ recipients # {}
              /\ work' = [work EXCEPT ![f] = prepared]
              /\ now' = [now EXCEPT ![f] = None]
              /\ row' = MergeDeskRows(prepared)
              /\ pc' = [pc EXCEPT ![f] = "request"]
              /\ handler' = [handler EXCEPT ![f] = "onWire"]
              /\ left' = [left EXCEPT ![f] = recipients]
              /\ UNCHANGED <<phase, dispatching, saved>>
           \/ /\ waiting = {} /\ recipients = {}
              /\ work' = [work EXCEPT ![f] = prepared]
              /\ now' = [now EXCEPT ![f] = None]
              /\ CloseDesk(f, MergeDeskRows(prepared))
              /\ UNCHANGED <<handler, left>>
        /\ UNCHANGED <<inputs, server>>

\* Mutant: the rows of a lost request keep spinning.
RevertedNever(w) == w

\* The rows after a send-batch that did not answer: sending is pending again.
Reverted(w) == [c \in Contacts |-> IF w[c] = "sending" THEN "pending" ELSE w[c]]

\* Time-out, lost connection or an error status.
SendBatchFails(f) ==
    /\ pc[f] = "request"
    /\ work' = [work EXCEPT ![f] = Reverted(work[f])]
    /\ StayOnDesk(f, MergeDeskRows(work'[f]))
    /\ UNCHANGED <<inputs, now, handler, left, server>>

\* _mapRemote: a duplicate counts as sent, a missing row as failed.
MapRemote(remote) ==
    IF remote \in {"sent", "skippedDuplicate"} THEN "sent" ELSE "failed"

ApplyRemoteResults(w, results) ==
    [c \in Contacts |-> IF w[c] \in {"absent", "failed"}
                        THEN w[c] ELSE MapRemote(results[c])]

SendBatchAnswers(f) ==
    /\ pc[f] = "request"
    /\ handler[f] = "replied"
    /\ work' = [work EXCEPT ![f] = ApplyRemoteResults(work[f], result[f])]
    /\ CloseDesk(f, MergeDeskRows(work'[f]))
    /\ UNCHANGED <<inputs, now, handler, left, server>>

-----------------------------------------------------------------------------
(* The server                                                              *)

\* The request arrives, perhaps after the device gave it up.  Without a
\* sender that equals the user, or without a password, the batch is halted.
Arrive(f, configured) ==
    /\ handler[f] = "onWire"
    /\ handler' = [handler EXCEPT ![f] = "open"]
    /\ halt' = [halt EXCEPT ![f] = ~configured]
    /\ human' = [human EXCEPT ![f] = ~configured]
    /\ UNCHANGED <<inputs, device, left, result, smtp, store, mails>>

Duplicate(f, c) == <<f, mailbox[c]>> \in store

\* The loop of send_batch comes to recipient c.
Visit(f, c) ==
    /\ handler[f] = "open"
    /\ smtp[f] = None
    /\ c \in left[f]
    /\ left' = [left EXCEPT ![f] = @ \ {c}]

\* A recipient that gets its row without SMTP: a duplicate, a halted batch, an
\* address or a PDF that does not pass.
RowWithoutSmtp(f, c) ==
    /\ Visit(f, c)
    /\ result' = [result EXCEPT ![f][c] =
                     IF Duplicate(f, c) THEN "skippedDuplicate" ELSE "failed"]
    /\ UNCHANGED <<inputs, device, handler, halt, human, smtp, store, mails>>

\* Mutant: the pair is remembered before the mail is sent.
StartSendRemembers(f, c) ==
    /\ Visit(f, c)
    /\ ~Duplicate(f, c)
    /\ ~halt[f]
    /\ smtp' = [smtp EXCEPT ![f] = [to |-> c, port |-> 587, step |-> "connect"]]
    /\ store' = store \cup {<<f, mailbox[c]>>}
    /\ UNCHANGED <<inputs, device, handler, halt, human, result, mails>>

\* Mutant: a rejected password does not stop the loop.
StartSendHalted(f, c) ==
    /\ Visit(f, c)
    /\ ~Duplicate(f, c)
    /\ smtp' = [smtp EXCEPT ![f] = [to |-> c, port |-> 587, step |-> "connect"]]
    /\ UNCHANGED <<inputs, device, handler, halt, human, result, store, mails>>

StartSend(f, c) ==
    /\ Visit(f, c)
    /\ ~Duplicate(f, c)
    /\ ~halt[f]
    /\ smtp' = [smtp EXCEPT ![f] = [to |-> c, port |-> 587, step |-> "connect"]]
    /\ UNCHANGED <<inputs, device, handler, halt, human, result, store, mails>>

Login(f) ==
    /\ smtp[f] # None
    /\ smtp[f].step = "connect"
    /\ smtp' = [smtp EXCEPT ![f].step = "loggedIn"]
    /\ UNCHANGED <<inputs, device, handler, left, halt, human, result, store,
                   mails>>

\* Gmail accepts the message.
Data(f) ==
    /\ smtp[f] # None
    /\ smtp[f].step = "loggedIn"
    /\ smtp' = [smtp EXCEPT ![f].step = "accepted"]
    /\ mails' = [mails EXCEPT ![f][smtp[f].to] = @ + 1]
    /\ UNCHANGED <<inputs, device, handler, left, halt, human, result, store>>

\* Mutant: 465 is tried after any failure of 587.
FallsBackAlways(f, rejected) == smtp[f].port = 587 /\ ~rejected

\* The conversation breaks off: refused, timed out, or answered too late.
\* Port 465 is tried when 587 failed before the login, for another reason than
\* a rejection of the password.
FallsBack(f, rejected) ==
    smtp[f].port = 587 /\ smtp[f].step = "connect" /\ ~rejected

\* The conversation starts anew over port 465.
OverSsl(conversation) == [to |-> conversation.to, port |-> 465, step |-> "connect"]

SmtpFails(f, rejected) ==
    /\ smtp[f] # None
    /\ IF FallsBack(f, rejected)
       THEN /\ smtp' = [smtp EXCEPT ![f] = OverSsl(@)]
            /\ UNCHANGED <<halt, human, result>>
       ELSE /\ smtp' = [smtp EXCEPT ![f] = None]
            /\ result' = [result EXCEPT ![f][smtp[f].to] = "failed"]
            /\ halt' = [halt EXCEPT ![f] = @ \/ rejected]
            /\ human' = [human EXCEPT ![f] = @ \/ rejected]
    /\ UNCHANGED <<inputs, device, handler, left, store, mails>>

\* 250 and a clean end: the pair is remembered, the row is sent.
SmtpDone(f) ==
    /\ smtp[f] # None
    /\ smtp[f].step = "accepted"
    /\ smtp' = [smtp EXCEPT ![f] = None]
    /\ store' = store \cup {<<f, mailbox[smtp[f].to]>>}
    /\ result' = [result EXCEPT ![f][smtp[f].to] = "sent"]
    /\ UNCHANGED <<inputs, device, handler, left, halt, human, mails>>

Reply(f) ==
    /\ handler[f] = "open"
    /\ smtp[f] = None
    /\ left[f] = {}
    /\ handler' = [handler EXCEPT ![f] = "replied"]
    /\ UNCHANGED <<inputs, device, left, server>>

-----------------------------------------------------------------------------
Device(f) ==
    \/ TokenFails(f)
    \/ StartDispatch(f)
    \/ CapExceeded(f)
    \/ \E ok \in BOOLEAN : Prepare(f, ok)
    \/ SendBatchFails(f)
    \/ SendBatchAnswers(f)

Server(f) ==
    \/ \E configured \in BOOLEAN : Arrive(f, configured)
    \/ \E c \in Contacts : RowWithoutSmtp(f, c) \/ StartSend(f, c)
    \/ Login(f)
    \/ Data(f)
    \/ \E rejected \in BOOLEAN : SmtpFails(f, rejected)
    \/ SmtpDone(f)
    \/ Reply(f)

Next ==
    \/ FinishDesk
    \/ \E f \in Flows : ApproveAndSend(f) \/ Device(f) \/ Server(f)

Spec == Init /\ [][Next]_vars

-----------------------------------------------------------------------------
(* Properties                                                              *)

\* Types of the variables of the desk, the taps and the send-batch handlers.
TypeOK ==
    /\ mailbox \in [Contacts -> Mailboxes]
    /\ emailRows \subseteq Contacts
    /\ row \in [Contacts -> RowStatus]
    /\ phase \in {"desk", "report"}
    /\ dispatching \in BOOLEAN
    /\ saved \in [Contacts -> RowStatus] \cup {None}
    /\ pc \in [Flows -> {"idle", "token", "prepare", "request", "done"}]
    /\ work \in [Flows -> [Contacts -> RowStatus \cup {"absent"}]]
    /\ now \in [Flows -> Contacts \cup {None}]
    /\ handler \in [Flows -> {"none", "onWire", "open", "replied"}]
    /\ left \in [Flows -> SUBSET Contacts]
    /\ halt \in [Flows -> BOOLEAN]
    /\ human \in [Flows -> BOOLEAN]
    /\ result \in [Flows -> [Contacts -> RemoteStatus \cup {"none"}]]
    /\ smtp \in [Flows -> Conversation \cup {None}]
    /\ store \subseteq Flows \X Mailboxes
    /\ mails \in [Flows -> [Contacts -> Nat]]

\* One approval mails a customer at most once, whatever SMTP answers: the
\* fallback to port 465 never repeats a message port 587 may have taken, and
\* the loop never comes back to a recipient.
OneMailPerApproval == \A f \in Flows, c \in Contacts : mails[f][c] <= 1

\* A row the merchant sees as sent stands for a mail Gmail took for the mailbox
\* of that contact, also when it was skipped as a duplicate, whatever lost
\* requests, late answers and second taps came between.
SentRowWasMailed ==
    \A c \in Contacts : row[c] = "sent" =>
        \E f \in Flows, d \in Contacts : mailbox[d] = mailbox[c] /\ mails[f][d] > 0

\* When no dispatch is under way no row spins and the buttons are free, also
\* when two taps passed the check of collectionsDispatching before the token.
NothingLeftSending ==
    (\A f \in Flows : pc[f] \notin {"prepare", "request"}) =>
        /\ ~dispatching
        /\ \A c \in Contacts : row[c] # "sending"

\* The rows in the database after the last dispatch are the rows on the desk,
\* but for those the merchant closed as skipped since.
SavedIsTheDesk ==
    (saved # None /\ \A f \in Flows : pc[f] \notin {"prepare", "request"}) =>
        \A c \in Contacts :
            saved[c] = row[c] \/ (saved[c] = "pending" /\ row[c] = "skipped")

\* Once Gmail rejected the password, or the sender was misconfigured, no mail
\* of that batch leaves any more (the run checks it as a part of
\* EmailContractHolds).
NoMailAfterRejection ==
    [][\A f \in Flows : human[f] => mails'[f] = mails[f]]_vars

\* The rail implements what Confirm & Send promises.  Of EmailContract, an
\* approval is for the rows of its dispatch, and the merchant is told what the
\* rows of the desk say.
AskedBy == [f \in Flows |-> Batch(f)]
HaltedOnes == {f \in Flows : human[f]}
ToldSent == {c \in Contacts : row[c] = "sent"}

Contract == INSTANCE EmailContract WITH
    asked <- AskedBy, halted <- HaltedOnes, told <- ToldSent

EmailContractHolds == Contract!Spec
=============================================================================
