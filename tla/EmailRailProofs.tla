--------------------------- MODULE EmailRailProofs ---------------------------
(***************************************************************************)
(* Theorems about the e-mail rail, for any desk, mailboxes, number of taps *)
(* and cap.  The invariants are proved one after the other, each from      *)
(* those before it: the types; where a handler stands and what it has      *)
(* already mailed; that whatever is shown as sent was mailed; whose row a  *)
(* spinning row is; and that the rail implements EmailContract.            *)
(***************************************************************************)
EXTENDS EmailRail, TLAPS

(* ------------------------ inductive invariants ------------------------- *)

\* A handler runs only for a tap that made its request; it speaks SMTP only
\* while it is open, and never again to a recipient it has not left behind.
HandlerOK ==
    /\ \A f \in Flows : pc[f] \in {"idle", "token", "prepare"} => handler[f] = "none"
    /\ \A f \in Flows : handler[f] # "open" => smtp[f] = None
    /\ \A f \in Flows : smtp[f] # None => smtp[f].to \notin left[f]

\* A recipient that was mailed is behind the loop, and the conversation with
\* it, if it goes on, is past the DATA.
MailedOnce ==
    \A f \in Flows, c \in Contacts :
        /\ mails[f][c] <= 1
        /\ mails[f][c] > 0 =>
            /\ handler[f] \notin {"none", "onWire"}
            /\ c \notin left[f]
            /\ (smtp[f] # None /\ smtp[f].to = c) => smtp[f].step = "accepted"

\* What needs a human is halted, and no conversation goes on.
HaltOK ==
    \A f \in Flows :
        human[f] => halt[f] /\ smtp[f] = None /\ handler[f] \notin {"none", "onWire"}

\* The approval f mailed the mailbox m.
Mailed(f, m) == \E d \in Contacts : mailbox[d] = m /\ mails[f][d] > 0

\* Whatever says sent, remembers or repeats it stands for a mail.
SentOK ==
    /\ \A f \in Flows : (smtp[f] # None /\ smtp[f].step = "accepted") =>
           mails[f][smtp[f].to] > 0
    /\ \A f \in Flows, m \in Mailboxes : <<f, m>> \in store => Mailed(f, m)
    /\ \A f \in Flows, c \in Contacts :
           result[f][c] \in {"sent", "skippedDuplicate"} => Mailed(f, mailbox[c])
    /\ \A f \in Flows, c \in Contacts :
           work[f][c] = "sent" => \E g \in Flows : Mailed(g, mailbox[c])
    /\ \A c \in Contacts :
           row[c] = "sent" => \E g \in Flows : Mailed(g, mailbox[c])

\* A dispatch of tap f is under way.
Dispatches(f) == pc[f] \in {"prepare", "request"}

\* A spinning row, and the flag, belong to a dispatch that is under way.
SpinOK ==
    /\ \A c \in Contacts : row[c] = "sending" =>
           \E f \in Flows : Dispatches(f) /\ work[f][c] = "sending"
    /\ dispatching => \E f \in Flows : Dispatches(f)

(* -------------------------------- types -------------------------------- *)

\* The initial states have the types of the variables.
LEMMA TypeInit == Init => TypeOK
<1> SUFFICES ASSUME Init PROVE TypeOK
  OBVIOUS
<1>1. /\ mailbox \in [Contacts -> Mailboxes]
      /\ emailRows \subseteq Contacts
      /\ row \in [Contacts -> RowStatus]
      /\ work \in [Flows -> [Contacts -> RowStatus \cup {"absent"}]]
  BY DEF Init, RowStatus
<1>2. /\ phase \in {"desk", "report"}
      /\ dispatching \in BOOLEAN
      /\ saved \in [Contacts -> RowStatus] \cup {None}
      /\ pc \in [Flows -> {"idle", "token", "prepare", "request", "done"}]
      /\ now \in [Flows -> Contacts \cup {None}]
  BY DEF Init
<1>3. /\ handler \in [Flows -> {"none", "onWire", "open", "replied"}]
      /\ left \in [Flows -> SUBSET Contacts]
      /\ halt \in [Flows -> BOOLEAN]
      /\ human \in [Flows -> BOOLEAN]
      /\ result \in [Flows -> [Contacts -> RemoteStatus \cup {"none"}]]
      /\ smtp \in [Flows -> Conversation \cup {None}]
      /\ store \subseteq Flows \X Mailboxes
      /\ mails \in [Flows -> [Contacts -> Nat]]
  BY DEF Init
<1> QED
  BY <1>1, <1>2, <1>3 DEF TypeOK

\* The rows of a dispatch, merged into the desk, are rows of a desk; so are
\* the rows of a closed desk.
LEMMA RowsOfDesk ==
  ASSUME TypeOK, NEW w \in [Contacts -> RowStatus \cup {"absent"}]
  PROVE  /\ MergeDeskRows(w) \in [Contacts -> RowStatus]
         /\ Closed(MergeDeskRows(w)) \in [Contacts -> RowStatus]
         /\ Closed(row) \in [Contacts -> RowStatus]
         /\ Reverted(w) \in [Contacts -> RowStatus \cup {"absent"}]
BY DEF TypeOK, RowStatus, MergeDeskRows, Closed, Reverted

\* The steps of the merchant keep the types.
LEMMA MerchantType ==
  ASSUME TypeOK
  PROVE  /\ FinishDesk => TypeOK'
         /\ \A f \in Flows : ApproveAndSend(f) => TypeOK'
<1>1. ASSUME FinishDesk PROVE TypeOK'
  <2>1. row' \in [Contacts -> RowStatus]
    BY <1>1 DEF FinishDesk, TypeOK, Closed, RowStatus
  <2> QED
    BY <1>1, <2>1 DEF FinishDesk, TypeOK, inputs, server
<1>2. ASSUME NEW f \in Flows, ApproveAndSend(f) PROVE TypeOK'
  <2>1. work' \in [Flows -> [Contacts -> RowStatus \cup {"absent"}]]
    BY <1>2 DEF ApproveAndSend, TypeOK, RowStatus
  <2> QED
    BY <1>2, <2>1 DEF ApproveAndSend, TypeOK, inputs, server
<1> QED
  BY <1>1, <1>2

\* The steps of a dispatch on the device keep the types.
LEMMA DeviceType ==
  ASSUME TypeOK, NEW f \in Flows, Device(f)
  PROVE  TypeOK'
<1>1. CASE TokenFails(f)
  BY <1>1 DEF TokenFails, TypeOK, inputs, server
<1>2. CASE StartDispatch(f)
  <2>1. PICK c \in Contacts : /\ work' = [work EXCEPT ![f][c] = "sending"]
                              /\ now' = [now EXCEPT ![f] = c]
    BY <1>2 DEF StartDispatch, Batch
  <2>2. work' \in [Flows -> [Contacts -> RowStatus \cup {"absent"}]]
    BY <2>1 DEF TypeOK, RowStatus
  <2>3. row' \in [Contacts -> RowStatus]
    BY <1>2, <2>2, RowsOfDesk DEF StartDispatch
  <2> QED
    BY <1>2, <2>1, <2>2, <2>3 DEF StartDispatch, TypeOK, inputs, server
<1>3. CASE CapExceeded(f)
  BY <1>3 DEF CapExceeded, StayOnDesk, TypeOK, inputs, server
<1>4. ASSUME NEW ok \in BOOLEAN, Prepare(f, ok) PROVE TypeOK'
  <2> DEFINE prepared == [work[f] EXCEPT ![now[f]] = IF ok THEN "sending" ELSE "failed"]
             recipients == {c \in Contacts : prepared[c] = "sending"}
             waiting == {c \in Contacts : prepared[c] = "pending"}
  <2>1. prepared \in [Contacts -> RowStatus \cup {"absent"}]
    BY DEF TypeOK, RowStatus
  <2>2. UNCHANGED <<inputs, server>>
    BY <1>4 DEF Prepare
  <2>3. CASE waiting # {}
    <3>1. PICK c \in waiting : /\ work' = [work EXCEPT ![f] = [prepared EXCEPT ![c] = "sending"]]
                               /\ now' = [now EXCEPT ![f] = c]
      BY <1>4, <2>3 DEF Prepare
    <3>2. [prepared EXCEPT ![c] = "sending"] \in [Contacts -> RowStatus \cup {"absent"}]
      BY <2>1 DEF RowStatus
    <3>3. /\ work' \in [Flows -> [Contacts -> RowStatus \cup {"absent"}]]
          /\ now' \in [Flows -> Contacts \cup {None}]
      BY <3>1, <3>2 DEF TypeOK
    <3>4. /\ row' = MergeDeskRows(work'[f])
          /\ UNCHANGED <<phase, dispatching, saved, pc, handler, left>>
      BY <1>4, <2>3 DEF Prepare
    <3>5. row' \in [Contacts -> RowStatus]
      BY <3>3, <3>4, RowsOfDesk
    <3> QED
      BY <2>2, <3>3, <3>4, <3>5 DEF TypeOK, inputs, server
  <2>4. CASE waiting = {}
    <3>1. /\ work' = [work EXCEPT ![f] = prepared]
          /\ now' = [now EXCEPT ![f] = None]
      BY <1>4, <2>4 DEF Prepare
    <3>2. /\ work' \in [Flows -> [Contacts -> RowStatus \cup {"absent"}]]
          /\ now' \in [Flows -> Contacts \cup {None}]
      BY <2>1, <3>1 DEF TypeOK
    <3>3. \/ /\ row' = MergeDeskRows(prepared)
             /\ pc' = [pc EXCEPT ![f] = "request"]
             /\ handler' = [handler EXCEPT ![f] = "onWire"]
             /\ left' = [left EXCEPT ![f] = recipients]
             /\ UNCHANGED <<phase, dispatching, saved>>
          \/ CloseDesk(f, MergeDeskRows(prepared)) /\ UNCHANGED <<handler, left>>
      BY <1>4, <2>4 DEF Prepare
    <3>4. /\ MergeDeskRows(prepared) \in [Contacts -> RowStatus]
          /\ Closed(MergeDeskRows(prepared)) \in [Contacts -> RowStatus]
      BY <2>1, RowsOfDesk
    <3>5. recipients \in SUBSET Contacts
      OBVIOUS
    <3> HIDE DEF prepared, recipients
    <3>6. CASE CloseDesk(f, MergeDeskRows(prepared)) /\ UNCHANGED <<handler, left>>
      BY <2>2, <3>2, <3>4, <3>6 DEF CloseDesk, TypeOK, inputs, server
    <3>7. CASE /\ row' = MergeDeskRows(prepared)
               /\ pc' = [pc EXCEPT ![f] = "request"]
               /\ handler' = [handler EXCEPT ![f] = "onWire"]
               /\ left' = [left EXCEPT ![f] = recipients]
               /\ UNCHANGED <<phase, dispatching, saved>>
      BY <2>2, <3>2, <3>4, <3>5, <3>7 DEF TypeOK, inputs, server
    <3> QED
      BY <3>3, <3>6, <3>7
  <2> QED
    BY <2>3, <2>4
<1>5. CASE SendBatchFails(f)
  <2>1. Reverted(work[f]) \in [Contacts -> RowStatus \cup {"absent"}]
    BY RowsOfDesk DEF TypeOK
  <2>2. work' \in [Flows -> [Contacts -> RowStatus \cup {"absent"}]]
    BY <1>5, <2>1 DEF SendBatchFails, TypeOK
  <2>3. MergeDeskRows(work'[f]) \in [Contacts -> RowStatus]
    BY <2>2, RowsOfDesk
  <2> QED
    BY <1>5, <2>2, <2>3 DEF SendBatchFails, StayOnDesk, TypeOK, inputs, server
<1>6. CASE SendBatchAnswers(f)
  <2>1. ApplyRemoteResults(work[f], result[f]) \in [Contacts -> RowStatus \cup {"absent"}]
    BY DEF ApplyRemoteResults, MapRemote, TypeOK, RowStatus
  <2>2. work' \in [Flows -> [Contacts -> RowStatus \cup {"absent"}]]
    BY <1>6, <2>1 DEF SendBatchAnswers, TypeOK
  <2>3. Closed(MergeDeskRows(work'[f])) \in [Contacts -> RowStatus]
    BY <2>2, RowsOfDesk
  <2> QED
    BY <1>6, <2>2, <2>3 DEF SendBatchAnswers, CloseDesk, TypeOK, inputs, server
<1> QED
  BY <1>1, <1>2, <1>3, <1>4, <1>5, <1>6 DEF Device

\* A conversation that falls back to port 465 goes on with its recipient.
LEMMA FallbackKeepsTo ==
  ASSUME NEW x \in Conversation
  PROVE  /\ OverSsl(x) \in Conversation
         /\ OverSsl(x).to = x.to
         /\ OverSsl(x).step = "connect"
BY DEF OverSsl, Conversation

\* The steps of the send-batch handler and of its SMTP conversation keep the
\* types.
LEMMA ServerType ==
  ASSUME TypeOK, NEW f \in Flows, Server(f)
  PROVE  TypeOK'
<1> USE DEF inputs, device
<1>1. ASSUME NEW configured \in BOOLEAN, Arrive(f, configured) PROVE TypeOK'
  BY <1>1 DEF Arrive, TypeOK
<1>2. ASSUME NEW c \in Contacts, RowWithoutSmtp(f, c) PROVE TypeOK'
  <2>1. result' \in [Flows -> [Contacts -> RemoteStatus \cup {"none"}]]
    BY <1>2 DEF RowWithoutSmtp, TypeOK, RemoteStatus
  <2> QED
    BY <1>2, <2>1 DEF RowWithoutSmtp, Visit, TypeOK
<1>3. ASSUME NEW c \in Contacts, StartSend(f, c) PROVE TypeOK'
  <2>1. [to |-> c, port |-> 587, step |-> "connect"] \in Conversation
    BY DEF Conversation
  <2> QED
    BY <1>3, <2>1 DEF StartSend, Visit, TypeOK
<1>4. ASSUME smtp[f] # None PROVE smtp[f] \in Conversation /\ smtp[f].to \in Contacts
  BY <1>4 DEF TypeOK, Conversation
<1>5. CASE Login(f)
  <2>1. [smtp[f] EXCEPT !.step = "loggedIn"] \in Conversation
    BY <1>4, <1>5 DEF Login, Conversation
  <2> QED
    BY <1>5, <2>1 DEF Login, TypeOK
<1>6. CASE Data(f)
  <2>1. [smtp[f] EXCEPT !.step = "accepted"] \in Conversation
    BY <1>4, <1>6 DEF Data, Conversation
  <2>2. mails' \in [Flows -> [Contacts -> Nat]]
    BY <1>4, <1>6 DEF Data, TypeOK
  <2> QED
    BY <1>6, <2>1, <2>2 DEF Data, TypeOK
<1>7. ASSUME NEW rejected \in BOOLEAN, SmtpFails(f, rejected) PROVE TypeOK'
  <2>1. OverSsl(smtp[f]) \in Conversation
    BY <1>4, <1>7, FallbackKeepsTo DEF SmtpFails
  <2>2. [result EXCEPT ![f][smtp[f].to] = "failed"]
          \in [Flows -> [Contacts -> RemoteStatus \cup {"none"}]]
    BY DEF TypeOK, RemoteStatus
  <2>3. CASE FallsBack(f, rejected)
    BY <1>7, <2>1, <2>3 DEF SmtpFails, TypeOK
  <2>4. CASE ~FallsBack(f, rejected)
    BY <1>7, <2>2, <2>4 DEF SmtpFails, TypeOK
  <2> QED
    BY <2>3, <2>4
<1>8. CASE SmtpDone(f)
  <2>1. [result EXCEPT ![f][smtp[f].to] = "sent"]
          \in [Flows -> [Contacts -> RemoteStatus \cup {"none"}]]
    BY DEF TypeOK, RemoteStatus
  <2>2. <<f, mailbox[smtp[f].to]>> \in Flows \X Mailboxes
    BY <1>4, <1>8 DEF SmtpDone, TypeOK
  <2> QED
    BY <1>8, <2>1, <2>2 DEF SmtpDone, TypeOK
<1>9. CASE Reply(f)
  BY <1>9 DEF Reply, server, TypeOK
<1> QED
  BY <1>1, <1>2, <1>3, <1>5, <1>6, <1>7, <1>8, <1>9 DEF Server

\* Every step keeps the types.
LEMMA TypeNext ==
  ASSUME TypeOK, [Next]_vars
  PROVE  TypeOK'
<1>1. CASE Next
  BY <1>1, MerchantType, DeviceType, ServerType DEF Next
<1>2. CASE UNCHANGED vars
  BY <1>2 DEF vars, inputs, device, server, TypeOK
<1> QED
  BY <1>1, <1>2

\* Every behaviour of the e-mail rail has the types of its variables.
THEOREM EmailTypes == Spec => []TypeOK
BY TypeInit, TypeNext, PTL DEF Spec

(* --------------------- handlers and conversations ---------------------- *)

\* No step gives a tap without a request a handler, leaves a conversation open
\* when its handler ends, or comes back to a recipient.
LEMMA HandlerNext ==
  ASSUME TypeOK, HandlerOK, [Next]_vars
  PROVE  HandlerOK'
<1> USE DEF HandlerOK, inputs, device, server
<1>1. CASE FinishDesk
  BY <1>1 DEF FinishDesk
<1>2. ASSUME NEW f \in Flows, ApproveAndSend(f) PROVE HandlerOK'
  BY <1>2 DEF ApproveAndSend, TypeOK
<1>3. ASSUME NEW f \in Flows, Device(f) PROVE HandlerOK'
  <2>1. CASE TokenFails(f)
    BY <1>3, <2>1 DEF TokenFails, TypeOK
  <2>2. CASE StartDispatch(f)
    <3>1. pc' = [pc EXCEPT ![f] = "prepare"] /\ pc[f] = "token"
      BY <2>2 DEF StartDispatch
    <3>2. UNCHANGED <<handler, left, smtp>>
      BY <2>2 DEF StartDispatch
    <3> QED
      BY <3>1, <3>2 DEF TypeOK
  <2>3. CASE CapExceeded(f)
    BY <2>3 DEF CapExceeded, StayOnDesk, TypeOK
  <2>4. ASSUME NEW ok \in BOOLEAN, Prepare(f, ok) PROVE HandlerOK'
    <3>1. pc[f] = "prepare" /\ UNCHANGED smtp
      BY <2>4 DEF Prepare
    <3>2. \/ UNCHANGED <<pc, handler, left>>
          \/ pc' = [pc EXCEPT ![f] = "done"] /\ UNCHANGED <<handler, left>>
          \/ /\ pc' = [pc EXCEPT ![f] = "request"]
             /\ handler' = [handler EXCEPT ![f] = "onWire"]
             /\ \E s \in SUBSET Contacts : left' = [left EXCEPT ![f] = s]
      BY <2>4 DEF Prepare, CloseDesk
    <3> QED
      BY <3>1, <3>2 DEF TypeOK
  <2>5. CASE SendBatchFails(f)
    BY <2>5 DEF SendBatchFails, StayOnDesk, TypeOK
  <2>6. CASE SendBatchAnswers(f)
    BY <2>6 DEF SendBatchAnswers, CloseDesk, TypeOK
  <2> QED
    BY <1>3, <2>1, <2>2, <2>3, <2>4, <2>5, <2>6 DEF Device
<1>4. ASSUME NEW f \in Flows, Server(f) PROVE HandlerOK'
  <2>1. ASSUME NEW configured \in BOOLEAN, Arrive(f, configured) PROVE HandlerOK'
    BY <2>1 DEF Arrive, TypeOK
  <2>2. ASSUME NEW c \in Contacts, RowWithoutSmtp(f, c) PROVE HandlerOK'
    BY <2>2 DEF RowWithoutSmtp, Visit, TypeOK
  <2>3. ASSUME NEW c \in Contacts, StartSend(f, c) PROVE HandlerOK'
    BY <2>3 DEF StartSend, Visit, TypeOK
  <2>4. CASE Login(f)
    BY <2>4 DEF Login, TypeOK, Conversation
  <2>5. CASE Data(f)
    BY <2>5 DEF Data, TypeOK, Conversation
  <2>6. ASSUME NEW rejected \in BOOLEAN, SmtpFails(f, rejected) PROVE HandlerOK'
    <3>1. UNCHANGED <<pc, handler, left>>
      BY <2>6 DEF SmtpFails
    <3>2. smtp[f] # None /\ smtp[f] \in Conversation
      BY <2>6 DEF SmtpFails, TypeOK
    <3>3. \/ smtp' = [smtp EXCEPT ![f] = None]
          \/ smtp' = [smtp EXCEPT ![f] = OverSsl(@)]
      BY <2>6 DEF SmtpFails
    <3>4. CASE smtp' = [smtp EXCEPT ![f] = None]
      BY <3>1, <3>2, <3>4 DEF TypeOK
    <3>5. CASE smtp' = [smtp EXCEPT ![f] = OverSsl(@)]
      <4>1. /\ smtp'[f] = OverSsl(smtp[f])
            /\ \A g \in Flows \ {f} : smtp'[g] = smtp[g]
        <5> HIDE DEF HandlerOK, inputs, device, server
        <5> QED
          BY <3>5 DEF TypeOK
      <4>2. smtp'[f].to = smtp[f].to
        BY <3>2, <4>1, FallbackKeepsTo
      <4>3. \A g \in Flows \ {f} : smtp'[g] = smtp[g]
        BY <4>1
      <4> QED
        BY <3>1, <3>2, <4>2, <4>3
    <3> QED
      BY <3>3, <3>4, <3>5
  <2>7. CASE SmtpDone(f)
    BY <2>7 DEF SmtpDone, TypeOK
  <2>8. CASE Reply(f)
    BY <2>8 DEF Reply, TypeOK
  <2> QED
    BY <1>4, <2>1, <2>2, <2>3, <2>4, <2>5, <2>6, <2>7, <2>8 DEF Server
<1>5. CASE UNCHANGED vars
  BY <1>5 DEF vars
<1> QED
  BY <1>1, <1>2, <1>3, <1>4, <1>5 DEF Next

\* What the device does to the server: nothing, but for the request it makes.
LEMMA DeviceFrame ==
  ASSUME NEW f \in Flows, Device(f)
  PROVE  /\ UNCHANGED <<inputs, server>>
         /\ \/ UNCHANGED <<handler, left>>
            \/ /\ pc[f] = "prepare"
               /\ handler' = [handler EXCEPT ![f] = "onWire"]
               /\ \E s \in SUBSET Contacts : left' = [left EXCEPT ![f] = s]
<1>1. ASSUME NEW ok \in BOOLEAN, Prepare(f, ok)
      PROVE  /\ UNCHANGED <<inputs, server>>
             /\ \/ UNCHANGED <<handler, left>>
                \/ /\ pc[f] = "prepare"
                   /\ handler' = [handler EXCEPT ![f] = "onWire"]
                   /\ \E s \in SUBSET Contacts : left' = [left EXCEPT ![f] = s]
  BY <1>1 DEF Prepare
<1> QED
  BY <1>1 DEF Device, TokenFails, StartDispatch, CapExceeded, SendBatchFails,
              SendBatchAnswers

\* A conversation that breaks off before the login goes on over port 465, any
\* other is over and its recipient has failed.
LEMMA SmtpFailsEffect ==
  ASSUME TypeOK, NEW f \in Flows, NEW rejected \in BOOLEAN, SmtpFails(f, rejected)
  PROVE  /\ smtp[f] # None /\ smtp[f] \in Conversation
         /\ UNCHANGED <<inputs, device, handler, left, store, mails>>
         /\ \/ /\ smtp' = [smtp EXCEPT ![f] = None]
               /\ result' = [result EXCEPT ![f][smtp[f].to] = "failed"]
               /\ halt' = [halt EXCEPT ![f] = @ \/ rejected]
               /\ human' = [human EXCEPT ![f] = @ \/ rejected]
            \/ /\ \A g \in Flows \ {f} : smtp'[g] = smtp[g]
               /\ smtp'[f].to = smtp[f].to
               /\ smtp[f].step = "connect" /\ smtp'[f].step = "connect"
               /\ UNCHANGED <<halt, human, result>>
<1>1. smtp[f] # None /\ smtp[f] \in Conversation
  BY DEF SmtpFails, TypeOK
<1>2. UNCHANGED <<inputs, device, handler, left, store, mails>>
  BY DEF SmtpFails
<1>3. CASE FallsBack(f, rejected)
  <2>1. /\ smtp' = [smtp EXCEPT ![f] = OverSsl(@)]
        /\ UNCHANGED <<halt, human, result>>
    BY <1>3 DEF SmtpFails
  <2>2. /\ smtp'[f] = OverSsl(smtp[f])
        /\ \A g \in Flows \ {f} : smtp'[g] = smtp[g]
    BY <2>1 DEF TypeOK
  <2>3. smtp'[f].to = smtp[f].to /\ smtp'[f].step = "connect"
    <3>1. smtp'[f] = OverSsl(smtp[f])
      BY <2>2
    <3> QED
      BY <1>1, <3>1, FallbackKeepsTo
  <2>4. smtp[f].step = "connect"
    BY <1>3 DEF FallsBack
  <2>5. \A g \in Flows \ {f} : smtp'[g] = smtp[g]
    BY <2>2
  <2>6. UNCHANGED <<halt, human, result>>
    BY <2>1
  <2> QED
    BY <1>1, <1>2, <2>3, <2>4, <2>5, <2>6
<1>4. CASE ~FallsBack(f, rejected)
  BY <1>1, <1>2, <1>4 DEF SmtpFails
<1> QED
  BY <1>3, <1>4

\* No step mails a recipient again: DATA is reached once for each, and what
\* is mailed is behind the loop.
LEMMA MailedNext ==
  ASSUME TypeOK, HandlerOK, MailedOnce, [Next]_vars
  PROVE  MailedOnce'
<1>1. CASE FinishDesk
  BY <1>1 DEF FinishDesk, MailedOnce, server
<1>2. ASSUME NEW f \in Flows, ApproveAndSend(f) PROVE MailedOnce'
  BY <1>2 DEF ApproveAndSend, MailedOnce, server
<1>3. ASSUME NEW f \in Flows, Device(f) PROVE MailedOnce'
  <2>1. UNCHANGED <<smtp, mails>>
    BY <1>3, DeviceFrame DEF server
  <2>2. CASE UNCHANGED <<handler, left>>
    BY <2>1, <2>2 DEF MailedOnce
  <2>3. CASE /\ pc[f] = "prepare"
             /\ handler' = [handler EXCEPT ![f] = "onWire"]
             /\ \E s \in SUBSET Contacts : left' = [left EXCEPT ![f] = s]
    <3>1. \A c \in Contacts : ~(mails[f][c] > 0)
      BY <2>3 DEF HandlerOK, MailedOnce
    <3> QED
      BY <2>1, <2>3, <3>1 DEF MailedOnce, TypeOK
  <2> QED
    BY <1>3, <2>2, <2>3, DeviceFrame
<1>4. ASSUME NEW f \in Flows, Server(f) PROVE MailedOnce'
  <2> USE DEF MailedOnce
  <2>1. ASSUME NEW configured \in BOOLEAN, Arrive(f, configured) PROVE MailedOnce'
    BY <2>1 DEF Arrive, TypeOK
  <2>2. ASSUME NEW c \in Contacts, RowWithoutSmtp(f, c) PROVE MailedOnce'
    BY <2>2 DEF RowWithoutSmtp, Visit, TypeOK
  <2>3. ASSUME NEW c \in Contacts, StartSend(f, c) PROVE MailedOnce'
    <3>1. /\ UNCHANGED <<handler, mails>>
          /\ c \in left[f]
          /\ left' = [left EXCEPT ![f] = @ \ {c}]
          /\ smtp' = [smtp EXCEPT ![f] = [to |-> c, port |-> 587, step |-> "connect"]]
      BY <2>3 DEF StartSend, Visit
    <3>2. smtp'[f].to = c /\ \A g \in Flows \ {f} : smtp'[g] = smtp[g]
      BY <3>1 DEF TypeOK
    <3>3. \A g \in Flows : left'[g] \subseteq left[g]
      BY <3>1 DEF TypeOK
    <3> QED
      BY <3>1, <3>2, <3>3
  <2>4. CASE Login(f)
    <3>1. /\ UNCHANGED <<handler, left, mails>>
          /\ smtp[f] # None /\ smtp[f] \in Conversation /\ smtp[f].step = "connect"
      BY <2>4 DEF Login, TypeOK
    <3>2. smtp'[f].to = smtp[f].to /\ \A g \in Flows \ {f} : smtp'[g] = smtp[g]
      BY <2>4, <3>1 DEF Login, TypeOK, Conversation
    <3> QED
      BY <3>1, <3>2
  <2>5. CASE Data(f)
    <3>1. /\ UNCHANGED <<handler, left>>
          /\ smtp[f] # None /\ smtp[f] \in Conversation
          /\ smtp[f].step = "loggedIn" /\ smtp[f].to \in Contacts
          /\ mails' = [mails EXCEPT ![f][smtp[f].to] = @ + 1]
      BY <2>5 DEF Data, TypeOK, Conversation
    <3>2. /\ smtp'[f].to = smtp[f].to /\ smtp'[f].step = "accepted"
          /\ \A g \in Flows \ {f} : smtp'[g] = smtp[g]
      BY <2>5, <3>1 DEF Data, TypeOK, Conversation
    <3>3. handler[f] = "open" /\ smtp[f].to \notin left[f]
      BY <3>1 DEF HandlerOK
    <3>4. mails[f][smtp[f].to] = 0
      <4>1. ~(mails[f][smtp[f].to] > 0)
        BY <3>1
      <4>2. mails[f][smtp[f].to] \in Nat
        BY <3>1 DEF TypeOK
      <4> QED
        BY <4>1, <4>2
    <3>5. /\ mails'[f][smtp[f].to] = 1
          /\ \A g \in Flows, c \in Contacts :
                <<g, c>> # <<f, smtp[f].to>> => mails'[g][c] = mails[g][c]
      BY <3>1, <3>4 DEF TypeOK
    <3> QED
      BY <3>1, <3>2, <3>3, <3>5
  <2>6. ASSUME NEW rejected \in BOOLEAN, SmtpFails(f, rejected) PROVE MailedOnce'
    <3>1. UNCHANGED <<handler, left, mails>>
      BY <2>6, SmtpFailsEffect
    <3>2. CASE smtp' = [smtp EXCEPT ![f] = None]
      BY <3>1, <3>2 DEF TypeOK
    <3>3. CASE /\ \A g \in Flows \ {f} : smtp'[g] = smtp[g]
               /\ smtp'[f].to = smtp[f].to /\ smtp[f].step = "connect"
      <4>1. smtp[f] # None
        BY <2>6, SmtpFailsEffect
      <4> QED
        BY <3>1, <3>3, <4>1
    <3> QED
      BY <2>6, <3>2, <3>3, SmtpFailsEffect
  <2>7. CASE SmtpDone(f)
    BY <2>7 DEF SmtpDone, TypeOK, device
  <2>8. CASE Reply(f)
    BY <2>8 DEF Reply, TypeOK, server
  <2> QED
    BY <1>4, <2>1, <2>2, <2>3, <2>4, <2>5, <2>6, <2>7, <2>8 DEF Server
<1>5. CASE UNCHANGED vars
  BY <1>5 DEF vars, device, server, MailedOnce
<1> QED
  BY <1>1, <1>2, <1>3, <1>4, <1>5 DEF Next

\* A halt is never taken back, and nothing is sent under it.
LEMMA HaltNext ==
  ASSUME TypeOK, HandlerOK, HaltOK, [Next]_vars
  PROVE  HaltOK' /\ \A f \in Flows : human[f] => mails'[f] = mails[f]
<1> DEFINE Goal == HaltOK' /\ \A f \in Flows : human[f] => mails'[f] = mails[f]
<1>1. CASE FinishDesk
  BY <1>1 DEF FinishDesk, HaltOK, server
<1>2. ASSUME NEW f \in Flows, ApproveAndSend(f) PROVE Goal
  BY <1>2 DEF ApproveAndSend, HaltOK, server
<1>3. ASSUME NEW f \in Flows, Device(f) PROVE Goal
  <2>1. UNCHANGED server
    BY <1>3, DeviceFrame
  <2>2. CASE UNCHANGED <<handler, left>>
    BY <2>1, <2>2 DEF HaltOK, server
  <2>3. CASE pc[f] = "prepare" /\ handler' = [handler EXCEPT ![f] = "onWire"]
    BY <2>1, <2>3 DEF HaltOK, HandlerOK, TypeOK, server
  <2> QED
    BY <1>3, <2>2, <2>3, DeviceFrame
<1>4. ASSUME NEW f \in Flows, Server(f) PROVE Goal
  <2> USE DEF HaltOK
  <2>1. ASSUME NEW configured \in BOOLEAN, Arrive(f, configured) PROVE Goal
    BY <2>1 DEF Arrive, TypeOK, HandlerOK
  <2>2. ASSUME NEW c \in Contacts, RowWithoutSmtp(f, c) PROVE Goal
    BY <2>2 DEF RowWithoutSmtp
  <2>3. ASSUME NEW c \in Contacts, StartSend(f, c) PROVE Goal
    BY <2>3 DEF StartSend, TypeOK
  <2>4. CASE Login(f)
    BY <2>4 DEF Login, TypeOK
  <2>5. CASE Data(f)
    BY <2>5 DEF Data, TypeOK
  <2>6. ASSUME NEW rejected \in BOOLEAN, SmtpFails(f, rejected) PROVE Goal
    <3>1. UNCHANGED <<handler, mails>> /\ smtp[f] # None
      BY <2>6, SmtpFailsEffect
    <3>2. CASE /\ smtp' = [smtp EXCEPT ![f] = None]
               /\ halt' = [halt EXCEPT ![f] = @ \/ rejected]
               /\ human' = [human EXCEPT ![f] = @ \/ rejected]
      <4>1. handler[f] = "open"
        BY <3>1 DEF HandlerOK
      <4>2. ASSUME NEW g \in Flows, human'[g]
            PROVE  halt'[g] /\ smtp'[g] = None /\ handler'[g] \notin {"none", "onWire"}
        <5>1. CASE g = f
          BY <3>1, <3>2, <4>1, <4>2, <5>1 DEF TypeOK
        <5>2. CASE g # f
          BY <3>1, <3>2, <4>2, <5>2 DEF TypeOK
        <5> QED
          BY <5>1, <5>2
      <4> QED
        BY <3>1, <4>2
    <3>3. CASE (\A g \in Flows \ {f} : smtp'[g] = smtp[g]) /\ UNCHANGED <<halt, human>>
      BY <3>1, <3>3
    <3> QED
      BY <2>6, <3>2, <3>3, SmtpFailsEffect
  <2>7. CASE SmtpDone(f)
    BY <2>7 DEF SmtpDone, TypeOK
  <2>8. CASE Reply(f)
    BY <2>8 DEF Reply, TypeOK, server
  <2> QED
    BY <1>4, <2>1, <2>2, <2>3, <2>4, <2>5, <2>6, <2>7, <2>8 DEF Server
<1>5. CASE UNCHANGED vars
  BY <1>5 DEF vars, server, HaltOK
<1> QED
  BY <1>1, <1>2, <1>3, <1>4, <1>5 DEF Next

(* ------------------------ what is shown as sent ------------------------ *)

\* A step never takes a mail back.
LEMMA MailsStay ==
  ASSUME TypeOK, [Next]_vars, NEW g \in Flows, NEW m \in Mailboxes, Mailed(g, m)
  PROVE  Mailed(g, m)'
<1>1. PICK d \in Contacts : mailbox[d] = m /\ mails[g][d] > 0
  BY DEF Mailed
<1>2. mailbox' = mailbox /\ mails'[g][d] >= mails[g][d]
  <2>1. mails[g][d] \in Nat
    BY DEF TypeOK
  <2>2. ASSUME NEW f \in Flows, Data(f) PROVE mailbox' = mailbox /\ mails'[g][d] >= mails[g][d]
    <3>1. smtp[f].to \in Contacts
      BY <2>2 DEF Data, TypeOK, Conversation
    <3>2. mails' = [mails EXCEPT ![f][smtp[f].to] = @ + 1] /\ mailbox' = mailbox
      BY <2>2 DEF Data, inputs
    <3> QED
      BY <2>1, <3>1, <3>2 DEF TypeOK
  <2>3. ASSUME NEW f \in Flows, Server(f), ~Data(f) PROVE mailbox' = mailbox /\ mails' = mails
    BY <2>3 DEF Server, Arrive, RowWithoutSmtp, StartSend, Login, SmtpFails, SmtpDone,
                Reply, inputs, server
  <2>4. ASSUME NEW f \in Flows, Device(f) PROVE mailbox' = mailbox /\ mails' = mails
    BY <2>4, DeviceFrame DEF inputs, server
  <2>5. ASSUME NEW f \in Flows, ApproveAndSend(f) PROVE mailbox' = mailbox /\ mails' = mails
    BY <2>5 DEF ApproveAndSend, inputs, server
  <2>6. CASE FinishDesk
    BY <2>1, <2>6 DEF FinishDesk, inputs, server
  <2>7. CASE UNCHANGED vars
    BY <2>1, <2>7 DEF vars, inputs, server
  <2> QED
    BY <2>1, <2>2, <2>3, <2>4, <2>5, <2>6, <2>7 DEF Next
<1>3. mails[g][d] \in Nat /\ mails'[g][d] \in Nat
  BY TypeNext DEF TypeOK
<1> QED
  BY <1>1, <1>2, <1>3 DEF Mailed

\* The device shows a row as sent only when it was so, or when the server
\* says so.
LEMMA DeviceSent ==
  ASSUME TypeOK, NEW f \in Flows, Device(f)
  PROVE  /\ \A g \in Flows, c \in Contacts : work'[g][c] = "sent" =>
                \/ work[g][c] = "sent"
                \/ g = f /\ result[f][c] \in {"sent", "skippedDuplicate"}
         /\ \A c \in Contacts : row'[c] = "sent" => row[c] = "sent" \/ work'[f][c] = "sent"
<1> DEFINE WorkSent == \A g \in Flows, c \in Contacts : work'[g][c] = "sent" =>
                           \/ work[g][c] = "sent"
                           \/ g = f /\ result[f][c] \in {"sent", "skippedDuplicate"}
           RowSent == \A c \in Contacts :
                          row'[c] = "sent" => row[c] = "sent" \/ work'[f][c] = "sent"
<1> USE DEF MergeDeskRows, Closed
<1>1. CASE TokenFails(f)
  BY <1>1 DEF TokenFails
<1>2. CASE StartDispatch(f)
  <2>1. PICK c \in Contacts : work' = [work EXCEPT ![f][c] = "sending"]
    BY <1>2 DEF StartDispatch, Batch
  <2>2. WorkSent
    BY <2>1 DEF TypeOK
  <2>3. row' = MergeDeskRows(work'[f])
    BY <1>2 DEF StartDispatch
  <2> QED
    BY <2>2, <2>3
<1>3. CASE CapExceeded(f)
  BY <1>3 DEF CapExceeded, StayOnDesk
<1>4. ASSUME NEW ok \in BOOLEAN, Prepare(f, ok) PROVE WorkSent /\ RowSent
  <2> DEFINE prepared == [work[f] EXCEPT ![now[f]] = IF ok THEN "sending" ELSE "failed"]
  <2>1. \A c \in Contacts : prepared[c] = "sent" => work[f][c] = "sent"
    BY DEF TypeOK
  <2>2. \/ work' = [work EXCEPT ![f] = prepared]
        \/ \E c \in Contacts : work' = [work EXCEPT ![f] = [prepared EXCEPT ![c] = "sending"]]
    BY <1>4 DEF Prepare
  <2>3. row' \in {MergeDeskRows(work'[f]), MergeDeskRows(prepared),
                  Closed(MergeDeskRows(prepared))}
    BY <1>4 DEF Prepare, CloseDesk
  <2>4. WorkSent
    <3>1. CASE work' = [work EXCEPT ![f] = prepared]
      BY <2>1, <3>1 DEF TypeOK
    <3>2. ASSUME NEW c \in Contacts,
                 work' = [work EXCEPT ![f] = [prepared EXCEPT ![c] = "sending"]]
          PROVE  WorkSent
      BY <2>1, <3>2 DEF TypeOK
    <3> QED
      BY <2>2, <3>1, <3>2
  <2>5. RowSent
    <3>1. CASE row' = MergeDeskRows(work'[f])
      BY <3>1
    <3>2. CASE work'[f] = prepared
      BY <2>3, <3>2
    <3>3. row' = MergeDeskRows(work'[f]) \/ work'[f] = prepared
      BY <1>4 DEF Prepare, TypeOK
    <3> QED
      BY <3>1, <3>2, <3>3
  <2> QED
    BY <2>4, <2>5
<1>5. CASE SendBatchFails(f)
  <2>1. work' = [work EXCEPT ![f] = Reverted(work[f])]
    BY <1>5 DEF SendBatchFails
  <2>2. WorkSent
    BY <2>1 DEF Reverted, TypeOK
  <2>3. row' = MergeDeskRows(work'[f])
    BY <1>5 DEF SendBatchFails, StayOnDesk
  <2> QED
    BY <2>2, <2>3
<1>6. CASE SendBatchAnswers(f)
  <2>1. work' = [work EXCEPT ![f] = ApplyRemoteResults(work[f], result[f])]
    BY <1>6 DEF SendBatchAnswers
  <2>2. WorkSent
    BY <2>1 DEF ApplyRemoteResults, MapRemote, TypeOK
  <2>3. row' = Closed(MergeDeskRows(work'[f]))
    BY <1>6 DEF SendBatchAnswers, CloseDesk
  <2> QED
    BY <2>2, <2>3
<1> QED
  BY <1>1, <1>2, <1>3, <1>4, <1>5, <1>6 DEF Device

\* Whatever says sent goes on standing for a mail.
LEMMA SentNext ==
  ASSUME TypeOK, SentOK, [Next]_vars
  PROVE  SentOK'
<1> DEFINE Conversations(f) == (smtp[f] # None /\ smtp[f].step = "accepted") =>
                                   mails[f][smtp[f].to] > 0
           Stored(f, m) == <<f, m>> \in store => Mailed(f, m)
           Answered(f, c) == result[f][c] \in {"sent", "skippedDuplicate"} =>
                                 Mailed(f, mailbox[c])
           Worked(f, c) == work[f][c] = "sent" => \E g \in Flows : Mailed(g, mailbox[c])
           Shown(c) == row[c] = "sent" => \E g \in Flows : Mailed(g, mailbox[c])
<1>1. \A g \in Flows, m \in Mailboxes : Mailed(g, m) => Mailed(g, m)'
  BY MailsStay
<1>2. \A c \in Contacts : mailbox[c] \in Mailboxes
  BY DEF TypeOK
<1>3. CASE FinishDesk \/ UNCHANGED vars \/ \E f \in Flows : ApproveAndSend(f) \/ Device(f)
  <2>1. UNCHANGED <<mailbox, smtp, store, result, mails>>
    BY <1>3, DeviceFrame DEF FinishDesk, ApproveAndSend, vars, inputs, server
  <2>2. \A g \in Flows, c \in Contacts : work'[g][c] = "sent" =>
            work[g][c] = "sent" \/ result[g][c] \in {"sent", "skippedDuplicate"}
    <3>1. CASE FinishDesk \/ UNCHANGED vars
      BY <3>1 DEF FinishDesk, vars, device
    <3>2. ASSUME NEW f \in Flows, ApproveAndSend(f)
          PROVE  \A g \in Flows, c \in Contacts : work'[g][c] = "sent" => work[g][c] = "sent"
      BY <3>2 DEF ApproveAndSend, TypeOK
    <3>3. ASSUME NEW f \in Flows, Device(f)
          PROVE  \A g \in Flows, c \in Contacts : work'[g][c] = "sent" =>
                     work[g][c] = "sent" \/ result[g][c] \in {"sent", "skippedDuplicate"}
      BY <3>3, DeviceSent
    <3> QED
      BY <1>3, <3>1, <3>2, <3>3
  <2>3. \A c \in Contacts : row'[c] = "sent" =>
            row[c] = "sent" \/ \E g \in Flows : work'[g][c] = "sent"
    <3>1. CASE FinishDesk \/ UNCHANGED vars
      BY <3>1 DEF FinishDesk, Closed, vars, device
    <3>2. ASSUME NEW f \in Flows, ApproveAndSend(f) PROVE row' = row
      BY <3>2 DEF ApproveAndSend
    <3>3. ASSUME NEW f \in Flows, Device(f)
          PROVE  \A c \in Contacts : row'[c] = "sent" =>
                     row[c] = "sent" \/ work'[f][c] = "sent"
      BY <3>3, DeviceSent
    <3> QED
      BY <1>3, <3>1, <3>2, <3>3
  <2> QED
    BY <1>1, <1>2, <2>1, <2>2, <2>3 DEF SentOK, Mailed
<1>4. ASSUME NEW f \in Flows, Server(f) PROVE SentOK'
  <2>1. UNCHANGED <<mailbox, row, work>>
    BY <1>4 DEF Server, Arrive, RowWithoutSmtp, StartSend, Login, Data, SmtpFails,
                SmtpDone, Reply, inputs, device
  <2>2. \A g \in Flows, c \in Contacts : Worked(g, c)' /\ Shown(c)'
    BY <1>1, <1>2, <2>1 DEF SentOK
  <2>3. \A g \in Flows : Conversations(g)'
    <3> USE DEF SentOK
    <3>1. ASSUME NEW c \in Contacts, StartSend(f, c) PROVE \A g \in Flows : Conversations(g)'
      BY <3>1 DEF StartSend, TypeOK
    <3>2. CASE Login(f)
      BY <3>2 DEF Login, TypeOK, Conversation
    <3>3. CASE Data(f)
      <4>1. smtp[f] \in Conversation /\ smtp[f].to \in Contacts
        BY <3>3 DEF Data, TypeOK, Conversation
      <4>2. /\ smtp'[f].to = smtp[f].to
            /\ \A g \in Flows \ {f} : smtp'[g] = smtp[g]
        BY <3>3, <4>1 DEF Data, TypeOK, Conversation
      <4>3. /\ mails'[f][smtp[f].to] = mails[f][smtp[f].to] + 1
            /\ \A g \in Flows \ {f} : mails'[g] = mails[g]
            /\ mails[f][smtp[f].to] \in Nat
        BY <3>3, <4>1 DEF Data, TypeOK
      <4> QED
        BY <4>2, <4>3
    <3>4. ASSUME NEW rejected \in BOOLEAN, SmtpFails(f, rejected)
          PROVE  \A g \in Flows : Conversations(g)'
      <4>1. UNCHANGED mails
        BY <3>4, SmtpFailsEffect
      <4>2. CASE smtp' = [smtp EXCEPT ![f] = None]
        BY <4>1, <4>2 DEF TypeOK
      <4>3. CASE (\A g \in Flows \ {f} : smtp'[g] = smtp[g]) /\ smtp'[f].step = "connect"
        BY <4>1, <4>3
      <4> QED
        BY <3>4, <4>2, <4>3, SmtpFailsEffect
    <3>5. CASE SmtpDone(f)
      BY <3>5 DEF SmtpDone, TypeOK
    <3>6. ASSUME NEW configured \in BOOLEAN, NEW c \in Contacts,
                 Arrive(f, configured) \/ RowWithoutSmtp(f, c) \/ Reply(f)
          PROVE  UNCHANGED <<smtp, mails>>
      BY <3>6 DEF Arrive, RowWithoutSmtp, Reply, server
    <3>7. CASE UNCHANGED <<smtp, mails>>
      BY <3>7
    <3> QED
      BY <1>4, <3>1, <3>2, <3>3, <3>4, <3>5, <3>6, <3>7 DEF Server, Arrive, Reply, server
  <2>4. CASE SmtpDone(f)
    <3>1. /\ smtp[f].to \in Contacts
          /\ mails[f][smtp[f].to] > 0
      BY <2>4 DEF SmtpDone, SentOK, TypeOK, Conversation
    <3>2. Mailed(f, mailbox[smtp[f].to])
      BY <3>1 DEF Mailed
    <3>3. \A g \in Flows, m \in Mailboxes : Stored(g, m)'
      BY <1>1, <1>2, <2>4, <3>1, <3>2 DEF SmtpDone, SentOK
    <3>4. \A g \in Flows, c \in Contacts : Answered(g, c)'
      BY <1>1, <1>2, <2>1, <2>4, <3>1, <3>2 DEF SmtpDone, SentOK, TypeOK
    <3> QED
      BY <2>2, <2>3, <3>3, <3>4 DEF SentOK
  <2>5. ASSUME NEW c \in Contacts, RowWithoutSmtp(f, c) PROVE SentOK'
    <3>1. /\ UNCHANGED store
          /\ result' = [result EXCEPT ![f][c] =
                IF <<f, mailbox[c]>> \in store THEN "skippedDuplicate" ELSE "failed"]
      BY <2>5 DEF RowWithoutSmtp, Duplicate
    <3>2. \A g \in Flows, d \in Contacts : Answered(g, d)'
      BY <1>1, <1>2, <2>1, <3>1 DEF SentOK, TypeOK
    <3>3. \A g \in Flows, m \in Mailboxes : Stored(g, m)'
      BY <1>1, <3>1 DEF SentOK
    <3> QED
      BY <2>2, <2>3, <3>2, <3>3 DEF SentOK
  <2>6. ASSUME NEW rejected \in BOOLEAN, SmtpFails(f, rejected) PROVE SentOK'
    <3>1. /\ UNCHANGED store
          /\ UNCHANGED result \/ result' = [result EXCEPT ![f][smtp[f].to] = "failed"]
      BY <2>6, SmtpFailsEffect
    <3>2. \A g \in Flows, d \in Contacts : result'[g][d] \in {result[g][d], "failed"}
      <4>1. CASE result' = result
        BY <4>1
      <4>2. CASE result' = [result EXCEPT ![f][smtp[f].to] = "failed"]
        BY <4>2 DEF TypeOK
      <4> QED
        BY <3>1, <4>1, <4>2
    <3>4. \A g \in Flows, d \in Contacts : Answered(g, d)'
      BY <1>1, <1>2, <2>1, <3>2 DEF SentOK
    <3>3. \A g \in Flows, m \in Mailboxes : Stored(g, m)'
      BY <1>1, <3>1 DEF SentOK
    <3> QED
      BY <2>2, <2>3, <3>3, <3>4 DEF SentOK
  <2>7. CASE UNCHANGED <<store, result>>
    <3>1. \A g \in Flows, d \in Contacts : Answered(g, d)'
      BY <1>1, <1>2, <2>1, <2>7 DEF SentOK
    <3>2. \A g \in Flows, m \in Mailboxes : Stored(g, m)'
      BY <1>1, <2>7 DEF SentOK
    <3> QED
      BY <2>2, <2>3, <3>1, <3>2 DEF SentOK
  <2> QED
    BY <1>4, <2>4, <2>5, <2>6, <2>7 DEF Server, Arrive, StartSend, Login, Data, Reply, server
<1> QED
  BY <1>3, <1>4 DEF Next

(* ----------------- spinning rows and the saved queue ------------------- *)

\* A spinning row of a dispatch that ends is nobody else's to reset: it stops
\* spinning with the dispatch, and whatever spins still has a dispatch.
LEMMA SpinNext ==
  ASSUME TypeOK, SpinOK, [Next]_vars
  PROVE  SpinOK'
<1> DEFINE Spun(f, c) == Dispatches(f) /\ work[f][c] = "sending"
<1>1. CASE FinishDesk
  BY <1>1 DEF FinishDesk, SpinOK, Dispatches, Closed
<1>2. ASSUME NEW f \in Flows, ApproveAndSend(f) PROVE SpinOK'
  <2>1. /\ UNCHANGED <<row, dispatching>>
        /\ ~Dispatches(f)
        /\ \A g \in Flows \ {f} : pc'[g] = pc[g] /\ work'[g] = work[g]
    BY <1>2 DEF ApproveAndSend, Dispatches, TypeOK
  <2> QED
    BY <2>1 DEF SpinOK, Dispatches
<1>3. ASSUME NEW f \in Flows, Device(f) PROVE SpinOK'
  <2>1. \A g \in Flows \ {f} : pc'[g] = pc[g] /\ work'[g] = work[g]
    <3>1. pc' = pc \/ \E p \in {"prepare", "request", "done"} : pc' = [pc EXCEPT ![f] = p]
      BY <1>3 DEF Device, TokenFails, StartDispatch, CapExceeded, Prepare, SendBatchFails,
                  SendBatchAnswers, StayOnDesk, CloseDesk
    <3>2. \/ work' = work
          \/ \E w : work' = [work EXCEPT ![f] = w]
      <4>1. ASSUME NEW ok \in BOOLEAN, Prepare(f, ok)
            PROVE  \E w : work' = [work EXCEPT ![f] = w]
        BY <4>1 DEF Prepare
      <4> QED
        BY <1>3, <4>1 DEF Device, TokenFails, StartDispatch, CapExceeded, SendBatchFails,
                          SendBatchAnswers
    <3>3. \A g \in Flows \ {f} : pc'[g] = pc[g]
      BY <3>1 DEF TypeOK
    <3>4. \A g \in Flows \ {f} : work'[g] = work[g]
      BY <3>2 DEF TypeOK
    <3> QED
      BY <3>3, <3>4
  <2> USE DEF Dispatches, MergeDeskRows, Closed
  <2>2. CASE TokenFails(f)
    <3>1. ~Dispatches(f) /\ UNCHANGED <<row, dispatching>>
      BY <2>2 DEF TokenFails
    <3> QED
      BY <2>1, <3>1 DEF SpinOK
  <2>3. CASE CapExceeded(f)
    <3>1. ~Dispatches(f) /\ row' = row /\ dispatching' = FALSE
      BY <2>3 DEF CapExceeded, StayOnDesk
    <3> QED
      BY <2>1, <3>1 DEF SpinOK
  <2>4. CASE StartDispatch(f)
    <3>1. Dispatches(f)' /\ row' = MergeDeskRows(work'[f]) /\ ~Dispatches(f)
      BY <2>4 DEF StartDispatch, TypeOK
    <3> QED
      BY <2>1, <3>1 DEF SpinOK
  <2>5. ASSUME \* f ends, and nothing of its dispatch spins any more
               \A c \in Contacts : work'[f][c] # "sending",
               \A c \in Contacts : work[f][c] = "sending" => work'[f][c] # "absent",
               row' \in {MergeDeskRows(work'[f]), Closed(MergeDeskRows(work'[f]))},
               dispatching' = FALSE
        PROVE  SpinOK'
    BY <2>1, <2>5 DEF SpinOK
  <2>6. ASSUME NEW ok \in BOOLEAN, Prepare(f, ok) PROVE SpinOK'
    <3> DEFINE prepared == [work[f] EXCEPT ![now[f]] = IF ok THEN "sending" ELSE "failed"]
               recipients == {c \in Contacts : prepared[c] = "sending"}
               waiting == {c \in Contacts : prepared[c] = "pending"}
    <3>1. prepared \in [Contacts -> RowStatus \cup {"absent"}]
      BY DEF TypeOK, RowStatus
    <3>2. \A c \in Contacts : work[f][c] = "sending" => prepared[c] # "absent"
      BY DEF TypeOK
    <3>3. CASE waiting # {} \/ recipients # {}
      <4>1. row' = MergeDeskRows(work'[f]) /\ Dispatches(f)'
        <5>1. CASE waiting # {}
          BY <2>6, <5>1 DEF Prepare
        <5>2. CASE waiting = {} /\ recipients # {}
          <6>1. /\ work' = [work EXCEPT ![f] = prepared]
                /\ row' = MergeDeskRows(prepared)
                /\ pc' = [pc EXCEPT ![f] = "request"]
            BY <2>6, <5>2 DEF Prepare
          <6> QED
            BY <6>1 DEF TypeOK
        <5> QED
          BY <3>3, <5>1, <5>2
      <4>2. \A c \in Contacts : work[f][c] = "sending" => work'[f][c] # "absent"
        <5>1. CASE work' = [work EXCEPT ![f] = prepared]
          BY <3>2, <5>1 DEF TypeOK
        <5>2. ASSUME NEW c \in Contacts,
                     work' = [work EXCEPT ![f] = [prepared EXCEPT ![c] = "sending"]]
              PROVE  \A d \in Contacts : work[f][d] = "sending" => work'[f][d] # "absent"
          BY <3>1, <3>2, <5>2 DEF TypeOK
        <5> QED
          BY <2>6, <5>1, <5>2 DEF Prepare
      <4> QED
        BY <2>1, <4>1, <4>2 DEF SpinOK
    <3>4. CASE waiting = {} /\ recipients = {}
      <4>1. /\ work' = [work EXCEPT ![f] = prepared]
            /\ CloseDesk(f, MergeDeskRows(prepared))
        BY <2>6, <3>4 DEF Prepare
      <4>2. work'[f] = prepared
        BY <4>1 DEF TypeOK
      <4>3. \A c \in Contacts : prepared[c] # "sending"
        BY <3>4
      <4>4. \A c \in Contacts : /\ work'[f][c] # "sending"
                                /\ work[f][c] = "sending" => work'[f][c] # "absent"
        BY <3>2, <4>2, <4>3
      <4>5. row' = Closed(MergeDeskRows(work'[f])) /\ dispatching' = FALSE
        BY <4>1, <4>2 DEF CloseDesk
      <4> HIDE DEF prepared, waiting, recipients
      <4> QED
        BY <2>5, <4>4, <4>5
    <3> QED
      BY <3>3, <3>4
  <2>7. CASE SendBatchFails(f)
    <3>1. /\ work'[f] = Reverted(work[f])
          /\ row' = MergeDeskRows(work'[f])
          /\ dispatching' = FALSE
      BY <2>7 DEF SendBatchFails, StayOnDesk, TypeOK
    <3>2. \A c \in Contacts : /\ work'[f][c] # "sending"
                              /\ work[f][c] = "sending" => work'[f][c] # "absent"
      BY <3>1 DEF Reverted
    <3> QED
      BY <2>5, <3>1, <3>2
  <2>8. CASE SendBatchAnswers(f)
    <3>1. /\ work'[f] = ApplyRemoteResults(work[f], result[f])
          /\ row' = Closed(MergeDeskRows(work'[f]))
          /\ dispatching' = FALSE
      BY <2>8 DEF SendBatchAnswers, CloseDesk, TypeOK
    <3>2. \A c \in Contacts : /\ work'[f][c] # "sending"
                              /\ work[f][c] = "sending" => work'[f][c] # "absent"
      BY <3>1 DEF ApplyRemoteResults, MapRemote
    <3> QED
      BY <2>5, <3>1, <3>2
  <2> QED
    BY <1>3, <2>2, <2>3, <2>4, <2>6, <2>7, <2>8 DEF Device
<1>4. ASSUME NEW f \in Flows, Server(f) PROVE SpinOK'
  BY <1>4 DEF Server, Arrive, RowWithoutSmtp, StartSend, Login, Data, SmtpFails, SmtpDone,
              Reply, device, SpinOK, Dispatches
<1>5. CASE UNCHANGED vars
  BY <1>5 DEF vars, device, SpinOK, Dispatches
<1> QED
  BY <1>1, <1>2, <1>3, <1>4, <1>5 DEF Next

\* The last dispatch to end leaves the queue saved as the rows it shows, and
\* what the merchant does after it only closes pending rows.
LEMMA SavedNext ==
  ASSUME TypeOK, SavedIsTheDesk, [Next]_vars
  PROVE  SavedIsTheDesk'
<1>1. CASE FinishDesk
  BY <1>1 DEF FinishDesk, SavedIsTheDesk, Closed
<1>2. ASSUME NEW f \in Flows, ApproveAndSend(f) PROVE SavedIsTheDesk'
  <2>1. UNCHANGED <<row, saved>> /\ pc[f] = "idle"
    BY <1>2 DEF ApproveAndSend
  <2>2. \A g \in Flows \ {f} : pc'[g] = pc[g]
    BY <1>2 DEF ApproveAndSend, TypeOK
  <2> QED
    BY <2>1, <2>2 DEF SavedIsTheDesk
<1>3. ASSUME NEW f \in Flows, Device(f) PROVE SavedIsTheDesk'
  <2>1. CASE TokenFails(f)
    BY <2>1 DEF TokenFails, SavedIsTheDesk, TypeOK
  <2>2. CASE StartDispatch(f)
    BY <2>2 DEF StartDispatch, SavedIsTheDesk, TypeOK
  <2>3. CASE CapExceeded(f) \/ SendBatchFails(f) \/ SendBatchAnswers(f)
    <3>1. saved' = row'
      BY <2>3 DEF CapExceeded, SendBatchFails, SendBatchAnswers, StayOnDesk, CloseDesk
    <3> QED
      BY <3>1 DEF SavedIsTheDesk
  <2>4. ASSUME NEW ok \in BOOLEAN, Prepare(f, ok) PROVE SavedIsTheDesk'
    <3>1. \/ saved' = row'
          \/ pc[f] = "prepare" /\ (pc' = pc \/ pc' = [pc EXCEPT ![f] = "request"])
      BY <2>4 DEF Prepare, CloseDesk
    <3>2. CASE saved' = row'
      BY <3>2 DEF SavedIsTheDesk
    <3>3. CASE pc'[f] \in {"prepare", "request"}
      BY <3>3 DEF SavedIsTheDesk
    <3> QED
      BY <3>1, <3>2, <3>3 DEF TypeOK
  <2> QED
    BY <1>3, <2>1, <2>2, <2>3, <2>4 DEF Device
<1>4. CASE (\E f \in Flows : Server(f)) \/ UNCHANGED vars
  BY <1>4 DEF Server, Arrive, RowWithoutSmtp, StartSend, Login, Data, SmtpFails, SmtpDone,
              Reply, device, vars, SavedIsTheDesk
<1> QED
  BY <1>1, <1>2, <1>3, <1>4 DEF Next

(* ------------------------------- theorems ------------------------------ *)

\* Every behaviour of the e-mail rail keeps these invariants.
EmailInv == TypeOK /\ HandlerOK /\ MailedOnce /\ HaltOK /\ SentOK /\ SpinOK

\* The initial states satisfy them, and the saved queue is the desk.
LEMMA EmailInit == Init => EmailInv /\ SavedIsTheDesk
<1> SUFFICES ASSUME Init PROVE EmailInv /\ SavedIsTheDesk
  OBVIOUS
<1>1. TypeOK
  BY TypeInit
<1>2. HandlerOK /\ MailedOnce /\ HaltOK
  BY DEF Init, HandlerOK, MailedOnce, HaltOK
<1>3. SentOK
  BY DEF Init, SentOK
<1>4. SpinOK
  BY DEF Init, SpinOK
<1>5. SavedIsTheDesk
  BY DEF Init, SavedIsTheDesk
<1> QED
  BY <1>1, <1>2, <1>3, <1>4, <1>5 DEF EmailInv

\* Every step keeps them.
LEMMA EmailStep ==
  ASSUME EmailInv, [Next]_vars
  PROVE  EmailInv'
BY TypeNext, HandlerNext, MailedNext, HaltNext, SentNext, SpinNext DEF EmailInv

\* They hold in every behaviour.
LEMMA EmailAlways == Spec => []EmailInv
BY EmailInit, EmailStep, PTL DEF Spec

\* One approval mails a customer at most once, for any desk, number of taps,
\* lost replies and late arrivals.
THEOREM OneMail == Spec => []OneMailPerApproval
<1>1. EmailInv => OneMailPerApproval
  BY DEF EmailInv, MailedOnce, OneMailPerApproval
<1> QED
  BY <1>1, EmailAlways, PTL

\* A row shown as sent stands for a mail Gmail took for that mailbox.
THEOREM SentIsMailed == Spec => []SentRowWasMailed
<1>1. EmailInv => SentRowWasMailed
  BY DEF EmailInv, TypeOK, SentOK, Mailed, SentRowWasMailed
<1> QED
  BY <1>1, EmailAlways, PTL

\* No row spins and no button is stuck once every dispatch is over.
THEOREM NothingSpins == Spec => []NothingLeftSending
<1>1. EmailInv => NothingLeftSending
  BY DEF EmailInv, TypeOK, SpinOK, Dispatches, NothingLeftSending
<1> QED
  BY <1>1, EmailAlways, PTL

\* The queue in the database is the desk once every dispatch is over.
THEOREM QueueIsTheDesk == Spec => []SavedIsTheDesk
<1>1. Init => SavedIsTheDesk
  BY EmailInit
<1>2. TypeOK /\ SavedIsTheDesk /\ [Next]_vars => SavedIsTheDesk'
  BY SavedNext
<1> QED
  BY <1>1, <1>2, EmailTypes, PTL DEF Spec

\* After a rejected password no mail of the batch leaves any more.
THEOREM NoneAfterRejection == Spec => NoMailAfterRejection
<1>1. EmailInv /\ [Next]_vars => [\A f \in Flows : human[f] => mails'[f] = mails[f]]_vars
  BY HaltNext DEF EmailInv
<1> QED
  BY <1>1, EmailAlways, PTL DEF Spec, NoMailAfterRejection

(* -------------------- what an approval is promised --------------------- *)

\* A tap that has begun is for the rows of its dispatch: it prepares them,
\* asks the server for them and mails nobody else.
AskOK ==
    \A f \in Flows :
        /\ pc[f] = "idle" <=> Batch(f) = {}
        /\ pc[f] = "prepare" => now[f] \in Batch(f)
        /\ left[f] \subseteq Batch(f)
        /\ smtp[f] # None => smtp[f].to \in Batch(f)
        /\ \A c \in Contacts : mails[f][c] > 0 => c \in Batch(f)

\* The answer is the end of a dispatch, and what the desk shows as sent comes
\* from one.
ToldOK ==
    /\ \A f \in Flows, c \in Contacts : work[f][c] = "sent" => pc[f] = "done"
    /\ \A c \in Contacts : row[c] = "sent" => \E f \in Flows : work[f][c] = "sent"

\* The rows of a dispatch stay its rows, others keep theirs, and a row ceases
\* to be sent only for one that is among them.
LEMMA DeviceWork ==
  ASSUME TypeOK, AskOK, NEW f \in Flows, Device(f)
  PROVE  /\ pc[f] \notin {"idle", "done"} /\ pc'[f] # "idle"
         /\ \A g \in Flows \ {f} : /\ work'[g] = work[g] /\ pc'[g] = pc[g]
                                   /\ now'[g] = now[g] /\ left'[g] = left[g]
         /\ \A c \in Contacts : work'[f][c] = "absent" <=> work[f][c] = "absent"
         /\ pc'[f] = "prepare" => now'[f] \in Batch(f)
         /\ left'[f] \subseteq Batch(f)
         /\ \A c \in Contacts : work'[f][c] = "sent" => work[f][c] = "sent" \/ pc'[f] = "done"
         /\ \A c \in Contacts : row[c] = "sent" /\ row'[c] # "sent" => c \in Batch(f)
<1> DEFINE Turn == pc[f] \notin {"idle", "done"} /\ pc'[f] # "idle"
           Apart == \A g \in Flows \ {f} : /\ work'[g] = work[g] /\ pc'[g] = pc[g]
                                           /\ now'[g] = now[g] /\ left'[g] = left[g]
           Same == \A c \in Contacts : work'[f][c] = "absent" <=> work[f][c] = "absent"
           Next1 == pc'[f] = "prepare" => now'[f] \in Batch(f)
           Left == left'[f] \subseteq Batch(f)
           Ends == \A c \in Contacts : work'[f][c] = "sent" => work[f][c] = "sent" \/ pc'[f] = "done"
           Shown == \A c \in Contacts : row[c] = "sent" /\ row'[c] # "sent" => c \in Batch(f)
           Goal == Turn /\ Apart /\ Same /\ Next1 /\ Left /\ Ends /\ Shown
<1>1. /\ pc \in [Flows -> {"idle", "token", "prepare", "request", "done"}]
      /\ work \in [Flows -> [Contacts -> RowStatus \cup {"absent"}]]
      /\ now \in [Flows -> Contacts \cup {None}] /\ left \in [Flows -> SUBSET Contacts]
      /\ row \in [Contacts -> RowStatus]
  BY DEF TypeOK
<1>2. left[f] \subseteq Batch(f) /\ (pc[f] = "prepare" => now[f] \in Batch(f))
  BY DEF AskOK
<1>3. ASSUME NEW w \in [Contacts -> RowStatus \cup {"absent"}],
             row' = MergeDeskRows(w) \/ row' = Closed(MergeDeskRows(w)),
             \A c \in Contacts : w[c] = "absent" <=> work[f][c] = "absent"
      PROVE  Shown
  BY <1>1, <1>3 DEF MergeDeskRows, Closed, Batch
<1>4. CASE TokenFails(f)
  BY <1>1, <1>2, <1>4 DEF TokenFails
<1>5. CASE StartDispatch(f)
  <2>1. PICK c \in Batch(f) : /\ work' = [work EXCEPT ![f][c] = "sending"]
                              /\ now' = [now EXCEPT ![f] = c]
    BY <1>5 DEF StartDispatch
  <2>2. /\ pc[f] = "token" /\ pc' = [pc EXCEPT ![f] = "prepare"]
        /\ row' = MergeDeskRows(work'[f]) /\ left' = left
    BY <1>5 DEF StartDispatch
  <2>3. work'[f] = [work[f] EXCEPT ![c] = "sending"] /\ c \in Contacts /\ work[f][c] # "absent"
    BY <1>1, <2>1 DEF Batch
  <2>4. Same /\ Ends /\ work'[f] \in [Contacts -> RowStatus \cup {"absent"}]
    BY <1>1, <2>3 DEF RowStatus
  <2>5. Shown
    BY <1>3, <2>2, <2>4
  <2>6. Turn /\ Apart /\ Next1 /\ Left
    BY <1>1, <1>2, <2>1, <2>2
  <2> QED
    BY <2>4, <2>5, <2>6
<1>6. CASE CapExceeded(f)
  BY <1>1, <1>2, <1>6 DEF CapExceeded, StayOnDesk
<1>7. ASSUME NEW ok \in BOOLEAN, Prepare(f, ok) PROVE Goal
  <2> DEFINE prepared == [work[f] EXCEPT ![now[f]] = IF ok THEN "sending" ELSE "failed"]
             recipients == {c \in Contacts : prepared[c] = "sending"}
             waiting == {c \in Contacts : prepared[c] = "pending"}
  <2>1. pc[f] = "prepare" /\ now[f] \in Contacts /\ work[f][now[f]] # "absent"
    BY <1>2, <1>7 DEF Prepare, Batch
  <2>2. /\ prepared \in [Contacts -> RowStatus \cup {"absent"}]
        /\ \A c \in Contacts : prepared[c] = "absent" <=> work[f][c] = "absent"
        /\ \A c \in Contacts : prepared[c] = "sent" => work[f][c] = "sent"
    BY <1>1, <2>1 DEF RowStatus
  <2>3. CASE waiting # {}
    <3>1. PICK c \in waiting : /\ work' = [work EXCEPT ![f] = [prepared EXCEPT ![c] = "sending"]]
                               /\ now' = [now EXCEPT ![f] = c]
      BY <1>7, <2>3 DEF Prepare
    <3>2. row' = MergeDeskRows(work'[f]) /\ pc' = pc /\ left' = left
      BY <1>7, <2>3 DEF Prepare
    <3>3. c \in Contacts /\ prepared[c] = "pending"
      OBVIOUS
    <3>4. c \in Batch(f)
      BY <2>2, <3>3 DEF Batch
    <3> HIDE DEF prepared, waiting
    <3>5. /\ work'[f] = [prepared EXCEPT ![c] = "sending"]
          /\ \A g \in Flows \ {f} : work'[g] = work[g]
          /\ now'[f] = c /\ \A g \in Flows \ {f} : now'[g] = now[g]
      BY <1>1, <3>1
    <3>6. Same /\ Ends /\ work'[f] \in [Contacts -> RowStatus \cup {"absent"}]
      BY <2>2, <3>3, <3>5 DEF RowStatus
    <3>7. Shown
      BY <1>3, <3>2, <3>6
    <3> QED
      BY <1>2, <2>1, <3>2, <3>4, <3>5, <3>6, <3>7
  <2>4. CASE waiting = {}
    <3>1. /\ work' = [work EXCEPT ![f] = prepared]
          /\ now' = [now EXCEPT ![f] = None]
      BY <1>7, <2>4 DEF Prepare
    <3>2. \/ /\ row' = MergeDeskRows(prepared)
             /\ pc' = [pc EXCEPT ![f] = "request"]
             /\ left' = [left EXCEPT ![f] = recipients]
          \/ CloseDesk(f, MergeDeskRows(prepared)) /\ UNCHANGED left
      BY <1>7, <2>4 DEF Prepare
    <3>3. recipients \subseteq Batch(f) /\ recipients \subseteq Contacts
      BY <2>2 DEF Batch
    <3> HIDE DEF prepared, recipients
    <3>4. /\ work'[f] = prepared
          /\ \A g \in Flows \ {f} : work'[g] = work[g] /\ now'[g] = now[g]
      BY <1>1, <3>1
    <3>5. Same /\ Ends
      BY <2>2, <3>4
    <3>6. row' = MergeDeskRows(prepared) \/ row' = Closed(MergeDeskRows(prepared))
      BY <3>2 DEF CloseDesk
    <3>7. Shown
      BY <1>3, <2>2, <3>6
    <3>8. /\ pc'[f] \in {"request", "done"} /\ \A g \in Flows \ {f} : pc'[g] = pc[g]
          /\ left'[f] \subseteq Batch(f) /\ \A g \in Flows \ {f} : left'[g] = left[g]
      BY <1>1, <1>2, <3>2, <3>3 DEF CloseDesk
    <3> QED
      BY <2>1, <3>4, <3>5, <3>7, <3>8
  <2> QED
    BY <2>3, <2>4
<1>8. CASE SendBatchFails(f) \/ SendBatchAnswers(f)
  <2>1. PICK w : /\ w \in {Reverted(work[f]), ApplyRemoteResults(work[f], result[f])}
                 /\ work' = [work EXCEPT ![f] = w]
    BY <1>8 DEF SendBatchFails, SendBatchAnswers
  <2>2. /\ w \in [Contacts -> RowStatus \cup {"absent"}]
        /\ \A c \in Contacts : w[c] = "absent" <=> work[f][c] = "absent"
    <3>1. work[f] \in [Contacts -> RowStatus \cup {"absent"}]
      BY <1>1
    <3>2. CASE w = Reverted(work[f])
      BY <3>1, <3>2 DEF Reverted, RowStatus
    <3>3. CASE w = ApplyRemoteResults(work[f], result[f])
      BY <3>1, <3>3 DEF ApplyRemoteResults, MapRemote, RowStatus
    <3> QED
      BY <2>1, <3>2, <3>3
  <2>3. /\ pc[f] = "request" /\ pc' = [pc EXCEPT ![f] = "done"] /\ now' = now /\ left' = left
        /\ row' = MergeDeskRows(work'[f]) \/ row' = Closed(MergeDeskRows(work'[f]))
    BY <1>8 DEF SendBatchFails, SendBatchAnswers, StayOnDesk, CloseDesk
  <2>4. work'[f] = w /\ \A g \in Flows \ {f} : work'[g] = work[g]
    BY <1>1, <2>1
  <2>5. Shown
    BY <1>3, <2>2, <2>3, <2>4
  <2> QED
    BY <1>1, <1>2, <2>2, <2>3, <2>4, <2>5
<1> QED
  BY <1>4, <1>5, <1>6, <1>7, <1>8 DEF Device

\* A dispatch goes on within its rows.
LEMMA DeviceAsks ==
  ASSUME TypeOK, AskOK, ToldOK, NEW f \in Flows, Device(f)
  PROVE  AskOK' /\ ToldOK'
<1>1. /\ pc[f] \notin {"idle", "done"} /\ pc'[f] # "idle"
      /\ \A g \in Flows \ {f} : /\ work'[g] = work[g] /\ pc'[g] = pc[g]
                                /\ now'[g] = now[g] /\ left'[g] = left[g]
      /\ \A c \in Contacts : work'[f][c] = "absent" <=> work[f][c] = "absent"
      /\ pc'[f] = "prepare" => now'[f] \in Batch(f)
      /\ left'[f] \subseteq Batch(f)
      /\ \A c \in Contacts : work'[f][c] = "sent" => work[f][c] = "sent" \/ pc'[f] = "done"
  BY DeviceWork
<1>2. \A g \in Flows : Batch(g)' = Batch(g)
  BY <1>1 DEF Batch
<1>3. UNCHANGED <<smtp, mails>>
  BY DeviceFrame DEF server
<1>4. AskOK'
  <2>1. \A g \in Flows : /\ pc'[g] = "idle" <=> pc[g] = "idle"
                         /\ pc'[g] = "prepare" => now'[g] \in Batch(g)
                         /\ left'[g] \subseteq Batch(g)
    BY <1>1 DEF AskOK
  <2> QED
    BY <1>2, <1>3, <2>1 DEF AskOK
<1>5. \A c \in Contacts : work[f][c] # "sent"
  BY <1>1 DEF ToldOK
<1>6. \A g \in Flows, c \in Contacts : work'[g][c] = "sent" => pc'[g] = "done"
  BY <1>1, <1>5 DEF ToldOK
<1>7. ASSUME NEW c \in Contacts, row'[c] = "sent" PROVE \E g \in Flows : work'[g][c] = "sent"
  <2>1. row[c] = "sent" \/ work'[f][c] = "sent"
    BY <1>7, DeviceSent
  <2>2. CASE row[c] = "sent"
    <3>1. PICK g \in Flows : work[g][c] = "sent"
      BY <2>2 DEF ToldOK
    <3> QED
      BY <1>1, <1>5, <3>1
  <2> QED
    BY <2>1, <2>2
<1> QED
  BY <1>4, <1>6, <1>7 DEF ToldOK

\* What a step on the device shows anew, it shows of its own approval: a row
\* it says is sent was mailed for that approval, and one it takes back another
\* approval was for as well.
LEMMA DeviceTells ==
  ASSUME TypeOK, AskOK, ToldOK, SentOK, NEW f \in Flows, Device(f)
  PROVE  Contract!Next
<1>1. /\ pc[f] # "done" /\ AskedBy[f] = Batch(f)
      /\ \A g \in Flows \ {f} : work'[g] = work[g]
      /\ \A c \in Contacts : work'[f][c] = "absent" <=> work[f][c] = "absent"
      /\ \A c \in Contacts : row[c] = "sent" /\ row'[c] # "sent" => c \in Batch(f)
  BY DeviceWork DEF AskedBy
<1>2. UNCHANGED <<inputs, server>>
  BY DeviceFrame
<1>3. UNCHANGED <<mailbox, AskedBy, mails, HaltedOnes>>
  <2>1. \A g \in Flows : Batch(g)' = Batch(g)
    BY <1>1 DEF Batch
  <2>2. AskedBy' = AskedBy
    BY <2>1 DEF AskedBy
  <2> QED
    BY <1>2, <2>2 DEF HaltedOnes, inputs, server
<1>4. ASSUME NEW c \in ToldSent' \ ToldSent
      PROVE  /\ c \in AskedBy[f]
             /\ \E d \in AskedBy[f] : mailbox[d] = mailbox[c] /\ mails[f][d] > 0
  <2>1. c \in Contacts /\ row'[c] = "sent" /\ row[c] # "sent"
    BY DEF ToldSent
  <2>2. work'[f][c] = "sent"
    BY <2>1, DeviceSent
  <2>3. work[f][c] # "sent"
    BY <1>1, <2>1 DEF ToldOK
  <2>4. Mailed(f, mailbox[c])
    BY <2>1, <2>2, <2>3, DeviceSent DEF SentOK
  <2>5. PICK d \in Contacts : mailbox[d] = mailbox[c] /\ mails[f][d] > 0
    BY <2>4 DEF Mailed
  <2>6. d \in Batch(f)
    BY <2>5 DEF AskOK
  <2>7. c \in Batch(f)
    BY <1>1, <2>1, <2>2 DEF Batch
  <2> QED
    BY <1>1, <2>5, <2>6, <2>7
<1>5. ASSUME NEW c \in ToldSent \ ToldSent'
      PROVE  c \in AskedBy[f] /\ \E g \in Flows \ {f} : c \in AskedBy[g]
  <2>1. c \in Contacts /\ row[c] = "sent" /\ row'[c] # "sent"
    BY DEF ToldSent
  <2>2. PICK g \in Flows : work[g][c] = "sent"
    BY <2>1 DEF ToldOK
  <2>3. g # f
    BY <1>1, <2>1, <2>2 DEF ToldOK
  <2>4. c \in Batch(g)
    BY <2>1, <2>2 DEF Batch
  <2>5. c \in AskedBy[g]
    BY <2>4 DEF AskedBy
  <2> QED
    BY <1>1, <2>1, <2>3, <2>5
<1>6. ToldSent' \in SUBSET Contacts
  BY DEF ToldSent
<1>7. PICK rows \in SUBSET Contacts : rows = ToldSent'
  BY <1>6
<1>8. Contract!Tell(f, rows)
  BY <1>3, <1>4, <1>5, <1>7 DEF Contract!Tell
<1> QED
  BY <1>8 DEF Contract!Next

\* An approval asks for the pending rows, none of which is shown as sent; Done
\* changes nothing that was promised.
LEMMA MerchantAsks ==
  ASSUME TypeOK, AskOK, ToldOK
  PROVE  /\ FinishDesk => AskOK' /\ ToldOK' /\ UNCHANGED Contract!vars
         /\ \A f \in Flows : ApproveAndSend(f) => AskOK' /\ ToldOK' /\ Contract!Next
<1>1. ASSUME FinishDesk PROVE AskOK' /\ ToldOK' /\ UNCHANGED Contract!vars
  <2>1. UNCHANGED <<inputs, server, pc, work, now, left>> /\ row' = Closed(row)
    BY <1>1 DEF FinishDesk
  <2>2. \A f \in Flows : Batch(f)' = Batch(f)
    BY <2>1 DEF Batch
  <2>3. \A c \in Contacts : row'[c] = "sent" <=> row[c] = "sent"
    BY <2>1 DEF Closed, TypeOK
  <2>4. UNCHANGED <<AskedBy, HaltedOnes, ToldSent>>
    BY <2>1, <2>2, <2>3 DEF AskedBy, HaltedOnes, ToldSent, server
  <2>5. AskOK' /\ ToldOK'
    BY <2>1, <2>2, <2>3 DEF AskOK, ToldOK, server
  <2> QED
    BY <2>1, <2>4, <2>5 DEF Contract!vars, inputs, server
<1>2. ASSUME NEW f \in Flows, ApproveAndSend(f) PROVE AskOK' /\ ToldOK' /\ Contract!Next
  <2>1. PICK w : w = [c \in Contacts |-> IF c \in Pending THEN "pending" ELSE "absent"]
    OBVIOUS
  <2>2. /\ UNCHANGED <<inputs, server, row, now, left>> /\ pc[f] = "idle" /\ Pending # {}
        /\ pc' = [pc EXCEPT ![f] = "token"] /\ work' = [work EXCEPT ![f] = w]
    BY <1>2, <2>1 DEF ApproveAndSend
  <2>3. /\ pc'[f] = "token" /\ work'[f] = w
        /\ \A g \in Flows \ {f} : pc'[g] = pc[g] /\ work'[g] = work[g]
    BY <2>2 DEF TypeOK
  <2>4. Pending \subseteq Contacts /\ \A c \in Pending : row[c] = "pending"
    BY DEF Pending, TypeOK
  <2>5. /\ Batch(f)' = Pending /\ Batch(f) = {}
        /\ \A g \in Flows \ {f} : Batch(g)' = Batch(g)
    BY <2>1, <2>2, <2>3, <2>4 DEF Batch, AskOK
  <2>6. AskOK'
    <3>1. \A g \in Flows : \A c \in Contacts : mails'[g][c] = mails[g][c]
      BY <2>2 DEF server
    <3>2. smtp' = smtp /\ mails' = mails /\ now' = now /\ left' = left
      BY <2>2 DEF server
    <3>3. ASSUME NEW g \in Flows
          PROVE  /\ pc'[g] = "idle" <=> Batch(g)' = {}
                 /\ pc'[g] = "prepare" => now'[g] \in Batch(g)'
                 /\ left'[g] \subseteq Batch(g)'
                 /\ smtp'[g] # None => smtp'[g].to \in Batch(g)'
                 /\ \A c \in Contacts : mails'[g][c] > 0 => c \in Batch(g)'
      <4>1. CASE g = f
        BY <2>2, <2>3, <2>5, <3>2, <4>1 DEF AskOK
      <4>2. CASE g # f
        BY <2>3, <2>5, <3>2, <4>2 DEF AskOK
      <4> QED
        BY <4>1, <4>2
    <3> QED
      BY <3>3 DEF AskOK
  <2>7. ToldOK'
    <3>1. \A c \in Contacts : work[f][c] # "sent" /\ w[c] # "sent"
      BY <2>1, <2>2 DEF ToldOK
    <3> QED
      BY <2>2, <2>3, <3>1 DEF ToldOK
  <2>8. /\ AskedBy[f] = {} /\ AskedBy' = [AskedBy EXCEPT ![f] = Pending]
        /\ Pending \in SUBSET (Contacts \ ToldSent)
    BY <2>4, <2>5 DEF AskedBy, ToldSent
  <2>9. UNCHANGED <<mailbox, mails, HaltedOnes, ToldSent>>
    BY <2>2 DEF inputs, server, HaltedOnes, ToldSent
  <2>10. Contract!Approve(f)
    BY <2>2, <2>8, <2>9 DEF Contract!Approve
  <2> QED
    BY <2>6, <2>7, <2>10 DEF Contract!Next
<1> QED
  BY <1>1, <1>2

\* The send-batch handler goes through what was asked for; it mails a row at
\* its DATA and halts at a rejected password or without a sender.
LEMMA ServerMails ==
  ASSUME TypeOK, HandlerOK, MailedOnce, HaltOK, AskOK, ToldOK, NEW f \in Flows, Server(f)
  PROVE  AskOK' /\ ToldOK' /\ [Contract!Next]_(Contract!vars)
<1>1. UNCHANGED <<inputs, device>>
  BY SmtpFailsEffect
  DEF Server, Arrive, RowWithoutSmtp, StartSend, Login, Data, SmtpDone, Reply
<1>2. /\ \A g \in Flows : Batch(g)' = Batch(g)
      /\ UNCHANGED <<mailbox, AskedBy, ToldSent, pc, now>>
      /\ ToldOK'
  BY <1>1 DEF Batch, AskedBy, ToldSent, ToldOK, inputs, device
<1>3. ASSUME \A g \in Flows : left'[g] \subseteq Batch(g),
             \A g \in Flows : smtp'[g] # None => smtp'[g].to \in Batch(g),
             \A g \in Flows, c \in Contacts : mails'[g][c] > 0 => c \in Batch(g)
      PROVE  AskOK'
  BY <1>2, <1>3 DEF AskOK
<1>4. /\ \A g \in Flows : left[g] \subseteq Batch(g)
      /\ \A g \in Flows : smtp[g] # None => smtp[g].to \in Batch(g)
      /\ \A g \in Flows, c \in Contacts : mails[g][c] > 0 => c \in Batch(g)
  BY DEF AskOK
<1>5. handler[f] # "none" => AskedBy[f] # {}
  BY DEF HandlerOK, AskOK, AskedBy
<1>6. human \in [Flows -> BOOLEAN] /\ smtp \in [Flows -> Conversation \cup {None}]
      /\ left \in [Flows -> SUBSET Contacts] /\ mails \in [Flows -> [Contacts -> Nat]]
  BY DEF TypeOK
<1>7. ASSUME NEW x \in BOOLEAN, human' = [human EXCEPT ![f] = x], human[f] => x,
             mails' = mails, handler[f] # "none"
      PROVE  [Contract!Next]_(Contract!vars)
  <2>1. CASE x /\ ~human[f]
    <3>1. HaltedOnes' = HaltedOnes \cup {f}
      BY <1>6, <1>7, <2>1 DEF HaltedOnes
    <3>2. Contract!Halt(f)
      BY <1>2, <1>5, <1>7, <3>1 DEF Contract!Halt
    <3> QED
      BY <3>2 DEF Contract!Next
  <2>2. CASE ~(x /\ ~human[f])
    <3>1. HaltedOnes' = HaltedOnes
      BY <1>6, <1>7, <2>2 DEF HaltedOnes
    <3> QED
      BY <1>2, <1>7, <3>1 DEF Contract!vars
  <2> QED
    BY <2>1, <2>2
<1>8. ASSUME human' = human, mails' = mails PROVE UNCHANGED Contract!vars
  BY <1>2, <1>8 DEF Contract!vars, HaltedOnes
<1>9. ASSUME NEW configured \in BOOLEAN, Arrive(f, configured)
      PROVE  AskOK' /\ [Contract!Next]_(Contract!vars)
  <2>1. /\ handler[f] = "onWire" /\ UNCHANGED <<left, smtp, mails>>
        /\ human' = [human EXCEPT ![f] = ~configured]
    BY <1>9 DEF Arrive
  <2>2. ~human[f]
    BY <2>1 DEF HaltOK
  <2> QED
    BY <1>3, <1>4, <1>7, <2>1, <2>2
<1>10. ASSUME NEW c \in Contacts, RowWithoutSmtp(f, c) \/ StartSend(f, c)
       PROVE  AskOK' /\ UNCHANGED Contract!vars
  <2>1. /\ c \in left[f] /\ left' = [left EXCEPT ![f] = @ \ {c}] /\ UNCHANGED <<human, mails>>
        /\ \/ smtp' = smtp
           \/ smtp' = [smtp EXCEPT ![f] = [to |-> c, port |-> 587, step |-> "connect"]]
    BY <1>10 DEF RowWithoutSmtp, StartSend, Visit
  <2>2. \A g \in Flows : left'[g] \subseteq Batch(g)
    BY <1>4, <1>6, <2>1
  <2>3. \A g \in Flows : smtp'[g] # None => smtp'[g].to \in Batch(g)
    BY <1>4, <1>6, <2>1
  <2> QED
    BY <1>3, <1>4, <1>8, <2>1, <2>2, <2>3
<1>11. ASSUME Login(f) PROVE AskOK' /\ UNCHANGED Contract!vars
  <2>1. /\ smtp[f] # None /\ smtp' = [smtp EXCEPT ![f].step = "loggedIn"]
        /\ UNCHANGED <<left, human, mails>>
    BY <1>11 DEF Login
  <2>2. \A g \in Flows : smtp'[g] # None => smtp'[g].to \in Batch(g)
    BY <1>4, <1>6, <2>1 DEF Conversation
  <2> QED
    BY <1>3, <1>4, <1>8, <2>1, <2>2
<1>12. ASSUME Data(f) PROVE AskOK' /\ Contract!Next
  <2>1. PICK c : c = smtp[f].to
    OBVIOUS
  <2>2. /\ smtp[f] # None /\ smtp[f].step = "loggedIn" /\ smtp' = [smtp EXCEPT ![f].step = "accepted"]
        /\ mails' = [mails EXCEPT ![f][c] = @ + 1] /\ UNCHANGED <<left, human>>
    BY <1>12, <2>1 DEF Data
  <2>3. smtp[f] \in Conversation /\ c \in Contacts /\ c \in Batch(f)
    BY <1>4, <1>6, <2>1, <2>2 DEF Conversation
  <2>4. mails[f][c] \in Nat /\ ~(mails[f][c] > 0)
    BY <1>6, <2>1, <2>2, <2>3 DEF MailedOnce
  <2>5. mails[f][c] = 0 /\ mails' = [mails EXCEPT ![f][c] = 1]
    <3>1. mails[f][c] = 0
      BY <2>4
    <3>2. mails[f][c] + 1 = 1
      BY <3>1
    <3> QED
      BY <2>2, <3>1, <3>2
  <2>6. ~human[f]
    BY <2>2 DEF HaltOK
  <2>7. Contract!Mail(f, c)
    <3>1. HaltedOnes' = HaltedOnes /\ f \notin HaltedOnes /\ c \in AskedBy[f]
      BY <2>2, <2>3, <2>6 DEF HaltedOnes, AskedBy
    <3> QED
      BY <1>2, <2>5, <3>1 DEF Contract!Mail
  <2>8. \A g \in Flows : smtp'[g] # None => smtp'[g].to \in Batch(g)
    BY <1>4, <1>6, <2>2, <2>3 DEF Conversation
  <2>9. \A g \in Flows, d \in Contacts : mails'[g][d] > 0 => d \in Batch(g)
    BY <1>4, <1>6, <2>3, <2>5
  <2> QED
    BY <1>3, <1>4, <2>2, <2>3, <2>7, <2>8, <2>9 DEF Contract!Next
<1>13. ASSUME NEW rejected \in BOOLEAN, SmtpFails(f, rejected)
       PROVE  AskOK' /\ [Contract!Next]_(Contract!vars)
  <2>1. /\ smtp[f] # None /\ UNCHANGED <<left, mails>>
        /\ \/ /\ smtp' = [smtp EXCEPT ![f] = None]
              /\ human' = [human EXCEPT ![f] = @ \/ rejected]
           \/ /\ \A g \in Flows \ {f} : smtp'[g] = smtp[g]
              /\ smtp'[f].to = smtp[f].to
              /\ human' = human
    BY <1>13, SmtpFailsEffect
  <2>2. \A g \in Flows : smtp'[g] # None => smtp'[g].to \in Batch(g)
    BY <1>4, <1>6, <2>1
  <2>3. handler[f] # "none"
    BY <2>1 DEF HandlerOK
  <2>4. CASE human' = [human EXCEPT ![f] = @ \/ rejected]
    <3>1. PICK x \in BOOLEAN : x = (human[f] \/ rejected)
      OBVIOUS
    <3>2. human' = [human EXCEPT ![f] = x]
      BY <2>4, <3>1
    <3> QED
      BY <1>3, <1>4, <1>7, <2>1, <2>2, <2>3, <3>1, <3>2
  <2> QED
    BY <1>3, <1>4, <1>8, <2>1, <2>2, <2>4
<1>14. ASSUME SmtpDone(f) \/ Reply(f) PROVE AskOK' /\ UNCHANGED Contract!vars
  <2>1. /\ UNCHANGED <<left, human, mails>>
        /\ smtp' = smtp \/ smtp' = [smtp EXCEPT ![f] = None]
    BY <1>14 DEF SmtpDone, Reply, server
  <2>2. \A g \in Flows : smtp'[g] # None => smtp'[g].to \in Batch(g)
    BY <1>4, <1>6, <2>1
  <2> QED
    BY <1>3, <1>4, <1>8, <2>1, <2>2
<1> QED
  BY <1>2, <1>9, <1>10, <1>11, <1>12, <1>13, <1>14 DEF Server

\* Confirm & Send keeps its promise to the merchant, for any desk, number of
\* overlapping taps, lost requests and SMTP answers: approveAndSend, dispatch
\* and send-batch together implement EmailContract.
THEOREM EmailImplementsContract == Spec => EmailContractHolds
<1>1. Init => AskOK /\ ToldOK /\ Contract!Init
  <2> SUFFICES ASSUME Init PROVE AskOK /\ ToldOK /\ Contract!Init
    OBVIOUS
  <2>1. \A f \in Flows : Batch(f) = {} /\ pc[f] = "idle"
    BY DEF Init, Batch
  <2>2. AskedBy = [f \in Flows |-> {}] /\ HaltedOnes = {} /\ ToldSent = {}
    BY <2>1 DEF Init, AskedBy, HaltedOnes, ToldSent
  <2> QED
    BY <2>1, <2>2 DEF Init, AskOK, ToldOK, Contract!Init
<1>2. EmailInv /\ AskOK /\ ToldOK /\ [Next]_vars =>
          (AskOK /\ ToldOK)' /\ [Contract!Next]_(Contract!vars)
  <2> SUFFICES ASSUME EmailInv, AskOK, ToldOK, [Next]_vars
               PROVE  (AskOK /\ ToldOK)' /\ [Contract!Next]_(Contract!vars)
    OBVIOUS
  <2>1. TypeOK /\ HandlerOK /\ MailedOnce /\ HaltOK /\ SentOK
    BY DEF EmailInv
  <2>2. CASE UNCHANGED vars
    <3>1. UNCHANGED <<inputs, row, pc, work, now, left, smtp, human, mails>>
      BY <2>2 DEF vars, device, server
    <3>2. \A f \in Flows : Batch(f)' = Batch(f)
      BY <3>1 DEF Batch
    <3>3. UNCHANGED Contract!vars
      BY <3>1, <3>2 DEF Contract!vars, AskedBy, HaltedOnes, ToldSent, inputs
    <3> QED
      BY <3>1, <3>2, <3>3 DEF AskOK, ToldOK
  <2> QED
    BY <2>1, <2>2, MerchantAsks, DeviceAsks, DeviceTells, ServerMails DEF Next
<1> QED
  BY <1>1, <1>2, EmailAlways, PTL DEF Spec, EmailContractHolds, Contract!Spec
=============================================================================
