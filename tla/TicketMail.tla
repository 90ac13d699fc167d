------------------------------ MODULE TicketMail -----------------------------
(***************************************************************************)
(* The e-mail outbox of the desk: requests that prepare a notification of  *)
(* the same event, senders (the periodic command, an operator's click),    *)
(* and operators that retry, cancel or re-queue a row.                     *)
(*                                                                         *)
(* Sending locks the row only to mark it 'sending'; the mail server is     *)
(* spoken to, and the outcome is saved, without the lock.  Cancelling and  *)
(* re-queueing lock nothing.                                               *)
(***************************************************************************)
EXTENDS Naturals

CONSTANTS
  MailRows,      \* bound: rows of the outbox, for one event of one ticket, one recipient and template
  Sender,        \* processes that send
  Desk,          \* requests that prepare the notification
  MaxAttempts,   \* max_attempts of a row
  MaxMailFaults, \* bound: senders that die
  MaxMailOps     \* bound: what operators do to rows

MailAssumption ==
  /\ MailRows \in Nat /\ MaxAttempts \in Nat \ {0}
  /\ MaxMailFaults \in Nat /\ MaxMailOps \in Nat

VARIABLES
  mail,          \* NotificationOutbox: status and attempts; "none": no row yet
  recent,        \* rows created in the last twenty seconds
  preparing,     \* requests that have looked for a recent duplicate in vain
  sender,        \* what each sender has in hand
  edit,          \* the row an operator's request has read, without a lock
  delivered,     \* history: how often the mail server accepted the message
  doubt,         \* history: rows whose delivery the outbox cannot know
  overlapping,   \* history: requests that looked before a row came that is there now
  rushed,        \* history: rows such a request created
  failedOnce,    \* history: rows whose sending has failed
  mailFaults, mailOps

rowHistory == <<overlapping, rushed, failedOnce>>
mailVars == <<mail, recent, preparing, sender, edit, delivered, doubt, rowHistory,
  mailFaults, mailOps>>

Mail == 1 .. MailRows
MailStatus == {"none", "pending", "sending", "sent", "skipped", "failed", "cancelled"}
Row == [status : MailStatus, attempts : 0 .. MaxAttempts]

NoMail == 0
Resting == [at |-> "idle", row |-> NoMail]
NoEdit == [op |-> "none", row |-> NoMail, seen |-> [status |-> "none", attempts |-> 0]]

InHand(m) == {s \in Sender : sender[s].row = m}
SetStatus(m, s) == mail' = [mail EXCEPT ![m].status = s]

MailInit ==
  /\ mail = [m \in Mail |-> [status |-> "none", attempts |-> 0]]
  /\ recent = {} /\ preparing = {}
  /\ sender = [s \in Sender |-> Resting] /\ edit = NoEdit
  /\ delivered = [m \in Mail |-> 0] /\ doubt = {}
  /\ overlapping = {} /\ rushed = {} /\ failedOnce = {}
  /\ mailFaults = 0 /\ mailOps = 0

-----------------------------------------------------------------------------
(* prepare_ticket_notification and queue_email.                            *)

RecentDuplicate == \E m \in recent : mail[m].status \notin {"none", "failed"}

\* A request that finds a recent duplicate, or no active template, prepares nothing.
Look(d) ==
  /\ d \notin preparing /\ ~RecentDuplicate
  /\ \E m \in Mail : mail[m].status = "none"
  /\ preparing' = preparing \cup {d}
  /\ UNCHANGED <<mail, recent, sender, edit, delivered, doubt, rowHistory, mailFaults, mailOps>>

\* A row with a bad address, no subject or no body is created skipped.
Enqueue(d) ==
  /\ d \in preparing
  /\ preparing' = preparing \ {d}
  /\ \E m \in Mail, s \in {"pending", "skipped"} :
       /\ mail[m].status = "none" /\ \A n \in 1 .. m - 1 : mail[n].status # "none"
       /\ SetStatus(m, s)
       /\ recent' = recent \cup {m}
       /\ rushed' = IF d \in overlapping THEN rushed \cup {m} ELSE rushed
  /\ overlapping' = preparing \ {d}
  /\ UNCHANGED <<sender, edit, delivered, doubt, failedOnce, mailFaults, mailOps>>

\* For one row; those created before it are older still.
TwentySecondsPass ==
  /\ \E m \in recent : recent' = {n \in recent : n > m}
  /\ UNCHANGED <<mail, preparing, sender, edit, delivered, doubt, rowHistory, mailFaults, mailOps>>

-----------------------------------------------------------------------------
(* send_email_outbox_item.                                                 *)

\* Mutant: the attempts made are not looked at.
SendableAgain(m) == mail[m].status \in {"pending", "failed"}
Sendable(m) == mail[m].status \in {"pending", "failed"} /\ mail[m].attempts < MaxAttempts

\* process_pending_emails takes pending rows, an operator also a failed one.
\* A row whose text has been emptied is skipped.
Take(s, m) ==
  /\ sender[s] = Resting /\ Sendable(m)
  /\ \/ /\ mail' = [mail EXCEPT ![m] = [status |-> "sending", attempts |-> @.attempts + 1]]
        /\ sender' = [sender EXCEPT ![s] = [at |-> "taken", row |-> m]]
     \/ SetStatus(m, "skipped") /\ UNCHANGED sender
  /\ UNCHANGED <<recent, preparing, edit, delivered, doubt, rowHistory, mailFaults, mailOps>>

\* The server accepts the message, or it does not; an answer that is lost
\* looks like a refusal.
Speak(s) ==
  /\ sender[s].at = "taken"
  /\ LET m == sender[s].row IN
     \E accepted, confirmed \in BOOLEAN :
       /\ confirmed => accepted
       /\ sender' = [sender EXCEPT ![s].at = IF confirmed THEN "sent" ELSE "failed"]
       /\ delivered' = [delivered EXCEPT ![m] = IF accepted THEN @ + 1 ELSE @]
       /\ doubt' = IF accepted /\ ~confirmed THEN doubt \cup {m} ELSE doubt
  /\ UNCHANGED <<mail, recent, preparing, edit, rowHistory, mailFaults, mailOps>>

\* The outcome is saved over whatever the row has become.
SaveOutcome(s) ==
  /\ sender[s].at \in {"sent", "failed"}
  /\ SetStatus(sender[s].row, sender[s].at)
  /\ sender' = [sender EXCEPT ![s] = Resting]
  /\ failedOnce' = IF sender[s].at = "failed" THEN failedOnce \cup {sender[s].row} ELSE failedOnce
  /\ UNCHANGED <<recent, preparing, edit, delivered, doubt, overlapping, rushed, mailFaults, mailOps>>

SenderDies(s) ==
  /\ sender[s] # Resting /\ mailFaults < MaxMailFaults
  /\ sender' = [sender EXCEPT ![s] = Resting]
  /\ doubt' = doubt \cup {sender[s].row}
  /\ mailFaults' = mailFaults + 1
  /\ UNCHANGED <<mail, recent, preparing, edit, delivered, rowHistory, mailOps>>

-----------------------------------------------------------------------------
(* Operators.                                                              *)

\* retry_failed_email, under the lock.
RetryFailed(m) ==
  /\ mail[m].status = "failed" /\ mailOps < MaxMailOps
  /\ \E reset \in BOOLEAN :
       /\ mail[m].attempts < MaxAttempts \/ reset
       /\ mail' = [mail EXCEPT ![m] =
                     [status |-> "pending", attempts |-> IF reset THEN 0 ELSE @.attempts]]
  /\ mailOps' = mailOps + 1
  /\ UNCHANGED <<recent, preparing, sender, edit, delivered, doubt, rowHistory, mailFaults>>

\* cancel_email and mark_email_pending read the row ...
ReadToEdit(m, op) ==
  /\ edit = NoEdit /\ mailOps < MaxMailOps
  /\ mail[m].status \notin (IF op = "cancel" THEN {"none", "sent", "cancelled"} ELSE {"none", "sent"})
  /\ edit' = [op |-> op, row |-> m, seen |-> mail[m]]
  /\ mailOps' = mailOps + 1
  /\ UNCHANGED <<mail, recent, preparing, sender, delivered, doubt, rowHistory, mailFaults>>

\* ... and save it: re-queueing writes back the attempts it has read.
SaveEdit ==
  /\ edit # NoEdit
  /\ LET m == edit.row IN
     \/ edit.op = "cancel" /\ SetStatus(m, "cancelled") /\ UNCHANGED doubt
     \/ /\ edit.op = "pending"
        /\ \E n \in {0, edit.seen.attempts} :
             mail' = [mail EXCEPT ![m] = [status |-> "pending", attempts |-> n]]
        /\ doubt' = IF InHand(m) # {} \/ delivered[m] > 0 THEN doubt \cup {m} ELSE doubt
  /\ edit' = NoEdit
  /\ UNCHANGED <<recent, preparing, sender, delivered, rowHistory, mailFaults, mailOps>>

Work(s) == Speak(s) \/ SaveOutcome(s) \/ \E m \in Mail : mail[m].status = "pending" /\ Take(s, m)

MailNext ==
  \/ \E d \in Desk : Look(d) \/ Enqueue(d)
  \/ TwentySecondsPass \/ SaveEdit
  \/ \E s \in Sender : Speak(s) \/ SaveOutcome(s) \/ SenderDies(s) \/ \E m \in Mail : Take(s, m)
  \/ \E m \in Mail : RetryFailed(m) \/ \E op \in {"cancel", "pending"} : ReadToEdit(m, op)

\* The command that sends pending mail runs over and over.
MailFairness == \A s \in Sender : WF_mailVars(Work(s))
MailSpec == MailInit /\ [][MailNext]_mailVars /\ MailFairness

-----------------------------------------------------------------------------
(* Properties.                                                             *)

\* Every variable has its type.
MailTypeOK ==
  /\ mail \in [Mail -> Row] /\ recent \subseteq Mail /\ preparing \subseteq Desk
  /\ sender \in [Sender -> [at : {"idle", "taken", "sent", "failed"}, row : Mail \cup {NoMail}]]
  /\ edit \in [op : {"none", "cancel", "pending"}, row : Mail \cup {NoMail}, seen : Row]
  /\ delivered \in [Mail -> Nat] /\ doubt \subseteq Mail
  /\ overlapping \subseteq Desk /\ rushed \subseteq Mail /\ failedOnce \subseteq Mail
  /\ mailFaults \in 0 .. MaxMailFaults /\ mailOps \in 0 .. MaxMailOps

\* What the outbox says of a row is so: one marked sent was accepted by the
\* mail server; and a message is sent twice only if its row had become
\* doubtful: an answer was lost, a sender died, or an operator re-queued it
\* when it was accepted already or in a sender's hand.
SentIsDelivered == \A m \in Mail : mail[m].status = "sent" => delivered[m] > 0
TwiceOnlyInDoubt == \A m \in Mail : delivered[m] > 1 => m \in doubt

\* A row that says 'sending' is in a sender's hand, unless a sender died.
SendingIsInHand ==
  \A m \in Mail : mail[m].status = "sending" => InHand(m) # {} \/ mailFaults > 0

\* One event gives one row within twenty seconds.  There are two only if the request of
\* one of them looked before the other was there, or the sending of one had failed.
OneNoticeEach ==
  \A m, n \in recent : m # n => {m, n} \cap (rushed \cup failedOnce) # {}

MailIsAccounted == SentIsDelivered /\ TwiceOnlyInDoubt /\ SendingIsInHand /\ OneNoticeEach

\* A notification that is queued is decided in the end: sent, failed, skipped
\* or cancelled, or left 'sending' by a sender that died.
MailOpen(m) ==
  /\ mailFaults = 0
  /\ mail[m].status = "sending" \/ (mail[m].status = "pending" /\ mail[m].attempts < MaxAttempts)
MailSettles == \A m \in Mail : []<>~MailOpen(m)
=============================================================================
