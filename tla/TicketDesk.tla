------------------------------ MODULE TicketDesk -----------------------------
(***************************************************************************)
(* One ticket and everything that changes it: technicians, the requester's *)
(* portal and the replies that come by e-mail.                             *)
(*                                                                         *)
(* A request reads the ticket, decides, and saves it; no handler locks the *)
(* row.  Most save the whole object, so they write back every field they   *)
(* read; a requester's reply saves the status only.  The e-mail worker     *)
(* fetches unseen messages (which marks them seen), processes each in one  *)
(* transaction and moves it to another folder; several may overlap.        *)
(***************************************************************************)
EXTENDS FiniteSets, Naturals

CONSTANTS
  Request,        \* requests of technicians and of the portal
  Message,        \* e-mails in the mailbox
  Foreign,        \* messages skipped whatever the ticket: no number, no body, a loop
  Fetcher,        \* runs of process_inbound_mailbox
  Withdrawable,   \* events whose templates operators take out of use and back
  MaxDeskFaults,  \* bound: runs that die
  MaxDeskSaves    \* bound: requests that are carried out

DeskAssumption ==
  /\ IsFiniteSet(Message) /\ Foreign \subseteq Message
  /\ MaxDeskFaults \in Nat /\ MaxDeskSaves \in Nat

VARIABLES
  ticket,         \* the row: status, who has it, the two time stamps
  request,        \* what each request has read, and whether it has
  mailbox,        \* messages: "unseen", "seen" or "moved"
  record,         \* InboundEmailMessage by message id: "none" or its status
  fetcher,        \* what each run is doing, for which message, and what it read
  notices,        \* events of the ticket a notification was prepared for
  untold,         \* history: events none was ever prepared for, for want of a template
  replies,        \* history: comments made from each message
  unfetched,      \* history: messages that were in a run's hand when it died
  deskFaults, deskSaves

inboxVars == <<mailbox, record, fetcher, replies, unfetched, deskFaults>>
deskVars == <<ticket, request, notices, untold, deskSaves, inboxVars>>

Active == {"new", "in_progress", "waiting_user", "waiting_third_party"}
ReadOnly == {"closed", "canceled"}
TicketStatus == {"none"} \cup Active \cup {"resolved"} \cup ReadOnly
Ticket == [status : TicketStatus, assigned : BOOLEAN, resolvedAt : BOOLEAN, closedAt : BOOLEAN]

Allowed == [s \in TicketStatus |->
  CASE s = "new" -> {"in_progress", "waiting_user", "waiting_third_party", "resolved", "canceled"}
    [] s = "in_progress" -> {"waiting_user", "waiting_third_party", "resolved", "canceled"}
    [] s = "waiting_user" -> {"in_progress", "resolved", "canceled"}
    [] s = "waiting_third_party" -> {"in_progress", "waiting_user", "resolved", "canceled"}
    [] s = "resolved" -> {"closed", "in_progress"}
    [] OTHER -> {}]

\* Ticket.save stamps what has come to be; transition_ticket clears first.
Stamped(t) == [t EXCEPT !.resolvedAt = @ \/ t.status = "resolved",
                        !.closedAt = @ \/ t.status = "closed"]
Moved(t, s) ==
  Stamped([t EXCEPT !.status = s,
                    !.resolvedAt = @ /\ t.status # "resolved",
                    !.closedAt = @ /\ ~(t.status = "resolved" /\ s = "in_progress")])

CanComment(t) == t.status \notin ReadOnly \cup {"resolved"}

NoTicket == [status |-> "none", assigned |-> FALSE, resolvedAt |-> FALSE, closedAt |-> FALSE]
NotReading == [on |-> FALSE, seen |-> NoTicket]

DeskInit ==
  /\ ticket = NoTicket
  /\ request = [r \in Request |-> NotReading]
  /\ mailbox = [m \in Message |-> "unseen"] /\ record = [m \in Message |-> "none"]
  /\ fetcher = [f \in Fetcher |-> [at |-> "idle", todo |-> {}, msg |-> {}, seen |-> NoTicket]]
  /\ notices = {} /\ untold = {} /\ replies = [m \in Message |-> 0] /\ unfetched = {}
  /\ deskFaults = 0 /\ deskSaves = 0

-----------------------------------------------------------------------------
(* Requests.                                                               *)

Read(r) ==
  /\ ~request[r].on /\ deskSaves < MaxDeskSaves
  /\ request' = [request EXCEPT ![r] = [on |-> TRUE, seen |-> ticket]]
  /\ deskSaves' = deskSaves + 1
  /\ UNCHANGED <<ticket, notices, untold, inboxVars>>

Answer(r) ==
  /\ request[r].on
  /\ request' = [request EXCEPT ![r] = NotReading]
  /\ UNCHANGED <<deskSaves, inboxVars>>

\* prepare_ticket_notification, in the transaction that saves.  Without an active template it
\* prepares nothing, and the change is saved all the same.  A recent duplicate prepares
\* nothing either: that event has its notice.
Notify(events) ==
  \E missing \in SUBSET (events \cap Withdrawable) :
    /\ notices' = notices \cup (events \ missing)
    /\ untold' = (untold \cup missing) \ notices'

\* EVENT_TEMPLATE_MAP.
Event == {"ticket_created", "ticket_assigned", "waiting_requester",
          "ticket_resolved", "ticket_reopened", "ticket_public_reply"}

NewTicket == [NoTicket EXCEPT !.status = "new"]
Assigned(t) == Stamped([t EXCEPT !.assigned = TRUE,
                                 !.status = IF t.status = "new" THEN "in_progress" ELSE @])

\* A technician may take the ticket that is opened.
CreateByTechnician(r) ==
  /\ Answer(r) /\ ticket = NoTicket
  /\ \/ ticket' = NewTicket /\ Notify({"ticket_created"})
     \/ ticket' = Assigned(NewTicket) /\ Notify({"ticket_created", "ticket_assigned"})

CreateByRequester(r) ==
  /\ Answer(r) /\ ticket = NoTicket
  /\ ticket' = NewTicket /\ Notify({"ticket_created"})

EventOf(old, new) ==
  IF new = "waiting_user" THEN {"waiting_requester"}
  ELSE IF new = "resolved" THEN {"ticket_resolved"}
  ELSE IF new = "in_progress" /\ old = "resolved" THEN {"ticket_reopened"} ELSE {}

\* transition_ticket; no template is mapped to closing.
Transition(r, s) ==
  /\ Answer(r)
  /\ s \in Allowed[request[r].seen.status]
  /\ ticket' = Moved(request[r].seen, s)
  /\ Notify(EventOf(request[r].seen.status, s))

ChangeStatus(r) == \E s \in TicketStatus : Transition(r, s)
Resolve(r) == Transition(r, "resolved")
PortalReopen(r) == request[r].seen.status = "resolved" /\ Transition(r, "in_progress")

\* assign_ticket.
Assign(r) ==
  /\ Answer(r)
  /\ request[r].seen.status \in Active
  /\ ticket' = Assigned(request[r].seen)
  /\ Notify(IF request[r].seen.assigned THEN {} ELSE {"ticket_assigned"})

\* A field of the drawer, whatever the status: title, priority, queue, owner.
EditField(r) ==
  /\ Answer(r) /\ request[r].seen # NoTicket
  /\ \E a \in {FALSE, request[r].seen.assigned} :
       ticket' = Stamped([request[r].seen EXCEPT !.assigned = a])
  /\ UNCHANGED <<notices, untold>>

\* Escalating brings the ticket back to work first.
Escalate(r) ==
  /\ Answer(r)
  /\ request[r].seen.status \in Active
  /\ request[r].seen.status = "in_progress" \/ "in_progress" \in Allowed[request[r].seen.status]
  /\ \E owner \in BOOLEAN :
       LET t == Moved(request[r].seen, "in_progress") IN
       ticket' = Stamped([t EXCEPT !.assigned = @ \/ owner])
  /\ UNCHANGED <<notices, untold>>

\* requester_reply: a comment, and the status alone.
ReplyTo(seen) ==
  ticket' = IF seen.status = "waiting_user" THEN [ticket EXCEPT !.status = "in_progress"] ELSE ticket

PortalReply(r) ==
  /\ Answer(r)
  /\ CanComment(request[r].seen) /\ request[r].seen # NoTicket
  /\ ReplyTo(request[r].seen)
  /\ UNCHANGED <<notices, untold>>

\* A technician's comment or public reply.
Comment(r) ==
  /\ Answer(r) /\ UNCHANGED ticket
  /\ CanComment(request[r].seen) /\ request[r].seen # NoTicket
  /\ Notify({"ticket_public_reply"})

\* Internal comments, attachments, and whatever the request refuses.
NoChange(r) == Answer(r) /\ UNCHANGED <<ticket, notices, untold>>

-----------------------------------------------------------------------------
(* process_inbound_mailbox.                                                *)

Run(f, at, todo, msg, seen) == fetcher' = [fetcher EXCEPT ![f] =
  [at |-> at, todo |-> todo, msg |-> msg, seen |-> seen]]

Search(f) ==
  /\ fetcher[f].at = "idle"
  /\ LET found == {m \in Message : mailbox[m] = "unseen"} IN
     found # {} /\ Run(f, "search", found, {}, NoTicket)
  /\ UNCHANGED <<ticket, notices, untold, request, mailbox, record, replies, unfetched, deskFaults, deskSaves>>

\* FETCH RFC822 sets \Seen; it fails for a message another run has moved.
Fetch(f) ==
  /\ fetcher[f].at = "search"
  /\ \E m \in fetcher[f].todo :
       LET rest == fetcher[f].todo \ {m} IN
       IF mailbox[m] = "moved"
       THEN UNCHANGED mailbox /\ Run(f, IF rest = {} THEN "idle" ELSE "search", rest, {}, NoTicket)
       ELSE mailbox' = [mailbox EXCEPT ![m] = "seen"] /\ Run(f, "fetched", rest, {m}, NoTicket)
  /\ UNCHANGED <<ticket, notices, untold, request, record, replies, unfetched, deskFaults, deskSaves>>

\* Known messages are put aside; otherwise the ticket is read.
Lookup(f) ==
  /\ fetcher[f].at = "fetched"
  /\ \E m \in fetcher[f].msg :
       IF record[m] # "none" THEN Run(f, "file", fetcher[f].todo, {m}, NoTicket)
       ELSE Run(f, "decided", fetcher[f].todo, {m}, ticket)
  /\ UNCHANGED <<ticket, notices, untold, request, mailbox, record, replies, unfetched, deskFaults, deskSaves>>

\* Mutant: the record is written without regard to another run's.
ProcessAgain(f) ==
  /\ fetcher[f].at = "decided"
  /\ \E m \in fetcher[f].msg :
       /\ m \notin Foreign /\ fetcher[f].seen.status \notin ReadOnly \cup {"none"}
       /\ record' = [record EXCEPT ![m] = "processed"]
       /\ replies' = [replies EXCEPT ![m] = @ + 1]
       /\ ReplyTo(fetcher[f].seen)
       /\ Run(f, "search", {m}, {}, NoTicket)
  /\ UNCHANGED <<request, mailbox, unfetched, notices, untold, deskFaults, deskSaves>>

\* One transaction: reply or reopening, and the record.  The record's unique
\* message id undoes it if another run was first.
Process(f) ==
  /\ fetcher[f].at = "decided"
  /\ \E m \in fetcher[f].msg :
       LET seen == fetcher[f].seen IN
       /\ m \notin Foreign /\ seen.status \notin ReadOnly \cup {"none"}
       /\ IF record[m] # "none" THEN UNCHANGED <<ticket, record, replies>>
          ELSE /\ record' = [record EXCEPT ![m] = "processed"]
               /\ replies' = [replies EXCEPT ![m] = @ + 1]
               /\ IF seen.status = "resolved" THEN ticket' = Moved(seen, "in_progress")
                  ELSE ReplyTo(seen)
       /\ Run(f, "file", fetcher[f].todo, {m}, NoTicket)
  /\ UNCHANGED <<request, mailbox, unfetched, notices, untold, deskFaults, deskSaves>>

\* A message that is skipped is only recorded; if another run was first the
\* duplicate key is not caught, and ends the run.
Skip(f) ==
  /\ fetcher[f].at = "decided"
  /\ \E m \in fetcher[f].msg :
       /\ m \in Foreign \/ fetcher[f].seen.status \in ReadOnly \cup {"none"}
       /\ IF record[m] # "none"
          THEN Run(f, "idle", {}, {}, NoTicket) /\ UNCHANGED record
          ELSE Run(f, "file", fetcher[f].todo, {m}, NoTicket)
                 /\ record' = [record EXCEPT ![m] = "skipped"]
  /\ UNCHANGED <<ticket, notices, untold, request, mailbox, replies, unfetched, deskFaults, deskSaves>>

\* _move_message, and the next one.
File(f) ==
  /\ fetcher[f].at = "file"
  /\ mailbox' = [m \in Message |-> IF m \in fetcher[f].msg THEN "moved" ELSE mailbox[m]]
  /\ Run(f, IF fetcher[f].todo = {} THEN "idle" ELSE "search", fetcher[f].todo, {}, NoTicket)
  /\ UNCHANGED <<ticket, notices, untold, request, record, replies, unfetched, deskFaults, deskSaves>>

FetcherDies(f) ==
  /\ fetcher[f].at # "idle" /\ deskFaults < MaxDeskFaults
  /\ Run(f, "idle", {}, {}, NoTicket)
  /\ unfetched' = unfetched \cup fetcher[f].msg
  /\ deskFaults' = deskFaults + 1
  /\ UNCHANGED <<ticket, notices, untold, request, mailbox, record, replies, deskSaves>>

Change(r) ==
  \/ CreateByTechnician(r) \/ CreateByRequester(r)
  \/ ChangeStatus(r) \/ Resolve(r) \/ PortalReopen(r) \/ Assign(r) \/ EditField(r)
  \/ Escalate(r) \/ PortalReply(r) \/ Comment(r) \/ NoChange(r)
Fetching(f) == Search(f) \/ Fetch(f) \/ Lookup(f) \/ Process(f) \/ Skip(f) \/ File(f)

DeskNext ==
  \/ \E r \in Request : Read(r) \/ Change(r)
  \/ \E f \in Fetcher : Fetching(f) \/ FetcherDies(f)

\* The mailbox is polled over and over.
DeskFairness == \A f \in Fetcher : WF_deskVars(Fetching(f))
DeskSpec == DeskInit /\ [][DeskNext]_deskVars /\ DeskFairness

-----------------------------------------------------------------------------
(* Properties.                                                             *)

\* Every variable has its type.
DeskTypeOK ==
  /\ ticket \in Ticket
  /\ request \in [Request -> [on : BOOLEAN, seen : Ticket]]
  /\ mailbox \in [Message -> {"unseen", "seen", "moved"}]
  /\ record \in [Message -> {"none", "processed", "skipped"}]
  /\ fetcher \in [Fetcher -> [at : {"idle", "search", "fetched", "decided", "file"},
                              todo : SUBSET Message, msg : SUBSET Message, seen : Ticket]]
  /\ notices \subseteq Event /\ untold \subseteq Event \ notices
  /\ replies \in [Message -> Nat] /\ unfetched \subseteq Message
  /\ deskFaults \in 0 .. MaxDeskFaults /\ deskSaves \in 0 .. MaxDeskSaves

InRun(m) == \E f \in Fetcher : m \in fetcher[f].msg

\* A reply by e-mail enters the ticket once and no more, however many runs
\* overlap, and exactly when its record says it was processed.
RepliesOnce ==
  \A m \in Message : replies[m] = IF record[m] = "processed" THEN 1 ELSE 0

\* A message that is marked seen is recorded, or in the hand of a run, or was
\* when that run died: only those can be lost.
SeenIsRecorded ==
  \A m \in Message : mailbox[m] # "unseen" => record[m] # "none" \/ InRun(m) \/ m \in unfetched

\* A resolved ticket has its resolution time, a closed one its closing time, and a notice of
\* the resolution was prepared, whatever was saved over what, unless no template for it was
\* active whenever the ticket was resolved.
StampsAgree ==
  /\ ticket.status = "resolved" => ticket.resolvedAt
  /\ ticket.status = "closed" => ticket.closedAt
  /\ ticket.status \in {"resolved", "closed"} => "ticket_resolved" \in notices \cup untold

DeskIsSound == RepliesOnce /\ SeenIsRecorded /\ StampsAgree

\* A ticket that is closed or cancelled changes its status only by a save of
\* a request, or of a run, that read it when it had another status: the two may
\* differ even among the final ones.
ClosedTicketIsFinal ==
  [][(ticket.status \in ReadOnly /\ ticket'.status # ticket.status) =>
       \/ \E r \in Request : request[r].on /\ ~request'[r].on
                               /\ request[r].seen.status # ticket.status
       \/ \E f \in Fetcher : fetcher[f].at = "decided" /\ fetcher'[f].at = "file"
                               /\ fetcher[f].seen.status # ticket.status]_deskVars

\* Every message is recorded in the end, unless a run died with it in hand.
ReplyOpen(m) == record[m] = "none" /\ m \notin unfetched
EveryReplyIsRecorded == \A m \in Message : []<>~ReplyOpen(m)
=============================================================================
