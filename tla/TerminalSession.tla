---------------------------- MODULE TerminalSession ---------------------------
(***************************************************************************)
(* Remote terminal sessions of one endpoint: the rows and their single-use *)
(* tickets, the consent of the local user, the relay that joins the two    *)
(* web sockets of a session, and the agent that runs the process.          *)
(*                                                                         *)
(* Every request locks the row; the relay lives in the memory of one       *)
(* server process and awaits the database in worker threads.  The agent    *)
(* polls, asks the local user, connects and starts the process when it is  *)
(* told that both sides are there.  Bytes, sizes and rates are left out: a *)
(* frame that breaks a rule ends the connection, which may end anyway.     *)
(***************************************************************************)
EXTENDS FiniteSets, Naturals

CONSTANTS
  Session, NoSession,
  Conn,               \* web socket connections
  Mode,               \* the modes that the server's settings allow
  MaxTerminalFaults   \* bound: server restarts, answers lost, writes that fail

TerminalAssumption ==
  /\ NoSession \notin Session /\ MaxTerminalFaults \in Nat
  /\ Mode \subseteq {"synthetic", "conpty", "admin_auth"}

VARIABLES
  session,    \* TerminalSession rows
  void,       \* sessions that are expired or whose authorization is gone
  conn,       \* connections: session, role and progress in terminal_application
  link,       \* Link by session: who is attached, what was announced
  told,       \* sessions whose agent was sent transport_ready
  epoch,      \* OWNER, the server process
  host,       \* what the agent's loop does, for which session, on which connection
  consentFile,\* the session whose approval lies on the agent's disk
  process,    \* the terminal process of each session
  approved,   \* history: sessions the local user has approved
  terminalFaults

rowVars == <<session, void>>
relayVars == <<conn, link, told, epoch>>
hostVars == <<host, consentFile, process, approved>>
terminalVars == <<rowVars, relayVars, hostVars, terminalFaults>>

Active == {"awaiting_consent", "authorized", "connecting", "ready"}
Closed == {"closed", "expired", "cancelled"}
NoRow == [status |-> "none", mode |-> "none", operator |-> "none", agent |-> "none", owner |-> 0]
NoLink == [peers |-> {}, transport |-> FALSE, ready |-> FALSE, ended |-> FALSE]
Idle == [at |-> "idle", session |-> NoSession]

TerminalInit ==
  /\ session = [x \in Session |-> NoRow] /\ void = {}
  /\ conn = [c \in Conn |-> [session |-> NoSession, role |-> "operator", at |-> "none"]]
  /\ link = [x \in Session |-> NoLink] /\ told = {} /\ epoch = 1
  /\ host = Idle /\ consentFile = NoSession
  /\ process = [x \in Session |-> "none"] /\ approved = {}
  /\ terminalFaults = 0

TerminalFault == terminalFaults < MaxTerminalFaults /\ terminalFaults' = terminalFaults + 1
NoTerminalFault == UNCHANGED terminalFaults

----------------------------------------------------------------------------
(* Rows.                                                                   *)

Live(x) == session[x].status \in Active
ValidSession(x) == Live(x) /\ x \notin void
\* Mutant: whatever the row has become.
ShutAny(x, status) == [session EXCEPT ![x].status = status]
\* close_session: only what is active.
Shut(x, status) ==
  [session EXCEPT ![x].status = IF @ \in Active THEN status ELSE @]

\* One active session per endpoint; what has expired is closed on the way.
CreateSession(x, mode) ==
  LET swept == {y \in Session : Live(y) /\ y \in void} IN
  /\ session[x].status = "none" /\ \A y \in Session : Live(y) => y \in swept
  /\ session' = [y \in Session |->
       IF y = x THEN [NoRow EXCEPT !.mode = mode,
                        !.status = IF mode = "conpty" THEN "awaiting_consent" ELSE "authorized",
                        !.operator = IF mode = "conpty" THEN "none" ELSE "issued"]
       ELSE IF y \in swept THEN [session[y] EXCEPT !.status = "expired"] ELSE session[y]]
  /\ UNCHANGED <<void, relayVars, hostVars, terminalFaults>>

\* The clock, a grant that is withdrawn, an endpoint that changes identity.
Void(x) ==
  /\ Live(x) /\ void' = void \cup {x}
  /\ UNCHANGED <<session, relayVars, hostVars, terminalFaults>>

Cancel(x) ==
  /\ Live(x) /\ session' = Shut(x, "cancelled")
  /\ UNCHANGED <<void, relayVars, hostVars, terminalFaults>>

\* The operator's page asks for the state: a session that is void is closed by it.
ShowStatus(x) ==
  /\ Live(x) /\ x \in void /\ session' = Shut(x, "expired")
  /\ UNCHANGED <<void, relayVars, hostVars, terminalFaults>>

\* The operator's ticket of a session that needed consent.
IssueOperatorTicket(x) ==
  /\ ValidSession(x) /\ session[x].status \in {"authorized", "connecting"}
  /\ session[x].operator = "none"
  /\ session' = [session EXCEPT ![x].operator = "issued"]
  /\ UNCHANGED <<void, relayVars, hostVars, terminalFaults>>

----------------------------------------------------------------------------
(* The agent's loop until it connects.                                     *)

\* The loop starts over; what approval is left on disk goes.
Rest == host' = Idle /\ consentFile' = NoSession

\* TerminalAgentPollView, answered or not, from the loop or right after a consent.
Poll(x) ==
  /\ host.at = "idle" \/ (host.at = "opening" /\ host.session = x)
  /\ ValidSession(x) /\ session[x].agent = "none"
  /\ IF session[x].status = "awaiting_consent"
     THEN /\ host.at = "idle" /\ host' = [at |-> "asking", session |-> x]
          /\ UNCHANGED <<session, consentFile>> /\ NoTerminalFault
     ELSE /\ session' = [session EXCEPT ![x].agent = "issued"]
          /\ \/ host' = [at |-> "holding", session |-> x] /\ UNCHANGED consentFile /\ NoTerminalFault
             \/ TerminalFault /\ Rest
  /\ UNCHANGED <<void, relayVars, process, approved>>

PollNothing ==
  /\ host.at = "opening" /\ Rest
  /\ UNCHANGED <<rowVars, relayVars, process, approved, terminalFaults>>

\* The tray writes what the local user decides.
UserApproves ==
  /\ host.at = "asking" /\ consentFile' = host.session /\ approved' = approved \cup {host.session}
  /\ UNCHANGED <<rowVars, relayVars, host, process, terminalFaults>>

\* RequestAsync ends: the decision is posted, and accepted or not; or the session is gone.
Consented(x, decision) ==
  IF session[x].status # "awaiting_consent" THEN session
  ELSE IF x \in void THEN Shut(x, "expired")
  ELSE IF decision = "approved" THEN [session EXCEPT ![x].status = "authorized"]
  ELSE Shut(x, IF decision = "expired" THEN "expired" ELSE "cancelled")
PostConsent(decision) ==
  LET x == host.session IN
  /\ host.at = "asking" /\ (decision = "approved" => consentFile = x)
  /\ \/ session' = Consented(x, decision) /\ NoTerminalFault
        /\ IF decision = "approved" /\ ValidSession(x) /\ session[x].status = "awaiting_consent"
           THEN host' = [host EXCEPT !.at = "opening"] /\ UNCHANGED consentFile
           ELSE Rest
     \/ session' \in {session, Consented(x, decision)} /\ TerminalFault /\ Rest
  /\ UNCHANGED <<void, relayVars, process, approved>>

ConsentGone ==
  /\ host.at = "asking" /\ session[host.session].status # "awaiting_consent"
  /\ Rest /\ UNCHANGED <<rowVars, relayVars, process, approved, terminalFaults>>

----------------------------------------------------------------------------
(* terminal_application: one coroutine per connection.                     *)

Is(c, at) == conn[c].at = at
Goes(c, at) == conn' = [conn EXCEPT ![c].at = at]
\* Two peers: the agent is told, and has to answer unless the session is synthetic.
Both(l) == l.peers = {"operator", "agent"}

OperatorConnects(c, x) ==
  /\ Is(c, "none") /\ session[x].operator # "none"
  /\ conn' = [conn EXCEPT ![c] = [session |-> x, role |-> "operator", at |-> "open"]]
  /\ UNCHANGED <<rowVars, link, told, epoch, hostVars, terminalFaults>>

AgentConnects(c) ==
  /\ Is(c, "none") /\ host.at = "holding"
  /\ conn' = [conn EXCEPT ![c] = [session |-> host.session, role |-> "agent", at |-> "open"]]
  /\ host' = [host EXCEPT !.at = "connected"]
  /\ UNCHANGED <<rowVars, link, told, epoch, consentFile, process, approved, terminalFaults>>

\* consume_ticket, with the row locked; the answer may come too late for the connection.
\* Mutant: a ticket that was used is taken again.
MayConsumeAgain(c) ==
  LET x == conn[c].session s == session[x] IN
  /\ ValidSession(x) /\ s.status # "awaiting_consent" /\ s.owner \in {0, epoch}
  /\ s[conn[c].role] \in {"issued", "used"}
MayConsume(c) ==
  LET x == conn[c].session s == session[x] IN
  /\ ValidSession(x) /\ s.status # "awaiting_consent" /\ s.owner \in {0, epoch}
  /\ s[conn[c].role] = "issued"
ConsumeTicket(c) ==
  LET x == conn[c].session IN
  /\ Is(c, "open") /\ MayConsume(c)
  /\ session' = [session EXCEPT ![x] = IF conn[c].role = "operator"
       THEN [@ EXCEPT !.operator = "used", !.owner = epoch, !.status = "connecting"]
       ELSE [@ EXCEPT !.agent = "used", !.owner = epoch, !.status = "connecting"]]
  /\ \/ Goes(c, "consumed") /\ NoTerminalFault
     \/ Goes(c, "gone") /\ TerminalFault
  /\ UNCHANGED <<void, link, told, epoch, hostVars>>

\* A ticket that is wrong, late or used, or a socket that closes first.
Reject(c) ==
  /\ Is(c, "open") /\ Goes(c, "gone")
  /\ UNCHANGED <<rowVars, link, told, epoch, hostVars, terminalFaults>>

Attach(c) ==
  LET x == conn[c].session l == link[x] new == [l EXCEPT !.peers = @ \cup {conn[c].role}] IN
  /\ Is(c, "consumed")
  /\ IF conn[c].role \in l.peers \/ l.ended
     THEN Goes(c, "refused") /\ UNCHANGED <<link, told>>
     ELSE /\ link' = [link EXCEPT ![x] = [new EXCEPT !.transport = Both(new)]]
          /\ told' = IF Both(new) THEN told \cup {x} ELSE told
          /\ Goes(c, IF Both(new) /\ session[x].mode = "synthetic" THEN "readying" ELSE "joined")
  /\ UNCHANGED <<rowVars, epoch, hostVars, terminalFaults>>

\* mark_ready: awaited by the second peer of a synthetic session, and by the agent's
\* reader when the process has reported in.  A session that is no longer valid ends.
MarkReady(c) ==
  LET x == conn[c].session IN
  /\ \/ Is(c, "readying")
     \/ /\ Is(c, "joined") /\ conn[c].role = "agent" /\ session[x].mode # "synthetic"
        /\ link[x].transport /\ ~link[x].ready /\ process[x] = "running"
  /\ IF ValidSession(x)
     THEN /\ session' = [session EXCEPT ![x].status = "ready"]
          /\ link' = [link EXCEPT ![x].ready = TRUE] /\ Goes(c, "joined")
     ELSE /\ link' = [link EXCEPT ![x].ended = TRUE] /\ Goes(c, "ending")
          /\ UNCHANGED session
  /\ UNCHANGED <<void, told, epoch, hostVars, terminalFaults>>

\* Disconnection, a broken rule, a timeout; the other side; the monitor, which looks
\* at the row every second.
Leave(c) ==
  /\ conn[c].at \in {"joined", "readying"}
  /\ link' = [link EXCEPT ![conn[c].session].ended = TRUE] /\ Goes(c, "ending")
  /\ UNCHANGED <<rowVars, told, epoch, hostVars, terminalFaults>>
MustLeave(c) ==
  LET x == conn[c].session IN
  /\ conn[c].at # "none"
  /\ \/ ~ValidSession(x) \/ link[x].ended
     \/ conn[c].role = "agent" /\ host # [at |-> "connected", session |-> x]

\* The last block: the row is closed if the database answers, the peer is detached.
Finish(c) ==
  LET x == conn[c].session rest == link[x].peers \ {conn[c].role} IN
  /\ conn[c].at \in {"ending", "refused"}
  /\ \/ session' = Shut(x, "closed") /\ NoTerminalFault
     \/ UNCHANGED session /\ TerminalFault
  /\ link' = IF Is(c, "refused") THEN link
             ELSE [link EXCEPT ![x] = IF rest = {} THEN NoLink ELSE [@ EXCEPT !.peers = rest]]
  /\ Goes(c, "gone")
  /\ UNCHANGED <<void, told, epoch, hostVars>>

ServerRestarts ==
  /\ TerminalFault /\ epoch' = epoch + 1
  /\ conn' = [c \in Conn |-> IF Is(c, "none") THEN conn[c] ELSE [conn[c] EXCEPT !.at = "gone"]]
  /\ link' = [x \in Session |-> NoLink]
  /\ UNCHANGED <<rowVars, told, hostVars>>

----------------------------------------------------------------------------
(* ConnectAsync: the agent on its connection.                              *)

\* transport_ready (and for admin_auth accepted credentials): the process of a conpty
\* session needs the approval on disk.
StartProcess ==
  LET x == host.session IN
  /\ host.at = "connected" /\ x \in told
  /\ session[x].mode # "synthetic" /\ process[x] = "none"
  /\ session[x].mode = "conpty" => consentFile = x
  /\ process' = [process EXCEPT ![x] = "running"]
  /\ UNCHANGED <<rowVars, relayVars, host, consentFile, approved, terminalFaults>>

\* Closed, idle, expired, exited or broken: the process never outlives the connection.
Disconnect ==
  /\ host.at \in {"holding", "connected"} /\ Rest
  /\ process' = [process EXCEPT ![host.session] = IF @ = "running" THEN "stopped" ELSE @]
  /\ UNCHANGED <<rowVars, relayVars, approved, terminalFaults>>
MustDisconnect ==
  host.at = "connected" /\ \A c \in Conn : conn[c].session = host.session /\ conn[c].role = "agent" => Is(c, "gone")

TerminalNext ==
  \/ \E x \in Session :
       \/ \E mode \in Mode : CreateSession(x, mode)
       \/ Void(x) \/ Cancel(x) \/ ShowStatus(x) \/ IssueOperatorTicket(x) \/ Poll(x)
  \/ PollNothing \/ UserApproves \/ ConsentGone \/ StartProcess \/ Disconnect \/ ServerRestarts
  \/ \E decision \in {"approved", "denied", "expired"} : PostConsent(decision)
  \/ \E c \in Conn :
       \/ \E x \in Session : OperatorConnects(c, x)
       \/ AgentConnects(c) \/ ConsumeTicket(c) \/ Reject(c) \/ Attach(c) \/ MarkReady(c)
       \/ Leave(c) \/ Finish(c)

\* The monitor and the keepalives notice what has ended, on both sides.
TerminalFairness ==
  /\ \A c \in Conn :
       /\ WF_terminalVars(ConsumeTicket(c) \/ Reject(c)) /\ WF_terminalVars(Attach(c))
       /\ WF_terminalVars(MustLeave(c) /\ (Leave(c) \/ MarkReady(c))) /\ WF_terminalVars(Finish(c))
  /\ WF_terminalVars(MustDisconnect /\ Disconnect)

TerminalSpec == TerminalInit /\ [][TerminalNext]_terminalVars /\ TerminalFairness

----------------------------------------------------------------------------
(* Properties.                                                             *)

TerminalTypeOK ==
  /\ \A x \in Session :
       /\ session[x].status \in {"none"} \cup Active \cup Closed /\ session[x].mode \in {"none"} \cup Mode
       /\ session[x].operator \in {"none", "issued", "used"} /\ session[x].agent \in {"none", "issued", "used"}
       /\ link[x].peers \subseteq {"operator", "agent"} /\ process[x] \in {"none", "running", "stopped"}
  /\ void \cup told \cup approved \subseteq Session /\ consentFile \in Session \cup {NoSession}
  /\ \A c \in Conn : conn[c].at \in {"none", "open", "consumed", "refused", "readying", "joined", "ending", "gone"}
  /\ host.at \in {"idle", "asking", "opening", "holding", "connected"}
  /\ epoch \in 1..1 + MaxTerminalFaults

Authenticated(x, role) ==
  {c \in Conn : /\ conn[c].session = x /\ conn[c].role = role
                /\ conn[c].at \in {"consumed", "refused", "readying", "joined", "ending"}}
\* Presented twice, a ticket lets one connection in.
TicketsWorkOnce ==
  \A x \in Session, role \in {"operator", "agent"} : Cardinality(Authenticated(x, role)) <= 1
\* A process the local user has to agree to runs only when that user did, in a session
\* whose operator and agent both hold a connection of their own; a session is ready
\* only when both have used their tickets.
RunsByConsent ==
  \A x \in Session :
    /\ process[x] = "running" /\ session[x].mode = "conpty" => x \in approved
    /\ process[x] = "running" \/ session[x].status = "ready"
         => session[x].operator = "used" /\ session[x].agent = "used"
\* Who may use the endpoint's terminal.
TerminalIsGuarded == TicketsWorkOnce /\ RunsByConsent

\* A session that is closed is never active again, whatever was under way.
ClosedSessionIsFinal ==
  [][\A x \in Session : session[x].status \in Closed => session'[x] = session[x]]_terminalVars

\* When a session is closed, expired or no longer authorized its process stops for good.
TerminalOpen(x) == process[x] = "running" /\ (x \in void \/ session[x].status \in Closed)
TerminalStops == \A x \in Session : []<>~TerminalOpen(x)
=============================================================================
