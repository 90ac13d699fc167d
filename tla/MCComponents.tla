---------------------------- MODULE MCComponents ----------------------------
(***************************************************************************)
(* The components that share no state with one another, checked together:  *)
(* `focus` is chosen at the beginning and only that component then moves,  *)
(* while the others stay as they began.  The reachable states are those of *)
(* the components one after the other.                                     *)
(***************************************************************************)
EXTENDS Integers

CONSTANTS
  NewestVersion, MaxUpdates, MaxUpdFaults,
  MailRows, Sender, Desk, MaxAttempts, MaxMailFaults, MaxMailOps,
  Request, Message, Foreign, Fetcher, Withdrawable, MaxDeskFaults, MaxDeskSaves,
  Target, Batch, Solo, NoTarget, NoBatch, MaxInstallFaults, MaxRequests,
  Session, NoSession, Conn, Mode, MaxTerminalFaults,
  MaxMinute, ChannelLimit, QueueLimit, BatchLimit, Retention, MaxWindowAge, AcceptedAge,
  Compactor, MaxTelemetryFaults,
  ConfigJob, PlainJob, Default, NoConfigJob, MaxConfigFaults,
  Definition, Patient, Endpoint, RunRequest, Scheduler, Period, Validity, MaxTime, MaxRetries,
  MaxOperations, MaxAutomationFaults,
  MaxVersion, EndpointChannel, Editor, MaxReleaseOps, MaxDecisions

VARIABLES
  focus,
  upd, runner, files, local, backup, svc, hs, reports, base, interrupted, updFaults,
  mail, recent, preparing, sender, edit, delivered, doubt, overlapping, rushed, failedOnce,
  mailFaults, mailOps,
  ticket, request, mailbox, record, fetcher, notices, untold, replies, unfetched, deskFaults, deskSaves,
  job, install, stalled, token, script, agent, managed, batch, item, proven, installFaults,
  session, void, conn, link, told, epoch, host, consentFile, process, approved, terminalFaults,
  minute, setBack, sampling, open, versions, channel, queue, upload, samples, rolled, compacting,
  acknowledged, telemetryFaults,
  disk, live, effective, journal, jobRecord, results, gate, task, worker, overtaken, passedOver,
  configFaults,
  time, definition, occurrences, endpoint, round, reopened, operations, automationFaults,
  release, editor, keyRevoked, installed, decision, update, outdated, releaseOps, decisions

updV == <<upd, runner, files, local, backup, svc, hs, reports, base, interrupted, updFaults>>
mailV == <<mail, recent, preparing, sender, edit, delivered, doubt, overlapping, rushed, failedOnce,
  mailFaults, mailOps>>
deskV == <<ticket, request, mailbox, record, fetcher, notices, untold, replies, unfetched, deskFaults,
  deskSaves>>
installV == <<job, install, stalled, token, script, agent, managed, batch, item, proven,
  installFaults>>
terminalV == <<session, void, conn, link, told, epoch, host, consentFile, process, approved,
  terminalFaults>>
telemetryV == <<minute, setBack, sampling, open, versions, channel, queue, upload, samples,
  rolled, compacting, acknowledged, telemetryFaults>>
configV == <<disk, live, effective, journal, jobRecord, results, gate, task, worker, overtaken,
  passedOver, configFaults>>
automationV == <<time, definition, occurrences, endpoint, round, reopened, operations,
  automationFaults>>
releaseV == <<release, editor, keyRevoked, installed, decision, update, outdated, releaseOps, decisions>>

Upd == INSTANCE UpdateTransaction
Mail == INSTANCE TicketMail
Tick == INSTANCE TicketDesk
Inst == INSTANCE RemoteInstall
Term == INSTANCE TerminalSession
Tele == INSTANCE Telemetry
Conf == INSTANCE TelemetryConfig WITH record <- jobRecord
Cal == INSTANCE Automations WITH Request <- RunRequest
Rel == INSTANCE Releases

ASSUME ComponentsAssumption ==
  /\ Upd!UpdateAssumption /\ Mail!MailAssumption /\ Tick!DeskAssumption /\ Inst!InstallAssumption
  /\ Term!TerminalAssumption /\ Tele!TelemetryAssumption /\ Conf!ConfigAssumption
  /\ Cal!AutomationAssumption /\ Rel!ReleaseAssumption

Component ==
  {"update", "mail", "desk", "install", "terminal", "telemetry", "config", "automation", "release"}

Init ==
  /\ focus \in Component /\ (focus # "release" => installed = 0)
  /\ Upd!UpdInit /\ Mail!MailInit /\ Tick!DeskInit /\ Inst!InstallInit /\ Term!TerminalInit
  /\ Tele!TelemetryInit /\ Conf!ConfigInit /\ Cal!AutomationInit /\ Rel!ReleasesInit

OthersRest(c) ==
  /\ focus' = focus
  /\ c # "update" => UNCHANGED updV
  /\ c # "mail" => UNCHANGED mailV
  /\ c # "desk" => UNCHANGED deskV
  /\ c # "install" => UNCHANGED installV
  /\ c # "terminal" => UNCHANGED terminalV
  /\ c # "telemetry" => UNCHANGED telemetryV
  /\ c # "config" => UNCHANGED configV
  /\ c # "automation" => UNCHANGED automationV
  /\ c # "release" => UNCHANGED releaseV

Next ==
  \/ focus = "update" /\ Upd!UpdNext /\ OthersRest("update")
  \/ focus = "mail" /\ Mail!MailNext /\ OthersRest("mail")
  \/ focus = "desk" /\ Tick!DeskNext /\ OthersRest("desk")
  \/ focus = "install" /\ Inst!InstallNext /\ OthersRest("install")
  \/ focus = "terminal" /\ Term!TerminalNext /\ OthersRest("terminal")
  \/ focus = "telemetry" /\ Tele!TelemetryNext /\ OthersRest("telemetry")
  \/ focus = "config" /\ Conf!ConfigNext /\ OthersRest("config")
  \/ focus = "automation" /\ Cal!AutomationNext /\ OthersRest("automation")
  \/ focus = "release" /\ Rel!ReleasesNext /\ OthersRest("release")

Vars ==
  <<focus, updV, mailV, deskV, installV, terminalV,
    telemetryV, configV, automationV, releaseV>>

\* Of the component that moves, the fairness its module states.
Step(c, A) == focus = c /\ A
Fairness ==
  /\ WF_updV(Step("update", Upd!RunnerStep))
  /\ \A s \in Sender : WF_mailV(Step("mail", Mail!Work(s)))
  /\ \A f \in Fetcher : WF_deskV(Step("desk", Tick!Fetching(f)))
  /\ \A r \in Batch \cup Solo, t \in Target : WF_installV(Step("install", Inst!InstallStep(r, t)))
  /\ \A b \in Batch :
       /\ WF_installV(Step("install", Inst!BatchStep(b)))
       /\ WF_installV(Step("install", batch[b].runner = "reflect" /\ Inst!ResolveStall(b)))
  /\ \A c \in Conn :
       /\ WF_terminalV(Step("terminal", Term!ConsumeTicket(c) \/ Term!Reject(c)))
       /\ WF_terminalV(Step("terminal", Term!Attach(c)))
       /\ WF_terminalV(Step("terminal", Term!MustLeave(c) /\ (Term!Leave(c) \/ Term!MarkReady(c))))
       /\ WF_terminalV(Step("terminal", Term!Finish(c)))
  /\ WF_terminalV(Step("terminal", Term!MustDisconnect /\ Term!Disconnect))
  /\ WF_telemetryV(Step("telemetry", \E w \in channel : Tele!Persist(w)))
  /\ WF_telemetryV(Step("telemetry", Tele!StartSampling)) /\ SF_telemetryV(Step("telemetry", Tele!Snapshot))
  /\ SF_telemetryV(Step("telemetry", Tele!PersistWindows)) /\ SF_telemetryV(Step("telemetry", Tele!Acknowledge))
  /\ WF_configV(Step("config", Conf!TaskStep)) /\ SF_configV(Step("config", Conf!RecoverJournal))
  /\ WF_configV(Step("config", Conf!WorkerStep))
  /\ WF_automationV(Step("automation", Cal!TimePasses))
  /\ \A s \in Scheduler :
       /\ WF_automationV(Step("automation", Cal!BeginRound(s))) /\ WF_automationV(Step("automation", Cal!NoteLost(s)))
       /\ WF_automationV(Step("automation", Cal!NoteRefused(s)))
       /\ \A d \in Definition :
            WF_automationV(Step("automation", Cal!Process(s, d) \/ Cal!ProcessFails(s, d)))

Spec == Init /\ [][Next]_Vars /\ Fairness

(* The variables of the nine components have their types. *)
TypeOK ==
  /\ Upd!UpdTypeOK /\ Mail!MailTypeOK /\ Tick!DeskTypeOK /\ Inst!InstallTypeOK /\ Term!TerminalTypeOK
  /\ Tele!TelemetryTypeOK /\ Conf!ConfigTypeOK /\ Cal!AutomationTypeOK
  /\ Rel!ReleasesTypeOK

(* An update leaves one whole version in service and reports what became of it, wherever runner,   *)
(* service or machine stopped (NightOwl.Agent.Updater), and no release is offered against its state,     *)
(* its revocation or the operators' order (services.py, dashboard/views.py).                       *)
UpdatesAreSafe == Upd!UpdateIsSafe /\ Upd!ReportsAreTrue /\ Rel!ReleasesAreSafe

(* Every e-mail row tells what happened to its message, a second sending has a cause the outbox    *)
(* admits, and a ticket's status, replies and notices fit together (email_outbox.py,               *)
(* inbound_email.py, ticket_workflow.py).                                                          *)
TicketsAreSound == Mail!MailIsAccounted /\ Tick!DeskIsSound

(* What an operator ordered happens once and under guard: a remote installation is reported as it  *)
(* was proved and starts once, a terminal runs for its own session after consent, and a calendar   *)
(* fills each slot once (remote_install.py, terminal_sessions.py, automation.py).                  *)
OrderedWorkIsGuarded == Inst!InstallIsHonest /\ Term!TerminalIsGuarded /\ Cal!CalendarIsKept

(* Minutes of telemetry are stored once and not lost without a limit that says so, and the         *)
(* settings in force are those of an accepted configuration (ContinuousTelemetry, Worker.cs).      *)
TelemetryIsKept == Tele!MinutesAreKept /\ Conf!ConfigurationIsKept

(* No step takes a closed ticket, session, slot, definition or revoked release back to work,       *)
(* although rows are saved from copies read earlier.                                               *)
ClosedStaysClosed ==
  Tick!ClosedTicketIsFinal /\ Term!ClosedSessionIsFinal /\ Cal!SlotsGoForward /\ Cal!ClosedDefinitionIsFinal
  /\ Rel!RevokedIsFinal

(* What was begun is concluded: again and again no update, e-mail, reply, batch, session, upload,  *)
(* recovery or due slot is left over, under the fairness each module justifies.                    *)
Unfinished ==
  \/ focus = "update" /\ Upd!UpdateOpen
  \/ focus = "mail" /\ Mail!MailOpen(1)
  \/ focus = "desk" /\ \E m \in Message : Tick!ReplyOpen(m)
  \/ focus = "install" /\ \E b \in Batch : Inst!BatchOpen(b)
  \/ focus = "terminal" /\ \E x \in Session : Term!TerminalOpen(x)
  \/ focus = "telemetry" /\ Tele!UploadOpen(1)
  \/ focus = "config" /\ Conf!RecoveryPending
  \/ focus = "automation" /\ \E d \in Definition : Cal!DueOpen(d)
EverythingEnds == []<>~Unfinished
=============================================================================
