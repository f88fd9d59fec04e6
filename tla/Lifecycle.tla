------------------------------ MODULE Lifecycle ------------------------------
(***************************************************************************)
(* A run of the command, as a server (cmd/ayd/server.go) or once            *)
(* (oneshot.go), around the goroutines of Reporting: main, the handler of   *)
(* signals, the one that shuts the HTTP server down, cron, and a handler of *)
(* an HTTP request.  They are joined by one context and one WaitGroup, and  *)
(* whatever happens to Ayd itself is reported to the same store.            *)
(***************************************************************************)
EXTENDS Reporting

\* What the command line may ask for: records of the mode, the jobs whose schedule
\* wants them at the start, and whether there are alerts; and as bounds, how many
\* records each job reports and whether anybody sends an HTTP request.
CONSTANT Setups

ASSUME LifecycleAssumption ==
  Setups \subseteq [mode : {"server", "oneshot"}, kicked : SUBSET Jobs,
                   alerts : BOOLEAN,
                   work : [Jobs -> Nat], requests : BOOLEAN]

VARIABLES
  setup,      \* what the command line asks for
  main,       \* where Run is
  exitCode,   \* what RunServer or RunOneshot returns
  cancelled,  \* the context of the jobs is done
  wg,         \* the counter of the WaitGroup
  started,    \* the jobs that have a goroutine
  cron,       \* the scheduler: "off", "running", "stopping", "stopped", or waited for
  signal,     \* the goroutine of the signals: "none", "waiting", "stopping" or "gone"
  shutdown,   \* the goroutine of the shutdown
  request,    \* an HTTP handler: "none", "running", "failed" or "answered"
  announced,  \* history variable: what happened to Ayd, as far as it was reported
  overdue     \* history variable: Shutdown gave up on a handler

control == <<setup, main, exitCode, cancelled, wg>>
helpers == <<started, cron, signal, shutdown, request>>
history == <<announced, overdue>>
lifeVars == <<control, helpers, history>>
allVars == <<vars, lifeVars>>

\* Store.Report for a record of Ayd itself, which takes no lock.
Announce(event) ==
  /\ Send([by |-> Ayd, scheme |-> "ayd", rank |-> event])
  /\ announced' = announced \cup {event}
  /\ UNCHANGED <<writerVars, historyVars, jobVars, alertPc, overdue>>

Began == 0
Stopping == 1
Trouble == 2

-----------------------------------------------------------------------------
(* main: Run with RunServer or RunOneshot.                                  *)

\* The certificate, Restore or the port.
FailToStart ==
  /\ setup.mode = "server" /\ main = "starting"
  /\ main' = "returned"
  /\ exitCode' \in {1, 2}
  /\ UNCHANGED <<vars, setup, cancelled, wg, helpers, history>>

ReportStart ==
  /\ setup.mode = "server" /\ main = "starting"
  /\ Announce(Began)
  /\ main' = "scheduling"
  /\ signal' = "waiting"
  /\ UNCHANGED <<setup, exitCode, cancelled, wg, started, cron, shutdown, request>>

\* The jobs that are wanted at once, the scheduler and the shutdown goroutine.
StartServer ==
  /\ setup.mode = "server" /\ main = "scheduling"
  /\ main' = "serving"
  /\ started' = setup.kicked
  /\ wg' = Cardinality(setup.kicked) + 2
  /\ cron' = "running"
  /\ shutdown' = "waiting"
  /\ UNCHANGED <<vars, setup, exitCode, cancelled, signal, request, history>>

StartOneshot ==
  /\ setup.mode = "oneshot" /\ main = "starting"
  /\ main' = "waiting"
  /\ started' = Jobs
  /\ wg' = Cardinality(Jobs)
  /\ UNCHANGED <<vars, setup, exitCode, cancelled, cron, signal, shutdown, request, history>>

\* Serve returns as soon as Shutdown is called...
ServerClosed ==
  /\ main = "serving" /\ shutdown \in {"shutting", "complaining", "done"}
  /\ main' = "waiting"
  /\ UNCHANGED <<vars, setup, exitCode, cancelled, wg, helpers, history>>

\* ...or for another reason, any time: the listener, or the certificate.
ServeFails ==
  /\ main = "serving"
  /\ main' = "failing"
  /\ exitCode' = 1
  /\ UNCHANGED <<vars, setup, cancelled, wg, helpers, history>>

ReportFailure ==
  /\ main = "failing"
  /\ Announce(Trouble)
  /\ cancelled' = TRUE
  /\ main' = "waiting"
  /\ UNCHANGED <<setup, exitCode, wg, helpers>>

\* A oneshot run fails if a change of status was to anything but healthy.
AllDone ==
  /\ main = "waiting" /\ wg = 0
  /\ main' = "returned"
  /\ exitCode' \in IF setup.mode = "oneshot" THEN {0, 1} ELSE {exitCode}
  /\ UNCHANGED <<vars, setup, cancelled, wg, helpers, history>>

CloseStore ==
  /\ main = "returned"
  /\ Close
  /\ main' = "closing"
  /\ UNCHANGED <<setup, exitCode, cancelled, wg, helpers, history>>

\* Close waits for the writer.
Exit ==
  /\ main = "closing" /\ stopped
  /\ main' = "exited"
  /\ UNCHANGED <<vars, setup, exitCode, cancelled, wg, helpers, history>>

-----------------------------------------------------------------------------
(* The goroutines of main.                                                  *)

Signal ==
  \/ /\ setup.mode = "server" /\ signal = "waiting"
     /\ signal' = "stopping"
     /\ UNCHANGED <<vars, control, started, cron, shutdown, request, history>>
  \/ /\ setup.mode = "oneshot" /\ ~cancelled
     /\ cancelled' = TRUE
     /\ UNCHANGED <<vars, setup, main, exitCode, wg, helpers, history>>

CancelThenReportStop ==
  /\ signal = "stopping"
  /\ \/ /\ ~cancelled /\ cancelled' = TRUE
        /\ UNCHANGED <<vars, setup, main, exitCode, wg, helpers, history>>
     \/ /\ cancelled /\ Announce(Stopping) /\ signal' = "gone"
        /\ UNCHANGED <<control, started, cron, shutdown, request>>

ReportStop ==
  /\ signal = "stopping"
  /\ Announce(Stopping)
  /\ cancelled' = TRUE
  /\ signal' = "gone"
  /\ UNCHANGED <<setup, main, exitCode, wg, started, cron, shutdown, request>>

\* The context is done without a signal.
ForgetSignals ==
  /\ signal = "waiting" /\ cancelled
  /\ signal' = "gone"
  /\ UNCHANGED <<vars, control, started, cron, shutdown, request, history>>

\* cron starts a job in a goroutine that no WaitGroup of main counts.
Fire(j) ==
  /\ cron = "running" /\ j \notin started
  /\ started' = started \cup {j}
  /\ UNCHANGED <<vars, control, cron, signal, shutdown, request, history>>

RunJob(j) ==
  /\ j \in started
  /\ JobStep(j)
  /\ reports'[j] <= setup.work[j]
  /\ jobPc'[j] = "alerting" => setup.alerts
  /\ UNCHANGED lifeVars

\* Counted: the jobs main has started itself.
Counted(j) == setup.mode = "oneshot" \/ j \in setup.kicked

EndJob(j) ==
  /\ j \in started
  /\ jobPc[j] = "idle"
  /\ jobPc' = [jobPc EXCEPT ![j] = "over"]
  /\ wg' = IF Counted(j) THEN wg - 1 ELSE wg
  /\ UNCHANGED <<channelVars, writerVars, historyVars, reports, alertPc>>
  /\ UNCHANGED <<setup, main, exitCode, cancelled, helpers, history>>

BeginShutdown ==
  /\ shutdown = "waiting" /\ cancelled
  /\ shutdown' = "shutting"
  /\ cron' = "stopping"
  /\ UNCHANGED <<vars, control, started, signal, request, history>>

\* scheduler.Stop, in a goroutine of its own, and the end of the jobs cron has started.
StopCron ==
  /\ cron = "stopping"
  /\ cron' = "stopped"
  /\ UNCHANGED <<vars, control, started, signal, shutdown, request, history>>

CronDoneAtOnce ==
  /\ cron = "stopped"
  /\ cron' = "waited"
  /\ wg' = wg - 1
  /\ UNCHANGED <<vars, setup, main, exitCode, cancelled, started, signal, shutdown, request, history>>

CronDone ==
  /\ cron = "stopped"
  /\ \A j \in started \ setup.kicked : jobPc[j] = "over"
  /\ cron' = "waited"
  /\ wg' = wg - 1
  /\ UNCHANGED <<vars, setup, main, exitCode, cancelled, started, signal, shutdown, request, history>>

Serving == request \in {"running", "failed"}

\* srv.Shutdown returns when no handler runs, or after five seconds.
ShutdownDone ==
  /\ shutdown = "shutting" /\ ~Serving
  /\ shutdown' = "done"
  /\ wg' = wg - 1
  /\ UNCHANGED <<vars, setup, main, exitCode, cancelled, started, cron, signal, request, history>>

ShutdownTimesOut ==
  /\ shutdown = "shutting" /\ Serving
  /\ shutdown' = "complaining"
  /\ overdue' = TRUE
  /\ UNCHANGED <<vars, control, started, cron, signal, request, announced>>

ReportOverdue ==
  /\ shutdown = "complaining"
  /\ Announce(Trouble)
  /\ shutdown' = "done"
  /\ wg' = wg - 1
  /\ UNCHANGED <<setup, main, exitCode, cancelled, started, cron, signal, request>>

-----------------------------------------------------------------------------
(* A request to the HTTP server.  Bound: there is one.                      *)

Accept ==
  /\ setup.requests
  /\ main = "serving" /\ shutdown = "waiting" /\ request = "none"
  /\ request' = "running"
  /\ UNCHANGED <<vars, control, started, cron, signal, shutdown, history>>

\* newHandler's ReportInternalError, from the goroutine of the request.
ReportError ==
  /\ request = "running"
  /\ Announce(Trouble)
  /\ request' = "failed"
  /\ UNCHANGED <<control, started, cron, signal, shutdown>>

Answer ==
  /\ request \in {"running", "failed"}
  /\ request' = "answered"
  /\ UNCHANGED <<vars, control, started, cron, signal, shutdown, history>>

-----------------------------------------------------------------------------

LifeInit ==
  /\ Init
  /\ setup \in Setups
  /\ main = "starting"
  /\ exitCode = 0
  /\ cancelled = FALSE
  /\ wg = 0
  /\ started = {}
  /\ cron = "off" /\ signal = "none" /\ shutdown = "none" /\ request = "none"
  /\ announced = {} /\ overdue = FALSE

MainStep ==
  \/ FailToStart \/ ReportStart \/ StartServer \/ StartOneshot
  \/ ServerClosed \/ ServeFails \/ ReportFailure
  \/ AllDone \/ CloseStore \/ Exit

HelperStep ==
  \/ Signal \/ ReportStop \/ ForgetSignals
  \/ BeginShutdown \/ StopCron \/ CronDone
  \/ ShutdownDone \/ ShutdownTimesOut \/ ReportOverdue
  \/ Accept \/ ReportError \/ Answer

\* Nothing moves once the process has ended.
LifeNext ==
  \/ main # "exited" /\ (MainStep \/ HelperStep)
  \/ \E j \in Jobs : Fire(j) \/ RunJob(j) \/ EndJob(j)
  \/ \E a \in Alerters : AlertStep(a) /\ UNCHANGED lifeVars
  \/ WriterStep /\ UNCHANGED lifeVars
  \/ main = "exited" /\ UNCHANGED allVars

\* The Go runtime serves the senders blocked on a channel, and the goroutines blocked
\* on a lock, in order of arrival, hence strong fairness for whoever reports; a probe
\* ends and an alert has a timeout.  Nobody has to send a signal, or a request, or to
\* answer one, and Serve need not fail.
LifeFairness ==
  /\ \A j \in Jobs : SF_allVars((RunJob(j) /\ jobPc[j] # "idle") \/ EndJob(j))
  /\ \A a \in Alerters : SF_allVars(AlertStep(a) /\ UNCHANGED lifeVars)
  /\ WF_allVars(WriterStep /\ UNCHANGED lifeVars)
  /\ SF_allVars(MainStep /\ main' # "failing")
  /\ SF_allVars(ReportStop)
  /\ WF_allVars(StopCron \/ CronDone)
  /\ SF_allVars(BeginShutdown \/ ShutdownDone \/ ShutdownTimesOut \/ ReportOverdue)

LifeSpec == LifeInit /\ [][LifeNext]_allVars /\ LifeFairness

-----------------------------------------------------------------------------

\* Nobody is about to send on the closed writeCh, which would panic: the WaitGroup and
\* cron see to that for the jobs, their alerts and the shutdown.  Not covered are the
\* signal that comes while Serve fails, and a request that outlives Shutdown.
NoSendOnClosed ==
  closed =>
    /\ \A j \in started : jobPc[j] = "over"
    /\ \A a \in Alerters : alertPc[a] = "done"
    /\ cron # "running" /\ shutdown # "complaining"
    /\ signal = "stopping" => exitCode = 1
    /\ Serving => overdue

\* What happened to Ayd itself is in the log as well when the process ends, in its
\* order: a server that ended well has said that it stops, after it said that it started
\* (reportStartServer, reportStopServer, ReportInternalError).
AnnouncementsLogged ==
  main = "exited" =>
    /\ \A event \in announced : \E i \in DOMAIN written : written[i].by = Ayd /\ written[i].rank = event
    /\ setup.mode = "server" /\ exitCode = 0 => Stopping \in announced
    /\ \A i, k \in DOMAIN written :
         written[i].by = Ayd /\ written[i].rank = Began /\ written[k].by = Ayd => i <= k

\* A server that was told to stop ends, and so does a oneshot run, however full the
\* channel is, whatever its jobs report, and whether Serve fails meanwhile or a request
\* is never answered.
Terminates == signal = "stopping" \/ main = "waiting" ~> main = "exited"
===============================================================================
