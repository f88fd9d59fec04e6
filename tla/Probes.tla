-------------------------------- MODULE Probes --------------------------------
(***************************************************************************)
(* One use of a scheme (internal/scheme): a probe, an alert, or the opening *)
(* of a source list, from its call to its return.  The uses share their     *)
(* connections' code: dialSSH, ftpConnectAndLogin, runExternalCommand,      *)
(* probeFS and alertFS.  The context may be done between any two steps.  A  *)
(* step is one call that may block or fail; the call's outcome is the       *)
(* environment's choice.  Plugins are the subject of module Plugin.         *)
(***************************************************************************)
EXTENDS Sequences, Naturals

Status == {"HEALTHY", "DEGRADE", "FAILURE", "UNKNOWN", "ABORTED"}

\* NewProberFromURL, NewAlerterFromURL and openSource: which scheme can be used for
\* what.  A source is named by the scheme it is read with.
ProbeSchemes ==
  {"http", "ftp", "ping", "tcp", "ssh", "sftp", "dns", "file", "exec", "exec+ssh", "dummy"}
AlertSchemes == {"http", "ftp", "sftp", "file", "exec", "exec+ssh", "dummy"}
SourceSchemes == {"http", "ftp", "sftp", "file", "exec", "exec+ssh"}

Jobs ==
  [use : {"probe"}, scheme : ProbeSchemes]
    \cup [use : {"alert"}, scheme : AlertSchemes]
    \cup [use : {"source"}, scheme : SourceSchemes]

VARIABLES
  job,      \* what is under way
  ctx,      \* the context: "open", "canceled", or "expired" once the deadline has passed
  pc,       \* how far it is
  status,   \* the status of the record, or whether a list was opened (HEALTHY)
  open,     \* the connections and files that are open
  defers,   \* those that the deferred calls are going to close
  reports,  \* what was reported, each with the state of the context at that time
  trouble   \* history variable: a call has failed, and no output said otherwise

vars == <<job, ctx, pc, status, open, defers, reports, trouble>>

Using(schemes) == job.scheme \in schemes
For(uses) == job.use \in uses

\* The jobs with a WithTimeout of their own.
HasDeadline ==
  \/ For({"probe"}) /\ ~Using({"file", "dummy"})
  \/ For({"alert"}) /\ ~Using({"file", "dummy", "http"})
  \/ For({"source"})

\* Where the first call is made.
FirstStep ==
  CASE Using({"ssh", "sftp", "exec+ssh"}) -> "configuring"
    [] Using({"http"}) -> "requesting"
    [] Using({"ftp"}) -> "dialing ftp"
    [] Using({"tcp"}) -> "connecting"
    [] Using({"dns"}) -> "resolving"
    [] Using({"ping"}) -> "naming"
    [] Using({"exec"}) -> "executing"
    [] Using({"dummy"}) -> "waiting"
    [] Using({"file"}) -> "at file"

-----------------------------------------------------------------------------
(* What a call leads to.                                                    *)

Proceed(step) ==
  /\ pc' = step
  /\ UNCHANGED <<job, ctx, status, reports, trouble>>

\* All calls are made: the record is ready.
Conclude(s, failed) ==
  /\ pc' = "reporting"
  /\ status' = s
  /\ trouble' = failed
  /\ UNCHANGED <<job, ctx, reports>>

Succeed == Conclude("HEALTHY", FALSE)
Fail(s) == Conclude(s, TRUE)

\* A record about the preparations, which does not look at the context.
GiveUp ==
  /\ pc' = "unprepared"
  /\ status' = "UNKNOWN"
  /\ trouble' = TRUE
  /\ UNCHANGED <<job, ctx, reports>>

\* The output of a command may tell the status (parseExecMessage).
ConcludeFromOutput(s, failed) ==
  \/ Conclude(s, failed)
  \/ \E told \in Status : Conclude(told, FALSE)

Keep == UNCHANGED <<open, defers>>
Opened(x) == open' = open \cup {x} /\ UNCHANGED defers
Closed(x) == open' = open \ {x} /\ UNCHANGED defers
Defer(x) == defers' = defers \cup {x} /\ UNCHANGED open

-----------------------------------------------------------------------------
(* ssh, sftp and exec+ssh.                                                  *)

\* newSSHConfig: the identity file may have gone since the start.
ReadSSHConfig ==
  /\ pc = "configuring"
  /\ \/ Proceed("dialing ssh")
     \/ Using({"ssh", "exec+ssh"}) /\ ~For({"source"}) /\ GiveUp
     \/ (Using({"sftp"}) \/ For({"source"})) /\ Fail("UNKNOWN")
  /\ Keep

\* What the callers of dialSSH make of its error.
FailToDialSSH(s) ==
  IF Using({"exec+ssh"}) /\ ~For({"source"}) THEN GiveUp ELSE Fail(s)

DialSSH ==
  /\ pc = "dialing ssh"
  /\ \/ Proceed("shaking hands") /\ Opened("ssh")
     \/ FailToDialSSH("UNKNOWN") /\ Keep
     \/ FailToDialSSH("FAILURE") /\ Keep

\* ssh.NewClientConn knows neither the context nor, without ssh.Dial, the timeout.
Handshake ==
  /\ pc = "shaking hands"
  /\ \/ Proceed("connected") /\ IF Using({"exec+ssh"}) THEN Defer("ssh") ELSE Keep
     \/ FailToDialSSH("FAILURE") /\ Closed("ssh")

\* That is all SSHProbe wants.
ConcludeSSH ==
  /\ pc = "connected" /\ Using({"ssh"})
  /\ Succeed /\ Closed("ssh")

\* Only a complete sftpFS is going to be closed, and openSFTPSource has none.
StartSFTP ==
  /\ pc = "connected" /\ Using({"sftp"})
  /\ \/ /\ Proceed("at file")
        /\ open' = open \cup {"sftp"}
        /\ defers' = IF For({"source"}) THEN {} ELSE {"sftp", "ssh"}
     \/ Fail("FAILURE") /\ Keep

\* sshConnection.Exec: no session, no such command, another exit code, a lost
\* connection; the context only sends SIGINT.
ExecOverSSH ==
  /\ pc = "connected" /\ Using({"exec+ssh"}) /\ ~For({"source"})
  /\ \/ ConcludeFromOutput("HEALTHY", FALSE)
     \/ \E s \in {"UNKNOWN", "FAILURE"} : ConcludeFromOutput(s, TRUE)
  /\ Keep

\* openSSHSource does not look at the error of Exec.
OpenSSHSource ==
  /\ pc = "connected" /\ Using({"exec+ssh"}) /\ For({"source"})
  /\ \E failed \in BOOLEAN : Conclude("HEALTHY", failed)
  /\ Keep

-----------------------------------------------------------------------------
(* Files, here and on the other end of sftp.                                *)

\* probeFS: there, missing or forbidden, or unclear.
ProbeFS ==
  /\ pc = "at file" /\ For({"probe"})
  /\ Succeed \/ Fail("FAILURE") \/ Fail("UNKNOWN")
  /\ Keep

\* alertFS: the file is closed however far it gets.
AlertFS ==
  /\ pc = "at file" /\ For({"alert"})
  /\ Succeed \/ Fail("FAILURE")
  /\ Keep

\* openFileSource reads the whole file; openSFTPSource hands over an open one.
OpenFile ==
  /\ pc = "at file" /\ For({"source"})
  /\ \/ Succeed /\ IF Using({"sftp"}) THEN Opened("list") ELSE Keep
     \/ Fail("FAILURE") /\ Keep

-----------------------------------------------------------------------------
(* The other schemes.                                                       *)

\* httpClient.Do and responseToRecord.
Request ==
  /\ pc = "requesting" /\ ~For({"source"})
  /\ Succeed \/ Fail("FAILURE") \/ Fail("UNKNOWN")
  /\ Keep

\* openHTTPSource leaves the body open, whatever the status code.
OpenHTTPSource ==
  /\ pc = "requesting" /\ For({"source"})
  /\ \/ Succeed /\ Opened("list")
     \/ Fail("FAILURE") /\ (Opened("list") \/ Keep)

\* ftp.Dial, whose connection gets a deadline as soon as the context is done.
DialFTP ==
  /\ pc = "dialing ftp"
  /\ \/ Proceed("logging in") /\ Opened("ftp")
     \/ Fail("UNKNOWN") /\ Keep
     \/ Fail("FAILURE") /\ Keep

LoginKeepingConnection ==
  /\ pc = "logging in"
  /\ \/ Proceed("logged in") /\ Defer("ftp")
     \/ Fail("FAILURE") /\ Keep

Login ==
  /\ pc = "logging in"
  /\ \/ Proceed("logged in") /\ Defer("ftp")
     \/ Fail("FAILURE") /\ Closed("ftp")

\* FTPScheme.Probe: an empty list is a failure.
ListFTP ==
  /\ pc = "logged in" /\ For({"probe"})
  /\ Succeed \/ Fail("FAILURE")
  /\ Keep

\* FTPScheme.Alert.
AppendFTP ==
  /\ pc = "logged in" /\ For({"alert"})
  /\ Succeed \/ Fail("FAILURE")
  /\ Keep

\* openFTPSource.
RetrFTP ==
  /\ pc = "logged in" /\ For({"source"})
  /\ \/ Succeed /\ Opened("list")
     \/ Fail("FAILURE") /\ Keep

ConnectTCP ==
  /\ pc = "connecting"
  /\ Succeed \/ Fail("UNKNOWN") \/ Fail("FAILURE")
  /\ Keep

Resolve ==
  /\ pc = "resolving" /\ Using({"dns"})
  /\ Succeed \/ Fail("FAILURE")
  /\ Keep

\* net.ResolveIPAddr, which takes no context.
ResolveIPAddr ==
  /\ pc = "naming" /\ Using({"ping"})
  /\ Proceed("pinging") \/ GiveUp
  /\ Keep

\* The shared pinger, then the packets; a ping that is out of time counts those it has got.
Ping ==
  /\ pc = "pinging" /\ Using({"ping"})
  /\ GiveUp \/ Succeed \/ Fail("FAILURE") \/ Fail("DEGRADE")
  /\ Keep

ExecuteIgnoringExit ==
  /\ pc = "executing" /\ ~For({"source"})
  /\ \E failed \in BOOLEAN : ConcludeFromOutput("HEALTHY", failed)
  /\ Keep

\* runExternalCommand: a command that cannot be started is UNKNOWN.
Execute ==
  /\ pc = "executing" /\ ~For({"source"})
  /\ \/ ConcludeFromOutput("HEALTHY", FALSE)
     \/ \E s \in {"UNKNOWN", "FAILURE"} : ConcludeFromOutput(s, TRUE)
  /\ Keep

\* openExecSource: any error, or a line on stderr, is a failure.
OpenExecSource ==
  /\ pc = "executing" /\ For({"source"})
  /\ Succeed \/ Fail("FAILURE")
  /\ Keep

\* The dummy waits for its latency or the context.
WaitLatency ==
  /\ pc = "waiting"
  /\ \E s \in Status : Conclude(s, s # "HEALTHY")
  /\ Keep

-----------------------------------------------------------------------------
(* The report and the return.                                               *)

TimeoutOrDeadline(s) == IF ctx = "expired" THEN "FAILURE" ELSE s

\* timeoutOr.
TimeoutOr(s) ==
  CASE ctx = "canceled" -> "ABORTED"
    [] ctx = "expired" -> "FAILURE"
    [] OTHER -> s

\* pingResultToRecord treats the end of the server only.
FinalStatus(s) ==
  IF Using({"ping"}) /\ ctx = "expired" THEN s ELSE TimeoutOr(s)

\* The record is reported, then the deferred calls are made.
Report ==
  /\ pc \in {"reporting", "unprepared"} /\ ~For({"source"})
  /\ LET s == IF pc = "unprepared" THEN status ELSE FinalStatus(status)
     IN  reports' = Append(reports, [status |-> s, ctx |-> ctx])
  /\ pc' = "over"
  /\ open' = open \ defers
  /\ UNCHANGED <<job, ctx, status, defers, trouble>>

\* openSource returns.  loadSource closes a list it has read, and its context the rest
\* of a response.
HandOver ==
  /\ pc = "reporting" /\ For({"source"})
  /\ pc' = "over"
  /\ open' = (open \ defers) \ {"list"}
  /\ UNCHANGED <<job, ctx, status, defers, reports, trouble>>

\* The deadline of the job passes.
Expire ==
  /\ ctx = "open" /\ pc # "over" /\ HasDeadline
  /\ ctx' = "expired"
  /\ UNCHANGED <<job, pc, status, open, defers, reports, trouble>>

\* The server stops.  The context of alerts is that of Run, which ends with the process.
Cancel ==
  /\ ctx = "open" /\ pc # "over" /\ ~For({"alert"})
  /\ ctx' = "canceled"
  /\ UNCHANGED <<job, pc, status, open, defers, reports, trouble>>

Init ==
  /\ job \in Jobs
  /\ ctx = "open"
  /\ pc = FirstStep
  /\ status = "UNKNOWN"
  /\ open = {} /\ defers = {}
  /\ reports = <<>>
  /\ trouble = FALSE

Call ==
  \/ ReadSSHConfig \/ DialSSH \/ Handshake \/ ConcludeSSH
  \/ StartSFTP \/ ExecOverSSH \/ OpenSSHSource
  \/ ProbeFS \/ AlertFS \/ OpenFile
  \/ Request \/ OpenHTTPSource
  \/ DialFTP \/ Login \/ ListFTP \/ AppendFTP \/ RetrFTP
  \/ ConnectTCP \/ Resolve \/ ResolveIPAddr \/ Ping
  \/ Execute \/ OpenExecSource \/ WaitLatency

Over == pc = "over" /\ UNCHANGED vars

Next == Call \/ Report \/ HandOver \/ Expire \/ Cancel \/ Over

\* The calls that return once the context is done: a dialer has it, an FTP connection
\* is given a deadline.
InterruptibleWithoutDeadline == pc \in {"dialing ssh", "requesting", "connecting", "resolving", "pinging"}

Interruptible ==
  pc \in {"dialing ssh", "requesting", "connecting", "resolving", "pinging",
          "dialing ftp", "logging in", "logged in"}

\* The calls that need nobody else, or that give up by themselves: the resolver of the
\* system has timeouts of its own.
Local == pc \in {"configuring", "waiting", "naming"} \/ (pc = "at file" /\ Using({"file"}))

\* The peer may stay silent: its answer is owed only to a call that a context that is
\* done interrupts.  Deadlines pass.
Fairness ==
  /\ WF_vars(Report) /\ WF_vars(HandOver)
  /\ WF_vars(Expire)
  /\ WF_vars(Local /\ Call)
  /\ WF_vars(Interruptible /\ ctx # "open" /\ Call)

Spec == Init /\ [][Next]_vars /\ Fairness

-----------------------------------------------------------------------------

\* Nothing is reported as HEALTHY, and no list counts as read, when a call has failed
\* on the way and the output of the command did not say otherwise.  The one exception
\* is a list made by a command on another host, whose exit code nobody looks at.
HealthyIsTrue ==
  pc = "over" /\ trouble /\ ~(For({"source"}) /\ Using({"exec+ssh"})) =>
    /\ \A i \in DOMAIN reports : reports[i].status # "HEALTHY"
    /\ For({"source"}) => status # "HEALTHY"

\* "ABORTED means Ayd terminated during status checking": what is reported after the
\* server began to stop is ABORTED, which starts no incident and fires no alert, except
\* for what failed in the preparations (of ssh:, exec+ssh: and ping:).
StopIsNoIncident ==
  \A i \in DOMAIN reports :
    reports[i].ctx = "canceled" =>
      \/ reports[i].status = "ABORTED"
      \/ Using({"ssh", "exec+ssh", "ping"}) /\ reports[i].status = "UNKNOWN"

\* Whatever fails on the way, no connection stays open.  The exceptions are those of
\* sftp: one on which no sftp could be started, and each that a list was read over.
AllClosed ==
  pc = "over" =>
    open \subseteq (IF ~Using({"sftp"}) THEN {}
                    ELSE IF For({"source"}) THEN {"ssh", "sftp"} ELSE {"ssh"})

\* Everything with a deadline is over some day, with one report or a list, however
\* silent its peer is, but not what waits for a command or in the hands of ssh.
EndsInTime ==
  HasDeadline /\ ~Using({"exec", "ssh", "sftp", "exec+ssh"}) ~>
    pc = "over" /\ Len(reports) = IF For({"source"}) THEN 0 ELSE 1
===============================================================================
