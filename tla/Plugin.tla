-------------------------------- MODULE Plugin --------------------------------
(***************************************************************************)
(* PluginScheme.execute of internal/scheme/plugin.go: one goroutine runs    *)
(* the command and leaves its result in variables; the caller scans what    *)
(* the command prints through a pipe, reports every record in it, and then  *)
(* reads the variables.  The end of the pipe orders the two, unless the     *)
(* scanner gives up before it, on a line that is longer than its buffer.    *)
(***************************************************************************)
EXTENDS Sequences, Naturals

CONSTANT MaxLines  \* bound: the number of lines a command prints

VARIABLES
  ctx,      \* the context: "open", "canceled" or "expired"
  command,  \* the goroutine's: "none", "running", "ended", then "closed" its pipe
  err,      \* what the goroutine leaves in the variables of execute
  status,
  printed,  \* the number of lines printed
  scanner,  \* where the caller is
  count,    \* the number of records in the lines
  invalid,  \* whether invalidLines holds any
  reports,  \* the status of what was reported
  cut       \* history variable: the scanner stopped before the end of the pipe

vars == <<ctx, command, err, status, printed, scanner, count, invalid, reports, cut>>
commandVars == <<command, err, status>>
scanVars == <<printed, count, invalid, cut>>

\* The zero value of api.Status, which status has until the goroutine assigns it.
ZeroStatus == "UNKNOWN"

-----------------------------------------------------------------------------

\* findPlugin: the longest of the names a scheme may have, and no other once it is
\* there and cannot be executed.  At run time it may be gone.
NotFound ==
  /\ scanner = "finding"
  /\ reports' = Append(reports, "UNKNOWN")
  /\ scanner' = "over"
  /\ UNCHANGED <<ctx, commandVars, scanVars>>

Start ==
  /\ scanner = "finding"
  /\ scanner' = "scanning"
  /\ command' = "running"
  /\ UNCHANGED <<ctx, err, status, scanVars, reports>>

\* A write to an io.Pipe returns when the scanner has read it.
ReadLine ==
  /\ scanner = "scanning" /\ command = "running" /\ printed < MaxLines
  /\ printed' = printed + 1
  /\ UNCHANGED <<ctx, commandVars, cut>>

\* A record, whose time is made to be in the last hour.
ReadRecord ==
  /\ ReadLine
  /\ count' = count + 1
  /\ \E s \in {"HEALTHY", "FAILURE"} : reports' = Append(reports, s)
  /\ UNCHANGED <<scanner, invalid>>

ReadInvalid ==
  /\ ReadLine
  /\ invalid' = TRUE
  /\ UNCHANGED <<scanner, count, reports>>

ReadBlank ==
  /\ ReadLine
  /\ UNCHANGED <<scanner, count, invalid, reports>>

\* The line that is cut off by the end of the command is scanned as the others are.
EndOfOutput ==
  /\ scanner = "scanning" /\ command = "closed"
  /\ scanner' = "scanned"
  /\ UNCHANGED <<ctx, commandVars, scanVars, reports>>

\* bufio.ErrTooLong, which nobody asks for.
LineTooLong ==
  /\ scanner = "scanning" /\ command = "running"
  /\ scanner' = "scanned"
  /\ cut' = TRUE
  /\ UNCHANGED <<ctx, commandVars, printed, count, invalid, reports>>

\* runExternalCommand returns, maybe because the context is done.
EndCommand ==
  /\ command = "running"
  /\ \/ err' = "nil" /\ status' = "HEALTHY"
     \/ err' = "failed" /\ status' \in {"FAILURE", "UNKNOWN"}
  /\ command' = "ended"
  /\ UNCHANGED <<ctx, scanVars, scanner, reports>>

ClosePipe ==
  /\ command = "ended"
  /\ command' = "closed"
  /\ UNCHANGED <<ctx, err, status, scanVars, scanner, reports>>

TellInvalid ==
  /\ scanner = "scanned"
  /\ reports' = IF invalid THEN Append(reports, "UNKNOWN") ELSE reports
  /\ scanner' = "concluding"
  /\ UNCHANGED <<ctx, commandVars, scanVars>>

TimeoutOr(s) ==
  CASE ctx = "canceled" -> "ABORTED"
    [] ctx = "expired" -> "FAILURE"
    [] OTHER -> s

ConcludeOnErrorOnly ==
  /\ scanner = "concluding"
  /\ reports' = IF err # "nil" THEN Append(reports, TimeoutOr(status)) ELSE reports
  /\ scanner' = "over"
  /\ UNCHANGED <<ctx, commandVars, scanVars>>

\* What is read may be what the variables held before the goroutine assigned them,
\* unless the end of the pipe was seen.
Conclude ==
  /\ scanner = "concluding"
  /\ \E e \in {err} \cup (IF cut THEN {"nil"} ELSE {}),
        s \in {status} \cup (IF cut THEN {ZeroStatus} ELSE {}) :
       reports' = IF e # "nil" \/ (~invalid /\ count = 0)
                  THEN Append(reports, TimeoutOr(s)) ELSE reports
  /\ scanner' = "over"
  /\ UNCHANGED <<ctx, commandVars, scanVars>>

\* The hour is over, or the server stops.
EndContext ==
  /\ ctx = "open" /\ scanner # "over"
  /\ ctx' \in {"canceled", "expired"}
  /\ UNCHANGED <<commandVars, scanVars, scanner, reports>>

Init ==
  /\ ctx = "open"
  /\ command = "none" /\ err = "nil" /\ status = ZeroStatus
  /\ printed = 0 /\ count = 0 /\ invalid = FALSE /\ cut = FALSE
  /\ scanner = "finding"
  /\ reports = <<>>

Next ==
  \/ NotFound \/ Start
  \/ ReadRecord \/ ReadInvalid \/ ReadBlank
  \/ EndOfOutput \/ LineTooLong
  \/ EndCommand \/ ClosePipe
  \/ TellInvalid \/ Conclude
  \/ EndContext

Spec == Init /\ [][Next]_vars

-----------------------------------------------------------------------------

Told == {reports[i] : i \in DOMAIN reports}

\* A run of a plugin is never silent, and when its command failed, was killed or could
\* not be started, the last word is not HEALTHY, whatever records it had printed before.
\* Only a line too long for the scanner hides it.
FailureIsTold ==
  scanner = "over" =>
    /\ Told # {}
    /\ err # "nil" /\ ~cut => reports[Len(reports)] \in {"FAILURE", "UNKNOWN", "ABORTED"}
===============================================================================
