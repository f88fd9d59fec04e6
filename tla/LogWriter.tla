------------------------------ MODULE LogWriter ------------------------------
(***************************************************************************)
(* The writer goroutine of the store (Store.writer) and the directory it    *)
(* writes to.  It keeps the last log file open for 100 milliseconds, and    *)
(* somebody else may rename or delete the file meanwhile, as logrotate      *)
(* does.  A record is the number of its arrival; what it says is not kept,  *)
(* except the name of the file it goes to.                                  *)
(***************************************************************************)
EXTENDS Integers, Sequences, Functions

CONSTANTS
  Paths,       \* what PathPattern.Build makes of the times of the records
  DiskFails,   \* whether the calls of the file system may fail
  MaxRecords   \* bound: the number of records

ASSUME LogWriterAssumption ==
  /\ DiskFails \in BOOLEAN
  /\ MaxRecords \in Nat

None == 0

VARIABLES
  sent,     \* the file each record goes to, in the order of writeCh
  taken,    \* how many of them the writer has received
  closed,   \* writeCh is closed
  pc,       \* where the writer is in its loop
  f,        \* the open file, or None
  fpath,    \* the name it was opened under
  timer,    \* closeTimer is set
  healthy,  \* what Errors returns to /healthz
  failed,   \* history variable: the records an error was reported for
  entry,    \* the directory: the file of each name, or None
  inodes    \* every file ever created: under what name, and its records

writerVars == <<taken, pc, f, fpath, timer, healthy, failed>>
diskVars == <<entry, inodes>>
vars == <<sent, closed, writerVars, diskVars>>

Path == sent[taken]
OnDisk == UNION {Range(inodes[i].lines) : i \in DOMAIN inodes}

-----------------------------------------------------------------------------
(* The writer.                                                              *)

\* closeFile: the descriptor is gone even if Close fails.
CloseFile(open) ==
  /\ f' = open
  /\ timer' = FALSE
  /\ healthy' \in IF DiskFails THEN {healthy, FALSE} ELSE {healthy}

\* A record is received: the store is healthy until something fails, and a file
\* with another name than the record's is closed.
ReceiveKeepingFile ==
  /\ pc = "waiting" /\ taken < Len(sent)
  /\ taken' = taken + 1
  /\ pc' = IF f = None THEN "opening" ELSE "writing"
  /\ healthy' = TRUE
  /\ UNCHANGED <<sent, closed, f, fpath, timer, failed, diskVars>>

Receive ==
  /\ pc = "waiting" /\ taken < Len(sent)
  /\ taken' = taken + 1
  /\ IF f # None /\ fpath = sent[taken + 1]
     THEN /\ pc' = "writing"
          /\ healthy' = TRUE
          /\ UNCHANGED <<f, timer>>
     ELSE /\ pc' = "opening"
          /\ f' = None
          /\ timer' = FALSE
          /\ healthy' \in IF DiskFails /\ f # None THEN BOOLEAN ELSE {TRUE}
  /\ UNCHANGED <<sent, closed, fpath, failed, diskVars>>

OpenWithoutTimer ==
  /\ pc = "opening"
  /\ fpath' = Path
  /\ IF entry[Path] # None
     THEN /\ f' = entry[Path]
          /\ UNCHANGED diskVars
     ELSE /\ inodes' = Append(inodes, [path |-> Path, lines |-> <<>>])
          /\ entry' = [entry EXCEPT ![Path] = Len(inodes) + 1]
          /\ f' = Len(inodes) + 1
  /\ pc' = "writing"
  /\ UNCHANGED <<sent, closed, taken, timer, healthy, failed>>

\* O_APPEND|O_CREATE, after MkdirAll, whose failure is reported and passed over.
Open ==
  /\ pc = "opening"
  /\ fpath' = Path
  /\ IF entry[Path] # None
     THEN /\ f' = entry[Path]
          /\ UNCHANGED diskVars
     ELSE /\ inodes' = Append(inodes, [path |-> Path, lines |-> <<>>])
          /\ entry' = [entry EXCEPT ![Path] = Len(inodes) + 1]
          /\ f' = Len(inodes) + 1
  /\ timer' = TRUE
  /\ pc' = "writing"
  /\ healthy' \in IF DiskFails THEN {healthy, FALSE} ELSE {healthy}
  /\ UNCHANGED <<sent, closed, taken, failed>>

FailToOpenSilently ==
  /\ pc = "opening" /\ DiskFails
  /\ fpath' = Path
  /\ pc' = "waiting"
  /\ UNCHANGED <<sent, closed, taken, f, timer, healthy, failed, diskVars>>

FailToOpen ==
  /\ pc = "opening" /\ DiskFails
  /\ fpath' = Path
  /\ pc' = "waiting"
  /\ healthy' = FALSE
  /\ failed' = failed \cup {taken}
  /\ UNCHANGED <<sent, closed, taken, f, timer, diskVars>>

\* The file stays open after a failure.
Write ==
  /\ pc = "writing"
  /\ pc' = "waiting"
  /\ \/ /\ inodes' = [inodes EXCEPT ![f].lines = Append(@, taken)]
        /\ UNCHANGED <<healthy, failed>>
     \/ /\ DiskFails
        /\ healthy' = FALSE
        /\ failed' = failed \cup {taken}
        /\ UNCHANGED inodes
  /\ UNCHANGED <<sent, closed, taken, f, fpath, timer, entry>>

\* select also waits for the timer.
CloseOnTimer ==
  /\ pc = "waiting" /\ timer
  /\ CloseFile(None)
  /\ UNCHANGED <<sent, closed, taken, pc, fpath, failed, diskVars>>

Stop ==
  /\ pc = "waiting" /\ closed /\ taken = Len(sent)
  /\ pc' = "stopped"
  /\ IF f = None THEN UNCHANGED <<f, timer, healthy>> ELSE CloseFile(None)
  /\ UNCHANGED <<sent, closed, taken, fpath, failed, diskVars>>

-----------------------------------------------------------------------------
(* The others.                                                              *)

Send(p) ==
  /\ ~closed /\ Len(sent) < MaxRecords
  /\ sent' = Append(sent, p)
  /\ UNCHANGED <<closed, writerVars, diskVars>>

Close ==
  /\ ~closed
  /\ closed' = TRUE
  /\ UNCHANGED <<sent, writerVars, diskVars>>

\* The log file of a name is moved away or deleted.
Rotate(p) ==
  /\ entry[p] # None
  /\ entry' = [entry EXCEPT ![p] = None]
  /\ UNCHANGED <<sent, closed, writerVars, inodes>>

Terminated == pc = "stopped" /\ UNCHANGED vars

Init ==
  /\ sent = <<>>
  /\ taken = 0
  /\ closed = FALSE
  /\ pc = "waiting"
  /\ f = None
  /\ fpath \in Paths
  /\ timer = FALSE
  /\ healthy = TRUE
  /\ failed = {}
  /\ entry = [p \in Paths |-> None]
  /\ inodes = <<>>

Next ==
  \/ Receive \/ Open \/ FailToOpen \/ Write \/ CloseOnTimer \/ Stop
  \/ \E p \in Paths : Send(p) \/ Rotate(p)
  \/ Close
  \/ Terminated

\* The writer's calls return, and a timer that has fired is chosen by select sooner
\* or later, however many records there are to receive instead: strong fairness.
Fairness ==
  /\ WF_vars(Receive) /\ WF_vars(Open \/ FailToOpen) /\ WF_vars(Write)
  /\ SF_vars(CloseOnTimer) /\ WF_vars(Stop)

Spec == Init /\ [][Next]_vars /\ Fairness

-----------------------------------------------------------------------------

\* No record goes to the file of another day: a file holds the records whose time
\* makes the name it was created under, in the order they were reported, each once
\* (Store.writer: "fpath != p").
FiledByName ==
  \A i \in DOMAIN inodes :
    LET lines == inodes[i].lines
    IN  /\ \A k \in DOMAIN lines : sent[lines[k]] = inodes[i].path
        /\ \A k, m \in DOMAIN lines : k < m => lines[k] < lines[m]

\* No record is lost in silence: what the writer is done with is on the disk, or an
\* error has been reported; and between two records /healthz is never healthy when the
\* last one is not on the disk (Store.writer resets the health first and lets the errors
\* take it back).
WrittenOrReported ==
  LET done == IF pc \in {"opening", "writing"} THEN taken - 1 ELSE taken
  IN  /\ 1 .. done = OnDisk \cup failed
      /\ pc = "waiting" /\ healthy /\ taken > 0 => taken \in OnDisk

\* A log file that was moved or deleted is let go: the handle "is used for 100
\* milliseconds", "short enough to avoid causing trouble when log rotation or file
\* deletion happened", even if records keep coming.
StaleHandleReleased ==
  (f # None /\ entry[fpath] # f) ~> (f = None \/ entry[fpath] = f)
===============================================================================
