----------------------------- MODULE StoreRestart -----------------------------
(***************************************************************************)
(* A store that stops and starts again with the log it wrote: what         *)
(* Store.Restore makes of the log files.  The name of a log file is made   *)
(* from the time of the record, so a record goes to the file of its day,   *)
(* whenever it arrives.  Restore reads the newest file first and each file *)
(* from its oldest record on, and gives every record to the function that  *)
(* the reports go through, without its callbacks.                          *)
(***************************************************************************)
EXTENDS Store, Functions

CONSTANTS
  FileOf,          \* the log file of each instant: PathPattern.Build
  RestoreRecords,  \* LogRestoreBytes, counted in records
  MaxLog           \* bound: the number of records in a log file

ASSUME RestartAssumption ==
  /\ FileOf \in [1 .. MaxTime -> Nat]
  /\ RestoreRecords \in Nat
  /\ MaxLog \in Nat

VARIABLES
  logs,    \* the log files: what they hold, oldest record first
  mode,    \* "up", "down" or "restoring"
  replay,  \* what Restore has still to read
  before   \* history variable: what the store showed when it stopped

restartVars == <<logs, mode, replay, before>>
allVars == <<vars, restartVars>>

Files == {FileOf[t] : t \in DOMAIN FileOf}
LastRecords(s, n) == IF Len(s) > n THEN SubSeq(s, Len(s) - n + 1, Len(s)) ELSE s

-----------------------------------------------------------------------------

OldestFirst[n \in 0 .. Cardinality(Files), left \in Int] ==
  IF n = Cardinality(Files) \/ left < 0 THEN <<>>
  ELSE LET f == CHOOSE f \in Files : Cardinality({g \in Files : g < f}) = n
       IN  LastRecords(logs[f], left) \o OldestFirst[n + 1, left - Len(logs[f])]
ReplayOldestFirst == OldestFirst[0, RestoreRecords]

\* Restore's loop over the files, the n newest ones being done: a file longer than
\* what is left of the limit is read from the middle, and is the last.
NewestFirst[n \in 0 .. Cardinality(Files), left \in Int] ==
  IF n = Cardinality(Files) \/ left < 0 THEN <<>>
  ELSE LET f == CHOOSE f \in Files : Cardinality({g \in Files : g > f}) = n
       IN  LastRecords(logs[f], left) \o NewestFirst[n + 1, left - Len(logs[f])]

ReplayOrder == NewestFirst[0, RestoreRecords]

\* What the pages show: the current incidents and the history of each target.
Shown ==
  [incidents |-> {[target |-> t, status |-> incidents[currentIncidents[t]].status,
                   message |-> incidents[currentIncidents[t]].message,
                   startsAt |-> incidents[currentIncidents[t]].startsAt] :
                    t \in {u \in Targets : currentIncidents[u] # None}},
   records |-> records]

\* A report, and the writer appends the record to its file.
ReportAndLog(source, r) ==
  /\ mode = "up"
  /\ Len(logs[FileOf[r.time]]) < MaxLog
  /\ Report(source, r)
  /\ logs' = [logs EXCEPT ![FileOf[r.time]] = Append(@, r)]
  /\ UNCHANGED <<mode, replay, before>>

\* Store.Close has drained the channel: the log is complete.
Stop ==
  /\ mode = "up"
  /\ mode' = "down"
  /\ before' = Shown
  /\ UNCHANGED <<vars, logs, replay>>

\* A new process: New has made an empty store, and Restore begins.
Start ==
  /\ mode = "down"
  /\ mode' = "restoring"
  /\ targets' = {}
  /\ records' = [t \in Targets |-> <<>>]
  /\ sources' = [t \in Targets |-> {}]
  /\ incidents' = <<>>
  /\ currentIncidents' = [t \in Targets |-> None]
  /\ incidentHistory' = <<>>
  /\ incidentCount' = 0
  /\ calls' = <<>>
  /\ replay' = ReplayOrder
  /\ UNCHANGED <<logs, before>>

RestoreRecordUnsorted ==
  /\ mode = "restoring" /\ replay # <<>>
  /\ LET r == Head(replay)
     IN  /\ SetIncidentIfNeed(r, FALSE)
         /\ targets' = targets \cup {r.target}
         /\ records' = [records EXCEPT ![r.target] = DropOldest(Append(@, r), ProbeHistoryLen)]
         /\ sources' = [sources EXCEPT ![r.target] = @ \cup {r.target}]
  /\ replay' = Tail(replay)
  /\ UNCHANGED <<logs, mode, before>>

RestoreRecordWithoutIncident ==
  /\ mode = "restoring" /\ replay # <<>>
  /\ AppendRecord(Head(replay).target, Head(replay))
  /\ replay' = Tail(replay)
  /\ UNCHANGED <<logs, mode, before, incidentVars, calls>>

\* One line of a log file.  The target is its own source until the end of Restore.
RestoreRecord ==
  /\ mode = "restoring" /\ replay # <<>>
  /\ SetIncidentIfNeed(Head(replay), FALSE)
  /\ AppendRecord(Head(replay).target, Head(replay))
  /\ replay' = Tail(replay)
  /\ UNCHANGED <<logs, mode, before>>

\* Every target waits for a source to claim it.
FinishRestore ==
  /\ mode = "restoring" /\ replay = <<>>
  /\ mode' = "up"
  /\ sources' = [t \in Targets |-> {}]
  /\ calls' = <<>>
  /\ UNCHANGED <<targets, records, incidentVars, logs, replay, before>>

RestartInit ==
  /\ Init
  /\ logs = [f \in Files |-> <<>>]
  /\ mode = "up"
  /\ replay = <<>>
  /\ before = Shown

RestartNext ==
  \/ \E source \in Sources, t \in Targets, time \in 1 .. MaxTime, s \in ReportedStatus, m \in Messages :
       LET r == [target |-> t, time |-> time, status |-> s, message |-> m]
       IN  Arrives(r) /\ ReportAndLog(source, r)
  \/ Stop
  \/ Start
  \/ RestoreRecord
  \/ FinishRestore

RestartSpec == RestartInit /\ [][RestartNext]_allVars

-----------------------------------------------------------------------------

Restored == mode = "restoring" /\ mode' = "up"

LoggedRecords == FoldFunctionOnSet(LAMBDA log, n : Len(log) + n, 0, logs, Files)
FitsLimit == LoggedRecords <= RestoreRecords
FileSorted(f) == \A i, j \in 1 .. Len(logs[f]) : i < j => logs[f][i].time <= logs[f][j].time
OneFileOnly == \E f \in Files : \A g \in Files \ {f} : logs[g] = <<>>

\* A restart does not change the history of any target while the log fits
\* LogRestoreBytes: whatever the order the files are read in, and however late their
\* records were, Restore and probeHistoryMap.Append end up with the same newest
\* records in the same order.
RestoresHistory == [][Restored /\ FitsLimit => records' = before.records]_allVars

\* A log that is longer than LogRestoreBytes is restored as far as its newest records
\* reach: each target gets the end of its history, and somebody gets something
\* (Store.Restore and restoreOneFile: the newest file first, from its middle if need
\* be, until the limit).  A late record is newer in the file than it says: the files
\* of this property have none.
RestoresNewest ==
  [][Restored /\ (\A f \in Files : FileSorted(f)) =>
       /\ \A t \in Targets : records'[t] = LastRecords(before.records[t], Len(records'[t]))
       /\ (\E t \in Targets : before.records[t] # <<>>)
            => \E t \in Targets : records'[t] # <<>>]_allVars

\* A restart changes no current incident: a target is shown with the trouble it had,
\* since the time it had it.  ("If you use `-f -` option, Ayd will not write any log
\* file [...] Ayd can not restore its last status when it is restarted.")
RestoresStatus == [][Restored => Shown'.incidents = before.incidents]_allVars

\* The same for a store whose log is one file, as with a name that has no date in it:
\* read in the order they were written in, late records included, the records lead
\* setIncidentIfNeed to the same current incidents.
RestoresStatusOfOneFile ==
  [][Restored /\ OneFileOnly /\ FitsLimit => Shown'.incidents = before.incidents]_allVars
=============================================================================
