------------------------------ MODULE Reporting ------------------------------
(***************************************************************************)
(* The goroutines around the store: the jobs that report records, the      *)
(* alerts a change of status fires, the writer that appends records to the *)
(* log, and Close.  They share writeCh, a channel of 32 records, and       *)
(* historyLock, which Report holds while its alerts run.  What the lock    *)
(* protects is the subject of module Store; here a record only may or may  *)
(* not be a change of status.  Module Lifecycle starts and stops all this. *)
(***************************************************************************)
EXTENDS Integers, Sequences, FiniteSets, Functions

CONSTANTS
  Jobs,          \* the goroutines that run probes
  Alerters,      \* the alerts of the AlerterSet
  AlertSchemes,  \* the target schemes alerts report, before AlertReporter
  QueueLen       \* the capacity of writeCh

None == "none"
Ayd == "ayd"  \* the reporter of what happens to Ayd itself

ASSUME ReportingAssumption ==
  /\ QueueLen \in Nat \ {0}
  /\ IsFiniteSet(Jobs) /\ Jobs \cap Alerters = {}
  /\ None \notin Jobs /\ Ayd \notin Jobs \cup Alerters
  /\ AlertSchemes \subseteq {"probe", "alert", "alert-sub", "ayd"}

VARIABLES
  queue,     \* the records in writeCh
  closed,    \* writeCh is closed
  written,   \* the records of the log, oldest first
  stopped,   \* the writer has returned
  lock,      \* the job that holds historyLock, or None
  applied,   \* the records of probes the history got, oldest first
  jobPc,     \* where each job is: in Report, between two reports, or over
  reports,   \* how many records each job began to report
  alertPc    \* where each goroutine of AlerterSet.Alert is

channelVars == <<queue, closed>>
writerVars == <<written, stopped>>
historyVars == <<lock, applied>>
jobVars == <<jobPc, reports>>
vars == <<channelVars, writerVars, historyVars, jobVars, alertPc>>

-----------------------------------------------------------------------------
(* Records: who reports them, which scheme their target has, and their rank. *)

Current(j) == [by |-> j, scheme |-> "probe", rank |-> reports[j]]

\* AlertReporter.Report.  SplitScheme cuts "alert-sub" after "alert".
PrefixNever(scheme) == scheme
Prefix(scheme) == IF scheme \notin {"alert", "alert-sub", "ayd"} THEN "alert" ELSE scheme

\* Store.Report compares the whole scheme.
IsRecorded(scheme) == scheme \notin {"alert", "ayd"}

\* A send on writeCh, which blocks while the channel is full.
Send(r) ==
  /\ ~closed
  /\ Len(queue) < QueueLen
  /\ queue' = Append(queue, r)
  /\ UNCHANGED closed

-----------------------------------------------------------------------------
(* Store.Report, called by a job.                                           *)

StartReport(j) ==
  /\ jobPc[j] = "idle"
  /\ reports' = [reports EXCEPT ![j] = @ + 1]
  /\ jobPc' = [jobPc EXCEPT ![j] = "sending"]
  /\ UNCHANGED <<channelVars, writerVars, historyVars, alertPc>>

SendRecord(j) ==
  /\ jobPc[j] = "sending"
  /\ Send(Current(j))
  /\ jobPc' = [jobPc EXCEPT ![j] = "locking"]
  /\ UNCHANGED <<writerVars, historyVars, reports, alertPc>>

\* The lock is taken, and the record either fires no alert...
ApplyQuietly(j) ==
  /\ jobPc[j] = "locking"
  /\ lock = None
  /\ applied' = Append(applied, Current(j))
  /\ jobPc' = [jobPc EXCEPT ![j] = "idle"]
  /\ UNCHANGED <<channelVars, writerVars, lock, reports, alertPc>>

\* ...or is a change of status: AlerterSet.Alert starts a goroutine for each alert
\* and waits for all of them, with the lock held.
FireAlerts(j) ==
  /\ jobPc[j] = "locking"
  /\ lock = None
  /\ lock' = j
  /\ jobPc' = [jobPc EXCEPT ![j] = "alerting"]
  /\ alertPc' = [a \in Alerters |-> "sending"]
  /\ UNCHANGED <<channelVars, writerVars, applied, reports>>

\* A late failure that is already over is told with its recovery: once more for all
\* alerts, under the same lock.
FireAgain(j) ==
  /\ jobPc[j] = "alerting"
  /\ \A a \in Alerters : alertPc[a] = "done"
  /\ jobPc' = [jobPc EXCEPT ![j] = "realerting"]
  /\ alertPc' = [a \in Alerters |-> "sending"]
  /\ UNCHANGED <<channelVars, writerVars, historyVars, reports>>

AlertsDoneKeepingLock(j) ==
  /\ jobPc[j] \in {"alerting", "realerting"}
  /\ \A a \in Alerters : alertPc[a] = "done"
  /\ applied' = Append(applied, Current(j))
  /\ jobPc' = [jobPc EXCEPT ![j] = "idle"]
  /\ UNCHANGED <<channelVars, writerVars, lock, reports, alertPc>>

AlertsDone(j) ==
  /\ jobPc[j] \in {"alerting", "realerting"}
  /\ \A a \in Alerters : alertPc[a] = "done"
  /\ lock' = None
  /\ applied' = Append(applied, Current(j))
  /\ jobPc' = [jobPc EXCEPT ![j] = "idle"]
  /\ UNCHANGED <<channelVars, writerVars, reports, alertPc>>

-----------------------------------------------------------------------------
(* Store.Report, called by an alert through its AlertReporter.              *)

SendAlertRecord(a) ==
  /\ alertPc[a] = "sending"
  /\ \E scheme \in AlertSchemes :
       /\ Send([by |-> a, scheme |-> Prefix(scheme), rank |-> 0])
       /\ alertPc' = [alertPc EXCEPT ![a] = IF IsRecorded(Prefix(scheme)) THEN "locking" ELSE "sent"]
  /\ UNCHANGED <<writerVars, historyVars, jobVars>>

\* Its Report returns, after it got the lock if the record is to be recorded.
AlertReturns(a) ==
  /\ alertPc[a] \in {"sent", "locking"}
  /\ alertPc[a] = "locking" => lock = None
  /\ alertPc' = [alertPc EXCEPT ![a] = "done"]
  /\ UNCHANGED <<channelVars, writerVars, historyVars, jobVars>>

-----------------------------------------------------------------------------
(* The writer goroutine and Store.Close.                                    *)

WriteNewest ==
  /\ ~stopped
  /\ queue # <<>>
  /\ written' = Append(written, queue[Len(queue)])
  /\ queue' = SubSeq(queue, 1, Len(queue) - 1)
  /\ UNCHANGED <<closed, stopped, historyVars, jobVars, alertPc>>

Write ==
  /\ ~stopped
  /\ queue # <<>>
  /\ written' = Append(written, Head(queue))
  /\ queue' = Tail(queue)
  /\ UNCHANGED <<closed, stopped, historyVars, jobVars, alertPc>>

StopAtOnce ==
  /\ ~stopped
  /\ closed
  /\ stopped' = TRUE
  /\ UNCHANGED <<channelVars, written, historyVars, jobVars, alertPc>>

\* A closed channel is received from until it is empty.
Stop ==
  /\ ~stopped
  /\ closed /\ queue = <<>>
  /\ stopped' = TRUE
  /\ UNCHANGED <<channelVars, written, historyVars, jobVars, alertPc>>

\* Store.Close closes the channel; it is for the caller to see that nobody uses it.
Close ==
  /\ ~closed
  /\ closed' = TRUE
  /\ UNCHANGED <<queue, writerVars, historyVars, jobVars, alertPc>>

Init ==
  /\ queue = <<>>
  /\ closed = FALSE
  /\ written = <<>>
  /\ stopped = FALSE
  /\ lock = None
  /\ applied = <<>>
  /\ jobPc = [j \in Jobs |-> "idle"]
  /\ reports = [j \in Jobs |-> 0]
  /\ alertPc = [a \in Alerters |-> "done"]

JobStep(j) ==
  \/ StartReport(j) \/ SendRecord(j) \/ ApplyQuietly(j)
  \/ FireAlerts(j) \/ FireAgain(j) \/ AlertsDone(j)

AlertStep(a) == SendAlertRecord(a) \/ AlertReturns(a)

WriterStep == Write \/ Stop

-----------------------------------------------------------------------------

\* Store.Close loses nothing: when the writer is gone, every record a job reported,
\* and the history shows, is in the log.
NothingLostAtClose ==
  stopped =>
    /\ Range(applied) \subseteq Range(written)
    /\ \A j \in Jobs : \A n \in 1 .. reports[j] :
         [by |-> j, scheme |-> "probe", rank |-> n] \in Range(written)

\* Both the log and the history have the records of one job in the order it
\* reported them, each once, although the two interleave jobs in their own way.
OrderedPerJob ==
  \A s \in {written, applied} : \A i, k \in DOMAIN s :
    i < k /\ s[i].by \in Jobs /\ s[k].by = s[i].by => s[i].rank < s[k].rank

\* Every Report returns, however full the channel is and whatever alerts run.
EveryReportReturns == \A j \in Jobs : jobPc[j] = "sending" ~> jobPc[j] = "idle"
=============================================================================
