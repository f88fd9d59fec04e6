-------------------------------- MODULE Store --------------------------------
(***************************************************************************)
(* The in-memory database of Ayd: the probe history and the incidents that *)
(* internal/store keeps under historyLock.  Every action below is one      *)
(* critical section of that lock, so it is one step here.  What happens    *)
(* outside the lock (the writer goroutine and its channel, the alerts the  *)
(* callbacks send) is the subject of module Reporting; what a restart      *)
(* makes of the log is the subject of module StoreRestart.                 *)
(*                                                                         *)
(* Incidents are pointers in the code: the same incident may be reached    *)
(* from the current incidents and, more than once, from the history, and a *)
(* change through one is seen through all.  `incidents' is that heap, and  *)
(* the two collections hold indices into it.                               *)
(***************************************************************************)
EXTENDS Integers, Sequences, FiniteSets

CONSTANTS
  Targets,             \* the URLs records are about
  Sources,             \* the URLs of the probes that report them
  Messages,            \* the message texts
  MaskedMessage,       \* a text with its ephemeral port numbers masked
  ProbeHistoryLen,     \* PROBE_HISTORY_LEN
  IncidentHistoryLen,  \* INCIDENT_HISTORY_LEN
  ReportedStatus,      \* bound: the statuses the reported records have
  MaxDelay,            \* how much older than the newest one a record may be
  MaxTime,             \* bound: the last instant of a behaviour
  MaxIncidents         \* bound: the number of incidents ever allocated

ASSUME StoreAssumption ==
  /\ DOMAIN MaskedMessage = Messages
  /\ ReportedStatus \subseteq {"HEALTHY", "DEGRADE", "FAILURE", "UNKNOWN", "ABORTED"}
  /\ ProbeHistoryLen \in Nat \ {0}
  /\ IncidentHistoryLen \in Nat \ {0}
  /\ MaxDelay \in Nat
  /\ MaxTime \in Nat
  /\ MaxIncidents \in Nat

VARIABLES
  targets,           \* the keys of probeHistory
  records,           \* probeHistory[t].Records
  sources,           \* probeHistory[t].sources
  incidents,         \* the heap of incidents, in order of allocation
  currentIncidents,  \* target -> incident, or None
  incidentHistory,   \* the resolved incidents, oldest first
  incidentCount,     \* what /metrics exports
  calls              \* the records the last step passed to OnStatusChanged

probeVars == <<targets, records, sources>>
incidentVars == <<incidents, currentIncidents, incidentHistory, incidentCount>>
vars == <<probeVars, incidentVars, calls>>

-----------------------------------------------------------------------------
(* Records and incidents.  Instants are numbers, 0 is Go's zero time.       *)

None == 0
Status == {"HEALTHY", "DEGRADE", "FAILURE", "UNKNOWN", "ABORTED"}
Instant == Nat \ {0}

Record == [target : Targets, time : Instant, status : Status, message : Messages]
Incident == [target : Targets, status : Status, message : Messages,
             startsAt : Instant, endsAt : Nat]

NewIncidentWithoutStart(r, endsAt) ==
  [target |-> r.target, status |-> r.status, message |-> r.message,
   startsAt |-> 0, endsAt |-> endsAt]

NewIncident(r, endsAt) ==
  [target |-> r.target, status |-> r.status, message |-> r.message,
   startsAt |-> r.time, endsAt |-> endsAt]

\* Two messages that differ in ephemeral port numbers only are the same.
IsSameIncidentMessage(a, b) == MaskedMessage[a] = MaskedMessage[b]

Earlier(a, b) == IF a <= b THEN a ELSE b
Largest(S) == CHOOSE x \in S : \A y \in S : y <= x
Smallest(S) == CHOOSE x \in S : \A y \in S : x <= y
DropOldest(s, n) == IF Len(s) > n THEN Tail(s) ELSE s

LatestTime(t) == IF records[t] = <<>> THEN 0 ELSE records[t][Len(records[t])].time

-----------------------------------------------------------------------------
(* probeHistoryMap.Append                                                   *)

InsertAtEnd(s, r) == Append(s, r)

\* The new record moves to the left of every record that is later than it, up
\* to the first one that is not.
InsertRecord(s, r) ==
  LET k == Largest({0} \cup {i \in DOMAIN s : s[i].time <= r.time})
  IN  SubSeq(s, 1, k) \o <<r>> \o SubSeq(s, k + 1, Len(s))

AppendRecord(source, r) ==
  /\ targets' = targets \cup {r.target}
  /\ records' = [records EXCEPT ![r.target] = DropOldest(InsertRecord(@, r), ProbeHistoryLen)]
  /\ sources' = [sources EXCEPT ![r.target] = @ \cup {source}]

-----------------------------------------------------------------------------
(* Store.setIncidentIfNeed                                                  *)

\* x began after t, but no record separates t from the beginning of x: the
\* newest record older than x is older than t too.
NoRecordBetween(t, x) ==
  LET before == {i \in DOMAIN records[x.target] : records[x.target][i].time < x.startsAt}
  IN  before # {} /\ records[x.target][Largest(before)].time < t

CoversBeyondEnd(x, target, t) ==
  /\ x.target = target
  /\ x.startsAt < t \/ NoRecordBetween(t, x)

Covers(x, target, t) ==
  /\ x.target = target
  /\ t < x.endsAt
  /\ x.startsAt < t \/ NoRecordBetween(t, x)

\* The incident a record of `target' at t belongs to: the current one, else,
\* unless the record is the newest, the last resolved one around t.
SearchLastIncident(target, t) ==
  LET around == {k \in DOMAIN incidentHistory : Covers(incidents[incidentHistory[k]], target, t)}
  IN  IF currentIncidents[target] # None THEN currentIncidents[target]
      ELSE IF records[target] # <<>> /\ LatestTime(target) < t THEN None
      ELSE IF around = {} THEN None
      ELSE incidentHistory[Largest(around)]

ContinuesAnyMessage(inc, r) ==
  /\ inc # None
  /\ incidents[inc].status = r.status

Continues(inc, r) ==
  /\ inc # None
  /\ incidents[inc].status = r.status
  /\ IsSameIncidentMessage(incidents[inc].message, r.message)
  /\ incidents[inc].endsAt = 0 \/ r.time < incidents[inc].endsAt

\* What is left of the three collections once `inc' (if any) ends with r.
ResolveIncidents(inc, r) ==
  IF inc = None THEN incidents
  ELSE [incidents EXCEPT ![inc].startsAt = Earlier(@, r.time), ![inc].endsAt = r.time]
ResolveHistoryUntrimmed(inc) ==
  IF inc = None THEN incidentHistory ELSE Append(incidentHistory, inc)
ResolveHistoryAtFront(inc) ==
  IF inc = None THEN incidentHistory
  ELSE DropOldest(<<inc>> \o incidentHistory, IncidentHistoryLen)
ResolveHistory(inc) ==
  IF inc = None THEN incidentHistory
  ELSE DropOldest(Append(incidentHistory, inc), IncidentHistoryLen)
ResolveKeepCurrent(inc, t) == currentIncidents
ResolveCurrent(inc, t) ==
  IF inc = None THEN currentIncidents ELSE [currentIncidents EXCEPT ![t] = None]

IgnoreAborted(r) ==
  /\ r.status = "ABORTED"
  /\ calls' = <<>>
  /\ UNCHANGED incidentVars

\* The same trouble goes on, or a resolved one is confirmed.
ContinueIncident(inc, r) ==
  /\ r.status # "ABORTED"
  /\ Continues(inc, r)
  /\ incidents' = [incidents EXCEPT ![inc].startsAt = Earlier(@, r.time),
                                    ![inc].message = r.message]
  /\ calls' = <<>>
  /\ UNCHANGED <<currentIncidents, incidentHistory, incidentCount>>

Recover(inc, r, needCallback) ==
  /\ r.status = "HEALTHY"
  /\ ~Continues(inc, r)
  /\ incidents' = ResolveIncidents(inc, r)
  /\ incidentHistory' = ResolveHistory(inc)
  /\ currentIncidents' = ResolveCurrent(inc, r.target)
  /\ calls' = IF inc # None /\ needCallback THEN <<r>> ELSE <<>>
  /\ UNCHANGED incidentCount

\* The guard and the counter the two ways to open an incident share.
OpenIncident(inc, r, needCallback) ==
  /\ r.status \notin {"ABORTED", "HEALTHY"}
  /\ ~Continues(inc, r)
  /\ incidentCount' = IF needCallback THEN incidentCount + 1 ELSE incidentCount

OpenCurrent(inc, r, needCallback) ==
  /\ OpenIncident(inc, r, needCallback)
  /\ LatestTime(r.target) <= r.time
  /\ incidents' = Append(ResolveIncidents(inc, r), NewIncident(r, 0))
  /\ incidentHistory' = ResolveHistory(inc)
  /\ currentIncidents' = [ResolveCurrent(inc, r.target) EXCEPT ![r.target] = Len(incidents) + 1]
  /\ calls' = IF needCallback THEN <<r>> ELSE <<>>

\* A record that is not the newest opens an incident that is already over: it
\* ends with the first later record.
OpenDelayed(inc, r, needCallback) ==
  /\ OpenIncident(inc, r, needCallback)
  /\ r.time < LatestTime(r.target)
  /\ LET rs   == records[r.target]
         next == rs[Smallest({i \in DOMAIN rs : r.time < rs[i].time})]
     IN  /\ incidents' = Append(ResolveIncidents(inc, r), NewIncident(r, next.time))
         /\ calls' = IF ~needCallback THEN <<>>
                     ELSE IF next.status = "HEALTHY" THEN <<r, next>>
                     ELSE <<r>>
  /\ incidentHistory' = Append(ResolveHistory(inc), Len(incidents) + 1)
  /\ currentIncidents' = ResolveCurrent(inc, r.target)

SetIncidentIfNeed(r, needCallback) ==
  LET inc == SearchLastIncident(r.target, r.time)
  IN  \/ IgnoreAborted(r)
      \/ ContinueIncident(inc, r)
      \/ Recover(inc, r, needCallback)
      \/ OpenCurrent(inc, r, needCallback)
      \/ OpenDelayed(inc, r, needCallback)

-----------------------------------------------------------------------------
(* The operations of the store.                                             *)

Report(source, r) ==
  /\ SetIncidentIfNeed(r, TRUE)
  /\ AppendRecord(source, r)

ActivateTarget(source, t) ==
  /\ targets' = targets \cup {t}
  /\ sources' = [sources EXCEPT ![t] = @ \cup {source}]
  /\ calls' = <<>>
  /\ UNCHANGED <<records, incidentVars>>

DeactivateTarget(source, ts) ==
  /\ sources' = [t \in Targets |-> IF t \in ts THEN sources[t] \ {source} ELSE sources[t]]
  /\ calls' = <<>>
  /\ UNCHANGED <<targets, records, incidentVars>>

Init ==
  /\ targets = {}
  /\ records = [t \in Targets |-> <<>>]
  /\ sources = [t \in Targets |-> {}]
  /\ incidents = <<>>
  /\ currentIncidents = [t \in Targets |-> None]
  /\ incidentHistory = <<>>
  /\ incidentCount = 0
  /\ calls = <<>>

\* The record of a probe carries the time the probe began and is reported when
\* it ends, and a plugin may date its records up to an hour back: a record may
\* be older, by MaxDelay at most, than the newest one of its target.
Arrives(r) ==
  /\ r.time <= MaxTime
  /\ LatestTime(r.target) <= r.time + MaxDelay
  /\ r.status \in {"HEALTHY", "ABORTED"} \/ Len(incidents) < MaxIncidents

Next ==
  \/ \E source \in Sources, t \in Targets, time \in 1 .. MaxTime, s \in ReportedStatus, m \in Messages :
       LET r == [target |-> t, time |-> time, status |-> s, message |-> m]
       IN  Arrives(r) /\ Report(source, r)
  \/ \E source \in Sources, t \in Targets : ActivateTarget(source, t)
  \/ \E source \in Sources, ts \in SUBSET Targets : DeactivateTarget(source, ts)

Spec == Init /\ [][Next]_vars

-----------------------------------------------------------------------------
(* Invariants, whatever the order the records arrive in.                    *)

\* The types of the variables; an incident of the store always has a beginning.
TypeOK ==
  /\ targets \in SUBSET Targets
  /\ records \in [Targets -> Seq(Record)]
  /\ sources \in [Targets -> SUBSET Sources]
  /\ incidents \in Seq(Incident)
  /\ currentIncidents \in [Targets -> 0 .. Len(incidents)]
  /\ incidentHistory \in Seq(1 .. Len(incidents))
  /\ incidentCount \in Nat
  /\ calls \in Seq(Record)

\* The history of a target (probeHistoryMap.Append, whose loop assumes it) is
\* always sorted by time and never longer than PROBE_HISTORY_LEN.
HistorySorted ==
  \A t \in Targets :
    /\ Len(records[t]) <= ProbeHistoryLen
    /\ \A i, j \in DOMAIN records[t] : i < j => records[t][i].time <= records[t][j].time

\* setIncidentIfNeed never loses track of an incident: the ones without an end
\* are exactly the current ones, each filed under its own target, and the ones
\* in the history are over and do not end before they start.
OpenIffCurrent ==
  /\ \A i \in DOMAIN incidents :
       incidents[i].endsAt = 0 <=> currentIncidents[incidents[i].target] = i
  /\ \A i \in DOMAIN incidents :
       incidents[i].endsAt # 0 => incidents[i].startsAt <= incidents[i].endsAt
  /\ \A t \in Targets : currentIncidents[t] # None => incidents[currentIncidents[t]].target = t

\* Once over, an incident stays over: a late record may only find that it was
\* over earlier (Store.setIncidentIfNeed), and that it began earlier.
ResolvedStaysResolved ==
  [][\A i \in DOMAIN incidents :
       /\ i \in DOMAIN incidents'
       /\ incidents'[i].startsAt <= incidents[i].startsAt
       /\ incidents[i].endsAt # 0 => incidents'[i].endsAt \in 1 .. incidents[i].endsAt]_vars

-----------------------------------------------------------------------------
(* Invariants of a target whose records arrive in order (MaxDelay = 0), and  *)
(* that late records break.                                                 *)

\* The newest record of a target that is not ABORTED, if the history still has it.
Conclusive(t) == {i \in DOMAIN records[t] : records[t][i].status # "ABORTED"}
LatestConclusive(t) == records[t][Largest(Conclusive(t))]

\* The current incident of a target is what its newest conclusive record says:
\* there is one exactly when that record is not healthy, with its status and
\* its message (Store.CurrentIncidents against Store.ProbeHistory).
CurrentMirrorsLatest ==
  \A t \in Targets : Conclusive(t) # {} =>
    LET last == LatestConclusive(t)
    IN  /\ last.status = "HEALTHY" <=> currentIncidents[t] = None
        /\ last.status # "HEALTHY" =>
             /\ incidents[currentIncidents[t]].status = last.status
             /\ incidents[currentIncidents[t]].message = last.message

\* The resolved incidents are at most INCIDENT_HISTORY_LEN.
HistoryBounded == Len(incidentHistory) <= IncidentHistoryLen

\* The resolved incidents of a target are listed in the order they happened, and
\* do not overlap each other or the current incident.
IncidentsDisjoint ==
  /\ \A j, k \in DOMAIN incidentHistory :
       LET x == incidents[incidentHistory[j]]
           y == incidents[incidentHistory[k]]
       IN  j < k /\ x.target = y.target => x.endsAt <= y.startsAt
  /\ \A k \in DOMAIN incidentHistory :
       LET x == incidents[incidentHistory[k]]
           y == incidents[currentIncidents[x.target]]
       IN  currentIncidents[x.target] # None => x.endsAt <= y.startsAt
-----------------------------------------------------------------------------
(* The store implements StatusMonitor as long as records arrive in order.    *)

ConditionOf(x) ==
  IF x.status = "HEALTHY" THEN <<"HEALTHY">> ELSE <<x.status, MaskedMessage[x.message]>>

Monitor == INSTANCE StatusMonitor WITH
  Conditions <- {<<s, MaskedMessage[m]>> : s \in Status \ {"HEALTHY", "ABORTED"}, m \in Messages},
  Healthy <- <<"HEALTHY">>,
  condition <- [t \in Targets |-> IF currentIncidents[t] = None THEN <<"HEALTHY">>
                                  ELSE ConditionOf(incidents[currentIncidents[t]])],
  told <- [k \in DOMAIN calls |-> <<calls[k].target, ConditionOf(calls[k])>>]

\* Every step of the store is a step of the monitor, so OnStatusChanged is called
\* exactly once for each change of a target's condition and never otherwise.  No
\* step is excused as a stutter of the monitor: a repeated call would be one.
AlertsAreStatusChanges == Monitor!Init /\ [][Monitor!Next]_vars
=============================================================================
