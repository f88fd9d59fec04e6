--------------------------- MODULE LifecycleProofs ---------------------------
(***************************************************************************)
(* Theorems about Lifecycle with Reporting, for any number of jobs, alerts *)
(* and records, any length of the queue and whatever the command line asks *)
(* for.                                                                    *)
(***************************************************************************)
EXTENDS Lifecycle, SequenceTheorems, FiniteSetTheorems, TLAPS

\* The records that are in the log, or on the way to it.
LogRecord ==
  [by : Jobs \cup Alerters \cup {Ayd}, scheme : {"probe", "alert", "alert-sub", "ayd"}, rank : Nat]
Log == written \o queue

\* The types of the variables.
ReportingTypeOK ==
  /\ queue \in Seq(LogRecord)
  /\ closed \in BOOLEAN
  /\ written \in Seq(LogRecord)
  /\ stopped \in BOOLEAN
  /\ lock \in Jobs \cup {None}
  /\ applied \in Seq(LogRecord)
  /\ jobPc \in [Jobs -> {"idle", "sending", "locking", "alerting", "realerting", "over"}]
  /\ reports \in [Jobs -> Nat]
  /\ alertPc \in [Alerters -> {"sending", "locking", "sent", "done"}]

LifeTypeOK ==
  /\ setup \in Setups
  /\ main \in {"starting", "scheduling", "serving", "failing", "waiting", "returned", "closing", "exited"}
  /\ exitCode \in 0 .. 2
  /\ cancelled \in BOOLEAN
  /\ wg \in Int
  /\ started \in SUBSET Jobs
  /\ cron \in {"off", "running", "stopping", "stopped", "waited"}
  /\ signal \in {"none", "waiting", "stopping", "gone"}
  /\ shutdown \in {"none", "waiting", "shutting", "complaining", "done"}
  /\ request \in {"none", "running", "failed", "answered"}
  /\ announced \in SUBSET {Began, Stopping, Trouble}
  /\ overdue \in BOOLEAN

-----------------------------------------------------------------------------
(* Who is where.                                                            *)

Alerting(j) == jobPc[j] \in {"alerting", "realerting"}

\* The job that alerts has the lock, and alerts run only for it.
LockOK ==
  /\ \A j \in Jobs : Alerting(j) <=> lock = j
  /\ lock = None => \A a \in Alerters : alertPc[a] = "done"

\* What the WaitGroup counts.
Pending == {j \in started : Counted(j) /\ jobPc[j] # "over"}
CronCounts == cron \in {"running", "stopping", "stopped"}
ShutdownCounts == shutdown \in {"waiting", "shutting", "complaining"}
GroupOK ==
  wg = Cardinality(Pending) + (IF CronCounts THEN 1 ELSE 0) + (IF ShutdownCounts THEN 1 ELSE 0)

\* Cron and the shutdown goroutine are there from StartServer on, for the jobs that are started.
JobsOK ==
  /\ \A j \in Jobs \ started : jobPc[j] = "idle" /\ reports[j] = 0
  /\ main \in {"starting", "scheduling"} => started = {} /\ cron = "off" /\ shutdown = "none"
  /\ setup.mode = "oneshot" => cron = "off" /\ shutdown = "none"
  /\ setup.mode = "server" /\ main \in {"serving", "failing", "waiting"} => cron # "off" /\ shutdown # "none"
  /\ cron = "off" <=> shutdown = "none"
  /\ cron # "off" => setup.kicked \subseteq started
  /\ cron = "running" <=> shutdown = "waiting"
  /\ cron = "waited" => \A j \in started \ setup.kicked : jobPc[j] = "over"

\* After Run has returned, nobody is left, and only then the store is closed.
JoinedOK ==
  /\ main \in {"returned", "closing", "exited"} =>
       /\ \A j \in started : jobPc[j] = "over"
       /\ ~CronCounts /\ ~ShutdownCounts
  /\ closed <=> main \in {"closing", "exited"}
  /\ stopped => closed /\ queue = <<>>
  /\ main = "exited" => stopped

\* Signals, the context, requests and what they announce.
ControlOK ==
  /\ main = "starting" => signal = "none" /\ exitCode = 0 /\ (setup.mode = "server" => ~cancelled)
  /\ setup.mode = "oneshot" => signal = "none"
  /\ setup.mode = "server" /\ cancelled => exitCode = 1 \/ (signal = "gone" /\ Stopping \in announced)
  /\ setup.mode = "server" /\ main \in {"waiting", "returned", "closing", "exited"} => cancelled \/ exitCode # 0
  /\ shutdown \in {"shutting", "complaining", "done"} => cancelled
  /\ main = "failing" => exitCode = 1
  /\ shutdown = "none" => request = "none"
  /\ setup.mode = "server" /\ shutdown = "none" => main \in {"starting", "scheduling", "returned", "closing", "exited"} 
  /\ setup.mode = "server" /\ shutdown = "none" /\ main \notin {"starting", "scheduling"} => signal = "none"
  /\ shutdown \in {"complaining", "done"} /\ Serving => overdue

-----------------------------------------------------------------------------
(* What is in the log.                                                      *)

ProbeRecord(j, n) == [by |-> j, scheme |-> "probe", rank |-> n]

\* The rank of a record of a job is that of one of its reports, or of an earlier one
\* if the job is in a place where the last one is not there yet.
RankOK(r, places) ==
  r.by \in Jobs => r.rank <= reports[r.by] /\ (jobPc[r.by] \in places => r.rank < reports[r.by])
Ordered(s) ==
  \A i, k \in DOMAIN s : i < k /\ s[i].by \in Jobs /\ s[k].by = s[i].by => s[i].rank < s[k].rank

BeforeLog == {"sending"}
BeforeHistory == {"sending", "locking", "alerting", "realerting"}

LogOK ==
  /\ \A j \in Jobs : \A n \in 1 .. reports[j] :
       (n = reports[j] /\ jobPc[j] = "sending") \/ ProbeRecord(j, n) \in Range(Log)
  /\ Range(applied) \subseteq Range(Log)
  /\ \A r \in Range(Log) : RankOK(r, BeforeLog)
  /\ \A r \in Range(applied) : RankOK(r, BeforeHistory)
  /\ Ordered(Log) /\ Ordered(applied)
  /\ \A j \in Jobs : jobPc[j] \in BeforeHistory => reports[j] > 0

\* What happened to Ayd is in the log, from its beginning on.
FirstOfAyd(s) ==
  \A i, k \in DOMAIN s : s[i].by = Ayd /\ s[i].rank = Began /\ s[k].by = Ayd => i <= k

AnnouncedOK ==
  /\ \A event \in announced : \E r \in Range(Log) : r.by = Ayd /\ r.rank = event
  /\ main = "starting" => \A r \in Range(Log) : r.by # Ayd
  /\ FirstOfAyd(Log)

\* The inductive invariant: where everybody is, and what is in the log.
PlacesOK == LifeTypeOK /\ LockOK /\ GroupOK /\ JobsOK /\ JoinedOK /\ ControlOK
LifeInv == ReportingTypeOK /\ PlacesOK /\ LogOK /\ AnnouncedOK

-----------------------------------------------------------------------------
(* Sequences.                                                               *)

\* Appending a record adds it to the records of a sequence, and nothing else.
LEMMA AppendRange ==
  ASSUME NEW S, NEW s \in Seq(S), NEW r \in S
  PROVE  Range(Append(s, r)) = Range(s) \cup {r}
<1> DEFINE t == Append(s, r)
<1>1. /\ DOMAIN t = 1 .. Len(s) + 1 /\ DOMAIN s = 1 .. Len(s) /\ Len(s) \in Nat
      /\ t[Len(s) + 1] = r /\ \A i \in 1 .. Len(s) : t[i] = s[i]
  OBVIOUS
<1>2. \A i \in DOMAIN t : t[i] \in Range(s) \cup {r}
  <2> SUFFICES ASSUME NEW i \in DOMAIN t PROVE t[i] \in Range(s) \cup {r}
    OBVIOUS
  <2>1. i \in 1 .. Len(s) \/ i = Len(s) + 1
    BY <1>1
  <2> HIDE DEF t
  <2> QED BY <1>1, <2>1 DEF Range
<1>3. r \in Range(t) /\ Range(s) \subseteq Range(t)
  <2>1. Len(s) + 1 \in DOMAIN t /\ DOMAIN s \subseteq DOMAIN t
    BY <1>1
  <2> HIDE DEF t
  <2> QED BY <1>1, <2>1 DEF Range
<1> QED BY <1>2, <1>3 DEF Range

\* A record stays in the log when the writer moves it from the channel to the file.
LEMMA MoveHead ==
  ASSUME NEW S, NEW w \in Seq(S), NEW q \in Seq(S), q # <<>>
  PROVE  Append(w, Head(q)) \o Tail(q) = w \o q
<1>1. Len(q) \in Nat \ {0} /\ Head(q) \in S /\ Tail(q) \in Seq(S) /\ Len(Tail(q)) = Len(q) - 1
  OBVIOUS
<1>2. Head(q) = q[1] /\ \A i \in 1 .. Len(q) - 1 : Tail(q)[i] = q[i + 1]
  OBVIOUS
<1> DEFINE l == Append(w, Head(q)) \o Tail(q)
           m == w \o q
<1>3. l \in Seq(S) /\ m \in Seq(S) /\ Len(l) = Len(w) + Len(q) /\ Len(m) = Len(w) + Len(q)
  BY <1>1
<1>4. \A i \in 1 .. Len(l) : l[i] = m[i]
  <2> SUFFICES ASSUME NEW i \in 1 .. Len(w) + Len(q) PROVE l[i] = m[i]
    BY <1>3
  <2>1. CASE i \in 1 .. Len(w)
    BY <1>1, <2>1
  <2>2. CASE i = Len(w) + 1
    BY <1>1, <1>2, <2>2
  <2>3. CASE i \in Len(w) + 2 .. Len(w) + Len(q)
    BY <1>1, <1>2, <2>3
  <2> QED BY <2>1, <2>2, <2>3, <1>1
<1> HIDE DEF l, m
<1>5. l = m
  BY <1>3, <1>4, SeqEqual
<1> QED BY <1>5 DEF l, m

\* What is sent goes to the end of the log.
LEMMA AppendTail ==
  ASSUME NEW S, NEW w \in Seq(S), NEW q \in Seq(S), NEW r \in S
  PROVE  w \o Append(q, r) = Append(w \o q, r)
<1> DEFINE l == w \o Append(q, r)
           m == Append(w \o q, r)
<1>1. l \in Seq(S) /\ m \in Seq(S) /\ Len(l) = Len(w) + Len(q) + 1 /\ Len(m) = Len(w) + Len(q) + 1
  OBVIOUS
<1>2. \A i \in 1 .. Len(l) : l[i] = m[i]
  <2> SUFFICES ASSUME NEW i \in 1 .. Len(w) + Len(q) + 1 PROVE l[i] = m[i]
    BY <1>1
  <2>1. CASE i \in 1 .. Len(w)
    BY <2>1
  <2>2. CASE i \in Len(w) + 1 .. Len(w) + Len(q)
    BY <2>2
  <2>3. CASE i = Len(w) + Len(q) + 1
    BY <2>3
  <2> QED BY <2>1, <2>2, <2>3
<1> HIDE DEF l, m
<1>3. l = m
  BY <1>1, <1>2, SeqEqual
<1> QED BY <1>3 DEF l, m

\* A sequence that is in order stays so when a record is appended that is later than
\* the others of its job.
LEMMA AppendOrdered ==
  ASSUME NEW s \in Seq(LogRecord), NEW r \in LogRecord, Ordered(s),
         \A x \in Range(s) : r.by \in Jobs /\ x.by = r.by => x.rank < r.rank
  PROVE  Ordered(Append(s, r))
<1> DEFINE t == Append(s, r)
<1>1. /\ DOMAIN t = 1 .. Len(s) + 1 /\ DOMAIN s = 1 .. Len(s) /\ Len(s) \in Nat
      /\ t[Len(s) + 1] = r /\ \A i \in 1 .. Len(s) : t[i] = s[i]
  OBVIOUS
<1> HIDE DEF t
<1> SUFFICES ASSUME NEW i \in DOMAIN t, NEW k \in DOMAIN t, i < k, t[i].by \in Jobs, t[k].by = t[i].by
             PROVE  t[i].rank < t[k].rank
  BY DEF Ordered, t
<1>2. i \in 1 .. Len(s) /\ s[i] \in Range(s)
  BY <1>1 DEF Range
<1>3. k \in 1 .. Len(s) \/ k = Len(s) + 1
  BY <1>1
<1> QED BY <1>1, <1>2, <1>3 DEF Ordered

\* The same for the first record of Ayd itself.
LEMMA AppendFirst ==
  ASSUME NEW s \in Seq(LogRecord), NEW r \in LogRecord, FirstOfAyd(s),
         r.by = Ayd /\ r.rank = Began => \A x \in Range(s) : x.by # Ayd
  PROVE  FirstOfAyd(Append(s, r))
<1> DEFINE t == Append(s, r)
<1>1. /\ DOMAIN t = 1 .. Len(s) + 1 /\ DOMAIN s = 1 .. Len(s) /\ Len(s) \in Nat
      /\ t[Len(s) + 1] = r /\ \A i \in 1 .. Len(s) : t[i] = s[i]
  OBVIOUS
<1> HIDE DEF t
<1> SUFFICES ASSUME NEW i \in DOMAIN t, NEW k \in DOMAIN t, t[i].by = Ayd, t[i].rank = Began, t[k].by = Ayd
             PROVE  i <= k
  BY DEF FirstOfAyd, t
<1>2. \A n \in DOMAIN t : n = Len(s) + 1 \/ (n \in 1 .. Len(s) /\ s[n] \in Range(s))
  BY <1>1 DEF Range
<1>3. CASE i = Len(s) + 1
  BY <1>1, <1>2, <1>3
<1>4. CASE i \in 1 .. Len(s)
  BY <1>1, <1>2, <1>4 DEF FirstOfAyd
<1> QED BY <1>2, <1>3, <1>4

-----------------------------------------------------------------------------
(* What a step does to the log.                                             *)

USE DEF vars, channelVars, writerVars, historyVars, jobVars,
        allVars, lifeVars, control, helpers, history

\* A send appends its record to the log.
LEMMA SendAppends ==
  ASSUME ReportingTypeOK, NEW r \in LogRecord, Send(r), UNCHANGED writerVars
  PROVE  /\ Log' = Append(Log, r) /\ Log \in Seq(LogRecord)
         /\ queue' \in Seq(LogRecord) /\ written' \in Seq(LogRecord)
         /\ Range(Log)' = Range(Log) \cup {r}
<1> DEFINE R == LogRecord
<1>1. queue \in Seq(R) /\ written \in Seq(R) /\ queue' = Append(queue, r) /\ written' = written
  BY DEF ReportingTypeOK, Send
<1>2. r \in R
  OBVIOUS
<1> HIDE DEF R
<1>3. Log' = Append(Log, r)
  BY <1>1, <1>2, AppendTail DEF Log
<1>4. Log \in Seq(R)
  BY <1>1 DEF Log
<1>5. queue' \in Seq(R)
  BY <1>1, <1>2
<1>6. Range(Log)' = Range(Log) \cup {r}
  BY <1>2, <1>3, <1>4, AppendRange
<1> QED BY <1>1, <1>3, <1>4, <1>5, <1>6 DEF R

\* A record that no job reports disturbs neither the log of the jobs...
LEMMA OthersLog ==
  ASSUME ReportingTypeOK, LogOK, NEW r \in LogRecord, r.by \notin Jobs,
         Send(r), UNCHANGED <<writerVars, applied, jobVars>>
  PROVE  LogOK'
<1>1. Log' = Append(Log, r) /\ Log \in Seq(LogRecord) /\ Range(Log)' = Range(Log) \cup {r}
  BY SendAppends
<1>2. Ordered(Log)'
  <2>1. Ordered(Append(Log, r))
    BY <1>1, AppendOrdered DEF LogOK
  <2> QED BY <1>1, <2>1 DEF Ordered
<1>3. Range(applied)' = Range(applied) /\ Ordered(applied)'
  BY DEF LogOK, Ordered
<1> QED BY <1>1, <1>2, <1>3 DEF LogOK, RankOK

\* ...nor, unless it is one of Ayd, what is told of Ayd.
LEMMA OthersAnnounced ==
  ASSUME ReportingTypeOK, AnnouncedOK, NEW r \in LogRecord, r.by # Ayd,
         Send(r), UNCHANGED <<writerVars, announced, main>>
  PROVE  AnnouncedOK'
<1>1. Log' = Append(Log, r) /\ Log \in Seq(LogRecord) /\ Range(Log)' = Range(Log) \cup {r}
  BY SendAppends
<1>2. FirstOfAyd(Log)'
  <2>1. FirstOfAyd(Append(Log, r))
    BY <1>1, AppendFirst DEF AnnouncedOK
  <2> QED BY <1>1, <2>1 DEF FirstOfAyd
<1> QED BY <1>1, <1>2 DEF AnnouncedOK

\* An announcement is appended to the log, and the first one is that of the start.
LEMMA AnnounceLog ==
  ASSUME ReportingTypeOK, LogOK, AnnouncedOK, NEW event \in {Began, Stopping, Trouble},
         Announce(event), main' # "starting", event = Began => main = "starting"
  PROVE  LogOK' /\ AnnouncedOK' /\ ReportingTypeOK'
<1> DEFINE r == [by |-> Ayd, scheme |-> "ayd", rank |-> event]
<1>1. r \in LogRecord /\ r.by = Ayd /\ r.rank = event /\ Ayd \notin Jobs
  <2>1. event \in Nat
    BY DEF Began, Stopping, Trouble
  <2>2. Ayd \notin Jobs
    BY ReportingAssumption
  <2> QED BY <2>1, <2>2 DEF LogRecord
<1>2. /\ Send(r) /\ announced' = announced \cup {event}
      /\ UNCHANGED <<writerVars, historyVars, jobVars, alertPc>>
  BY DEF Announce
<1> HIDE DEF r
<1>3. /\ Log' = Append(Log, r) /\ Log \in Seq(LogRecord) /\ Range(Log)' = Range(Log) \cup {r}
      /\ queue' \in Seq(LogRecord) /\ written' \in Seq(LogRecord)
  BY <1>1, <1>2, SendAppends
<1>4. LogOK'
  BY <1>1, <1>2, OthersLog
<1>5. AnnouncedOK'
  <2>1. FirstOfAyd(Append(Log, r))
    BY <1>1, <1>3, AppendFirst DEF AnnouncedOK
  <2>2. FirstOfAyd(Log)'
    BY <1>3, <2>1 DEF FirstOfAyd
  <2> QED BY <1>1, <1>2, <1>3, <2>2 DEF AnnouncedOK
<1>6. ReportingTypeOK'
  BY <1>2, <1>3 DEF ReportingTypeOK, Send
<1> QED BY <1>4, <1>5, <1>6

\* A step that neither reports, nor applies, nor announces a record.
LEMMA QuietLog ==
  ASSUME LogOK, AnnouncedOK,
         Log' = Log, applied' = applied, reports' = reports, announced' = announced,
         main' = main \/ main' # "starting",
         \A j \in Jobs :
           \/ jobPc'[j] = jobPc[j]
           \/ jobPc[j] = "idle" /\ jobPc'[j] = "over"
           \/ jobPc[j] = "locking" /\ jobPc'[j] = "alerting"
           \/ jobPc[j] = "alerting" /\ jobPc'[j] = "realerting"
  PROVE  LogOK' /\ AnnouncedOK'
<1>1. AnnouncedOK'
  BY DEF AnnouncedOK, FirstOfAyd
<1>2. Ordered(Log)' /\ Ordered(applied)'
  BY DEF LogOK, Ordered
<1>3. \A j \in Jobs :
        /\ jobPc'[j] = "sending" <=> jobPc[j] = "sending"
        /\ jobPc'[j] \in BeforeHistory <=> jobPc[j] \in BeforeHistory
  BY DEF BeforeHistory
<1>4. /\ \A r \in Range(Log)' : RankOK(r, BeforeLog)'
      /\ \A r \in Range(applied)' : RankOK(r, BeforeHistory)'
  BY <1>3 DEF LogOK, RankOK, BeforeLog
<1> QED BY <1>1, <1>2, <1>3, <1>4 DEF LogOK

-----------------------------------------------------------------------------
(* The goroutines of main.                                                  *)

\* What the command line may ask for.
LEMMA SetupProperties ==
  ASSUME LifeTypeOK
  PROVE  setup.mode \in {"server", "oneshot"} /\ setup.kicked \subseteq Jobs
BY LifecycleAssumption DEF LifeTypeOK

\* The jobs the WaitGroup counts are finitely many.
LEMMA PendingFinite ==
  ASSUME LifeTypeOK
  PROVE  IsFiniteSet(Pending) /\ Cardinality(Pending) \in Nat
<1>1. Pending \subseteq Jobs
  BY DEF Pending, LifeTypeOK
<1> QED BY <1>1, ReportingAssumption, FS_Subset, FS_CardinalityType

\* A step of main keeps everybody in place.
LEMMA MainPlaces ==
  ASSUME ReportingTypeOK, PlacesOK, MainStep
  PROVE  PlacesOK'
<1> USE DEF PlacesOK, Began, Stopping, Trouble
<1>1. setup.mode \in {"server", "oneshot"} /\ setup.kicked \subseteq Jobs
  BY SetupProperties
<1>2. IsFiniteSet(Pending) /\ Cardinality(Pending) \in Nat
  BY PendingFinite
<1>3. LockOK'
  <2>1. UNCHANGED <<jobPc, lock, alertPc>>
    BY Zenon DEF MainStep, FailToStart, ReportStart, StartServer, StartOneshot, ServerClosed, ServeFails,
         ReportFailure, AllDone, CloseStore, Exit, Announce, Close
  <2> QED BY <2>1 DEF LockOK, Alerting
<1>4. CASE FailToStart
  <2>1. LifeTypeOK'
    BY <1>1, <1>4 DEF FailToStart, LifeTypeOK
  <2>2. GroupOK'
    BY <1>1, <1>4, <1>2 DEF FailToStart, GroupOK, Pending, Counted, CronCounts, ShutdownCounts, LifeTypeOK
  <2>3. JobsOK'
    BY <1>1, <1>4 DEF FailToStart, JobsOK, LifeTypeOK
  <2>4. JoinedOK'
    BY <1>1, <1>4 DEF FailToStart, JoinedOK, JobsOK, CronCounts, ShutdownCounts
  <2>5. ControlOK'
    BY <1>1, <1>4 DEF FailToStart, ControlOK, JobsOK, Serving
  <2> QED BY <1>3, <2>1, <2>2, <2>3, <2>4, <2>5
<1>5. CASE ReportStart
  <2>1. LifeTypeOK'
    BY <1>1, <1>5 DEF ReportStart, Announce, Send, LifeTypeOK
  <2>2. GroupOK'
    BY <1>1, <1>5, <1>2 DEF ReportStart, Announce, Send, GroupOK, Pending, Counted, CronCounts, ShutdownCounts, LifeTypeOK
  <2>3. JobsOK'
    BY <1>1, <1>5 DEF ReportStart, Announce, Send, JobsOK, LifeTypeOK
  <2>4. JoinedOK'
    BY <1>1, <1>5 DEF ReportStart, Announce, Send, JoinedOK, JobsOK, CronCounts, ShutdownCounts
  <2>5. ControlOK'
    BY <1>1, <1>5 DEF ReportStart, Announce, Send, ControlOK, JobsOK, Serving
  <2> QED BY <1>3, <2>1, <2>2, <2>3, <2>4, <2>5
<1>6. CASE StartServer
  <2>1. LifeTypeOK'
    BY <1>1, <1>6 DEF StartServer, LifeTypeOK
  <2>2. GroupOK'
    <3>1. Pending' = setup.kicked
      BY <1>1, <1>6 DEF StartServer, Pending, Counted, JobsOK
    <3>2. Cardinality(setup.kicked) \in Nat
      BY <1>1, ReportingAssumption, FS_Subset, FS_CardinalityType
    <3> QED BY <1>1, <1>6, <3>1, <3>2 DEF StartServer, GroupOK, CronCounts, ShutdownCounts
  <2>3. JobsOK'
    BY <1>1, <1>6 DEF StartServer, JobsOK, LifeTypeOK
  <2>4. JoinedOK'
    BY <1>1, <1>6 DEF StartServer, JoinedOK, JobsOK, CronCounts, ShutdownCounts
  <2>5. ControlOK'
    BY <1>1, <1>6 DEF StartServer, ControlOK, JobsOK, Serving
  <2> QED BY <1>3, <2>1, <2>2, <2>3, <2>4, <2>5
<1>7. CASE StartOneshot
  <2>1. LifeTypeOK'
    <3>1. Cardinality(Jobs) \in Nat
      BY ReportingAssumption, FS_CardinalityType
    <3> QED BY <1>1, <1>7, <3>1 DEF StartOneshot, LifeTypeOK
  <2>2. GroupOK'
    <3>1. Pending' = Jobs
      BY <1>1, <1>7 DEF StartOneshot, Pending, Counted, JobsOK
    <3>2. Cardinality(Jobs) \in Nat
      BY ReportingAssumption, FS_CardinalityType
    <3> QED BY <1>1, <1>7, <3>1, <3>2 DEF StartOneshot, GroupOK, CronCounts, ShutdownCounts, JobsOK
  <2>3. JobsOK'
    BY <1>1, <1>7 DEF StartOneshot, JobsOK, LifeTypeOK
  <2>4. JoinedOK'
    BY <1>1, <1>7 DEF StartOneshot, JoinedOK, JobsOK, CronCounts, ShutdownCounts
  <2>5. ControlOK'
    BY <1>1, <1>7 DEF StartOneshot, ControlOK, JobsOK, Serving
  <2> QED BY <1>3, <2>1, <2>2, <2>3, <2>4, <2>5
<1>8. CASE ServerClosed
  <2>1. LifeTypeOK'
    BY <1>1, <1>8 DEF ServerClosed, LifeTypeOK
  <2>2. GroupOK'
    BY <1>1, <1>8, <1>2 DEF ServerClosed, GroupOK, Pending, Counted, CronCounts, ShutdownCounts, LifeTypeOK
  <2>3. JobsOK'
    BY <1>1, <1>8 DEF ServerClosed, JobsOK, LifeTypeOK
  <2>4. JoinedOK'
    BY <1>1, <1>8 DEF ServerClosed, JoinedOK, JobsOK, CronCounts, ShutdownCounts
  <2>5. ControlOK'
    BY <1>1, <1>8 DEF ServerClosed, ControlOK, JobsOK, Serving
  <2> QED BY <1>3, <2>1, <2>2, <2>3, <2>4, <2>5
<1>9. CASE ServeFails
  <2>1. LifeTypeOK'
    BY <1>1, <1>9 DEF ServeFails, LifeTypeOK
  <2>2. GroupOK'
    BY <1>1, <1>9, <1>2 DEF ServeFails, GroupOK, Pending, Counted, CronCounts, ShutdownCounts, LifeTypeOK
  <2>3. JobsOK'
    BY <1>1, <1>9 DEF ServeFails, JobsOK, LifeTypeOK
  <2>4. JoinedOK'
    BY <1>1, <1>9 DEF ServeFails, JoinedOK, JobsOK, CronCounts, ShutdownCounts
  <2>5. ControlOK'
    BY <1>1, <1>9 DEF ServeFails, ControlOK, JobsOK, Serving
  <2> QED BY <1>3, <2>1, <2>2, <2>3, <2>4, <2>5
<1>10. CASE ReportFailure
  <2>1. LifeTypeOK'
    BY <1>1, <1>10 DEF ReportFailure, Announce, Send, LifeTypeOK
  <2>2. GroupOK'
    BY <1>1, <1>10, <1>2 DEF ReportFailure, Announce, Send, GroupOK, Pending, Counted, CronCounts, ShutdownCounts, LifeTypeOK
  <2>3. JobsOK'
    BY <1>1, <1>10 DEF ReportFailure, Announce, Send, JobsOK, LifeTypeOK
  <2>4. JoinedOK'
    BY <1>1, <1>10 DEF ReportFailure, Announce, Send, JoinedOK, JobsOK, CronCounts, ShutdownCounts
  <2>5. ControlOK'
    BY <1>1, <1>10 DEF ReportFailure, Announce, Send, ControlOK, JobsOK, Serving
  <2> QED BY <1>3, <2>1, <2>2, <2>3, <2>4, <2>5
<1>11. CASE AllDone
  <2>1. LifeTypeOK'
    BY <1>1, <1>11 DEF AllDone, LifeTypeOK
  <2>2. GroupOK'
    BY <1>1, <1>11, <1>2 DEF AllDone, GroupOK, Pending, Counted, CronCounts, ShutdownCounts, LifeTypeOK
  <2>3. JobsOK'
    BY <1>1, <1>11 DEF AllDone, JobsOK, LifeTypeOK
  <2>4. JoinedOK'
    <3>1. Cardinality(Pending) = 0 /\ ~CronCounts /\ ~ShutdownCounts
      BY <1>2, <1>11 DEF AllDone, GroupOK
    <3>2. Pending = {}
      BY <1>2, <3>1, FS_EmptySet
    <3>3. \A j \in started : jobPc[j] = "over"
      <4>1. setup.mode = "server" => cron = "waited"
        BY <1>11, <3>1 DEF AllDone, JobsOK, LifeTypeOK, CronCounts
      <4> QED BY <1>1, <3>2, <4>1 DEF Pending, Counted, JobsOK
    <3> QED BY <1>11, <3>1, <3>3 DEF AllDone, JoinedOK, CronCounts, ShutdownCounts
  <2>5. ControlOK'
    BY <1>1, <1>11 DEF AllDone, ControlOK, JobsOK, Serving
  <2> QED BY <1>3, <2>1, <2>2, <2>3, <2>4, <2>5
<1>12. CASE CloseStore
  <2>1. LifeTypeOK'
    BY <1>1, <1>12 DEF CloseStore, Close, LifeTypeOK
  <2>2. GroupOK'
    BY <1>1, <1>12, <1>2 DEF CloseStore, Close, GroupOK, Pending, Counted, CronCounts, ShutdownCounts, LifeTypeOK
  <2>3. JobsOK'
    BY <1>1, <1>12 DEF CloseStore, Close, JobsOK, LifeTypeOK
  <2>4. JoinedOK'
    BY <1>1, <1>12 DEF CloseStore, Close, JoinedOK, JobsOK, CronCounts, ShutdownCounts
  <2>5. ControlOK'
    BY <1>1, <1>12 DEF CloseStore, Close, ControlOK, JobsOK, Serving
  <2> QED BY <1>3, <2>1, <2>2, <2>3, <2>4, <2>5
<1>13. CASE Exit
  <2>1. LifeTypeOK'
    BY <1>1, <1>13 DEF Exit, LifeTypeOK
  <2>2. GroupOK'
    BY <1>1, <1>13, <1>2 DEF Exit, GroupOK, Pending, Counted, CronCounts, ShutdownCounts, LifeTypeOK
  <2>3. JobsOK'
    BY <1>1, <1>13 DEF Exit, JobsOK, LifeTypeOK
  <2>4. JoinedOK'
    BY <1>1, <1>13 DEF Exit, JoinedOK, JobsOK, CronCounts, ShutdownCounts
  <2>5. ControlOK'
    BY <1>1, <1>13 DEF Exit, ControlOK, JobsOK, Serving
  <2> QED BY <1>3, <2>1, <2>2, <2>3, <2>4, <2>5
<1> QED BY Zenon, <1>4, <1>5, <1>6, <1>7, <1>8, <1>9, <1>10, <1>11, <1>12, <1>13 DEF MainStep

\* So does a step of the signals, the shutdown, cron, or a request.
LEMMA HelperPlaces ==
  ASSUME ReportingTypeOK, PlacesOK, HelperStep
  PROVE  PlacesOK'
<1> USE DEF PlacesOK, Began, Stopping, Trouble
<1>1. setup.mode \in {"server", "oneshot"} /\ setup.kicked \subseteq Jobs
  BY SetupProperties
<1>2. IsFiniteSet(Pending) /\ Cardinality(Pending) \in Nat
  BY PendingFinite
<1>3. LockOK'
  <2>1. UNCHANGED <<jobPc, lock, alertPc>>
    BY Zenon DEF HelperStep, Signal, ReportStop, ForgetSignals, BeginShutdown, StopCron, CronDone,
         ShutdownDone, ShutdownTimesOut, ReportOverdue, Accept, ReportError, Answer, Announce
  <2> QED BY <2>1 DEF LockOK, Alerting
<1>4. CASE Signal
  <2>1. LifeTypeOK'
    BY <1>1, <1>4 DEF Signal, LifeTypeOK
  <2>2. GroupOK'
    BY <1>1, <1>4, <1>2 DEF Signal, GroupOK, Pending, Counted, CronCounts, ShutdownCounts, LifeTypeOK
  <2>3. JobsOK'
    BY <1>1, <1>4 DEF Signal, JobsOK, LifeTypeOK
  <2>4. JoinedOK'
    BY <1>1, <1>4 DEF Signal, JoinedOK, JobsOK, CronCounts, ShutdownCounts
  <2>5. ControlOK'
    BY <1>1, <1>4 DEF Signal, ControlOK, JobsOK, Serving
  <2> QED BY <1>3, <2>1, <2>2, <2>3, <2>4, <2>5
<1>5. CASE ReportStop
  <2>1. LifeTypeOK'
    BY <1>1, <1>5 DEF ReportStop, Announce, Send, LifeTypeOK
  <2>2. GroupOK'
    BY <1>1, <1>5, <1>2 DEF ReportStop, Announce, Send, GroupOK, Pending, Counted, CronCounts, ShutdownCounts, LifeTypeOK
  <2>3. JobsOK'
    BY <1>1, <1>5 DEF ReportStop, Announce, Send, JobsOK, LifeTypeOK
  <2>4. JoinedOK'
    BY <1>1, <1>5 DEF ReportStop, Announce, Send, JoinedOK, JobsOK, CronCounts, ShutdownCounts
  <2>5. ControlOK'
    BY <1>1, <1>5 DEF ReportStop, Announce, Send, ControlOK, JobsOK, Serving
  <2> QED BY <1>3, <2>1, <2>2, <2>3, <2>4, <2>5
<1>6. CASE ForgetSignals
  <2>1. LifeTypeOK'
    BY <1>1, <1>6 DEF ForgetSignals, LifeTypeOK
  <2>2. GroupOK'
    BY <1>1, <1>6, <1>2 DEF ForgetSignals, GroupOK, Pending, Counted, CronCounts, ShutdownCounts, LifeTypeOK
  <2>3. JobsOK'
    BY <1>1, <1>6 DEF ForgetSignals, JobsOK, LifeTypeOK
  <2>4. JoinedOK'
    BY <1>1, <1>6 DEF ForgetSignals, JoinedOK, JobsOK, CronCounts, ShutdownCounts
  <2>5. ControlOK'
    BY <1>1, <1>6 DEF ForgetSignals, ControlOK, JobsOK, Serving
  <2> QED BY <1>3, <2>1, <2>2, <2>3, <2>4, <2>5
<1>7. CASE BeginShutdown
  <2>1. LifeTypeOK'
    BY <1>1, <1>7 DEF BeginShutdown, LifeTypeOK
  <2>2. GroupOK'
    BY <1>1, <1>7, <1>2 DEF BeginShutdown, JobsOK, GroupOK, Pending, Counted, CronCounts, ShutdownCounts
  <2>3. JobsOK'
    BY <1>1, <1>7 DEF BeginShutdown, JobsOK, LifeTypeOK
  <2>4. JoinedOK'
    BY <1>1, <1>7 DEF BeginShutdown, JoinedOK, JobsOK, CronCounts, ShutdownCounts
  <2>5. ControlOK'
    BY <1>1, <1>7 DEF BeginShutdown, ControlOK, JobsOK, Serving
  <2> QED BY <1>3, <2>1, <2>2, <2>3, <2>4, <2>5
<1>8. CASE StopCron
  <2>1. LifeTypeOK'
    BY <1>1, <1>8 DEF StopCron, LifeTypeOK
  <2>2. GroupOK'
    BY <1>1, <1>8, <1>2 DEF StopCron, GroupOK, Pending, Counted, CronCounts, ShutdownCounts, LifeTypeOK
  <2>3. JobsOK'
    BY <1>1, <1>8 DEF StopCron, JobsOK, LifeTypeOK
  <2>4. JoinedOK'
    BY <1>1, <1>8 DEF StopCron, JoinedOK, JobsOK, CronCounts, ShutdownCounts
  <2>5. ControlOK'
    BY <1>1, <1>8 DEF StopCron, ControlOK, JobsOK, Serving
  <2> QED BY <1>3, <2>1, <2>2, <2>3, <2>4, <2>5
<1>9. CASE CronDone
  <2>1. LifeTypeOK'
    BY <1>1, <1>9 DEF CronDone, LifeTypeOK
  <2>2. GroupOK'
    BY <1>1, <1>9, <1>2 DEF CronDone, GroupOK, Pending, Counted, CronCounts, ShutdownCounts, LifeTypeOK
  <2>3. JobsOK'
    BY <1>1, <1>9 DEF CronDone, JobsOK, LifeTypeOK
  <2>4. JoinedOK'
    BY <1>1, <1>9 DEF CronDone, JoinedOK, JobsOK, CronCounts, ShutdownCounts
  <2>5. ControlOK'
    BY <1>1, <1>9 DEF CronDone, ControlOK, JobsOK, Serving
  <2> QED BY <1>3, <2>1, <2>2, <2>3, <2>4, <2>5
<1>10. CASE ShutdownDone
  <2>1. LifeTypeOK'
    BY <1>1, <1>10 DEF ShutdownDone, LifeTypeOK
  <2>2. GroupOK'
    BY <1>1, <1>10, <1>2 DEF ShutdownDone, GroupOK, Pending, Counted, CronCounts, ShutdownCounts, LifeTypeOK
  <2>3. JobsOK'
    BY <1>1, <1>10 DEF ShutdownDone, JobsOK, LifeTypeOK
  <2>4. JoinedOK'
    BY <1>1, <1>10 DEF ShutdownDone, JoinedOK, JobsOK, CronCounts, ShutdownCounts
  <2>5. ControlOK'
    BY <1>1, <1>10 DEF ShutdownDone, ControlOK, JobsOK, Serving
  <2> QED BY <1>3, <2>1, <2>2, <2>3, <2>4, <2>5
<1>11. CASE ShutdownTimesOut
  <2>1. LifeTypeOK'
    BY <1>1, <1>11 DEF ShutdownTimesOut, LifeTypeOK
  <2>2. GroupOK'
    BY <1>1, <1>11, <1>2 DEF ShutdownTimesOut, GroupOK, Pending, Counted, CronCounts, ShutdownCounts, LifeTypeOK
  <2>3. JobsOK'
    BY <1>1, <1>11 DEF ShutdownTimesOut, JobsOK, LifeTypeOK
  <2>4. JoinedOK'
    BY <1>1, <1>11 DEF ShutdownTimesOut, JoinedOK, JobsOK, CronCounts, ShutdownCounts
  <2>5. ControlOK'
    BY <1>1, <1>11 DEF ShutdownTimesOut, ControlOK, JobsOK, Serving
  <2> QED BY <1>3, <2>1, <2>2, <2>3, <2>4, <2>5
<1>12. CASE ReportOverdue
  <2>1. LifeTypeOK'
    BY <1>1, <1>12 DEF ReportOverdue, Announce, Send, LifeTypeOK
  <2>2. GroupOK'
    BY <1>1, <1>12, <1>2 DEF ReportOverdue, Announce, Send, GroupOK, Pending, Counted, CronCounts, ShutdownCounts, LifeTypeOK
  <2>3. JobsOK'
    BY <1>1, <1>12 DEF ReportOverdue, Announce, Send, JobsOK, LifeTypeOK
  <2>4. JoinedOK'
    BY <1>1, <1>12 DEF ReportOverdue, Announce, Send, JoinedOK, JobsOK, CronCounts, ShutdownCounts
  <2>5. ControlOK'
    BY <1>1, <1>12 DEF ReportOverdue, Announce, Send, ControlOK, JobsOK, Serving
  <2> QED BY <1>3, <2>1, <2>2, <2>3, <2>4, <2>5
<1>13. CASE Accept
  <2>1. LifeTypeOK'
    BY <1>1, <1>13 DEF Accept, LifeTypeOK
  <2>2. GroupOK'
    BY <1>1, <1>13, <1>2 DEF Accept, GroupOK, Pending, Counted, CronCounts, ShutdownCounts, LifeTypeOK
  <2>3. JobsOK'
    BY <1>1, <1>13 DEF Accept, JobsOK, LifeTypeOK
  <2>4. JoinedOK'
    BY <1>1, <1>13 DEF Accept, JoinedOK, JobsOK, CronCounts, ShutdownCounts
  <2>5. ControlOK'
    BY <1>1, <1>13 DEF Accept, ControlOK, JobsOK, Serving
  <2> QED BY <1>3, <2>1, <2>2, <2>3, <2>4, <2>5
<1>14. CASE ReportError
  <2>1. LifeTypeOK'
    BY <1>1, <1>14 DEF ReportError, Announce, Send, LifeTypeOK
  <2>2. GroupOK'
    BY <1>1, <1>14, <1>2 DEF ReportError, Announce, Send, GroupOK, Pending, Counted, CronCounts, ShutdownCounts, LifeTypeOK
  <2>3. JobsOK'
    BY <1>1, <1>14 DEF ReportError, Announce, Send, JobsOK, LifeTypeOK
  <2>4. JoinedOK'
    BY <1>1, <1>14 DEF ReportError, Announce, Send, JoinedOK, JobsOK, CronCounts, ShutdownCounts
  <2>5. ControlOK'
    BY <1>1, <1>14 DEF ReportError, Announce, Send, ControlOK, JobsOK, Serving
  <2> QED BY <1>3, <2>1, <2>2, <2>3, <2>4, <2>5
<1>15. CASE Answer
  <2>1. LifeTypeOK'
    BY <1>1, <1>15 DEF Answer, LifeTypeOK
  <2>2. GroupOK'
    BY <1>1, <1>15, <1>2 DEF Answer, GroupOK, Pending, Counted, CronCounts, ShutdownCounts, LifeTypeOK
  <2>3. JobsOK'
    BY <1>1, <1>15 DEF Answer, JobsOK, LifeTypeOK
  <2>4. JoinedOK'
    BY <1>1, <1>15 DEF Answer, JoinedOK, JobsOK, CronCounts, ShutdownCounts
  <2>5. ControlOK'
    BY <1>1, <1>15 DEF Answer, ControlOK, JobsOK, Serving
  <2> QED BY <1>3, <2>1, <2>2, <2>3, <2>4, <2>5
<1> QED BY Zenon, <1>4, <1>5, <1>6, <1>7, <1>8, <1>9, <1>10, <1>11, <1>12, <1>13, <1>14, <1>15 DEF HelperStep

-----------------------------------------------------------------------------
(* Jobs.                                                                    *)

\* The places of Report a step of a job leads from and to.
LEMMA JobMoves ==
  ASSUME ReportingTypeOK, NEW j \in Jobs, RunJob(j)
  PROVE  /\ j \in started /\ jobPc[j] # "over"
         /\ jobPc' \in [Jobs -> {"idle", "sending", "locking", "alerting", "realerting", "over"}]
         /\ jobPc'[j] # "over" /\ \A i \in Jobs \ {j} : jobPc'[i] = jobPc[i]
         /\ reports' \in [Jobs -> Nat] /\ \A i \in Jobs \ {j} : reports'[i] = reports[i]
         /\ UNCHANGED <<closed, written, stopped>>
         /\ UNCHANGED lifeVars
<1>1. JobStep(j) /\ j \in started /\ UNCHANGED lifeVars
  BY DEF RunJob
<1>2. /\ jobPc \in [Jobs -> {"idle", "sending", "locking", "alerting", "realerting", "over"}]
      /\ reports \in [Jobs -> Nat]
  BY DEF ReportingTypeOK
<1>3. CASE StartReport(j)
  BY <1>1, <1>2, <1>3 DEF StartReport
<1>4. CASE SendRecord(j)
  BY <1>1, <1>2, <1>4 DEF SendRecord, Send
<1>5. CASE ApplyQuietly(j)
  BY <1>1, <1>2, <1>5 DEF ApplyQuietly
<1>6. CASE FireAlerts(j)
  BY <1>1, <1>2, <1>6 DEF FireAlerts
<1>7. CASE FireAgain(j)
  BY <1>1, <1>2, <1>7 DEF FireAgain
<1>8. CASE AlertsDone(j)
  BY <1>1, <1>2, <1>8 DEF AlertsDone
<1> QED BY Zenon, <1>1, <1>3, <1>4, <1>5, <1>6, <1>7, <1>8 DEF JobStep

\* Only the job that has the lock is alerting.
LEMMA JobLock ==
  ASSUME ReportingTypeOK, LockOK, NEW j \in Jobs, RunJob(j)
  PROVE  LockOK'
<1>1. JobStep(j)
  BY DEF RunJob
<1>2. jobPc \in [Jobs -> {"idle", "sending", "locking", "alerting", "realerting", "over"}] /\ None \notin Jobs
  BY ReportingAssumption DEF ReportingTypeOK
<1>3. CASE StartReport(j)
  BY <1>2, <1>3 DEF StartReport, LockOK, Alerting
<1>4. CASE SendRecord(j)
  BY <1>2, <1>4 DEF SendRecord, LockOK, Alerting
<1>5. CASE ApplyQuietly(j)
  BY <1>2, <1>5 DEF ApplyQuietly, LockOK, Alerting
<1>6. CASE FireAlerts(j)
  BY <1>2, <1>6 DEF FireAlerts, LockOK, Alerting
<1>7. CASE FireAgain(j)
  BY <1>2, <1>7 DEF FireAgain, LockOK, Alerting
<1>8. CASE AlertsDone(j)
  BY <1>2, <1>8 DEF AlertsDone, LockOK, Alerting
<1> QED BY Zenon, <1>1, <1>3, <1>4, <1>5, <1>6, <1>7, <1>8 DEF JobStep

\* A job runs only before main returns, and keeps everybody else in place.
LEMMA JobPlaces ==
  ASSUME ReportingTypeOK, PlacesOK, NEW j \in Jobs, RunJob(j)
  PROVE  PlacesOK' /\ ~closed /\ ~stopped
<1> USE DEF PlacesOK
<1>1. /\ j \in started /\ jobPc[j] # "over"
      /\ jobPc'[j] # "over" /\ \A i \in Jobs \ {j} : jobPc'[i] = jobPc[i]
      /\ \A i \in Jobs \ {j} : reports'[i] = reports[i]
      /\ UNCHANGED <<closed, written, stopped>>
      /\ UNCHANGED lifeVars
  BY JobMoves
<1>2. main \notin {"returned", "closing", "exited"} /\ ~closed /\ ~stopped
  BY <1>1 DEF JoinedOK
<1>3. LifeTypeOK' /\ started \subseteq Jobs
  BY <1>1 DEF LifeTypeOK
<1>4. LockOK'
  BY JobLock
<1>5. GroupOK'
  <2>1. \A i \in started : jobPc'[i] = "over" <=> jobPc[i] = "over"
    BY <1>1, <1>3
  <2>2. Pending' = Pending
    BY <1>1, <2>1 DEF Pending, Counted
  <2> QED BY <1>1, <2>2 DEF GroupOK, CronCounts, ShutdownCounts
<1>6. JobsOK'
  <2>1. \A i \in Jobs \ started : i # j
    BY <1>1
  <2>2. \A i \in Jobs \ started : jobPc'[i] = "idle" /\ reports'[i] = 0
    BY <1>1, <2>1 DEF JobsOK
  <2>3. cron = "waited" => \A i \in started \ setup.kicked : jobPc'[i] = "over"
    BY <1>1, <1>3 DEF JobsOK
  <2> QED BY <1>1, <2>2, <2>3 DEF JobsOK
<1>7. JoinedOK'
  BY <1>1, <1>2 DEF JoinedOK
<1>8. ControlOK'
  BY <1>1 DEF ControlOK, Serving
<1> QED BY <1>2, <1>3, <1>4, <1>5, <1>6, <1>7, <1>8

\* A job that cron starts was idle, and is not counted.
LEMMA FirePlaces ==
  ASSUME ReportingTypeOK, PlacesOK, NEW j \in Jobs, Fire(j)
  PROVE  PlacesOK'
<1> USE DEF PlacesOK
<1>1. setup.mode \in {"server", "oneshot"} /\ setup.kicked \subseteq Jobs
  BY SetupProperties
<1>2. /\ cron = "running" /\ j \notin started /\ started' = started \cup {j}
      /\ UNCHANGED <<vars, control, cron, signal, shutdown, request, history>>
  BY DEF Fire
<1>3. LifeTypeOK'
  BY <1>2 DEF LifeTypeOK
<1>4. LockOK'
  BY <1>2 DEF LockOK, Alerting
<1>5. GroupOK'
  <2>1. setup.mode # "oneshot" /\ j \notin setup.kicked
    BY <1>2 DEF JobsOK
  <2>2. Pending' = Pending
    BY <1>2, <2>1 DEF Pending, Counted
  <2> QED BY <1>2, <2>2 DEF GroupOK, CronCounts, ShutdownCounts
<1>6. JobsOK'
  BY <1>2 DEF JobsOK
<1>7. JoinedOK'
  BY <1>2 DEF JoinedOK, CronCounts, ShutdownCounts
<1>8. ControlOK'
  BY <1>2 DEF ControlOK, Serving
<1> QED BY <1>3, <1>4, <1>5, <1>6, <1>7, <1>8

\* A job that ends is not counted any more.
LEMMA EndPlaces ==
  ASSUME ReportingTypeOK, PlacesOK, NEW j \in Jobs, EndJob(j)
  PROVE  PlacesOK' /\ ReportingTypeOK'
<1> USE DEF PlacesOK
<1>1. /\ j \in started /\ jobPc[j] = "idle"
      /\ jobPc' = [jobPc EXCEPT ![j] = "over"]
      /\ wg' = (IF Counted(j) THEN wg - 1 ELSE wg)
      /\ UNCHANGED <<channelVars, writerVars, historyVars, reports, alertPc>>
      /\ UNCHANGED <<setup, main, exitCode, cancelled, helpers, history>>
  BY DEF EndJob
<1>2. ReportingTypeOK' /\ jobPc'[j] = "over" /\ \A i \in Jobs \ {j} : jobPc'[i] = jobPc[i]
  BY <1>1 DEF ReportingTypeOK
<1>3. LifeTypeOK' /\ started \subseteq Jobs
  BY <1>1 DEF LifeTypeOK
<1>4. LockOK'
  BY <1>1, <1>2 DEF LockOK, Alerting
<1>5. GroupOK'
  <2>1. IsFiniteSet(Pending) /\ Cardinality(Pending) \in Nat
    BY PendingFinite
  <2>2. CASE Counted(j)
    <3>1. Pending' = Pending \ {j} /\ j \in Pending
      BY <1>1, <1>2, <1>3, <2>2 DEF Pending, Counted
    <3>2. Cardinality(Pending') = Cardinality(Pending) - 1
      BY <2>1, <3>1, FS_RemoveElement
    <3>3. wg' = wg - 1
      BY <1>1, <2>2
    <3> QED BY <1>1, <2>1, <3>2, <3>3 DEF GroupOK, CronCounts, ShutdownCounts
  <2>3. CASE ~Counted(j)
    <3>1. Pending' = Pending
      BY <1>1, <1>2, <1>3, <2>3 DEF Pending, Counted
    <3>2. wg' = wg
      BY <1>1, <2>3
    <3> QED BY <1>1, <3>1, <3>2 DEF GroupOK, CronCounts, ShutdownCounts
  <2> QED BY <2>2, <2>3
<1>6. JobsOK'
  BY <1>1, <1>2, <1>3 DEF JobsOK
<1>7. JoinedOK'
  BY <1>1, <1>2, <1>3 DEF JoinedOK, CronCounts, ShutdownCounts
<1>8. ControlOK'
  BY <1>1 DEF ControlOK, Serving
<1> QED BY <1>2, <1>3, <1>4, <1>5, <1>6, <1>7, <1>8

-----------------------------------------------------------------------------
(* What jobs, alerts and the writer do to the log.                          *)

\* The record of the report a job is at.
LEMMA CurrentRecord ==
  ASSUME ReportingTypeOK, NEW j \in Jobs
  PROVE  /\ Current(j) \in LogRecord /\ Current(j) = ProbeRecord(j, reports[j])
         /\ Current(j).by = j /\ Current(j).rank = reports[j] /\ j # Ayd /\ reports[j] \in Nat
<1>1. reports[j] \in Nat
  BY DEF ReportingTypeOK
<1>2. j # Ayd
  BY ReportingAssumption
<1> QED BY <1>1, <1>2 DEF Current, ProbeRecord, LogRecord

\* Beginning a report leaves the log of all reports before it.
LEMMA StartReportLog ==
  ASSUME ReportingTypeOK, LogOK, AnnouncedOK, NEW j \in Jobs, StartReport(j), UNCHANGED lifeVars
  PROVE  ReportingTypeOK' /\ LogOK' /\ AnnouncedOK'
<1>1. /\ jobPc[j] = "idle" /\ jobPc'[j] = "sending" /\ reports'[j] = reports[j] + 1 /\ reports[j] \in Nat
      /\ \A i \in Jobs \ {j} : jobPc'[i] = jobPc[i] /\ reports'[i] = reports[i]
      /\ UNCHANGED <<channelVars, writerVars, historyVars, alertPc>>
  BY DEF StartReport, ReportingTypeOK
<1>2. ReportingTypeOK'
  BY DEF StartReport, ReportingTypeOK
<1>3. Log' = Log /\ applied' = applied /\ announced' = announced /\ main' = main
  BY <1>1 DEF Log
<1>4. AnnouncedOK'
  BY <1>3 DEF AnnouncedOK, FirstOfAyd
<1>5. LogOK'
  <2>1. \A i \in Jobs : \A n \in 1 .. reports'[i] :
          (n = reports'[i] /\ jobPc'[i] = "sending") \/ ProbeRecord(i, n) \in Range(Log)'
    <3> SUFFICES ASSUME NEW i \in Jobs, NEW n \in 1 .. reports'[i], ~(n = reports'[i] /\ jobPc'[i] = "sending")
                 PROVE  ProbeRecord(i, n) \in Range(Log)
      BY <1>3
    <3>1. CASE i = j
      <4>1. n \in 1 .. reports[j]
        BY <1>1, <3>1
      <4> QED BY <1>1, <3>1, <4>1 DEF LogOK
    <3>2. CASE i # j
      BY <1>1, <3>2 DEF LogOK
    <3> QED BY <3>1, <3>2
  <2>2. /\ \A r \in Range(Log) : r \in LogRecord /\ RankOK(r, BeforeLog)
        /\ \A r \in Range(applied) : r \in LogRecord /\ RankOK(r, BeforeHistory)
    <3>1. Log \in Seq(LogRecord) /\ applied \in Seq(LogRecord)
      BY DEF Log, ReportingTypeOK
    <3>2. \A r \in Range(Log) \cup Range(applied) : r \in LogRecord
      BY <3>1, ElementOfSeq, LenProperties DEF Range
    <3> QED BY <3>2 DEF LogOK
  <2>3. \A r \in LogRecord, places \in {BeforeLog, BeforeHistory} : RankOK(r, places) => RankOK(r, places)'
    <3> SUFFICES ASSUME NEW r \in LogRecord, NEW places \in {BeforeLog, BeforeHistory},
                        RankOK(r, places), r.by \in Jobs
                 PROVE  r.rank <= reports'[r.by] /\ (jobPc'[r.by] \in places => r.rank < reports'[r.by])
      BY <1>1 DEF RankOK, BeforeLog, BeforeHistory
    <3>1. r.rank \in Nat /\ r.rank <= reports[r.by] /\ (jobPc[r.by] \in places => r.rank < reports[r.by])
      BY DEF RankOK, LogRecord
    <3>2. CASE r.by = j
      BY <1>1, <3>1, <3>2
    <3>3. CASE r.by # j
      BY <1>1, <3>1, <3>3
    <3> QED BY <3>2, <3>3
  <2>4. Ordered(Log)' /\ Ordered(applied)' /\ Range(applied)' \subseteq Range(Log)'
    BY <1>3 DEF LogOK, Ordered
  <2>5. \A i \in Jobs : jobPc'[i] \in BeforeHistory => reports'[i] > 0
    BY <1>1 DEF LogOK
  <2> QED BY <1>3, <2>1, <2>2, <2>3, <2>4, <2>5 DEF LogOK
<1> QED BY <1>2, <1>4, <1>5

\* The record a job sends is the newest of its records in the log.
LEMMA SendRecordLog ==
  ASSUME ReportingTypeOK, LogOK, AnnouncedOK, NEW j \in Jobs, SendRecord(j), UNCHANGED lifeVars
  PROVE  ReportingTypeOK' /\ LogOK' /\ AnnouncedOK'
<1> DEFINE r == Current(j)
<1>1. /\ r \in LogRecord /\ r = ProbeRecord(j, reports[j])
      /\ r.by = j /\ r.rank = reports[j] /\ j # Ayd /\ reports[j] \in Nat
  BY CurrentRecord
<1>2. /\ Send(r) /\ jobPc[j] = "sending" /\ jobPc'[j] = "locking" /\ \A i \in Jobs \ {j} : jobPc'[i] = jobPc[i]
      /\ UNCHANGED <<closed, writerVars, historyVars, reports, alertPc>>
  BY DEF SendRecord, ReportingTypeOK, Send
<1> HIDE DEF r
<1>3. /\ Log' = Append(Log, r) /\ Log \in Seq(LogRecord) /\ Range(Log)' = Range(Log) \cup {r}
      /\ queue' \in Seq(LogRecord) /\ written' \in Seq(LogRecord)
  BY <1>1, <1>2, SendAppends
<1>4. ReportingTypeOK'
  BY <1>2, <1>3 DEF SendRecord, ReportingTypeOK
<1>5. AnnouncedOK'
  BY <1>1, <1>2, OthersAnnounced
<1>6. LogOK'
  <2>1. Ordered(Append(Log, r))
    <3>1. \A x \in Range(Log) : x.by = r.by => x.rank < r.rank
      BY <1>1, <1>2 DEF LogOK, RankOK, BeforeLog
    <3> QED BY <1>1, <1>3, <3>1, AppendOrdered DEF LogOK
  <2>2. Ordered(Log)' /\ Ordered(applied)'
    BY <1>2, <1>3, <2>1 DEF LogOK, Ordered
  <2>3. \A i \in Jobs : \A n \in 1 .. reports'[i] :
          (n = reports'[i] /\ jobPc'[i] = "sending") \/ ProbeRecord(i, n) \in Range(Log)'
    BY <1>1, <1>2, <1>3 DEF LogOK
  <2>4. \A x, places : places \in {BeforeLog, BeforeHistory} /\ RankOK(x, places) => RankOK(x, places)'
    BY <1>2 DEF RankOK, BeforeLog, BeforeHistory
  <2>5. \A x : x = r => RankOK(x, BeforeLog)'
    BY <1>1, <1>2 DEF RankOK, BeforeLog
  <2>6. \A i \in Jobs : jobPc'[i] \in BeforeHistory => reports'[i] > 0
    BY <1>2 DEF LogOK, BeforeHistory
  <2> QED BY <1>2, <1>3, <2>2, <2>3, <2>4, <2>5, <2>6 DEF LogOK
<1> QED BY <1>4, <1>5, <1>6

\* The record a job applies is in the log, and the newest of its records in the history.
LEMMA ApplyLog ==
  ASSUME ReportingTypeOK, LogOK, AnnouncedOK, NEW j \in Jobs, UNCHANGED lifeVars,
         jobPc[j] \in {"locking", "alerting", "realerting"},
         applied' = Append(applied, Current(j)), jobPc' = [jobPc EXCEPT ![j] = "idle"],
         lock' \in {lock, None}, UNCHANGED <<channelVars, writerVars, reports, alertPc>>
  PROVE  ReportingTypeOK' /\ LogOK' /\ AnnouncedOK'
<1> DEFINE r == Current(j)
<1>1. /\ r \in LogRecord /\ r = ProbeRecord(j, reports[j])
      /\ r.by = j /\ r.rank = reports[j] /\ j # Ayd /\ reports[j] \in Nat
  BY CurrentRecord
<1>2. applied' = Append(applied, r)
  OBVIOUS
<1> HIDE DEF r
<1>3. jobPc'[j] = "idle" /\ \A i \in Jobs \ {j} : jobPc'[i] = jobPc[i]
  BY DEF ReportingTypeOK
<1>4. Log' = Log /\ main' = main /\ announced' = announced
  BY DEF Log
<1>5. ReportingTypeOK'
  BY <1>1, <1>2 DEF ReportingTypeOK
<1>6. AnnouncedOK'
  BY <1>4 DEF AnnouncedOK, FirstOfAyd
<1>7. LogOK'
  <2>1. applied \in Seq(LogRecord)
    BY DEF ReportingTypeOK
  <2>2. Range(applied)' = Range(applied) \cup {r}
    BY <1>1, <1>2, <2>1, AppendRange
  <2>3. r \in Range(Log)
    <3>1. reports[j] \in 1 .. reports[j] /\ jobPc[j] # "sending"
      BY <1>1 DEF LogOK, BeforeHistory
    <3> QED BY <1>1, <3>1 DEF LogOK
  <2>4. Ordered(Append(applied, r))
    <3>1. \A x \in Range(applied) : x.by = r.by => x.rank < r.rank
      BY <1>1 DEF LogOK, RankOK, BeforeHistory
    <3> QED BY <1>1, <2>1, <3>1, AppendOrdered DEF LogOK
  <2>5. Ordered(Log)' /\ Ordered(applied)'
    BY <1>2, <1>4, <2>4 DEF LogOK, Ordered
  <2>6. \A x, places : places \in {BeforeLog, BeforeHistory} /\ RankOK(x, places) => RankOK(x, places)'
    BY <1>3 DEF RankOK, BeforeLog, BeforeHistory
  <2>7. \A x : x = r => RankOK(x, BeforeHistory)'
    BY <1>1, <1>3 DEF RankOK, BeforeHistory
  <2>8. \A i \in Jobs : jobPc'[i] \in BeforeHistory => reports'[i] > 0
    BY <1>3 DEF LogOK, BeforeHistory
  <2>9. \A i \in Jobs : \A n \in 1 .. reports'[i] :
          (n = reports'[i] /\ jobPc'[i] = "sending") \/ ProbeRecord(i, n) \in Range(Log)'
    BY <1>3, <1>4 DEF LogOK
  <2> QED BY <1>4, <2>2, <2>3, <2>5, <2>6, <2>7, <2>8, <2>9 DEF LogOK
<1> QED BY <1>5, <1>6, <1>7

\* Whatever a job does in Report.
LEMMA JobLog ==
  ASSUME ReportingTypeOK, LogOK, AnnouncedOK, NEW j \in Jobs, RunJob(j)
  PROVE  ReportingTypeOK' /\ LogOK' /\ AnnouncedOK'
<1>1. JobStep(j) /\ UNCHANGED lifeVars
  BY DEF RunJob
<1>2. CASE StartReport(j)
  BY <1>1, <1>2, StartReportLog
<1>3. CASE SendRecord(j)
  BY <1>1, <1>3, SendRecordLog
<1>4. CASE ApplyQuietly(j)
  BY <1>1, <1>4, ApplyLog DEF ApplyQuietly
<1>5. CASE FireAlerts(j)
  <2>1. ReportingTypeOK'
    BY <1>5 DEF FireAlerts, ReportingTypeOK
  <2>2. /\ Log' = Log /\ UNCHANGED <<applied, reports, announced, main>>
        /\ jobPc[j] = "locking" /\ jobPc'[j] = "alerting" /\ \A i \in Jobs \ {j} : jobPc'[i] = jobPc[i]
    BY <1>1, <1>5 DEF FireAlerts, Log, ReportingTypeOK
  <2> QED BY <2>1, <2>2, QuietLog
<1>6. CASE FireAgain(j)
  <2>1. ReportingTypeOK'
    BY <1>6 DEF FireAgain, ReportingTypeOK
  <2>2. /\ Log' = Log /\ UNCHANGED <<applied, reports, announced, main>>
        /\ jobPc[j] = "alerting" /\ jobPc'[j] = "realerting" /\ \A i \in Jobs \ {j} : jobPc'[i] = jobPc[i]
    BY <1>1, <1>6 DEF FireAgain, Log, ReportingTypeOK
  <2> QED BY <2>1, <2>2, QuietLog
<1>7. CASE AlertsDone(j)
  BY <1>1, <1>7, ApplyLog DEF AlertsDone
<1> QED BY Zenon, <1>1, <1>2, <1>3, <1>4, <1>5, <1>6, <1>7 DEF JobStep

\* What an alert and the writer keep.
LEMMA OthersPlaces ==
  ASSUME PlacesOK, LockOK', ~stopped \/ UNCHANGED queue,
         UNCHANGED <<jobPc, reports, closed, stopped, lifeVars>>
  PROVE  PlacesOK'
<1> USE DEF PlacesOK
<1>1. LifeTypeOK' /\ ControlOK' /\ JobsOK'
  BY DEF LifeTypeOK, ControlOK, JobsOK, Serving
<1>2. GroupOK'
  BY DEF GroupOK, Pending, Counted, CronCounts, ShutdownCounts
<1>3. JoinedOK'
  <2>1. UNCHANGED <<main, started, jobPc, cron, shutdown, closed>>
    OBVIOUS
  <2>2. stopped' => closed' /\ queue' = <<>>
    BY DEF JoinedOK
  <2>3. main' = "exited" => stopped'
    BY DEF JoinedOK
  <2> QED BY <2>1, <2>2, <2>3 DEF JoinedOK, CronCounts, ShutdownCounts
<1> QED BY <1>1, <1>2, <1>3

\* An alert reports while some job has the lock, and nothing while none has.
LEMMA AlertKeeps ==
  ASSUME LifeInv, NEW a \in Alerters, AlertStep(a), UNCHANGED lifeVars
  PROVE  LifeInv'
<1> USE DEF LifeInv
<1>1. alertPc \in [Alerters -> {"sending", "locking", "sent", "done"}]
  BY DEF ReportingTypeOK
<1>2. CASE SendAlertRecord(a)
  <2>1. PICK scheme \in AlertSchemes :
             /\ Send([by |-> a, scheme |-> Prefix(scheme), rank |-> 0])
             /\ alertPc' = [alertPc EXCEPT ![a] = IF IsRecorded(Prefix(scheme)) THEN "locking" ELSE "sent"]
    BY <1>2 DEF SendAlertRecord
  <2>2. /\ alertPc[a] = "sending" /\ ~closed
        /\ UNCHANGED <<closed, writerVars, historyVars, jobVars>>
    BY <1>2, <2>1 DEF SendAlertRecord, Send
  <2> DEFINE r == [by |-> a, scheme |-> Prefix(scheme), rank |-> 0]
  <2>3. r \in LogRecord /\ r.by = a /\ a # Ayd /\ a \notin Jobs
    <3>1. Prefix(scheme) \in {"probe", "alert", "alert-sub", "ayd"} /\ a # Ayd /\ a \notin Jobs
      BY ReportingAssumption DEF Prefix
    <3> QED BY <3>1 DEF LogRecord
  <2>4. Send(r)
    BY <2>1
  <2> HIDE DEF r
  <2>5. queue' \in Seq(LogRecord) /\ written' \in Seq(LogRecord)
    BY <2>2, <2>3, <2>4, SendAppends
  <2>6. alertPc' \in [Alerters -> {"sending", "locking", "sent", "done"}]
    BY <1>1, <2>1
  <2>7. ReportingTypeOK'
    BY <2>2, <2>5, <2>6 DEF ReportingTypeOK
  <2>8. LogOK' /\ AnnouncedOK'
    BY <2>2, <2>3, <2>4, OthersLog, OthersAnnounced
  <2>9. LockOK'
    BY <2>2 DEF PlacesOK, LockOK, Alerting
  <2>10. PlacesOK'
    <3>1. ~stopped'
      BY <2>2 DEF PlacesOK, JoinedOK
    <3> QED BY <2>2, <2>9, <3>1, OthersPlaces
  <2> QED BY <2>7, <2>8, <2>10
<1>3. CASE AlertReturns(a)
  <2>1. ReportingTypeOK'
    BY <1>1, <1>3 DEF AlertReturns, ReportingTypeOK
  <2>2. LockOK'
    BY <1>1, <1>3 DEF AlertReturns, PlacesOK, LockOK, Alerting
  <2>3. PlacesOK'
    BY <1>3, <2>2, OthersPlaces DEF AlertReturns
  <2>4. LogOK' /\ AnnouncedOK'
    <3>1. Log' = Log /\ UNCHANGED <<applied, reports, announced, main, jobPc>>
      BY <1>3 DEF AlertReturns, Log
    <3> QED BY <3>1, QuietLog
  <2> QED BY <2>1, <2>3, <2>4
<1> QED BY <1>2, <1>3 DEF AlertStep

\* The writer only moves records within the log, and stops when none are left to move.
LEMMA WriterKeeps ==
  ASSUME LifeInv, WriterStep, UNCHANGED lifeVars
  PROVE  LifeInv'
<1> USE DEF LifeInv
<1>1. queue \in Seq(LogRecord) /\ written \in Seq(LogRecord)
  BY DEF ReportingTypeOK
<1>2. /\ UNCHANGED <<closed, historyVars, jobVars, alertPc, announced, main>>
      /\ queue' \in Seq(LogRecord) /\ written' \in Seq(LogRecord) /\ stopped' \in BOOLEAN
      /\ Log' = Log
  <2>1. CASE Write
    <3>1. /\ queue # <<>> /\ written' = Append(written, Head(queue)) /\ queue' = Tail(queue)
          /\ UNCHANGED <<closed, stopped, historyVars, jobVars, alertPc>>
      BY <2>1 DEF Write
    <3> DEFINE R == LogRecord
    <3>2. queue \in Seq(R) /\ written \in Seq(R)
      BY <1>1
    <3> HIDE DEF R
    <3>3. Head(queue) \in R /\ Tail(queue) \in Seq(R)
      BY <3>1, <3>2
    <3>4. queue' \in Seq(R) /\ written' \in Seq(R)
      BY <3>1, <3>2, <3>3
    <3>5. Log' = Log
      BY <3>1, <3>2, MoveHead DEF Log
    <3> QED BY <3>1, <3>4, <3>5 DEF R, ReportingTypeOK
  <2>2. CASE Stop
    BY <1>1, <2>2 DEF Stop, Log
  <2> QED BY <2>1, <2>2 DEF WriterStep
<1>3. ReportingTypeOK'
  BY <1>2 DEF ReportingTypeOK
<1>4. LogOK' /\ AnnouncedOK'
  BY <1>2, QuietLog
<1>5. PlacesOK'
  <2>1. LockOK'
    BY <1>2 DEF PlacesOK, LockOK, Alerting
  <2>2. CASE Write
    BY <1>2, <2>1, <2>2, OthersPlaces DEF Write
  <2>3. CASE Stop
    <3>1. LifeTypeOK' /\ ControlOK' /\ JobsOK' /\ GroupOK'
      BY <1>2 DEF PlacesOK, LifeTypeOK, ControlOK, JobsOK, Serving, GroupOK, Pending, Counted, CronCounts,
           ShutdownCounts
    <3>2. JoinedOK'
      BY <2>3 DEF Stop, PlacesOK, JoinedOK, CronCounts, ShutdownCounts
    <3> QED BY <2>1, <3>1, <3>2 DEF PlacesOK
  <2> QED BY <2>2, <2>3 DEF WriterStep
<1> QED BY <1>3, <1>4, <1>5

-----------------------------------------------------------------------------
(* The invariant.                                                           *)

\* A step of main announces an event, or leaves the log alone.
LEMMA MainKeeps ==
  ASSUME LifeInv, MainStep
  PROVE  LifeInv'
<1> USE DEF LifeInv
<1>1. PlacesOK'
  BY MainPlaces
<1>2. CASE ReportStart
  <2>1. Announce(Began) /\ main = "starting" /\ main' # "starting"
    BY <1>2 DEF ReportStart
  <2> QED BY <1>1, <2>1, AnnounceLog
<1>3. CASE ReportFailure
  <2>1. Announce(Trouble) /\ main' # "starting" /\ Trouble # Began
    BY <1>3 DEF ReportFailure, Trouble, Began
  <2> QED BY <1>1, <2>1, AnnounceLog
<1>4. CASE ~ReportStart /\ ~ReportFailure
  <2>1. /\ UNCHANGED <<queue, written, stopped, lock, applied, jobPc, reports, alertPc, announced>>
        /\ main' # "starting" /\ closed' \in {closed, TRUE}
    BY <1>4 DEF MainStep, FailToStart, StartServer, StartOneshot, ServerClosed, ServeFails, AllDone,
         CloseStore, Close, Exit
  <2>2. ReportingTypeOK'
    BY <2>1 DEF ReportingTypeOK
  <2>3. Log' = Log
    BY <2>1 DEF Log
  <2> QED BY <1>1, <2>1, <2>2, <2>3, QuietLog
<1> QED BY <1>2, <1>3, <1>4

\* So does a step of the other goroutines of main.
LEMMA HelperKeeps ==
  ASSUME LifeInv, HelperStep
  PROVE  LifeInv'
<1> USE DEF LifeInv
<1>1. PlacesOK'
  BY HelperPlaces
<1>2. CASE ReportStop
  <2>1. Announce(Stopping) /\ main' # "starting" /\ Stopping # Began
    BY <1>2 DEF ReportStop, Stopping, Began, PlacesOK, ControlOK
  <2> QED BY <1>1, <2>1, AnnounceLog
<1>3. CASE ReportOverdue
  <2>1. Announce(Trouble) /\ main' # "starting" /\ Trouble # Began
    BY <1>3 DEF ReportOverdue, Trouble, Began, PlacesOK, JobsOK
  <2> QED BY <1>1, <2>1, AnnounceLog
<1>4. CASE ReportError
  <2>1. Announce(Trouble) /\ main' # "starting" /\ Trouble # Began
    BY <1>4 DEF ReportError, Trouble, Began, PlacesOK, JobsOK, ControlOK
  <2> QED BY <1>1, <2>1, AnnounceLog
<1>5. CASE ~ReportStop /\ ~ReportOverdue /\ ~ReportError
  <2>1. UNCHANGED <<vars, announced, main>>
    BY Zenon, <1>5 DEF HelperStep, Signal, ForgetSignals, BeginShutdown, StopCron, CronDone, ShutdownDone,
         ShutdownTimesOut, Accept, Answer
  <2>2. ReportingTypeOK'
    BY <2>1 DEF ReportingTypeOK
  <2>3. Log' = Log
    BY <2>1 DEF Log
  <2> QED BY <1>1, <2>1, <2>2, <2>3, QuietLog
<1> QED BY <1>2, <1>3, <1>4, <1>5

\* Nothing is reported and nobody runs before the start.
LEMMA LifeInitInv == LifeInit => LifeInv
<1> SUFFICES ASSUME LifeInit PROVE LifeInv
  OBVIOUS
<1> USE DEF LifeInit, Init
<1>1. ReportingTypeOK
  <2>1. <<>> \in Seq(LogRecord)
    BY EmptySeq
  <2> QED BY <2>1 DEF ReportingTypeOK
<1>2. LifeTypeOK
  <2>1. setup \in Setups /\ main = "starting" /\ exitCode \in 0 .. 2 /\ wg \in Int
    OBVIOUS
  <2>2. cancelled \in BOOLEAN /\ overdue \in BOOLEAN
    OBVIOUS
  <2>3. started \in SUBSET Jobs /\ announced \in SUBSET {Began, Stopping, Trouble}
    OBVIOUS
  <2>4. cron = "off" /\ signal = "none" /\ shutdown = "none" /\ request = "none"
    OBVIOUS
  <2> HIDE DEF LifeInit
  <2> QED BY <2>1, <2>2, <2>3, <2>4 DEF LifeTypeOK
<1>3. LockOK /\ JobsOK /\ JoinedOK /\ ControlOK
  BY ReportingAssumption DEF LockOK, Alerting, JobsOK, JoinedOK, CronCounts, ShutdownCounts, ControlOK, Serving
<1>4. GroupOK
  <2>1. Pending = {}
    BY DEF Pending
  <2> QED BY <2>1, FS_EmptySet DEF GroupOK, CronCounts, ShutdownCounts
<1>5. Log = <<>> /\ DOMAIN Log = {} /\ DOMAIN applied = {}
  BY DEF Log
<1>6. LogOK /\ AnnouncedOK
  BY <1>5 DEF LogOK, AnnouncedOK, FirstOfAyd, Ordered, Range, BeforeHistory
<1> QED BY <1>1, <1>2, <1>3, <1>4, <1>6 DEF LifeInv, PlacesOK

\* No step breaks the invariant.
LEMMA LifeNextInv == LifeInv /\ [LifeNext]_allVars => LifeInv'
<1> SUFFICES ASSUME LifeInv, [LifeNext]_allVars PROVE LifeInv'
  OBVIOUS
<1>1. CASE MainStep
  BY <1>1, MainKeeps
<1>2. CASE HelperStep
  BY <1>2, HelperKeeps
<1>3. ASSUME NEW j \in Jobs, Fire(j)
      PROVE  LifeInv'
  <2>1. PlacesOK'
    BY <1>3, FirePlaces DEF LifeInv
  <2>2. UNCHANGED <<vars, announced, main>>
    BY <1>3 DEF Fire
  <2>3. ReportingTypeOK'
    BY <2>2 DEF LifeInv, ReportingTypeOK
  <2>4. Log' = Log
    BY <2>2 DEF Log
  <2> QED BY <2>1, <2>2, <2>3, <2>4, QuietLog DEF LifeInv
<1>4. ASSUME NEW j \in Jobs, RunJob(j)
      PROVE  LifeInv'
  BY <1>4, JobPlaces, JobLog DEF LifeInv
<1>5. ASSUME NEW j \in Jobs, EndJob(j)
      PROVE  LifeInv'
  <2>1. PlacesOK' /\ ReportingTypeOK'
    BY <1>5, EndPlaces DEF LifeInv
  <2>2. /\ Log' = Log /\ UNCHANGED <<applied, reports, announced, main>>
        /\ jobPc[j] = "idle" /\ jobPc'[j] = "over" /\ \A i \in Jobs \ {j} : jobPc'[i] = jobPc[i]
    BY <1>5 DEF EndJob, Log, LifeInv, ReportingTypeOK
  <2> QED BY <2>1, <2>2, QuietLog DEF LifeInv
<1>6. ASSUME NEW a \in Alerters, AlertStep(a), UNCHANGED lifeVars
      PROVE  LifeInv'
  BY <1>6, AlertKeeps
<1>7. CASE WriterStep /\ UNCHANGED lifeVars
  BY <1>7, WriterKeeps
<1>8. CASE UNCHANGED allVars
  <2>1. ReportingTypeOK' /\ Log' = Log
    BY <1>8 DEF LifeInv, ReportingTypeOK, Log
  <2>2. LifeTypeOK' /\ LockOK' /\ GroupOK' /\ JobsOK' /\ JoinedOK' /\ ControlOK'
    BY <1>8 DEF LifeInv, PlacesOK, LifeTypeOK, LockOK, Alerting, GroupOK, Pending, Counted, CronCounts,
         ShutdownCounts, JobsOK, JoinedOK, ControlOK, Serving
  <2> QED BY <1>8, <2>1, <2>2, QuietLog DEF LifeInv, PlacesOK
<1> QED BY Zenon, <1>1, <1>2, <1>3, <1>4, <1>5, <1>6, <1>7, <1>8 DEF LifeNext

\* The inductive invariant holds in every reachable state.
THEOREM LifeInvHolds == LifeSpec => []LifeInv
BY LifeInitInv, LifeNextInv, PTL DEF LifeSpec

-----------------------------------------------------------------------------
(* The theorems.                                                            *)

\* Nobody who counts for Run sends on writeCh after Store.Close (RunServer and
\* RunOneshot wait for the WaitGroup, and cron for its own jobs).
THEOREM NobodySendsOnClosed == LifeSpec => []NoSendOnClosed
<1>1. LifeInv => NoSendOnClosed
  <2> SUFFICES ASSUME LifeInv, closed PROVE NoSendOnClosed
    BY DEF NoSendOnClosed
  <2> USE DEF LifeInv, PlacesOK
  <2>1. setup.mode \in {"server", "oneshot"}
    BY SetupProperties
  <2>2. main \in {"closing", "exited"} /\ (\A j \in started : jobPc[j] = "over") /\ ~CronCounts /\ ~ShutdownCounts
    BY DEF JoinedOK
  <2>3. \A a \in Alerters : alertPc[a] = "done"
    <3>1. \A j \in Jobs : ~Alerting(j)
      BY <2>2 DEF JobsOK, Alerting
    <3>2. lock = None
      BY <3>1 DEF LockOK, ReportingTypeOK
    <3> QED BY <3>2 DEF LockOK
  <2>4. signal = "stopping" => exitCode = 1
    <3> SUFFICES ASSUME signal = "stopping" PROVE exitCode = 1
      OBVIOUS
    <3>1. setup.mode = "server" /\ shutdown # "none"
      BY <2>1, <2>2 DEF ControlOK
    <3>2. shutdown = "done"
      BY <2>2, <3>1 DEF LifeTypeOK, ShutdownCounts
    <3> QED BY <3>1, <3>2 DEF ControlOK
  <2>5. Serving => overdue
    BY <2>2 DEF ControlOK, Serving, LifeTypeOK, ShutdownCounts
  <2> QED BY <2>2, <2>3, <2>4, <2>5 DEF NoSendOnClosed, CronCounts, ShutdownCounts
<1> QED BY <1>1, LifeInvHolds, PTL

\* When the writer is gone, nothing is left in the channel: the log has every record a
\* job reported and the history shows (Store.Close).
THEOREM CloseLosesNothing == LifeSpec => []NothingLostAtClose
<1>1. LifeInv => NothingLostAtClose
  <2> SUFFICES ASSUME LifeInv, stopped PROVE NothingLostAtClose
    BY DEF NothingLostAtClose
  <2> USE DEF LifeInv, PlacesOK
  <2>1. Log = written
    BY DEF JoinedOK, Log, ReportingTypeOK
  <2>2. \A j \in Jobs : jobPc[j] # "sending"
    BY DEF JoinedOK, JobsOK
  <2>3. Range(applied) \subseteq Range(written)
    BY <2>1 DEF LogOK
  <2>4. \A j \in Jobs : \A n \in 1 .. reports[j] : ProbeRecord(j, n) \in Range(written)
    BY <2>1, <2>2 DEF LogOK
  <2> QED BY <2>3, <2>4 DEF NothingLostAtClose, ProbeRecord
<1> QED BY <1>1, LifeInvHolds, PTL

\* The log and the history have the records of a job in the order it reported them
\* (Store.Report sends before it takes the lock, and the lock gives no order by itself).
THEOREM LogIsOrderedPerJob == LifeSpec => []OrderedPerJob
<1>1. LifeInv => OrderedPerJob
  <2> SUFFICES ASSUME LifeInv PROVE Ordered(written) /\ Ordered(applied)
    BY DEF OrderedPerJob, Ordered
  <2> USE DEF LifeInv
  <2>1. /\ DOMAIN written \subseteq DOMAIN Log
        /\ \A i \in DOMAIN written : Log[i] = written[i]
    BY ConcatProperties, LenProperties DEF Log, ReportingTypeOK
  <2> QED BY <2>1 DEF LogOK, Ordered
<1> QED BY <1>1, LifeInvHolds, PTL

\* When the process ends, what happened to Ayd itself is in the log, its start first
\* (reportStartServer, reportStopServer and ReportInternalError before Store.Close).
THEOREM AnnouncementsReachTheLog == LifeSpec => []AnnouncementsLogged
<1>1. LifeInv => AnnouncementsLogged
  <2> SUFFICES ASSUME LifeInv, main = "exited" PROVE AnnouncementsLogged
    BY DEF AnnouncementsLogged
  <2> USE DEF LifeInv, PlacesOK
  <2>1. Log = written
    BY DEF JoinedOK, Log, ReportingTypeOK
  <2>2. \A event \in announced : \E i \in DOMAIN written : written[i].by = Ayd /\ written[i].rank = event
    BY <2>1 DEF AnnouncedOK, Range
  <2>3. setup.mode = "server" /\ exitCode = 0 => Stopping \in announced
    BY DEF ControlOK
  <2>4. FirstOfAyd(written)
    BY <2>1 DEF AnnouncedOK
  <2> QED BY <2>2, <2>3, <2>4 DEF AnnouncementsLogged, FirstOfAyd
<1> QED BY <1>1, LifeInvHolds, PTL
=============================================================================
