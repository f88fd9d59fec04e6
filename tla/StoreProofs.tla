----------------------------- MODULE StoreProofs -----------------------------
(***************************************************************************)
(* Theorems about Store, for every value of its constants.  TypeOK,        *)
(* HistorySorted, OpenIffCurrent and ResolvedStaysResolved hold whatever    *)
(* the order the records arrive in; the properties that late records break *)
(* and the refinement of StatusMonitor are proved for MaxDelay = 0.        *)
(***************************************************************************)
EXTENDS Store, WellFoundedInduction, SequenceTheorems, TLAPS

-----------------------------------------------------------------------------
(* The CHOOSE operators of Store pick what their names say.                 *)

\* A non-empty set of numbers has a least element, and Smallest is it.
LEMMA SmallestIsLeast ==
  ASSUME NEW S \in SUBSET Nat, S # {}
  PROVE  /\ Smallest(S) \in S
         /\ \A y \in S : Smallest(S) <= y
<1> DEFINE R == {p \in Nat \X Nat : p[1] < p[2]}
<1>1. IsWellFoundedOn(R, Nat)
  <2>1. OpToRel(<, Nat) = R
    BY DEF OpToRel
  <2> QED
    BY <2>1, NatLessThanWellFounded
<1>2. PICK x \in S : \A y \in S : ~(<<y, x>> \in R)
  BY <1>1, WFMin
<1>3. ASSUME NEW y \in S PROVE x <= y
  <2>1. x \in Nat /\ y \in Nat
    OBVIOUS
  <2>2. y < x => <<y, x>> \in R
    BY <2>1
  <2> QED
    BY <1>2, <2>1, <2>2
<1> QED
  BY <1>3 DEF Smallest

\* So has a bounded one a greatest element, and Largest is it.
LEMMA LargestIsGreatest ==
  ASSUME NEW n \in Nat, NEW S \in SUBSET (0 .. n), S # {}
  PROVE  /\ Largest(S) \in S
         /\ \A y \in S : y <= Largest(S)
<1> DEFINE T == {m \in Nat : m <= n /\ n - m \in S}
<1>1. PICK y \in S : TRUE
  OBVIOUS
<1>2. n - y \in T
  BY <1>1
<1>3. /\ Smallest(T) \in T
      /\ \A m \in T : Smallest(T) <= m
  <2>1. T \in SUBSET Nat /\ T # {}
    BY <1>2
  <2> QED
    BY <2>1, SmallestIsLeast
<1>4. \A z \in S : z <= n - Smallest(T)
  <2>1. \A z \in S : n - z \in T
    OBVIOUS
  <2> HIDE DEF T
  <2> QED
    BY <1>3, <2>1 DEF T
<1>5. n - Smallest(T) \in S
  BY <1>3
<1> QED
  BY <1>4, <1>5 DEF Largest

-----------------------------------------------------------------------------
(* The operators on sequences.                                              *)

\* A sequence that exceeds its limit loses its first element, and no other.
LEMMA DropOldestProperties ==
  ASSUME NEW S, NEW s \in Seq(S), NEW n \in Nat \ {0}
  PROVE  /\ DropOldest(s, n) \in Seq(S)
         /\ Len(s) <= n + 1 => Len(DropOldest(s, n)) <= n
         /\ Len(s) > n => /\ Len(DropOldest(s, n)) = Len(s) - 1
                          /\ \A i \in 1 .. Len(s) - 1 : DropOldest(s, n)[i] = s[i + 1]
<1>1. CASE Len(s) > n
  <2>1. s # <<>>
    BY <1>1
  <2> QED
    BY <1>1, <2>1, HeadTailProperties DEF DropOldest
<1>2. CASE ~(Len(s) > n)
  BY <1>2 DEF DropOldest
<1> QED
  BY <1>1, <1>2

Sorted(s) == \A i, j \in DOMAIN s : i < j => s[i].time <= s[j].time

\* Where InsertRecord puts the new record, and that it keeps the order.
LEMMA InsertRecordProperties ==
  ASSUME NEW s \in Seq(Record), NEW r \in Record
  PROVE  /\ InsertRecord(s, r) \in Seq(Record)
         /\ Len(InsertRecord(s, r)) = Len(s) + 1
         /\ Sorted(s) => Sorted(InsertRecord(s, r))
         /\ Sorted(s) /\ (s = <<>> \/ s[Len(s)].time <= r.time) => InsertRecord(s, r) = Append(s, r)
<1> DEFINE K == {0} \cup {i \in DOMAIN s : s[i].time <= r.time}
           k == Largest(K)
           left == SubSeq(s, 1, k)
           right == SubSeq(s, k + 1, Len(s))
           new == left \o <<r>> \o right
<1>1. /\ k \in 0 .. Len(s)
      /\ k # 0 => s[k].time <= r.time
      /\ \A i \in DOMAIN s : s[i].time <= r.time => i <= k
  <2>1. K \in SUBSET (0 .. Len(s)) /\ K # {} /\ Len(s) \in Nat
    OBVIOUS
  <2>2. k \in K /\ \A i \in K : i <= k
    BY <2>1, LargestIsGreatest
  <2> QED
    BY <2>1, <2>2
<1>2. InsertRecord(s, r) = new
  BY DEF InsertRecord
<1> HIDE DEF k, K
<1>3. /\ left \in Seq(Record)
      /\ Len(left) = k
      /\ \A i \in 1 .. k : left[i] = s[i]
  BY <1>1
<1>4. /\ right \in Seq(Record)
      /\ Len(right) = Len(s) - k
      /\ \A i \in 1 .. Len(s) - k : right[i] = s[k + i]
  BY <1>1
<1> HIDE DEF left, right
<1>5. /\ left \o <<r>> \in Seq(Record)
      /\ Len(left \o <<r>>) = k + 1
      /\ \A i \in 1 .. k + 1 : (left \o <<r>>)[i] = IF i <= k THEN s[i] ELSE r
  BY <1>1, <1>3
<1>6. /\ new \in Seq(Record)
      /\ Len(new) = Len(s) + 1
      /\ \A i \in 1 .. Len(s) + 1 : new[i] = IF i <= k THEN s[i] ELSE IF i = k + 1 THEN r ELSE s[i - 1]
  <2> DEFINE begin == left \o <<r>>
  <2>1. begin \in Seq(Record) /\ Len(begin) = k + 1
    BY <1>5
  <2> HIDE DEF begin
  <2>2. Len(s) \in Nat /\ k \in Nat /\ Len(begin) + Len(right) = Len(s) + 1
    BY <1>1, <1>4, <2>1
  <2>3. /\ begin \o right \in Seq(Record)
        /\ Len(begin \o right) = Len(s) + 1
        /\ \A i \in 1 .. Len(s) + 1 :
             (begin \o right)[i] = IF i <= k + 1 THEN begin[i] ELSE right[i - (k + 1)]
    BY <1>4, <2>1, <2>2, ConcatProperties
  <2>4. \A i \in 1 .. k + 1 : begin[i] = IF i <= k THEN s[i] ELSE r
    BY <1>5 DEF begin
  <2>5. new = begin \o right
    BY DEF begin
  <2> HIDE DEF new
  <2>6. ASSUME NEW i \in 1 .. Len(s) + 1
        PROVE  new[i] = IF i <= k THEN s[i] ELSE IF i = k + 1 THEN r ELSE s[i - 1]
    <3>1. CASE i <= k + 1
      BY <2>2, <2>3, <2>4, <2>5, <3>1
    <3>2. CASE i > k + 1
      <4>1. i - (k + 1) \in 1 .. Len(s) - k /\ k + (i - (k + 1)) = i - 1
        BY <2>2, <3>2
      <4>2. right[i - (k + 1)] = s[i - 1]
        BY <1>4, <4>1
      <4>3. new[i] = right[i - (k + 1)]
        <5>1. ~(i <= k + 1)
          BY <2>2, <3>2
        <5> QED
          BY <2>3, <2>5, <5>1
      <4>4. ~(i <= k) /\ i # k + 1
        BY <2>2, <3>2
      <4> QED
        BY <4>2, <4>3, <4>4
    <3> QED
      BY <2>2, <3>1, <3>2
  <2> QED
    BY <2>3, <2>5, <2>6
<1> HIDE DEF new
<1>7. ASSUME Sorted(s) PROVE Sorted(new)
  <2> SUFFICES ASSUME NEW i \in 1 .. Len(s) + 1, NEW j \in 1 .. Len(s) + 1, i < j
               PROVE  new[i].time <= new[j].time
    <3>1. DOMAIN new = 1 .. Len(s) + 1
      BY <1>6, LenProperties
    <3> QED
      BY <3>1 DEF Sorted
  <2>1. /\ Len(s) \in Nat /\ k \in Nat /\ r.time \in Nat
        /\ \A p \in 1 .. Len(s) : s[p].time \in Nat
    <3>1. \A p \in 1 .. Len(s) : s[p] \in Record
      BY ElementOfSeq
    <3> QED
      BY <1>1, <3>1 DEF Record, Instant
  <2>2. \A p, q \in 1 .. Len(s) : p <= q => s[p].time <= s[q].time
    <3>1. \A p, q \in 1 .. Len(s) : p < q => s[p].time <= s[q].time
      BY <1>7, LenProperties DEF Sorted
    <3>2. ASSUME NEW p \in 1 .. Len(s), NEW q \in 1 .. Len(s), p <= q PROVE p < q \/ p = q
      BY <2>1, <3>2
    <3>3. \A p \in 1 .. Len(s) : s[p].time <= s[p].time
      BY <2>1
    <3> QED
      BY <3>1, <3>2, <3>3
  <2>3. \A p \in 1 .. Len(s) : p > k => r.time <= s[p].time
    BY <1>1, <2>1
  <2>4. \A p \in 1 .. Len(s) : p <= k => s[p].time <= r.time
    BY <1>1, <2>1, <2>2
  <2>5. CASE j <= k
    <3>1. i <= k /\ i \in 1 .. Len(s) /\ j \in 1 .. Len(s) /\ i <= j
      BY <1>1, <2>1, <2>5
    <3>2. new[i] = s[i] /\ new[j] = s[j]
      BY <1>6, <2>5, <3>1
    <3> QED
      BY <2>2, <3>1, <3>2
  <2>6. CASE j = k + 1
    <3>1. new[i] = s[i] /\ new[j] = r /\ i \in 1 .. Len(s) /\ i <= k
      BY <1>1, <1>6, <2>1, <2>6
    <3> QED
      BY <2>4, <3>1
  <2>7. CASE j > k + 1 /\ i = k + 1
    <3>1. new[i] = r /\ new[j] = s[j - 1] /\ j - 1 \in 1 .. Len(s) /\ j - 1 > k
      BY <1>6, <2>1, <2>7
    <3> QED
      BY <2>3, <3>1
  <2>8. CASE j > k + 1 /\ i < k + 1
    <3>1. new[i] = s[i] /\ new[j] = s[j - 1] /\ i \in 1 .. Len(s) /\ j - 1 \in 1 .. Len(s) /\ i <= j - 1
      BY <1>1, <1>6, <2>1, <2>8
    <3> QED
      BY <2>2, <3>1
  <2>9. CASE j > k + 1 /\ i > k + 1
    <3>1. new[i] = s[i - 1] /\ new[j] = s[j - 1] /\ i - 1 \in 1 .. Len(s) /\ j - 1 \in 1 .. Len(s) /\ i - 1 <= j - 1
      BY <1>6, <2>1, <2>9
    <3> QED
      BY <2>2, <3>1
  <2>10. \/ j <= k
         \/ j = k + 1
         \/ j > k + 1 /\ i = k + 1
         \/ j > k + 1 /\ i < k + 1
         \/ j > k + 1 /\ i > k + 1
    BY <2>1
  <2> QED
    BY <2>5, <2>6, <2>7, <2>8, <2>9, <2>10
<1>8. ASSUME Sorted(s), s = <<>> \/ s[Len(s)].time <= r.time
      PROVE  new = Append(s, r)
  <2>1. k = Len(s)
    BY <1>1, <1>8
  <2>2. Len(Append(s, r)) = Len(s) + 1 /\ \A i \in 1 .. Len(s) + 1 : Append(s, r)[i] = IF i <= Len(s) THEN s[i] ELSE r
    OBVIOUS
  <2> QED
    BY <1>6, <2>1, <2>2, SeqEqual
<1> QED
  BY <1>2, <1>6, <1>7, <1>8

-----------------------------------------------------------------------------
(* The reports.                                                             *)

\* Every step of the store is one of three operations, and the record a report
\* brings has its type.
LEMMA NextCases ==
  ASSUME Next
  PROVE  \/ \E source \in Sources, r \in Record :
              Arrives(r) /\ SetIncidentIfNeed(r, TRUE) /\ AppendRecord(source, r)
         \/ \E source \in Sources, t \in Targets : ActivateTarget(source, t)
         \/ \E source \in Sources, ts \in SUBSET Targets : DeactivateTarget(source, ts)
<1>1. ASSUME NEW t \in Targets, NEW time \in 1 .. MaxTime, NEW s \in ReportedStatus, NEW m \in Messages
      PROVE  [target |-> t, time |-> time, status |-> s, message |-> m] \in Record
  BY StoreAssumption DEF Record, Instant, Status
<1> QED
  BY <1>1 DEF Next, Report

\* SearchLastIncident returns an incident of the target it is asked about, the
\* current one if there is one.
LEMMA SearchProperties ==
  ASSUME TypeOK, OpenIffCurrent, NEW t \in Targets, NEW time \in Instant
  PROVE  LET inc == SearchLastIncident(t, time)
         IN  /\ inc \in 0 .. Len(incidents)
             /\ inc # None => incidents[inc].target = t
             /\ currentIncidents[t] # None => inc = currentIncidents[t]
             /\ inc # None => incidents[inc].endsAt = 0 \/ time < incidents[inc].endsAt
<1>1. CASE currentIncidents[t] # None
  <2>1. /\ SearchLastIncident(t, time) = currentIncidents[t]
        /\ currentIncidents[t] \in DOMAIN incidents
    BY <1>1 DEF SearchLastIncident, None, TypeOK
  <2>2. incidents[currentIncidents[t]].target = t
    BY <1>1 DEF OpenIffCurrent
  <2> QED
    BY <2>1, <2>2 DEF TypeOK, OpenIffCurrent
<1>2. CASE currentIncidents[t] = None
  <2> DEFINE around == {k \in DOMAIN incidentHistory : Covers(incidents[incidentHistory[k]], t, time)}
  <2>1. CASE around = {}
    BY <1>2, <2>1 DEF SearchLastIncident, None, TypeOK
  <2>2. CASE around # {}
    <3>1. around \in SUBSET (0 .. Len(incidentHistory)) /\ Len(incidentHistory) \in Nat
      BY DEF TypeOK
    <3>2. Largest(around) \in around
      BY <2>2, <3>1, LargestIsGreatest
    <3>3. /\ incidentHistory[Largest(around)] \in 1 .. Len(incidents)
          /\ incidents[incidentHistory[Largest(around)]].target = t
          /\ time < incidents[incidentHistory[Largest(around)]].endsAt
      <4>1. /\ Largest(around) \in DOMAIN incidentHistory
            /\ Covers(incidents[incidentHistory[Largest(around)]], t, time)
        BY <3>2
      <4>2. incidentHistory \in Seq(1 .. Len(incidents))
        BY DEF TypeOK
      <4>3. incidentHistory[Largest(around)] \in 1 .. Len(incidents)
        BY <4>1, <4>2, ElementOfSeq
      <4> QED
        BY <4>1, <4>3 DEF Covers
    <3> QED
      BY <1>2, <3>3 DEF SearchLastIncident, None, TypeOK
  <2> QED
    BY <2>1, <2>2
<1> QED
  BY <1>1, <1>2

-----------------------------------------------------------------------------
(* Type correctness and the current incidents, which need each other.       *)

\* What resolving an incident leaves behind has the right types.
LEMMA ResolveType ==
  ASSUME TypeOK, NEW r \in Record, NEW inc \in 0 .. Len(incidents)
  PROVE  /\ ResolveIncidents(inc, r) \in Seq(Incident)
         /\ Len(ResolveIncidents(inc, r)) = Len(incidents)
         /\ ResolveHistory(inc) \in Seq(1 .. Len(incidents))
         /\ ResolveCurrent(inc, r.target) \in [Targets -> 0 .. Len(incidents)]
<1>1. CASE inc = None
  BY <1>1 DEF ResolveIncidents, ResolveHistory, ResolveCurrent, TypeOK
<1>2. CASE inc # None
  <2>1. inc \in 1 .. Len(incidents) /\ incidents \in Seq(Incident)
    BY <1>2 DEF None, TypeOK
  <2>2. [incidents[inc] EXCEPT !.startsAt = Earlier(@, r.time), !.endsAt = r.time] \in Incident
    <3>1. incidents[inc] \in Incident
      BY <2>1, ElementOfSeq
    <3>2. r.time \in Instant /\ r.time \in Nat
      BY DEF Record, Instant
    <3>3. Earlier(incidents[inc].startsAt, r.time) \in Instant
      BY <3>1, <3>2 DEF Incident, Earlier
    <3> QED
      BY <3>1, <3>2, <3>3 DEF Incident
  <2>3. ResolveIncidents(inc, r) =
          [incidents EXCEPT ![inc] = [incidents[inc] EXCEPT !.startsAt = Earlier(@, r.time), !.endsAt = r.time]]
    BY <1>2 DEF ResolveIncidents
  <2>4. ResolveIncidents(inc, r) \in Seq(Incident) /\ Len(ResolveIncidents(inc, r)) = Len(incidents)
    BY <2>1, <2>2, <2>3, ExceptSeq
  <2>5. Append(incidentHistory, inc) \in Seq(1 .. Len(incidents))
    BY <2>1 DEF TypeOK
  <2>6. ResolveHistory(inc) \in Seq(1 .. Len(incidents))
    BY <1>2, <2>5, StoreAssumption, DropOldestProperties DEF ResolveHistory
  <2>7. ResolveCurrent(inc, r.target) \in [Targets -> 0 .. Len(incidents)]
    <3>1. 0 \in 0 .. Len(incidents)
      BY <2>1
    <3> QED
      BY <1>2, <3>1 DEF ResolveCurrent, None, TypeOK
  <2> QED
    BY <2>4, <2>6, <2>7
<1> QED
  BY <1>1, <1>2

\* OpenIffCurrent of a heap I and a map C of current incidents.
Consistent(I, C) ==
  /\ \A i \in DOMAIN I : I[i].endsAt = 0 <=> C[I[i].target] = i
  /\ \A i \in DOMAIN I : I[i].endsAt # 0 => I[i].startsAt <= I[i].endsAt
  /\ \A t \in Targets : C[t] # None => I[C[t]].target = t

\* Ending the incident the search found keeps the others consistent, and leaves
\* its target without a current one.
LEMMA ResolveConsistent ==
  ASSUME TypeOK, OpenIffCurrent, NEW r \in Record, NEW inc,
         inc = SearchLastIncident(r.target, r.time)
  PROVE  /\ Consistent(ResolveIncidents(inc, r), ResolveCurrent(inc, r.target))
         /\ ResolveCurrent(inc, r.target)[r.target] = None
<1> DEFINE I == ResolveIncidents(inc, r)
           C == ResolveCurrent(inc, r.target)
<1>1. /\ r.target \in Targets
      /\ r.time \in Instant
      /\ r.time \in Nat
      /\ r.time # 0
  BY DEF Record, Instant
<1>2. /\ inc \in 0 .. Len(incidents)
      /\ inc # None => incidents[inc].target = r.target
      /\ currentIncidents[r.target] # None => inc = currentIncidents[r.target]
  BY <1>1, SearchProperties
<1>3. /\ incidents \in Seq(Incident)
      /\ DOMAIN incidents = 1 .. Len(incidents)
      /\ Len(incidents) \in Nat
      /\ currentIncidents \in [Targets -> 0 .. Len(incidents)]
      /\ Consistent(incidents, currentIncidents)
  BY DEF TypeOK, OpenIffCurrent, Consistent
<1>4. CASE inc = None
  BY <1>2, <1>3, <1>4 DEF ResolveIncidents, ResolveCurrent
<1>5. CASE inc # None
  <2>1. inc \in 1 .. Len(incidents)
    BY <1>2, <1>3, <1>5 DEF None
  <2>2. C = [currentIncidents EXCEPT ![r.target] = None]
    BY <1>5 DEF ResolveCurrent
  <2>3. /\ DOMAIN I = 1 .. Len(incidents)
        /\ I[inc].target = r.target
        /\ I[inc].endsAt = r.time
        /\ I[inc].startsAt = Earlier(incidents[inc].startsAt, r.time)
        /\ \A i \in 1 .. Len(incidents) : i # inc => I[i] = incidents[i]
    <3>1. incidents[inc] \in Incident
      BY <1>3, <2>1, ElementOfSeq
    <3> QED
      BY <1>2, <1>3, <1>5, <2>1, <3>1 DEF ResolveIncidents, Incident
  <2>4. incidents[inc].startsAt \in Nat /\ I[inc].startsAt <= I[inc].endsAt
    <3>1. incidents[inc] \in Incident
      BY <1>3, <2>1, ElementOfSeq
    <3>2. incidents[inc].startsAt \in Nat
      BY <3>1 DEF Incident, Instant
    <3> QED
      BY <1>1, <2>3, <3>2 DEF Earlier
  <2> HIDE DEF I, C
  <2>5. ASSUME NEW i \in DOMAIN I PROVE I[i].endsAt = 0 <=> C[I[i].target] = i
    <3>1. CASE i = inc
      BY <1>1, <1>3, <2>1, <2>2, <2>3, <3>1 DEF None
    <3>2. CASE i # inc
      <4>1. I[i] = incidents[i] /\ i \in 1 .. Len(incidents)
        BY <2>3, <3>2
      <4>2. incidents[i] \in Incident /\ incidents[i].target \in Targets
        <5>1. incidents[i] \in Incident
          BY <1>3, <4>1, ElementOfSeq
        <5> QED
          BY <5>1 DEF Incident
      <4>3. incidents[i].endsAt = 0 <=> currentIncidents[incidents[i].target] = i
        BY <1>3, <4>1 DEF Consistent
      <4>4. CASE incidents[i].target = r.target
        BY <1>1, <1>2, <1>3, <2>2, <3>2, <4>1, <4>3, <4>4 DEF None
      <4>5. CASE incidents[i].target # r.target
        BY <1>3, <2>2, <4>1, <4>2, <4>3, <4>5
      <4> QED
        BY <4>4, <4>5
    <3> QED
      BY <3>1, <3>2
  <2>6. ASSUME NEW i \in DOMAIN I, I[i].endsAt # 0 PROVE I[i].startsAt <= I[i].endsAt
    BY <1>3, <2>3, <2>4, <2>6 DEF Consistent
  <2>7. ASSUME NEW t \in Targets, C[t] # None PROVE I[C[t]].target = t
    BY <1>1, <1>2, <1>3, <2>2, <2>3, <2>7 DEF Consistent, None
  <2>8. C[r.target] = None
    BY <1>1, <1>3, <2>2
  <2> QED
    BY <2>5, <2>6, <2>7, <2>8 DEF Consistent, I, C
<1> QED
  BY <1>4, <1>5

\* What the type and OpenIffCurrent say of the variables setIncidentIfNeed changes.
IncidentsOK ==
  /\ incidents \in Seq(Incident)
  /\ currentIncidents \in [Targets -> 0 .. Len(incidents)]
  /\ incidentHistory \in Seq(1 .. Len(incidents))
  /\ incidentCount \in Nat
  /\ calls \in Seq(Record)
  /\ Consistent(incidents, currentIncidents)

\* Appending an incident to the heap and filing it under its target, if it has no
\* end, keeps the rest as it is.
LEMMA OpenConsistent ==
  ASSUME NEW I \in Seq(Incident), NEW C \in [Targets -> 0 .. Len(I)], Consistent(I, C),
         NEW t \in Targets, C[t] = None,
         NEW x \in Incident, x.target = t, x.endsAt # 0 => x.startsAt <= x.endsAt
  PROVE  /\ Append(I, x) \in Seq(Incident)
         /\ Len(Append(I, x)) = Len(I) + 1
         /\ x.endsAt = 0 => /\ [C EXCEPT ![t] = Len(I) + 1] \in [Targets -> 0 .. Len(I) + 1]
                             /\ Consistent(Append(I, x), [C EXCEPT ![t] = Len(I) + 1])
         /\ x.endsAt # 0 => /\ C \in [Targets -> 0 .. Len(I) + 1]
                             /\ Consistent(Append(I, x), C)
<1> DEFINE J == Append(I, x)
           n == Len(I) + 1
<1>1. /\ J \in Seq(Incident)
      /\ Len(J) = n
      /\ DOMAIN J = 1 .. n
      /\ J[n] = x
      /\ \A i \in 1 .. Len(I) : J[i] = I[i]
      /\ Len(I) \in Nat
      /\ DOMAIN I = 1 .. Len(I)
  OBVIOUS
<1>2. \A i \in 1 .. Len(I) : I[i].target \in Targets
  <2>1. \A i \in 1 .. Len(I) : I[i] \in Incident
    BY ElementOfSeq
  <2> QED
    BY <2>1 DEF Incident
<1> HIDE DEF J
<1>3. CASE x.endsAt = 0
  <2> DEFINE D == [C EXCEPT ![t] = n]
  <2>1. D \in [Targets -> 0 .. n] /\ D[t] = n /\ \A u \in Targets : u # t => D[u] = C[u]
    BY <1>1
  <2> HIDE DEF D
  <2>2. ASSUME NEW i \in 1 .. n PROVE J[i].endsAt = 0 <=> D[J[i].target] = i
    <3>1. CASE i = n
      BY <1>1, <1>3, <2>1, <3>1
    <3>2. CASE i # n
      <4>1. i \in 1 .. Len(I) /\ J[i] = I[i] /\ (I[i].endsAt = 0 <=> C[I[i].target] = i)
        BY <1>1, <3>2 DEF Consistent
      <4>2. CASE I[i].target = t
        BY <2>1, <3>2, <4>1, <4>2 DEF None
      <4>3. CASE I[i].target # t
        BY <1>2, <2>1, <4>1, <4>3
      <4> QED
        BY <4>2, <4>3
    <3> QED
      BY <3>1, <3>2
  <2>3. ASSUME NEW i \in 1 .. n, J[i].endsAt # 0 PROVE J[i].startsAt <= J[i].endsAt
    BY <1>1, <1>3, <2>3 DEF Consistent
  <2>4. ASSUME NEW u \in Targets, D[u] # None PROVE J[D[u]].target = u
    BY <1>1, <2>1, <2>4 DEF Consistent, None
  <2> QED
    BY <1>1, <1>3, <2>1, <2>2, <2>3, <2>4 DEF Consistent, D, J
<1>4. CASE x.endsAt # 0
  <2>1. C \in [Targets -> 0 .. n]
    BY <1>1
  <2>2. ASSUME NEW i \in 1 .. n PROVE J[i].endsAt = 0 <=> C[J[i].target] = i
    BY <1>1, <1>4 DEF Consistent, None
  <2>3. ASSUME NEW i \in 1 .. n, J[i].endsAt # 0 PROVE J[i].startsAt <= J[i].endsAt
    <3>1. i = n \/ i \in 1 .. Len(I)
      BY <1>1
    <3>2. CASE i = n
      BY <1>1, <1>4, <3>2
    <3>3. CASE i \in 1 .. Len(I)
      BY <1>1, <2>3, <3>3 DEF Consistent
    <3> QED
      BY <3>1, <3>2, <3>3
  <2>4. ASSUME NEW u \in Targets, C[u] # None PROVE J[C[u]].target = u
    BY <1>1, <2>4 DEF Consistent, None
  <2> QED
    BY <1>1, <1>4, <2>1, <2>2, <2>3, <2>4 DEF Consistent, J
<1> QED
  BY <1>3, <1>4

\* An incident that is over when it is opened.
LEMMA NewIncidentProperties ==
  ASSUME NEW r \in Record, NEW e \in Nat, r.time < e
  PROVE  /\ NewIncident(r, e) \in Incident
         /\ NewIncident(r, e).target = r.target
         /\ NewIncident(r, e).endsAt # 0
         /\ NewIncident(r, e).startsAt <= NewIncident(r, e).endsAt
<1>1. /\ r.target \in Targets /\ r.status \in Status /\ r.message \in Messages
      /\ r.time \in Instant /\ r.time \in Nat
  BY DEF Record, Instant
<1>2. r.time <= e /\ e # 0
  BY <1>1
<1> QED
  BY <1>1, <1>2 DEF NewIncident, Incident

\* setIncidentIfNeed keeps the incidents and the current ones in step.
LEMMA SetIncidentKeepsIncidents ==
  ASSUME TypeOK, OpenIffCurrent, NEW r \in Record, SetIncidentIfNeed(r, TRUE)
  PROVE  IncidentsOK'
<1> DEFINE inc == SearchLastIncident(r.target, r.time)
           I == ResolveIncidents(inc, r)
           C == ResolveCurrent(inc, r.target)
<1>1. /\ r.target \in Targets
      /\ r.time \in Instant
      /\ r.time \in Nat
      /\ r.time # 0
      /\ r.status \in Status
      /\ r.message \in Messages
  BY DEF Record, Instant
<1>2. /\ inc \in 0 .. Len(incidents)
      /\ inc # None => incidents[inc].target = r.target
  BY <1>1, SearchProperties
<1>3. /\ I \in Seq(Incident)
      /\ Len(I) = Len(incidents)
      /\ ResolveHistory(inc) \in Seq(1 .. Len(incidents))
      /\ C \in [Targets -> 0 .. Len(incidents)]
      /\ Consistent(I, C)
      /\ C[r.target] = None
  BY <1>2, ResolveType, ResolveConsistent
<1>4. IncidentsOK
  BY DEF TypeOK, OpenIffCurrent, IncidentsOK, Consistent
<1>5. /\ <<r>> \in Seq(Record)
      /\ <<>> \in Seq(Record)
      /\ Len(incidents) \in Nat
  BY DEF TypeOK
<1>6. /\ \/ IgnoreAborted(r)
         \/ ContinueIncident(inc, r)
         \/ Recover(inc, r, TRUE)
         \/ OpenCurrent(inc, r, TRUE)
         \/ OpenDelayed(inc, r, TRUE)
  BY DEF SetIncidentIfNeed
<1> HIDE DEF inc, I, C
<1>7. CASE IgnoreAborted(r)
  BY <1>4, <1>5, <1>7 DEF IgnoreAborted, IncidentsOK, incidentVars
<1>8. CASE ContinueIncident(inc, r)
  <2>1. inc \in 1 .. Len(incidents) /\ incidents[inc] \in Incident
    BY <1>2, <1>4, <1>5, <1>8, ElementOfSeq DEF ContinueIncident, Continues, None, IncidentsOK
  <2> DEFINE x == [incidents[inc] EXCEPT !.startsAt = Earlier(@, r.time), !.message = r.message]
  <2>2. /\ x \in Incident
        /\ x.target = incidents[inc].target
        /\ x.endsAt = incidents[inc].endsAt
        /\ incidents[inc].endsAt \in Nat
        /\ x.startsAt \in Nat
        /\ incidents[inc].startsAt \in Nat
        /\ x.startsAt <= incidents[inc].startsAt
    <3>1. Earlier(incidents[inc].startsAt, r.time) \in Instant /\ Earlier(incidents[inc].startsAt, r.time) <= incidents[inc].startsAt
      BY <1>1, <2>1 DEF Earlier, Incident, Instant
    <3> QED
      BY <1>1, <2>1, <3>1 DEF Incident, Instant
  <2>3. incidents' = [incidents EXCEPT ![inc] = x]
    BY <1>8 DEF ContinueIncident
  <2> HIDE DEF x
  <2>4. /\ incidents' \in Seq(Incident)
        /\ Len(incidents') = Len(incidents)
        /\ \A i \in 1 .. Len(incidents) : incidents'[i] = IF i = inc THEN x ELSE incidents[i]
    BY <1>4, <2>1, <2>2, <2>3, ExceptSeq DEF IncidentsOK
  <2>5. UNCHANGED <<currentIncidents, incidentHistory, incidentCount>> /\ calls' = <<>>
    BY <1>8 DEF ContinueIncident
  <2>6. Consistent(incidents', currentIncidents')
    <3>1. DOMAIN incidents' = 1 .. Len(incidents) /\ DOMAIN incidents = 1 .. Len(incidents)
      BY <1>4, <2>4 DEF IncidentsOK
    <3>2. \A i \in 1 .. Len(incidents) : incidents'[i].endsAt = incidents[i].endsAt /\ incidents'[i].target = incidents[i].target
      BY <2>2, <2>4
    <3>3. \A i \in DOMAIN incidents' : incidents'[i].endsAt = 0 <=> currentIncidents'[incidents'[i].target] = i
      BY <1>4, <2>5, <3>1, <3>2 DEF IncidentsOK, Consistent
    <3>4. ASSUME NEW i \in DOMAIN incidents', incidents'[i].endsAt # 0
          PROVE  incidents'[i].startsAt <= incidents'[i].endsAt
      BY <1>4, <2>2, <2>4, <3>1, <3>2, <3>4 DEF IncidentsOK, Consistent
    <3>5. ASSUME NEW u \in Targets, currentIncidents'[u] # None
          PROVE  incidents'[currentIncidents'[u]].target = u
      BY <1>4, <1>5, <2>5, <3>2, <3>5 DEF IncidentsOK, Consistent, None
    <3> QED
      BY <3>3, <3>4, <3>5 DEF Consistent
  <2> QED
    BY <1>4, <1>5, <2>4, <2>5, <2>6 DEF IncidentsOK
<1>9. CASE Recover(inc, r, TRUE)
  BY <1>3, <1>4, <1>5, <1>9 DEF Recover, IncidentsOK, I, C
<1>10. CASE OpenCurrent(inc, r, TRUE)
  <2> DEFINE x == NewIncident(r, 0)
  <2>1. x \in Incident /\ x.target = r.target /\ x.endsAt = 0
    BY <1>1 DEF NewIncident, Incident
  <2>2. /\ incidents' = Append(I, x)
        /\ currentIncidents' = [C EXCEPT ![r.target] = Len(incidents) + 1]
        /\ incidentHistory' = ResolveHistory(inc)
        /\ incidentCount' = incidentCount + 1
        /\ calls' = <<r>>
    BY <1>10 DEF OpenCurrent, OpenIncident, I, C
  <2> HIDE DEF x
  <2>3. /\ incidents' \in Seq(Incident)
        /\ Len(incidents') = Len(incidents) + 1
        /\ currentIncidents' \in [Targets -> 0 .. Len(incidents) + 1]
        /\ Consistent(incidents', currentIncidents')
    <3>1. C \in [Targets -> 0 .. Len(I)] /\ (x.endsAt # 0 => x.startsAt <= x.endsAt)
      BY <1>3, <2>1
    <3>2. /\ Append(I, x) \in Seq(Incident)
          /\ Len(Append(I, x)) = Len(I) + 1
          /\ [C EXCEPT ![r.target] = Len(I) + 1] \in [Targets -> 0 .. Len(I) + 1]
          /\ Consistent(Append(I, x), [C EXCEPT ![r.target] = Len(I) + 1])
      <4>1. x.endsAt = 0 => /\ [C EXCEPT ![r.target] = Len(I) + 1] \in [Targets -> 0 .. Len(I) + 1]
                            /\ Consistent(Append(I, x), [C EXCEPT ![r.target] = Len(I) + 1])
        BY <1>1, <1>3, <2>1, <3>1, OpenConsistent, Zenon
      <4>2. Append(I, x) \in Seq(Incident) /\ Len(Append(I, x)) = Len(I) + 1
        BY <1>3, <2>1
      <4> QED
        BY <2>1, <4>1, <4>2, Zenon
    <3> QED
      BY <1>3, <2>2, <3>2
  <2>4. incidentHistory' \in Seq(1 .. Len(incidents) + 1)
    BY <1>3, <1>5, <2>2, SeqMonotonic
  <2> QED
    BY <1>4, <1>5, <2>2, <2>3, <2>4 DEF IncidentsOK
<1>11. CASE OpenDelayed(inc, r, TRUE)
  <2> DEFINE rs == records[r.target]
             later == {i \in DOMAIN rs : r.time < rs[i].time}
             next == rs[Smallest(later)]
             x == NewIncident(r, next.time)
  <2>1. next \in Record /\ r.time < next.time /\ next.time \in Nat
    <3>1. rs \in Seq(Record)
      BY <1>1 DEF TypeOK
    <3>2. rs # <<>> /\ Len(rs) \in later
      <4>1. r.time < (IF rs = <<>> THEN 0 ELSE rs[Len(rs)].time)
        BY <1>11 DEF OpenDelayed, LatestTime
      <4>2. rs # <<>> /\ r.time < rs[Len(rs)].time
        BY <1>1, <4>1
      <4>3. Len(rs) \in Nat \ {0} /\ DOMAIN rs = 1 .. Len(rs)
        BY <3>1, <4>2, EmptySeq, LenProperties
      <4> QED
        BY <4>2, <4>3
    <3>3. Smallest(later) \in later
      <4>1. later \in SUBSET Nat /\ later # {}
        BY <3>1, <3>2
      <4> QED
        BY <4>1, SmallestIsLeast
    <3>4. next \in Record
      <4>1. Smallest(later) \in 1 .. Len(rs)
        BY <3>1, <3>3
      <4> QED
        BY <3>1, <4>1, ElementOfSeq
    <3> QED
      BY <3>3, <3>4 DEF Record, Instant
  <2> HIDE DEF next
  <2>2. /\ x \in Incident
        /\ x.target = r.target
        /\ x.endsAt # 0
        /\ x.startsAt <= x.endsAt
    BY <2>1, NewIncidentProperties
  <2>3. /\ incidents' = Append(I, x)
        /\ currentIncidents' = C
        /\ incidentHistory' = Append(ResolveHistory(inc), Len(incidents) + 1)
        /\ incidentCount' = incidentCount + 1
        /\ calls' = <<r, next>> \/ calls' = <<r>>
    BY <1>11 DEF OpenDelayed, OpenIncident, I, C, next
  <2> HIDE DEF x
  <2>4. /\ incidents' \in Seq(Incident)
        /\ Len(incidents') = Len(incidents) + 1
        /\ currentIncidents' \in [Targets -> 0 .. Len(incidents) + 1]
        /\ Consistent(incidents', currentIncidents')
    <3>1. C \in [Targets -> 0 .. Len(I)] /\ (x.endsAt # 0 => x.startsAt <= x.endsAt)
      BY <1>3, <2>2
    <3>2. /\ Append(I, x) \in Seq(Incident)
          /\ Len(Append(I, x)) = Len(I) + 1
          /\ C \in [Targets -> 0 .. Len(I) + 1]
          /\ Consistent(Append(I, x), C)
      <4>1. x.endsAt # 0 => /\ C \in [Targets -> 0 .. Len(I) + 1]
                            /\ Consistent(Append(I, x), C)
        BY <1>1, <1>3, <2>2, <3>1, OpenConsistent, Zenon
      <4>2. Append(I, x) \in Seq(Incident) /\ Len(Append(I, x)) = Len(I) + 1
        BY <1>3, <2>2
      <4> QED
        BY <2>2, <4>1, <4>2, Zenon
    <3> QED
      BY <1>3, <2>3, <3>2
  <2>5. incidentHistory' \in Seq(1 .. Len(incidents) + 1)
    <3>1. ResolveHistory(inc) \in Seq(1 .. Len(incidents) + 1)
      BY <1>3, <1>5, SeqMonotonic
    <3> QED
      BY <1>5, <2>3, <3>1
  <2>6. calls' \in Seq(Record)
    <3>1. <<r, next>> \in Seq(Record)
      BY <2>1
    <3> QED
      BY <1>5, <2>3, <3>1
  <2> QED
    BY <1>4, <1>5, <2>3, <2>4, <2>5, <2>6 DEF IncidentsOK
<1> QED
  BY <1>6, <1>7, <1>8, <1>9, <1>10, <1>11

\* What AppendRecord leaves: a history of the right type, still sorted and still
\* bounded.
LEMMA AppendKeepsRecords ==
  ASSUME TypeOK, NEW source \in Sources, NEW r \in Record, AppendRecord(source, r)
  PROVE  /\ targets' \in SUBSET Targets
         /\ records' \in [Targets -> Seq(Record)]
         /\ sources' \in [Targets -> SUBSET Sources]
         /\ HistorySorted => HistorySorted'
<1> DEFINE s == records[r.target]
           long == InsertRecord(s, r)
<1>1. r.target \in Targets /\ s \in Seq(Record)
  BY DEF Record, TypeOK
<1>2. /\ long \in Seq(Record)
      /\ Len(long) = Len(s) + 1
      /\ Sorted(s) => Sorted(long)
  BY <1>1, InsertRecordProperties
<1> HIDE DEF long
<1>3. /\ DropOldest(long, ProbeHistoryLen) \in Seq(Record)
      /\ Len(long) <= ProbeHistoryLen + 1 => Len(DropOldest(long, ProbeHistoryLen)) <= ProbeHistoryLen
      /\ Len(long) > ProbeHistoryLen =>
           /\ Len(DropOldest(long, ProbeHistoryLen)) = Len(long) - 1
           /\ \A i \in 1 .. Len(long) - 1 : DropOldest(long, ProbeHistoryLen)[i] = long[i + 1]
      /\ ~(Len(long) > ProbeHistoryLen) => DropOldest(long, ProbeHistoryLen) = long
  BY <1>2, StoreAssumption, DropOldestProperties DEF DropOldest
<1>4. ASSUME Sorted(s) PROVE Sorted(DropOldest(long, ProbeHistoryLen))
  <2>1. CASE Len(long) > ProbeHistoryLen
    <3> DEFINE d == DropOldest(long, ProbeHistoryLen)
    <3>1. DOMAIN d = 1 .. Len(long) - 1 /\ DOMAIN long = 1 .. Len(long) /\ Len(long) \in Nat
      BY <1>2, <1>3, <2>1
    <3>2. \A i \in 1 .. Len(long) - 1 : d[i] = long[i + 1]
      BY <1>3, <2>1
    <3> HIDE DEF d
    <3>3. ASSUME NEW i \in DOMAIN d, NEW j \in DOMAIN d, i < j PROVE d[i].time <= d[j].time
      <4>1. i + 1 \in DOMAIN long /\ j + 1 \in DOMAIN long /\ i + 1 < j + 1
        BY <3>1, <3>3
      <4>2. long[i + 1].time <= long[j + 1].time
        BY <1>2, <1>4, <4>1 DEF Sorted
      <4> QED
        BY <3>1, <3>2, <4>2
    <3> QED
      BY <3>3 DEF Sorted, d
  <2>2. CASE ~(Len(long) > ProbeHistoryLen)
    BY <1>2, <1>3, <1>4, <2>2
  <2> QED
    BY <2>1, <2>2
<1>5. records' = [records EXCEPT ![r.target] = DropOldest(long, ProbeHistoryLen)]
  BY DEF AppendRecord, long
<1>6. targets' \in SUBSET Targets /\ sources' \in [Targets -> SUBSET Sources]
  BY <1>1 DEF AppendRecord, TypeOK
<1>7. records' \in [Targets -> Seq(Record)]
  BY <1>3, <1>5 DEF TypeOK
<1>8. ASSUME HistorySorted PROVE HistorySorted'
  <2>1. \A t \in Targets : Len(records[t]) <= ProbeHistoryLen /\ Sorted(records[t])
    BY <1>8 DEF HistorySorted, Sorted
  <2>2. Len(long) <= ProbeHistoryLen + 1
    BY <1>1, <1>2, <2>1, StoreAssumption
  <2>3. \A t \in Targets : records'[t] = IF t = r.target THEN DropOldest(long, ProbeHistoryLen) ELSE records[t]
    BY <1>5 DEF TypeOK
  <2>4. \A t \in Targets : Len(records'[t]) <= ProbeHistoryLen /\ Sorted(records'[t])
    BY <1>1, <1>3, <1>4, <2>1, <2>2, <2>3
  <2> QED
    BY <2>4 DEF HistorySorted, Sorted
<1> QED
  BY <1>6, <1>7, <1>8

-----------------------------------------------------------------------------
(* The theorems.                                                            *)

\* The inductive invariant of the store: the search for the incident of a record
\* is only correct if the current incidents are, and these only have a type if
\* the search does.
StoreInv == TypeOK /\ OpenIffCurrent /\ HistorySorted

\* There are no incidents in the beginning.
LEMMA InitStoreInv == Init => StoreInv
<1> SUFFICES ASSUME Init PROVE StoreInv
  OBVIOUS
<1>1. TypeOK
  BY DEF Init, TypeOK, None
<1>2. OpenIffCurrent
  BY DEF Init, OpenIffCurrent, None
<1>3. HistorySorted
  BY StoreAssumption DEF Init, HistorySorted
<1> QED
  BY <1>1, <1>2, <1>3 DEF StoreInv

\* Every step of the store keeps the invariant, however late the record is.
LEMMA NextStoreInv == StoreInv /\ [Next]_vars => StoreInv'
<1> SUFFICES ASSUME StoreInv, [Next]_vars PROVE StoreInv'
  OBVIOUS
<1> USE DEF StoreInv
<1>1. ASSUME NEW source \in Sources, NEW r \in Record, Arrives(r),
             SetIncidentIfNeed(r, TRUE), AppendRecord(source, r)
      PROVE  StoreInv'
  <2>1. IncidentsOK'
    BY <1>1, SetIncidentKeepsIncidents
  <2>2. /\ targets' \in SUBSET Targets
        /\ records' \in [Targets -> Seq(Record)]
        /\ sources' \in [Targets -> SUBSET Sources]
        /\ HistorySorted'
    BY <1>1, AppendKeepsRecords
  <2> QED
    BY <2>1, <2>2 DEF IncidentsOK, Consistent, TypeOK, OpenIffCurrent
<1>2. ASSUME NEW source \in Sources, NEW t \in Targets, ActivateTarget(source, t)
      PROVE  StoreInv'
  BY <1>2 DEF ActivateTarget, incidentVars, TypeOK, OpenIffCurrent, HistorySorted
<1>3. ASSUME NEW source \in Sources, NEW ts \in SUBSET Targets, DeactivateTarget(source, ts)
      PROVE  StoreInv'
  BY <1>3 DEF DeactivateTarget, incidentVars, TypeOK, OpenIffCurrent, HistorySorted
<1>4. CASE UNCHANGED vars
  BY <1>4 DEF vars, probeVars, incidentVars, TypeOK, OpenIffCurrent, HistorySorted
<1> QED
  BY <1>1, <1>2, <1>3, <1>4, NextCases

\* The inductive invariant holds in every behaviour.
LEMMA StoreInvariant == Spec => []StoreInv
  BY InitStoreInv, NextStoreInv, PTL DEF Spec

\* Every variable of the store keeps its type: an index into the heap of incidents
\* is never dangling.
THEOREM TypeCorrect == Spec => []TypeOK
  BY StoreInvariant, PTL DEF StoreInv

\* The history of a target is always sorted by time and bounded, however late a
\* record is (probeHistoryMap.Append).
THEOREM HistoryStaysSorted == Spec => []HistorySorted
  BY StoreInvariant, PTL DEF StoreInv

\* The incidents without an end are exactly the current ones, however late a record
\* is (Store.setIncidentIfNeed).
THEOREM OpenIncidentsAreCurrent == Spec => []OpenIffCurrent
  BY StoreInvariant, PTL DEF StoreInv

-----------------------------------------------------------------------------
(* What a step may never do.                                                *)

\* The incident x became y, and is not less over than it was.
NotReopened(x, y) ==
  /\ y.startsAt <= x.startsAt
  /\ x.endsAt # 0 => y.endsAt \in 1 .. x.endsAt

\* The incidents of the heap.
LEMMA HeapProperties ==
  ASSUME TypeOK
  PROVE  /\ incidents \in Seq(Incident) /\ DOMAIN incidents = 1 .. Len(incidents)
         /\ \A i \in 1 .. Len(incidents) :
              incidents[i] \in Incident /\ incidents[i].startsAt \in Nat /\ incidents[i].endsAt \in Nat
<1>1. incidents \in Seq(Incident)
  BY DEF TypeOK
<1>2. \A i \in 1 .. Len(incidents) : incidents[i] \in Incident
  BY <1>1, ElementOfSeq
<1> QED
  BY <1>1, <1>2 DEF Incident, Instant

\* Ending an incident that a record belongs to may only bring its end forward.
LEMMA ResolveReopensNothing ==
  ASSUME TypeOK, OpenIffCurrent, NEW r \in Record, NEW inc,
         inc = SearchLastIncident(r.target, r.time)
  PROVE  /\ Len(ResolveIncidents(inc, r)) = Len(incidents)
         /\ \A i \in 1 .. Len(incidents) : NotReopened(incidents[i], ResolveIncidents(inc, r)[i])
<1>1. r.target \in Targets /\ r.time \in Instant /\ r.time \in Nat /\ r.time # 0
  BY DEF Record, Instant
<1>2. /\ inc \in 0 .. Len(incidents)
      /\ inc # None => incidents[inc].endsAt = 0 \/ r.time < incidents[inc].endsAt
  BY <1>1, SearchProperties
<1>3. \A i \in 1 .. Len(incidents) : incidents[i].startsAt \in Nat /\ incidents[i].endsAt \in Nat
  BY HeapProperties
<1>4. Len(ResolveIncidents(inc, r)) = Len(incidents)
  BY <1>2, ResolveType
<1>5. CASE inc = None
  BY <1>3, <1>5 DEF ResolveIncidents, NotReopened
<1>6. CASE inc # None
  <2>1. inc \in 1 .. Len(incidents) /\ incidents \in Seq(Incident)
    BY <1>2, <1>6 DEF None, TypeOK
  <2> DEFINE x == [incidents[inc] EXCEPT !.startsAt = Earlier(@, r.time), !.endsAt = r.time]
  <2>2. x.startsAt = Earlier(incidents[inc].startsAt, r.time) /\ x.endsAt = r.time /\ x \in Incident
    <3>1. incidents[inc] \in Incident
      BY <2>1, ElementOfSeq
    <3>2. Earlier(incidents[inc].startsAt, r.time) \in Instant
      BY <1>1, <3>1 DEF Earlier, Incident
    <3> QED
      BY <1>1, <3>1, <3>2 DEF Incident
  <2>3. ResolveIncidents(inc, r) = [incidents EXCEPT ![inc] = x]
    BY <1>6 DEF ResolveIncidents
  <2> HIDE DEF x
  <2>4. \A i \in 1 .. Len(incidents) : ResolveIncidents(inc, r)[i] = IF i = inc THEN x ELSE incidents[i]
    BY <2>1, <2>2, <2>3, ExceptSeq
  <2>5. NotReopened(incidents[inc], x)
    BY <1>1, <1>2, <1>3, <1>6, <2>1, <2>2 DEF NotReopened, Earlier
  <2>6. \A i \in 1 .. Len(incidents) : NotReopened(incidents[i], incidents[i])
    BY <1>3 DEF NotReopened
  <2> QED
    BY <1>4, <2>4, <2>5, <2>6
<1> QED
  BY <1>4, <1>5, <1>6

\* No record makes an incident end later, or begin later, or go away.
LEMMA SetIncidentReopensNothing ==
  ASSUME TypeOK, OpenIffCurrent, NEW r \in Record, SetIncidentIfNeed(r, TRUE)
  PROVE  \A i \in DOMAIN incidents : i \in DOMAIN incidents' /\ NotReopened(incidents[i], incidents'[i])
<1> DEFINE inc == SearchLastIncident(r.target, r.time)
           I == ResolveIncidents(inc, r)
<1>1. /\ inc \in 0 .. Len(incidents) /\ r.time \in Nat
      /\ I \in Seq(Incident) /\ incidents \in Seq(Incident) /\ incidents' \in Seq(Incident)
      /\ \A i \in DOMAIN incidents : incidents[i].startsAt \in Nat /\ incidents[i].endsAt \in Nat
  <2>1. r.target \in Targets /\ r.time \in Instant /\ r.time \in Nat
    BY DEF Record, Instant
  <2>2. inc \in 0 .. Len(incidents)
    BY <2>1, SearchProperties
  <2>3. incidents' \in Seq(Incident)
    BY SetIncidentKeepsIncidents DEF IncidentsOK
  <2>4. \A i \in DOMAIN incidents : incidents[i].startsAt \in Nat /\ incidents[i].endsAt \in Nat
    BY HeapProperties
  <2> QED
    BY <2>1, <2>2, <2>3, <2>4, ResolveType DEF TypeOK
<1>2. /\ Len(I) = Len(incidents)
      /\ \A i \in 1 .. Len(incidents) : NotReopened(incidents[i], I[i])
  BY ResolveReopensNothing
<1>3. \/ IgnoreAborted(r)
      \/ ContinueIncident(inc, r)
      \/ Recover(inc, r, TRUE)
      \/ OpenCurrent(inc, r, TRUE)
      \/ OpenDelayed(inc, r, TRUE)
  BY DEF SetIncidentIfNeed
<1>4. DOMAIN incidents = 1 .. Len(incidents) /\ DOMAIN incidents' = 1 .. Len(incidents')
  BY <1>1, LenProperties
<1> HIDE DEF inc
<1>5. CASE IgnoreAborted(r)
  BY <1>1, <1>5 DEF IgnoreAborted, incidentVars, NotReopened
<1>6. CASE ContinueIncident(inc, r)
  <2>1. /\ inc \in DOMAIN incidents
        /\ incidents' = [incidents EXCEPT ![inc].startsAt = Earlier(@, r.time), ![inc].message = r.message]
    BY <1>1, <1>4, <1>6 DEF ContinueIncident, Continues, None
  <2>2. \A i \in DOMAIN incidents :
          incidents'[i].endsAt = incidents[i].endsAt /\ incidents'[i].startsAt <= incidents[i].startsAt
    <3> SUFFICES ASSUME NEW i \in DOMAIN incidents
                 PROVE  incidents'[i].endsAt = incidents[i].endsAt /\ incidents'[i].startsAt <= incidents[i].startsAt
      OBVIOUS
    <3>1. incidents[i] \in Incident
      BY <1>1, <1>4, ElementOfSeq
    <3>2. CASE i = inc
      <4>1. incidents'[i] = [incidents[i] EXCEPT !.startsAt = Earlier(@, r.time), !.message = r.message]
        BY <2>1, <3>2
      <4> QED
        BY <1>1, <3>1, <4>1 DEF Earlier, Incident
    <3>3. CASE i # inc
      BY <1>1, <2>1, <3>3
    <3> QED
      BY <3>2, <3>3
  <2>3. DOMAIN incidents' = DOMAIN incidents
    BY <2>1
  <2> QED
    BY <1>1, <2>2, <2>3 DEF NotReopened
<1>7. CASE Recover(inc, r, TRUE)
  BY <1>2, <1>4, <1>7 DEF Recover
<1>8. ASSUME NEW x, incidents' = Append(I, x)
      PROVE  \A i \in DOMAIN incidents : i \in DOMAIN incidents' /\ NotReopened(incidents[i], incidents'[i])
  <2>1. /\ \A i \in 1 .. Len(I) : incidents'[i] = I[i]
        /\ Len(incidents') = Len(I) + 1
    BY <1>1, <1>8
  <2>2. Len(incidents) \in Nat
    BY <1>1
  <2> QED
    BY <1>2, <1>4, <2>1, <2>2
<1>9. CASE OpenCurrent(inc, r, TRUE)
  BY <1>8, <1>9 DEF OpenCurrent
<1>10. CASE OpenDelayed(inc, r, TRUE)
  BY <1>8, <1>10 DEF OpenDelayed
<1> QED
  BY <1>3, <1>5, <1>6, <1>7, <1>9, <1>10

\* An incident that is over stays over, however late a record is: it may only turn out
\* to have begun, and to have ended, earlier (Store.setIncidentIfNeed).
THEOREM NoIncidentIsReopened == Spec => ResolvedStaysResolved
<1> DEFINE Kept == \A i \in DOMAIN incidents :
                     i \in DOMAIN incidents' /\ NotReopened(incidents[i], incidents'[i])
<1>1. StoreInv /\ [Next]_vars => [Kept]_vars
  <2> SUFFICES ASSUME StoreInv, Next PROVE Kept
    OBVIOUS
  <2>1. \A i \in DOMAIN incidents : NotReopened(incidents[i], incidents[i])
    BY HeapProperties DEF StoreInv, NotReopened
  <2>2. ASSUME NEW r \in Record, SetIncidentIfNeed(r, TRUE)
        PROVE  Kept
    BY <2>2, SetIncidentReopensNothing DEF StoreInv
  <2>3. ASSUME UNCHANGED incidents PROVE Kept
    BY <2>1, <2>3
  <2> QED
    BY <2>2, <2>3, NextCases DEF ActivateTarget, DeactivateTarget, incidentVars
<1>2. Spec => [][Kept]_vars
  BY <1>1, StoreInvariant, PTL DEF Spec
<1>3. Kept <=> \A i \in DOMAIN incidents :
                 /\ i \in DOMAIN incidents'
                 /\ incidents'[i].startsAt <= incidents[i].startsAt
                 /\ incidents[i].endsAt # 0 => incidents'[i].endsAt \in 1 .. incidents[i].endsAt
  BY DEF NotReopened
<1> QED
  BY <1>2, <1>3, PTL DEF ResolvedStaysResolved

-----------------------------------------------------------------------------
(* Records that arrive in order (MaxDelay = 0): what late ones break, and that the    *)
(* store implements StatusMonitor.                                                    *)

\* No incident begins, or ends, later than the newest record of its target.
TimesOK ==
  \A i \in DOMAIN incidents :
    /\ incidents[i].startsAt <= LatestTime(incidents[i].target)
    /\ incidents[i].endsAt <= LatestTime(incidents[i].target)

\* An incident is always about something that is wrong.
TroubleOK == \A i \in DOMAIN incidents : incidents[i].status \notin {"HEALTHY", "ABORTED"}

\* The incidents of the history are over.
HistoryOver == \A k \in DOMAIN incidentHistory : incidents[incidentHistory[k]].endsAt # 0

\* The inductive invariant.  TimesOK makes the search of Store.setIncidentIfNeed find
\* the current incident and nothing else.
InOrderInv ==
  /\ StoreInv
  /\ TimesOK /\ TroubleOK /\ HistoryOver
  /\ CurrentMirrorsLatest /\ HistoryBounded /\ IncidentsDisjoint

-----------------------------------------------------------------------------
(* The history of a target.                                                 *)

\* The largest element of a set is the one that is largest.
LEMMA LargestIs ==
  ASSUME NEW n \in Nat, NEW S \in SUBSET (0 .. n), NEW x \in S, \A y \in S : y <= x
  PROVE  Largest(S) = x
<1>1. Largest(S) \in S /\ \A y \in S : y <= Largest(S)
  BY LargestIsGreatest
<1>2. Largest(S) <= x /\ x <= Largest(S) /\ x \in 0 .. n /\ Largest(S) \in 0 .. n
  BY <1>1
<1> QED
  BY <1>2

\* A sequence to whose end an element was added, and that has lost the first ones.
Slid(s, e, d) ==
  /\ Len(d) \in 1 .. Len(s) + 1
  /\ d[Len(d)] = e
  /\ \A i \in 1 .. Len(d) - 1 : d[i] = s[i + Len(s) + 1 - Len(d)]

\* DropOldest is what keeps both histories short.
LEMMA DropOldestSlides ==
  ASSUME NEW S, NEW s \in Seq(S), NEW e \in S, NEW n \in Nat \ {0}
  PROVE  /\ Slid(s, e, DropOldest(Append(s, e), n))
         /\ Len(s) <= n => Len(DropOldest(Append(s, e), n)) <= n
<1> DEFINE a == Append(s, e)
           d == DropOldest(a, n)
<1>1. /\ a \in Seq(S) /\ Len(a) = Len(s) + 1 /\ Len(s) \in Nat /\ a[Len(s) + 1] = e
      /\ \A i \in 1 .. Len(s) : a[i] = s[i]
  OBVIOUS
<1> HIDE DEF a
<1>2. CASE Len(a) > n
  <2>1. Len(d) = Len(a) - 1 /\ \A i \in 1 .. Len(a) - 1 : d[i] = a[i + 1]
    BY <1>1, <1>2, DropOldestProperties
  <2>2. Len(s) \in Nat \ {0} /\ Len(d) = Len(s)
    BY <1>1, <1>2, <2>1
  <2> HIDE DEF d
  <2>3. d[Len(d)] = e
    BY <1>1, <2>1, <2>2
  <2>4. \A i \in 1 .. Len(d) - 1 : d[i] = s[i + Len(s) + 1 - Len(d)]
    <3> SUFFICES ASSUME NEW i \in 1 .. Len(s) - 1 PROVE d[i] = s[i + 1]
      BY <2>2
    <3>1. d[i] = a[i + 1] /\ i + 1 \in 1 .. Len(s)
      BY <1>1, <2>1, <2>2
    <3> QED
      BY <1>1, <3>1
  <2>5. Len(s) <= n => Len(d) <= n
    BY <2>2
  <2> QED
    BY <1>1, <2>2, <2>3, <2>4, <2>5 DEF Slid, a, d
<1>3. CASE ~(Len(a) > n)
  <2>1. d = a
    BY <1>3 DEF DropOldest
  <2>2. Slid(s, e, a) /\ Len(a) <= n
    BY <1>1, <1>3 DEF Slid
  <2> QED
    BY <2>1, <2>2 DEF a
<1> QED
  BY <1>2, <1>3

\* The history of the target gets the record as its newest, the others stay.
LEMMA InOrderRecords ==
  ASSUME StoreInv, NEW source \in Sources, NEW r \in Record,
         AppendRecord(source, r), LatestTime(r.target) <= r.time
  PROVE  /\ Slid(records[r.target], r, records'[r.target])
         /\ LatestTime(r.target)' = r.time
         /\ \A t \in Targets \ {r.target} : records'[t] = records[t] /\ LatestTime(t)' = LatestTime(t)
<1> DEFINE s == records[r.target]
<1>1. r.target \in Targets /\ s \in Seq(Record)
  BY DEF Record, StoreInv, TypeOK
<1>2. s = <<>> \/ s[Len(s)].time <= r.time
  BY DEF LatestTime
<1>3. InsertRecord(s, r) = Append(s, r)
  <2>1. Sorted(s)
    BY <1>1 DEF StoreInv, HistorySorted, Sorted
  <2> QED
    BY <1>1, <1>2, <2>1, InsertRecordProperties
<1>4. \A t \in Targets :
        records'[t] = IF t = r.target THEN DropOldest(Append(s, r), ProbeHistoryLen) ELSE records[t]
  BY <1>1, <1>3 DEF AppendRecord, StoreInv, TypeOK
<1>5. Slid(s, r, records'[r.target])
  BY <1>1, <1>4, StoreAssumption, DropOldestSlides
<1>6. LatestTime(r.target)' = r.time
  <2>1. records'[r.target] # <<>>
    BY <1>5 DEF Slid
  <2> QED
    BY <1>5, <2>1 DEF Slid, LatestTime
<1> QED
  BY <1>4, <1>5, <1>6 DEF LatestTime

-----------------------------------------------------------------------------
(* The incident a record belongs to.                                        *)

\* It is the current one of its target: the resolved ones are over by then.
LEMMA SearchFindsCurrent ==
  ASSUME StoreInv, TimesOK, NEW r \in Record, LatestTime(r.target) <= r.time
  PROVE  SearchLastIncident(r.target, r.time) = currentIncidents[r.target]
<1>1. r.target \in Targets /\ r.time \in Nat /\ LatestTime(r.target) \in Nat
  <2>1. r.target \in Targets /\ r.time \in Nat /\ records[r.target] \in Seq(Record)
    BY DEF Record, Instant, StoreInv, TypeOK
  <2>2. records[r.target] # <<>> => records[r.target][Len(records[r.target])] \in Record
    BY <2>1, ElementOfSeq
  <2> QED
    BY <2>1, <2>2 DEF LatestTime, Record, Instant
<1>2. \A k \in DOMAIN incidentHistory : ~Covers(incidents[incidentHistory[k]], r.target, r.time)
  <2> SUFFICES ASSUME NEW k \in DOMAIN incidentHistory, Covers(incidents[incidentHistory[k]], r.target, r.time)
               PROVE  FALSE
    OBVIOUS
  <2> DEFINE x == incidents[incidentHistory[k]]
  <2>1. incidentHistory[k] \in 1 .. Len(incidents)
    BY ElementOfSeq, LenProperties DEF StoreInv, TypeOK
  <2>2. x.endsAt \in Nat /\ incidentHistory[k] \in DOMAIN incidents
    BY <2>1, HeapProperties DEF StoreInv
  <2>3. x.endsAt <= LatestTime(r.target) /\ r.time < x.endsAt
    BY <2>2 DEF Covers, TimesOK
  <2> QED
    BY <1>1, <2>2, <2>3
<1> QED
  BY <1>2, Zenon DEF SearchLastIncident

\* So a record does one of four things, all to the current incident.
LEMMA InOrderStep ==
  ASSUME StoreInv, TimesOK, NEW r \in Record, LatestTime(r.target) <= r.time,
         SetIncidentIfNeed(r, TRUE), NEW c, c = currentIncidents[r.target]
  PROVE  \/ IgnoreAborted(r)
         \/ ContinueIncident(c, r)
         \/ Recover(c, r, TRUE)
         \/ OpenCurrent(c, r, TRUE)
<1>1. SearchLastIncident(r.target, r.time) = c
  BY SearchFindsCurrent
<1>2. ~OpenDelayed(c, r, TRUE)
  <2>1. r.time \in Nat /\ r.target \in Targets /\ records[r.target] \in Seq(Record)
    BY DEF Record, Instant, StoreInv, TypeOK
  <2>2. LatestTime(r.target) \in Nat
    <3>1. records[r.target] # <<>> => records[r.target][Len(records[r.target])] \in Record
      BY <2>1, ElementOfSeq
    <3> QED
      BY <2>1, <3>1 DEF LatestTime, Record, Instant
  <2>3. OpenDelayed(c, r, TRUE) => r.time < LatestTime(r.target)
    BY Zenon DEF OpenDelayed
  <2>4. ~(r.time < LatestTime(r.target))
    BY <2>1, <2>2
  <2> QED
    BY Zenon, <2>3, <2>4
<1> QED
  BY Zenon, <1>1, <1>2 DEF SetIncidentIfNeed

-----------------------------------------------------------------------------
(* What becomes of a heap I of incidents, a history H and the current       *)
(* incidents C.                                                             *)

Latest == [t \in Targets |-> LatestTime(t)]

HeapOK(I, L) ==
  \A i \in DOMAIN I :
    /\ I[i].startsAt <= L[I[i].target]
    /\ I[i].endsAt <= L[I[i].target]
    /\ I[i].status \notin {"HEALTHY", "ABORTED"}

HistoryOK(I, H, C) ==
  /\ Len(H) <= IncidentHistoryLen
  /\ \A k \in DOMAIN H : I[H[k]].endsAt # 0
  /\ \A j, k \in DOMAIN H :
       j < k /\ I[H[j]].target = I[H[k]].target => I[H[j]].endsAt <= I[H[k]].startsAt
  /\ \A k \in DOMAIN H :
       C[I[H[k]].target] # None => I[H[k]].endsAt <= I[C[I[H[k]].target]].startsAt

\* The parts of the invariant that speak of these.
LEMMA InOrderParts ==
  StoreInv => (TimesOK /\ TroubleOK /\ HistoryOver /\ HistoryBounded /\ IncidentsDisjoint
                <=> HeapOK(incidents, Latest) /\ HistoryOK(incidents, incidentHistory, currentIncidents))
<1> SUFFICES ASSUME StoreInv
             PROVE  /\ HeapOK(incidents, Latest) <=> TimesOK /\ TroubleOK
                    /\ HistoryOK(incidents, incidentHistory, currentIncidents) <=>
                         HistoryOver /\ HistoryBounded /\ IncidentsDisjoint
  OBVIOUS
<1>1. \A i \in DOMAIN incidents : Latest[incidents[i].target] = LatestTime(incidents[i].target)
  BY HeapProperties DEF StoreInv, Incident, Latest
<1> QED
  BY <1>1 DEF HeapOK, HistoryOK, TimesOK, TroubleOK, HistoryOver, HistoryBounded, IncidentsDisjoint

\* Ending the current incident c of the target of r changes the end of c, moves it to
\* the end of the history and leaves the target without one.
LEMMA ResolveInOrder ==
  ASSUME StoreInv, NEW r \in Record, NEW c, c = currentIncidents[r.target], c # None
  PROVE  LET I == ResolveIncidents(c, r)
         IN  /\ c \in 1 .. Len(incidents) /\ incidents[c].target = r.target
             /\ I \in Seq(Incident) /\ Len(I) = Len(incidents)
             /\ \A i \in 1 .. Len(I) :
                  /\ I[i].target = incidents[i].target /\ I[i].status = incidents[i].status
                  /\ I[i].message = incidents[i].message
                  /\ I[i].endsAt = IF i = c THEN r.time ELSE incidents[i].endsAt
                  /\ I[i].startsAt = IF i = c THEN Earlier(incidents[i].startsAt, r.time) ELSE incidents[i].startsAt
             /\ Slid(incidentHistory, c, ResolveHistory(c))
             /\ Len(incidentHistory) <= IncidentHistoryLen => Len(ResolveHistory(c)) <= IncidentHistoryLen
             /\ ResolveCurrent(c, r.target) = [currentIncidents EXCEPT ![r.target] = None]
<1> USE DEF StoreInv
<1>1. r.target \in Targets /\ r.time \in Instant
  BY DEF Record
<1>2. c \in 1 .. Len(incidents) /\ incidents[c].target = r.target
  BY <1>1 DEF TypeOK, None, OpenIffCurrent
<1>3. incidents \in Seq(Incident) /\ incidents[c] \in Incident
  BY <1>2, HeapProperties
<1> DEFINE x == [incidents[c] EXCEPT !.startsAt = Earlier(@, r.time), !.endsAt = r.time]
<1>4. x \in Incident
  <2>1. Earlier(incidents[c].startsAt, r.time) \in Instant
    BY <1>1, <1>3 DEF Earlier, Incident
  <2> QED
    BY <1>1, <1>3, <2>1 DEF Incident, Instant
<1>5. /\ x.target = incidents[c].target /\ x.status = incidents[c].status /\ x.message = incidents[c].message
      /\ x.endsAt = r.time /\ x.startsAt = Earlier(incidents[c].startsAt, r.time)
  BY <1>3 DEF Incident
<1>6. ResolveIncidents(c, r) = [incidents EXCEPT ![c] = x]
  BY DEF ResolveIncidents
<1> HIDE DEF x
<1>7. /\ ResolveIncidents(c, r) \in Seq(Incident) /\ Len(ResolveIncidents(c, r)) = Len(incidents)
      /\ \A i \in 1 .. Len(incidents) : ResolveIncidents(c, r)[i] = IF i = c THEN x ELSE incidents[i]
  BY <1>2, <1>3, <1>4, <1>6, ExceptSeq
<1>8. /\ Slid(incidentHistory, c, ResolveHistory(c))
      /\ Len(incidentHistory) <= IncidentHistoryLen => Len(ResolveHistory(c)) <= IncidentHistoryLen
  BY <1>2, StoreAssumption, DropOldestSlides DEF ResolveHistory, TypeOK
<1>9. ResolveCurrent(c, r.target) = [currentIncidents EXCEPT ![r.target] = None]
  BY DEF ResolveCurrent
<1> QED
  BY <1>2, <1>5, <1>7, <1>8, <1>9

\* What is left of the collections when the current incident of r.target, if any, ends.
LEMMA ResolveKeepsOrder ==
  ASSUME StoreInv, HeapOK(incidents, Latest), HistoryOK(incidents, incidentHistory, currentIncidents),
         NEW r \in Record, LatestTime(r.target) <= r.time, NEW c, c = currentIncidents[r.target]
  PROVE  /\ HeapOK(ResolveIncidents(c, r), [Latest EXCEPT ![r.target] = r.time])
         /\ HistoryOK(ResolveIncidents(c, r), ResolveHistory(c), ResolveCurrent(c, r.target))
<1> USE DEF StoreInv
<1> DEFINE L == [Latest EXCEPT ![r.target] = r.time]
           I == ResolveIncidents(c, r)
           H == ResolveHistory(c)
           C == ResolveCurrent(c, r.target)
<1>1. /\ r.target \in Targets /\ r.time \in Nat /\ r.time # 0
      /\ \A t \in Targets : Latest[t] \in Nat /\ L[t] \in Nat /\ Latest[t] <= L[t] /\ L[r.target] = r.time
  <2>1. r.target \in Targets /\ r.time \in Nat /\ r.time # 0
    BY DEF Record, Instant
  <2>2. ASSUME NEW t \in Targets PROVE LatestTime(t) \in Nat
    <3>1. records[t] # <<>> => records[t][Len(records[t])] \in Record
      BY ElementOfSeq DEF TypeOK
    <3> QED
      BY <3>1 DEF LatestTime, Record, Instant
  <2> QED
    BY <2>1, <2>2 DEF Latest
<1>2. /\ incidents \in Seq(Incident) /\ DOMAIN incidents = 1 .. Len(incidents) /\ Len(incidents) \in Nat
      /\ \A i \in 1 .. Len(incidents) :
           /\ incidents[i].startsAt \in Nat /\ incidents[i].endsAt \in Nat /\ incidents[i].target \in Targets
  BY HeapProperties DEF Incident
<1>3. /\ incidentHistory \in Seq(1 .. Len(incidents)) /\ DOMAIN incidentHistory = 1 .. Len(incidentHistory)
      /\ \A k \in 1 .. Len(incidentHistory) : incidentHistory[k] \in 1 .. Len(incidents)
  BY ElementOfSeq DEF TypeOK
<1>4. currentIncidents \in [Targets -> 0 .. Len(incidents)]
  BY DEF TypeOK
<1>5. CASE c = None
  <2>1. I = incidents /\ H = incidentHistory /\ C = currentIncidents
    BY <1>5 DEF ResolveIncidents, ResolveHistory, ResolveCurrent
  <2> HIDE DEF L
  <2>2. HeapOK(incidents, L)
    <3> SUFFICES ASSUME NEW i \in 1 .. Len(incidents)
                 PROVE  /\ incidents[i].startsAt <= L[incidents[i].target]
                        /\ incidents[i].endsAt <= L[incidents[i].target]
                        /\ incidents[i].status \notin {"HEALTHY", "ABORTED"}
      BY <1>2 DEF HeapOK
    <3> QED
      BY <1>1, <1>2 DEF HeapOK
  <2> QED
    BY <2>1, <2>2 DEF L
<1>6. CASE c # None
  <2>1. /\ c \in 1 .. Len(incidents) /\ incidents[c].target = r.target
        /\ I \in Seq(Incident) /\ Len(I) = Len(incidents)
        /\ \A i \in 1 .. Len(I) :
             /\ I[i].target = incidents[i].target /\ I[i].status = incidents[i].status
             /\ I[i].endsAt = IF i = c THEN r.time ELSE incidents[i].endsAt
             /\ I[i].startsAt = IF i = c THEN Earlier(incidents[i].startsAt, r.time) ELSE incidents[i].startsAt
        /\ Slid(incidentHistory, c, H)
        /\ Len(incidentHistory) <= IncidentHistoryLen => Len(H) <= IncidentHistoryLen
        /\ C = [currentIncidents EXCEPT ![r.target] = None]
    BY <1>6, ResolveInOrder
  <2> HIDE DEF I, H, C, L
  <2>2. \A i \in 1 .. Len(incidents) : I[i].startsAt = incidents[i].startsAt
    <3>1. incidents[c].startsAt <= Latest[r.target] /\ Latest[r.target] <= r.time
      BY <1>1, <1>2, <2>1 DEF HeapOK, Latest
    <3> QED
      BY <1>1, <1>2, <2>1, <3>1 DEF Earlier
  <2>3. HeapOK(I, L)
    <3> SUFFICES ASSUME NEW i \in 1 .. Len(incidents)
                 PROVE  /\ I[i].startsAt <= L[I[i].target]
                        /\ I[i].endsAt <= L[I[i].target]
                        /\ I[i].status \notin {"HEALTHY", "ABORTED"}
      BY <2>1, LenProperties DEF HeapOK
    <3>1. PICK t \in Targets : t = incidents[i].target /\ t = I[i].target
      BY <1>2, <2>1
    <3>2. /\ incidents[i].startsAt <= Latest[t] /\ incidents[i].endsAt <= Latest[t]
          /\ incidents[i].status \notin {"HEALTHY", "ABORTED"}
      BY <1>2, <3>1 DEF HeapOK
    <3>3. Latest[t] \in Nat /\ L[t] \in Nat /\ Latest[t] <= L[t]
      BY <1>1
    <3>4. incidents[i].startsAt \in Nat /\ incidents[i].endsAt \in Nat
      BY <1>2
    <3>5. I[i].startsAt = incidents[i].startsAt /\ I[i].status = incidents[i].status
      BY <2>1, <2>2
    <3>6. I[i].endsAt <= L[t]
      <4>1. CASE i = c
        BY <1>1, <2>1, <3>1, <4>1
      <4>2. CASE i # c
        <5>1. I[i].endsAt = incidents[i].endsAt
          BY <2>1, <4>2
        <5> QED
          BY <3>2, <3>3, <3>4, <5>1
      <4> QED
        BY <4>1, <4>2
    <3> QED
      BY <3>1, <3>2, <3>3, <3>4, <3>5, <3>6
  <2>4. \A i \in 1 .. Len(incidents) : i = c \/ I[i].endsAt = incidents[i].endsAt
    BY <2>1
  <2>5. incidents[c].endsAt = 0
    BY <1>2, <1>4, <2>1 DEF OpenIffCurrent
  <2>6. \A k \in 1 .. Len(incidentHistory) : incidentHistory[k] # c
    BY <1>3, <2>5 DEF HistoryOK
  <2> DEFINE old(k) == k + Len(incidentHistory) + 1 - Len(H)
  <2>7. /\ DOMAIN H \subseteq 1 .. Len(H) /\ Len(H) \in Nat /\ H[Len(H)] = c
        /\ \A k \in 1 .. Len(H) - 1 : old(k) \in 1 .. Len(incidentHistory) /\ H[k] = incidentHistory[old(k)]
    <3>1. H \in Seq(1 .. Len(incidents))
      BY <1>4, <2>1, ResolveType DEF H
    <3> QED
      BY <1>3, <2>1, <3>1 DEF Slid
  <2>8. \A k \in 1 .. Len(H) - 1 : /\ H[k] \in 1 .. Len(incidents) /\ H[k] # c
                                    /\ I[H[k]].endsAt = incidents[H[k]].endsAt
    BY <1>3, <2>4, <2>6, <2>7
  <2>9. \A k \in DOMAIN H : I[H[k]].endsAt # 0
    <3> SUFFICES ASSUME NEW k \in DOMAIN H PROVE I[H[k]].endsAt # 0
      OBVIOUS
    <3>1. k = Len(H) \/ k \in 1 .. Len(H) - 1
      BY <2>7
    <3>2. CASE k = Len(H)
      BY <1>1, <2>1, <2>7, <3>2
    <3>3. CASE k \in 1 .. Len(H) - 1
      <4> HIDE DEF old
      <4> QED
        <5>1. old(k) \in DOMAIN incidentHistory /\ H[k] = incidentHistory[old(k)]
          BY <1>3, <2>7, <3>3
        <5>2. incidents[H[k]].endsAt # 0
          BY <5>1 DEF HistoryOK
        <5> QED
          BY <2>8, <3>3, <5>2
    <3> QED
      BY <3>1, <3>2, <3>3
  <2>10. ASSUME NEW j \in DOMAIN H, NEW k \in DOMAIN H, j < k, I[H[j]].target = I[H[k]].target
         PROVE  I[H[j]].endsAt <= I[H[k]].startsAt
    <3>1. j \in 1 .. Len(H) - 1 /\ old(j) \in 1 .. Len(incidentHistory) /\ H[j] = incidentHistory[old(j)]
      <4>1. j \in 1 .. Len(H) /\ k \in 1 .. Len(H)
        BY <2>7
      <4>2. j \in 1 .. Len(H) - 1
        BY <2>7, <2>10, <4>1
      <4> HIDE DEF old
      <4> QED
        BY <2>7, <4>2
    <3>2. CASE k = Len(H)
      <4>1. H[k] = c /\ incidents[H[j]].target = r.target
        BY <2>1, <2>7, <2>8, <2>10, <3>1, <3>2
      <4>2. incidents[H[j]].endsAt <= incidents[c].startsAt
        BY <1>3, <1>6, <3>1, <4>1 DEF HistoryOK
      <4> QED
        BY <2>1, <2>2, <2>8, <3>1, <4>1, <4>2
    <3>3. CASE k # Len(H)
      <4>1. /\ k \in 1 .. Len(H) - 1 /\ old(k) \in 1 .. Len(incidentHistory) /\ H[k] = incidentHistory[old(k)]
            /\ old(j) < old(k)
        <5>1. k \in 1 .. Len(H) - 1
          BY <2>7, <3>3
        <5>2. old(j) < old(k)
          BY <1>3, <2>7, <2>10, <3>1, <5>1
        <5> HIDE DEF old
        <5> QED
          BY <2>7, <5>1, <5>2
      <4>2. incidents[H[j]].target = incidents[H[k]].target
        BY <2>1, <2>8, <2>10, <3>1, <4>1
      <4> HIDE DEF old
      <4>3. incidents[H[j]].endsAt <= incidents[H[k]].startsAt
        BY <1>3, <3>1, <4>1, <4>2 DEF HistoryOK
      <4> QED
        BY <2>2, <2>8, <3>1, <4>1, <4>3
    <3> QED
      BY <3>2, <3>3
  <2>11. ASSUME NEW k \in DOMAIN H, C[I[H[k]].target] # None
         PROVE  I[H[k]].endsAt <= I[C[I[H[k]].target]].startsAt
    <3>1. k # Len(H)
      BY <1>1, <1>4, <2>1, <2>7, <2>11
    <3>2. k \in 1 .. Len(H) - 1 /\ old(k) \in 1 .. Len(incidentHistory) /\ H[k] = incidentHistory[old(k)]
      BY <2>7, <3>1
    <3> DEFINE u == incidents[H[k]].target
    <3>3. I[H[k]].target = u /\ u \in Targets
      BY <1>2, <2>1, <2>8, <3>2
    <3>4. C[u] = currentIncidents[u] /\ C[u] \in 1 .. Len(incidents)
      BY <1>4, <2>1, <2>11, <3>3 DEF None
    <3>5. incidents[H[k]].endsAt <= incidents[currentIncidents[u]].startsAt
      BY <1>3, <2>11, <3>2, <3>3, <3>4 DEF HistoryOK
    <3> QED
      BY <2>2, <2>8, <3>2, <3>3, <3>4, <3>5
  <2>12. HistoryOK(I, H, C)
    BY <2>1, <2>9, <2>10, <2>11 DEF HistoryOK
  <2> QED
    BY <2>3, <2>12 DEF I, H, C, L
<1> QED
  BY <1>5, <1>6

\* The incident c goes on with another message, and began no later than r.
LEMMA ContinueInOrder ==
  ASSUME StoreInv, HeapOK(incidents, Latest), NEW r \in Record, LatestTime(r.target) <= r.time,
         NEW c, c = currentIncidents[r.target], ContinueIncident(c, r)
  PROVE  /\ c \in 1 .. Len(incidents) /\ incidents[c].target = r.target /\ incidents[c].status = r.status
         /\ IsSameIncidentMessage(incidents[c].message, r.message)
         /\ Len(incidents') = Len(incidents) /\ DOMAIN incidents' = DOMAIN incidents
         /\ \A i \in 1 .. Len(incidents) :
              /\ incidents'[i].target = incidents[i].target /\ incidents'[i].status = incidents[i].status
              /\ incidents'[i].startsAt = incidents[i].startsAt /\ incidents'[i].endsAt = incidents[i].endsAt
              /\ incidents'[i].message = IF i = c THEN r.message ELSE incidents[i].message
<1> USE DEF StoreInv
<1>1. r.target \in Targets /\ r.time \in Nat /\ r.message \in Messages
  BY DEF Record, Instant
<1>2. /\ c # None /\ incidents[c].status = r.status /\ IsSameIncidentMessage(incidents[c].message, r.message)
      /\ incidents' = [incidents EXCEPT ![c].startsAt = Earlier(@, r.time), ![c].message = r.message]
  BY DEF ContinueIncident, Continues
<1>3. c \in 1 .. Len(incidents) /\ incidents[c].target = r.target
  BY <1>1, <1>2 DEF TypeOK, None, OpenIffCurrent
<1>4. incidents \in Seq(Incident) /\ DOMAIN incidents = 1 .. Len(incidents) /\ incidents[c] \in Incident
  BY <1>3, HeapProperties
<1>5. Earlier(incidents[c].startsAt, r.time) = incidents[c].startsAt
  <2>1. incidents[c].startsAt <= Latest[r.target] /\ Latest[r.target] <= r.time
    BY <1>1, <1>3, <1>4 DEF HeapOK, Latest
  <2>2. incidents[c].startsAt \in Nat /\ Latest[r.target] \in Nat
    <3>1. records[r.target] # <<>> => records[r.target][Len(records[r.target])] \in Record
      BY <1>1, ElementOfSeq DEF TypeOK
    <3>2. Latest[r.target] \in Nat
      BY <1>1, <3>1 DEF Latest, LatestTime, Record, Instant
    <3> QED
      BY <1>3, <3>2, HeapProperties
  <2> QED
    BY <1>1, <2>1, <2>2 DEF Earlier
<1> DEFINE x == [incidents[c] EXCEPT !.startsAt = Earlier(@, r.time), !.message = r.message]
<1>6. incidents' = [incidents EXCEPT ![c] = x]
  BY <1>2
<1>7. /\ x.target = incidents[c].target /\ x.status = incidents[c].status /\ x.endsAt = incidents[c].endsAt
      /\ x.startsAt = incidents[c].startsAt /\ x.message = r.message /\ x \in Incident
  BY <1>1, <1>4, <1>5 DEF Incident
<1> HIDE DEF x
<1>8. /\ Len(incidents') = Len(incidents) /\ DOMAIN incidents' = DOMAIN incidents
      /\ \A i \in 1 .. Len(incidents) : incidents'[i] = IF i = c THEN x ELSE incidents[i]
  BY <1>3, <1>4, <1>6, <1>7, ExceptSeq
<1>9. ASSUME NEW i \in 1 .. Len(incidents)
      PROVE  /\ incidents'[i].target = incidents[i].target /\ incidents'[i].status = incidents[i].status
             /\ incidents'[i].startsAt = incidents[i].startsAt /\ incidents'[i].endsAt = incidents[i].endsAt
             /\ incidents'[i].message = IF i = c THEN r.message ELSE incidents[i].message
  <2>1. CASE i = c
    BY <1>7, <1>8, <2>1
  <2>2. CASE i # c
    BY <1>8, <2>2
  <2> QED
    BY <2>1, <2>2
<1> QED
  BY <1>2, <1>3, <1>8, <1>9

\* A record that is not older than the newest keeps the incidents in order.
LEMMA SetIncidentInOrder ==
  ASSUME StoreInv, HeapOK(incidents, Latest), HistoryOK(incidents, incidentHistory, currentIncidents),
         NEW r \in Record, LatestTime(r.target) <= r.time, SetIncidentIfNeed(r, TRUE)
  PROVE  /\ HeapOK(incidents', [Latest EXCEPT ![r.target] = r.time])
         /\ HistoryOK(incidents', incidentHistory', currentIncidents')
<1> DEFINE L == [Latest EXCEPT ![r.target] = r.time]
           c == currentIncidents[r.target]
           I == ResolveIncidents(c, r)
           H == ResolveHistory(c)
           C == ResolveCurrent(c, r.target)
<1>1. /\ r.target \in Targets /\ r.time \in Instant /\ r.time \in Nat /\ r.time # 0
      /\ \A t \in Targets : Latest[t] \in Nat /\ L[t] \in Nat /\ Latest[t] <= L[t]
      /\ L[r.target] = r.time
  <2>1. r.target \in Targets /\ r.time \in Instant /\ r.time \in Nat /\ r.time # 0
    BY DEF Record, Instant
  <2>2. ASSUME NEW t \in Targets PROVE LatestTime(t) \in Nat
    <3>1. records[t] # <<>> => records[t][Len(records[t])] \in Record
      BY ElementOfSeq DEF StoreInv, TypeOK
    <3> QED
      BY <3>1 DEF LatestTime, Record, Instant
  <2> QED
    BY <2>1, <2>2 DEF Latest
<1>2. /\ incidents \in Seq(Incident) /\ DOMAIN incidents = 1 .. Len(incidents) /\ Len(incidents) \in Nat
      /\ \A i \in 1 .. Len(incidents) :
           /\ incidents[i].startsAt \in Nat /\ incidents[i].endsAt \in Nat /\ incidents[i].target \in Targets
  BY HeapProperties DEF StoreInv, Incident
<1>3. \/ IgnoreAborted(r)
      \/ ContinueIncident(c, r)
      \/ Recover(c, r, TRUE)
      \/ OpenCurrent(c, r, TRUE)
  <2>1. TimesOK
    BY InOrderParts, <1>2 DEF HeapOK, TimesOK, Latest
  <2> QED
    BY <2>1, InOrderStep
<1>4. HeapOK(I, L) /\ HistoryOK(I, H, C)
  BY ResolveKeepsOrder
<1> HIDE DEF L
<1>5. CASE IgnoreAborted(r)
  <2>1. UNCHANGED <<incidents, incidentHistory, currentIncidents>>
    BY <1>5 DEF IgnoreAborted, incidentVars
  <2>2. HeapOK(incidents, L)
    <3> SUFFICES ASSUME NEW i \in 1 .. Len(incidents)
                 PROVE  /\ incidents[i].startsAt <= L[incidents[i].target]
                        /\ incidents[i].endsAt <= L[incidents[i].target]
                        /\ incidents[i].status \notin {"HEALTHY", "ABORTED"}
      BY <1>2 DEF HeapOK
    <3> QED
      BY <1>1, <1>2 DEF HeapOK
  <2> QED
    BY <2>1, <2>2 DEF L
<1>6. CASE ContinueIncident(c, r)
  <2>1. /\ DOMAIN incidents' = DOMAIN incidents
        /\ \A i \in 1 .. Len(incidents) :
             /\ incidents'[i].target = incidents[i].target /\ incidents'[i].status = incidents[i].status
             /\ incidents'[i].startsAt = incidents[i].startsAt /\ incidents'[i].endsAt = incidents[i].endsAt
    BY <1>6, ContinueInOrder
  <2>2. incidentHistory' = incidentHistory /\ currentIncidents' = currentIncidents
    BY <1>6 DEF ContinueIncident
  <2>3. HeapOK(incidents', L)
    <3> SUFFICES ASSUME NEW i \in 1 .. Len(incidents)
                 PROVE  /\ incidents'[i].startsAt <= L[incidents'[i].target]
                        /\ incidents'[i].endsAt <= L[incidents'[i].target]
                        /\ incidents'[i].status \notin {"HEALTHY", "ABORTED"}
      BY <1>2, <2>1 DEF HeapOK
    <3>1. PICK t \in Targets : t = incidents[i].target /\ t = incidents'[i].target
      BY <1>2, <2>1
    <3>2. /\ incidents[i].startsAt <= Latest[t] /\ incidents[i].endsAt <= Latest[t]
          /\ incidents[i].status \notin {"HEALTHY", "ABORTED"}
      BY <1>2, <3>1 DEF HeapOK
    <3>3. Latest[t] \in Nat /\ L[t] \in Nat /\ Latest[t] <= L[t]
      BY <1>1
    <3>4. incidents[i].startsAt \in Nat /\ incidents[i].endsAt \in Nat
      BY <1>2
    <3>5. /\ incidents'[i].startsAt = incidents[i].startsAt /\ incidents'[i].endsAt = incidents[i].endsAt
          /\ incidents'[i].status = incidents[i].status
      BY <2>1
    <3> QED
      BY <3>1, <3>2, <3>3, <3>4, <3>5
  <2>4. HistoryOK(incidents', incidentHistory, currentIncidents)
    <3>1. \A k \in DOMAIN incidentHistory : incidentHistory[k] \in 1 .. Len(incidents)
      BY ElementOfSeq, LenProperties DEF StoreInv, TypeOK
    <3>2. \A u \in Targets : currentIncidents[u] # None => currentIncidents[u] \in 1 .. Len(incidents)
      BY DEF StoreInv, TypeOK, None
    <3>3. \A k \in DOMAIN incidentHistory :
            /\ incidents'[incidentHistory[k]].target = incidents[incidentHistory[k]].target
            /\ incidents'[incidentHistory[k]].startsAt = incidents[incidentHistory[k]].startsAt
            /\ incidents'[incidentHistory[k]].endsAt = incidents[incidentHistory[k]].endsAt
            /\ incidents[incidentHistory[k]].target \in Targets
      BY <1>2, <2>1, <3>1
    <3>4. \A u \in Targets : currentIncidents[u] # None =>
            incidents'[currentIncidents[u]].startsAt = incidents[currentIncidents[u]].startsAt
      BY <2>1, <3>2
    <3> QED
      BY <3>3, <3>4 DEF HistoryOK
  <2> QED
    BY <2>2, <2>3, <2>4 DEF L
<1>7. CASE Recover(c, r, TRUE)
  BY <1>4, <1>7 DEF Recover, L
<1>8. CASE OpenCurrent(c, r, TRUE)
  <2> DEFINE x == NewIncident(r, 0)
  <2>1. /\ x.target = r.target /\ x.startsAt = r.time /\ x.endsAt = 0
        /\ x.status \notin {"HEALTHY", "ABORTED"} /\ x \in Incident
    BY <1>1, <1>8 DEF OpenCurrent, OpenIncident, NewIncident, Record, Incident
  <2>2. /\ incidents' = Append(I, x) /\ incidentHistory' = H
        /\ currentIncidents' = [C EXCEPT ![r.target] = Len(incidents) + 1]
    BY <1>8 DEF OpenCurrent
  <2>3. /\ I \in Seq(Incident) /\ Len(I) = Len(incidents)
        /\ H \in Seq(1 .. Len(incidents)) /\ C \in [Targets -> 0 .. Len(incidents)]
    <3>1. c \in 0 .. Len(incidents)
      BY <1>1 DEF StoreInv, TypeOK
    <3> QED
      BY <3>1, ResolveType DEF StoreInv
  <2> HIDE DEF I, H, C, x
  <2>4. /\ DOMAIN incidents' = 1 .. Len(incidents) + 1 /\ DOMAIN I = 1 .. Len(incidents)
        /\ incidents'[Len(incidents) + 1] = x
        /\ \A i \in 1 .. Len(incidents) : incidents'[i] = I[i]
    BY <2>1, <2>2, <2>3
  <2>5. HeapOK(incidents', L)
    BY <1>1, <1>2, <1>4, <2>1, <2>4 DEF HeapOK
  <2>6. \A k \in DOMAIN H : H[k] \in 1 .. Len(incidents)
    BY <2>3, ElementOfSeq, LenProperties
  <2>7. \A k \in DOMAIN H : incidents'[H[k]] = I[H[k]] /\ H[k] \in DOMAIN I /\ I[H[k]] \in Incident
    BY <2>3, <2>4, <2>6, ElementOfSeq
  <2>8. ASSUME NEW k \in DOMAIN H, currentIncidents'[I[H[k]].target] # None
        PROVE  I[H[k]].endsAt <= incidents'[currentIncidents'[I[H[k]].target]].startsAt
    <3> DEFINE u == I[H[k]].target
    <3>1. u \in Targets
      BY <2>7 DEF Incident
    <3>2. CASE u = r.target
      <4>1. currentIncidents'[u] = Len(incidents) + 1
        BY <1>1, <2>2, <2>3, <3>2
      <4>2. I[H[k]].endsAt <= r.time
        BY <1>1, <1>4, <2>7, <3>2 DEF HeapOK
      <4> QED
        BY <2>1, <2>4, <4>1, <4>2
    <3>3. CASE u # r.target
      <4>1. currentIncidents'[u] = C[u] /\ C[u] # None
        BY <2>2, <2>3, <2>8, <3>1, <3>3
      <4>2. C[u] \in 1 .. Len(incidents)
        BY <2>3, <3>1, <4>1 DEF None
      <4> QED
        BY <1>4, <2>4, <4>1, <4>2 DEF HistoryOK
    <3> QED
      BY <3>2, <3>3
  <2>9. HistoryOK(incidents', H, currentIncidents')
    BY <1>4, <2>7, <2>8 DEF HistoryOK
  <2> QED
    BY <2>2, <2>5, <2>9 DEF L
<1> QED
  BY <1>3, <1>5, <1>6, <1>7, <1>8

-----------------------------------------------------------------------------
(* What a record changes for the readers of the store.                      *)

\* The current incident of the target of r says what r says, that of another target
\* stays, and OnStatusChanged is called when that is news.
LEMMA InOrderEffect ==
  ASSUME StoreInv, HeapOK(incidents, Latest), NEW r \in Record, LatestTime(r.target) <= r.time,
         SetIncidentIfNeed(r, TRUE), NEW c, c = currentIncidents[r.target]
  PROVE  /\ \A t \in Targets \ {r.target} :
              /\ currentIncidents'[t] = currentIncidents[t]
              /\ currentIncidents[t] # None =>
                   /\ incidents'[currentIncidents[t]].status = incidents[currentIncidents[t]].status
                   /\ incidents'[currentIncidents[t]].message = incidents[currentIncidents[t]].message
         /\ r.status = "ABORTED" => UNCHANGED <<incidents, currentIncidents>> /\ calls' = <<>>
         /\ r.status = "HEALTHY" =>
              currentIncidents'[r.target] = None /\ calls' = IF c = None THEN <<>> ELSE <<r>>
         /\ r.status \notin {"ABORTED", "HEALTHY"} =>
              /\ currentIncidents'[r.target] # None
              /\ incidents'[currentIncidents'[r.target]].status = r.status
              /\ incidents'[currentIncidents'[r.target]].message = r.message
              /\ calls' = IF /\ c # None /\ incidents[c].status = r.status
                             /\ IsSameIncidentMessage(incidents[c].message, r.message)
                          THEN <<>> ELSE <<r>>
<1> USE DEF StoreInv
<1> DEFINE I == ResolveIncidents(c, r)
           C == ResolveCurrent(c, r.target)
           Same == c # None /\ incidents[c].status = r.status /\ IsSameIncidentMessage(incidents[c].message, r.message)
           Others == \A t \in Targets \ {r.target} :
                       /\ currentIncidents'[t] = currentIncidents[t]
                       /\ currentIncidents[t] # None =>
                            /\ incidents'[currentIncidents[t]].status = incidents[currentIncidents[t]].status
                            /\ incidents'[currentIncidents[t]].message = incidents[currentIncidents[t]].message
<1>1. r.target \in Targets /\ r.time \in Nat /\ c \in 0 .. Len(incidents) /\ Len(incidents) \in Nat
  BY DEF Record, Instant, TypeOK
<1>2. /\ currentIncidents \in [Targets -> 0 .. Len(incidents)]
      /\ \A t \in Targets : currentIncidents[t] # None => currentIncidents[t] \in 1 .. Len(incidents)
  BY DEF TypeOK, None
<1>3. /\ IgnoreAborted(r) \/ ContinueIncident(c, r) \/ Recover(c, r, TRUE) \/ OpenCurrent(c, r, TRUE)
  <2>1. TimesOK
    BY InOrderParts, HeapProperties DEF HeapOK, TimesOK, Latest, Incident
  <2> QED
    BY <2>1, InOrderStep
<1>4. c # None => c \in 1 .. Len(incidents) /\ incidents[c].target = r.target /\ incidents[c].endsAt = 0
                 /\ incidents[c].status \notin {"HEALTHY", "ABORTED"}
  BY <1>1, HeapProperties DEF OpenIffCurrent, HeapOK, None
<1>5. Continues(c, r) <=> Same
  BY <1>4 DEF Continues
<1>6. \A t \in Targets \ {r.target} : currentIncidents[t] # None => currentIncidents[t] # c
  BY <1>1, <1>4 DEF OpenIffCurrent
<1>7. /\ I \in Seq(Incident) /\ Len(I) = Len(incidents) /\ C \in [Targets -> 0 .. Len(incidents)]
      /\ \A t \in Targets \ {r.target} : C[t] = currentIncidents[t]
      /\ C[r.target] = None
      /\ \A i \in 1 .. Len(incidents) : I[i].status = incidents[i].status /\ I[i].message = incidents[i].message
  <2>1. CASE c = None
    BY <1>1, <1>2, <2>1, ResolveType DEF ResolveIncidents, ResolveCurrent
  <2>2. CASE c # None
    <3>1. /\ I \in Seq(Incident) /\ Len(I) = Len(incidents)
          /\ \A i \in 1 .. Len(I) : I[i].status = incidents[i].status /\ I[i].message = incidents[i].message
          /\ C = [currentIncidents EXCEPT ![r.target] = None]
      BY <2>2, ResolveInOrder
    <3> QED
      BY <1>1, <1>2, <3>1 DEF None
  <2> QED
    BY <2>1, <2>2
<1>8. CASE IgnoreAborted(r)
  BY <1>8 DEF IgnoreAborted, incidentVars
<1>9. CASE ContinueIncident(c, r)
  <2>1. /\ c \in 1 .. Len(incidents) /\ incidents[c].status = r.status /\ Continues(c, r)
        /\ \A i \in 1 .. Len(incidents) :
             /\ incidents'[i].status = incidents[i].status
             /\ incidents'[i].message = IF i = c THEN r.message ELSE incidents[i].message
    <3>1. Continues(c, r)
      BY <1>9 DEF ContinueIncident
    <3>2. /\ c \in 1 .. Len(incidents) /\ incidents[c].status = r.status
          /\ \A i \in 1 .. Len(incidents) :
               /\ incidents'[i].status = incidents[i].status
               /\ incidents'[i].message = IF i = c THEN r.message ELSE incidents[i].message
      BY <1>9, ContinueInOrder
    <3> QED
      BY <3>1, <3>2
  <2>2. r.status # "ABORTED" /\ calls' = <<>> /\ currentIncidents' = currentIncidents
    BY <1>9 DEF ContinueIncident
  <2>3. c # None /\ Same
    BY <1>5, <2>1
  <2>4. Others
    BY <1>2, <1>6, <2>1, <2>2
  <2>5. r.status # "HEALTHY"
    BY <1>4, <2>1, <2>3
  <2>6. incidents'[c].status = r.status /\ incidents'[c].message = r.message
    BY <2>1
  <2> QED
    BY <2>2, <2>3, <2>4, <2>5, <2>6
<1>10. CASE Recover(c, r, TRUE)
  <2>1. r.status = "HEALTHY" /\ incidents' = I /\ currentIncidents' = C /\ calls' = IF c # None THEN <<r>> ELSE <<>>
    BY <1>10 DEF Recover
  <2> HIDE DEF I, C
  <2>2. Others
    BY <1>2, <1>7, <2>1
  <2> QED
    BY <1>7, <2>1, <2>2
<1>11. CASE OpenCurrent(c, r, TRUE)
  <2> DEFINE x == NewIncident(r, 0)
  <2>1. /\ r.status \notin {"ABORTED", "HEALTHY"} /\ ~Continues(c, r) /\ calls' = <<r>>
        /\ incidents' = Append(I, x)
        /\ currentIncidents' = [C EXCEPT ![r.target] = Len(incidents) + 1]
    BY <1>11 DEF OpenCurrent, OpenIncident
  <2>2. x.status = r.status /\ x.message = r.message
    BY DEF NewIncident
  <2> HIDE DEF I, C, x
  <2>3. /\ incidents'[Len(incidents) + 1] = x
        /\ \A i \in 1 .. Len(incidents) : incidents'[i] = I[i]
    BY <1>7, <2>1
  <2>4. Others
    BY <1>2, <1>7, <2>1, <2>3
  <2>5. currentIncidents'[r.target] = Len(incidents) + 1 /\ currentIncidents'[r.target] # None
    BY <1>1, <1>7, <2>1 DEF None
  <2>6. ~Same
    BY <1>5, <2>1
  <2> QED
    BY <2>1, <2>2, <2>3, <2>4, <2>5, <2>6
<1> QED
  BY <1>3, <1>8, <1>9, <1>10, <1>11

ConclusiveIn(s) == {i \in DOMAIN s : s[i].status # "ABORTED"}

\* The newest conclusive record of a history that a record was added to.
LEMMA ConclusiveSlides ==
  ASSUME NEW s \in Seq(Record), NEW d \in Seq(Record), NEW r \in Record, Slid(s, r, d)
  PROVE  /\ r.status # "ABORTED" => d[Largest(ConclusiveIn(d))] = r
         /\ r.status = "ABORTED" /\ ConclusiveIn(d) # {} =>
              /\ ConclusiveIn(s) # {}
              /\ d[Largest(ConclusiveIn(d))] = s[Largest(ConclusiveIn(s))]
<1> USE DEF ConclusiveIn
<1> DEFINE o == Len(s) + 1 - Len(d)
<1>1. /\ DOMAIN d = 1 .. Len(d) /\ DOMAIN s = 1 .. Len(s) /\ Len(s) \in Nat /\ Len(d) \in Nat
      /\ ConclusiveIn(d) \in SUBSET (0 .. Len(d)) /\ ConclusiveIn(s) \in SUBSET (0 .. Len(s))
  OBVIOUS
<1>2. Len(d) \in 1 .. Len(s) + 1 /\ d[Len(d)] = r /\ \A i \in 1 .. Len(d) - 1 : d[i] = s[i + o]
  <2>1. \A i \in 1 .. Len(d) - 1 : i + Len(s) + 1 - Len(d) = i + o
    BY <1>1
  <2> QED
    BY <2>1 DEF Slid
<1>2a. o \in Int /\ o = Len(s) + 1 - Len(d) /\ Len(d) \in Nat /\ Len(s) \in Nat
  BY <1>1
<1> HIDE DEF o
<1>3. CASE r.status # "ABORTED"
  <2>1. Len(d) \in ConclusiveIn(d) /\ \A y \in ConclusiveIn(d) : y <= Len(d)
    BY <1>1, <1>2, <1>3
  <2>2. Largest(ConclusiveIn(d)) = Len(d)
    <3> HIDE DEF ConclusiveIn
    <3> QED
      BY <1>1, <2>1, LargestIs
  <2> QED
    BY <1>2, <1>3, <2>1, <2>2
<1>4. ASSUME r.status = "ABORTED", ConclusiveIn(d) # {}
      PROVE  ConclusiveIn(s) # {} /\ d[Largest(ConclusiveIn(d))] = s[Largest(ConclusiveIn(s))]
  <2> DEFINE m == Largest(ConclusiveIn(d))
  <2>1. m \in ConclusiveIn(d) /\ \A y \in ConclusiveIn(d) : y <= m
    <3> HIDE DEF ConclusiveIn
    <3> QED
      BY <1>1, <1>4, LargestIsGreatest
  <2> HIDE DEF m
  <2>2. m \in 1 .. Len(d) - 1 /\ d[m].status # "ABORTED"
    <3>1. m \in 1 .. Len(d) /\ d[m].status # "ABORTED"
      BY <1>1, <2>1
    <3>2. m # Len(d)
      BY <1>2, <1>4, <3>1
    <3> QED
      BY <1>2a, <3>1, <3>2
  <2>3. d[m] = s[m + o] /\ m + o \in 1 .. Len(s)
    BY <1>2, <1>2a, <2>2
  <2>4. m + o \in ConclusiveIn(s)
    BY <1>1, <2>2, <2>3
  <2>5. \A y \in ConclusiveIn(s) : y <= m + o
    <3> SUFFICES ASSUME NEW y \in ConclusiveIn(s), y > m + o PROVE FALSE
      BY <1>1, <2>3
    <3>1. y \in 1 .. Len(s) /\ s[y].status # "ABORTED"
      BY <1>1
    <3>2. y - o \in 1 .. Len(d) - 1 /\ y - o > m /\ (y - o) + o = y
      BY <1>2a, <2>2, <3>1
    <3>3. y - o \in ConclusiveIn(d)
      <4>1. d[y - o] = s[y]
        BY <1>2, <3>2
      <4> QED
        BY <1>1, <1>2a, <3>1, <3>2, <4>1
    <3> QED
      BY <2>1, <2>2, <3>2, <3>3
  <2>6. Largest(ConclusiveIn(s)) = m + o
    <3> HIDE DEF ConclusiveIn
    <3> QED
      BY <1>1, <2>4, <2>5, LargestIs
  <2> QED
    BY <2>3, <2>4, <2>6 DEF m
<1> QED
  BY <1>3, <1>4

\* The current incidents keep to the newest conclusive records.
LEMMA MirrorInOrder ==
  ASSUME StoreInv, StoreInv', HeapOK(incidents, Latest), CurrentMirrorsLatest,
         NEW source \in Sources, NEW r \in Record, LatestTime(r.target) <= r.time,
         SetIncidentIfNeed(r, TRUE), AppendRecord(source, r)
  PROVE  CurrentMirrorsLatest'
<1> DEFINE s == records[r.target]
           d == records'[r.target]
<1>1. r.target \in Targets /\ s \in Seq(Record) /\ d \in Seq(Record)
  BY DEF Record, StoreInv, TypeOK
<1>2. /\ Slid(s, r, d)
      /\ \A t \in Targets \ {r.target} : records'[t] = records[t]
  BY InOrderRecords
<1>3. /\ \A t \in Targets \ {r.target} :
           /\ currentIncidents'[t] = currentIncidents[t]
           /\ currentIncidents[t] # None =>
                /\ incidents'[currentIncidents[t]].status = incidents[currentIncidents[t]].status
                /\ incidents'[currentIncidents[t]].message = incidents[currentIncidents[t]].message
      /\ r.status = "ABORTED" => UNCHANGED <<incidents, currentIncidents>>
      /\ r.status = "HEALTHY" => currentIncidents'[r.target] = None
      /\ r.status \notin {"ABORTED", "HEALTHY"} =>
           /\ currentIncidents'[r.target] # None
           /\ incidents'[currentIncidents'[r.target]].status = r.status
           /\ incidents'[currentIncidents'[r.target]].message = r.message
  BY InOrderEffect
<1>3a. /\ r.status # "ABORTED" => d[Largest(ConclusiveIn(d))] = r
       /\ r.status = "ABORTED" /\ ConclusiveIn(d) # {} => ConclusiveIn(s) # {} /\ d[Largest(ConclusiveIn(d))] = s[Largest(ConclusiveIn(s))]
  BY <1>1, <1>2, ConclusiveSlides
<1>3b. /\ Conclusive(r.target) = ConclusiveIn(s) /\ Conclusive(r.target)' = ConclusiveIn(d)
       /\ LatestConclusive(r.target) = s[Largest(ConclusiveIn(s))] /\ LatestConclusive(r.target)' = d[Largest(ConclusiveIn(d))]
  BY DEF Conclusive, LatestConclusive, ConclusiveIn
<1>4. SUFFICES ASSUME NEW t \in Targets, Conclusive(t)' # {}
               PROVE  LET last == LatestConclusive(t)'
                      IN  /\ last.status = "HEALTHY" <=> currentIncidents'[t] = None
                          /\ last.status # "HEALTHY" =>
                               /\ incidents'[currentIncidents'[t]].status = last.status
                               /\ incidents'[currentIncidents'[t]].message = last.message
  BY DEF CurrentMirrorsLatest
<1> DEFINE Mirrors(last) ==
             /\ last.status = "HEALTHY" <=> currentIncidents[t] = None
             /\ last.status # "HEALTHY" =>
                  /\ incidents[currentIncidents[t]].status = last.status
                  /\ incidents[currentIncidents[t]].message = last.message
<1>5. CASE t # r.target
  <2>1. records'[t] = records[t]
    BY <1>2, <1>5
  <2>2. Conclusive(t)' = Conclusive(t) /\ LatestConclusive(t)' = LatestConclusive(t)
    BY <2>1 DEF Conclusive, LatestConclusive
  <2>3. Mirrors(LatestConclusive(t))
    BY <1>4, <2>2 DEF CurrentMirrorsLatest
  <2> QED
    BY <1>3, <1>5, <2>2, <2>3
<1>6. CASE t = r.target /\ r.status = "ABORTED"
  <2>1. Conclusive(t) # {} /\ LatestConclusive(t)' = LatestConclusive(t)
    BY <1>3a, <1>3b, <1>4, <1>6
  <2>2. Mirrors(LatestConclusive(t))
    BY <2>1 DEF CurrentMirrorsLatest
  <2> QED
    BY <1>3, <1>6, <2>1, <2>2
<1>7. CASE t = r.target /\ r.status # "ABORTED"
  <2>1. LatestConclusive(t)' = r
    BY <1>3a, <1>3b, <1>7
  <2> QED
    BY <1>3, <1>7, <2>1
<1> QED
  BY <1>5, <1>6, <1>7

-----------------------------------------------------------------------------
(* The invariant and the theorems.                                          *)

\* When records arrive in order, none is older than the newest of its target.
LEMMA ArrivesInOrder ==
  ASSUME MaxDelay = 0, StoreInv, NEW r \in Record, Arrives(r)
  PROVE  LatestTime(r.target) <= r.time
BY DEF Arrives, Record, Instant

\* In the beginning there is no history to agree with.
LEMMA InitInOrder == Init => InOrderInv
<1> SUFFICES ASSUME Init PROVE InOrderInv
  OBVIOUS
<1>1. StoreInv
  BY InitStoreInv
<1>2. incidents = <<>> /\ incidentHistory = <<>> /\ records = [t \in Targets |-> <<>>]
  BY DEF Init
<1>3. TimesOK /\ TroubleOK /\ HistoryOver /\ HistoryBounded /\ IncidentsDisjoint
  BY <1>2, StoreAssumption DEF TimesOK, TroubleOK, HistoryOver, HistoryBounded, IncidentsDisjoint
<1>4. CurrentMirrorsLatest
  BY <1>2 DEF CurrentMirrorsLatest, Conclusive
<1> QED
  BY <1>1, <1>3, <1>4 DEF InOrderInv

\* The invariant depends on no more than this.
LEMMA SameIncidents ==
  ASSUME InOrderInv, StoreInv', UNCHANGED <<records, incidentVars>>
  PROVE  InOrderInv'
BY DEF InOrderInv, incidentVars, TimesOK, TroubleOK, HistoryOver, HistoryBounded, IncidentsDisjoint,
   LatestTime, CurrentMirrorsLatest, Conclusive, LatestConclusive

\* A record that is not older than the newest one keeps incidents and history in step.
LEMMA ReportInOrder ==
  ASSUME InOrderInv, StoreInv', NEW source \in Sources, NEW r \in Record,
         LatestTime(r.target) <= r.time, SetIncidentIfNeed(r, TRUE), AppendRecord(source, r)
  PROVE  InOrderInv'
<1>1. StoreInv /\ HeapOK(incidents, Latest) /\ HistoryOK(incidents, incidentHistory, currentIncidents)
  BY InOrderParts DEF InOrderInv
<1>2. HeapOK(incidents', Latest') /\ HistoryOK(incidents', incidentHistory', currentIncidents')
  <2>1. /\ HeapOK(incidents', [Latest EXCEPT ![r.target] = r.time])
        /\ HistoryOK(incidents', incidentHistory', currentIncidents')
    BY <1>1, SetIncidentInOrder
  <2>2. Latest' = [Latest EXCEPT ![r.target] = r.time]
    <3>1. /\ LatestTime(r.target)' = r.time
          /\ \A t \in Targets \ {r.target} : LatestTime(t)' = LatestTime(t)
      BY <1>1, InOrderRecords
    <3> QED
      BY <3>1 DEF Latest
  <2> QED
    BY <2>1, <2>2
<1>3. (TimesOK /\ TroubleOK /\ HistoryOver /\ HistoryBounded /\ IncidentsDisjoint)'
  <2>1. (HeapOK(incidents, Latest) /\ HistoryOK(incidents, incidentHistory, currentIncidents))'
    BY <1>2 DEF HeapOK, HistoryOK
  <2>2. (StoreInv => (TimesOK /\ TroubleOK /\ HistoryOver /\ HistoryBounded /\ IncidentsDisjoint
           <=> HeapOK(incidents, Latest) /\ HistoryOK(incidents, incidentHistory, currentIncidents)))'
    BY InOrderParts, PTL
  <2> QED
    BY <2>1, <2>2
<1>4. CurrentMirrorsLatest'
  BY <1>1, MirrorInOrder DEF InOrderInv
<1> QED
  BY <1>3, <1>4 DEF InOrderInv

\* Every step keeps the invariant when no record is late.
LEMMA NextInOrder == ASSUME MaxDelay = 0 PROVE InOrderInv /\ [Next]_vars => InOrderInv'
<1> SUFFICES ASSUME InOrderInv, [Next]_vars PROVE InOrderInv'
  OBVIOUS
<1>1. StoreInv /\ StoreInv'
  BY NextStoreInv DEF InOrderInv
<1>2. ASSUME NEW source \in Sources, NEW r \in Record, Arrives(r),
             SetIncidentIfNeed(r, TRUE), AppendRecord(source, r)
      PROVE  InOrderInv'
  <2>1. LatestTime(r.target) <= r.time
    BY <1>1, <1>2, ArrivesInOrder
  <2> QED
    BY <1>1, <1>2, <2>1, ReportInOrder
<1>3. ASSUME UNCHANGED <<records, incidentVars>> PROVE InOrderInv'
  BY <1>1, <1>3, SameIncidents
<1> QED
  BY <1>2, <1>3, NextCases DEF ActivateTarget, DeactivateTarget, vars, probeVars

\* The inductive invariant of records in order holds in every behaviour.
LEMMA InOrderInvariant == ASSUME MaxDelay = 0 PROVE Spec => []InOrderInv
<1>1. InOrderInv /\ [Next]_vars => InOrderInv'
  BY NextInOrder
<1> QED
  BY <1>1, InitInOrder, PTL DEF Spec

\* When records arrive in order, the current incident of a target is what its newest
\* conclusive record says (Store.CurrentIncidents against Store.ProbeHistory).
THEOREM CurrentIncidentsMirrorTheHistory == ASSUME MaxDelay = 0 PROVE Spec => []CurrentMirrorsLatest
<1>1. InOrderInv => CurrentMirrorsLatest
  BY DEF InOrderInv
<1> QED
  BY <1>1, InOrderInvariant, PTL

\* When records arrive in order, the resolved incidents are at most INCIDENT_HISTORY_LEN
\* (the trim of Store.setIncidentIfNeed, which a late record skips).
THEOREM IncidentHistoryStaysBounded == ASSUME MaxDelay = 0 PROVE Spec => []HistoryBounded
<1>1. InOrderInv => HistoryBounded
  BY DEF InOrderInv
<1> QED
  BY <1>1, InOrderInvariant, PTL

\* When records arrive in order, the incidents of a target follow one another, and are
\* listed as they did (Store.IncidentHistory).
THEOREM IncidentsFollowOneAnother == ASSUME MaxDelay = 0 PROVE Spec => []IncidentsDisjoint
<1>1. InOrderInv => IncidentsDisjoint
  BY DEF InOrderInv
<1> QED
  BY <1>1, InOrderInvariant, PTL

-----------------------------------------------------------------------------
(* The store implements StatusMonitor.                                      *)

\* What the monitor knows of each target, and what it told.
Condition(t) ==
  IF currentIncidents[t] = None THEN <<"HEALTHY">> ELSE ConditionOf(incidents[currentIncidents[t]])
Troubles == {<<s, MaskedMessage[m]>> : s \in Status \ {"HEALTHY", "ABORTED"}, m \in Messages}
ToldOf(c) == [k \in DOMAIN c |-> <<c[k].target, ConditionOf(c[k])>>]

\* Calls to OnStatusChanged are told one by one.
LEMMA ToldNothing == ToldOf(<<>>) = <<>>
<1>1. ToldOf(<<>>) \in Seq({}) /\ Len(ToldOf(<<>>)) = 0
  BY IsASeq DEF ToldOf
<1> QED
  BY <1>1, EmptySeq

\* A single record is told as the condition it shows.
LEMMA ToldOnce == ASSUME NEW r PROVE ToldOf(<<r>>) = <<<<r.target, ConditionOf(r)>>>>
<1> DEFINE e == <<r.target, ConditionOf(r)>>
<1>1. DOMAIN <<r>> = 1 .. 1 /\ <<r>>[1] = r
  OBVIOUS
<1>2. ToldOf(<<r>>) = [k \in 1 .. 1 |-> e]
  BY <1>1 DEF ToldOf
<1> HIDE DEF e
<1>3. [k \in 1 .. 1 |-> e] = <<e>>
  OBVIOUS
<1> QED
  BY <1>2, <1>3 DEF e

\* A record that says something is an observation of its target.
LEMMA ReportObserves ==
  ASSUME InOrderInv, NEW r \in Record, LatestTime(r.target) <= r.time, SetIncidentIfNeed(r, TRUE),
         r.status # "ABORTED"
  PROVE  /\ Condition(r.target)' = ConditionOf(r)
         /\ \A t \in Targets \ {r.target} : Condition(t)' = Condition(t)
         /\ ToldOf(calls)' = IF ConditionOf(r) = Condition(r.target) THEN <<>>
                             ELSE <<<<r.target, ConditionOf(r)>>>>
<1> DEFINE c == currentIncidents[r.target]
           Same == c # None /\ incidents[c].status = r.status /\ IsSameIncidentMessage(incidents[c].message, r.message)
<1>1. StoreInv /\ HeapOK(incidents, Latest)
  BY InOrderParts DEF InOrderInv
<1>2. /\ \A t \in Targets \ {r.target} :
           /\ currentIncidents'[t] = currentIncidents[t]
           /\ currentIncidents[t] # None =>
                /\ incidents'[currentIncidents[t]].status = incidents[currentIncidents[t]].status
                /\ incidents'[currentIncidents[t]].message = incidents[currentIncidents[t]].message
      /\ r.status = "HEALTHY" =>
           currentIncidents'[r.target] = None /\ calls' = IF c = None THEN <<>> ELSE <<r>>
      /\ r.status # "HEALTHY" =>
           /\ currentIncidents'[r.target] # None
           /\ incidents'[currentIncidents'[r.target]].status = r.status
           /\ incidents'[currentIncidents'[r.target]].message = r.message
           /\ calls' = IF Same THEN <<>> ELSE <<r>>
  BY <1>1, InOrderEffect
<1>3. c # None => incidents[c].status # "HEALTHY"
  <2>1. r.target \in Targets /\ (c # None => c \in 1 .. Len(incidents))
    BY <1>1 DEF Record, StoreInv, TypeOK, None
  <2> QED
    BY <1>1, <2>1, HeapProperties DEF StoreInv, HeapOK
<1>4. Condition(r.target)' = ConditionOf(r)
  BY <1>2 DEF Condition, ConditionOf
<1>5. ASSUME NEW t \in Targets \ {r.target} PROVE Condition(t)' = Condition(t)
  BY <1>2, <1>5 DEF Condition, ConditionOf
<1>6. calls' = IF ConditionOf(r) = Condition(r.target) THEN <<>> ELSE <<r>>
  <2>1. CASE r.status = "HEALTHY"
    <3>1. ConditionOf(r) = <<"HEALTHY">>
      BY <2>1 DEF ConditionOf
    <3>2. c # None => Condition(r.target) = <<incidents[c].status, MaskedMessage[incidents[c].message]>>
      BY <1>3 DEF Condition, ConditionOf
    <3>3. ConditionOf(r) = Condition(r.target) <=> c = None
      BY <3>1, <3>2 DEF Condition
    <3> QED
      BY <1>2, <2>1, <3>3
  <2>2. CASE r.status # "HEALTHY"
    <3>1. ConditionOf(r) = <<r.status, MaskedMessage[r.message]>>
      BY <2>2 DEF ConditionOf
    <3>2. c # None => Condition(r.target) = <<incidents[c].status, MaskedMessage[incidents[c].message]>>
      BY <1>3 DEF Condition, ConditionOf
    <3>3. ConditionOf(r) = Condition(r.target) <=> Same
      BY <3>1, <3>2 DEF Condition, IsSameIncidentMessage
    <3> QED
      BY <1>2, <2>2, <3>3
  <2> QED
    BY <2>1, <2>2
<1>7. ToldOf(calls)' = IF ConditionOf(r) = Condition(r.target) THEN <<>>
                       ELSE <<<<r.target, ConditionOf(r)>>>>
  <2>1. ToldOf(calls)' = ToldOf(calls')
    BY DEF ToldOf, ConditionOf
  <2> QED
    BY <1>6, <2>1, ToldNothing, ToldOnce
<1> QED
  BY <1>4, <1>5, <1>7

\* A step that calls nobody and changes no incident is quiet.
LEMMA StepIsQuiet ==
  ASSUME calls' = <<>>, UNCHANGED <<incidents, currentIncidents>>
  PROVE  Monitor!Quiet
<1>1. ToldOf(calls)' = <<>>
  <2>1. ToldOf(calls)' = ToldOf(calls')
    BY DEF ToldOf, ConditionOf
  <2> QED
    BY <2>1, ToldNothing
<1> QED
  BY <1>1 DEF Monitor!Quiet, ToldOf, ConditionOf

\* A report is an observation, or quiet if it is of an aborted probe.
LEMMA ReportIsMonitored ==
  ASSUME InOrderInv, NEW r \in Record, LatestTime(r.target) <= r.time, SetIncidentIfNeed(r, TRUE)
  PROVE  Monitor!Next
<1>1. CASE r.status = "ABORTED"
  <2>1. StoreInv /\ HeapOK(incidents, Latest)
    BY InOrderParts DEF InOrderInv
  <2>2. UNCHANGED <<incidents, currentIncidents>> /\ calls' = <<>>
    BY <1>1, <2>1, InOrderEffect
  <2> QED
    BY <2>2, StepIsQuiet DEF Monitor!Next
<1>2. CASE r.status # "ABORTED"
  <2>1. r.target \in Targets /\ ConditionOf(r) \in Troubles \cup {<<"HEALTHY">>}
    BY <1>2 DEF Record, ConditionOf, Troubles
  <2>2. /\ Condition(r.target)' = ConditionOf(r)
        /\ \A t \in Targets \ {r.target} : Condition(t)' = Condition(t)
        /\ ToldOf(calls)' = IF ConditionOf(r) = Condition(r.target) THEN <<>>
                            ELSE <<<<r.target, ConditionOf(r)>>>>
    BY <1>2, ReportObserves
  <2>3. [t \in Targets |-> Condition(t)]' = [[t \in Targets |-> Condition(t)] EXCEPT ![r.target] = ConditionOf(r)]
    BY <2>1, <2>2
  <2>4. Monitor!Observe(r.target, ConditionOf(r))
    BY <2>1, <2>2, <2>3 DEF Monitor!Observe, Condition, ToldOf
  <2> QED
    BY <2>1, <2>4 DEF Monitor!Next, Troubles
<1> QED
  BY <1>1, <1>2

\* When records arrive in order, the store implements StatusMonitor: OnStatusChanged is
\* called once for each change of a target's condition, whatever the number of targets,
\* messages and records, and never otherwise (Store.setIncidentIfNeed).
THEOREM StoreImplementsMonitor == ASSUME MaxDelay = 0 PROVE Spec => AlertsAreStatusChanges
<1>1. Init => Monitor!Init
  <2> SUFFICES ASSUME Init PROVE Monitor!Init
    OBVIOUS
  <2>1. ToldOf(calls) = <<>>
    BY ToldNothing DEF Init
  <2> QED
    BY <2>1 DEF Init, Monitor!Init, ToldOf
<1>2. InOrderInv /\ [Next]_vars => [Monitor!Next]_vars
  <2> SUFFICES ASSUME InOrderInv, Next PROVE Monitor!Next
    OBVIOUS
  <2>1. ASSUME NEW r \in Record, Arrives(r), SetIncidentIfNeed(r, TRUE) PROVE Monitor!Next
    <3>1. LatestTime(r.target) <= r.time
      BY <2>1, ArrivesInOrder DEF InOrderInv
    <3> QED
      BY <2>1, <3>1, ReportIsMonitored
  <2>2. ASSUME calls' = <<>>, UNCHANGED incidentVars PROVE Monitor!Next
    BY <2>2, StepIsQuiet DEF incidentVars, Monitor!Next
  <2> QED
    BY <2>1, <2>2, NextCases DEF ActivateTarget, DeactivateTarget
<1> QED
  BY <1>1, <1>2, InOrderInvariant, PTL DEF Spec, AlertsAreStatusChanges
=============================================================================
