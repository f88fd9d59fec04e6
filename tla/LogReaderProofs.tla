---------------------------- MODULE LogReaderProofs ----------------------------
(***************************************************************************)
(* Theorems about LogReader for any file names, any number and order of     *)
(* records, any period, page and delay, and a writer that goes on.          *)
(***************************************************************************)
EXTENDS LogReader, FiniteSetTheorems, WellFoundedInduction, SequenceTheorems, TLAPS

Entries == [time : 1 .. MaxTime, kind : Kinds]
Scanner == [file : Files, line : Nat \ {0}]
Places == Files \X (Nat \ {0})

ReaderTypeOK ==
  /\ logs \in [Files -> Seq(Entries)]
  /\ clock \in Nat
  /\ offset \in Nat /\ limit \in Nat
  /\ phase \in {"idle", "opening", "paging", "counting", "done", "failed"}
  /\ paths \in Seq(Files)
  /\ scanners \in Seq(Scanner)
  /\ scanned \in BOOLEAN
  /\ count \in Nat
  /\ page \in Seq(Places)
  /\ opened \in SUBSET Places

\* Every line is in the file of its time, and no line is much older than one before it.
LogsOK ==
  \A f \in Files :
    /\ \A i \in DOMAIN logs[f] : FileOf[logs[f][i].time] = f /\ logs[f][i].time <= clock
    /\ \A i, k \in DOMAIN logs[f] : i < k => logs[f][i].time <= logs[f][k].time + MaxDelay

\* The files are opened first, then scanned, and nothing is left in the end.
StageOK ==
  /\ phase = "idle" => paths = <<>> /\ scanners = <<>>
  /\ phase \in {"idle", "opening"} => ~scanned
  /\ ~scanned => count = 0 /\ page = <<>>
  /\ phase \notin {"idle", "opening"} => paths = <<>>
  /\ phase = "done" => scanners = <<>>

\* Every scanner stands on a record of the period, each in a file of its own.
ScannersOK ==
  /\ \A e \in DOMAIN scanners :
       /\ scanners[e].line \in DOMAIN logs[scanners[e].file]
       /\ InPeriod(LineOf(scanners[e]))
  /\ \A d, e \in DOMAIN scanners : d # e => scanners[d].file # scanners[e].file
  /\ \A d, e \in DOMAIN paths : d # e => paths[d] # paths[e]
  /\ \A e \in DOMAIN scanners : scanners[e].file \notin Range(paths)

\* The page is full, or has all that was counted beyond the offset.
Left == IF count < offset THEN 0 ELSE count - offset
PageOK ==
  IF phase \in {"counting", "done"}
  THEN \/ limit # 0 /\ Len(page) = limit /\ limit <= Left
       \/ Len(page) = Left /\ (limit # 0 => Left <= limit) /\ scanned /\ scanners = <<>>
  ELSE Len(page) = Left /\ (limit # 0 => Left <= limit)

\* What is still to be found: the records that the open scanners have not gone past, and
\* those of the files that are not open yet.
Passed(e) == scanned /\ e = Earliest(scanners)
AheadOf(e, p) ==
  /\ scanners[e].file = p[1]
  /\ scanners[e].line < p[2] \/ (scanners[e].line = p[2] /\ ~Passed(e))
Ahead ==
  {p \in Asked : p[1] \in Range(paths) \/ \E e \in DOMAIN scanners : AheadOf(e, p)}

\* S are the records that were counted: none of them twice, and none of those there were at
\* the beginning is forgotten.
Seen(S) ==
  /\ S \subseteq Asked
  /\ Cardinality(S) = count
  /\ S \cap Ahead = {}
  /\ phase \notin {"idle", "failed"} => opened \subseteq S \cup Ahead
  /\ OnPage \subseteq S
  /\ offset = 0 /\ limit = 0 => S \subseteq OnPage

FilesSorted ==
  \A f \in Files : \A i, k \in DOMAIN logs[f] : i < k => logs[f][i].time <= logs[f][k].time

MergeOK ==
  /\ \A i, k \in DOMAIN page : i # k => page[i] # page[k]
  /\ FilesSorted =>
       /\ \A i, k \in DOMAIN page : i < k => Line(page[i]).time <= Line(page[k]).time
       /\ \A i \in DOMAIN page, e \in DOMAIN scanners : Line(page[i]).time <= LineOf(scanners[e]).time

\* The inductive invariant.  The code keeps only the number of the records it has seen, so
\* there is only known to be such a set.
ReaderInv ==
  /\ ReaderTypeOK
  /\ LogsOK
  /\ StageOK
  /\ ScannersOK
  /\ PageOK
  /\ opened \subseteq Readable
  /\ \E S \in SUBSET Places : Seen(S)
  /\ MergeOK

-----------------------------------------------------------------------------
(* Numbers and sequences.                                                   *)

\* A non-empty set of numbers has a least element, which Min is.
LEMMA MinProperties ==
  ASSUME NEW S \in SUBSET Nat, S # {}
  PROVE  Min(S) \in S /\ \A y \in S : Min(S) <= y
<1> DEFINE R == {p \in Nat \X Nat : p[1] < p[2]}
<1>1. IsWellFoundedOn(R, Nat)
  <2>1. OpToRel(<, Nat) = R
    BY DEF OpToRel
  <2> QED
    BY <2>1, NatLessThanWellFounded
<1>2. PICK x \in S : \A y \in S : ~(<<y, x>> \in R)
  BY <1>1, WFMin
<1>3. ASSUME NEW y \in S PROVE x <= y
  <2>1. x \in Nat /\ y \in Nat
    OBVIOUS
  <2>2. y < x => <<y, x>> \in R
    BY <2>1
  <2> QED
    BY <1>2, <2>1, <2>2
<1> QED
  BY <1>3 DEF Min

\* A sequence without one of its elements.
Without(s, e) == SubSeq(s, 1, e - 1) \o SubSeq(s, e + 1, Len(s))

\* What is left of it keeps its order.
LEMMA RemoveProperties ==
  ASSUME NEW S, NEW s \in Seq(S), NEW e \in 1 .. Len(s)
  PROVE  /\ Without(s, e) \in Seq(S) /\ DOMAIN Without(s, e) = 1 .. Len(s) - 1
         /\ \A i \in 1 .. Len(s) - 1 : Without(s, e)[i] = IF i < e THEN s[i] ELSE s[i + 1]
<1> DEFINE t == Without(s, e)
           before == SubSeq(s, 1, e - 1)
           after == SubSeq(s, e + 1, Len(s))
<1>1. Len(s) \in Nat /\ e \in Nat \ {0} /\ e <= Len(s)
  OBVIOUS
<1>2. before \in Seq(S) /\ Len(before) = e - 1 /\ \A i \in 1 .. e - 1 : before[i] = s[i]
  <2>1. 1 \in Int /\ e - 1 \in Int /\ \A i \in 1 .. e - 1 : s[i] \in S
    BY <1>1
  <2>2. /\ before \in Seq(S)
        /\ Len(before) = IF 1 <= e - 1 THEN e - 1 - 1 + 1 ELSE 0
        /\ \A i \in 1 .. e - 1 - 1 + 1 : before[i] = s[1 + i - 1]
    BY <2>1, SubSeqProperties
  <2> HIDE DEF before
  <2>3. Len(before) = e - 1
    BY <1>1, <2>2
  <2>4. ASSUME NEW i \in 1 .. e - 1 PROVE before[i] = s[i]
    <3>1. i \in 1 .. e - 1 - 1 + 1 /\ 1 + i - 1 = i
      BY <1>1
    <3> QED
      BY <2>2, <3>1
  <2> QED
    BY <2>2, <2>3, <2>4
<1>3. after \in Seq(S) /\ Len(after) = Len(s) - e /\ \A i \in 1 .. Len(s) - e : after[i] = s[e + i]
  <2>1. e + 1 \in Int /\ Len(s) \in Int /\ \A i \in e + 1 .. Len(s) : s[i] \in S
    BY <1>1
  <2>2. /\ after \in Seq(S)
        /\ Len(after) = IF e + 1 <= Len(s) THEN Len(s) - (e + 1) + 1 ELSE 0
        /\ \A i \in 1 .. Len(s) - (e + 1) + 1 : after[i] = s[(e + 1) + i - 1]
    BY <2>1, SubSeqProperties
  <2> HIDE DEF after
  <2>3. Len(after) = Len(s) - e
    BY <1>1, <2>2
  <2>4. ASSUME NEW i \in 1 .. Len(s) - e PROVE after[i] = s[e + i]
    <3>1. i \in 1 .. Len(s) - (e + 1) + 1 /\ (e + 1) + i - 1 = e + i
      BY <1>1
    <3> QED
      BY <2>2, <3>1
  <2> QED
    BY <2>2, <2>3, <2>4
<1>4. t = before \o after
  BY DEF Without
<1> HIDE DEF before, after, t
<1>5. /\ t \in Seq(S) /\ Len(t) = Len(before) + Len(after)
      /\ \A i \in 1 .. Len(before) + Len(after) :
           t[i] = IF i <= Len(before) THEN before[i] ELSE after[i - Len(before)]
  <2>1. /\ before \o after \in Seq(S) /\ Len(before \o after) = Len(before) + Len(after)
        /\ \A i \in 1 .. Len(before) + Len(after) :
             (before \o after)[i] = IF i <= Len(before) THEN before[i] ELSE after[i - Len(before)]
    BY <1>2, <1>3, ConcatProperties
  <2> QED
    BY <1>4, <2>1, Zenon
<1>6. Len(before) + Len(after) = Len(s) - 1
  BY <1>1, <1>2, <1>3
<1>7. ASSUME NEW i \in 1 .. Len(s) - 1 PROVE t[i] = IF i < e THEN s[i] ELSE s[i + 1]
  <2>1. t[i] = IF i <= e - 1 THEN before[i] ELSE after[i - (e - 1)]
    BY <1>2, <1>5, <1>6
  <2>2. CASE i < e
    <3>1. i <= e - 1 /\ i \in 1 .. e - 1
      BY <1>1, <2>2
    <3> QED
      BY <1>2, <2>1, <2>2, <3>1
  <2>3. CASE ~(i < e)
    <3>1. ~(i <= e - 1) /\ i - (e - 1) \in 1 .. Len(s) - e /\ e + (i - (e - 1)) = i + 1
      BY <1>1, <2>3
    <3> QED
      BY <1>3, <2>1, <2>3, <3>1
  <2> QED
    BY <2>2, <2>3
<1>8. DOMAIN t = 1 .. Len(s) - 1
  BY <1>5, <1>6, LenProperties
<1> QED
  BY <1>5, <1>7, <1>8 DEF t

\* Appending to a sequence.
LEMMA AppendToSeq ==
  ASSUME NEW S, NEW s \in Seq(S), NEW x \in S, NEW t, t = Append(s, x)
  PROVE  /\ t \in Seq(S) /\ Len(s) \in Nat /\ Len(t) = Len(s) + 1
         /\ DOMAIN s = 1 .. Len(s) /\ DOMAIN t = 1 .. Len(s) + 1
         /\ \A i \in 1 .. Len(s) : t[i] = s[i]
         /\ t[Len(s) + 1] = x
<1>1. /\ t \in Seq(S) /\ Len(t) = Len(s) + 1
      /\ \A i \in 1 .. Len(s) : t[i] = s[i]
      /\ t[Len(s) + 1] = x
  BY AppendProperties
<1>2. Len(s) \in Nat /\ DOMAIN s = 1 .. Len(s) /\ DOMAIN t = 1 .. Len(t)
  BY <1>1, LenProperties
<1> QED
  BY <1>1, <1>2

-----------------------------------------------------------------------------
(* Files and the records in them.                                           *)

\* There are only as many files as instants.
LEMMA FilesFinite == Files \subseteq Nat /\ IsFiniteSet(Files)
<1>1. FileOf \in [1 .. MaxTime -> Nat] /\ 1 \in Int /\ MaxTime \in Int
  BY LogReaderAssumption
<1>2. Files \subseteq Nat
  BY <1>1 DEF Files
<1>3. FileOf \in Surjection(1 .. MaxTime, Files)
  BY <1>1 DEF Files, Surjection
<1>4. IsFiniteSet(Files)
  BY <1>1, <1>3, FS_Interval, FS_Surjection
<1> QED
  BY <1>2, <1>4

\* What Asked, which is built file by file for TLC, is.
LEMMA AskedMembers ==
  ASSUME ReaderTypeOK
  PROVE  \A p : p \in Asked <=>
                  /\ p \in Places /\ p[2] \in DOMAIN logs[p[1]]
                  /\ logs[p[1]][p[2]].kind = "match" /\ InPeriod(logs[p[1]][p[2]])
<1>1. \A f \in Files : DOMAIN logs[f] \subseteq Nat \ {0}
  <2>1. \A f \in Files : logs[f] \in Seq(Entries)
    BY DEF ReaderTypeOK
  <2> QED
    BY <2>1
<1>2. ASSUME NEW p \in Asked
      PROVE  /\ p \in Places /\ p[2] \in DOMAIN logs[p[1]]
             /\ logs[p[1]][p[2]].kind = "match" /\ InPeriod(logs[p[1]][p[2]])
  <2>1. PICK f \in Files :
          \E i \in DOMAIN logs[f] : p = <<f, i>> /\ logs[f][i].kind = "match" /\ InPeriod(logs[f][i])
    BY <1>2, Zenon DEF Asked
  <2>2. PICK i \in DOMAIN logs[f] : p = <<f, i>> /\ logs[f][i].kind = "match" /\ InPeriod(logs[f][i])
    BY <2>1
  <2> QED
    BY <1>1, <2>2 DEF Places
<1>3. ASSUME NEW p \in Places, p[2] \in DOMAIN logs[p[1]],
             logs[p[1]][p[2]].kind = "match", InPeriod(logs[p[1]][p[2]])
      PROVE  p \in Asked
  <2>1. p[1] \in Files /\ p = <<p[1], p[2]>>
    BY DEF Places
  <2>2. p[2] \in {k \in DOMAIN logs[p[1]] : logs[p[1]][k].kind = "match" /\ InPeriod(logs[p[1]][k])}
    BY <1>3
  <2>3. p \in {<<p[1], i>> : i \in {k \in DOMAIN logs[p[1]] : logs[p[1]][k].kind = "match" /\ InPeriod(logs[p[1]][k])}}
    BY <2>1, <2>2, Zenon
  <2> QED
    BY <2>1, <2>3, Zenon DEF Asked
<1> QED
  BY <1>2, <1>3, Zenon

\* The same of the state after a step.
LEMMA AskedMembersNext ==
  ReaderTypeOK' => \A p : p \in Asked' <=>
                     /\ p \in Places /\ p[2] \in DOMAIN logs'[p[1]]
                     /\ logs'[p[1]][p[2]].kind = "match" /\ InPeriod(logs'[p[1]][p[2]])
<1>1. ReaderTypeOK => \A p : p \in Asked <=>
                        /\ p \in Places /\ p[2] \in DOMAIN logs[p[1]]
                        /\ logs[p[1]][p[2]].kind = "match" /\ InPeriod(logs[p[1]][p[2]])
  BY AskedMembers
<1>2. (ReaderTypeOK => \A p : p \in Asked <=>
                         /\ p \in Places /\ p[2] \in DOMAIN logs[p[1]]
                         /\ logs[p[1]][p[2]].kind = "match" /\ InPeriod(logs[p[1]][p[2]]))'
  BY <1>1, PTL
<1> QED
  BY <1>2 DEF Places, InPeriod

\* They can be counted, as the total does.
LEMMA AskedFinite == ASSUME ReaderTypeOK PROVE IsFiniteSet(Asked)
<1> DEFINE K(f) == {k \in DOMAIN logs[f] : logs[f][k].kind = "match" /\ InPeriod(logs[f][k])}
           A(f) == {<<f, i>> : i \in K(f)}
           All == {A(f) : f \in Files}
<1>1. ASSUME NEW f \in Files PROVE IsFiniteSet(A(f))
  <2>1. Len(logs[f]) \in Nat /\ DOMAIN logs[f] = 1 .. Len(logs[f])
    BY LenProperties DEF ReaderTypeOK
  <2>2. IsFiniteSet(1 .. Len(logs[f]))
    BY <2>1, FS_Interval
  <2>3. K(f) \subseteq 1 .. Len(logs[f])
    BY <2>1
  <2>4. IsFiniteSet(K(f))
    BY <2>2, <2>3, FS_Subset
  <2> HIDE DEF K
  <2> DEFINE g == [i \in K(f) |-> <<f, i>>]
  <2>5. g \in Surjection(K(f), A(f))
    BY DEF Surjection
  <2> HIDE DEF g, A
  <2> QED
    BY <2>4, <2>5, FS_Surjection
<1> HIDE DEF A, K
<1>2. IsFiniteSet(All)
  <2> DEFINE g == [f \in Files |-> A(f)]
  <2>1. g \in Surjection(Files, All)
    BY DEF Surjection
  <2> HIDE DEF g, All
  <2> QED
    BY <2>1, FilesFinite, FS_Surjection
<1>3. \A B \in All : IsFiniteSet(B)
  BY <1>1
<1>4. IsFiniteSet(UNION All)
  <2> HIDE DEF All
  <2> QED
    BY <1>2, <1>3, FS_UNION
<1> QED
  BY <1>4 DEF Asked, A, K

\* Where a scan of a file stops: at a record of the period, or where nothing that was there
\* at the beginning is left.
LEMMA ScanFileProperties ==
  ASSUME ReaderTypeOK, LogsOK, opened \subseteq Readable,
         NEW f \in Files, NEW k \in Nat \ {0}, NEW i, i = ScanFile(f, k)
  PROVE  /\ Found(f, i) => i \in DOMAIN logs[f] /\ i \in Nat \ {0} /\ k <= i /\ InPeriod(logs[f][i])
         /\ \A p \in Asked : p[1] = f /\ k <= p[2] /\ Found(f, i) => i <= p[2]
         /\ \A p \in opened : p[1] = f /\ k <= p[2] => Found(f, i)
<1> DEFINE H == Hits(f, k)
           n == Len(logs[f])
<1>1. n \in Nat /\ DOMAIN logs[f] = 1 .. n /\ logs[f] \in Seq(Entries)
      /\ \A j \in 1 .. n : logs[f][j] \in Entries
  <2>1. logs[f] \in Seq(Entries)
    BY DEF ReaderTypeOK
  <2> QED
    BY <2>1
<1>2. H \in SUBSET Nat /\ H = {j \in k .. n : InPeriod(logs[f][j]) \/ EndsScan(logs[f][j])}
  BY <1>1 DEF Hits
<1>3. i = IF H = {} THEN n + 1 ELSE Min(H)
  BY DEF ScanFile
<1> HIDE DEF H, n
<1>4. H # {} => i \in H /\ \A j \in H : i <= j
  BY <1>2, <1>3, MinProperties
<1>5. Found(f, i) <=> i <= n /\ InPeriod(logs[f][i])
  BY DEF Found, n
<1>6. i <= n => H # {}
  BY <1>1, <1>3
<1>7. Found(f, i) => i \in DOMAIN logs[f] /\ i \in Nat \ {0} /\ k <= i /\ InPeriod(logs[f][i])
  BY <1>1, <1>2, <1>4, <1>5, <1>6
<1>8. ASSUME NEW p \in Asked, p[1] = f, k <= p[2]
      PROVE  p[2] \in H /\ p[2] \in 1 .. n /\ i <= p[2] /\ i \in k .. n
  <2>1. p[2] \in 1 .. n /\ InPeriod(logs[f][p[2]])
    BY <1>1, <1>8, AskedMembers
  <2>2. p[2] \in H
    BY <1>1, <1>2, <1>8, <2>1
  <2> QED
    BY <1>2, <1>4, <2>1, <2>2
<1>9. ASSUME NEW p \in opened, p[1] = f, k <= p[2], ~Found(f, i) PROVE FALSE
  <2>1. p \in Asked /\ \A j \in 1 .. p[2] : logs[f][j].kind # "long"
    BY <1>9 DEF Readable
  <2>2. p[2] \in H /\ p[2] \in 1 .. n /\ i <= p[2] /\ i \in k .. n
    BY <1>8, <1>9, <2>1
  <2>3. EndsScan(logs[f][i]) /\ i <= n /\ i \in 1 .. n
    BY <1>1, <1>2, <1>4, <1>5, <1>9, <2>2
  <2>4. logs[f][i].kind # "long"
    BY <1>1, <2>1, <2>2
  <2>5. logs[f][i].time > Until + Clearance
    BY <2>3, <2>4 DEF EndsScan
  <2>6. logs[f][p[2]].time < Until /\ logs[f][p[2]].kind = "match"
    BY <1>9, <2>1, AskedMembers DEF InPeriod
  <2>7. logs[f][i].time \in Nat /\ logs[f][p[2]].time \in Nat /\ Until \in Nat
        /\ Clearance \in Nat /\ MaxDelay \in Nat /\ MaxDelay <= Clearance
    <3>1. logs[f][i] \in Entries /\ logs[f][p[2]] \in Entries
      BY <1>1, <2>2, <2>3
    <3>2. \A e \in Entries : e.time \in Nat
      BY LogReaderAssumption DEF Entries
    <3>3. Until \in Nat /\ Clearance \in Nat /\ MaxDelay \in Nat /\ MaxDelay <= Clearance
      BY LogReaderAssumption
    <3> QED
      BY <3>1, <3>2, <3>3
  <2>8. i < p[2]
    <3>1. i # p[2]
      BY <2>5, <2>6, <2>7
    <3> QED
      BY <1>1, <2>2, <3>1
  <2>9. logs[f][i].time <= logs[f][p[2]].time + MaxDelay
    BY <1>1, <2>2, <2>3, <2>8 DEF LogsOK
  <2> QED
    BY <2>5, <2>6, <2>7, <2>9
<1> QED
  BY <1>7, <1>8, <1>9

\* A finite set of numbers in ascending order.
Ascending(F) ==
  [i \in 1 .. Cardinality(F) |-> CHOOSE f \in F : Cardinality({g \in F : g < f}) = i - 1]

\* Each of the numbers is in it once.
LEMMA AscendingProperties ==
  ASSUME NEW F \in SUBSET Nat, IsFiniteSet(F)
  PROVE  /\ Ascending(F) \in Seq(F)
         /\ \A d, e \in DOMAIN Ascending(F) : d # e => Ascending(F)[d] # Ascending(F)[e]
         /\ \A f \in F : \E i \in DOMAIN Ascending(F) : Ascending(F)[i] = f
<1> DEFINE n == Cardinality(F)
           s == Ascending(F)
           Below(f) == {g \in F : g < f}
           rank(f) == Cardinality(Below(f))
<1>1. n \in Nat
  BY FS_CardinalityType
<1>2. ASSUME NEW f \in F PROVE IsFiniteSet(Below(f)) /\ rank(f) \in 0 .. n - 1
  <2>1. f \in Nat /\ Below(f) \subseteq F \ {f}
    OBVIOUS
  <2>2. IsFiniteSet(F \ {f}) /\ Cardinality(F \ {f}) = n - 1
    BY FS_RemoveElement
  <2> HIDE DEF Below
  <2>3. IsFiniteSet(Below(f)) /\ Cardinality(Below(f)) <= n - 1
    BY <2>1, <2>2, FS_Subset
  <2>4. Cardinality(Below(f)) \in Nat
    BY <2>3, FS_CardinalityType
  <2> QED
    BY <1>1, <2>3, <2>4
<1>3. ASSUME NEW f \in F, NEW h \in F, f < h PROVE rank(f) < rank(h)
  <2>1. ASSUME NEW g \in F, g < f PROVE g < h
    <3>1. g \in Nat /\ f \in Nat /\ h \in Nat
      OBVIOUS
    <3> QED
      BY <1>3, <2>1, <3>1
  <2>2. f \in Nat /\ ~(f < f)
    OBVIOUS
  <2>3. Below(f) \cup {f} \subseteq Below(h) /\ f \notin Below(f)
    BY <1>3, <2>1, <2>2
  <2>4. IsFiniteSet(Below(f)) /\ rank(f) \in Nat /\ IsFiniteSet(Below(h)) /\ rank(h) \in Nat
    BY <1>1, <1>2
  <2> HIDE DEF Below
  <2>5. Cardinality(Below(f) \cup {f}) = Cardinality(Below(f)) + 1
    BY <2>3, <2>4, FS_AddElement
  <2>6. Cardinality(Below(f) \cup {f}) <= Cardinality(Below(h))
    BY <2>3, <2>4, FS_Subset
  <2> QED
    BY <2>4, <2>5, <2>6
<1>4. s = [i \in 1 .. n |-> CHOOSE f \in F : rank(f) = i - 1]
  BY DEF Ascending
<1> DEFINE R == [f \in F |-> rank(f)]
<1>5. R \in [F -> 0 .. n - 1] /\ \A f, h \in F : f < h => R[f] < R[h]
  BY <1>2, <1>3
<1>6. ASSUME NEW i, \E f \in F : R[f] = i - 1 PROVE \E f \in F : rank(f) = i - 1
  BY <1>6
<1>7. \A f \in F : R[f] = rank(f)
  OBVIOUS
<1> HIDE DEF rank, n, R, s
<1>8. ASSUME NEW f \in F, NEW h \in F, R[f] = R[h] PROVE f = h
  <2>1. f \in Nat /\ h \in Nat /\ R[f] \in 0 .. n - 1 /\ R[h] \in 0 .. n - 1
    BY <1>5
  <2>2. ~(f < h) /\ ~(h < f)
    BY <1>1, <1>5, <1>8, <2>1
  <2> QED
    BY <2>1, <2>2
<1>9. ASSUME NEW i \in 1 .. n PROVE \E f \in F : R[f] = i - 1
  <2>1. R \in Injection(F, 0 .. n - 1)
    BY <1>5, <1>8 DEF Injection, IsInjective
  <2>2. IsFiniteSet(0 .. n - 1) /\ Cardinality(0 .. n - 1) = n
    <3>1. IsFiniteSet(0 .. n - 1) /\ Cardinality(0 .. n - 1) = IF 0 > n - 1 THEN 0 ELSE n - 1 - 0 + 1
      BY <1>1, FS_Interval
    <3> QED
      BY <1>1, <3>1
  <2>3. Cardinality(F) = Cardinality(0 .. n - 1)
    BY <2>2 DEF n
  <2>4. R \in Surjection(F, 0 .. n - 1)
    BY <2>1, <2>2, <2>3, FS_Injection
  <2>5. i - 1 \in 0 .. n - 1
    BY <1>1
  <2> QED
    BY <2>4, <2>5 DEF Surjection
<1>10. ASSUME NEW i \in 1 .. n PROVE s[i] \in F /\ R[s[i]] = i - 1
  <2>1. \E f \in F : rank(f) = i - 1
    BY <1>6, <1>9
  <2>2. s[i] = CHOOSE f \in F : rank(f) = i - 1
    BY <1>4
  <2>3. s[i] \in F /\ rank(s[i]) = i - 1
    BY <2>1, <2>2, Zenon
  <2> QED
    BY <1>7, <2>3
<1>11. s \in [1 .. n -> F]
  <2> DEFINE c(i) == CHOOSE f \in F : rank(f) = i - 1
  <2>1. s = [i \in 1 .. n |-> c(i)]
    BY <1>4
  <2> HIDE DEF c
  <2>2. \A i \in 1 .. n : c(i) \in F
    BY <1>10, <2>1
  <2> QED
    BY <2>1, <2>2
<1>12. s \in Seq(F) /\ DOMAIN s = 1 .. n
  BY <1>1, <1>11
<1>13. ASSUME NEW d \in 1 .. n, NEW e \in 1 .. n, s[d] = s[e] PROVE d = e
  <2>1. d - 1 = e - 1
    BY <1>10, <1>13
  <2> QED
    BY <1>1, <2>1
<1>14. ASSUME NEW f \in F PROVE \E i \in 1 .. n : s[i] = f
  <2>1. R[f] \in 0 .. n - 1
    BY <1>5
  <2>2. PICK i \in 1 .. n : i - 1 = R[f]
    <3> DEFINE i == R[f] + 1
    <3>1. i \in 1 .. n /\ i - 1 = R[f]
      BY <1>1, <2>1
    <3> HIDE DEF i
    <3> QED
      BY <3>1
  <2>3. s[i] \in F /\ R[s[i]] = R[f]
    BY <1>10, <2>2
  <2> QED
    BY <1>8, <2>3
<1> QED
  BY <1>12, <1>13, <1>14 DEF s

\* ListBetween names every file that has something to be found, once.
LEMMA ListProperties ==
  ASSUME ReaderTypeOK, LogsOK
  PROVE  /\ ListBetween \in Seq(Files)
         /\ \A d, e \in DOMAIN ListBetween : d # e => ListBetween[d] # ListBetween[e]
         /\ \A p \in Asked : p[1] \in Range(ListBetween)
<1> DEFINE F == {f \in Files : logs[f] # <<>> /\ \E t \in Since .. Until : FileOf[t] = f}
           s == ListBetween
<1>1. F \in SUBSET Nat /\ IsFiniteSet(F) /\ F \subseteq Files
  <2>1. F \subseteq Files
    OBVIOUS
  <2> HIDE DEF F
  <2> QED
    BY <2>1, FilesFinite, FS_Subset
<1>2. s = Ascending(F)
  BY DEF ListBetween, Ascending
<1>3. ASSUME NEW p \in Asked PROVE p[1] \in F
  <2>1. /\ p[1] \in Files /\ p[2] \in DOMAIN logs[p[1]] /\ InPeriod(logs[p[1]][p[2]])
    BY AskedMembers DEF Places
  <2>2. logs[p[1]] \in Seq(Entries)
    BY <2>1 DEF ReaderTypeOK
  <2>3. logs[p[1]] # <<>> /\ logs[p[1]][p[2]].time \in 1 .. MaxTime
    <3>1. logs[p[1]][p[2]] \in Entries
      BY <2>1, <2>2, LenProperties
    <3>2. DOMAIN logs[p[1]] # {}
      BY <2>1
    <3> QED
      BY <3>1, <3>2 DEF Entries
  <2>4. logs[p[1]][p[2]].time \in Since .. Until
    BY <2>1, <2>3, LogReaderAssumption DEF InPeriod
  <2>5. FileOf[logs[p[1]][p[2]].time] = p[1]
    BY <2>1 DEF LogsOK
  <2> QED
    BY <2>1, <2>3, <2>4, <2>5
<1> HIDE DEF F, s
<1>4. /\ s \in Seq(F)
      /\ \A d, e \in DOMAIN s : d # e => s[d] # s[e]
      /\ \A f \in F : \E i \in DOMAIN s : s[i] = f
  BY <1>1, <1>2, AscendingProperties
<1>5. s \in Seq(Files)
  BY <1>1, <1>4, SeqMonotonic
<1>6. \A p \in Asked : p[1] \in Range(s)
  BY <1>3, <1>4 DEF Range
<1> QED
  BY <1>4, <1>5, <1>6 DEF s

\* The scanner that stands on the earliest record.
LEMMA EarliestProperties ==
  ASSUME NEW ss \in Seq(Scanner), ss # <<>>,
         \A e \in DOMAIN ss : LineOf(ss[e]).time \in Nat
  PROVE  /\ Earliest(ss) \in DOMAIN ss
         /\ \A k \in DOMAIN ss : LineOf(ss[Earliest(ss)]).time <= LineOf(ss[k]).time
<1> DEFINE time(e) == LineOf(ss[e]).time
           T == {time(e) : e \in DOMAIN ss}
           E == {i \in DOMAIN ss : \A k \in DOMAIN ss : time(i) <= time(k)}
<1>1. Len(ss) \in Nat \ {0} /\ DOMAIN ss = 1 .. Len(ss)
  BY EmptySeq, LenProperties
<1>2. T \in SUBSET Nat /\ T # {}
  <2>1. 1 \in DOMAIN ss
    BY <1>1
  <2> QED
    BY <2>1
<1>3. Min(T) \in T /\ \A y \in T : Min(T) <= y
  BY <1>2, MinProperties
<1>4. \A e \in DOMAIN ss : time(e) \in T
  OBVIOUS
<1>5. PICK e \in DOMAIN ss : time(e) = Min(T)
  BY <1>3
<1> HIDE DEF T, time
<1>6. e \in E
  BY <1>3, <1>4, <1>5
<1>7. E \in SUBSET Nat /\ E # {}
  BY <1>1, <1>6
<1>8. Earliest(ss) = Min(E)
  BY DEF Earliest, time
<1>9. Earliest(ss) \in E
  <2> HIDE DEF E
  <2> QED
    BY <1>7, <1>8, MinProperties
<1> QED
  BY <1>9 DEF time

-----------------------------------------------------------------------------
(* Scanning.                                                                *)

\* What every step relies on about the open scanners.
LEMMA ScannerTimes ==
  ASSUME ReaderTypeOK, ScannersOK
  PROVE  \A e \in DOMAIN scanners : /\ scanners[e] \in Scanner
                                    /\ LineOf(scanners[e]) \in Entries
                                    /\ LineOf(scanners[e]).time \in Nat
<1> SUFFICES ASSUME NEW e \in DOMAIN scanners
             PROVE  /\ scanners[e] \in Scanner /\ LineOf(scanners[e]) \in Entries
                    /\ LineOf(scanners[e]).time \in Nat
  OBVIOUS
<1>1. scanners[e] \in Scanner
  BY DEF ReaderTypeOK
<1>2. logs[scanners[e].file] \in Seq(Entries) /\ scanners[e].line \in DOMAIN logs[scanners[e].file]
  BY <1>1 DEF ReaderTypeOK, ScannersOK, Scanner
<1>3. LineOf(scanners[e]) \in Entries
  BY <1>2 DEF LineOf
<1>4. LineOf(scanners[e]).time \in Nat
  BY <1>3, LogReaderAssumption DEF Entries
<1> QED
  BY <1>1, <1>3, <1>4

\* The scanners after a Scan: each is one there was and that had not been passed, or has gone
\* on in its file, and nothing that was there at the beginning is skipped.
LEMMA AdvancedProperties ==
  ASSUME ReaderTypeOK, LogsOK, ScannersOK, opened \subseteq Readable
  PROVE  /\ Advanced \in Seq(Scanner)
         /\ \A e \in DOMAIN Advanced : /\ Advanced[e].line \in DOMAIN logs[Advanced[e].file]
                                       /\ InPeriod(LineOf(Advanced[e]))
         /\ \A d, e \in DOMAIN Advanced : d # e => Advanced[d].file # Advanced[e].file
         /\ \A e \in DOMAIN Advanced : \E k \in DOMAIN scanners :
              /\ Advanced[e].file = scanners[k].file
              /\ \/ Advanced[e] = scanners[k] /\ ~Passed(k)
                 \/ scanners[k].line < Advanced[e].line
         /\ \A k \in DOMAIN scanners, p \in opened : AheadOf(k, p) =>
              \E e \in DOMAIN Advanced : Advanced[e].file = p[1] /\ Advanced[e].line <= p[2]
         /\ scanners = <<>> => Advanced = <<>>
<1> DEFINE n == Len(scanners)
<1>1. n \in Nat /\ DOMAIN scanners = 1 .. n /\ scanners \in Seq(Scanner)
  BY LenProperties DEF ReaderTypeOK
<1>2. \A p \in opened : p[2] \in Nat
  BY DEF ReaderTypeOK, Places
<1>3. \A k \in 1 .. n : scanners[k] \in Scanner /\ scanners[k].line \in Nat \ {0} /\ scanners[k].file \in Files
  <2>1. \A k \in 1 .. n : scanners[k] \in Scanner
    BY <1>1
  <2> QED
    BY <2>1 DEF Scanner
<1> HIDE DEF n
<1>4. CASE ~scanned \/ scanners = <<>>
  <2>1. Advanced = scanners
    BY <1>4 DEF Advanced
  <2>2. \A k \in 1 .. n : ~Passed(k)
    BY <1>1, <1>4 DEF Passed, n
  <2>3. \A k \in 1 .. n, p \in opened : AheadOf(k, p) => scanners[k].file = p[1] /\ scanners[k].line <= p[2]
    BY <1>2, <1>3 DEF AheadOf
  <2> QED
    BY <1>1, <2>1, <2>2, <2>3 DEF ScannersOK
<1>5. CASE scanned /\ scanners # <<>>
  <2> DEFINE x == Earliest(scanners)
             f == scanners[x].file
             i == ScanFile(f, scanners[x].line + 1)
  <2>1. x \in 1 .. n
    BY <1>1, <1>5, ScannerTimes, EarliestProperties
  <2>2. \A k \in 1 .. n : Passed(k) <=> k = x
    BY <1>5 DEF Passed
  <2>3. Advanced = IF Found(f, i) THEN [scanners EXCEPT ![x].line = i] ELSE WithoutScanner(x)
    BY <1>5 DEF Advanced, Advance
  <2> HIDE DEF x
  <2>4. f \in Files /\ scanners[x].line \in Nat \ {0} /\ scanners[x].line + 1 \in Nat \ {0}
    BY <1>3, <2>1
  <2> HIDE DEF f, i
  <2>5. /\ Found(f, i) => i \in DOMAIN logs[f] /\ i \in Nat \ {0}
                          /\ scanners[x].line + 1 <= i /\ InPeriod(logs[f][i])
        /\ \A p \in Asked : p[1] = f /\ scanners[x].line + 1 <= p[2] /\ Found(f, i) => i <= p[2]
        /\ \A p \in opened : p[1] = f /\ scanners[x].line + 1 <= p[2] => Found(f, i)
    BY <2>4, ScanFileProperties DEF i
  <2>6. \A p \in opened : AheadOf(x, p) => p[1] = f /\ scanners[x].line + 1 <= p[2]
    BY <1>2, <2>1, <2>2, <2>4 DEF AheadOf, f
  <2>7. \A k \in 1 .. n, p \in opened : AheadOf(k, p) => scanners[k].file = p[1] /\ scanners[k].line <= p[2]
    BY <1>2, <1>3 DEF AheadOf
  <2>8. \A p \in opened : p \in Asked
    BY DEF Readable
  <2>9. CASE Found(f, i)
    <3> DEFINE c == [scanners[x] EXCEPT !.line = i]
    <3>1. Advanced = [scanners EXCEPT ![x] = c]
      BY <2>3, <2>9
    <3>2. c \in Scanner /\ c.file = f /\ c.line = i
      BY <1>3, <2>1, <2>5, <2>9 DEF Scanner, f
    <3> HIDE DEF c
    <3>3. /\ Advanced \in Seq(Scanner) /\ DOMAIN Advanced = 1 .. n
          /\ \A k \in 1 .. n : Advanced[k] = IF k = x THEN c ELSE scanners[k]
      BY <1>1, <2>1, <3>1, <3>2
    <3>4. \A k \in 1 .. n : /\ Advanced[k].file = scanners[k].file
                            /\ k # x => Advanced[k] = scanners[k]
      BY <3>2, <3>3 DEF f
    <3>5. \A e \in 1 .. n : /\ Advanced[e].line \in DOMAIN logs[Advanced[e].file]
                            /\ InPeriod(LineOf(Advanced[e]))
      BY <1>1, <2>5, <2>9, <3>2, <3>3 DEF ScannersOK, LineOf
    <3>6. scanners[x].line < Advanced[x].line
      BY <2>1, <2>4, <2>5, <2>9, <3>2, <3>3
    <3>7. \A d, e \in 1 .. n : d # e => Advanced[d].file # Advanced[e].file
      BY <1>1, <3>4 DEF ScannersOK
    <3>8. \A e \in 1 .. n : \/ Advanced[e] = scanners[e] /\ ~Passed(e)
                            \/ scanners[e].line < Advanced[e].line
      BY <2>2, <3>4, <3>6
    <3>9. ASSUME NEW k \in 1 .. n, NEW p \in opened, AheadOf(k, p)
          PROVE  Advanced[k].file = p[1] /\ Advanced[k].line <= p[2]
      BY <2>1, <2>5, <2>6, <2>7, <2>8, <2>9, <3>2, <3>3, <3>4, <3>9
    <3> QED
      BY <1>1, <1>5, <3>3, <3>4, <3>5, <3>7, <3>8, <3>9
  <2>10. CASE ~Found(f, i)
    <3>1. /\ Advanced \in Seq(Scanner) /\ DOMAIN Advanced = 1 .. n - 1
          /\ \A e \in 1 .. n - 1 : Advanced[e] = IF e < x THEN scanners[e] ELSE scanners[e + 1]
      <4>1. Advanced = Without(scanners, x)
        BY <2>3, <2>10 DEF WithoutScanner, Without
      <4>2. scanners \in Seq(Scanner) /\ x \in 1 .. Len(scanners)
        BY <1>1, <2>1 DEF n
      <4>3. /\ Advanced \in Seq(Scanner) /\ DOMAIN Advanced = 1 .. Len(scanners) - 1
            /\ \A e \in 1 .. Len(scanners) - 1 :
                 Advanced[e] = IF e < x THEN scanners[e] ELSE scanners[e + 1]
        BY <4>1, <4>2, RemoveProperties
      <4> QED
        BY <4>3 DEF n
    <3>2. \A e \in 1 .. n - 1 : \E k \in 1 .. n : k # x /\ Advanced[e] = scanners[k]
      BY <1>1, <2>1, <3>1
    <3>3. \A k \in 1 .. n : k # x => \E e \in 1 .. n - 1 : Advanced[e] = scanners[k]
      <4>1. ASSUME NEW k \in 1 .. n, k # x PROVE \E e \in 1 .. n - 1 : Advanced[e] = scanners[k]
        <5>1. CASE k < x
          BY <1>1, <2>1, <3>1, <5>1
        <5>2. CASE k > x
          <6>1. k - 1 \in 1 .. n - 1 /\ ~(k - 1 < x) /\ k - 1 + 1 = k
            BY <1>1, <2>1, <5>2
          <6> QED
            BY <3>1, <6>1
        <5> QED
          BY <1>1, <2>1, <4>1, <5>1, <5>2
      <4> QED
        BY <4>1
    <3>4. \A d, e \in 1 .. n - 1 : d # e => Advanced[d].file # Advanced[e].file
      <4>1. ASSUME NEW d \in 1 .. n - 1, NEW e \in 1 .. n - 1, d # e
            PROVE  Advanced[d].file # Advanced[e].file
        <5>1. \E k \in 1 .. n : \E l \in 1 .. n : k # l /\ Advanced[d] = scanners[k] /\ Advanced[e] = scanners[l]
          BY <1>1, <2>1, <3>1, <4>1
        <5> QED
          BY <1>1, <5>1 DEF ScannersOK
      <4> QED
        BY <4>1
    <3>5. \A e \in 1 .. n - 1 : /\ Advanced[e].line \in DOMAIN logs[Advanced[e].file]
                                /\ InPeriod(LineOf(Advanced[e]))
      BY <1>1, <3>2 DEF ScannersOK
    <3>6. \A k \in 1 .. n, p \in opened : AheadOf(k, p) => k # x
      BY <2>5, <2>6, <2>10
    <3>7. \A k \in 1 .. n, p \in opened : AheadOf(k, p) =>
            \E e \in 1 .. n - 1 : Advanced[e].file = p[1] /\ Advanced[e].line <= p[2]
      BY <2>7, <3>3, <3>6
    <3>8. \A e \in 1 .. n - 1 : \E k \in 1 .. n : Advanced[e] = scanners[k] /\ ~Passed(k)
      BY <2>2, <3>2
    <3> QED
      BY <1>1, <1>5, <3>1, <3>4, <3>5, <3>7, <3>8
  <2> QED
    BY <2>9, <2>10
<1> QED
  BY <1>4, <1>5

\* The record a Scan stops at.
Here == <<Current.file, Current.line>>

\* What is ahead after a Scan: all that was, but for the record it stops at.
LEMMA ScanStep ==
  ASSUME ReaderInv, Scan, phase \in {"paging", "counting"}, UNCHANGED <<logs, paths, opened>>
  PROVE  /\ scanned' /\ scanners' = Advanced /\ scanners' \in Seq(Scanner)
         /\ ScannersOK' /\ Asked' = Asked
         /\ Ahead' \subseteq Ahead
         /\ HasRecord => /\ scanners # <<>> /\ Here \in Places /\ Here \notin Ahead'
                         /\ Matches => Here \in Ahead
                         /\ \A p \in opened \cap Ahead : p \in Ahead' \/ (Matches /\ p = Here)
                         /\ Line(Here) \in Entries
                         /\ \A e \in DOMAIN scanners' : Line(Here).time <= LineOf(scanners'[e]).time
                         /\ \E e \in DOMAIN scanners' : Line(Here) = LineOf(scanners'[e])
         /\ ~HasRecord => scanners' = <<>> /\ opened \cap Ahead = {}
         /\ FilesSorted => \A e \in DOMAIN scanners' : \E k \in DOMAIN scanners :
              LineOf(scanners[k]).time <= LineOf(scanners'[e]).time
<1> DEFINE c == Earliest(Advanced)
<1>1. /\ scanned' /\ scanners' = Advanced /\ logs' = logs /\ opened' = opened
      /\ paths = <<>> /\ paths' = <<>>
  BY DEF Scan, ReaderInv, StageOK
<1>2. ReaderTypeOK /\ LogsOK /\ ScannersOK /\ opened \subseteq Readable
  BY DEF ReaderInv
<1>3. /\ Advanced \in Seq(Scanner)
      /\ \A e \in DOMAIN Advanced : /\ Advanced[e].line \in DOMAIN logs[Advanced[e].file]
                                    /\ InPeriod(LineOf(Advanced[e]))
      /\ \A d, e \in DOMAIN Advanced : d # e => Advanced[d].file # Advanced[e].file
      /\ \A e \in DOMAIN Advanced : \E k \in DOMAIN scanners :
           /\ Advanced[e].file = scanners[k].file
           /\ \/ Advanced[e] = scanners[k] /\ ~Passed(k)
              \/ scanners[k].line < Advanced[e].line
      /\ \A k \in DOMAIN scanners, p \in opened : AheadOf(k, p) =>
           \E e \in DOMAIN Advanced : Advanced[e].file = p[1] /\ Advanced[e].line <= p[2]
      /\ scanners = <<>> => Advanced = <<>>
  BY <1>2, AdvancedProperties
<1>4. Asked' = Asked
  BY <1>1 DEF Asked, InPeriod
<1>5. \A e : LineOf(scanners[e])' = LineOf(Advanced[e])
  BY <1>1 DEF LineOf
<1>6. ScannersOK'
  <2>1. \A line : InPeriod(line)' = InPeriod(line)
    BY DEF InPeriod
  <2>2. Range(paths)' = {}
    BY <1>1 DEF Range
  <2>3. \A e \in DOMAIN Advanced : Advanced[e].line \in DOMAIN logs[Advanced[e].file] /\ InPeriod(LineOf(Advanced[e]))
    BY <1>3
  <2>4. \A d, e \in DOMAIN Advanced : d # e => Advanced[d].file # Advanced[e].file
    BY <1>3
  <2> QED
    BY <1>1, <1>5, <2>1, <2>2, <2>3, <2>4 DEF ScannersOK
<1>7. (Earliest(scanners))' = c
  BY <1>1 DEF Earliest, LineOf
<1>8. \A e, p : AheadOf(e, p)' <=>
                  /\ Advanced[e].file = p[1]
                  /\ Advanced[e].line < p[2] \/ (Advanced[e].line = p[2] /\ e # c)
  BY <1>1, <1>7 DEF AheadOf, Passed
<1>9. Ahead = {p \in Asked : \E k \in DOMAIN scanners : AheadOf(k, p)}
  BY <1>1 DEF Ahead, Range
<1>10. Ahead' = {p \in Asked : \E e \in DOMAIN Advanced : AheadOf(e, p)'}
  BY <1>1, <1>4 DEF Ahead, Range
<1>11. \A p \in Asked : p \in Places /\ p[2] \in Nat
  BY <1>2, AskedMembers DEF Places
<1>12. \A e \in DOMAIN Advanced : Advanced[e].file \in Files /\ Advanced[e].line \in Nat \ {0}
  <2>1. \A e \in DOMAIN Advanced : Advanced[e] \in Scanner
    BY <1>3
  <2> QED
    BY <2>1 DEF Scanner
<1>13. \A k \in DOMAIN scanners : scanners[k].line \in Nat \ {0}
  BY <1>2, ScannerTimes DEF Scanner
<1>14. ASSUME NEW p \in Asked, NEW e \in DOMAIN Advanced, Advanced[e].file = p[1], Advanced[e].line <= p[2]
       PROVE  p \in Ahead
  <2>1. PICK k \in DOMAIN scanners :
           /\ Advanced[e].file = scanners[k].file
           /\ \/ Advanced[e] = scanners[k] /\ ~Passed(k)
              \/ scanners[k].line < Advanced[e].line
    BY <1>3
  <2>2. AheadOf(k, p)
    BY <1>11, <1>12, <1>13, <1>14, <2>1 DEF AheadOf
  <2> QED
    BY <1>9, <2>2
<1>15. Ahead' \subseteq Ahead
  <2>1. ASSUME NEW p \in Asked, NEW e \in DOMAIN Advanced, AheadOf(e, p)' PROVE p \in Ahead
    <3>1. Advanced[e].file = p[1] /\ Advanced[e].line <= p[2]
      BY <1>8, <1>11, <1>12, <2>1
    <3> QED
      BY <1>14, <3>1
  <2> QED
    BY <1>10, <2>1
<1>16. ASSUME NEW p \in opened \cap Ahead
       PROVE  \E e \in DOMAIN Advanced : Advanced[e].file = p[1] /\ Advanced[e].line <= p[2]
  BY <1>3, <1>9
<1>17. ASSUME HasRecord
       PROVE  /\ scanners # <<>> /\ Here \in Places /\ Here \notin Ahead'
              /\ Matches => Here \in Ahead
              /\ \A p \in opened \cap Ahead : p \in Ahead' \/ (Matches /\ p = Here)
              /\ Line(Here) \in Entries
              /\ \A e \in DOMAIN scanners' : Line(Here).time <= LineOf(scanners'[e]).time
              /\ \E e \in DOMAIN scanners' : Line(Here) = LineOf(scanners'[e])
  <2>1. Advanced # <<>>
    BY <1>17 DEF HasRecord
  <2>2. \A e \in DOMAIN Advanced : LineOf(Advanced[e]) \in Entries /\ LineOf(Advanced[e]).time \in Nat
    <3>1. ASSUME NEW e \in DOMAIN Advanced PROVE LineOf(Advanced[e]) \in Entries
      <4>1. logs[Advanced[e].file] \in Seq(Entries)
        BY <1>2, <1>12 DEF ReaderTypeOK
      <4> QED
        BY <1>3, <4>1 DEF LineOf
    <3> QED
      BY <3>1, LogReaderAssumption DEF Entries
  <2>3. /\ c \in DOMAIN Advanced
        /\ \A e \in DOMAIN Advanced : LineOf(Advanced[c]).time <= LineOf(Advanced[e]).time
    BY <1>3, <2>1, <2>2, EarliestProperties
  <2>4. Current = Advanced[c] /\ Here = <<Advanced[c].file, Advanced[c].line>>
    BY DEF Current, Here
  <2> HIDE DEF c
  <2>5. Here \in Places /\ Here[1] = Advanced[c].file /\ Here[2] = Advanced[c].line
    BY <1>12, <2>3, <2>4 DEF Places
  <2>6. Line(Here) = LineOf(Advanced[c])
    BY <2>5 DEF Line, LineOf
  <2>7. Matches => Here \in Asked
    <3>1. Matches => LineOf(Advanced[c]).kind = "match"
      BY <2>4 DEF Matches
    <3> QED
      BY <1>2, <1>3, <2>3, <2>5, <3>1, AskedMembers DEF LineOf
  <2>8. Matches => Here \in Ahead
    BY <1>12, <1>14, <2>3, <2>5, <2>7
  <2>9. Here \notin Ahead'
    <3>1. ASSUME NEW p \in Asked, NEW e \in DOMAIN Advanced, AheadOf(e, p)' PROVE p # Here
      <4>1. SUFFICES ASSUME p = Here PROVE FALSE
        OBVIOUS
      <4>2. Advanced[e].file = Advanced[c].file
        BY <1>8, <2>5, <3>1, <4>1
      <4>3. e = c
        BY <1>3, <2>3, <4>2
      <4> QED
        BY <1>8, <1>12, <2>3, <2>5, <3>1, <4>1, <4>3
    <3> QED
      BY <1>10, <3>1
  <2>10. ASSUME NEW p \in opened \cap Ahead PROVE p \in Ahead' \/ (Matches /\ p = Here)
    <3>1. p \in Asked
      BY <1>9
    <3>2. PICK e \in DOMAIN Advanced : Advanced[e].file = p[1] /\ Advanced[e].line <= p[2]
      BY <1>16
    <3>3. CASE Advanced[e].line < p[2] \/ e # c
      <4>1. AheadOf(e, p)'
        BY <1>8, <1>11, <1>12, <3>1, <3>2, <3>3
      <4> QED
        BY <1>10, <3>1, <4>1
    <3>4. CASE Advanced[e].line = p[2] /\ e = c
      <4>1. p = <<p[1], p[2]>>
        BY <1>11, <3>1 DEF Places
      <4>2. p = Here
        BY <2>4, <3>2, <3>4, <4>1
      <4>3. Matches
        BY <1>2, <2>4, <2>5, <3>1, <4>2, AskedMembers DEF Matches, LineOf
      <4> QED
        BY <4>2, <4>3
    <3> QED
      BY <1>11, <1>12, <3>1, <3>2, <3>3, <3>4
  <2>11. /\ \A e \in DOMAIN scanners' : Line(Here).time <= LineOf(scanners'[e]).time
         /\ \E e \in DOMAIN scanners' : Line(Here) = LineOf(scanners'[e])
    BY <1>1, <2>3, <2>6
  <2>12. Line(Here) \in Entries
    BY <2>2, <2>3, <2>6
  <2>13. scanners # <<>>
    BY <1>3, <2>1
  <2> QED
    BY <2>5, <2>8, <2>9, <2>10, <2>11, <2>12, <2>13
<1>18. ASSUME ~HasRecord PROVE scanners' = <<>> /\ opened \cap Ahead = {}
  <2>1. Advanced = <<>>
    BY <1>18 DEF HasRecord
  <2> QED
    BY <1>1, <1>16, <2>1
<1>19. ASSUME FilesSorted, NEW e \in DOMAIN Advanced
       PROVE  \E k \in DOMAIN scanners : LineOf(scanners[k]).time <= LineOf(Advanced[e]).time
  <2>1. PICK k \in DOMAIN scanners :
           /\ Advanced[e].file = scanners[k].file
           /\ \/ Advanced[e] = scanners[k] /\ ~Passed(k)
              \/ scanners[k].line < Advanced[e].line
    BY <1>3
  <2>2. LineOf(scanners[k]).time \in Nat
    BY <1>2, ScannerTimes
  <2>3. CASE Advanced[e] = scanners[k]
    BY <2>2, <2>3
  <2>4. CASE scanners[k].line < Advanced[e].line
    <3>1. scanners[k].line \in DOMAIN logs[scanners[k].file] /\ Advanced[e].line \in DOMAIN logs[scanners[k].file]
      BY <1>2, <1>3, <2>1 DEF ScannersOK
    <3>2. scanners[k].file \in Files
      BY <1>12, <2>1
    <3> QED
      BY <1>19, <2>1, <2>4, <3>1, <3>2 DEF FilesSorted, LineOf
  <2> QED
    BY <2>1, <2>3, <2>4
<1> QED
  BY <1>1, <1>3, <1>4, <1>6, <1>15, <1>17, <1>18, <1>19

\* A Scan keeps the invariant, whether its record is passed over, counted or put on the page.
LEMMA ScanKeeps ==
  ASSUME ReaderInv, Scan, phase \in {"paging", "counting"},
         UNCHANGED <<logs, clock, request, paths, opened>>,
         phase' \in {"paging", "counting", "done"}, phase' = "done" => ~HasRecord, PageOK',
         \/ (HasRecord => ~Matches) /\ count' = count /\ page' = page
         \/ /\ HasRecord /\ Matches /\ count' = count + 1
            /\ \/ page' = page /\ ~(offset = 0 /\ limit = 0)
               \/ page' = Append(page, Here)
  PROVE  ReaderInv'
<1>1. /\ scanned' /\ scanners' = Advanced /\ scanners' \in Seq(Scanner)
      /\ ScannersOK' /\ Asked' = Asked
      /\ Ahead' \subseteq Ahead
      /\ HasRecord => /\ scanners # <<>> /\ Here \in Places /\ Here \notin Ahead'
                      /\ Matches => Here \in Ahead
                      /\ \A p \in opened \cap Ahead : p \in Ahead' \/ (Matches /\ p = Here)
                      /\ Line(Here) \in Entries
                      /\ \A e \in DOMAIN scanners' : Line(Here).time <= LineOf(scanners'[e]).time
                      /\ \E e \in DOMAIN scanners' : Line(Here) = LineOf(scanners'[e])
      /\ ~HasRecord => scanners' = <<>> /\ opened \cap Ahead = {}
      /\ FilesSorted => \A e \in DOMAIN scanners' : \E k \in DOMAIN scanners :
           LineOf(scanners[k]).time <= LineOf(scanners'[e]).time
  BY ScanStep
<1>2. /\ ReaderTypeOK /\ LogsOK /\ StageOK /\ ScannersOK /\ opened \subseteq Readable /\ MergeOK
      /\ UNCHANGED <<logs, clock, offset, limit, paths, opened>>
  BY DEF ReaderInv, request
<1>3. PICK S \in SUBSET Places : Seen(S)
  BY DEF ReaderInv
<1>4. \A p : Line(p)' = Line(p)
  BY <1>2 DEF Line
<1>5. \A e : LineOf(scanners[e])' = LineOf(scanners'[e])
  BY <1>2 DEF LineOf
<1>6. FilesSorted' = FilesSorted
  BY <1>2 DEF FilesSorted
<1>7. page \in Seq(Places) /\ count \in Nat /\ OnPage \subseteq S /\ S \subseteq Asked
      /\ IsFiniteSet(S) /\ Cardinality(S) = count /\ S \cap Ahead = {} /\ opened \subseteq S \cup Ahead
      /\ (offset = 0 /\ limit = 0 => S \subseteq OnPage)
  <2>1. IsFiniteSet(Asked)
    BY <1>2, AskedFinite
  <2> QED
    BY <1>2, <1>3, <2>1, FS_Subset DEF ReaderTypeOK, Seen
<1>8. \A i \in DOMAIN page : page[i] \in OnPage /\ page[i] \in S /\ page[i] \in Asked
  BY <1>7 DEF OnPage
<1>9. \A i \in DOMAIN page : Line(page[i]) \in Entries /\ Line(page[i]).time \in Nat
  <2>1. ASSUME NEW p \in Asked PROVE Line(p) \in Entries /\ Line(p).time \in Nat
    <3>1. p[1] \in Files /\ p[2] \in DOMAIN logs[p[1]]
      BY <1>2, AskedMembers DEF Places
    <3>2. logs[p[1]] \in Seq(Entries)
      BY <1>2, <3>1 DEF ReaderTypeOK
    <3>3. Line(p) \in Entries
      BY <3>1, <3>2 DEF Line
    <3> QED
      BY <3>3, LogReaderAssumption DEF Entries
  <2> QED
    BY <1>8, <2>1
<1>10. \A e \in DOMAIN scanners : LineOf(scanners[e]).time \in Nat
  BY <1>2, ScannerTimes
<1>11. \A e \in DOMAIN scanners' : LineOf(scanners'[e]).time \in Nat
  <2>1. ASSUME NEW e \in DOMAIN scanners' PROVE LineOf(scanners'[e]).time \in Nat
    <3>1. scanners'[e] \in Scanner /\ scanners'[e].line \in DOMAIN logs[scanners'[e].file]
      BY <1>1, <1>2 DEF ScannersOK
    <3>2. logs[scanners'[e].file] \in Seq(Entries)
      BY <1>2, <3>1 DEF ReaderTypeOK, Scanner
    <3>3. LineOf(scanners'[e]) \in Entries
      BY <3>1, <3>2 DEF LineOf
    <3> QED
      BY <3>3, LogReaderAssumption DEF Entries
  <2> QED
    BY <2>1
<1>12. FilesSorted => \A i \in DOMAIN page, e \in DOMAIN scanners' : Line(page[i]).time <= LineOf(scanners'[e]).time
  <2>1. ASSUME FilesSorted, NEW i \in DOMAIN page, NEW e \in DOMAIN scanners'
        PROVE  Line(page[i]).time <= LineOf(scanners'[e]).time
    <3>1. PICK k \in DOMAIN scanners : LineOf(scanners[k]).time <= LineOf(scanners'[e]).time
      BY <1>1, <2>1
    <3>2. Line(page[i]).time <= LineOf(scanners[k]).time
      BY <1>2, <2>1 DEF MergeOK
    <3> QED
      BY <1>9, <1>10, <1>11, <3>1, <3>2
  <2> QED
    BY <2>1
<1>13. StageOK' /\ LogsOK' /\ opened' \subseteq Readable'
  <2>1. StageOK'
    BY <1>1, <1>2 DEF StageOK
  <2>2. LogsOK'
    BY <1>2 DEF LogsOK
  <2>3. Readable' = Readable
    BY <1>1, <1>2 DEF Readable
  <2> QED
    BY <1>2, <2>1, <2>2, <2>3
<1>14. CASE (HasRecord => ~Matches) /\ count' = count /\ page' = page
  <2>1. ReaderTypeOK'
    BY <1>1, <1>2, <1>14 DEF ReaderTypeOK
  <2>2. OnPage' = OnPage
    BY <1>14 DEF OnPage
  <2>3. Seen(S)'
    BY <1>1, <1>2, <1>7, <1>14, <2>2 DEF Seen
  <2>4. MergeOK'
    BY <1>2, <1>4, <1>5, <1>6, <1>12, <1>14 DEF MergeOK
  <2> QED
    BY <1>1, <1>13, <2>1, <2>3, <2>4 DEF ReaderInv
<1>15. CASE HasRecord /\ Matches /\ count' = count + 1
  <2>1. Here \in Places /\ Here \in Ahead /\ Here \notin Ahead' /\ Here \in Asked /\ Here \notin S
    BY <1>1, <1>7, <1>15 DEF Ahead
  <2>2. PICK T \in SUBSET Places : T = S \cup {Here}
    BY <2>1
  <2>3. Cardinality(T) = count'
    BY <1>7, <1>15, <2>1, <2>2, FS_AddElement
  <2>4. T \subseteq Asked' /\ T \cap Ahead' = {} /\ opened' \subseteq T \cup Ahead'
    BY <1>1, <1>2, <1>7, <1>15, <2>1, <2>2
  <2>5. CASE page' = page /\ ~(offset = 0 /\ limit = 0)
    <3>1. ReaderTypeOK'
      BY <1>1, <1>2, <1>7, <1>15, <2>5 DEF ReaderTypeOK
    <3>2. OnPage' = OnPage
      BY <2>5 DEF OnPage
    <3>3. Seen(T)'
      BY <1>2, <1>7, <2>2, <2>3, <2>4, <2>5, <3>2 DEF Seen
    <3>4. MergeOK'
      BY <1>2, <1>4, <1>5, <1>6, <1>12, <2>5 DEF MergeOK
    <3> QED
      BY <1>1, <1>13, <3>1, <3>3, <3>4 DEF ReaderInv
  <2>6. CASE page' = Append(page, Here)
    <3> DEFINE n == Len(page)
    <3>1. /\ page' \in Seq(Places) /\ n \in Nat
          /\ DOMAIN page = 1 .. n /\ DOMAIN page' = 1 .. n + 1
          /\ \A i \in 1 .. n : page'[i] = page[i]
          /\ page'[n + 1] = Here
      BY <1>7, <2>1, <2>6, AppendToSeq
    <3>2. ReaderTypeOK'
      BY <1>1, <1>2, <1>7, <1>15, <3>1 DEF ReaderTypeOK
    <3> HIDE DEF n
    <3>3. \A i \in 1 .. n + 1 : (i \in 1 .. n /\ page'[i] = page[i]) \/ (i = n + 1 /\ page'[i] = Here)
      BY <3>1
    <3>4. OnPage' = OnPage \cup {Here}
      <4>1. OnPage' = {page'[i] : i \in 1 .. n + 1} /\ OnPage = {page[i] : i \in 1 .. n}
        BY <3>1 DEF OnPage
      <4>2. n + 1 \in 1 .. n + 1 /\ \A i \in 1 .. n : i \in 1 .. n + 1
        BY <3>1
      <4> QED
        BY <3>1, <3>3, <4>1, <4>2
    <3>5. Seen(T)'
      BY <1>2, <1>7, <2>2, <2>3, <2>4, <3>4 DEF Seen
    <3>6. ASSUME NEW i \in 1 .. n + 1, NEW k \in 1 .. n + 1, i # k PROVE page'[i] # page'[k]
      BY <1>2, <1>8, <2>1, <3>1, <3>3, <3>6 DEF MergeOK
    <3>7. \A e \in DOMAIN scanners' : Line(Here).time <= LineOf(scanners'[e]).time
      BY <1>1, <1>15
    <3>8. FilesSorted => \A i \in 1 .. n : Line(page[i]).time <= Line(Here).time
      BY <1>1, <1>12, <1>15, <3>1
    <3>9. ASSUME FilesSorted, NEW i \in 1 .. n + 1, NEW k \in 1 .. n + 1, i < k
          PROVE  Line(page'[i]).time <= Line(page'[k]).time
      <4>1. i \in 1 .. n /\ page'[i] = page[i]
        BY <3>1, <3>3, <3>9
      <4>2. CASE k \in 1 .. n /\ page'[k] = page[k]
        BY <1>2, <3>1, <3>9, <4>1, <4>2 DEF MergeOK
      <4>3. CASE page'[k] = Here
        BY <3>8, <3>9, <4>1, <4>3
      <4> QED
        BY <3>3, <4>2, <4>3
    <3>10. ASSUME FilesSorted, NEW i \in 1 .. n + 1, NEW e \in DOMAIN scanners'
           PROVE  Line(page'[i]).time <= LineOf(scanners'[e]).time
      BY <1>12, <3>1, <3>3, <3>7, <3>10
    <3>11. MergeOK'
      BY <1>4, <1>5, <1>6, <3>1, <3>6, <3>9, <3>10 DEF MergeOK
    <3> QED
      BY <1>1, <1>13, <3>2, <3>5, <3>11 DEF ReaderInv
  <2> QED
    BY <1>15, <2>5, <2>6
<1> QED
  BY <1>14, <1>15

\* The steps of the PagingScanner, which all read one record or come to the end.
LEMMA PagingSteps ==
  ASSUME ReaderInv, PassOver \/ SkipRecord \/ TakeRecord \/ EndOfLog \/ CountRecord \/ Finish
  PROVE  ReaderInv'
<1>1. /\ ReaderTypeOK /\ PageOK
      /\ count \in Nat /\ offset \in Nat /\ limit \in Nat /\ page \in Seq(Places) /\ Len(page) \in Nat
  BY LenProperties DEF ReaderInv, ReaderTypeOK
<1>2. Here = <<Current.file, Current.line>>
  BY DEF Here
<1>3. CASE PassOver
  <2>1. /\ Scan /\ phase \in {"paging", "counting"} /\ HasRecord /\ ~Matches
        /\ UNCHANGED <<logs, clock, request, phase, paths, count, page, opened>>
    BY <1>3 DEF PassOver
  <2>2. scanners # <<>>
    BY <2>1, ScanStep
  <2>3. PageOK'
    BY <1>1, <2>1, <2>2 DEF PageOK, Left, request
  <2> QED
    BY <2>1, <2>3, ScanKeeps
<1>4. CASE SkipRecord
  <2>1. /\ Scan /\ phase = "paging" /\ count < offset /\ HasRecord /\ Matches /\ count' = count + 1
        /\ UNCHANGED <<logs, clock, request, phase, paths, page, opened>>
    BY <1>4 DEF SkipRecord
  <2>2. Left = 0 /\ Left' = 0 /\ offset # 0
    BY <1>1, <2>1 DEF Left, request
  <2>3. PageOK'
    BY <1>1, <2>1, <2>2 DEF PageOK, request
  <2> QED
    BY <2>1, <2>2, <2>3, ScanKeeps
<1>5. CASE TakeRecord
  <2>1. /\ Scan /\ phase = "paging" /\ count >= offset /\ ~LimitReached /\ HasRecord /\ Matches
        /\ count' = count + 1 /\ page' = Append(page, Here)
        /\ UNCHANGED <<logs, clock, request, phase, paths, opened>>
    BY <1>2, <1>5 DEF TakeRecord
  <2>2. Left = count - offset /\ Left' = count + 1 - offset /\ (limit # 0 => Left < limit)
    BY <1>1, <2>1 DEF Left, LimitReached, request
  <2>3. Here \in Places
    BY <2>1, ScanStep
  <2>4. Len(page') = Len(page) + 1
    BY <1>1, <2>1, <2>3, AppendToSeq
  <2>5. Len(page) = Left /\ Len(page') = Left' /\ (limit # 0 => Left' <= limit)
    BY <1>1, <2>1, <2>2, <2>4 DEF PageOK
  <2>6. PageOK'
    BY <2>1, <2>5 DEF PageOK, request
  <2> QED
    BY <2>1, <2>6, ScanKeeps
<1>6. CASE EndOfLog
  <2>1. /\ Scan /\ phase = "paging" /\ ~HasRecord /\ phase' = "counting"
        /\ UNCHANGED <<logs, clock, request, paths, count, page, opened>>
    BY <1>6 DEF EndOfLog
  <2>2. scanned' /\ scanners' = <<>>
    BY <2>1, ScanStep
  <2>3. PageOK'
    BY <1>1, <2>1, <2>2 DEF PageOK, Left, request
  <2> QED
    BY <2>1, <2>3, ScanKeeps
<1>7. CASE CountRecord
  <2>1. /\ Scan /\ phase = "counting" /\ HasRecord /\ Matches /\ count' = count + 1
        /\ UNCHANGED <<logs, clock, request, phase, paths, page, opened>>
    BY <1>7 DEF CountRecord
  <2>2. scanners # <<>>
    BY <2>1, ScanStep
  <2>3. limit # 0 /\ Len(page) = limit /\ limit <= Left
    BY <1>1, <2>1, <2>2 DEF PageOK
  <2>4. Left <= Left'
    BY <1>1, <2>1 DEF Left, request
  <2>5. Left \in Nat /\ Left' \in Nat
    BY <1>1, <2>1 DEF Left, request
  <2>6. PageOK'
    BY <1>1, <2>1, <2>3, <2>4, <2>5 DEF PageOK, request
  <2> QED
    BY <2>1, <2>3, <2>6, ScanKeeps
<1>8. CASE Finish
  <2>1. /\ Scan /\ phase = "counting" /\ ~HasRecord /\ phase' = "done"
        /\ UNCHANGED <<logs, clock, request, paths, count, page, opened>>
    BY <1>8 DEF Finish
  <2>2. scanned' /\ scanners' = <<>>
    BY <2>1, ScanStep
  <2>3. PageOK'
    BY <1>1, <2>1, <2>2 DEF PageOK, Left, request
  <2> QED
    BY <2>1, <2>3, ScanKeeps
<1> QED
  BY <1>3, <1>4, <1>5, <1>6, <1>7, <1>8

-----------------------------------------------------------------------------
(* The other steps.                                                         *)

\* What depends only on the files and the open scanners stays with them.
LEMMA NothingScanned ==
  ASSUME UNCHANGED <<logs, clock, paths, scanners, scanned>>
  PROVE  /\ Asked' = Asked /\ Ahead' = Ahead /\ Readable' = Readable
         /\ FilesSorted' = FilesSorted /\ LogsOK' = LogsOK /\ ScannersOK' = ScannersOK
         /\ \A p : Line(p)' = Line(p)
         /\ \A e : LineOf(scanners[e])' = LineOf(scanners[e])
<1>1. Asked' = Asked
  BY DEF Asked, InPeriod
<1>2. Readable' = Readable
  BY <1>1 DEF Readable
<1>3. Earliest(scanners)' = Earliest(scanners)
  BY DEF Earliest, LineOf
<1>4. \A e, p : AheadOf(e, p)' <=> AheadOf(e, p)
  BY <1>3 DEF AheadOf, Passed
<1>5. Ahead' = Ahead
  BY <1>1, <1>4 DEF Ahead, Range
<1>6. FilesSorted' = FilesSorted /\ LogsOK' = LogsOK
  BY DEF FilesSorted, LogsOK
<1>7. /\ \A p : Line(p)' = Line(p)
      /\ \A e : LineOf(scanners[e])' = LineOf(scanners[e])
  BY DEF Line, LineOf
<1>8. ScannersOK' = ScannersOK
  BY DEF ScannersOK, LineOf, InPeriod, Range
<1> QED
  BY <1>1, <1>2, <1>5, <1>6, <1>7, <1>8

\* Nothing is scanned: the invariant follows from what it says about the phase.
LEMMA PhaseKeeps ==
  ASSUME ReaderInv, UNCHANGED <<logs, clock, request, paths, scanners, scanned, count, page, opened>>,
         phase' \in {"idle", "opening", "paging", "counting", "done", "failed"}, StageOK', PageOK',
         phase \in {"idle", "failed"} => phase' = phase
  PROVE  ReaderInv'
<1>1. /\ Asked' = Asked /\ Ahead' = Ahead /\ Readable' = Readable
      /\ FilesSorted' = FilesSorted /\ LogsOK' = LogsOK /\ ScannersOK' = ScannersOK
      /\ \A p : Line(p)' = Line(p)
      /\ \A e : LineOf(scanners[e])' = LineOf(scanners[e])
  BY NothingScanned
<1>2. ReaderTypeOK'
  BY DEF ReaderInv, ReaderTypeOK, request
<1>3. OnPage' = OnPage
  BY DEF OnPage
<1>4. PICK S \in SUBSET Places : Seen(S)
  BY DEF ReaderInv
<1>5. Seen(S)'
  BY <1>1, <1>3, <1>4 DEF Seen, request
<1>6. MergeOK'
  BY <1>1 DEF ReaderInv, MergeOK
<1> QED
  BY <1>1, <1>2, <1>5, <1>6 DEF ReaderInv

\* Opening the files is over, and so is the page when its limit is reached.
LEMMA PhaseSteps ==
  ASSUME ReaderInv, StartPaging \/ EndOfPage \/ UNCHANGED vars
  PROVE  ReaderInv'
<1>1. ReaderTypeOK /\ PageOK /\ StageOK /\ count \in Nat /\ offset \in Nat /\ limit \in Nat
  BY DEF ReaderInv, ReaderTypeOK
<1>2. CASE StartPaging
  <2>1. StageOK' /\ PageOK'
    BY <1>1, <1>2 DEF StartPaging, StageOK, PageOK, Left, request
  <2> QED
    BY <1>2, <2>1, PhaseKeeps DEF StartPaging
<1>3. CASE EndOfPage
  <2>1. Len(page) = Left /\ limit # 0 /\ Left <= limit /\ limit <= Left
    BY <1>1, <1>3 DEF EndOfPage, PageOK, Left, LimitReached
  <2>2. Len(page) = limit
    BY <1>1, <2>1 DEF Left
  <2>3. StageOK' /\ PageOK'
    BY <1>1, <1>3, <2>1, <2>2 DEF EndOfPage, StageOK, PageOK, Left, request
  <2> QED
    BY <1>3, <2>3, PhaseKeeps DEF EndOfPage
<1>4. CASE UNCHANGED vars
  <2>1. UNCHANGED <<logs, clock, request, phase, paths, scanners, scanned, count, page, opened>>
    BY <1>4 DEF vars, readerVars
  <2>2. StageOK' /\ PageOK'
    BY <1>1, <2>1 DEF StageOK, PageOK, Left, request
  <2> QED
    BY <1>1, <2>1, <2>2, PhaseKeeps DEF ReaderTypeOK
<1> QED
  BY <1>2, <1>3, <1>4

\* OpenLog finds every file with something in it: all of it is ahead.
LEMMA OpenKeeps == ASSUME ReaderInv, Open PROVE ReaderInv'
<1>1. /\ phase' = "opening" /\ paths' = ListBetween /\ opened' = Readable /\ phase = "idle"
      /\ UNCHANGED <<logs, clock, offset, limit, scanners, scanned, count, page>>
  BY DEF Open, request
<1>2. ReaderTypeOK /\ LogsOK /\ StageOK /\ PageOK
      /\ paths = <<>> /\ scanners = <<>> /\ scanned = FALSE /\ count = 0 /\ page = <<>>
  BY <1>1 DEF ReaderInv, ReaderTypeOK, StageOK
<1>3. /\ ListBetween \in Seq(Files)
      /\ \A d, e \in DOMAIN ListBetween : d # e => ListBetween[d] # ListBetween[e]
      /\ \A p \in Asked : p[1] \in Range(ListBetween)
  BY <1>2, ListProperties
<1>4. Asked' = Asked /\ Readable' = Readable /\ LogsOK'
  <2>1. Asked' = Asked
    BY <1>1 DEF Asked, InPeriod
  <2> QED
    BY <1>1, <1>2, <2>1 DEF Readable, LogsOK
<1>5. Readable \subseteq Asked /\ Asked \subseteq Places
  BY <1>2, AskedMembers DEF Readable
<1>6. ReaderTypeOK'
  BY <1>1, <1>2, <1>3, <1>5 DEF ReaderTypeOK
<1>7. StageOK' /\ PageOK'
  BY <1>1, <1>2 DEF StageOK, PageOK, Left
<1>8. ScannersOK'
  BY <1>1, <1>2, <1>3 DEF ScannersOK
<1>9. Asked' \subseteq Ahead'
  <2>1. Range(paths)' = Range(ListBetween)
    BY <1>1 DEF Range
  <2> QED
    BY <1>3, <1>4, <2>1 DEF Ahead
<1>10. Seen({})'
  <2>1. OnPage' = {}
    BY <1>1, <1>2 DEF OnPage
  <2>2. Cardinality({}) = count'
    BY <1>1, <1>2, FS_EmptySet
  <2>3. opened' \subseteq Ahead'
    BY <1>1, <1>4, <1>5, <1>9
  <2> QED
    BY <2>1, <2>2, <2>3 DEF Seen
<1>11. MergeOK'
  BY <1>1, <1>2 DEF MergeOK
<1> QED
  BY <1>1, <1>4, <1>6, <1>7, <1>8, <1>10, <1>11 DEF ReaderInv

\* The files that are still to be opened, without the first of them.
LEMMA NextPath ==
  ASSUME ReaderTypeOK, ScannersOK, paths # <<>>, NEW f, f = Head(paths), NEW rest, rest = Tail(paths)
  PROVE  /\ f \in Files /\ rest \in Seq(Files)
         /\ Range(rest) \subseteq Range(paths) /\ f \notin Range(rest) /\ f \in Range(paths)
         /\ \A g \in Range(paths) : g # f => g \in Range(rest)
         /\ \A d, e \in DOMAIN rest : d # e => rest[d] # rest[e]
<1>1. /\ paths \in Seq(Files) /\ Len(paths) \in Nat \ {0} /\ DOMAIN paths = 1 .. Len(paths)
      /\ f = paths[1] /\ f \in Files
      /\ rest \in Seq(Files) /\ DOMAIN rest = 1 .. Len(paths) - 1
      /\ \A j \in 1 .. Len(paths) - 1 : rest[j] = paths[j + 1]
  <2>1. paths \in Seq(Files) /\ Len(paths) \in Nat \ {0} /\ DOMAIN paths = 1 .. Len(paths)
    BY EmptySeq, LenProperties DEF ReaderTypeOK
  <2>2. /\ f = paths[1] /\ f \in Files
        /\ rest \in Seq(Files) /\ Len(rest) = Len(paths) - 1
        /\ \A j \in 1 .. Len(paths) - 1 : rest[j] = paths[j + 1]
    BY <2>1, HeadTailProperties
  <2> QED
    BY <2>1, <2>2, LenProperties
<1>2. /\ Range(rest) \subseteq Range(paths) /\ f \notin Range(rest) /\ f \in Range(paths)
      /\ \A g \in Range(paths) : g # f => g \in Range(rest)
  <2>1. Range(paths) = {paths[j] : j \in 1 .. Len(paths)}
    BY <1>1 DEF Range
  <2>2. Range(rest) = {rest[j] : j \in 1 .. Len(paths) - 1}
    BY <1>1 DEF Range
  <2>3. ASSUME NEW j \in 1 .. Len(paths) - 1 PROVE rest[j] \in Range(paths) /\ rest[j] # f
    <3>1. j + 1 \in 1 .. Len(paths) /\ 1 \in 1 .. Len(paths) /\ j + 1 # 1
      BY <1>1
    <3>2. rest[j] = paths[j + 1] /\ f = paths[1]
      BY <1>1
    <3>3. paths[j + 1] # paths[1]
      BY <1>1, <3>1 DEF ScannersOK
    <3> QED
      BY <2>1, <3>1, <3>2, <3>3
  <2>4. ASSUME NEW j \in 1 .. Len(paths), paths[j] # f PROVE paths[j] \in Range(rest)
    <3>1. j - 1 \in 1 .. Len(paths) - 1 /\ j - 1 + 1 = j
      BY <1>1, <2>4
    <3>2. rest[j - 1] = paths[j]
      BY <1>1, <3>1
    <3> QED
      BY <2>2, <3>1, <3>2
  <2>5. 1 \in 1 .. Len(paths)
    BY <1>1
  <2> QED
    BY <1>1, <2>1, <2>2, <2>3, <2>4, <2>5
<1>3. \A d, e \in DOMAIN rest : d # e => rest[d] # rest[e]
  <2>1. ASSUME NEW d \in 1 .. Len(paths) - 1, NEW e \in 1 .. Len(paths) - 1, d # e PROVE rest[d] # rest[e]
    <3>1. d + 1 \in 1 .. Len(paths) /\ e + 1 \in 1 .. Len(paths) /\ d + 1 # e + 1
      BY <1>1, <2>1
    <3>2. rest[d] = paths[d + 1] /\ rest[e] = paths[e + 1]
      BY <1>1
    <3>3. \A a, b \in 1 .. Len(paths) : a # b => paths[a] # paths[b]
      BY <1>1 DEF ScannersOK
    <3> QED
      BY <3>1, <3>2, <3>3
  <2> QED
    BY <1>1, <2>1
<1> QED
  BY <1>1, <1>2, <1>3

\* Before anything is scanned all there was to find is ahead.
LEMMA AllAhead == ASSUME ReaderInv, phase = "opening" PROVE opened \subseteq Ahead
<1>1. ReaderTypeOK /\ count = 0
  BY DEF ReaderInv, StageOK
<1>2. PICK S \in SUBSET Places : Seen(S)
  BY DEF ReaderInv
<1>3. IsFiniteSet(S) /\ Cardinality(S) = 0
  BY <1>1, <1>2, AskedFinite, FS_Subset DEF Seen
<1>4. S = {}
  BY <1>3, FS_EmptySet
<1> QED
  BY <1>2, <1>4 DEF Seen

\* A file is opened where nothing that is asked for lies before.
LEMMA OpenFileKeeps == ASSUME ReaderInv, OpenFile PROVE ReaderInv'
<1> DEFINE f == Head(paths)
           n == Len(scanners)
<1>1. /\ phase = "opening" /\ paths # <<>> /\ phase' = phase /\ paths' = Tail(paths)
      /\ UNCHANGED <<logs, clock, offset, limit, scanned, count, page, opened>>
  BY DEF OpenFile, request
<1>2. ReaderTypeOK /\ LogsOK /\ StageOK /\ PageOK /\ ScannersOK /\ opened \subseteq Readable
      /\ scanned = FALSE /\ count = 0 /\ page = <<>>
  BY <1>1 DEF ReaderInv, ReaderTypeOK, StageOK
<1>3. PICK k \in 1 .. Len(logs[f]) + 1 :
        /\ \A j \in 1 .. k - 1 : logs[f][j].kind # "garbage" => logs[f][j].time < Since
        /\ scanners' = IF Found(f, ScanFile(f, k))
                       THEN Append(scanners, [file |-> f, line |-> ScanFile(f, k)])
                       ELSE scanners
  BY DEF OpenFile
<1>4. PICK i : i = ScanFile(f, k)
  OBVIOUS
<1>5. f \in Files /\ paths' \in Seq(Files)
  BY <1>1, <1>2, NextPath
<1>6. /\ n \in Nat /\ DOMAIN scanners = 1 .. n /\ scanners \in Seq(Scanner)
  BY <1>2, LenProperties DEF ReaderTypeOK
<1>7. \A p \in Asked : p \in Places /\ p[2] \in Nat \ {0} /\ p[2] \in DOMAIN logs[p[1]]
                       /\ logs[p[1]][p[2]].kind = "match" /\ InPeriod(logs[p[1]][p[2]])
  BY <1>2, AskedMembers DEF Places
<1>8. k \in Nat \ {0}
  BY <1>2, <1>5, LenProperties DEF ReaderTypeOK
<1> HIDE DEF f, n
<1>9. /\ Found(f, i) => i \in DOMAIN logs[f] /\ i \in Nat \ {0} /\ k <= i /\ InPeriod(logs[f][i])
      /\ \A p \in Asked : p[1] = f /\ k <= p[2] /\ Found(f, i) => i <= p[2]
      /\ \A p \in opened : p[1] = f /\ k <= p[2] => Found(f, i)
  BY <1>2, <1>4, <1>5, <1>8, ScanFileProperties
<1>10. \A p \in Asked : p[1] = f => k <= p[2]
  <2>1. ASSUME NEW p \in Asked, p[1] = f, ~(k <= p[2]) PROVE FALSE
    <3>1. p[2] \in 1 .. k - 1
      BY <1>7, <1>8, <2>1
    <3>2. logs[f][p[2]].kind = "match" /\ InPeriod(logs[f][p[2]])
      BY <1>7, <2>1
    <3>3. logs[f][p[2]].time < Since
      BY <1>3, <3>1, <3>2
    <3>4. logs[f] \in Seq(Entries) /\ p[2] \in DOMAIN logs[f]
      BY <1>2, <1>5, <1>7, <2>1 DEF ReaderTypeOK
    <3>5. logs[f][p[2]].time \in Nat /\ Since \in Nat
      <4>1. logs[f][p[2]] \in Entries
        BY <3>4
      <4> QED
        BY <4>1, LogReaderAssumption DEF Entries
    <3> QED
      BY <3>2, <3>3, <3>5 DEF InPeriod
  <2> QED
    BY <2>1
<1>11. Asked' = Asked /\ Readable' = Readable /\ LogsOK'
  <2>1. Asked' = Asked
    BY <1>1 DEF Asked, InPeriod
  <2> QED
    BY <1>1, <1>2, <2>1 DEF Readable, LogsOK
<1>12. /\ Range(paths)' \subseteq Range(paths) /\ f \notin Range(paths)' /\ f \in Range(paths)
       /\ \A g \in Range(paths) : g # f => g \in Range(paths)'
       /\ \A d, e \in DOMAIN paths' : d # e => paths'[d] # paths'[e]
  <2>1. Range(paths)' = Range(paths')
    BY DEF Range
  <2> QED
    BY <1>1, <1>2, <2>1, NextPath DEF f
<1>14. \E m \in Nat :
         /\ scanners' \in Seq(Scanner) /\ DOMAIN scanners' = 1 .. m /\ n <= m
         /\ \A e \in 1 .. n : scanners'[e] = scanners[e]
         /\ \A e \in 1 .. m : \/ e \in 1 .. n
                              \/ /\ e = n + 1 /\ Found(f, i)
                                 /\ scanners'[e].file = f /\ scanners'[e].line = i
         /\ Found(f, i) => n + 1 \in 1 .. m
  <2>1. CASE Found(f, i)
    <3> DEFINE c == [file |-> f, line |-> i]
    <3>1. c \in Scanner /\ c.file = f /\ c.line = i
      BY <1>5, <1>9, <2>1 DEF Scanner
    <3>2. scanners' = Append(scanners, c)
      BY <1>3, <1>4, <2>1
    <3> HIDE DEF c
    <3>3. /\ scanners' \in Seq(Scanner) /\ DOMAIN scanners' = 1 .. n + 1
          /\ \A e \in 1 .. n : scanners'[e] = scanners[e]
          /\ scanners'[n + 1] = c
      BY <1>6, <3>1, <3>2, AppendToSeq DEF n
    <3>4. n + 1 \in Nat /\ n <= n + 1 /\ n + 1 \in 1 .. n + 1 /\ \A e \in 1 .. n + 1 : e \in 1 .. n \/ e = n + 1
      BY <1>6
    <3> QED
      BY <2>1, <3>1, <3>3, <3>4
  <2>2. CASE ~Found(f, i)
    BY <1>3, <1>4, <1>6, <2>2
  <2> QED
    BY <2>1, <2>2
<1>15. PICK m \in Nat :
         /\ scanners' \in Seq(Scanner) /\ DOMAIN scanners' = 1 .. m /\ n <= m
         /\ \A e \in 1 .. n : scanners'[e] = scanners[e]
         /\ \A e \in 1 .. m : \/ e \in 1 .. n
                              \/ /\ e = n + 1 /\ Found(f, i)
                                 /\ scanners'[e].file = f /\ scanners'[e].line = i
         /\ Found(f, i) => n + 1 \in 1 .. m
  BY <1>14
<1>16. ReaderTypeOK'
  BY <1>1, <1>2, <1>5, <1>15 DEF ReaderTypeOK
<1>17. StageOK' /\ PageOK' /\ MergeOK'
  BY <1>1, <1>2 DEF StageOK, PageOK, Left, MergeOK
<1>18. ScannersOK'
  <2>1. ASSUME NEW e \in 1 .. m
        PROVE  /\ scanners'[e].line \in DOMAIN logs[scanners'[e].file]
               /\ InPeriod(LineOf(scanners'[e]))
               /\ scanners'[e].file \notin Range(paths)'
    <3>1. CASE e \in 1 .. n
      BY <1>2, <1>6, <1>12, <1>15, <3>1 DEF ScannersOK
    <3>2. CASE /\ e = n + 1 /\ Found(f, i)
               /\ scanners'[e].file = f /\ scanners'[e].line = i
      BY <1>9, <1>12, <3>2 DEF LineOf
    <3> QED
      BY <1>15, <3>1, <3>2
  <2>2. ASSUME NEW d \in 1 .. m, NEW e \in 1 .. m, d # e PROVE scanners'[d].file # scanners'[e].file
    <3>1. \A b \in 1 .. n : scanners'[b].file # f
      BY <1>2, <1>6, <1>12, <1>15 DEF ScannersOK
    <3>2. CASE d \in 1 .. n /\ e \in 1 .. n
      BY <1>2, <1>6, <1>15, <2>2, <3>2 DEF ScannersOK
    <3>3. d \notin 1 .. n => d = n + 1 /\ scanners'[d].file = f
      BY <1>15
    <3>4. e \notin 1 .. n => e = n + 1 /\ scanners'[e].file = f
      BY <1>15
    <3> QED
      BY <2>2, <3>1, <3>2, <3>3, <3>4
  <2>3. \A e : LineOf(scanners[e])' = LineOf(scanners'[e])
    BY <1>1 DEF LineOf
  <2>4. \A line : InPeriod(line)' = InPeriod(line)
    BY DEF InPeriod
  <2> QED
    BY <1>1, <1>12, <1>15, <2>1, <2>2, <2>3, <2>4 DEF ScannersOK
<1>19. \A e, p : /\ AheadOf(e, p) <=> scanners[e].file = p[1] /\ (scanners[e].line < p[2] \/ scanners[e].line = p[2])
                 /\ AheadOf(e, p)' <=> scanners'[e].file = p[1] /\ (scanners'[e].line < p[2] \/ scanners'[e].line = p[2])
  BY <1>1, <1>2 DEF AheadOf, Passed
<1>20. opened \subseteq Ahead
  BY <1>1, AllAhead
<1>21. opened' \subseteq Ahead'
  <2>1. ASSUME NEW p \in opened PROVE p \in Ahead'
    <3>1. p \in Asked /\ (p[1] \in Range(paths) \/ \E e \in 1 .. n : AheadOf(e, p))
      BY <1>6, <1>20 DEF Ahead
    <3>2. CASE p[1] = f
      <4>1. Found(f, i) /\ i <= p[2]
        BY <1>9, <1>10, <3>1, <3>2
      <4>2. PICK e \in 1 .. m : e \notin 1 .. n
        BY <1>6, <1>15, <4>1
      <4>3. scanners'[e].file = f /\ scanners'[e].line = i
        BY <1>15, <4>2
      <4>4. i < p[2] \/ i = p[2]
        BY <1>7, <1>9, <3>1, <4>1
      <4>5. AheadOf(e, p)'
        BY <1>19, <3>2, <4>3, <4>4
      <4> QED
        BY <1>11, <1>15, <3>1, <4>5 DEF Ahead
    <3>3. CASE p[1] \in Range(paths) /\ p[1] # f
      BY <1>11, <1>12, <3>1, <3>3 DEF Ahead
    <3>4. CASE \E e \in 1 .. n : AheadOf(e, p)
      <4>1. PICK e \in 1 .. n : AheadOf(e, p)
        BY <3>4
      <4>2. AheadOf(e, p)' /\ e \in 1 .. m
        BY <1>6, <1>15, <1>19, <4>1
      <4> QED
        BY <1>11, <1>15, <3>1, <4>2 DEF Ahead
    <3> QED
      BY <3>1, <3>2, <3>3, <3>4
  <2> QED
    BY <1>1, <2>1
<1>22. Seen({})'
  <2>1. OnPage' = {}
    BY <1>1, <1>2 DEF OnPage
  <2>2. Cardinality({}) = count'
    BY <1>1, <1>2, FS_EmptySet
  <2> QED
    BY <1>21, <2>1, <2>2 DEF Seen
<1> QED
  BY <1>1, <1>2, <1>11, <1>16, <1>17, <1>18, <1>22 DEF ReaderInv

\* A file that is removed takes its records with it, and nothing else.
LEMMA SkipRemovedKeeps == ASSUME ReaderInv, SkipRemoved PROVE ReaderInv'
<1> DEFINE f == Head(paths)
<1>1. /\ phase = "opening" /\ paths # <<>> /\ phase' = phase /\ paths' = Tail(paths)
      /\ logs' = [logs EXCEPT ![f] = <<>>]
      /\ opened' = {p \in opened : p[1] # f}
      /\ UNCHANGED <<clock, offset, limit, scanners, scanned, count, page>>
  BY DEF SkipRemoved, request
<1>2. ReaderTypeOK /\ LogsOK /\ StageOK /\ PageOK /\ ScannersOK /\ opened \subseteq Readable
      /\ scanned = FALSE /\ count = 0 /\ page = <<>>
  BY <1>1 DEF ReaderInv, ReaderTypeOK, StageOK
<1>3. /\ f \in Files /\ paths' \in Seq(Files)
      /\ Range(paths)' \subseteq Range(paths) /\ f \in Range(paths)
      /\ \A g \in Range(paths) : g # f => g \in Range(paths)'
      /\ \A d, e \in DOMAIN paths' : d # e => paths'[d] # paths'[e]
  <2>1. Range(paths)' = Range(paths')
    BY DEF Range
  <2> QED
    BY <1>1, <1>2, <2>1, NextPath
<1> HIDE DEF f
<1>4. /\ logs' \in [Files -> Seq(Entries)]
      /\ \A g \in Files : g # f => logs'[g] = logs[g]
      /\ logs'[f] = <<>> /\ DOMAIN logs'[f] = {}
  <2>1. <<>> \in Seq(Entries) /\ logs \in [Files -> Seq(Entries)]
    BY <1>2, EmptySeq DEF ReaderTypeOK
  <2> QED
    BY <1>1, <1>3, <2>1
<1>5. ReaderTypeOK'
  BY <1>1, <1>2, <1>3, <1>4 DEF ReaderTypeOK
<1>6. LogsOK'
  BY <1>1, <1>2, <1>4 DEF LogsOK
<1>7. \A e \in DOMAIN scanners : /\ scanners[e].file \in Files /\ scanners[e].file # f
                                 /\ LineOf(scanners[e])' = LineOf(scanners[e])
  <2>1. ASSUME NEW e \in DOMAIN scanners
        PROVE  /\ scanners[e].file \in Files /\ scanners[e].file # f
               /\ logs'[scanners[e].file] = logs[scanners[e].file]
    <3>1. scanners[e].file \in Files
      BY <1>2, ScannerTimes DEF Scanner
    <3>2. scanners[e].file # f
      BY <1>2, <1>3 DEF ScannersOK
    <3> QED
      BY <1>4, <3>1, <3>2
  <2> QED
    BY <1>1, <2>1 DEF LineOf
<1>8. \A line : InPeriod(line)' = InPeriod(line)
  BY DEF InPeriod
<1>9. ScannersOK'
  <2>1. ASSUME NEW e \in DOMAIN scanners
        PROVE  /\ scanners[e].line \in DOMAIN logs'[scanners[e].file]
               /\ InPeriod(LineOf(scanners[e]))
               /\ scanners[e].file \notin Range(paths)'
    BY <1>2, <1>3, <1>4, <1>7 DEF ScannersOK
  <2> QED
    BY <1>1, <1>2, <1>3, <1>7, <1>8, <2>1 DEF ScannersOK
<1>10. \A p : p \in Asked' <=> p \in Asked /\ p[1] # f
  <2>1. \A p : p \in Asked <=> /\ p \in Places /\ p[2] \in DOMAIN logs[p[1]]
                               /\ logs[p[1]][p[2]].kind = "match" /\ InPeriod(logs[p[1]][p[2]])
    BY <1>2, AskedMembers
  <2>2. \A p : p \in Asked' <=> /\ p \in Places /\ p[2] \in DOMAIN logs'[p[1]]
                                /\ logs'[p[1]][p[2]].kind = "match" /\ InPeriod(logs'[p[1]][p[2]])
    BY <1>5, AskedMembersNext
  <2>3. \A p \in Places : p[1] \in Files
    BY DEF Places
  <2> QED
    BY <1>4, <2>1, <2>2, <2>3
<1>11. opened' \subseteq Readable'
  <2>1. ASSUME NEW p \in opened, p[1] # f
        PROVE  p \in Asked' /\ \A k \in 1 .. p[2] : logs'[p[1]][k].kind # "long"
    <3>1. p \in Asked /\ \A k \in 1 .. p[2] : logs[p[1]][k].kind # "long"
      BY <1>2 DEF Readable
    <3>2. p[1] \in Files
      BY <1>2, <3>1, AskedMembers DEF Places
    <3> QED
      BY <1>4, <1>10, <2>1, <3>1, <3>2
  <2> QED
    BY <1>1, <2>1 DEF Readable
<1>12. \A e, p : AheadOf(e, p)' <=> AheadOf(e, p)
  BY <1>1, <1>2 DEF AheadOf, Passed
<1>13. opened' \subseteq Ahead'
  <2>1. ASSUME NEW p \in opened, p[1] # f PROVE p \in Ahead'
    <3>1. p \in Asked /\ (p[1] \in Range(paths) \/ \E e \in DOMAIN scanners : AheadOf(e, p))
      BY <1>1, AllAhead DEF Ahead
    <3> QED
      BY <1>1, <1>3, <1>10, <1>12, <2>1, <3>1 DEF Ahead
  <2> QED
    BY <1>1, <2>1
<1>14. Seen({})'
  <2>1. OnPage' = {}
    BY <1>1, <1>2 DEF OnPage
  <2>2. Cardinality({}) = count'
    BY <1>1, <1>2, FS_EmptySet
  <2> QED
    BY <1>13, <2>1, <2>2 DEF Seen
<1>15. StageOK' /\ PageOK' /\ MergeOK'
  BY <1>1, <1>2 DEF StageOK, PageOK, Left, MergeOK
<1> QED
  BY <1>5, <1>6, <1>9, <1>11, <1>14, <1>15 DEF ReaderInv

\* A request that fails has found nothing.
LEMMA FailToOpenKeeps == ASSUME ReaderInv, FailToOpen PROVE ReaderInv'
<1>1. /\ phase = "opening" /\ phase' = "failed" /\ paths' = <<>> /\ scanners' = <<>>
      /\ UNCHANGED <<logs, clock, offset, limit, scanned, count, page, opened>>
  BY DEF FailToOpen, request
<1>2. ReaderTypeOK /\ LogsOK /\ StageOK /\ PageOK /\ opened \subseteq Readable
      /\ scanned = FALSE /\ count = 0 /\ page = <<>>
  BY <1>1 DEF ReaderInv, ReaderTypeOK, StageOK
<1>3. ReaderTypeOK'
  BY <1>1, <1>2, EmptySeq DEF ReaderTypeOK
<1>4. StageOK' /\ PageOK' /\ MergeOK' /\ ScannersOK'
  BY <1>1, <1>2 DEF StageOK, PageOK, Left, MergeOK, ScannersOK
<1>5. Asked' = Asked /\ Readable' = Readable /\ LogsOK'
  <2>1. Asked' = Asked
    BY <1>1 DEF Asked, InPeriod
  <2> QED
    BY <1>1, <1>2, <2>1 DEF Readable, LogsOK
<1>6. Seen({})'
  <2>1. OnPage' = {}
    BY <1>1, <1>2 DEF OnPage
  <2>2. Cardinality({}) = count'
    BY <1>1, <1>2, FS_EmptySet
  <2> QED
    BY <1>1, <2>1, <2>2 DEF Seen
<1> QED
  BY <1>1, <1>2, <1>3, <1>4, <1>5, <1>6 DEF ReaderInv

\* The writer only appends: what was found and what is ahead stays so, and nothing that was
\* gone past becomes a record.
LEMMA WriteKeeps ==
  ASSUME ReaderInv, NEW time \in 1 .. MaxTime, NEW kind \in Kinds, Write(time, kind)
  PROVE  ReaderInv'
<1> DEFINE g == FileOf[time]
           line == [time |-> time, kind |-> kind]
<1>1. /\ clock <= time + MaxDelay /\ clock' = Max({clock, time})
      /\ logs' = [logs EXCEPT ![g] = Append(@, line)]
      /\ UNCHANGED <<offset, limit, phase, paths, scanners, scanned, count, page, opened>>
  BY DEF Write, request, readerVars
<1>2. ReaderTypeOK /\ LogsOK /\ StageOK /\ PageOK /\ ScannersOK /\ MergeOK /\ opened \subseteq Readable
  BY DEF ReaderInv
<1>3. time \in Nat /\ MaxDelay \in Nat /\ clock \in Nat /\ g \in Files /\ line \in Entries
      /\ line.time = time /\ line.kind = kind
  BY <1>2, LogReaderAssumption DEF ReaderTypeOK, Files, Entries
<1>4. clock' \in Nat /\ clock <= clock' /\ time <= clock'
  <2>1. Max({clock, time}) = IF clock >= time THEN clock ELSE time
    BY <1>3 DEF Max
  <2> QED
    BY <1>1, <1>3, <2>1
<1> HIDE DEF g, line
<1>5. /\ \A f \in Files : /\ logs[f] \in Seq(Entries) /\ logs'[f] \in Seq(Entries)
                          /\ Len(logs[f]) \in Nat /\ DOMAIN logs[f] = 1 .. Len(logs[f])
                          /\ \A i \in DOMAIN logs[f] : i \in DOMAIN logs'[f] /\ logs'[f][i] = logs[f][i]
                          /\ \A i \in DOMAIN logs'[f] :
                               \/ i \in DOMAIN logs[f]
                               \/ f = g /\ i = Len(logs[f]) + 1 /\ logs'[f][i] = line
      /\ logs' \in [Files -> Seq(Entries)]
  <2>1. logs \in [Files -> Seq(Entries)]
    BY <1>2 DEF ReaderTypeOK
  <2>2. \A f \in Files : logs'[f] = IF f = g THEN Append(logs[f], line) ELSE logs[f]
    BY <1>1, <1>3, <2>1
  <2>3. ASSUME NEW f \in Files
        PROVE  /\ logs[f] \in Seq(Entries) /\ logs'[f] \in Seq(Entries)
               /\ Len(logs[f]) \in Nat /\ DOMAIN logs[f] = 1 .. Len(logs[f])
               /\ \A i \in DOMAIN logs[f] : i \in DOMAIN logs'[f] /\ logs'[f][i] = logs[f][i]
               /\ \A i \in DOMAIN logs'[f] :
                    \/ i \in DOMAIN logs[f]
                    \/ f = g /\ i = Len(logs[f]) + 1 /\ logs'[f][i] = line
    <3>1. logs[f] \in Seq(Entries) /\ Len(logs[f]) \in Nat /\ DOMAIN logs[f] = 1 .. Len(logs[f])
      BY <2>1, LenProperties
    <3>2. CASE f = g
      <4> DEFINE n == Len(logs[f])
      <4>6. logs'[f] = Append(logs[f], line)
        BY <2>2, <3>2
      <4>1. /\ logs'[f] \in Seq(Entries) /\ DOMAIN logs'[f] = 1 .. n + 1
            /\ \A i \in 1 .. n : logs'[f][i] = logs[f][i]
            /\ logs'[f][n + 1] = line
        BY <1>3, <3>1, <4>6, AppendToSeq
      <4>2. n \in Nat /\ DOMAIN logs[f] = 1 .. n
        BY <3>1
      <4> HIDE DEF n
      <4>3. \A i \in 1 .. n + 1 : i \in 1 .. n \/ i = n + 1
        BY <4>2
      <4>4. \A i \in 1 .. n : i \in 1 .. n + 1
        BY <4>2
      <4>5. \A i \in DOMAIN logs'[f] : i \in DOMAIN logs[f] \/ (f = g /\ i = n + 1 /\ logs'[f][i] = line)
        BY <3>2, <4>1, <4>2, <4>3
      <4> QED
        BY <3>1, <4>1, <4>2, <4>4, <4>5 DEF n
    <3>3. CASE f # g
      BY <2>2, <3>1, <3>3
    <3> QED
      BY <3>2, <3>3
  <2>4. logs' \in [Files -> Seq(Entries)]
    <3>1. DOMAIN logs' = Files /\ logs' = [f \in Files |-> logs'[f]]
      BY <1>1, <2>1
    <3> QED
      BY <2>3, <3>1
  <2> QED
    BY <2>3, <2>4
<1>6. \A f \in Files : \A i \in DOMAIN logs[f] : i \in Nat \ {0} /\ logs[f][i] \in Entries /\ logs[f][i].time \in Nat
  <2>1. ASSUME NEW f \in Files, NEW i \in DOMAIN logs[f]
        PROVE  i \in Nat \ {0} /\ logs[f][i] \in Entries /\ logs[f][i].time \in Nat
    <3>1. logs[f][i] \in Entries /\ i \in Nat \ {0}
      BY <1>5
    <3> QED
      BY <3>1, LogReaderAssumption DEF Entries
  <2> QED
    BY <2>1
<1>7. ReaderTypeOK'
  BY <1>1, <1>2, <1>4, <1>5 DEF ReaderTypeOK
<1>8. LogsOK'
  <2>1. ASSUME NEW f \in Files, NEW i \in DOMAIN logs'[f]
        PROVE  FileOf[logs'[f][i].time] = f /\ logs'[f][i].time <= clock'
    <3>1. CASE i \in DOMAIN logs[f]
      <4>1. logs'[f][i] = logs[f][i] /\ logs[f][i].time \in Nat
        BY <1>5, <1>6, <3>1
      <4>2. FileOf[logs[f][i].time] = f /\ logs[f][i].time <= clock
        BY <1>2, <3>1 DEF LogsOK
      <4> QED
        BY <1>3, <1>4, <4>1, <4>2
    <3>2. CASE f = g /\ logs'[f][i] = line
      BY <1>3, <1>4, <3>2 DEF g
    <3> QED
      BY <1>5, <3>1, <3>2
  <2>2. ASSUME NEW f \in Files, NEW i \in DOMAIN logs'[f], NEW k \in DOMAIN logs'[f], i < k
        PROVE  logs'[f][i].time <= logs'[f][k].time + MaxDelay
    <3>1. CASE i \in DOMAIN logs[f] /\ k \in DOMAIN logs[f]
      BY <1>2, <1>5, <2>2, <3>1 DEF LogsOK
    <3>2. CASE i \in DOMAIN logs[f] /\ k = Len(logs[f]) + 1 /\ logs'[f][k] = line
      <4>1. logs'[f][i] = logs[f][i] /\ logs[f][i].time \in Nat /\ logs[f][i].time <= clock
        BY <1>2, <1>5, <1>6, <3>2 DEF LogsOK
      <4> QED
        BY <1>1, <1>3, <3>2, <4>1
    <3>3. CASE i = Len(logs[f]) + 1
      BY <1>5, <2>2, <3>3
    <3> QED
      BY <1>5, <3>1, <3>2, <3>3
  <2> QED
    BY <2>1, <2>2 DEF LogsOK
<1>9. \A e \in DOMAIN scanners :
        /\ scanners[e].file \in Files /\ scanners[e].line \in DOMAIN logs[scanners[e].file]
        /\ LineOf(scanners[e])' = LineOf(scanners[e])
  <2>1. ASSUME NEW e \in DOMAIN scanners
        PROVE  /\ scanners[e].file \in Files /\ scanners[e].line \in DOMAIN logs[scanners[e].file]
               /\ logs'[scanners[e].file][scanners[e].line] = logs[scanners[e].file][scanners[e].line]
    <3>1. scanners[e].file \in Files /\ scanners[e].line \in DOMAIN logs[scanners[e].file]
      BY <1>2, ScannerTimes DEF Scanner, ScannersOK
    <3> QED
      BY <1>5, <3>1
  <2> QED
    BY <1>1, <2>1 DEF LineOf
<1>10. \A x : InPeriod(x)' = InPeriod(x)
  BY DEF InPeriod
<1>11. ScannersOK'
  <2>1. Range(paths)' = Range(paths)
    BY <1>1 DEF Range
  <2>2. ASSUME NEW e \in DOMAIN scanners
        PROVE  scanners[e].line \in DOMAIN logs'[scanners[e].file] /\ InPeriod(LineOf(scanners[e]))
    BY <1>2, <1>5, <1>9 DEF ScannersOK
  <2> QED
    BY <1>1, <1>2, <1>9, <1>10, <2>1, <2>2 DEF ScannersOK
<1>12. Earliest(scanners)' = Earliest(scanners)
  <2> DEFINE E == {i \in DOMAIN scanners : \A k \in DOMAIN scanners : LineOf(scanners[i]).time <= LineOf(scanners[k]).time}
  <2>1. E' = E
    BY <1>1, <1>9
  <2>2. Earliest(scanners) = Min(E) /\ Earliest(scanners)' = Min(E')
    BY DEF Earliest
  <2> HIDE DEF E
  <2> QED
    BY <2>1, <2>2, Zenon
<1>13. \A e, p : AheadOf(e, p)' <=> AheadOf(e, p)
  BY <1>1, <1>12 DEF AheadOf, Passed
<1>14. \A p \in Places : p[1] \in Files /\ (p \in Asked <=> p \in Asked' /\ p[2] \in DOMAIN logs[p[1]])
  <2>1. ASSUME NEW p \in Places
        PROVE  p[1] \in Files /\ (p \in Asked <=> p \in Asked' /\ p[2] \in DOMAIN logs[p[1]])
    <3>1. p[1] \in Files
      BY DEF Places
    <3>2. p \in Asked <=> /\ p \in Places /\ p[2] \in DOMAIN logs[p[1]]
                          /\ logs[p[1]][p[2]].kind = "match" /\ InPeriod(logs[p[1]][p[2]])
      BY <1>2, AskedMembers
    <3>3. p \in Asked' <=> /\ p \in Places /\ p[2] \in DOMAIN logs'[p[1]]
                           /\ logs'[p[1]][p[2]].kind = "match" /\ InPeriod(logs'[p[1]][p[2]])
      BY <1>7, <1>10, AskedMembersNext
    <3> QED
      BY <1>5, <3>1, <3>2, <3>3
  <2> QED
    BY <2>1
<1>15. Asked \subseteq Places /\ Asked' \subseteq Places /\ Asked \subseteq Asked'
  <2>1. Asked \subseteq Places
    BY <1>2, AskedMembers
  <2>2. Asked' \subseteq Places
    BY <1>7, AskedMembersNext
  <2> QED
    BY <1>14, <2>1, <2>2
<1>16. Ahead \subseteq Ahead' /\ Asked \cap Ahead' \subseteq Ahead
  <2>1. Range(paths)' = Range(paths)
    BY <1>1 DEF Range
  <2> QED
    BY <1>1, <1>13, <1>15, <2>1 DEF Ahead
<1>17. opened' \subseteq Readable'
  <2>1. ASSUME NEW p \in opened
        PROVE  p \in Asked' /\ \A k \in 1 .. p[2] : logs'[p[1]][k].kind # "long"
    <3>1. p \in Asked /\ \A k \in 1 .. p[2] : logs[p[1]][k].kind # "long"
      BY <1>2 DEF Readable
    <3>2. p[1] \in Files /\ p[2] \in DOMAIN logs[p[1]]
      BY <1>14, <1>15, <3>1
    <3>3. \A k \in 1 .. p[2] : k \in DOMAIN logs[p[1]]
      BY <1>5, <3>2
    <3> QED
      BY <1>5, <1>15, <3>1, <3>2, <3>3
  <2> QED
    BY <1>1, <2>1 DEF Readable
<1>18. PICK S \in SUBSET Places : Seen(S)
  BY DEF ReaderInv
<1>19. Seen(S)'
  <2>1. OnPage' = OnPage
    BY <1>1 DEF OnPage
  <2> QED
    BY <1>1, <1>15, <1>16, <1>18, <2>1 DEF Seen
<1>20. MergeOK'
  <2>1. FilesSorted' => FilesSorted
    BY <1>5 DEF FilesSorted
  <2>2. \A i \in DOMAIN page : Line(page[i])' = Line(page[i])
    <3>1. ASSUME NEW i \in DOMAIN page PROVE logs'[page[i][1]][page[i][2]] = logs[page[i][1]][page[i][2]]
      <4>1. page[i] \in Asked
        BY <1>18 DEF Seen, OnPage
      <4> QED
        BY <1>5, <1>14, <1>15, <4>1
    <3> QED
      BY <1>1, <3>1 DEF Line
  <2> QED
    BY <1>1, <1>2, <1>9, <2>1, <2>2 DEF MergeOK
<1>21. StageOK' /\ PageOK'
  BY <1>1, <1>2 DEF StageOK, PageOK, Left
<1> QED
  BY <1>7, <1>8, <1>11, <1>17, <1>19, <1>20, <1>21 DEF ReaderInv

\* Nothing is written and nothing asked for in the beginning.
LEMMA ReaderInitial == Init => ReaderInv
<1> SUFFICES ASSUME Init PROVE ReaderInv
  OBVIOUS
<1>1. /\ logs = [f \in Files |-> <<>>] /\ clock = 1 /\ phase = "idle"
      /\ offset \in Nat /\ limit \in Nat
      /\ paths = <<>> /\ scanners = <<>> /\ scanned = FALSE /\ count = 0 /\ page = <<>> /\ opened = {}
  BY LogReaderAssumption DEF Init
<1>2. \A f \in Files : logs[f] = <<>> /\ DOMAIN logs[f] = {}
  BY <1>1
<1>3. ReaderTypeOK
  <2>1. \A f \in Files : logs[f] \in Seq(Entries)
    BY <1>2, EmptySeq
  <2>2. logs \in [Files -> Seq(Entries)]
    BY <1>1, <2>1
  <2> QED
    BY <1>1, <2>2, EmptySeq DEF ReaderTypeOK
<1>4. LogsOK /\ StageOK /\ ScannersOK
  BY <1>1, <1>2 DEF LogsOK, StageOK, ScannersOK
<1>5. PageOK
  BY <1>1 DEF PageOK, Left
<1>6. Asked = {}
  BY <1>2, <1>3, AskedMembers DEF Places
<1>7. Seen({})
  BY <1>1, FS_EmptySet DEF Seen, Ahead, OnPage
<1>8. MergeOK
  BY <1>1 DEF MergeOK
<1> QED
  BY <1>1, <1>3, <1>4, <1>5, <1>7, <1>8 DEF ReaderInv

\* Reader and writer keep the invariant, in whatever order they take their steps.
LEMMA ReaderInvHolds == Spec => []ReaderInv
<1>1. Init => ReaderInv
  BY ReaderInitial
<1>2. ReaderInv /\ [Next]_vars => ReaderInv'
  <2> SUFFICES ASSUME ReaderInv, [Next]_vars PROVE ReaderInv'
    OBVIOUS
  <2>1. CASE Open
    BY <2>1, OpenKeeps
  <2>2. CASE OpenFile \/ SkipRemoved \/ FailToOpen
    BY <2>2, OpenFileKeeps, SkipRemovedKeeps, FailToOpenKeeps
  <2>3. CASE PassOver \/ SkipRecord \/ TakeRecord \/ EndOfLog \/ CountRecord \/ Finish
    BY <2>3, PagingSteps
  <2>4. CASE StartPaging \/ EndOfPage \/ UNCHANGED vars
    BY <2>4, PhaseSteps
  <2>5. CASE \E time \in 1 .. MaxTime, kind \in Kinds : Write(time, kind)
    BY <2>5, WriteKeeps
  <2> QED
    BY <2>1, <2>2, <2>3, <2>4, <2>5 DEF Next, Terminated
<1> QED
  BY <1>1, <1>2, PTL DEF Spec

\* However many records of whatever age the writer appends before and while the log is read,
\* every record of the period that was there when the log was opened is counted once, and
\* none that is not there: the 70 minutes of clearance are enough, as long as no record is
\* later than them.
THEOREM EveryRecordIsFound == Spec => []FindsAll
<1>1. ReaderInv => FindsAll
  <2> SUFFICES ASSUME ReaderInv, phase = "done"
               PROVE  /\ Cardinality(opened) <= count /\ count <= Cardinality(Asked)
                      /\ offset = 0 /\ limit = 0 => opened \subseteq OnPage /\ OnPage \subseteq Asked
    BY DEF FindsAll
  <2>1. PICK S \in SUBSET Places : Seen(S)
    BY DEF ReaderInv
  <2>2. paths = <<>> /\ scanners = <<>>
    BY DEF ReaderInv, StageOK
  <2>3. Ahead = {}
    BY <2>2 DEF Ahead, Range
  <2>4. S \subseteq Asked /\ Cardinality(S) = count /\ opened \subseteq S /\ OnPage \subseteq S
        /\ (offset = 0 /\ limit = 0 => S \subseteq OnPage)
    BY <2>1, <2>3 DEF Seen
  <2>5. IsFiniteSet(Asked)
    BY AskedFinite DEF ReaderInv
  <2>6. Cardinality(S) <= Cardinality(Asked) /\ Cardinality(opened) <= Cardinality(S)
    BY <2>4, <2>5, FS_Subset
  <2> QED
    BY <2>4, <2>6
<1> QED
  BY <1>1, ReaderInvHolds, PTL

\* The page has as many of the counted records as its offset and limit ask for, whatever else
\* is written while it is read.
THEOREM PagesAreFull == Spec => []PageIsFull
<1>1. ReaderInv => PageIsFull
  <2> SUFFICES ASSUME ReaderInv, phase = "done"
               PROVE  Len(page) = IF limit = 0 THEN Left ELSE Min({limit, Left})
    BY DEF PageIsFull, Left
  <2>1. count \in Nat /\ offset \in Nat /\ limit \in Nat
    BY DEF ReaderInv, ReaderTypeOK
  <2>2. Left \in Nat
    BY <2>1 DEF Left
  <2>3. \/ limit # 0 /\ Len(page) = limit /\ limit <= Left
        \/ Len(page) = Left /\ (limit # 0 => Left <= limit)
    BY DEF ReaderInv, PageOK
  <2>4. Min({limit, Left}) \in {limit, Left} /\ Min({limit, Left}) <= limit /\ Min({limit, Left}) <= Left
    <3>1. {limit, Left} \in SUBSET Nat /\ {limit, Left} # {}
      BY <2>1, <2>2
    <3> QED
      BY <3>1, MinProperties
  <2> QED
    BY <2>1, <2>2, <2>3, <2>4
<1> QED
  BY <1>1, ReaderInvHolds, PTL

\* No record is on the page twice, and as long as every file is in the order of time the page
\* is, too: fileScannerSet merges the files.
THEOREM FilesAreMerged == Spec => []MergedByTime
<1>1. ReaderInv => MergedByTime
  BY DEF ReaderInv, MergeOK, FilesSorted, MergedByTime
<1> QED
  BY <1>1, ReaderInvHolds, PTL
===============================================================================
