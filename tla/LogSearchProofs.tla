----------------------------- MODULE LogSearchProofs ----------------------------
(***************************************************************************)
(* Theorems about LogSearch, the search for the place a page of the log     *)
(* begins at: for any file, any accuracy, clearance and delay within it,    *)
(* any first buffer, and a writer that appends meanwhile.  They hold of the *)
(* module by itself and of its instance in MCLogFiles.                      *)
(***************************************************************************)
EXTENDS MCLogFiles, WellFoundedInduction, SequenceTheorems, TLAPS

\* A behaviour of MCSpec is one of the search: the files that are written or found
\* meanwhile leave it in an initial state.
LEMMA MCSpecSearches == MCSpec => Search!Init /\ [][Search!Next]_(Search!vars)
<1>1. MCInit => Search!Init
  BY DEF MCInit
<1>2. [MCNext]_<<vars, patternVars, searchVars, part>> => [Search!Next]_(Search!vars)
  BY DEF MCNext, searchVars, Search!vars, Search!bounds, Search!inputs
<1> QED
  BY <1>1, <1>2, PTL DEF MCSpec

-----------------------------------------------------------------------------
(* Numbers, and the offsets of lines.                                       *)

\* The offsets of the lines of a file, as a condition: where the first n of them begin.
LineStarts(b, n, s) ==
  /\ b \in [1 .. n + 1 -> Nat]
  /\ b[1] = 0
  /\ \A i \in 1 .. n : b[i + 1] = b[i] + s[i].size + 1

\* A non-empty set of numbers has a least element.
LEMMA LeastElement ==
  ASSUME NEW S \in SUBSET Nat, S # {}
  PROVE  \E x \in S : \A y \in S : x <= y
<1> DEFINE R == {p \in Nat \X Nat : p[1] < p[2]}
<1>1. IsWellFoundedOn(R, Nat)
  <2>1. OpToRel(<, Nat) = R
    BY DEF OpToRel
  <2> QED
    BY <2>1, NatLessThanWellFounded
<1>2. PICK x \in S : \A y \in S : ~(<<y, x>> \in R)
  BY <1>1, WFMin
<1>3. ASSUME NEW y \in S PROVE x <= y
  <2>1. x \in Nat /\ y \in Nat
    OBVIOUS
  <2>2. y < x => <<y, x>> \in R
    BY <2>1
  <2> QED
    BY <1>2, <2>1, <2>2
<1> QED
  BY <1>3

\* Appending to a sequence.
LEMMA AppendToSeq ==
  ASSUME NEW S, NEW s \in Seq(S), NEW x \in S, NEW t, t = Append(s, x)
  PROVE  /\ t \in Seq(S) /\ Len(s) \in Nat /\ Len(t) = Len(s) + 1
         /\ DOMAIN s = 1 .. Len(s) /\ DOMAIN t = 1 .. Len(s) + 1
         /\ \A i \in 1 .. Len(s) : t[i] = s[i]
         /\ t[Len(s) + 1] = x
<1>1. /\ t \in Seq(S) /\ Len(t) = Len(s) + 1
      /\ \A i \in 1 .. Len(s) : t[i] = s[i]
      /\ t[Len(s) + 1] = x
  BY AppendProperties
<1>2. Len(s) \in Nat /\ DOMAIN s = 1 .. Len(s) /\ DOMAIN t = 1 .. Len(t)
  BY <1>1, LenProperties
<1> QED
  BY <1>1, <1>2

\* Every file has such offsets.
LEMMA LineStartsExist ==
  ASSUME NEW s, NEW n \in Nat, \A i \in 1 .. n : s[i].size \in Nat
  PROVE  \E b : LineStarts(b, n, s)
<1> DEFINE Breach == {m \in 0 .. n : ~\E b : LineStarts(b, m, s)}
<1>1. SUFFICES ASSUME Breach # {} PROVE FALSE
  <2>1. n \in 0 .. n
    OBVIOUS
  <2> QED
    BY <2>1
<1>2. Breach \in SUBSET Nat
  OBVIOUS
<1>3. PICK m \in Breach : \A k \in Breach : m <= k
  BY <1>1, <1>2, LeastElement
<1>4. m \in 0 .. n /\ ~\E b : LineStarts(b, m, s)
  OBVIOUS
<1>5. m # 0
  <2> DEFINE b == [i \in 1 .. 1 |-> 0]
  <2>1. LineStarts(b, 0, s)
    BY DEF LineStarts
  <2> HIDE DEF b
  <2> QED
    BY <1>4, <2>1
<1>6. m - 1 \in 0 .. n /\ m - 1 \notin Breach
  <2>1. m - 1 \in 0 .. n /\ ~(m <= m - 1)
    BY <1>4, <1>5
  <2> QED
    BY <1>3, <2>1
<1>7. PICK g : LineStarts(g, m - 1, s)
  BY <1>6
<1> DEFINE b == [i \in 1 .. m + 1 |-> IF i = m + 1 THEN g[m] + s[m].size + 1 ELSE g[i]]
<1>8. m \in Nat \ {0} /\ m - 1 + 1 = m /\ m \in 1 .. n
  BY <1>4, <1>5
<1>9. g \in [1 .. m -> Nat] /\ g[1] = 0 /\ \A i \in 1 .. m - 1 : g[i + 1] = g[i] + s[i].size + 1
  BY <1>7, <1>8 DEF LineStarts
<1>10. LineStarts(b, m, s)
  <2>1. \A i \in 1 .. m + 1 : i = m + 1 \/ i \in 1 .. m
    BY <1>8
  <2>2. g[m] + s[m].size + 1 \in Nat
    BY <1>8, <1>9
  <2>3. b \in [1 .. m + 1 -> Nat]
    BY <1>9, <2>1, <2>2
  <2>4. ASSUME NEW i \in 1 .. m PROVE b[i] = g[i]
    BY <1>8
  <2>5. b[1] = 0
    BY <1>8, <1>9, <2>4
  <2>6. b[m + 1] = g[m] + s[m].size + 1
    BY <1>8
  <2> HIDE DEF b
  <2>7. ASSUME NEW i \in 1 .. m PROVE b[i + 1] = b[i] + s[i].size + 1
    <3>1. CASE i = m
      BY <2>4, <2>6, <3>1
    <3>2. CASE i # m
      <4>1. i \in 1 .. m - 1 /\ i + 1 \in 1 .. m
        BY <1>8, <3>2
      <4> QED
        BY <1>9, <2>4, <4>1
    <3> QED
      BY <3>1, <3>2
  <2> QED
    BY <2>3, <2>5, <2>7 DEF LineStarts
<1> HIDE DEF b
<1> QED
  BY <1>4, <1>10

\* Later lines begin later, and every offset before the end is in a line.
LEMMA LineStartsProperties ==
  ASSUME NEW s, NEW n \in Nat, \A i \in 1 .. n : s[i].size \in Nat, NEW b, LineStarts(b, n, s)
  PROVE  /\ \A i, k \in 1 .. n + 1 : i < k => b[i] < b[k]
         /\ \A p \in Nat : p < b[n + 1] => \E i \in 1 .. n : b[i] <= p /\ p < b[i + 1]
<1>1. /\ b \in [1 .. n + 1 -> Nat] /\ b[1] = 0
      /\ \A i \in 1 .. n : b[i + 1] = b[i] + s[i].size + 1
  BY DEF LineStarts
<1>2. \A i \in 1 .. n + 1 : b[i] \in Nat
  BY <1>1
<1>3. ASSUME NEW i \in 1 .. n + 1, NEW j \in 1 .. n + 1, i < j, ~(b[i] < b[j]) PROVE FALSE
  <2> DEFINE Breach == {k \in 1 .. n + 1 : i < k /\ ~(b[i] < b[k])}
  <2>1. Breach \in SUBSET Nat /\ Breach # {}
    BY <1>3
  <2>2. PICK k \in Breach : \A l \in Breach : k <= l
    BY <2>1, LeastElement
  <2>3. k \in 1 .. n + 1 /\ i < k /\ ~(b[i] < b[k])
    OBVIOUS
  <2>4. k - 1 \in 1 .. n /\ k - 1 \in 1 .. n + 1 /\ k - 1 + 1 = k /\ (i = k - 1 \/ i < k - 1) /\ ~(k <= k - 1)
    BY <2>3
  <2>5. b[k] = b[k - 1] + s[k - 1].size + 1
    BY <1>1, <2>4
  <2>6. b[k - 1] < b[k]
    BY <1>2, <2>3, <2>4, <2>5
  <2>7. i < k - 1 => b[i] < b[k - 1]
    BY <2>2, <2>4
  <2> QED
    BY <1>2, <2>3, <2>4, <2>6, <2>7
<1>4. ASSUME NEW p \in Nat, p < b[n + 1] PROVE \E i \in 1 .. n : b[i] <= p /\ p < b[i + 1]
  <2> DEFINE Beyond == {k \in 1 .. n + 1 : p < b[k]}
  <2>1. Beyond \in SUBSET Nat /\ Beyond # {}
    BY <1>4
  <2>2. PICK k \in Beyond : \A l \in Beyond : k <= l
    BY <2>1, LeastElement
  <2>3. k \in 1 .. n + 1 /\ p < b[k]
    OBVIOUS
  <2>4. k # 1
    BY <1>1, <2>3
  <2>5. k - 1 \in 1 .. n /\ k - 1 \in 1 .. n + 1 /\ k - 1 + 1 = k /\ ~(k <= k - 1)
    BY <2>3, <2>4
  <2>6. ~(p < b[k - 1])
    BY <2>2, <2>5
  <2> QED
    BY <1>2, <2>3, <2>5, <2>6
<1> QED
  BY <1>3, <1>4

\* There is only one way to count them.
LEMMA LineStartsUnique ==
  ASSUME NEW s, NEW t, NEW b, NEW g, NEW n \in Nat, NEW m \in Nat,
         n <= m, \A i \in 1 .. n : t[i] = s[i], LineStarts(b, n, s), LineStarts(g, m, t)
  PROVE  \A i \in 1 .. n + 1 : g[i] = b[i]
<1> DEFINE Breach == {k \in 1 .. n + 1 : g[k] # b[k]}
<1>1. SUFFICES ASSUME Breach # {} PROVE FALSE
  OBVIOUS
<1>2. Breach \in SUBSET Nat
  OBVIOUS
<1>3. PICK k \in Breach : \A l \in Breach : k <= l
  BY <1>1, <1>2, LeastElement
<1>4. k \in 1 .. n + 1 /\ g[k] # b[k]
  OBVIOUS
<1>5. k # 1
  BY <1>4 DEF LineStarts
<1>6. k - 1 \in 1 .. n /\ k - 1 \in 1 .. m /\ k - 1 \in 1 .. n + 1 /\ k - 1 + 1 = k /\ ~(k <= k - 1)
  BY <1>4, <1>5
<1>7. g[k - 1] = b[k - 1]
  BY <1>3, <1>6
<1>8. b[k] = b[k - 1] + s[k - 1].size + 1 /\ g[k] = g[k - 1] + t[k - 1].size + 1 /\ t[k - 1] = s[k - 1]
  BY <1>6 DEF LineStarts
<1> QED
  BY <1>4, <1>7, <1>8

\* Offsets, of any file.
OffsetsOf(s) == CHOOSE g : g = [i \in 1 .. Len(s) + 1 |-> IF i = 1 THEN 0 ELSE g[i - 1] + s[i - 1].size + 1]

\* It counts them.
LEMMA OffsetsAreLineStarts ==
  ASSUME NEW s, NEW n \in Nat, Len(s) = n, \A i \in 1 .. n : s[i].size \in Nat
  PROVE  LineStarts(OffsetsOf(s), n, s)
<1> DEFINE Counts(g) == g = [i \in 1 .. n + 1 |-> IF i = 1 THEN 0 ELSE g[i - 1] + s[i - 1].size + 1]
<1>1. OffsetsOf(s) = CHOOSE g : Counts(g)
  BY DEF OffsetsOf
<1>2. PICK b : LineStarts(b, n, s)
  BY LineStartsExist
<1>3. b \in [1 .. n + 1 -> Nat] /\ b[1] = 0 /\ \A i \in 1 .. n : b[i + 1] = b[i] + s[i].size + 1
  BY <1>2 DEF LineStarts
<1>4. ASSUME NEW i \in 1 .. n + 1 PROVE b[i] = IF i = 1 THEN 0 ELSE b[i - 1] + s[i - 1].size + 1
  <2>1. CASE i = 1
    BY <1>3, <2>1
  <2>2. CASE i # 1
    <3>1. i - 1 \in 1 .. n /\ i - 1 + 1 = i
      BY <2>2
    <3> QED
      BY <1>3, <2>2, <3>1
  <2> QED
    BY <2>1, <2>2
<1>5. Counts(b)
  BY <1>3, <1>4
<1> HIDE DEF Counts
<1>6. Counts(OffsetsOf(s))
  BY <1>1, <1>5, Zenon
<1>7. PICK g : g = OffsetsOf(s)
  OBVIOUS
<1>8. g = [i \in 1 .. n + 1 |-> IF i = 1 THEN 0 ELSE g[i - 1] + s[i - 1].size + 1]
  BY <1>6, <1>7 DEF Counts
<1>9. DOMAIN g = 1 .. n + 1 /\ g[1] = 0
  <2>1. 1 \in 1 .. n + 1
    OBVIOUS
  <2> QED
    BY <1>8, <2>1
<1>10. ASSUME NEW i \in 1 .. n PROVE g[i + 1] = g[i] + s[i].size + 1
  <2>1. i + 1 \in 1 .. n + 1 /\ i + 1 # 1 /\ i + 1 - 1 = i
    OBVIOUS
  <2>2. g[i + 1] = g[i + 1 - 1] + s[i + 1 - 1].size + 1
    BY <1>8, <2>1
  <2> QED
    BY <2>1, <2>2
<1>11. ASSUME NEW j \in 1 .. n + 1, g[j] # b[j] PROVE FALSE
  <2> DEFINE Breach == {k \in 1 .. n + 1 : g[k] # b[k]}
  <2>1. Breach \in SUBSET Nat /\ Breach # {}
    BY <1>11
  <2>2. PICK k \in Breach : \A l \in Breach : k <= l
    BY <2>1, LeastElement
  <2>3. k \in 1 .. n + 1 /\ g[k] # b[k]
    OBVIOUS
  <2>4. k # 1
    BY <1>3, <1>9, <2>3
  <2>5. k - 1 \in 1 .. n /\ k - 1 \in 1 .. n + 1 /\ k - 1 + 1 = k /\ ~(k <= k - 1)
    BY <2>3, <2>4
  <2>6. g[k - 1] = b[k - 1]
    BY <2>2, <2>5
  <2> QED
    BY <1>3, <1>10, <2>3, <2>5, <2>6
<1>12. g = b
  <2>1. g = [i \in 1 .. n + 1 |-> g[i]] /\ b = [i \in 1 .. n + 1 |-> b[i]]
    BY <1>3, <1>8, <1>9
  <2> QED
    BY <1>11, <2>1
<1> QED
  BY <1>2, <1>7, <1>12

\* Offsets is that of the file, now and after a step.
LEMMA OffsetsOfLines == Search!Offsets = OffsetsOf(lines) /\ Search!Offsets' = OffsetsOf(lines')
BY DEF Search!Offsets, OffsetsOf

\* The inductive invariant of the search: wherever it reads, everything before its result is
\* too old.
SearchInv ==
  /\ lines \in Seq(Search!Line)
  /\ \A i, k \in Search!Readable : i < k => lines[i].time <= lines[k].time + MaxDelay
  /\ left \in Nat /\ right \in Nat /\ mid \in Nat
  /\ Search!StartsSafely

\* The lines of a file and where they begin.
LEMMA FileProperties ==
  ASSUME Search!LogSearchAssumption, lines \in Seq(Search!Line), NEW n, n = Len(lines)
  PROVE  /\ n \in Nat /\ DOMAIN lines = 1 .. n
         /\ \A i \in 1 .. n : lines[i].size \in Nat /\ lines[i].time \in Nat
         /\ LineStarts(Search!Offsets, n, lines)
         /\ DOMAIN Search!Offsets = 1 .. n + 1
         /\ \A i \in 1 .. n + 1 : Search!Offsets[i] \in Nat
         /\ \A i, k \in 1 .. n + 1 : i < k => Search!Offsets[i] < Search!Offsets[k]
         /\ \A p \in Nat : p < Search!FileLen =>
              /\ Search!LineAt(p) \in 1 .. n
              /\ Search!Offsets[Search!LineAt(p)] <= p /\ p < Search!Offsets[Search!LineAt(p) + 1]
<1>1. n \in Nat /\ DOMAIN lines = 1 .. n
  BY LenProperties
<1>2. ASSUME NEW i \in 1 .. n PROVE lines[i].size \in Nat /\ lines[i].time \in Nat
  <2>1. lines[i] \in Search!Line
    BY <1>1
  <2> QED
    BY <2>1 DEF Search!Line, Search!NoTime, Search!LogSearchAssumption
<1>3. LineStarts(Search!Offsets, n, lines)
  BY <1>1, <1>2, OffsetsAreLineStarts, OffsetsOfLines
<1>4. /\ \A i, k \in 1 .. n + 1 : i < k => Search!Offsets[i] < Search!Offsets[k]
      /\ \A p \in Nat : p < Search!Offsets[n + 1] =>
           \E i \in 1 .. n : Search!Offsets[i] <= p /\ p < Search!Offsets[i + 1]
  BY <1>1, <1>2, <1>3, LineStartsProperties
<1>5. DOMAIN Search!Offsets = 1 .. n + 1 /\ \A i \in 1 .. n + 1 : Search!Offsets[i] \in Nat
  BY <1>3 DEF LineStarts
<1>6. ASSUME NEW p \in Nat, p < Search!FileLen
      PROVE  /\ Search!LineAt(p) \in 1 .. n
             /\ Search!Offsets[Search!LineAt(p)] <= p /\ p < Search!Offsets[Search!LineAt(p) + 1]
  <2> DEFINE Around(i) == Search!Offsets[i] <= p /\ p < Search!Offsets[i + 1]
  <2>1. \E i \in 1 .. n : Around(i)
    BY <1>4, <1>6 DEF Search!FileLen
  <2>2. Search!LineAt(p) = CHOOSE i \in 1 .. n : Around(i)
    BY <1>1 DEF Search!LineAt
  <2>3. Search!LineAt(p) \in 1 .. n /\ Around(Search!LineAt(p))
    <3> HIDE DEF Around
    <3> QED
      BY <2>1, <2>2, Zenon
  <2> QED
    BY <2>3
<1> QED
  BY <1>1, <1>2, <1>3, <1>4, <1>5, <1>6

\* The same of the file after a step.
LEMMA FilePropertiesNext ==
  ASSUME Search!LogSearchAssumption, lines' \in Seq(Search!Line), NEW n \in Nat, Len(lines') = n
  PROVE  /\ LineStarts(Search!Offsets', n, lines') /\ DOMAIN Search!Offsets' = 1 .. n + 1
         /\ \A i, k \in 1 .. n + 1 : i < k => Search!Offsets'[i] < Search!Offsets'[k]
<1>1. \A i \in 1 .. n : lines'[i].size \in Nat
  <2>1. \A i \in 1 .. n : lines'[i] \in Search!Line
    OBVIOUS
  <2> QED
    BY <2>1 DEF Search!Line, Search!LogSearchAssumption
<1>2. LineStarts(Search!Offsets', n, lines')
  BY <1>1, OffsetsAreLineStarts, OffsetsOfLines
<1>3. \A i, k \in 1 .. n + 1 : i < k => Search!Offsets'[i] < Search!Offsets'[k]
  BY <1>1, <1>2, LineStartsProperties
<1> QED
  BY <1>2, <1>3 DEF LineStarts

\* The point between two offsets is not below both of them.
LEMMA HalfwayIsNat ==
  ASSUME NEW a \in Nat, NEW b \in Nat
  PROVE  Search!Halfway(a, b) \in Nat
<1> DEFINE d == (b - a) \div 2
<1>1. d \in Int /\ 2 * d <= b - a /\ b - a <= 2 * d + 1
  OBVIOUS
<1> HIDE DEF d
<1>2. a + d \in Int /\ 0 <= a + d
  BY <1>1
<1> QED
  BY <1>2 DEF Search!Halfway, d

\* The search moves its result only past a record that is older than the clearance.
LEMMA SearchStepKeeps ==
  ASSUME Search!LogSearchAssumption, SearchInv, Search!SearchStep
  PROVE  SearchInv'
<1>1. PICK n : n = Len(lines)
  OBVIOUS
<1>2. /\ lines' = lines /\ left \in Nat /\ right \in Nat /\ mid \in Nat /\ lines \in Seq(Search!Line)
  BY DEF SearchInv, Search!SearchStep, Search!ReadPastEnd, Search!GrowBuffer, Search!SkipNewline,
         Search!GoRight, Search!GoLeft, Search!SkipLine, Search!Finish
<1>3. /\ n \in Nat /\ DOMAIN lines = 1 .. n
      /\ \A i \in 1 .. n : lines[i].size \in Nat /\ lines[i].time \in Nat
      /\ DOMAIN Search!Offsets = 1 .. n + 1
      /\ \A i \in 1 .. n + 1 : Search!Offsets[i] \in Nat
      /\ \A i, k \in 1 .. n + 1 : i < k => Search!Offsets[i] < Search!Offsets[k]
      /\ \A p \in Nat : p < Search!FileLen =>
           /\ Search!LineAt(p) \in 1 .. n
           /\ Search!Offsets[Search!LineAt(p)] <= p /\ p < Search!Offsets[Search!LineAt(p) + 1]
  BY <1>1, <1>2, FileProperties
<1>4. Search!Offsets' = Search!Offsets /\ Search!Readable' = Search!Readable
  BY <1>2 DEF Search!Offsets, Search!Readable
<1>5. /\ lines' \in Seq(Search!Line)
      /\ \A i, k \in Search!Readable' : i < k => lines'[i].time <= lines'[k].time + MaxDelay
  BY <1>2, <1>4 DEF SearchInv
<1>6. Search!Halfway(left, right) \in Nat
  BY <1>2, HalfwayIsNat
<1>7. CASE Search!Reading
  <2>1. Search!LineAt(mid) \in 1 .. n /\ Search!LineAt(mid) + 1 \in 1 .. n + 1
        /\ mid < Search!Offsets[Search!LineAt(mid) + 1]
        /\ Search!Offsets[Search!LineAt(mid) + 1] \in Nat
    BY <1>2, <1>3, <1>7 DEF Search!Reading
  <2>2. mid + Search!Rest(mid) + 1 = Search!Offsets[Search!LineAt(mid) + 1]
        /\ mid + Search!Rest(mid) + 1 \in Nat
    BY <1>2, <2>1 DEF Search!Rest
  <2>3. CASE Search!GoRight
    <3>1. /\ left' = mid + Search!Rest(mid) + 1 /\ mid' = Search!Halfway(left', right) /\ right' = right
          /\ Search!IsRecord(mid) /\ Search!TimeAt(mid) < Search!SearchTarget
      BY <2>3 DEF Search!GoRight
    <3>2. PICK k : k = Search!LineAt(mid)
      OBVIOUS
    <3>3. k \in 1 .. n /\ k + 1 \in 1 .. n + 1 /\ left' = Search!Offsets[k + 1] /\ left' \in Nat
      BY <2>1, <2>2, <3>1, <3>2
    <3>4. k \in Search!Readable /\ lines[k].time < Since - Clearance
      BY <1>3, <3>1, <3>2, <3>3 DEF Search!IsRecord, Search!TimeAt, Search!SearchTarget, Search!Readable
    <3>5. ASSUME NEW i \in Search!Readable, Search!Offsets[i] < left' PROVE lines[i].time < Since
      <4>1. i \in 1 .. n /\ i \in 1 .. n + 1
        BY <1>3 DEF Search!Readable
      <4>2. i <= k
        <5>1. ~ Search!Offsets[k + 1] < Search!Offsets[i]
          <6>1. Search!Offsets[i] < Search!Offsets[k + 1]
            BY <3>3, <3>5
          <6>2. Search!Offsets[i] \in Nat /\ Search!Offsets[k + 1] \in Nat
            BY <1>3, <3>3, <4>1
          <6> QED
            BY <6>1, <6>2
        <5>2. ~ (k + 1 < i)
          BY <1>3, <3>3, <4>1, <5>1
        <5>3. i # k + 1
          BY <1>3, <3>3, <3>5, <4>1
        <5> QED
          BY <3>3, <4>1, <5>2, <5>3
      <4>3. lines[i].time <= lines[k].time + MaxDelay
        <5>1. CASE i = k
          BY <1>3, <4>1, <5>1 DEF Search!LogSearchAssumption
        <5>2. CASE i < k
          BY <3>4, <5>2 DEF SearchInv
        <5> QED
          BY <3>3, <4>1, <4>2, <5>1, <5>2
      <4> QED
        <5>1. lines[i].time \in Nat /\ lines[k].time \in Nat
          BY <1>3, <3>3, <4>1
        <5>2. Since \in Nat /\ Clearance \in Nat /\ MaxDelay \in Nat /\ MaxDelay <= Clearance
          BY DEF Search!LogSearchAssumption
        <5> QED
          BY <3>4, <4>3, <5>1, <5>2
    <3>6. (Search!StartsSafely)'
      BY <1>2, <1>3, <1>4, <3>3, <3>5 DEF Search!StartsSafely
    <3>7. mid' \in Nat
      BY <1>2, <3>1, <3>3, HalfwayIsNat
    <3> QED
      BY <1>2, <1>5, <3>1, <3>3, <3>6, <3>7 DEF SearchInv
  <2>4. ASSUME left' = left PROVE (Search!StartsSafely)'
    BY <1>2, <1>4, <2>4 DEF SearchInv, Search!StartsSafely
  <2>5. CASE Search!GoLeft
    <3>1. left' = left /\ right' = Search!Halfway(left, right) /\ mid' = Search!Halfway(left, right')
      BY <2>5 DEF Search!GoLeft
    <3>2. mid' \in Nat
      BY <1>2, <1>6, <3>1, HalfwayIsNat
    <3> QED
      BY <1>2, <1>5, <1>6, <2>4, <3>1, <3>2 DEF SearchInv
  <2>6. CASE Search!SkipLine
    <3>1. PICK next : next = mid + Search!Rest(mid) + 1 /\ next \in Nat
      BY <2>2
    <3>2. /\ left' = left
          /\ \/ mid' = next /\ right' = right
             \/ right' = Search!Halfway(left, right) /\ mid' = Search!Halfway(left, right')
      BY <2>6, <3>1 DEF Search!SkipLine
    <3>3. mid' \in Nat /\ right' \in Nat
      BY <1>2, <1>6, <3>1, <3>2, HalfwayIsNat
    <3> QED
      BY <1>2, <1>5, <2>4, <3>2, <3>3 DEF SearchInv
  <2>7. CASE Search!SkipNewline
    BY <1>2, <1>5, <2>4, <2>7 DEF SearchInv, Search!SkipNewline
  <2>8. CASE Search!GrowBuffer
    BY <1>2, <1>5, <2>4, <2>8 DEF SearchInv, Search!GrowBuffer, Search!bounds
  <2>9. Search!GoRight \/ Search!GoLeft \/ Search!SkipLine \/ Search!SkipNewline \/ Search!GrowBuffer
    <3>1. Search!Bisecting /\ mid < Search!FileLen /\ Search!FileLen \in Nat
      BY <1>1, <1>3, <1>7 DEF Search!Reading, Search!FileLen
    <3>2. ~Search!ReadPastEnd /\ ~Search!Finish
      BY <1>2, <3>1 DEF Search!ReadPastEnd, Search!Finish
    <3> QED
      BY <3>2 DEF Search!SearchStep
  <2> QED
    BY <2>3, <2>5, <2>6, <2>7, <2>8, <2>9
<1>8. CASE ~Search!Reading
  <2>1. left' = left /\ mid' = mid /\ right' \in {right, Search!Halfway(left, right)}
    BY <1>8 DEF Search!SearchStep, Search!ReadPastEnd, Search!GrowBuffer, Search!SkipNewline, Search!HasLine,
                Search!GoRight, Search!GoLeft, Search!SkipLine, Search!Finish, Search!bounds
  <2>2. (Search!StartsSafely)'
    BY <1>2, <1>4, <2>1 DEF SearchInv, Search!StartsSafely
  <2> QED
    BY <1>2, <1>5, <1>6, <2>1, <2>2 DEF SearchInv
<1> QED
  BY <1>7, <1>8

\* What is appended moves nothing that is there.
LEMMA AppendedFile ==
  ASSUME Search!LogSearchAssumption, lines \in Seq(Search!Line), NEW line \in Search!Line,
         lines' = Append(lines, line)
  PROVE  /\ lines' \in Seq(Search!Line) /\ Len(lines) \in Nat /\ Len(lines') = Len(lines) + 1
         /\ DOMAIN lines = 1 .. Len(lines) /\ DOMAIN lines' = 1 .. Len(lines) + 1
         /\ \A i \in 1 .. Len(lines) : lines'[i] = lines[i]
         /\ lines'[Len(lines) + 1] = line
         /\ LineStarts(Search!Offsets, Len(lines), lines) /\ DOMAIN Search!Offsets = 1 .. Len(lines) + 1
         /\ LineStarts(Search!Offsets', Len(lines) + 1, lines') /\ DOMAIN Search!Offsets' = 1 .. Len(lines) + 2
         /\ \A i, k \in 1 .. Len(lines) + 2 : i < k => Search!Offsets'[i] < Search!Offsets'[k]
         /\ \A i \in 1 .. Len(lines) + 1 : Search!Offsets'[i] = Search!Offsets[i]
         /\ \A i \in Search!Readable' : i \in Search!Readable \/ i = Len(lines) + 1
         /\ Search!Readable \subseteq 1 .. Len(lines)
         /\ Search!Readable \subseteq Search!Readable'
<1>1. PICK n : n = Len(lines)
  OBVIOUS
<1>2. /\ lines' \in Seq(Search!Line) /\ n \in Nat /\ Len(lines') = n + 1
      /\ DOMAIN lines = 1 .. n /\ DOMAIN lines' = 1 .. n + 1
      /\ \A i \in 1 .. n : lines'[i] = lines[i]
      /\ lines'[n + 1] = line
  <2>1. /\ lines' \in Seq(Search!Line) /\ Len(lines) \in Nat /\ Len(lines') = Len(lines) + 1
        /\ DOMAIN lines = 1 .. Len(lines) /\ DOMAIN lines' = 1 .. Len(lines) + 1
        /\ \A i \in 1 .. Len(lines) : lines'[i] = lines[i]
        /\ lines'[Len(lines) + 1] = line
    BY AppendToSeq
  <2> QED
    BY <1>1, <2>1
<1>3. LineStarts(Search!Offsets, n, lines) /\ DOMAIN Search!Offsets = 1 .. n + 1
  BY <1>1, FileProperties
<1>4. LineStarts(Search!Offsets', n + 1, lines') /\ DOMAIN Search!Offsets' = 1 .. n + 2
      /\ \A i, k \in 1 .. n + 2 : i < k => Search!Offsets'[i] < Search!Offsets'[k]
  <2>1. n + 1 \in Nat /\ n + 1 = Len(lines') /\ n + 1 + 1 = n + 2
    BY <1>2
  <2> QED
    BY <1>2, <2>1, FilePropertiesNext
<1>5. \A i \in 1 .. n + 1 : Search!Offsets'[i] = Search!Offsets[i]
  <2>1. PICK m \in Nat : m = n + 1 /\ n <= m
    BY <1>2
  <2>2. PICK after : after = lines'
    OBVIOUS
  <2>3. n \in Nat /\ \A i \in 1 .. n : after[i] = lines[i]
    BY <1>2, <2>2
  <2>4. PICK old, new : old = Search!Offsets /\ new = Search!Offsets'
    OBVIOUS
  <2>5. LineStarts(old, n, lines) /\ LineStarts(new, m, after)
    BY <1>3, <1>4, <2>1, <2>2, <2>4
  <2>6. \A i \in 1 .. n + 1 : new[i] = old[i]
    BY <2>1, <2>3, <2>5, LineStartsUnique
  <2> QED
    BY <2>4, <2>6
<1>6. /\ \A i \in Search!Readable' : i \in Search!Readable \/ i = n + 1
      /\ Search!Readable \subseteq 1 .. n
      /\ Search!Readable \subseteq Search!Readable'
  <2>1. \A i \in 1 .. n + 1 : i \in 1 .. n \/ i = n + 1
    BY <1>2
  <2>2. \A i \in 1 .. n : i \in 1 .. n + 1
    BY <1>2
  <2> QED
    BY <1>2, <2>1, <2>2 DEF Search!Readable
<1> QED
  BY <1>1, <1>2, <1>3, <1>4, <1>5, <1>6

\* What is appended lies behind the result.
LEMMA AppendLineKeeps ==
  ASSUME Search!LogSearchAssumption, SearchInv, NEW line \in Search!Line, Search!AppendLine(line)
  PROVE  SearchInv'
<1>1. PICK n : n = Len(lines)
  OBVIOUS
<1>2. /\ lines' = Append(lines, line) /\ left' = left /\ mid' = mid /\ right' = right
      /\ \A i \in Search!Readable : lines[i].time <= line.time + MaxDelay
      /\ lines \in Seq(Search!Line) /\ left \in Nat /\ right \in Nat /\ mid \in Nat
      /\ \A i, k \in Search!Readable : i < k => lines[i].time <= lines[k].time + MaxDelay
  BY DEF SearchInv, Search!AppendLine, Search!bounds
<1>3. /\ lines' \in Seq(Search!Line) /\ n \in Nat /\ Len(lines') = n + 1
      /\ DOMAIN lines = 1 .. n /\ DOMAIN lines' = 1 .. n + 1
      /\ \A i \in 1 .. n : lines'[i] = lines[i]
      /\ lines'[n + 1] = line
      /\ DOMAIN Search!Offsets = 1 .. n + 1
  BY <1>1, <1>2, AppendedFile
<1>4. /\ LineStarts(Search!Offsets', n + 1, lines') /\ DOMAIN Search!Offsets' = 1 .. n + 2
      /\ \A i, k \in 1 .. n + 2 : i < k => Search!Offsets'[i] < Search!Offsets'[k]
  BY <1>1, <1>2, AppendedFile
<1>5. \A i \in 1 .. n + 1 : Search!Offsets'[i] = Search!Offsets[i]
  BY <1>1, <1>2, AppendedFile
<1>6. /\ \A i \in Search!Readable' : i \in Search!Readable \/ i = n + 1
      /\ Search!Readable \subseteq 1 .. n
  BY <1>1, <1>2, AppendedFile
<1>7. ASSUME NEW i \in Search!Readable', NEW k \in Search!Readable', i < k
      PROVE  lines'[i].time <= lines'[k].time + MaxDelay
  <2>1. i \in Search!Readable /\ i \in 1 .. n
    BY <1>3, <1>6, <1>7 DEF Search!Readable
  <2>2. CASE k \in Search!Readable
    BY <1>2, <1>3, <1>6, <1>7, <2>1, <2>2
  <2>3. CASE k = n + 1
    BY <1>2, <1>3, <2>1, <2>3
  <2> QED
    BY <1>6, <2>2, <2>3
<1>8. (Search!StartsSafely)'
  <2>1. PICK j \in 1 .. n + 1 : left = Search!Offsets[j]
    BY <1>3 DEF SearchInv, Search!StartsSafely
  <2>2. left' = Search!Offsets'[j] /\ j \in 1 .. n + 2
    BY <1>2, <1>3, <1>5, <2>1
  <2>3. ASSUME NEW i \in Search!Readable', Search!Offsets'[i] < left' PROVE lines'[i].time < Since
    <3>1. CASE i \in Search!Readable
      <4>1. i \in 1 .. n /\ i \in 1 .. n + 1
        BY <1>3, <1>6, <3>1
      <4> QED
        BY <1>2, <1>3, <1>5, <2>3, <3>1, <4>1 DEF SearchInv, Search!StartsSafely
    <3>2. CASE i = n + 1
      <4>1. i \in 1 .. n + 2 /\ (j = i \/ j < i)
        BY <1>3, <2>1, <3>2
      <4>2. Search!Offsets'[j] \in Nat /\ Search!Offsets'[i] \in Nat
        BY <1>3, <1>4, <2>2, <4>1 DEF LineStarts
      <4> QED
        BY <1>4, <2>2, <2>3, <4>1, <4>2
    <3> QED
      BY <1>6, <3>1, <3>2
  <2>4. left' \in {Search!Offsets'[i] : i \in DOMAIN Search!Offsets'}
    BY <1>4, <2>2
  <2> QED
    BY <2>3, <2>4 DEF Search!StartsSafely
<1> QED
  BY <1>2, <1>3, <1>7, <1>8 DEF SearchInv

\* Nothing lies before the beginning of the file.
LEMMA SearchInitial == ASSUME Search!LogSearchAssumption, Search!Init PROVE SearchInv
<1>1. PICK n : n = Len(lines)
  OBVIOUS
<1>2. lines \in Seq(Search!Line)
  <2>1. PICK m \in 0 .. MaxLines : lines \in [1 .. m -> Search!Line]
    BY DEF Search!Init
  <2> QED
    BY <2>1 DEF Search!LogSearchAssumption
<1>3. /\ n \in Nat /\ DOMAIN lines = 1 .. n /\ DOMAIN Search!Offsets = 1 .. n + 1
      /\ LineStarts(Search!Offsets, n, lines)
      /\ \A i \in 1 .. n + 1 : Search!Offsets[i] \in Nat
  BY <1>1, <1>2, FileProperties
<1>4. left = 0 /\ right = Search!Offsets[n + 1] /\ mid = right \div 2
      /\ \A i, k \in Search!Readable : i < k => lines[i].time <= lines[k].time + MaxDelay
  BY <1>1 DEF Search!Init, Search!FileLen
<1>5. n + 1 \in 1 .. n + 1 /\ 1 \in 1 .. n + 1
  BY <1>3
<1>6. right \in Nat /\ mid \in Nat
  BY <1>3, <1>4, <1>5
<1>7. Search!Offsets[1] = 0
  BY <1>3 DEF LineStarts
<1>8. Search!StartsSafely
  <2>1. left \in {Search!Offsets[i] : i \in DOMAIN Search!Offsets}
    BY <1>3, <1>4, <1>5, <1>7
  <2>2. \A i \in Search!Readable : Search!Offsets[i] \in Nat
    BY <1>3 DEF Search!Readable
  <2> QED
    BY <1>4, <2>1, <2>2 DEF Search!StartsSafely
<1> QED
  BY <1>2, <1>4, <1>6, <1>8 DEF SearchInv

\* Wherever in the file the bisection reads, whatever lines it meets and whatever is appended
\* meanwhile, it never leaves a record of the period behind: what OpenFile takes for granted.
THEOREM SearchLeavesNothingBehind ==
  /\ Search!Spec => []Search!StartsSafely
  /\ MCSpec => []StartsSafely
<1>1. Search!Init => SearchInv
  BY SearchInitial, FileSearchAssumption
<1>2. SearchInv /\ [Search!Next]_(Search!vars) => SearchInv'
  <2> SUFFICES ASSUME SearchInv, [Search!Next]_(Search!vars) PROVE SearchInv'
    OBVIOUS
  <2>1. CASE Search!SearchStep
    BY <2>1, SearchStepKeeps, FileSearchAssumption
  <2>2. CASE \E line \in Search!Line : Search!AppendLine(line)
    BY <2>2, AppendLineKeeps, FileSearchAssumption
  <2>3. CASE UNCHANGED Search!vars
    <3>1. UNCHANGED <<lines, left, right, mid>>
      BY <2>3 DEF Search!vars, Search!bounds
    <3>2. Search!Offsets' = Search!Offsets /\ Search!Readable' = Search!Readable
      BY <3>1 DEF Search!Offsets, Search!Readable
    <3> QED
      BY <3>1, <3>2 DEF SearchInv, Search!StartsSafely
  <2> QED
    BY <2>1, <2>2, <2>3 DEF Search!Next, Search!Terminated
<1>3. SearchInv => Search!StartsSafely /\ StartsSafely
  BY DEF SearchInv, StartsSafely
<1>4. Search!Init /\ [][Search!Next]_(Search!vars) => []SearchInv
  BY <1>1, <1>2, PTL
<1> QED
  BY <1>3, <1>4, MCSpecSearches, PTL DEF Search!Spec

\* Where the middle of two offsets is.
LEMMA HalfwayBounds ==
  ASSUME NEW a \in Nat, NEW b \in Nat
  PROVE  /\ a < b => a <= Search!Halfway(a, b) /\ Search!Halfway(a, b) < b
                     /\ 2 * (Search!Halfway(a, b) - a) <= b - a
         /\ a >= b => Search!Halfway(a, b) <= a
         /\ a <= b => a <= Search!Halfway(a, b)
<1> DEFINE d == (b - a) \div 2
<1>1. d \in Int /\ 2 * d <= b - a /\ b - a <= 2 * d + 1
  OBVIOUS
<1>2. Search!Halfway(a, b) = a + d
  BY DEF Search!Halfway
<1> HIDE DEF d
<1> QED
  BY <1>1, <1>2

\* What is known of the records that were there when the search began: those before `left' are
\* too old, those from `right' on are not, and none was passed over since `mid' was halfway.
\* Beyond the end of the file there is nothing left to be found.
Bisected ==
  \A i \in Search!Readable : Search!Offsets[i] < size =>
    /\ Search!Offsets[i] < left => lines[i].time < Search!SearchTarget
    /\ Search!Offsets[i] >= right => lines[i].time >= Search!SearchTarget
    /\ ~(Search!Halfway(left, right) <= Search!Offsets[i] /\ Search!Offsets[i] < mid)
    /\ mid >= size => Search!Offsets[i] < left

\* The inductive invariant of an exact search.
ExactInv ==
  /\ SearchInv
  /\ accuracy \in Nat
  /\ size \in {Search!Offsets[i] : i \in DOMAIN Search!Offsets}
  /\ right <= size
  /\ \A i \in Search!Readable : lines[i].size > 1
  /\ mid < size => mid = Search!Halfway(left, right) \/ mid \in {Search!Offsets[i] : i \in DOMAIN Search!Offsets}
  /\ ~searching => right <= left + accuracy
  /\ Search!Sorted /\ ~Search!EndsWithEmptyLine => Bisected

\* Each step of the search halves what is not known yet, and forgets nothing that is.
LEMMA SearchStepBisects ==
  ASSUME Search!LogSearchAssumption, ExactInv, Search!SearchStep
  PROVE  ExactInv'
<1>1. PICK n : n = Len(lines)
  OBVIOUS
<1>2. /\ lines' = lines /\ size' = size /\ accuracy' = accuracy /\ SearchInv /\ SearchInv'
      /\ left \in Nat /\ right \in Nat /\ mid \in Nat /\ lines \in Seq(Search!Line)
      /\ left' \in Nat /\ right' \in Nat /\ mid' \in Nat /\ accuracy \in Nat
  <2>1. SearchInv /\ SearchInv' /\ accuracy \in Nat
    BY SearchStepKeeps DEF ExactInv
  <2> QED
    BY <2>1 DEF SearchInv, Search!SearchStep, Search!ReadPastEnd, Search!GrowBuffer, Search!SkipNewline, Search!inputs,
         Search!GoRight, Search!GoLeft, Search!SkipLine, Search!Finish
<1>3. /\ n \in Nat /\ DOMAIN lines = 1 .. n
      /\ \A i \in 1 .. n : lines[i].size \in Nat /\ lines[i].time \in Nat
      /\ LineStarts(Search!Offsets, n, lines)
      /\ DOMAIN Search!Offsets = 1 .. n + 1
      /\ \A i \in 1 .. n + 1 : Search!Offsets[i] \in Nat
      /\ \A i, k \in 1 .. n + 1 : i < k => Search!Offsets[i] < Search!Offsets[k]
      /\ \A p \in Nat : p < Search!FileLen =>
           /\ Search!LineAt(p) \in 1 .. n
           /\ Search!Offsets[Search!LineAt(p)] <= p /\ p < Search!Offsets[Search!LineAt(p) + 1]
  BY <1>1, <1>2, FileProperties
<1>4. Search!Offsets' = Search!Offsets /\ Search!Readable' = Search!Readable
      /\ Search!Sorted' = Search!Sorted /\ Search!EndsWithEmptyLine' = Search!EndsWithEmptyLine
  BY <1>2 DEF Search!Offsets, Search!Readable, Search!Sorted, Search!EndsWithEmptyLine
<1>5. \A i \in Search!Readable : i \in 1 .. n /\ i \in 1 .. n + 1 /\ lines[i].size > 1
                                 /\ Search!Offsets[i] \in Nat /\ lines[i].time \in Nat
  BY <1>3 DEF ExactInv, Search!Readable
<1>6. /\ size \in {Search!Offsets[i] : i \in DOMAIN Search!Offsets} /\ size \in Nat
      /\ size <= Search!FileLen /\ Search!FileLen \in Nat
  <2>1. PICK j \in 1 .. n + 1 : size = Search!Offsets[j]
    BY <1>3 DEF ExactInv
  <2>2. n + 1 \in 1 .. n + 1 /\ (j = n + 1 \/ j < n + 1)
    BY <1>3
  <2>3. Search!FileLen = Search!Offsets[n + 1]
    BY <1>1 DEF Search!FileLen
  <2> QED
    BY <1>3, <2>1, <2>2, <2>3
<1>7. right <= size
  BY DEF ExactInv
<1>8. PICK h \in Nat : h = Search!Halfway(left, right)
  BY <1>2, HalfwayIsNat
<1>9. left < right => left <= h /\ h < right /\ 2 * (h - left) <= right - left
  BY <1>2, <1>8, HalfwayBounds
<1>10. Search!Bisecting => left < right
  BY <1>2 DEF Search!Bisecting
<1>11. ASSUME right' <= size,
              mid' < size => mid' = Search!Halfway(left', right') \/ mid' \in {Search!Offsets[i] : i \in DOMAIN Search!Offsets},
              ~searching' => right' <= left' + accuracy,
              Search!Sorted /\ ~Search!EndsWithEmptyLine /\ Bisected => Bisected'
       PROVE  ExactInv'
  <2>1. \A i \in Search!Readable' : lines'[i].size > 1
    BY <1>2, <1>4, <1>5
  <2>2. (Search!Halfway(left, right))' = Search!Halfway(left', right')
    BY DEF Search!Halfway
  <2> QED
    BY <1>2, <1>4, <1>6, <1>11, <2>1, <2>2 DEF ExactInv
<1>12. (Bisected)' <=>
         \A i \in Search!Readable : Search!Offsets[i] < size =>
           /\ Search!Offsets[i] < left' => lines[i].time < Search!SearchTarget
           /\ Search!Offsets[i] >= right' => lines[i].time >= Search!SearchTarget
           /\ ~(Search!Halfway(left', right') <= Search!Offsets[i] /\ Search!Offsets[i] < mid')
           /\ mid' >= size => Search!Offsets[i] < left'
  BY <1>2, <1>4 DEF Bisected, Search!Halfway, Search!SearchTarget
<1>13. CASE Search!ReadPastEnd
  <2>1. left' = left /\ right' = h /\ mid' = mid /\ mid >= size /\ searching' /\ left < right /\ searching
    BY <1>2, <1>6, <1>8, <1>10, <1>13 DEF Search!ReadPastEnd, Search!Bisecting
  <2>2. right' <= size
    BY <1>2, <1>6, <1>7, <1>9, <2>1
  <2>3. PICK g \in Nat : g = Search!Halfway(left', right')
    BY <1>2, HalfwayIsNat
  <2>4. left <= g
    <3>1. left' <= right' => left' <= g
      BY <1>2, <2>3, HalfwayBounds
    <3> QED
      BY <1>2, <1>9, <2>1, <3>1
  <2>5. Bisected => Bisected'
    <3> SUFFICES ASSUME Bisected, NEW i \in Search!Readable, Search!Offsets[i] < size
                 PROVE  /\ Search!Offsets[i] < left' => lines[i].time < Search!SearchTarget
                        /\ Search!Offsets[i] >= right' => lines[i].time >= Search!SearchTarget
                        /\ ~(g <= Search!Offsets[i] /\ Search!Offsets[i] < mid')
                        /\ mid' >= size => Search!Offsets[i] < left'
      BY <1>12, <2>3
    <3>1. Search!Offsets[i] < left /\ lines[i].time < Search!SearchTarget
      BY <2>1 DEF Bisected
    <3> QED
      BY <1>2, <1>5, <1>9, <2>1, <2>4, <3>1
  <2> QED
    BY <1>2, <1>6, <1>11, <2>1, <2>2, <2>5
<1>14. CASE Search!Finish
  <2>1. left' = left /\ right' = right /\ mid' = mid /\ ~searching' /\ right <= left + accuracy
    BY <1>2, <1>14 DEF Search!Finish, Search!Bisecting, Search!bounds
  <2>2. Bisected => Bisected'
    BY <1>12, <2>1 DEF Bisected
  <2> QED
    BY <1>7, <1>11, <2>1, <2>2 DEF ExactInv
<1>15. CASE Search!GrowBuffer
  <2>1. left' = left /\ right' = right /\ mid' = mid /\ searching' = searching
    BY <1>15 DEF Search!GrowBuffer, Search!bounds
  <2>2. Bisected => Bisected'
    BY <1>12, <2>1 DEF Bisected
  <2> QED
    BY <1>7, <1>11, <2>1, <2>2 DEF ExactInv
<1>16. CASE Search!SkipNewline \/ Search!GoRight \/ Search!GoLeft \/ Search!SkipLine
  <2>1. searching /\ searching' /\ left < right /\ mid < Search!FileLen
    BY <1>10, <1>16 DEF Search!SkipNewline, Search!GoRight, Search!GoLeft, Search!SkipLine, Search!HasLine, Search!Reading, Search!Bisecting
  <2>2. PICK k \in 1 .. n : k = Search!LineAt(mid)
    BY <1>2, <1>3, <2>1
  <2>3. PICK next \in Nat : next = Search!Offsets[k + 1]
    <3>1. k + 1 \in 1 .. n + 1
      BY <1>3
    <3> QED
      BY <1>3, <3>1
  <2>4. Search!Offsets[k] <= mid /\ mid < next /\ Search!Offsets[k] \in Nat /\ k + 1 \in 1 .. n + 1 /\ k \in 1 .. n + 1
        /\ next = Search!Offsets[k] + lines[k].size + 1 /\ lines[k].size \in Nat
    <3>1. k + 1 \in 1 .. n + 1 /\ k \in 1 .. n + 1
      BY <1>3
    <3>2. Search!Offsets[k] \in Nat /\ lines[k].size \in Nat
      BY <1>3, <3>1
    <3>3. Search!Offsets[k + 1] = Search!Offsets[k] + lines[k].size + 1
      BY <1>3 DEF LineStarts
    <3>4. Search!Offsets[k] <= mid /\ mid < Search!Offsets[k + 1]
      BY <1>2, <1>3, <2>1, <2>2
    <3> QED
      BY <2>3, <3>1, <3>2, <3>3, <3>4
  <2>5. Search!Rest(mid) = next - 1 - mid
    BY <2>2, <2>3 DEF Search!Rest
  <2>6. next \in {Search!Offsets[i] : i \in DOMAIN Search!Offsets}
    BY <1>3, <2>3, <2>4
  <2>7. \A i \in Search!Readable : \/ i < k /\ Search!Offsets[i] < Search!Offsets[k]
                                   \/ i = k
                                   \/ i > k /\ next <= Search!Offsets[i]
    <3>1. ASSUME NEW i \in Search!Readable, i > k PROVE next <= Search!Offsets[i]
      <4>1. (i = k + 1 \/ k + 1 < i) /\ i \in 1 .. n + 1 /\ Search!Offsets[i] \in Nat
        BY <1>5, <3>1
      <4>2. \A a, b \in 1 .. n + 1 : a < b => Search!Offsets[a] < Search!Offsets[b]
        BY <1>3
      <4>3. k + 1 < i => Search!Offsets[k + 1] < Search!Offsets[i]
        BY <2>4, <4>1, <4>2
      <4> QED
        BY <2>3, <4>1, <4>3
    <3>2. ASSUME NEW i \in Search!Readable, i < k PROVE Search!Offsets[i] < Search!Offsets[k]
      BY <1>3, <1>5, <2>4, <3>2
    <3> QED
      BY <1>3, <1>5, <3>1, <3>2
  <2>8. CASE Search!SkipNewline
    <3>1. left' = left /\ right' = right /\ mid' = mid + 1 /\ mid + 1 = next
      BY <1>2, <2>3, <2>5, <2>8 DEF Search!SkipNewline
    <3>2. ASSUME Search!Sorted, ~Search!EndsWithEmptyLine, Bisected, NEW i \in Search!Readable, Search!Offsets[i] < size
          PROVE  /\ ~(h <= Search!Offsets[i] /\ Search!Offsets[i] < mid')
                 /\ mid' >= size => Search!Offsets[i] < left'
      <4>1. i # k => ~(Search!Offsets[i] = mid)
        <5>1. i # k => Search!Offsets[i] < Search!Offsets[k] \/ next <= Search!Offsets[i]
          BY <2>7
        <5>2. Search!Offsets[i] \in Nat /\ mid \in Nat /\ Search!Offsets[k] <= mid /\ mid < next
              /\ Search!Offsets[k] \in Nat
          BY <1>2, <1>5, <2>4
        <5> QED
          BY <5>1, <5>2
      <4>2. Search!Offsets[k] = mid => lines[k].size = 0
        BY <1>2, <2>4, <3>1
      <4>3. ~(Search!Offsets[i] = mid)
        BY <1>5, <4>1, <4>2
      <4>4. ~(h <= Search!Offsets[i] /\ Search!Offsets[i] < mid)
        BY <1>8, <3>2 DEF Bisected
      <4>5. ASSUME mid' >= size PROVE Search!Offsets[i] < left'
        <5>1. CASE mid >= size
          BY <3>1, <3>2, <5>1 DEF Bisected
        <5>2. CASE mid = size - 1
          <6>1. next = size
            BY <1>2, <1>6, <3>1, <5>2
          <6>2. lines[k].size # 0
            BY <1>3, <2>3, <3>2, <6>1 DEF Search!EndsWithEmptyLine
          <6>3. Search!Offsets[k] < mid
            <7>1. PICK o \in Nat, z \in Nat : o = Search!Offsets[k] /\ z = lines[k].size
              BY <2>4
            <7>2. mid + 1 = o + z + 1 /\ z # 0 /\ mid \in Nat
              BY <1>2, <2>4, <3>1, <6>2, <7>1
            <7> QED
              BY <7>1, <7>2
          <6>4. mid = h
            <7>1. mid < size
              BY <1>2, <1>6, <5>2
            <7>2. ASSUME NEW j \in 1 .. n + 1, mid = Search!Offsets[j] PROVE FALSE
              <8>1. j <= k \/ k + 1 < j \/ j = k + 1
                BY <1>3
              <8>2. CASE j <= k
                <9>1. j = k \/ j < k
                  BY <1>3, <8>2
                <9> QED
                  BY <1>2, <1>3, <2>4, <6>3, <7>2, <9>1
              <8>3. CASE k + 1 < j \/ j = k + 1
                <9>1. k + 1 < j => next < Search!Offsets[j]
                  BY <1>3, <2>3, <2>4
                <9>2. j = k + 1 => next = Search!Offsets[j]
                  BY <2>3
                <9>3. mid \in Nat /\ mid < next /\ mid = Search!Offsets[j]
                  BY <1>2, <2>4, <7>2
                <9> QED
                  BY <8>3, <9>1, <9>2, <9>3
              <8> QED
                BY <8>1, <8>2, <8>3
            <7> QED
              BY <1>3, <1>8, <7>1, <7>2 DEF ExactInv
          <6>5. left >= size - 2
            <7>1. /\ left \in Nat /\ right \in Nat /\ size \in Nat /\ right <= size
                  /\ h = size - 1 /\ 2 * (h - left) <= right - left
              BY <1>2, <1>6, <1>7, <1>9, <2>1, <5>2, <6>4
            <7> QED
              BY <7>1
          <6>6. i = k => lines[k].size > 1
            BY <1>5
          <6>7. PICK o \in Nat, q \in Nat : o = Search!Offsets[i] /\ q = Search!Offsets[k]
            BY <1>5, <2>4
          <6>8. o < q \/ next <= o \/ i = k
            BY <2>7, <6>7
          <6>9. o < size /\ q < mid /\ next = size /\ mid = size - 1 /\ left >= size - 2
            BY <3>2, <5>2, <6>1, <6>3, <6>5, <6>7
          <6>10. i = k => o + 2 < size
            BY <1>6, <2>4, <6>1, <6>6, <6>7
          <6>11. left' = left /\ left \in Nat /\ size \in Nat /\ mid \in Nat
            BY <1>2, <1>6, <3>1
          <6>12. o < left
            BY <6>7, <6>8, <6>9, <6>10, <6>11
          <6> QED
            BY <6>7, <6>11, <6>12
        <5> QED
          BY <1>2, <1>6, <3>1, <4>5, <5>1, <5>2
      <4> QED
        BY <1>2, <1>5, <3>1, <4>3, <4>4, <4>5
    <3>3. Search!Sorted /\ ~Search!EndsWithEmptyLine /\ Bisected => Bisected'
      BY <1>8, <1>12, <3>1, <3>2 DEF Bisected
    <3> QED
      BY <1>7, <1>11, <2>1, <2>6, <3>1, <3>3
  <2>9. CASE Search!GoRight
    <3>1. /\ left' = next /\ mid' = Search!Halfway(left', right') /\ right' = right
          /\ Search!Offsets[k] = mid /\ lines[k].time < Search!SearchTarget /\ k \in Search!Readable
      BY <1>2, <1>3, <2>2, <2>5, <2>9 DEF Search!GoRight, Search!IsRecord, Search!TimeAt, Search!Readable
    <3>2. mid' >= size => left' >= size
      <4>1. left' < right' => mid' < right'
        BY <1>2, <3>1, HalfwayBounds
      <4>2. left' >= right' => mid' <= left'
        BY <1>2, <3>1, HalfwayBounds
      <4> QED
        BY <1>2, <1>6, <1>7, <3>1, <4>1, <4>2
    <3>3. ASSUME Search!Sorted, Bisected, NEW i \in Search!Readable, Search!Offsets[i] < size
          PROVE  /\ Search!Offsets[i] < left' => lines[i].time < Search!SearchTarget
                 /\ Search!Offsets[i] >= right' => lines[i].time >= Search!SearchTarget
                 /\ ~(mid' <= Search!Offsets[i] /\ Search!Offsets[i] < mid')
                 /\ mid' >= size => Search!Offsets[i] < left'
      <4>1. Search!Offsets[i] < left' => i < k \/ i = k
        <5>1. i < k \/ i = k \/ next <= Search!Offsets[i]
          BY <2>7
        <5> QED
          BY <1>5, <3>1, <5>1
      <4>2. i < k => lines[i].time <= lines[k].time
        BY <3>1, <3>3 DEF Search!Sorted
      <4>3. Search!Offsets[i] < left' => lines[i].time < Search!SearchTarget
        BY <1>3, <1>5, <3>1, <4>1, <4>2 DEF Search!SearchTarget, Search!LogSearchAssumption
      <4>4. Search!Offsets[i] >= right' => lines[i].time >= Search!SearchTarget
        BY <3>1, <3>3 DEF Bisected
      <4>5. Search!Offsets[i] \in Nat /\ mid' \in Nat /\ size \in Nat /\ left' \in Nat /\ Search!Offsets[i] < size
        BY <1>2, <1>5, <1>6, <3>3
      <4>6. ~(mid' <= Search!Offsets[i] /\ Search!Offsets[i] < mid')
        BY <4>5
      <4>7. mid' >= size => Search!Offsets[i] < left'
        BY <3>2, <4>5
      <4> QED
        BY <4>3, <4>4, <4>6, <4>7
    <3>4. Search!Sorted /\ ~Search!EndsWithEmptyLine /\ Bisected => Bisected'
      BY <1>12, <3>1, <3>3
    <3> QED
      BY <1>7, <1>11, <2>1, <3>1, <3>4
  <2>10. CASE Search!GoLeft
    <3>1. /\ left' = left /\ right' = h /\ mid' = Search!Halfway(left', right')
          /\ Search!Offsets[k] = mid /\ lines[k].time >= Search!SearchTarget /\ k \in Search!Readable
      BY <1>2, <1>3, <1>8, <2>2, <2>10 DEF Search!GoLeft, Search!IsRecord, Search!TimeAt, Search!Readable
    <3>2. right' <= size /\ mid' < size
      <4>1. left' < right' => mid' < right'
        BY <1>2, <3>1, HalfwayBounds
      <4>2. left' >= right' => mid' <= left'
        BY <1>2, <3>1, HalfwayBounds
      <4> QED
        BY <1>2, <1>6, <1>7, <1>9, <2>1, <3>1, <4>1, <4>2
    <3>3. ASSUME Search!Sorted, Bisected, NEW i \in Search!Readable, Search!Offsets[i] < size
          PROVE  /\ Search!Offsets[i] < left' => lines[i].time < Search!SearchTarget
                 /\ Search!Offsets[i] >= right' => lines[i].time >= Search!SearchTarget
                 /\ ~(mid' <= Search!Offsets[i] /\ Search!Offsets[i] < mid')
                 /\ mid' >= size => Search!Offsets[i] < left'
      <4>1. Search!Offsets[i] < left => lines[i].time < Search!SearchTarget
        BY <3>3 DEF Bisected
      <4>2. ASSUME Search!Offsets[i] >= h PROVE lines[i].time >= Search!SearchTarget
        <5>1. ~(Search!Offsets[i] < mid)
          BY <1>8, <3>3, <4>2 DEF Bisected
        <5>2. i = k \/ i > k
          BY <1>2, <1>5, <2>4, <2>7, <3>1, <5>1
        <5>3. i > k => lines[k].time <= lines[i].time
          BY <3>1, <3>3 DEF Search!Sorted
        <5> QED
          BY <1>3, <1>5, <3>1, <5>2, <5>3 DEF Search!SearchTarget, Search!LogSearchAssumption
      <4>3. Search!Offsets[i] \in Nat /\ mid' \in Nat /\ size \in Nat
        BY <1>2, <1>5, <1>6
      <4>4. ~(mid' <= Search!Offsets[i] /\ Search!Offsets[i] < mid') /\ ~(mid' >= size)
        BY <3>2, <4>3
      <4> QED
        BY <3>1, <4>1, <4>2, <4>4
    <3>4. Search!Sorted /\ ~Search!EndsWithEmptyLine /\ Bisected => Bisected'
      BY <1>12, <3>1, <3>3
    <3> QED
      BY <1>11, <2>1, <3>1, <3>2, <3>4
  <2>11. CASE Search!SkipLine
    <3>1. /\ left' = left /\ ~(Search!Offsets[k] = mid /\ k \in Search!Readable)
          /\ \/ next < right /\ mid' = next /\ right' = right
             \/ ~(next < right) /\ right' = h /\ mid' = Search!Halfway(left', right')
      <4>1. mid + Search!Rest(mid) + 1 = next
        BY <1>2, <2>3, <2>5
      <4> QED
        BY <1>3, <1>8, <2>2, <2>11, <4>1 DEF Search!SkipLine, Search!IsRecord, Search!Readable
    <3>2. ASSUME Bisected, NEW i \in Search!Readable, Search!Offsets[i] < size, h <= Search!Offsets[i]
          PROVE  next <= Search!Offsets[i]
      <4>1. ~(Search!Offsets[i] < mid)
        BY <1>8, <3>2 DEF Bisected
      <4>2. Search!Offsets[i] \in Nat /\ mid \in Nat /\ Search!Offsets[k] \in Nat /\ Search!Offsets[k] <= mid
        BY <1>2, <1>5, <2>4
      <4>3. i # k
        BY <3>1, <4>1, <4>2
      <4>4. Search!Offsets[i] < Search!Offsets[k] \/ next <= Search!Offsets[i]
        BY <2>7, <4>3
      <4> QED
        BY <4>1, <4>2, <4>4
    <3>3. CASE next < right /\ mid' = next /\ right' = right
      <4>1. mid' < size
        BY <1>2, <1>6, <1>7, <3>3
      <4>2. ASSUME Bisected, NEW i \in Search!Readable, Search!Offsets[i] < size
            PROVE  /\ ~(h <= Search!Offsets[i] /\ Search!Offsets[i] < mid')
                   /\ mid' >= size => Search!Offsets[i] < left'
        BY <1>2, <1>5, <1>6, <2>3, <3>2, <3>3, <4>1, <4>2
      <4>3. Bisected => Bisected'
        BY <1>8, <1>12, <3>1, <3>3, <4>2 DEF Bisected
      <4> QED
        BY <1>7, <1>11, <2>1, <2>6, <3>3, <4>3
    <3>4. CASE ~(next < right) /\ right' = h /\ mid' = Search!Halfway(left', right')
      <4>1. right' <= size /\ mid' < size
        <5>1. left' < right' => mid' < right'
          BY <1>2, <3>4, HalfwayBounds
        <5>2. left' >= right' => mid' <= left'
          BY <1>2, <3>4, HalfwayBounds
        <5>3. /\ left' = left /\ right' = h /\ left <= h /\ h < right /\ right <= size
              /\ left \in Nat /\ right \in Nat /\ size \in Nat /\ mid' \in Nat
          BY <1>2, <1>6, <1>7, <1>9, <2>1, <3>1, <3>4
        <5>4. mid' < h \/ mid' <= left
          BY <5>1, <5>2, <5>3
        <5> QED
          BY <5>3, <5>4
      <4>2. ASSUME Bisected, NEW i \in Search!Readable, Search!Offsets[i] < size
            PROVE  /\ Search!Offsets[i] < left' => lines[i].time < Search!SearchTarget
                   /\ Search!Offsets[i] >= right' => lines[i].time >= Search!SearchTarget
                   /\ ~(mid' <= Search!Offsets[i] /\ Search!Offsets[i] < mid')
                   /\ mid' >= size => Search!Offsets[i] < left'
        <5>1. Search!Offsets[i] < left => lines[i].time < Search!SearchTarget
          BY <4>2 DEF Bisected
        <5>2. Search!Offsets[i] >= right => lines[i].time >= Search!SearchTarget
          BY <4>2 DEF Bisected
        <5>3. Search!Offsets[i] >= h => Search!Offsets[i] >= right
          BY <1>2, <1>5, <2>3, <3>2, <3>4, <4>2
        <5> QED
          BY <1>2, <1>5, <1>6, <3>1, <3>4, <4>1, <5>1, <5>2, <5>3
      <4>3. Bisected => Bisected'
        BY <1>12, <3>4, <4>2
      <4> QED
        BY <1>11, <2>1, <3>4, <4>1, <4>3
    <3> QED
      BY <3>1, <3>3, <3>4
  <2> QED
    BY <1>16, <2>8, <2>9, <2>10, <2>11
<1> QED
  BY <1>13, <1>14, <1>15, <1>16 DEF Search!SearchStep

\* What is appended is not searched: it lies behind the end of the file as the search knows it.
LEMMA AppendLineBisects ==
  ASSUME Search!LogSearchAssumption, ExactInv, NEW line \in Search!Line, Search!AppendLine(line)
  PROVE  ExactInv'
<1>1. PICK n : n = Len(lines)
  OBVIOUS
<1>2. /\ SearchInv' /\ SearchInv /\ lines \in Seq(Search!Line) /\ left \in Nat /\ right \in Nat /\ mid \in Nat
      /\ lines' = Append(lines, line) /\ line.size > 1
      /\ left' = left /\ mid' = mid /\ right' = right /\ size' = size /\ accuracy' = accuracy /\ searching /\ searching'
  <2>1. SearchInv' /\ SearchInv
    BY AppendLineKeeps DEF ExactInv
  <2> QED
    BY <2>1 DEF SearchInv, Search!AppendLine, Search!bounds, Search!inputs
<1>3. /\ n \in Nat /\ DOMAIN lines = 1 .. n /\ DOMAIN lines' = 1 .. n + 1
      /\ \A i \in 1 .. n : lines'[i] = lines[i]
      /\ lines'[n + 1] = line
      /\ LineStarts(Search!Offsets, n, lines) /\ DOMAIN Search!Offsets = 1 .. n + 1
  BY <1>1, <1>2, AppendedFile
<1>4. /\ LineStarts(Search!Offsets', n + 1, lines') /\ DOMAIN Search!Offsets' = 1 .. n + 2
      /\ \A i, k \in 1 .. n + 2 : i < k => Search!Offsets'[i] < Search!Offsets'[k]
  BY <1>1, <1>2, AppendedFile
<1>5. \A i \in 1 .. n + 1 : Search!Offsets'[i] = Search!Offsets[i]
  BY <1>1, <1>2, AppendedFile
<1>6. /\ \A i \in Search!Readable' : i \in Search!Readable \/ i = n + 1
      /\ Search!Readable \subseteq 1 .. n
      /\ Search!Readable \subseteq Search!Readable'
  BY <1>1, <1>2, AppendedFile
<1>7. /\ 1 .. n \subseteq 1 .. n + 1 /\ 1 .. n + 1 \subseteq 1 .. n + 2
      /\ \A i \in 1 .. n : i + 1 \in 1 .. n + 1
      /\ n + 1 \in 1 .. n + 1 /\ \A i \in 1 .. n + 1 : i = n + 1 \/ i < n + 1
  BY <1>3
<1>8. \A i \in 1 .. n + 1 : Search!Offsets[i] \in Nat
  BY <1>3 DEF LineStarts
<1>9. \A i \in DOMAIN Search!Offsets : i \in DOMAIN Search!Offsets' /\ Search!Offsets'[i] = Search!Offsets[i]
  BY <1>3, <1>4, <1>5, <1>7
<1>10. size \in {Search!Offsets[i] : i \in DOMAIN Search!Offsets} /\ size \in Nat
  BY <1>3, <1>8 DEF ExactInv
<1>11. Search!Offsets'[n + 1] >= size
  <2>1. PICK j \in 1 .. n + 1 : size = Search!Offsets[j]
    BY <1>3, <1>10
  <2>2. size = Search!Offsets'[j] /\ Search!Offsets'[n + 1] \in Nat
    BY <1>5, <1>7, <1>8, <2>1
  <2>3. j < n + 1 => Search!Offsets'[j] < Search!Offsets'[n + 1]
    BY <1>4, <1>7, <2>1
  <2> QED
    BY <1>7, <1>10, <2>1, <2>2, <2>3
<1>12. \A i \in Search!Readable' : lines'[i].size > 1
  BY <1>2, <1>3, <1>6 DEF ExactInv
<1>13. Search!Sorted' => Search!Sorted
  BY <1>3, <1>6 DEF Search!Sorted
<1>14. Search!EndsWithEmptyLine => Search!EndsWithEmptyLine'
  <2>1. ASSUME NEW i \in 1 .. n, Search!Offsets[i + 1] = size, lines[i].size = 0
        PROVE  i \in 1 .. n + 1 /\ Search!Offsets'[i + 1] = size /\ lines'[i].size = 0
    BY <1>3, <1>5, <1>7, <2>1
  <2> QED
    BY <1>2, <1>3, <2>1 DEF Search!EndsWithEmptyLine
<1>15. Bisected => Bisected'
  <2>1. ASSUME Bisected, NEW i \in Search!Readable', Search!Offsets'[i] < size
        PROVE  /\ Search!Offsets'[i] < left => lines'[i].time < Search!SearchTarget
               /\ Search!Offsets'[i] >= right => lines'[i].time >= Search!SearchTarget
               /\ ~(Search!Halfway(left, right) <= Search!Offsets'[i] /\ Search!Offsets'[i] < mid)
               /\ mid >= size => Search!Offsets'[i] < left
    <3>1. i # n + 1
      <4>1. Search!Offsets'[n + 1] \in Nat
        BY <1>5, <1>7, <1>8
      <4> QED
        BY <1>10, <1>11, <2>1, <4>1
    <3>2. i \in Search!Readable /\ i \in 1 .. n
      BY <1>6, <3>1
    <3>3. Search!Offsets'[i] = Search!Offsets[i] /\ lines'[i] = lines[i]
      BY <1>3, <1>5, <1>7, <3>2
    <3> QED
      BY <2>1, <3>2, <3>3 DEF Bisected
  <2> QED
    BY <1>2, <2>1 DEF Bisected, Search!Halfway, Search!SearchTarget
<1>16. /\ accuracy \in Nat /\ right <= size
       /\ mid < size => mid = Search!Halfway(left, right) \/ mid \in {Search!Offsets[i] : i \in DOMAIN Search!Offsets}
       /\ Search!Sorted /\ ~Search!EndsWithEmptyLine => Bisected
  BY DEF ExactInv
<1>17. \A x : x \in {Search!Offsets[i] : i \in DOMAIN Search!Offsets} =>
              x \in {Search!Offsets'[i] : i \in DOMAIN Search!Offsets'}
  BY <1>9
<1> QED
  BY <1>2, <1>10, <1>12, <1>13, <1>14, <1>15, <1>16, <1>17 DEF ExactInv, Search!Halfway

\* In the beginning the whole file is unknown.
LEMMA BisectionInitial == ASSUME Search!LogSearchAssumption, Search!Init PROVE ExactInv
<1>1. PICK n : n = Len(lines)
  OBVIOUS
<1>2. SearchInv /\ lines \in Seq(Search!Line)
  BY SearchInitial DEF SearchInv
<1>3. /\ n \in Nat /\ DOMAIN lines = 1 .. n /\ DOMAIN Search!Offsets = 1 .. n + 1
      /\ \A i \in 1 .. n + 1 : Search!Offsets[i] \in Nat
  BY <1>1, <1>2, FileProperties
<1>4. /\ left = 0 /\ size = Search!Offsets[n + 1] /\ right = size /\ mid = size \div 2
      /\ accuracy \in Nat /\ searching = (size > accuracy)
      /\ \A i \in Search!Readable : lines[i].size > 1
  BY <1>1 DEF Search!Init, Search!FileLen, Search!LogSearchAssumption
<1>5. n + 1 \in 1 .. n + 1 /\ 1 .. n \subseteq 1 .. n + 1
  BY <1>3
<1>6. size \in Nat /\ size \in {Search!Offsets[i] : i \in DOMAIN Search!Offsets}
  BY <1>3, <1>4, <1>5
<1>7. mid = Search!Halfway(left, right)
  <2>1. \A x \in Nat : 0 + (x - 0) \div 2 = x \div 2
    OBVIOUS
  <2> QED
    BY <1>4, <1>6, <2>1 DEF Search!Halfway
<1>8. mid \in Nat /\ (mid >= size => size = 0)
  BY <1>4, <1>6
<1>9. Bisected
  <2>1. ASSUME NEW i \in Search!Readable, Search!Offsets[i] < size
        PROVE  /\ ~(Search!Offsets[i] < left) /\ ~(Search!Offsets[i] >= right)
               /\ ~(mid <= Search!Offsets[i] /\ Search!Offsets[i] < mid)
               /\ ~(mid >= size)
    <3>1. Search!Offsets[i] \in Nat
      BY <1>3, <1>5 DEF Search!Readable
    <3> QED
      BY <1>4, <1>6, <1>8, <2>1, <3>1
  <2> QED
    BY <1>7, <2>1 DEF Bisected
<1>10. right <= size /\ (~searching => right <= left + accuracy)
  <2>1. ~searching => ~(size > accuracy)
    BY <1>4, Zenon
  <2> QED
    BY <1>4, <1>6, <2>1
<1> QED
  BY <1>2, <1>4, <1>6, <1>7, <1>9, <1>10 DEF ExactInv

\* "If the accuracy is 0, the result is perfectly aligned to the begin of the found record":
\* it is, in a file without late records and empty lines at its end.
THEOREM SortedSearchIsExact ==
  /\ Search!Spec => []Search!ExactIfSorted
  /\ MCSpec => []ExactIfSorted
<1>1. Search!Init => ExactInv
  BY BisectionInitial, FileSearchAssumption
<1>2. ExactInv /\ [Search!Next]_(Search!vars) => ExactInv'
  <2> SUFFICES ASSUME ExactInv, [Search!Next]_(Search!vars) PROVE ExactInv'
    OBVIOUS
  <2>1. CASE Search!SearchStep
    BY <2>1, SearchStepBisects, FileSearchAssumption
  <2>2. CASE \E line \in Search!Line : Search!AppendLine(line)
    BY <2>2, AppendLineBisects, FileSearchAssumption
  <2>3. CASE UNCHANGED Search!vars
    <3>1. UNCHANGED <<lines, left, right, mid, size, accuracy, searching>>
      BY <2>3 DEF Search!vars, Search!bounds, Search!inputs
    <3>2. Search!Offsets' = Search!Offsets /\ Search!Readable' = Search!Readable
      BY <3>1 DEF Search!Offsets, Search!Readable
    <3>3. SearchInv'
      BY <3>1, <3>2 DEF ExactInv, SearchInv, Search!StartsSafely
    <3>4. (Bisected' <=> Bisected) /\ (Search!Sorted' <=> Search!Sorted)
          /\ (Search!EndsWithEmptyLine' <=> Search!EndsWithEmptyLine)
      BY <3>1, <3>2 DEF Bisected, Search!Sorted, Search!EndsWithEmptyLine, Search!Halfway, Search!SearchTarget
    <3> QED
      BY <3>1, <3>2, <3>3, <3>4 DEF ExactInv, Search!Halfway
  <2> QED
    BY <2>1, <2>2, <2>3 DEF Search!Next, Search!Terminated
<1>3. ASSUME ExactInv PROVE Search!ExactIfSorted
  <2> SUFFICES ASSUME ~searching, accuracy = 0, Search!Sorted, ~Search!EndsWithEmptyLine,
                      NEW i \in Search!Readable, Search!Offsets[i] < size
               PROVE  Search!Offsets[i] < left <=> lines[i].time < Search!SearchTarget
    BY DEF Search!ExactIfSorted
  <2>1. /\ Search!Offsets[i] < left => lines[i].time < Search!SearchTarget
        /\ Search!Offsets[i] >= right => lines[i].time >= Search!SearchTarget
    BY <1>3 DEF ExactInv, Bisected
  <2>2. left \in Nat /\ right \in Nat /\ right <= left
    BY <1>3 DEF ExactInv, SearchInv
  <2>3. Search!Offsets[i] \in Nat /\ lines[i].time \in Nat
    <3>1. PICK n : n = Len(lines)
      OBVIOUS
    <3>2. lines \in Seq(Search!Line)
      BY <1>3 DEF ExactInv, SearchInv
    <3>3. /\ n \in Nat /\ DOMAIN lines = 1 .. n
          /\ \A j \in 1 .. n : lines[j].time \in Nat
          /\ \A j \in 1 .. n + 1 : Search!Offsets[j] \in Nat
      BY <1>3, <3>1, <3>2, FileProperties, FileSearchAssumption
    <3> QED
      BY <3>3 DEF Search!Readable
  <2>4. Search!SearchTarget \in Int
    BY FileSearchAssumption DEF Search!SearchTarget, Search!LogSearchAssumption
  <2> QED
    BY <2>1, <2>2, <2>3, <2>4
<1>4. Search!Init /\ [][Search!Next]_(Search!vars) => []ExactInv
  BY <1>1, <1>2, PTL
<1> QED
  BY <1>3, <1>4, MCSpecSearches, PTL DEF Search!Spec, ExactIfSorted
===============================================================================
