--------------------------- MODULE PathPatternProofs ---------------------------
(***************************************************************************)
(* A theorem about PathPattern, the names of the log files: every record    *)
(* of a period is in a file that is read for the period, and all files are  *)
(* listed in order of time.  It holds for any calendar of whole months,     *)
(* days, hours and minutes in the years %y tells apart, for any number of   *)
(* parts of the pattern and of files, of the module by itself and of its    *)
(* instance in MCLogFiles.                                                  *)
(***************************************************************************)
EXTENDS MCLogFiles, FiniteSetTheorems, WellFoundedInduction, SequenceTheorems, TLAPS

\* A behaviour of MCSpec is one of the names: the files that are written or searched
\* meanwhile leave it in an initial state.
LEMMA MCSpecNamesFiles == MCSpec => Pattern!Init /\ [][Pattern!Next]_(Pattern!vars)
<1>1. MCInit => Pattern!Init
  BY DEF MCInit
<1>2. [MCNext]_<<vars, patternVars, searchVars, part>> => [Pattern!Next]_(Pattern!vars)
  BY DEF MCNext, patternVars, Pattern!vars
<1> QED
  BY <1>1, <1>2, PTL DEF MCSpec

\* The number of files is the same in PathPattern and here.
LEMMA SameCardinality == ASSUME NEW S PROVE Pattern!Cardinality(S) = Cardinality(S)
BY DEF Pattern!Cardinality, Cardinality

-----------------------------------------------------------------------------
(* Numbers, and the days before each month.                                 *)

\* A non-empty set of numbers has a least element.
LEMMA LeastElement ==
  ASSUME NEW S \in SUBSET Nat, S # {}
  PROVE  \E x \in S : \A y \in S : x <= y
<1> DEFINE R == {p \in Nat \X Nat : p[1] < p[2]}
<1>1. IsWellFoundedOn(R, Nat)
  <2>1. OpToRel(<, Nat) = R
    BY DEF OpToRel
  <2> QED
    BY <2>1, NatLessThanWellFounded
<1>2. PICK x \in S : \A y \in S : ~(<<y, x>> \in R)
  BY <1>1, WFMin
<1>3. ASSUME NEW y \in S PROVE x <= y
  <2>1. x \in Nat /\ y \in Nat
    OBVIOUS
  <2>2. y < x => <<y, x>> \in R
    BY <2>1
  <2> QED
    BY <1>2, <2>1, <2>2
<1> QED
  BY <1>3

\* The table of the days before each month, as a condition: for the first n months.
Counts(b, n) ==
  /\ b \in [1 .. n + 1 -> Nat]
  /\ b[1] = 0
  /\ \A m \in 1 .. n : b[m + 1] = b[m] + DaysOf[m]

\* There is such a table.
LEMMA TableExists ==
  ASSUME NEW n \in Nat, \A m \in 1 .. n : DaysOf[m] \in Nat
  PROVE  \E b : Counts(b, n)
<1> DEFINE Breach == {m \in 0 .. n : ~\E b : Counts(b, m)}
<1>1. SUFFICES ASSUME Breach # {} PROVE FALSE
  <2>1. n \in 0 .. n
    OBVIOUS
  <2> QED
    BY <2>1
<1>2. Breach \in SUBSET Nat
  OBVIOUS
<1>3. PICK m \in Breach : \A k \in Breach : m <= k
  BY <1>1, <1>2, LeastElement
<1>4. m \in 0 .. n /\ ~\E b : Counts(b, m)
  OBVIOUS
<1>5. m # 0
  <2> DEFINE b == [i \in 1 .. 1 |-> 0]
  <2>1. Counts(b, 0)
    BY DEF Counts
  <2> HIDE DEF b
  <2> QED
    BY <1>4, <2>1
<1>6. m - 1 \in 0 .. n /\ m - 1 \notin Breach
  <2>1. m - 1 \in 0 .. n /\ ~(m <= m - 1)
    BY <1>4, <1>5
  <2> QED
    BY <1>3, <2>1
<1>7. PICK g : Counts(g, m - 1)
  BY <1>6
<1> DEFINE b == [i \in 1 .. m + 1 |-> IF i = m + 1 THEN g[m] + DaysOf[m] ELSE g[i]]
<1>8. m \in Nat \ {0} /\ m - 1 + 1 = m /\ m \in 1 .. n
  BY <1>4, <1>5
<1>9. g \in [1 .. m -> Nat] /\ g[1] = 0 /\ \A i \in 1 .. m - 1 : g[i + 1] = g[i] + DaysOf[i]
  BY <1>7, <1>8 DEF Counts
<1>10. Counts(b, m)
  <2>1. \A i \in 1 .. m + 1 : i = m + 1 \/ i \in 1 .. m
    BY <1>8
  <2>2. g[m] + DaysOf[m] \in Nat
    BY <1>8, <1>9
  <2>3. b \in [1 .. m + 1 -> Nat]
    BY <1>9, <2>1, <2>2
  <2>4. ASSUME NEW i \in 1 .. m PROVE b[i] = g[i]
    BY <1>8
  <2>5. b[1] = 0
    BY <1>8, <1>9, <2>4
  <2>6. b[m + 1] = g[m] + DaysOf[m]
    BY <1>8
  <2> HIDE DEF b
  <2>7. ASSUME NEW i \in 1 .. m PROVE b[i + 1] = b[i] + DaysOf[i]
    <3>1. CASE i = m
      BY <2>4, <2>6, <3>1
    <3>2. CASE i # m
      <4>1. i \in 1 .. m - 1 /\ i + 1 \in 1 .. m
        BY <1>8, <3>2
      <4> QED
        BY <1>9, <2>4, <4>1
    <3> QED
      BY <3>1, <3>2
  <2> QED
    BY <2>3, <2>5, <2>7 DEF Counts
<1> HIDE DEF b
<1> QED
  BY <1>4, <1>10

\* DaysBefore is one, and it grows from month to month.
LEMMA DaysBeforeProperties ==
  ASSUME NEW n, n = Len(DaysOf)
  PROVE  /\ n \in Nat \ {0} /\ DOMAIN DaysOf = 1 .. n
         /\ \A m \in 1 .. n : DaysOf[m] \in Nat \ {0}
         /\ Counts(Pattern!DaysBefore, n)
         /\ \A i, k \in 1 .. n + 1 : i < k => Pattern!DaysBefore[i] < Pattern!DaysBefore[k]
<1>1. /\ n \in Nat \ {0} /\ DOMAIN DaysOf = 1 .. n
      /\ \A m \in 1 .. n : DaysOf[m] \in Nat \ {0}
  <2>1. DaysOf \in Seq(Nat \ {0}) /\ DaysOf # <<>>
    BY FileNamesAssumption DEF Pattern!PathPatternAssumption
  <2> QED
    BY <2>1, EmptySeq, LenProperties, ElementOfSeq
<1> DEFINE Table(g) == g = [m \in 1 .. n + 1 |-> IF m = 1 THEN 0 ELSE g[m - 1] + DaysOf[m - 1]]
<1>2. Pattern!DaysBefore = CHOOSE g : Table(g)
  BY DEF Pattern!DaysBefore
<1>3. PICK b : Counts(b, n)
  BY <1>1, TableExists
<1>4. b \in [1 .. n + 1 -> Nat] /\ b[1] = 0 /\ \A i \in 1 .. n : b[i + 1] = b[i] + DaysOf[i]
  BY <1>3 DEF Counts
<1>5. ASSUME NEW i \in 1 .. n + 1 PROVE b[i] = IF i = 1 THEN 0 ELSE b[i - 1] + DaysOf[i - 1]
  <2>1. CASE i = 1
    BY <1>4, <2>1
  <2>2. CASE i # 1
    <3>1. i - 1 \in 1 .. n /\ i - 1 + 1 = i
      BY <1>1, <2>2
    <3> QED
      BY <1>4, <2>2, <3>1
  <2> QED
    BY <2>1, <2>2
<1>6. Table(b)
  BY <1>4, <1>5
<1> HIDE DEF Table
<1>7. Table(Pattern!DaysBefore)
  BY <1>2, <1>6, Zenon
<1>8. PICK g : g = Pattern!DaysBefore
  OBVIOUS
<1>9. g = [m \in 1 .. n + 1 |-> IF m = 1 THEN 0 ELSE g[m - 1] + DaysOf[m - 1]]
  BY <1>7, <1>8 DEF Table
<1>10. DOMAIN g = 1 .. n + 1 /\ g[1] = 0
  <2>1. 1 \in 1 .. n + 1
    BY <1>1
  <2> QED
    BY <1>9, <2>1
<1>11. ASSUME NEW i \in 1 .. n PROVE g[i + 1] = g[i] + DaysOf[i]
  <2>1. i + 1 \in 1 .. n + 1 /\ i + 1 # 1 /\ i + 1 - 1 = i
    BY <1>1
  <2>2. g[i + 1] = g[i + 1 - 1] + DaysOf[i + 1 - 1]
    BY <1>9, <2>1
  <2> QED
    BY <2>1, <2>2
<1>12. ASSUME NEW j \in 1 .. n + 1, g[j] # b[j] PROVE FALSE
  <2> DEFINE Breach == {k \in 1 .. n + 1 : g[k] # b[k]}
  <2>1. Breach \in SUBSET Nat /\ Breach # {}
    BY <1>12
  <2>2. PICK k \in Breach : \A l \in Breach : k <= l
    BY <2>1, LeastElement
  <2>3. k \in 1 .. n + 1 /\ g[k] # b[k]
    OBVIOUS
  <2>4. k # 1
    BY <1>4, <1>10, <2>3
  <2>5. k - 1 \in 1 .. n /\ k - 1 \in 1 .. n + 1 /\ k - 1 + 1 = k /\ ~(k <= k - 1)
    BY <1>1, <2>3, <2>4
  <2>6. g[k - 1] = b[k - 1]
    BY <2>2, <2>5
  <2> QED
    BY <1>4, <1>11, <2>3, <2>5, <2>6
<1>13. g = b
  <2>1. g = [i \in 1 .. n + 1 |-> g[i]] /\ b = [i \in 1 .. n + 1 |-> b[i]]
    BY <1>4, <1>9, <1>10
  <2> QED
    BY <1>12, <2>1
<1>14. \A i \in 1 .. n + 1 : b[i] \in Nat
  BY <1>4
<1>15. ASSUME NEW i \in 1 .. n + 1, NEW j \in 1 .. n + 1, i < j, ~(b[i] < b[j]) PROVE FALSE
  <2> DEFINE Breach == {k \in 1 .. n + 1 : i < k /\ ~(b[i] < b[k])}
  <2>1. Breach \in SUBSET Nat /\ Breach # {}
    BY <1>15
  <2>2. PICK k \in Breach : \A l \in Breach : k <= l
    BY <2>1, LeastElement
  <2>3. k \in 1 .. n + 1 /\ i < k /\ ~(b[i] < b[k])
    OBVIOUS
  <2>4. k - 1 \in 1 .. n /\ k - 1 \in 1 .. n + 1 /\ k - 1 + 1 = k /\ (i = k - 1 \/ i < k - 1)
              /\ ~(k <= k - 1)
    BY <1>1, <2>3
  <2>5. b[k] = b[k - 1] + DaysOf[k - 1] /\ DaysOf[k - 1] \in Nat \ {0}
    BY <1>1, <1>4, <2>4
  <2>6. b[k - 1] < b[k]
    BY <1>14, <2>3, <2>4, <2>5
  <2>7. i < k - 1 => b[i] < b[k - 1]
    BY <2>2, <2>4
  <2> QED
    BY <1>14, <2>3, <2>4, <2>6, <2>7
<1> QED
  BY <1>1, <1>3, <1>8, <1>13, <1>15

-----------------------------------------------------------------------------
(* Instants, and the order of them.                                         *)

Months == Len(DaysOf)

\* The first day of a month, and the numbers of a day and of an hour.
MonthStart(x) == x.year * Pattern!DaysBefore[Months + 1] + Pattern!DaysBefore[x.month]
DayNumber(x) == MonthStart(x) + x.day
HourNumber(x) == DayNumber(x) * HoursOf + x.hour

\* What Exec returns: an instant, but for a day that its month may not have.
Stamp(x) ==
  /\ x.year \in Nat
  /\ x.month \in 1 .. Months
  /\ x.day \in Nat
  /\ x.hour \in Nat
  /\ x.minute \in Nat

\* No month is longer than the longest.
LEMMA LongestMonth == Pattern!Highest.day \in Nat /\ \A m \in 1 .. Months : DaysOf[m] <= Pattern!Highest.day
<1>1. /\ Months \in Nat \ {0} /\ DOMAIN DaysOf = 1 .. Months
      /\ \A m \in 1 .. Months : DaysOf[m] \in Nat \ {0}
      /\ Counts(Pattern!DaysBefore, Months)
      /\ \A i, k \in 1 .. Months + 1 : i < k => Pattern!DaysBefore[i] < Pattern!DaysBefore[k]
  BY DaysBeforeProperties DEF Months
<1> DEFINE days == {DaysOf[m] : m \in 1 .. Months}
           year == Pattern!DaysBefore[Months + 1]
<1>2. ASSUME NEW m \in 1 .. Months PROVE DaysOf[m] \in Nat /\ DaysOf[m] <= year /\ year \in Nat
  <2>1. m + 1 \in 1 .. Months + 1 /\ m \in 1 .. Months + 1 /\ Months + 1 \in 1 .. Months + 1
    BY <1>1
  <2>2. /\ Pattern!DaysBefore[m] \in Nat /\ Pattern!DaysBefore[m + 1] \in Nat /\ year \in Nat
        /\ Pattern!DaysBefore[m + 1] = Pattern!DaysBefore[m] + DaysOf[m]
    BY <1>1, <2>1 DEF Counts
  <2>3. m + 1 = Months + 1 \/ m + 1 < Months + 1
    BY <1>1
  <2>4. Pattern!DaysBefore[m + 1] <= year
    <3>1. CASE m + 1 = Months + 1
      BY <2>2, <3>1
    <3>2. CASE m + 1 < Months + 1
      <4>1. Pattern!DaysBefore[m + 1] < year
        BY <1>1, <2>1, <3>2
      <4> QED
        BY <2>2, <4>1
    <3> QED
      BY <2>3, <3>1, <3>2
  <2>5. DaysOf[m] \in Nat
    BY <1>1
  <2> QED
    BY <2>2, <2>4, <2>5
<1> HIDE DEF year
<1> DEFINE rest == {year - x : x \in days}
<1>3. rest \in SUBSET Nat /\ rest # {}
  <2>1. ASSUME NEW m \in 1 .. Months PROVE year - DaysOf[m] \in Nat
    BY <1>2
  <2>2. 1 \in 1 .. Months
    BY <1>1
  <2> QED
    BY <2>1, <2>2
<1>4. PICK r \in rest : \A y \in rest : r <= y
  BY <1>3, LeastElement
<1>5. PICK k \in 1 .. Months : r = year - DaysOf[k]
  OBVIOUS
<1>6. ASSUME NEW m \in 1 .. Months PROVE DaysOf[k] >= DaysOf[m]
  <2>1. r <= year - DaysOf[m]
    BY <1>4
  <2> QED
    BY <1>2, <1>5, <2>1
<1>7. Pattern!ToSet(DaysOf) = days
  BY <1>1 DEF Pattern!ToSet
<1>8. Pattern!Max(days) \in days /\ \A y \in days : Pattern!Max(days) >= y
  <2>1. DaysOf[k] \in days /\ \A y \in days : DaysOf[k] >= y
    BY <1>6
  <2> HIDE DEF days
  <2> QED
    BY <2>1 DEF Pattern!Max
<1>9. Pattern!Highest.day = Pattern!Max(days)
  BY <1>7 DEF Pattern!Highest
<1> QED
  BY <1>2, <1>8, <1>9

\* What is known of an instant.
LEMMA InstantProperties ==
  ASSUME NEW t \in Pattern!Instants
  PROVE  /\ Stamp(t)
         /\ t.year \in 2000 .. 2099
         /\ 1 <= t.day /\ t.day <= DaysOf[t.month]
         /\ t.hour <= HoursOf - 1 /\ t.minute <= MinutesOf - 1
<1>1. Months \in Nat \ {0} /\ DOMAIN DaysOf = 1 .. Months
  BY DaysBeforeProperties DEF Months
<1>2. HoursOf \in Nat \ {0} /\ MinutesOf \in Nat \ {0} /\ Years \subseteq 2000 .. 2099
  BY FileNamesAssumption DEF Pattern!PathPatternAssumption
<1>3. Pattern!Highest.hour = HoursOf - 1 /\ Pattern!Highest.minute = MinutesOf - 1
  BY DEF Pattern!Highest
<1>4. PICK y \in Years, m \in 1 .. Months, d \in 1 .. Pattern!Highest.day, h \in 0 .. HoursOf - 1, i \in 0 .. MinutesOf - 1 :
           t = [year |-> y, month |-> m, day |-> d, hour |-> h, minute |-> i]
  BY <1>1, <1>3 DEF Pattern!Instants, Pattern!Times
<1>5. t.day <= DaysOf[t.month]
  BY DEF Pattern!Instants
<1>6. t.year = y /\ t.month = m /\ t.day = d /\ t.hour = h /\ t.minute = i
  BY <1>4
<1>7. y \in 2000 .. 2099 /\ d \in Nat /\ 1 <= d /\ h \in Nat /\ h <= HoursOf - 1 /\ i \in Nat
            /\ i <= MinutesOf - 1
  BY <1>2, LongestMonth
<1> QED
  BY <1>5, <1>6, <1>7 DEF Stamp

\* The numbers that an instant is made of.
LEMMA StampNumbers ==
  ASSUME NEW x, Stamp(x)
  PROVE  /\ MonthStart(x) \in Nat /\ DayNumber(x) \in Nat /\ HourNumber(x) \in Nat
                  /\ Pattern!Ordinal(x) \in Nat
         /\ Pattern!Ordinal(x) = HourNumber(x) * MinutesOf + x.minute
<1>1. /\ Counts(Pattern!DaysBefore, Months) /\ Months \in Nat
  BY DaysBeforeProperties DEF Months
<1>2. Pattern!DaysBefore[Months + 1] \in Nat /\ Pattern!DaysBefore[x.month] \in Nat
  <2>1. x.month \in 1 .. Months + 1 /\ Months + 1 \in 1 .. Months + 1
    BY <1>1 DEF Stamp
  <2> QED
    BY <1>1, <2>1 DEF Counts
<1>3. HoursOf \in Nat /\ MinutesOf \in Nat
  BY FileNamesAssumption DEF Pattern!PathPatternAssumption
<1>4. \A a, b \in Nat : a * b \in Nat
  OBVIOUS
<1>5. MonthStart(x) \in Nat
  BY <1>2, <1>4 DEF MonthStart, Stamp
<1>6. DayNumber(x) \in Nat
  BY <1>5 DEF DayNumber, Stamp
<1>7. HourNumber(x) \in Nat
  BY <1>3, <1>4, <1>6 DEF HourNumber, Stamp
<1>8. Pattern!Ordinal(x) = HourNumber(x) * MinutesOf + x.minute
  BY DEF Pattern!Ordinal, HourNumber, DayNumber, MonthStart, Months
<1>9. Pattern!Ordinal(x) \in Nat
  BY <1>3, <1>4, <1>7, <1>8 DEF Stamp
<1> QED
  BY <1>5, <1>6, <1>7, <1>8, <1>9

\* A number written with a digit less than its base, and the digits before that one.
LEMMA Digit ==
  ASSUME NEW a \in Nat, NEW b \in Nat, NEW base \in Nat \ {0}, NEW c \in Nat, NEW d \in Nat, d < base,
         c + base * a <= d + base * b
  PROVE  a <= b
<1> SUFFICES ASSUME b + 1 <= a PROVE FALSE
  OBVIOUS
<1>1. PICK k \in Nat : a = b + 1 + k
  <2>1. a - (b + 1) \in Nat /\ a = b + 1 + (a - (b + 1))
    OBVIOUS
  <2> QED
    BY <2>1
<1>2. base * (b + 1 + k) = base * b + base + base * k
  OBVIOUS
<1>3. PICK p : p = base * k
  OBVIOUS
<1>4. PICK q : q = base * b
  OBVIOUS
<1>5. p \in Nat /\ q \in Nat
  BY <1>3, <1>4
<1>6. c + (q + base + p) <= d + q
  BY <1>1, <1>2, <1>3, <1>4
<1> QED
  BY <1>5, <1>6

\* The greater digits keep the order.
LEMMA Scaled ==
  ASSUME NEW a \in Nat, NEW b \in Nat, NEW base \in Nat, NEW c \in Nat, NEW d \in Nat, a <= b, c <= d
  PROVE  a * base + c <= b * base + d
<1>1. PICK k \in Nat : b = a + k
  <2>1. b - a \in Nat /\ b = a + (b - a)
    OBVIOUS
  <2> QED
    BY <2>1
<1>2. (a + k) * base = a * base + k * base
  OBVIOUS
<1>3. PICK p : p = a * base
  OBVIOUS
<1>4. PICK q : q = k * base
  OBVIOUS
<1>5. p \in Nat /\ q \in Nat
  BY <1>3, <1>4
<1>6. p + c <= p + q + d
  BY <1>5
<1> QED
  BY <1>1, <1>2, <1>3, <1>4, <1>6

\* Where a month begins.
LEMMA MonthBounds ==
  ASSUME NEW x, Stamp(x)
  PROVE  /\ Pattern!DaysBefore[x.month] \in Nat /\ Pattern!DaysBefore[Months + 1] \in Nat
         /\ DaysOf[x.month] \in Nat
         /\ Pattern!DaysBefore[x.month] + DaysOf[x.month] <= Pattern!DaysBefore[Months + 1]
         /\ Pattern!DaysBefore[x.month] < Pattern!DaysBefore[Months + 1]
         /\ \A m \in 1 .. Months : x.month < m
                  => Pattern!DaysBefore[x.month] + DaysOf[x.month] <= Pattern!DaysBefore[m]
<1>1. /\ Months \in Nat \ {0} /\ \A m \in 1 .. Months : DaysOf[m] \in Nat \ {0}
      /\ Counts(Pattern!DaysBefore, Months)
      /\ \A i, k \in 1 .. Months + 1 : i < k => Pattern!DaysBefore[i] < Pattern!DaysBefore[k]
  BY DaysBeforeProperties DEF Months
<1>2. PICK m : m = x.month
  OBVIOUS
<1>3. m \in 1 .. Months /\ m \in 1 .. Months + 1 /\ m + 1 \in 1 .. Months + 1
            /\ Months + 1 \in 1 .. Months + 1
  BY <1>1, <1>2 DEF Stamp
<1>4. \A i \in 1 .. Months + 1 : Pattern!DaysBefore[i] \in Nat
  BY <1>1 DEF Counts
<1>5. Pattern!DaysBefore[m + 1] = Pattern!DaysBefore[m] + DaysOf[m] /\ DaysOf[m] \in Nat \ {0}
  BY <1>1, <1>3 DEF Counts
<1>6. ASSUME NEW k \in 1 .. Months + 1, m < k PROVE Pattern!DaysBefore[m] + DaysOf[m] <= Pattern!DaysBefore[k]
  <2>1. m + 1 = k \/ m + 1 < k
    BY <1>3, <1>6
  <2>2. m + 1 < k => Pattern!DaysBefore[m + 1] < Pattern!DaysBefore[k]
    BY <1>1, <1>3
  <2> QED
    BY <1>3, <1>4, <1>5, <2>1, <2>2
<1>7. m < Months + 1 /\ 1 .. Months \subseteq 1 .. Months + 1
  BY <1>1, <1>3
<1>8. Pattern!DaysBefore[m] + DaysOf[m] <= Pattern!DaysBefore[Months + 1]
  BY <1>3, <1>6, <1>7
<1> QED
  BY <1>2, <1>3, <1>4, <1>5, <1>6, <1>7, <1>8

\* Later instants have later or equal hours, days, months and years.
LEMMA PartsInOrder ==
  ASSUME NEW x \in Pattern!Instants, NEW y \in Pattern!Instants, Pattern!Ordinal(x) <= Pattern!Ordinal(y)
  PROVE  /\ HourNumber(x) <= HourNumber(y)
         /\ DayNumber(x) <= DayNumber(y)
         /\ MonthStart(x) <= MonthStart(y)
         /\ x.year <= y.year
<1>1. /\ Stamp(x) /\ 1 <= x.day /\ x.day <= DaysOf[x.month] /\ x.hour <= HoursOf - 1
               /\ x.minute <= MinutesOf - 1
      /\ Stamp(y) /\ 1 <= y.day /\ y.day <= DaysOf[y.month] /\ y.hour <= HoursOf - 1
               /\ y.minute <= MinutesOf - 1
  BY InstantProperties
<1>2. /\ MonthStart(x) \in Nat /\ DayNumber(x) \in Nat /\ HourNumber(x) \in Nat
      /\ MonthStart(y) \in Nat /\ DayNumber(y) \in Nat /\ HourNumber(y) \in Nat
      /\ Pattern!Ordinal(x) = HourNumber(x) * MinutesOf + x.minute
      /\ Pattern!Ordinal(y) = HourNumber(y) * MinutesOf + y.minute
  BY <1>1, StampNumbers
<1>3. HoursOf \in Nat \ {0} /\ MinutesOf \in Nat \ {0}
  BY FileNamesAssumption DEF Pattern!PathPatternAssumption
<1>4. /\ x.year \in Nat /\ x.day \in Nat /\ x.hour \in Nat /\ x.minute \in Nat
      /\ y.year \in Nat /\ y.day \in Nat /\ y.hour \in Nat /\ y.minute \in Nat
      /\ x.month \in 1 .. Months /\ y.month \in 1 .. Months /\ Months \in Nat
  BY <1>1, DaysBeforeProperties DEF Stamp, Months
<1>5. \A a, b \in Nat : a * b \in Nat /\ a * b = b * a
  OBVIOUS
<1>6. HourNumber(x) <= HourNumber(y)
  <2>1. x.minute + MinutesOf * HourNumber(x) <= y.minute + MinutesOf * HourNumber(y)
    <3>1. PICK p : p = HourNumber(x) * MinutesOf
      OBVIOUS
    <3>2. PICK q : q = HourNumber(y) * MinutesOf
      OBVIOUS
    <3>3. p \in Nat /\ q \in Nat /\ p = MinutesOf * HourNumber(x) /\ q = MinutesOf * HourNumber(y)
      BY <1>2, <1>3, <1>5, <3>1, <3>2
    <3>4. p + x.minute <= q + y.minute
      BY <1>2, <3>1, <3>2
    <3> QED
      BY <1>4, <3>3, <3>4
  <2>2. y.minute < MinutesOf
    BY <1>1, <1>3, <1>4
  <2> QED
    BY <1>2, <1>3, <1>4, <2>1, <2>2, Digit
<1>7. DayNumber(x) <= DayNumber(y)
  <2>1. x.hour + HoursOf * DayNumber(x) <= y.hour + HoursOf * DayNumber(y)
    <3>1. PICK p : p = DayNumber(x) * HoursOf
      OBVIOUS
    <3>2. PICK q : q = DayNumber(y) * HoursOf
      OBVIOUS
    <3>3. p \in Nat /\ q \in Nat /\ p = HoursOf * DayNumber(x) /\ q = HoursOf * DayNumber(y)
      BY <1>2, <1>3, <1>5, <3>1, <3>2
    <3>4. p + x.hour <= q + y.hour
      BY <1>6, <3>1, <3>2 DEF HourNumber
    <3> QED
      BY <1>4, <3>3, <3>4
  <2>2. y.hour < HoursOf
    BY <1>1, <1>3, <1>4
  <2> QED
    BY <1>2, <1>3, <1>4, <2>1, <2>2, Digit
<1> DEFINE days == Pattern!DaysBefore[Months + 1]
<1>8. /\ Pattern!DaysBefore[x.month] \in Nat /\ Pattern!DaysBefore[y.month] \in Nat /\ days \in Nat
      /\ DaysOf[x.month] \in Nat /\ DaysOf[y.month] \in Nat
      /\ Pattern!DaysBefore[x.month] + DaysOf[x.month] <= days
               /\ Pattern!DaysBefore[y.month] + DaysOf[y.month] <= days
      /\ Pattern!DaysBefore[x.month] < days /\ Pattern!DaysBefore[y.month] < days
      /\ y.month < x.month => Pattern!DaysBefore[y.month] + DaysOf[y.month] <= Pattern!DaysBefore[x.month]
  BY <1>1, <1>4, MonthBounds
<1>9. MonthStart(x) = x.year * days + Pattern!DaysBefore[x.month]
            /\ MonthStart(y) = y.year * days + Pattern!DaysBefore[y.month]
  BY DEF MonthStart
<1>10. DayNumber(x) = MonthStart(x) + x.day /\ DayNumber(y) = MonthStart(y) + y.day
  BY DEF DayNumber
<1> HIDE DEF days
<1>11. PICK p : p = x.year * days
  OBVIOUS
<1>12. PICK q : q = y.year * days
  OBVIOUS
<1>13. p \in Nat /\ q \in Nat /\ p = days * x.year /\ q = days * y.year
  BY <1>4, <1>5, <1>8, <1>11, <1>12
<1>14. x.year <= y.year
  <2>1. p + Pattern!DaysBefore[x.month] + x.day <= q + Pattern!DaysBefore[y.month] + y.day
    BY <1>7, <1>9, <1>10, <1>11, <1>12
  <2>2. p + Pattern!DaysBefore[x.month] + 1 <= q + days
    BY <1>1, <1>4, <1>8, <1>13, <2>1
  <2>3. Pattern!DaysBefore[x.month] + days * x.year <= (days - 1) + days * y.year
    BY <1>8, <1>13, <2>2
  <2>4. days \in Nat \ {0} /\ days - 1 \in Nat /\ days - 1 < days
    BY <1>8
  <2> QED
    BY <1>4, <1>8, <2>3, <2>4, Digit
<1>15. MonthStart(x) <= MonthStart(y)
  <2>1. x.year = y.year => p = q
    BY <1>11, <1>12
  <2>2. x.year # y.year => p + days <= q
    <3> SUFFICES ASSUME x.year # y.year PROVE p + days <= q
      OBVIOUS
    <3>1. x.year + 1 \in Nat /\ x.year + 1 <= y.year
      BY <1>4, <1>14
    <3>2. (x.year + 1) * days + 0 <= y.year * days + 0
      BY <1>4, <1>8, <3>1, Scaled
    <3>3. (x.year + 1) * days = x.year * days + days
      BY <1>4, <1>8
    <3> QED
      BY <1>8, <1>11, <1>12, <1>13, <3>2, <3>3
  <2>3. CASE x.year # y.year
    BY <1>8, <1>9, <1>11, <1>12, <1>13, <2>2, <2>3
  <2>4. CASE x.year = y.year
    <3>1. Pattern!DaysBefore[x.month] + x.day <= Pattern!DaysBefore[y.month] + y.day
      BY <1>4, <1>7, <1>8, <1>9, <1>10, <1>11, <1>12, <1>13, <2>1, <2>4
    <3>2. ~(y.month < x.month)
      BY <1>1, <1>4, <1>8, <3>1
    <3>3. x.month = y.month \/ x.month < y.month
      BY <1>4, <3>2
    <3>4. x.month < y.month => Pattern!DaysBefore[x.month] + DaysOf[x.month] <= Pattern!DaysBefore[y.month]
      BY <1>1, <1>4, MonthBounds
    <3>5. Pattern!DaysBefore[x.month] <= Pattern!DaysBefore[y.month]
      BY <1>8, <3>3, <3>4
    <3> QED
      BY <1>8, <1>9, <1>11, <1>12, <1>13, <2>1, <2>4, <3>5
  <2> QED
    BY <2>3, <2>4
<1> QED
  BY <1>6, <1>7, <1>14, <1>15

\* What is at least as late in its greater parts, and in each of the others, is at least as late.
LEMMA LaterInParts ==
  ASSUME NEW x, NEW y, Stamp(x), Stamp(y)
  PROVE  /\ x.year <= y.year /\ x.month <= y.month => MonthStart(x) <= MonthStart(y)
         /\ MonthStart(x) <= MonthStart(y) /\ x.day <= y.day => DayNumber(x) <= DayNumber(y)
         /\ DayNumber(x) <= DayNumber(y) /\ x.hour <= y.hour => HourNumber(x) <= HourNumber(y)
         /\ HourNumber(x) <= HourNumber(y) /\ x.minute <= y.minute
                  => Pattern!Ordinal(x) <= Pattern!Ordinal(y)
<1>1. /\ MonthStart(x) \in Nat /\ DayNumber(x) \in Nat /\ HourNumber(x) \in Nat
      /\ MonthStart(y) \in Nat /\ DayNumber(y) \in Nat /\ HourNumber(y) \in Nat
      /\ Pattern!Ordinal(x) = HourNumber(x) * MinutesOf + x.minute
      /\ Pattern!Ordinal(y) = HourNumber(y) * MinutesOf + y.minute
  BY StampNumbers
<1>2. HoursOf \in Nat /\ MinutesOf \in Nat
  BY FileNamesAssumption DEF Pattern!PathPatternAssumption
<1>3. /\ x.year \in Nat /\ x.day \in Nat /\ x.hour \in Nat /\ x.minute \in Nat
      /\ y.year \in Nat /\ y.day \in Nat /\ y.hour \in Nat /\ y.minute \in Nat
      /\ x.month \in 1 .. Months /\ y.month \in 1 .. Months /\ Months \in Nat
  BY DaysBeforeProperties DEF Stamp, Months
<1>4. /\ Pattern!DaysBefore[x.month] \in Nat /\ Pattern!DaysBefore[y.month] \in Nat
               /\ Pattern!DaysBefore[Months + 1] \in Nat
      /\ DaysOf[x.month] \in Nat
      /\ x.month < y.month => Pattern!DaysBefore[x.month] + DaysOf[x.month] <= Pattern!DaysBefore[y.month]
  BY <1>3, MonthBounds
<1>5. ASSUME x.year <= y.year, x.month <= y.month PROVE MonthStart(x) <= MonthStart(y)
  <2>1. Pattern!DaysBefore[x.month] <= Pattern!DaysBefore[y.month]
    BY <1>3, <1>4, <1>5
  <2> QED
    BY <1>3, <1>4, <1>5, <2>1, Scaled DEF MonthStart
<1>6. ASSUME MonthStart(x) <= MonthStart(y), x.day <= y.day PROVE DayNumber(x) <= DayNumber(y)
  BY <1>1, <1>3, <1>6 DEF DayNumber
<1>7. ASSUME DayNumber(x) <= DayNumber(y), x.hour <= y.hour PROVE HourNumber(x) <= HourNumber(y)
  BY <1>1, <1>2, <1>3, <1>7, Scaled DEF HourNumber
<1>8. ASSUME HourNumber(x) <= HourNumber(y), x.minute <= y.minute PROVE Pattern!Ordinal(x) <= Pattern!Ordinal(y)
  BY <1>1, <1>2, <1>3, <1>8, Scaled
<1> QED
  BY <1>5, <1>6, <1>7, <1>8

-----------------------------------------------------------------------------
(* Names, and what they say of a time.                                      *)

\* The five units, one by one.
LEMMA UnitsAre ==
  /\ DOMAIN Pattern!Units = 1 .. 5
  /\ Pattern!Units[1] = "year" /\ Pattern!Units[2] = "month" /\ Pattern!Units[3] = "day"
           /\ Pattern!Units[4] = "hour" /\ Pattern!Units[5] = "minute"
  /\ Pattern!ToSet(Pattern!Units) = {"year", "month", "day", "hour", "minute"}
  /\ \A i, k \in 1 .. 5 : i # k => Pattern!Units[i] # Pattern!Units[k]
<1>1. /\ DOMAIN Pattern!Units = 1 .. 5
      /\ Pattern!Units[1] = "year" /\ Pattern!Units[2] = "month" /\ Pattern!Units[3] = "day"
               /\ Pattern!Units[4] = "hour" /\ Pattern!Units[5] = "minute"
  BY DEF Pattern!Units
<1>2. \A i : i \in 1 .. 5 <=> i \in {1, 2, 3, 4, 5}
  OBVIOUS
<1>3. Pattern!ToSet(Pattern!Units) = {Pattern!Units[i] : i \in {1, 2, 3, 4, 5}}
  BY <1>1, <1>2 DEF Pattern!ToSet
<1>4. Pattern!ToSet(Pattern!Units) = {"year", "month", "day", "hour", "minute"}
  BY <1>1, <1>3
<1>5. \A i, k \in 1 .. 5 : i # k => Pattern!Units[i] # Pattern!Units[k]
  BY <1>1, <1>2
<1> QED
  BY <1>1, <1>4, <1>5

\* Every fragment stands for one of them.
LEMMA FragmentsAre ==
  /\ Pattern!Fragments = {"Y", "y", "m", "d", "H", "M"}
  /\ Pattern!UnitOf["Y"] = "year" /\ Pattern!UnitOf["y"] = "year" /\ Pattern!UnitOf["m"] = "month"
  /\ Pattern!UnitOf["d"] = "day" /\ Pattern!UnitOf["H"] = "hour" /\ Pattern!UnitOf["M"] = "minute"
  /\ \A letter \in Pattern!Fragments : Pattern!UnitOf[letter] \in Pattern!ToSet(Pattern!Units)
BY UnitsAre DEF Pattern!Fragments, Pattern!UnitOf

\* A non-empty set of numbers has a least element, which Min is.
LEMMA MinProperties ==
  ASSUME NEW S \in SUBSET Nat, S # {}
  PROVE  Pattern!Min(S) \in S /\ \A y \in S : Pattern!Min(S) <= y
<1>1. PICK x \in S : \A y \in S : x <= y
  BY LeastElement
<1> QED
  BY <1>1 DEF Pattern!Min

\* The parts of an instant are numbers in their range.
LEMMA PartsInRange ==
  ASSUME NEW t \in Pattern!Instants, NEW u \in Pattern!ToSet(Pattern!Units)
  PROVE  t[u] \in Nat /\ Pattern!Lowest[u] \in Nat /\ Pattern!Highest[u] \in Nat
               /\ Pattern!Lowest[u] <= t[u] /\ t[u] <= Pattern!Highest[u]
<1>1. /\ Stamp(t) /\ t.year \in 2000 .. 2099
      /\ 1 <= t.day /\ t.day <= DaysOf[t.month]
      /\ t.hour <= HoursOf - 1 /\ t.minute <= MinutesOf - 1
  BY InstantProperties
<1>2. HoursOf \in Nat \ {0} /\ MinutesOf \in Nat \ {0} /\ Months \in Nat
  BY FileNamesAssumption, DaysBeforeProperties DEF Pattern!PathPatternAssumption, Months
<1>3. /\ Pattern!Highest.year = 9999 /\ Pattern!Highest.month = Months
               /\ Pattern!Highest.hour = HoursOf - 1 /\ Pattern!Highest.minute = MinutesOf - 1
      /\ Pattern!Lowest.year = 0 /\ Pattern!Lowest.month = 1 /\ Pattern!Lowest.day = 1
               /\ Pattern!Lowest.hour = 0 /\ Pattern!Lowest.minute = 0
  BY DEF Pattern!Highest, Pattern!Lowest, Months
<1>4. /\ DaysOf[t.month] \in Nat /\ Pattern!Highest.day \in Nat /\ DaysOf[t.month] <= Pattern!Highest.day
      /\ t.month \in 1 .. Months /\ t.day \in Nat /\ t.hour \in Nat /\ t.minute \in Nat
  BY <1>1, MonthBounds, LongestMonth DEF Stamp
<1>5. u \in {"year", "month", "day", "hour", "minute"}
  BY UnitsAre
<1>6. CASE u = "year"
  BY <1>1, <1>3, <1>6
<1>7. CASE u = "month"
  BY <1>2, <1>3, <1>4, <1>7
<1>8. CASE u = "day"
  BY <1>1, <1>3, <1>4, <1>8
<1>9. CASE u = "hour"
  BY <1>1, <1>2, <1>3, <1>4, <1>9
<1>10. CASE u = "minute"
  BY <1>1, <1>2, <1>3, <1>4, <1>10
<1> QED
  BY <1>5, <1>6, <1>7, <1>8, <1>9, <1>10

\* What a name is made of is read back from it (Build and parseTimePattern).
LEMMA BuiltNameIsRead ==
  ASSUME fragments \in Seq(Pattern!Fragments), NEW t \in Pattern!Instants, NEW name, name = Pattern!Build(t)
  PROVE  /\ DOMAIN name = DOMAIN fragments /\ Len(name) = Len(fragments)
         /\ \A i \in DOMAIN fragments :
              name[i] \in Nat /\ Pattern!ValueOf(fragments[i], name[i]) = t[Pattern!UnitOf[fragments[i]]]
         /\ Pattern!Parses(name)
         /\ \A u \in Pattern!ToSet(Pattern!Units) : Pattern!ParseTimePattern(name)[u] = IF u \in Pattern!Parts THEN t[u] ELSE Pattern!Absent
<1>1. PICK n : n = Len(fragments)
  OBVIOUS
<1>2. n \in Nat /\ DOMAIN fragments = 1 .. n /\ \A i \in 1 .. n : fragments[i] \in Pattern!Fragments
  BY <1>1, LenProperties, ElementOfSeq
<1>3. name = [i \in 1 .. n |-> Pattern!BuildFragment(fragments[i], t)]
  BY <1>2 DEF Pattern!Build
<1>4. DOMAIN name = 1 .. n /\ \A i \in 1 .. n : name[i] = Pattern!BuildFragment(fragments[i], t)
  BY <1>3
<1>5. ASSUME NEW i \in 1 .. n
      PROVE  /\ Pattern!UnitOf[fragments[i]] \in Pattern!ToSet(Pattern!Units)
             /\ name[i] \in Nat
             /\ Pattern!ValueOf(fragments[i], name[i]) = t[Pattern!UnitOf[fragments[i]]]
  <2>1. fragments[i] \in Pattern!Fragments /\ Pattern!UnitOf[fragments[i]] \in Pattern!ToSet(Pattern!Units)
    BY <1>2, FragmentsAre
  <2>2. CASE fragments[i] = "y"
    <3>1. name[i] = t.year % 100
      BY <1>4, <2>2 DEF Pattern!BuildFragment
    <3>2. Pattern!UnitOf[fragments[i]] = "year"
      BY <2>2, FragmentsAre
    <3>3. t.year \in 2000 .. 2099
      BY InstantProperties
    <3>4. PICK y \in 2000 .. 2099 : t.year = y
      BY <3>3
    <3>5. y = 20 * 100 + (y - 2000) /\ 0 <= y - 2000 /\ y - 2000 < 100
      BY <3>4
    <3>6. y % 100 = y - 2000
      BY <3>5
    <3>7. t.year % 100 \in Nat /\ (t.year % 100) + 2000 = t.year
      BY <3>4, <3>5, <3>6
    <3> QED
      BY <2>1, <2>2, <3>1, <3>2, <3>7 DEF Pattern!ValueOf
  <2>3. CASE fragments[i] # "y"
    <3>1. name[i] = t[Pattern!UnitOf[fragments[i]]]
      BY <1>4, <2>3 DEF Pattern!BuildFragment
    <3>2. t[Pattern!UnitOf[fragments[i]]] \in Nat
      BY <2>1, PartsInRange
    <3> QED
      BY <2>1, <2>3, <3>1, <3>2 DEF Pattern!ValueOf
  <2> QED
    BY <2>2, <2>3
<1> DEFINE Places(u) == {i \in DOMAIN fragments : Pattern!UnitOf[fragments[i]] = u}
<1>6. ASSUME NEW u
      PROVE  /\ u \in Pattern!Parts <=> Places(u) # {}
             /\ Places(u) # {} => Pattern!ValueOf(fragments[Pattern!Min(Places(u))], name[Pattern!Min(Places(u))]) = t[u]
  <2>1. Places(u) \in SUBSET Nat
    BY <1>2
  <2>2. u \in Pattern!Parts <=> Places(u) # {}
    BY DEF Pattern!Parts
  <2>3. Places(u) # {} => Pattern!Min(Places(u)) \in Places(u)
    BY <2>1, MinProperties
  <2>4. \A i \in Places(u) : i \in 1 .. n /\ Pattern!UnitOf[fragments[i]] = u
    BY <1>2
  <2> HIDE DEF Places
  <2>5. Places(u) # {} => Pattern!ValueOf(fragments[Pattern!Min(Places(u))], name[Pattern!Min(Places(u))]) = t[u]
    BY <1>5, <2>3, <2>4
  <2> QED
    BY <2>2, <2>5
<1>7. ASSUME NEW u \in Pattern!ToSet(Pattern!Units)
      PROVE  Pattern!ParseTimePattern(name)[u] = IF u \in Pattern!Parts THEN t[u] ELSE Pattern!Absent
  <2>1. Pattern!ParseTimePattern(name)[u] =
          IF Places(u) = {} THEN Pattern!Absent
                ELSE Pattern!ValueOf(fragments[Pattern!Min(Places(u))], name[Pattern!Min(Places(u))])
    BY DEF Pattern!ParseTimePattern
  <2> HIDE DEF Places
  <2> QED
    BY <1>6, <2>1
<1>8. Len(name) = n
  <2>1. name \in [1 .. n -> Nat]
    BY <1>3, <1>4, <1>5
  <2>2. name \in Seq(Nat)
    BY <1>2, <2>1, SeqDef
  <2>3. Len(name) \in Nat /\ DOMAIN name = 1 .. Len(name)
    BY <2>2, LenProperties
  <2> QED
    BY <1>2, <1>4, <2>3
<1>9. ASSUME NEW i \in DOMAIN name
      PROVE  LET v == Pattern!ValueOf(fragments[i], name[i]) u == Pattern!UnitOf[fragments[i]]
             IN  Pattern!Lowest[u] <= v /\ v <= Pattern!Highest[u] /\ v = Pattern!ParseTimePattern(name)[u]
  <2>1. PICK u : u = Pattern!UnitOf[fragments[i]]
    OBVIOUS
  <2>2. i \in 1 .. n /\ u \in Pattern!ToSet(Pattern!Units) /\ Pattern!ValueOf(fragments[i], name[i]) = t[u]
    BY <1>4, <1>5, <2>1
  <2>3. u \in Pattern!Parts
    BY <1>2, <2>1, <2>2 DEF Pattern!Parts
  <2>4. Pattern!ParseTimePattern(name)[u] = t[u]
    BY <1>7, <2>2, <2>3
  <2> QED
    BY <2>1, <2>2, <2>4, PartsInRange
<1>10. Pattern!Parses(name)
  BY <1>1, <1>8, <1>9 DEF Pattern!Parses
<1> QED
  BY <1>1, <1>2, <1>4, <1>5, <1>7, <1>8, <1>10

\* The value of each part of the time that Exec makes of a name.
LEMMA ExecutedPart ==
  ASSUME fragments \in Seq(Pattern!Fragments), NEW t \in Pattern!Instants, NEW z, NEW base, NEW e,
         e = Pattern!Exec(Pattern!ParseTimePattern(Pattern!Build(t)), z, base),
         NEW j \in 1 .. 5
  PROVE  e[Pattern!Units[j]] = IF Pattern!Units[j] \in Pattern!Parts THEN t[Pattern!Units[j]]
                       ELSE IF \E k \in 1 .. 5 : j < k /\ Pattern!Units[k] \in Pattern!Parts
                             THEN z[Pattern!Units[j]]
                       ELSE base[Pattern!Units[j]]
<1> DEFINE tp == Pattern!ParseTimePattern(Pattern!Build(t))
           smaller(u) == {Pattern!Units[k] : k \in {k \in DOMAIN Pattern!Units : \E i \in 1 .. k - 1 : Pattern!Units[i] = u}}
<1>1. ASSUME NEW k \in 1 .. 5
      PROVE  Pattern!Units[k] \in Pattern!ToSet(Pattern!Units)
                   /\ (tp[Pattern!Units[k]] # Pattern!Absent <=> Pattern!Units[k] \in Pattern!Parts)
             /\ (Pattern!Units[k] \in Pattern!Parts => tp[Pattern!Units[k]] = t[Pattern!Units[k]])
  <2>1. Pattern!Units[k] \in Pattern!ToSet(Pattern!Units)
    BY UnitsAre DEF Pattern!ToSet
  <2>2. tp[Pattern!Units[k]] = IF Pattern!Units[k] \in Pattern!Parts THEN t[Pattern!Units[k]]
              ELSE Pattern!Absent
    BY <2>1, BuiltNameIsRead
  <2>3. t[Pattern!Units[k]] \in Nat
    BY <2>1, PartsInRange
  <2>4. t[Pattern!Units[k]] # Pattern!Absent
    BY <2>3 DEF Pattern!Absent
  <2> HIDE DEF tp
  <2> QED
    BY <2>1, <2>2, <2>4
<1>2. DOMAIN tp = Pattern!ToSet(Pattern!Units)
  BY DEF Pattern!ParseTimePattern
<1>3. e[Pattern!Units[j]] = IF tp[Pattern!Units[j]] # Pattern!Absent THEN tp[Pattern!Units[j]]
                    ELSE IF \E s \in smaller(Pattern!Units[j]) : tp[s] # Pattern!Absent
                          THEN z[Pattern!Units[j]]
                    ELSE base[Pattern!Units[j]]
  <2>1. Pattern!Units[j] \in DOMAIN tp
    BY <1>1, <1>2
  <2> HIDE DEF tp
  <2>2. e = Pattern!Exec(tp, z, base)
    BY DEF tp
  <2> QED
    BY <2>1, <2>2 DEF Pattern!Exec
<1> HIDE DEF tp
<1>4. \A k \in 1 .. 5 : Pattern!Units[k] \in smaller(Pattern!Units[j]) <=> j < k
  <2>1. ASSUME NEW k \in 1 .. 5, j < k PROVE Pattern!Units[k] \in smaller(Pattern!Units[j])
    <3>1. j \in 1 .. k - 1
      BY <2>1
    <3> QED
      BY <3>1, UnitsAre
  <2>2. ASSUME NEW k \in 1 .. 5, Pattern!Units[k] \in smaller(Pattern!Units[j]) PROVE j < k
    <3>1. PICK m \in 1 .. 5 : Pattern!Units[m] = Pattern!Units[k]
                     /\ \E i \in 1 .. m - 1 : Pattern!Units[i] = Pattern!Units[j]
      BY <2>2, UnitsAre
    <3>2. m = k
      BY <3>1, UnitsAre
    <3>3. PICK i \in 1 .. m - 1 : Pattern!Units[i] = Pattern!Units[j]
      BY <3>1
    <3>4. i \in 1 .. 5 /\ i < k
      BY <3>2, <3>3
    <3>5. i = j
      BY <3>3, <3>4, UnitsAre
    <3> QED
      BY <3>4, <3>5
  <2> QED
    BY <2>1, <2>2
<1>5. \A s \in smaller(Pattern!Units[j]) : \E k \in 1 .. 5 : s = Pattern!Units[k]
  BY UnitsAre
<1> HIDE DEF smaller
<1>6. (\E s \in smaller(Pattern!Units[j]) : tp[s] # Pattern!Absent) <=> \E k \in 1 .. 5 : j < k
            /\ Pattern!Units[k] \in Pattern!Parts
  BY <1>1, <1>4, <1>5
<1> QED
  BY <1>1, <1>3, <1>6

\* The greater parts are those of the end of the period, the others those of the record or
\* the extreme ones.
LEMMA ExecutedParts ==
  ASSUME fragments \in Seq(Pattern!Fragments), Pattern!WithoutGap, NEW t \in Pattern!Instants, NEW z,
         NEW base, NEW e,
         e = Pattern!Exec(Pattern!ParseTimePattern(Pattern!Build(t)), z, base)
  PROVE  \E i \in 1 .. 5 :
           /\ \A k \in 1 .. 5 : k < i => e[Pattern!Units[k]] = z[Pattern!Units[k]]
           /\ \A k \in 1 .. 5 : i <= k => e[Pattern!Units[k]] = t[Pattern!Units[k]]
                    \/ e[Pattern!Units[k]] = base[Pattern!Units[k]]
<1> DEFINE present == {k \in 1 .. 5 : Pattern!Units[k] \in Pattern!Parts}
           partAt(k) == e[Pattern!Units[k]]
<1>1. \A j \in 1 .. 5 : partAt(j) = IF j \in present THEN t[Pattern!Units[j]]
                                  ELSE IF \E k \in present : j < k THEN z[Pattern!Units[j]]
                                  ELSE base[Pattern!Units[j]]
  BY ExecutedPart
<1>2. \A i, j, k \in 1 .. 5 : i < j /\ j < k /\ i \in present /\ k \in present => j \in present
  BY UnitsAre DEF Pattern!WithoutGap
<1>3. present \subseteq 1 .. 5 /\ present \in SUBSET Nat
  OBVIOUS
<1> SUFFICES \E i \in 1 .. 5 : /\ \A k \in 1 .. 5 : k < i => partAt(k) = z[Pattern!Units[k]]
                               /\ \A k \in 1 .. 5 : i <= k => partAt(k) = t[Pattern!Units[k]]
                                        \/ partAt(k) = base[Pattern!Units[k]]
  OBVIOUS
<1> HIDE DEF present, partAt
<1>4. CASE present = {}
  <2>1. \A k \in 1 .. 5 : partAt(k) = base[Pattern!Units[k]] /\ ~(k < 1)
    BY <1>1, <1>4
  <2> QED
    BY <2>1
<1>5. CASE present # {}
  <2>1. PICK i \in present : \A k \in present : i <= k
    BY <1>3, <1>5, LeastElement
  <2>2. i \in 1 .. 5
    BY <1>3
  <2>3. ASSUME NEW k \in 1 .. 5, k < i PROVE partAt(k) = z[Pattern!Units[k]]
    <3>1. k \notin present
      BY <2>1, <2>2, <2>3
    <3> QED
      BY <1>1, <2>3, <3>1
  <2>4. ASSUME NEW k \in 1 .. 5, i <= k PROVE partAt(k) = t[Pattern!Units[k]]
                     \/ partAt(k) = base[Pattern!Units[k]]
    <3>1. CASE k \in present
      BY <1>1, <3>1
    <3>2. CASE k \notin present
      <4>1. i < k
        BY <2>2, <2>4, <3>2
      <4>2. ~\E l \in present : k < l
        BY <1>2, <1>3, <2>2, <3>2, <4>1
      <4> QED
        BY <1>1, <3>2, <4>2
    <3> QED
      BY <3>1, <3>2
  <2> QED
    BY <2>2, <2>3, <2>4
<1> QED
  BY <1>4, <1>5

\* What is at least as late as x: later in the parts before the i-th as an instant z that is
\* no earlier, and in each of the others (for i in the middle of the parts).
LEMMA NoEarlier ==
  ASSUME NEW x, NEW y, Stamp(x), Stamp(y), NEW i \in 1 .. 5,
         i > 1 => x.year <= y.year,
         i > 2 => MonthStart(x) <= MonthStart(y),
         i > 3 => DayNumber(x) <= DayNumber(y),
         i > 4 => HourNumber(x) <= HourNumber(y),
         \A k \in 1 .. 5 : i <= k => x[Pattern!Units[k]] <= y[Pattern!Units[k]]
  PROVE  Pattern!Ordinal(x) <= Pattern!Ordinal(y)
<1>1. /\ i <= 1 => x.year <= y.year
      /\ i <= 2 => x.month <= y.month
      /\ i <= 3 => x.day <= y.day
      /\ i <= 4 => x.hour <= y.hour
      /\ x.minute <= y.minute
  BY UnitsAre
<1>2. /\ x.year <= y.year /\ x.month <= y.month => MonthStart(x) <= MonthStart(y)
      /\ MonthStart(x) <= MonthStart(y) /\ x.day <= y.day => DayNumber(x) <= DayNumber(y)
      /\ DayNumber(x) <= DayNumber(y) /\ x.hour <= y.hour => HourNumber(x) <= HourNumber(y)
      /\ HourNumber(x) <= HourNumber(y) /\ x.minute <= y.minute => Pattern!Ordinal(x) <= Pattern!Ordinal(y)
  BY LaterInParts
<1>3. i = 1 \/ i = 2 \/ i = 3 \/ i = 4 \/ i = 5
  OBVIOUS
<1>4. CASE i = 1
  BY <1>1, <1>2, <1>4
<1>5. CASE i = 2
  BY <1>1, <1>2, <1>5
<1>6. CASE i = 3
  BY <1>1, <1>2, <1>6
<1>7. CASE i = 4
  BY <1>1, <1>2, <1>7
<1>8. CASE i = 5
  BY <1>1, <1>2, <1>8
<1> QED
  BY <1>3, <1>4, <1>5, <1>6, <1>7, <1>8

\* The numbers of the greater parts depend on these parts only.
LEMMA SameGreaterParts ==
  ASSUME NEW y, NEW z, NEW i \in 1 .. 5, \A k \in 1 .. 5 : k < i
               => y[Pattern!Units[k]] = z[Pattern!Units[k]]
  PROVE  /\ i > 1 => y.year = z.year
         /\ i > 2 => MonthStart(y) = MonthStart(z)
         /\ i > 3 => DayNumber(y) = DayNumber(z)
         /\ i > 4 => HourNumber(y) = HourNumber(z)
<1>1. /\ i > 1 => y.year = z.year
      /\ i > 2 => y.month = z.month
      /\ i > 3 => y.day = z.day
      /\ i > 4 => y.hour = z.hour
  BY UnitsAre
<1>2. i > 2 => i > 1
  OBVIOUS
<1>3. i > 3 => i > 2
  OBVIOUS
<1>4. i > 4 => i > 3
  OBVIOUS
<1>5. i > 2 => MonthStart(y) = MonthStart(z)
  BY <1>1, <1>2 DEF MonthStart
<1>6. i > 3 => DayNumber(y) = DayNumber(z)
  BY <1>1, <1>3, <1>5 DEF DayNumber
<1>7. i > 4 => HourNumber(y) = HourNumber(z)
  BY <1>1, <1>4, <1>6 DEF HourNumber
<1> QED
  BY <1>1, <1>5, <1>6, <1>7

\* What Exec returns has parts that are parts of instants or the extreme ones.
LEMMA ExecutedIsStamp ==
  ASSUME NEW e, NEW t \in Pattern!Instants, NEW z \in Pattern!Instants,
         NEW base, base \in {Pattern!Lowest, Pattern!Highest},
         \A k \in 1 .. 5 : e[Pattern!Units[k]] \in {t[Pattern!Units[k]], z[Pattern!Units[k]], base[Pattern!Units[k]]}
  PROVE  Stamp(e)
<1>1. Stamp(t) /\ Stamp(z)
  BY InstantProperties
<1>2. Stamp(base)
  <2>1. HoursOf \in Nat \ {0} /\ MinutesOf \in Nat \ {0} /\ Months \in Nat \ {0}
    BY FileNamesAssumption, DaysBeforeProperties DEF Pattern!PathPatternAssumption, Months
  <2>2. /\ Pattern!Highest.year = 9999 /\ Pattern!Highest.month = Months
                 /\ Pattern!Highest.hour = HoursOf - 1 /\ Pattern!Highest.minute = MinutesOf - 1
        /\ Pattern!Lowest.year = 0 /\ Pattern!Lowest.month = 1 /\ Pattern!Lowest.day = 1
                 /\ Pattern!Lowest.hour = 0 /\ Pattern!Lowest.minute = 0
    BY DEF Pattern!Highest, Pattern!Lowest, Months
  <2>3. Pattern!Highest.day \in Nat
    BY LongestMonth
  <2>4. Stamp(Pattern!Highest)
    BY <2>1, <2>2, <2>3 DEF Stamp
  <2>5. Stamp(Pattern!Lowest)
    BY <2>1, <2>2 DEF Stamp
  <2> QED
    BY <2>4, <2>5
<1>3. /\ e.year \in {t.year, z.year, base.year}
      /\ e.month \in {t.month, z.month, base.month}
      /\ e.day \in {t.day, z.day, base.day}
      /\ e.hour \in {t.hour, z.hour, base.hour}
      /\ e.minute \in {t.minute, z.minute, base.minute}
  <2>1. 1 \in 1 .. 5 /\ 2 \in 1 .. 5 /\ 3 \in 1 .. 5 /\ 4 \in 1 .. 5 /\ 5 \in 1 .. 5
    OBVIOUS
  <2> QED
    BY <2>1, UnitsAre
<1> QED
  BY <1>1, <1>2, <1>3 DEF Stamp

\* The file of a record is among those of any period the record is in.
LEMMA FileIsFound ==
  ASSUME fragments \in Seq(Pattern!Fragments), Pattern!WithoutGap,
         NEW t \in Pattern!Instants, NEW since \in Pattern!Instants, NEW until \in Pattern!Instants,
         Pattern!Ordinal(since) <= Pattern!Ordinal(t), Pattern!Ordinal(t) <= Pattern!Ordinal(until)
  PROVE  Pattern!Match(Pattern!Build(t), since, until)
<1> DEFINE tp == Pattern!ParseTimePattern(Pattern!Build(t))
<1>1. Stamp(t) /\ Stamp(since) /\ Stamp(until)
  BY InstantProperties
<1>2. Pattern!Ordinal(since) \in Nat /\ Pattern!Ordinal(t) \in Nat /\ Pattern!Ordinal(until) \in Nat
  BY <1>1, StampNumbers
<1>3. ASSUME NEW k \in 1 .. 5
      PROVE  /\ t[Pattern!Units[k]] \in Nat /\ Pattern!Lowest[Pattern!Units[k]] \in Nat
                      /\ Pattern!Highest[Pattern!Units[k]] \in Nat
             /\ Pattern!Lowest[Pattern!Units[k]] <= t[Pattern!Units[k]]
                      /\ t[Pattern!Units[k]] <= Pattern!Highest[Pattern!Units[k]]
  <2>1. Pattern!Units[k] \in Pattern!ToSet(Pattern!Units)
    BY UnitsAre DEF Pattern!ToSet
  <2> QED
    BY <2>1, PartsInRange
<1>4. PICK hi : hi = Pattern!Exec(tp, until, Pattern!Highest)
  OBVIOUS
<1>5. PICK lo : lo = Pattern!Exec(tp, since, Pattern!Lowest)
  OBVIOUS
<1>6. Stamp(hi) /\ Pattern!Ordinal(t) <= Pattern!Ordinal(hi)
  <2>1. PICK i \in 1 .. 5 :
           /\ \A k \in 1 .. 5 : k < i => hi[Pattern!Units[k]] = until[Pattern!Units[k]]
           /\ \A k \in 1 .. 5 : i <= k => hi[Pattern!Units[k]] = t[Pattern!Units[k]]
                    \/ hi[Pattern!Units[k]] = Pattern!Highest[Pattern!Units[k]]
    BY <1>4, ExecutedParts
  <2>2. \A k \in 1 .. 5 : k < i \/ i <= k
    OBVIOUS
  <2>3. \A k \in 1 .. 5 : hi[Pattern!Units[k]] \in {t[Pattern!Units[k]], until[Pattern!Units[k]], Pattern!Highest[Pattern!Units[k]]}
    BY <2>1, <2>2
  <2>4. Stamp(hi)
    BY <2>3, ExecutedIsStamp
  <2>5. ASSUME NEW k \in 1 .. 5, i <= k PROVE t[Pattern!Units[k]] <= hi[Pattern!Units[k]]
    <3>1. CASE hi[Pattern!Units[k]] = t[Pattern!Units[k]]
      <4>1. PICK v : v = t[Pattern!Units[k]]
        OBVIOUS
      <4>2. v \in Nat
        BY <1>3, <4>1
      <4>3. v <= v
        BY <4>2
      <4> QED
        BY <3>1, <4>1, <4>3
    <3>2. CASE hi[Pattern!Units[k]] = Pattern!Highest[Pattern!Units[k]]
      BY <1>3, <3>2
    <3> QED
      BY <2>1, <2>5, <3>1, <3>2
  <2>6. /\ HourNumber(t) <= HourNumber(until) /\ DayNumber(t) <= DayNumber(until)
        /\ MonthStart(t) <= MonthStart(until) /\ t.year <= until.year
    BY PartsInOrder
  <2>7. /\ i > 1 => hi.year = until.year
        /\ i > 2 => MonthStart(hi) = MonthStart(until)
        /\ i > 3 => DayNumber(hi) = DayNumber(until)
        /\ i > 4 => HourNumber(hi) = HourNumber(until)
    BY <2>1, SameGreaterParts
  <2>8. Pattern!Ordinal(t) <= Pattern!Ordinal(hi)
    BY <1>1, <2>4, <2>5, <2>6, <2>7, NoEarlier
  <2> QED
    BY <2>4, <2>8
<1>7. Stamp(lo) /\ Pattern!Ordinal(lo) <= Pattern!Ordinal(t)
  <2>1. PICK i \in 1 .. 5 :
           /\ \A k \in 1 .. 5 : k < i => lo[Pattern!Units[k]] = since[Pattern!Units[k]]
           /\ \A k \in 1 .. 5 : i <= k => lo[Pattern!Units[k]] = t[Pattern!Units[k]]
                    \/ lo[Pattern!Units[k]] = Pattern!Lowest[Pattern!Units[k]]
    BY <1>5, ExecutedParts
  <2>2. \A k \in 1 .. 5 : k < i \/ i <= k
    OBVIOUS
  <2>3. \A k \in 1 .. 5 : lo[Pattern!Units[k]] \in {t[Pattern!Units[k]], since[Pattern!Units[k]], Pattern!Lowest[Pattern!Units[k]]}
    BY <2>1, <2>2
  <2>4. Stamp(lo)
    BY <2>3, ExecutedIsStamp
  <2>5. ASSUME NEW k \in 1 .. 5, i <= k PROVE lo[Pattern!Units[k]] <= t[Pattern!Units[k]]
    <3>1. CASE lo[Pattern!Units[k]] = t[Pattern!Units[k]]
      <4>1. PICK v : v = t[Pattern!Units[k]]
        OBVIOUS
      <4>2. v \in Nat
        BY <1>3, <4>1
      <4>3. v <= v
        BY <4>2
      <4> QED
        BY <3>1, <4>1, <4>3
    <3>2. CASE lo[Pattern!Units[k]] = Pattern!Lowest[Pattern!Units[k]]
      BY <1>3, <3>2
    <3> QED
      BY <2>1, <2>5, <3>1, <3>2
  <2>6. /\ HourNumber(since) <= HourNumber(t) /\ DayNumber(since) <= DayNumber(t)
        /\ MonthStart(since) <= MonthStart(t) /\ since.year <= t.year
    BY PartsInOrder
  <2>7. /\ i > 1 => lo.year = since.year
        /\ i > 2 => MonthStart(lo) = MonthStart(since)
        /\ i > 3 => DayNumber(lo) = DayNumber(since)
        /\ i > 4 => HourNumber(lo) = HourNumber(since)
    BY <2>1, SameGreaterParts
  <2>8. Pattern!Ordinal(lo) <= Pattern!Ordinal(t)
    BY <1>1, <2>4, <2>5, <2>6, <2>7, NoEarlier
  <2> QED
    BY <2>4, <2>8
<1>8. Pattern!Ordinal(hi) \in Nat /\ Pattern!Ordinal(lo) \in Nat
  BY <1>6, <1>7, StampNumbers
<1>9. Pattern!Ordinal(since) <= Pattern!Ordinal(hi) /\ Pattern!Ordinal(lo) <= Pattern!Ordinal(until)
  BY <1>2, <1>6, <1>7, <1>8
<1>10. Pattern!Parses(Pattern!Build(t))
  BY BuiltNameIsRead
<1> QED
  BY <1>4, <1>5, <1>9, <1>10 DEF Pattern!Match

-----------------------------------------------------------------------------
(* The order of names.                                                      *)

\* Any two names of a pattern come one after the other.
LEMMA NamesAreOrdered ==
  ASSUME NEW n \in Nat, NEW a \in [1 .. n -> Nat], NEW b \in [1 .. n -> Nat], a # b
  PROVE  Pattern!SortsBefore(a, b) \/ Pattern!SortsBefore(b, a)
<1> DEFINE differs == {i \in 1 .. n : a[i] # b[i]}
<1>1. differs \in SUBSET Nat /\ differs # {}
  <2>1. a = [i \in 1 .. n |-> a[i]] /\ b = [i \in 1 .. n |-> b[i]]
    OBVIOUS
  <2>2. ASSUME \A i \in 1 .. n : a[i] = b[i] PROVE FALSE
    <3>1. [i \in 1 .. n |-> a[i]] = [i \in 1 .. n |-> b[i]]
      BY <2>2
    <3> QED
      BY <2>1, <3>1
  <2>3. differs # {}
    BY <2>2
  <2>4. differs \in SUBSET Nat
    OBVIOUS
  <2> QED
    BY <2>3, <2>4
<1>2. PICK i \in differs : \A k \in differs : i <= k
  BY <1>1, LeastElement
<1>3. i \in 1 .. n /\ a[i] # b[i] /\ a[i] \in Nat /\ b[i] \in Nat
  OBVIOUS
<1>4. ASSUME NEW k \in 1 .. i - 1 PROVE a[k] = b[k]
  <2>1. k \in 1 .. n /\ ~(i <= k)
    BY <1>3
  <2> QED
    BY <1>2, <2>1
<1>5. a[i] < b[i] \/ b[i] < a[i]
  BY <1>3
<1>6. i \in DOMAIN a /\ i \in DOMAIN b
  BY <1>3
<1> HIDE DEF differs
<1> QED
  BY <1>4, <1>5, <1>6 DEF Pattern!SortsBefore

\* The order is that of the first place where two names differ, so it is transitive.
LEMMA OrderIsTransitive ==
  ASSUME NEW n \in Nat, NEW a \in [1 .. n -> Nat], NEW b \in [1 .. n -> Nat], NEW c \in [1 .. n -> Nat],
         Pattern!SortsBefore(a, b), Pattern!SortsBefore(b, c)
  PROVE  Pattern!SortsBefore(a, c)
<1>1. PICK i \in 1 .. n : a[i] < b[i] /\ \A k \in 1 .. i - 1 : a[k] = b[k]
  BY DEF Pattern!SortsBefore
<1>2. PICK j \in 1 .. n : b[j] < c[j] /\ \A k \in 1 .. j - 1 : b[k] = c[k]
  BY DEF Pattern!SortsBefore
<1>3. \A k \in 1 .. n : a[k] \in Nat /\ b[k] \in Nat /\ c[k] \in Nat
  OBVIOUS
<1>4. CASE i < j
  <2>1. i \in 1 .. j - 1 /\ 1 .. i - 1 \subseteq 1 .. j - 1
    BY <1>4
  <2>2. a[i] < c[i] /\ \A k \in 1 .. i - 1 : a[k] = c[k]
    BY <1>1, <1>2, <2>1
  <2> QED
    BY <2>2 DEF Pattern!SortsBefore
<1>5. CASE i = j
  <2>1. a[i] < c[i]
    BY <1>1, <1>2, <1>3, <1>5
  <2>2. \A k \in 1 .. i - 1 : a[k] = c[k]
    BY <1>1, <1>2, <1>5
  <2> QED
    BY <2>1, <2>2 DEF Pattern!SortsBefore
<1>6. CASE j < i
  <2>1. j \in 1 .. i - 1 /\ 1 .. j - 1 \subseteq 1 .. i - 1
    BY <1>6
  <2>2. a[j] < c[j] /\ \A k \in 1 .. j - 1 : a[k] = c[k]
    BY <1>1, <1>2, <2>1
  <2> QED
    BY <2>2 DEF Pattern!SortsBefore
<1> QED
  BY <1>4, <1>5, <1>6

\* Of finitely many names, one is the last.
LEMMA LastName ==
  ASSUME NEW n \in Nat, NEW S \in SUBSET [1 .. n -> Nat], IsFiniteSet(S), S # {}
  PROVE  \E g \in S : \A x \in S : x # g => Pattern!SortsBefore(x, g)
<1> DEFINE Last(T) == \E g \in T : \A x \in T : x # g => Pattern!SortsBefore(x, g)
           Breach == {k \in Nat : \E T \in SUBSET S : T # {} /\ IsFiniteSet(T) /\ Cardinality(T) = k
                 /\ ~Last(T)}
<1> SUFFICES ASSUME ~Last(S) PROVE FALSE
  OBVIOUS
<1> HIDE DEF Last
<1>1. Breach \in SUBSET Nat /\ Breach # {}
  <2>1. Cardinality(S) \in Nat
    BY FS_CardinalityType
  <2>2. Cardinality(S) \in Breach
    BY <2>1
  <2> QED
    BY <2>2
<1>2. PICK k \in Breach : \A l \in Breach : k <= l
  BY <1>1, LeastElement
<1>3. PICK T \in SUBSET S : T # {} /\ IsFiniteSet(T) /\ Cardinality(T) = k /\ ~Last(T)
  OBVIOUS
<1>4. PICK x \in T : TRUE
  BY <1>3
<1>5. IsFiniteSet(T \ {x}) /\ Cardinality(T \ {x}) = k - 1 /\ k \in Nat
  BY <1>1, <1>3, <1>4, FS_RemoveElement
<1>6. k - 1 \in Nat
  BY <1>5, FS_CardinalityType
<1>7. k - 1 \notin Breach
  <2>1. ~(k <= k - 1)
    BY <1>5
  <2> QED
    BY <1>2, <2>1
<1>8. T \ {x} = {} \/ Last(T \ {x})
  <2>1. T \ {x} \in SUBSET S
    OBVIOUS
  <2> QED
    BY <1>5, <1>6, <1>7, <2>1
<1>9. CASE T \ {x} = {}
  <2>1. \A y \in T : y = x
    BY <1>9
  <2> QED
    BY <1>3, <1>4, <2>1 DEF Last
<1>10. CASE Last(T \ {x})
  <2>1. PICK g \in T \ {x} : \A y \in T \ {x} : y # g => Pattern!SortsBefore(y, g)
    BY <1>10 DEF Last
  <2>2. x \in [1 .. n -> Nat] /\ g \in [1 .. n -> Nat] /\ x # g
    BY <1>4, <2>1
  <2>3. CASE Pattern!SortsBefore(x, g)
    <3>1. \A y \in T : y # g => Pattern!SortsBefore(y, g)
      BY <2>1, <2>3
    <3> QED
      BY <1>3, <2>1, <3>1 DEF Last
  <2>4. CASE Pattern!SortsBefore(g, x)
    <3>1. ASSUME NEW y \in T, y # x PROVE Pattern!SortsBefore(y, x)
      <4>1. y \in [1 .. n -> Nat] /\ y \in T \ {x}
        BY <3>1
      <4> QED
        BY <2>1, <2>2, <2>4, <4>1, OrderIsTransitive
    <3> QED
      BY <1>3, <1>4, <3>1 DEF Last
  <2> QED
    BY <2>2, <2>3, <2>4, NamesAreOrdered
<1> QED
  BY <1>8, <1>9, <1>10

\* A sequence of all these names, in their order.
InOrder(s, S) ==
  /\ s \in [1 .. Cardinality(S) -> S]
  /\ Pattern!ToSet(s) = S /\ \A i, k \in DOMAIN s : i < k => Pattern!SortsBefore(s[i], s[k])

\* Finitely many names can be put in order.
LEMMA NamesCanBeSorted ==
  ASSUME NEW n \in Nat, NEW S \in SUBSET [1 .. n -> Nat], IsFiniteSet(S)
  PROVE  \E s : InOrder(s, S)
<1> DEFINE Breach == {k \in Nat : \E T \in SUBSET S : IsFiniteSet(T) /\ Cardinality(T) = k
                 /\ ~\E s : InOrder(s, T)}
<1> SUFFICES ASSUME ~\E s : InOrder(s, S) PROVE FALSE
  OBVIOUS
<1>1. Breach \in SUBSET Nat /\ Breach # {}
  <2>1. Cardinality(S) \in Nat
    BY FS_CardinalityType
  <2>2. Cardinality(S) \in Breach
    BY <2>1
  <2> QED
    BY <2>2
<1>2. PICK k \in Breach : \A l \in Breach : k <= l
  BY <1>1, LeastElement
<1>3. PICK T \in SUBSET S : IsFiniteSet(T) /\ Cardinality(T) = k /\ ~\E s : InOrder(s, T)
  OBVIOUS
<1>4. k \in Nat
  OBVIOUS
<1>5. CASE T = {}
  <2>1. Cardinality(T) = 0
    BY <1>5, FS_EmptySet
  <2> DEFINE s == [i \in 1 .. 0 |-> i]
  <2>2. DOMAIN s = {} /\ 1 .. 0 = {}
    OBVIOUS
  <2>3. s \in [1 .. Cardinality(T) -> T]
    BY <2>1, <2>2
  <2>4. Pattern!ToSet(s) = T
    BY <1>5, <2>2 DEF Pattern!ToSet
  <2> HIDE DEF s
  <2>5. InOrder(s, T)
    BY <2>2, <2>3, <2>4 DEF InOrder
  <2> QED
    BY <1>3, <2>5
<1>6. CASE T # {}
  <2>1. T \in SUBSET [1 .. n -> Nat]
    OBVIOUS
  <2>2. PICK g \in T : \A x \in T : x # g => Pattern!SortsBefore(x, g)
    BY <1>3, <1>6, <2>1, LastName
  <2>3. IsFiniteSet(T \ {g}) /\ Cardinality(T \ {g}) = k - 1
    BY <1>3, <2>2, FS_RemoveElement
  <2>4. k - 1 \in Nat
    BY <2>3, FS_CardinalityType
  <2>5. k - 1 \notin Breach
    <3>1. ~(k <= k - 1)
      BY <1>4
    <3> QED
      BY <1>2, <3>1
  <2>6. T \ {g} \in SUBSET S
    OBVIOUS
  <2>7. PICK s : InOrder(s, T \ {g})
    BY <2>3, <2>4, <2>5, <2>6
  <2>8. /\ s \in [1 .. k - 1 -> T \ {g}] /\ DOMAIN s = 1 .. k - 1
        /\ \A i, l \in 1 .. k - 1 : i < l => Pattern!SortsBefore(s[i], s[l])
        /\ {s[i] : i \in 1 .. k - 1} = T \ {g}
    BY <2>3, <2>7 DEF InOrder, Pattern!ToSet
  <2> DEFINE t == [i \in 1 .. k |-> IF i = k THEN g ELSE s[i]]
  <2>9. \A i \in 1 .. k : i = k \/ (i # k /\ i < k /\ i \in 1 .. k - 1)
    BY <1>4
  <2>10. k \in 1 .. k /\ 1 .. k - 1 \subseteq 1 .. k /\ k \notin 1 .. k - 1
    BY <1>4, <2>4
  <2>11. DOMAIN t = 1 .. k /\ t[k] = g /\ \A i \in 1 .. k - 1 : t[i] = s[i]
    BY <2>10
  <2>12. t \in [1 .. k -> T]
    BY <2>2, <2>8, <2>9
  <2> HIDE DEF t
  <2>13. Pattern!ToSet(t) = T
    <3>1. Pattern!ToSet(t) = {t[i] : i \in 1 .. k}
      BY <2>11 DEF Pattern!ToSet
    <3>2. ASSUME NEW x \in T PROVE \E i \in 1 .. k : t[i] = x
      <4>1. CASE x = g
        BY <2>10, <2>11, <4>1
      <4>2. CASE x # g
        <5>1. PICK i \in 1 .. k - 1 : s[i] = x
          BY <2>8, <4>2
        <5> QED
          BY <2>10, <2>11, <5>1
      <4> QED
        BY <4>1, <4>2
    <3>3. \A i \in 1 .. k : t[i] \in T
      BY <2>12
    <3> QED
      BY <3>1, <3>2, <3>3
  <2>14. ASSUME NEW i \in 1 .. k, NEW l \in 1 .. k, i < l PROVE Pattern!SortsBefore(t[i], t[l])
    <3>1. i \in 1 .. k - 1 /\ t[i] = s[i]
      BY <1>4, <2>9, <2>11, <2>14
    <3>2. CASE l = k
      <4>1. s[i] \in T /\ s[i] # g
        BY <2>8, <3>1
      <4> QED
        BY <2>2, <2>11, <3>1, <3>2, <4>1
    <3>3. CASE l # k
      <4>1. l \in 1 .. k - 1 /\ t[l] = s[l]
        BY <2>9, <2>11, <3>3
      <4> QED
        BY <2>8, <2>14, <3>1, <4>1
    <3> QED
      BY <3>2, <3>3
  <2>15. InOrder(t, T)
    BY <1>3, <2>11, <2>12, <2>13, <2>14 DEF InOrder
  <2> QED
    BY <1>3, <2>15
<1> QED
  BY <1>5, <1>6

\* So Glob does.
LEMMA GlobSorts ==
  ASSUME NEW n \in Nat, NEW S \in SUBSET [1 .. n -> Nat], IsFiniteSet(S)
  PROVE  InOrder(Pattern!Glob(S), S)
<1>1. PICK s : InOrder(s, S)
  BY NamesCanBeSorted
<1>2. Pattern!Glob(S) = CHOOSE x \in [1 .. Cardinality(S) -> S] :
                  Pattern!ToSet(x) = S /\ \A i, k \in DOMAIN x : i < k => Pattern!SortsBefore(x[i], x[k])
  BY SameCardinality DEF Pattern!Glob
<1>3. \E x \in [1 .. Cardinality(S) -> S] :
        Pattern!ToSet(x) = S /\ \A i, k \in DOMAIN x : i < k => Pattern!SortsBefore(x[i], x[k])
  BY <1>1 DEF InOrder
<1> QED
  BY <1>2, <1>3 DEF InOrder

\* The place of the unit of a fragment among the units.
LEMMA Ranks ==
  ASSUME NEW letter \in Pattern!Fragments
  PROVE  Pattern!RankOf(letter) \in 1 .. 5 /\ Pattern!Units[Pattern!RankOf(letter)] = Pattern!UnitOf[letter]
<1>1. Pattern!UnitOf[letter] \in Pattern!ToSet(Pattern!Units)
  BY FragmentsAre
<1>2. PICK i \in 1 .. 5 : Pattern!Units[i] = Pattern!UnitOf[letter]
  BY <1>1, UnitsAre DEF Pattern!ToSet
<1>3. Pattern!RankOf(letter) = CHOOSE j \in 1 .. 5 : Pattern!Units[j] = Pattern!UnitOf[letter]
  BY UnitsAre DEF Pattern!RankOf
<1> QED
  BY <1>2, <1>3

\* When a pattern goes from greater parts to smaller ones, the names are in the order of time.
LEMMA OrderIsThatOfTime ==
  ASSUME fragments \in Seq(Pattern!Fragments), Pattern!FromGreaterToSmaller,
         NEW s \in Pattern!Instants, NEW t \in Pattern!Instants,
         Pattern!SortsBefore(Pattern!Build(s), Pattern!Build(t))
  PROVE  ~Pattern!Less(Pattern!ParseTimePattern(Pattern!Build(t)), Pattern!ParseTimePattern(Pattern!Build(s)))
<1>1. PICK a : a = Pattern!Build(s)
  OBVIOUS
<1>2. PICK b : b = Pattern!Build(t)
  OBVIOUS
<1>3. PICK p : p = Pattern!ParseTimePattern(a)
  OBVIOUS
<1>4. PICK q : q = Pattern!ParseTimePattern(b)
  OBVIOUS
<1>5. PICK n : n = Len(fragments)
  OBVIOUS
<1>6. n \in Nat /\ DOMAIN fragments = 1 .. n /\ \A i \in 1 .. n : fragments[i] \in Pattern!Fragments
  BY <1>5, LenProperties, ElementOfSeq
<1>7. /\ DOMAIN a = 1 .. n
      /\ \A i \in 1 .. n : a[i] \in Nat
               /\ Pattern!ValueOf(fragments[i], a[i]) = s[Pattern!UnitOf[fragments[i]]]
      /\ \A u \in Pattern!ToSet(Pattern!Units) : p[u] = IF u \in Pattern!Parts THEN s[u] ELSE Pattern!Absent
  BY <1>1, <1>3, <1>6, BuiltNameIsRead
<1>8. /\ \A i \in 1 .. n : b[i] \in Nat
               /\ Pattern!ValueOf(fragments[i], b[i]) = t[Pattern!UnitOf[fragments[i]]]
      /\ \A u \in Pattern!ToSet(Pattern!Units) : q[u] = IF u \in Pattern!Parts THEN t[u] ELSE Pattern!Absent
  BY <1>2, <1>4, <1>6, BuiltNameIsRead
<1>9. PICK i \in 1 .. n : a[i] < b[i] /\ \A k \in 1 .. i - 1 : a[k] = b[k]
  BY <1>1, <1>2, <1>7 DEF Pattern!SortsBefore
<1>10. PICK r : r = Pattern!RankOf(fragments[i])
  OBVIOUS
<1>11. r \in 1 .. 5 /\ Pattern!Units[r] = Pattern!UnitOf[fragments[i]]
             /\ Pattern!Units[r] \in Pattern!ToSet(Pattern!Units) /\ Pattern!Units[r] \in Pattern!Parts
  <2>1. r \in 1 .. 5 /\ Pattern!Units[r] = Pattern!UnitOf[fragments[i]]
    BY <1>6, <1>10, Ranks
  <2>2. Pattern!Units[r] \in Pattern!ToSet(Pattern!Units)
    BY <2>1, UnitsAre DEF Pattern!ToSet
  <2> QED
    BY <1>6, <2>1, <2>2 DEF Pattern!Parts
<1>12. p[Pattern!Units[r]] \in Nat /\ q[Pattern!Units[r]] \in Nat
             /\ p[Pattern!Units[r]] < q[Pattern!Units[r]]
  <2>1. p[Pattern!Units[r]] = Pattern!ValueOf(fragments[i], a[i])
              /\ q[Pattern!Units[r]] = Pattern!ValueOf(fragments[i], b[i])
    BY <1>7, <1>8, <1>11
  <2>2. p[Pattern!Units[r]] \in Nat /\ q[Pattern!Units[r]] \in Nat
    BY <1>7, <1>8, <1>11, PartsInRange
  <2>3. a[i] \in Nat /\ b[i] \in Nat
    BY <1>7, <1>8
  <2>4. CASE fragments[i] = "y"
    BY <1>9, <2>1, <2>2, <2>3, <2>4 DEF Pattern!ValueOf
  <2>5. CASE fragments[i] # "y"
    BY <1>9, <2>1, <2>2, <2>3, <2>5 DEF Pattern!ValueOf
  <2> QED
    BY <2>4, <2>5
<1>13. ASSUME NEW j \in 1 .. 5, j < r PROVE p[Pattern!Units[j]] = q[Pattern!Units[j]]
  <2>1. Pattern!Units[j] \in Pattern!ToSet(Pattern!Units)
    BY UnitsAre DEF Pattern!ToSet
  <2>2. CASE Pattern!Units[j] \notin Pattern!Parts
    BY <1>7, <1>8, <2>1, <2>2
  <2>3. CASE Pattern!Units[j] \in Pattern!Parts
    <3>1. PICK k \in 1 .. n : Pattern!UnitOf[fragments[k]] = Pattern!Units[j]
      BY <1>6, <2>3 DEF Pattern!Parts
    <3>2. Pattern!RankOf(fragments[k]) = j
      BY <1>6, <3>1, Ranks, UnitsAre
    <3>3. ~(i < k) /\ i # k
      <4>1. i < k => r <= j
        BY <1>6, <1>10, <3>2 DEF Pattern!FromGreaterToSmaller
      <4> QED
        BY <1>10, <1>11, <1>13, <3>2, <4>1
    <3>4. k \in 1 .. i - 1
      BY <1>6, <3>3
    <3>5. a[k] = b[k]
      BY <1>9, <3>4
    <3>6. p[Pattern!Units[j]] = Pattern!ValueOf(fragments[k], a[k])
                /\ q[Pattern!Units[j]] = Pattern!ValueOf(fragments[k], b[k])
      BY <1>7, <1>8, <2>1, <2>3, <3>1
    <3> QED
      BY <3>5, <3>6
  <2> QED
    BY <2>2, <2>3
<1>14. ASSUME Pattern!Less(q, p) PROVE FALSE
  <2>1. PICK j \in 1 .. 5 : q[Pattern!Units[j]] < p[Pattern!Units[j]]
                   /\ \A k \in 1 .. j - 1 : q[Pattern!Units[k]] = p[Pattern!Units[k]]
    BY <1>14, UnitsAre DEF Pattern!Less
  <2>2. ASSUME NEW k \in 1 .. 5 PROVE p[Pattern!Units[k]] \in Int /\ q[Pattern!Units[k]] \in Int
    <3>1. Pattern!Units[k] \in Pattern!ToSet(Pattern!Units)
      BY UnitsAre DEF Pattern!ToSet
    <3>2. s[Pattern!Units[k]] \in Nat /\ t[Pattern!Units[k]] \in Nat /\ Pattern!Absent \in Int
      BY <3>1, PartsInRange DEF Pattern!Absent
    <3> QED
      BY <1>7, <1>8, <3>1, <3>2
  <2>3. CASE j < r
    <3>1. p[Pattern!Units[j]] = q[Pattern!Units[j]]
      BY <1>13, <2>3
    <3>2. PICK v : v = p[Pattern!Units[j]]
      OBVIOUS
    <3>3. v \in Int
      BY <2>1, <2>2, <3>2
    <3>4. v < v
      BY <2>1, <3>1, <3>2
    <3> QED
      BY <3>3, <3>4
  <2>4. CASE j = r
    BY <1>12, <2>1, <2>4
  <2>5. CASE r < j
    <3>1. r \in 1 .. j - 1
      BY <1>11, <2>5
    <3>2. q[Pattern!Units[r]] = p[Pattern!Units[r]]
      BY <2>1, <3>1
    <3> QED
      BY <1>12, <3>2
  <2> QED
    BY <1>11, <2>3, <2>4, <2>5
<1> QED
  BY <1>1, <1>2, <1>3, <1>4, <1>14

\* The insertion sort leaves alone what is in order.
LEMMA InsertLeaves ==
  ASSUME NEW n \in Nat, NEW S, NEW names \in [1 .. n -> S], NEW tps, NEW i \in 1 .. n,
         i > 1 => ~Pattern!Less(tps[i], tps[i - 1])
  PROVE  Pattern!Insert(names, tps, i) = names
<1> DEFINE places == {p \in 1 .. i : \A q \in p + 1 .. i : Pattern!Less(tps[q], tps[q - 1])}
<1>1. places = {i}
  <2>1. i \in places
    <3>1. i \in 1 .. i /\ i + 1 .. i = {}
      OBVIOUS
    <3> QED
      BY <3>1
  <2>2. ASSUME NEW p \in places PROVE p = i
    <3>1. p \in 1 .. i /\ \A q \in p + 1 .. i : Pattern!Less(tps[q], tps[q - 1])
      OBVIOUS
    <3>2. p # i => i \in p + 1 .. i /\ i > 1
      BY <3>1
    <3> QED
      BY <3>1, <3>2
  <2> HIDE DEF places
  <2> QED
    BY <2>1, <2>2
<1>2. Pattern!Min(places) = i
  <2>1. {i} \in SUBSET Nat /\ {i} # {}
    OBVIOUS
  <2> HIDE DEF places
  <2> QED
    BY <1>1, <2>1, MinProperties
<1>3. Pattern!Insert(names, tps, i) =
        [k \in DOMAIN names |->
           IF k = Pattern!Min(places) THEN names[i] ELSE IF Pattern!Min(places) < k /\ k <= i
                 THEN names[k - 1] ELSE names[k]]
  BY DEF Pattern!Insert
<1> HIDE DEF places
<1>4. Pattern!Insert(names, tps, i) =
        [k \in 1 .. n |-> IF k = i THEN names[i] ELSE IF i < k /\ k <= i THEN names[k - 1] ELSE names[k]]
  BY <1>2, <1>3
<1>5. \A k \in 1 .. n : (IF k = i THEN names[i] ELSE IF i < k /\ k <= i THEN names[k - 1]
            ELSE names[k]) = names[k]
  OBVIOUS
<1>6. Pattern!Insert(names, tps, i) = [k \in 1 .. n |-> names[k]]
  BY <1>4, <1>5
<1> QED
  BY <1>6

\* The names are finitely many sequences of numbers, which all parse.
LEMMA NamesProperties ==
  ASSUME fragments \in Seq(Pattern!Fragments), written \subseteq Pattern!Instants, IsFiniteSet(written)
  PROVE  /\ Pattern!Names \in SUBSET [1 .. Len(fragments) -> Nat] /\ Len(fragments) \in Nat
         /\ IsFiniteSet(Pattern!Names)
         /\ {name \in Pattern!Names : Pattern!Parses(name)} = Pattern!Names
<1>1. Len(fragments) \in Nat /\ DOMAIN fragments = 1 .. Len(fragments)
  BY LenProperties
<1>2. ASSUME NEW t \in written PROVE Pattern!Build(t) \in [1 .. Len(fragments) -> Nat]
                   /\ Pattern!Parses(Pattern!Build(t))
  <2>1. t \in Pattern!Instants
    OBVIOUS
  <2>2. PICK name : name = Pattern!Build(t)
    OBVIOUS
  <2>3. /\ DOMAIN name = 1 .. Len(fragments) /\ \A i \in 1 .. Len(fragments) : name[i] \in Nat
        /\ Pattern!Parses(name)
    BY <1>1, <2>1, <2>2, BuiltNameIsRead
  <2>4. name = [i \in 1 .. Len(fragments) |-> Pattern!BuildFragment(fragments[i], t)]
    BY <1>1, <2>2 DEF Pattern!Build
  <2>5. name \in [1 .. Len(fragments) -> Nat]
    BY <2>3, <2>4
  <2> QED
    BY <2>2, <2>3, <2>5
<1>3. Pattern!Names \in SUBSET [1 .. Len(fragments) -> Nat]
            /\ \A name \in Pattern!Names : Pattern!Parses(name)
  BY <1>2 DEF Pattern!Names
<1>4. IsFiniteSet(Pattern!Names)
  <2> DEFINE build == [t \in written |-> Pattern!Build(t)]
  <2>1. build \in Surjection(written, Pattern!Names)
    BY DEF Surjection, Pattern!Names
  <2> HIDE DEF build
  <2> QED
    BY <2>1, FS_Surjection
<1> QED
  BY <1>1, <1>3, <1>4

\* So ListAll returns them as Glob does, if Glob returns them in the order of time.
LEMMA SortLeaves ==
  ASSUME fragments \in Seq(Pattern!Fragments), written \subseteq Pattern!Instants, IsFiniteSet(written),
         NEW found, found = Pattern!Glob(Pattern!Names), InOrder(found, Pattern!Names),
         \A i, k \in DOMAIN found : i < k
               => ~Pattern!Less(Pattern!ParseTimePattern(found[k]), Pattern!ParseTimePattern(found[i]))
  PROVE  Pattern!ListAll = found
<1>1. PICK n : n = Cardinality(Pattern!Names)
  OBVIOUS
<1>2. n \in Nat /\ found \in [1 .. n -> Pattern!Names] /\ DOMAIN found = 1 .. n
  BY <1>1, NamesProperties, FS_CardinalityType DEF InOrder
<1>3. Len(found) = n
  <2>1. found \in Seq(Pattern!Names)
    BY <1>2, SeqDef
  <2>2. Len(found) \in Nat /\ DOMAIN found = 1 .. Len(found)
    BY <2>1, LenProperties
  <2> QED
    BY <1>2, <2>2
<1>4. PICK tps : tps = [i \in DOMAIN found |-> Pattern!ParseTimePattern(found[i])]
  OBVIOUS
<1>5. ASSUME NEW i \in 1 .. n PROVE Pattern!Insert(found, tps, i) = found
  <2>1. i > 1 => ~Pattern!Less(tps[i], tps[i - 1])
    <3> SUFFICES ASSUME i > 1 PROVE ~Pattern!Less(tps[i], tps[i - 1])
      OBVIOUS
    <3>1. i - 1 \in 1 .. n /\ i - 1 < i
      BY <1>2
    <3>2. tps[i] = Pattern!ParseTimePattern(found[i]) /\ tps[i - 1] = Pattern!ParseTimePattern(found[i - 1])
      BY <1>2, <1>4, <3>1
    <3> QED
      BY <1>2, <3>1, <3>2
  <2> QED
    BY <1>2, <2>1, InsertLeaves
<1> DEFINE Steps(g) == g = [i \in 0 .. n |-> IF i = 0 THEN found ELSE Pattern!Insert(g[i - 1], tps, i)]
<1>6. Pattern!ListAll = (CHOOSE g : Steps(g))[n]
  <2>1. Pattern!Glob({name \in Pattern!Names : Pattern!Parses(name)}) = found
    BY NamesProperties
  <2> QED
    BY <1>3, <1>4, <2>1 DEF Pattern!ListAll
<1>7. \E g : Steps(g)
  <2> DEFINE g == [i \in 0 .. n |-> found]
  <2>1. ASSUME NEW i \in 0 .. n PROVE g[i] = IF i = 0 THEN found ELSE Pattern!Insert(g[i - 1], tps, i)
    <3>1. CASE i = 0
      BY <3>1
    <3>2. CASE i # 0
      <4>1. i \in 1 .. n /\ i - 1 \in 0 .. n
        BY <1>2, <3>2
      <4>2. g[i - 1] = found /\ g[i] = found
        BY <4>1
      <4> HIDE DEF g
      <4> QED
        BY <1>5, <3>2, <4>1, <4>2
    <3> QED
      BY <3>1, <3>2
  <2>2. g = [i \in 0 .. n |-> g[i]]
    OBVIOUS
  <2> HIDE DEF g
  <2>3. [i \in 0 .. n |-> g[i]] = [i \in 0 .. n |-> IF i = 0 THEN found
              ELSE Pattern!Insert(g[i - 1], tps, i)]
    BY <2>1
  <2>4. Steps(g)
    BY <2>2, <2>3
  <2> QED
    BY <2>4
<1> HIDE DEF Steps
<1>8. PICK g : g = CHOOSE x : Steps(x)
  OBVIOUS
<1>9. Steps(g)
  BY <1>7, <1>8
<1>10. g = [i \in 0 .. n |-> IF i = 0 THEN found ELSE Pattern!Insert(g[i - 1], tps, i)]
  BY <1>9 DEF Steps
<1>11. ASSUME NEW j \in 0 .. n, g[j] # found PROVE FALSE
  <2> DEFINE Breach == {k \in 0 .. n : g[k] # found}
  <2>1. Breach \in SUBSET Nat /\ Breach # {}
    BY <1>11
  <2>2. PICK k \in Breach : \A l \in Breach : k <= l
    BY <2>1, LeastElement
  <2>3. k \in 0 .. n /\ g[k] # found
    OBVIOUS
  <2>4. k # 0
    BY <1>10, <2>3
  <2>5. k \in 1 .. n /\ k - 1 \in 0 .. n /\ ~(k <= k - 1)
    BY <1>2, <2>3, <2>4
  <2>6. g[k - 1] = found
    BY <2>2, <2>5
  <2>7. g[k] = Pattern!Insert(g[k - 1], tps, k)
    BY <1>10, <2>3, <2>4
  <2> QED
    BY <1>5, <2>3, <2>5, <2>6, <2>7
<1>12. n \in 0 .. n
  BY <1>2
<1> QED
  BY <1>6, <1>8, <1>11, <1>12

\* All files are listed, in order of time.
LEMMA AllFilesInOrder ==
  ASSUME fragments \in Seq(Pattern!Fragments), written \subseteq Pattern!Instants, IsFiniteSet(written)
  PROVE  Pattern!ListAllSorted
<1> SUFFICES ASSUME Pattern!FromGreaterToSmaller PROVE Pattern!SortedByTime
  BY DEF Pattern!ListAllSorted
<1>1. PICK found : found = Pattern!Glob(Pattern!Names)
  OBVIOUS
<1>2. InOrder(found, Pattern!Names)
  BY <1>1, NamesProperties, GlobSorts
<1>3. found \in [1 .. Cardinality(Pattern!Names) -> Pattern!Names] /\ Pattern!ToSet(found) = Pattern!Names
  BY <1>2 DEF InOrder
<1>4. ASSUME NEW i \in DOMAIN found, NEW k \in DOMAIN found, i < k
      PROVE  ~Pattern!Less(Pattern!ParseTimePattern(found[k]), Pattern!ParseTimePattern(found[i]))
  <2>1. Pattern!SortsBefore(found[i], found[k])
    BY <1>2, <1>4 DEF InOrder
  <2>2. found[i] \in Pattern!Names /\ found[k] \in Pattern!Names
    BY <1>3
  <2>3. PICK s \in Pattern!Instants, t \in Pattern!Instants : found[i] = Pattern!Build(s)
                   /\ found[k] = Pattern!Build(t)
    BY <2>2 DEF Pattern!Names
  <2> QED
    BY <2>1, <2>3, OrderIsThatOfTime
<1>5. Pattern!ListAll = found
  BY <1>1, <1>2, <1>4, SortLeaves
<1>6. Len(found) = Cardinality(Pattern!Names)
  <2>1. Cardinality(Pattern!Names) \in Nat
    BY NamesProperties, FS_CardinalityType
  <2>2. found \in Seq(Pattern!Names)
    BY <1>3, <2>1, SeqDef
  <2>3. Len(found) \in Nat /\ DOMAIN found = 1 .. Len(found)
              /\ DOMAIN found = 1 .. Cardinality(Pattern!Names)
    BY <1>3, <2>2, LenProperties
  <2> QED
    BY <2>1, <2>3
<1> QED
  BY <1>3, <1>4, <1>5, <1>6, SameCardinality DEF Pattern!SortedByTime

-----------------------------------------------------------------------------
(* The pattern that is parsed, and the files that are written.              *)

\* What a pattern and its files are: parts, in any number, and times of records, finitely many.
PatternInv ==
  /\ fragments \in Seq(Pattern!Fragments)
  /\ written \subseteq RecordTimes
  /\ IsFiniteSet(written)

\* It is kept by every step.
LEMMA PatternKept ==
  ASSUME PatternInv, [Pattern!Next]_(Pattern!vars)
  PROVE  PatternInv'
<1>1. ASSUME NEW letter \in Pattern!Fragments, Pattern!ParseFragment(letter) PROVE PatternInv'
  <2>1. fragments' = Append(fragments, letter) /\ written' = written
    BY <1>1 DEF Pattern!ParseFragment
  <2>2. fragments' \in Seq(Pattern!Fragments)
    BY <2>1, AppendProperties DEF PatternInv
  <2> QED
    BY <2>1, <2>2 DEF PatternInv
<1>2. ASSUME NEW t \in RecordTimes, Pattern!WriteRecord(t) PROVE PatternInv'
  <2>1. written' = written \cup {t} /\ fragments' = fragments
    BY <1>2 DEF Pattern!WriteRecord
  <2>2. IsFiniteSet(written')
    BY <2>1, FS_AddElement DEF PatternInv
  <2> QED
    BY <2>1, <2>2 DEF PatternInv
<1>3. CASE UNCHANGED Pattern!vars
  BY <1>3 DEF Pattern!vars, PatternInv
<1> QED
  BY <1>1, <1>2, <1>3 DEF Pattern!Next

\* The files of a period, and all files in order.
LEMMA PatternInvFinds ==
  ASSUME PatternInv
  PROVE  Pattern!FilesFound
<1>1. written \subseteq Pattern!Instants
  BY FileNamesAssumption DEF PatternInv, Pattern!PathPatternAssumption
<1>2. Pattern!ListAllSorted
  BY <1>1, AllFilesInOrder DEF PatternInv
<1>3. ASSUME Pattern!WithoutGap, NEW t \in written, NEW since \in Pattern!Instants,
             NEW until \in Pattern!Instants,
             Pattern!Ordinal(since) <= Pattern!Ordinal(t), Pattern!Ordinal(t) <= Pattern!Ordinal(until)
      PROVE  Pattern!Build(t) \in Pattern!ListBetween(since, until)
  <2>1. t \in Pattern!Instants /\ fragments \in Seq(Pattern!Fragments)
    BY <1>1 DEF PatternInv
  <2>2. Pattern!Match(Pattern!Build(t), since, until)
    BY <1>3, <2>1, FileIsFound
  <2> QED
    BY <2>2 DEF Pattern!ListBetween, Pattern!Names
<1>4. Pattern!BuiltNamesFound
  BY <1>3 DEF Pattern!BuiltNamesFound
<1> QED
  BY <1>2, <1>4 DEF Pattern!FilesFound

\* It holds before the pattern is parsed.
LEMMA PatternStarts == Pattern!Init => PatternInv
BY EmptySeq, FS_EmptySet DEF Pattern!Init, PatternInv

\* A record of a period is in a file that is read for the period, whatever parts the pattern
\* has, in whatever order, as long as it leaves out none between two of them (ListBetween);
\* and all files are listed once each, in order of time, when the pattern goes from greater
\* parts to smaller ones (ListAll).
THEOREM FilesOfAPeriodAreFound ==
  /\ Pattern!Spec => []Pattern!FilesFound
  /\ MCSpec => []FilesFound
<1>1. Pattern!Init => PatternInv
  BY PatternStarts
<1>2. PatternInv /\ [Pattern!Next]_(Pattern!vars) => PatternInv'
  BY PatternKept
<1>3. PatternInv => Pattern!FilesFound
  BY PatternInvFinds
<1> QED
  BY <1>1, <1>2, <1>3, MCSpecNamesFiles, PTL DEF Pattern!Spec, FilesFound
===============================================================================
