---------------------------- MODULE PathPattern ----------------------------
(***************************************************************************)
(* The names of the log files: internal/store/pattern.go.  The pattern of  *)
(* the log path says which parts of the time of a record make the name of  *)
(* its file; the readers of the log find the files of a period by taking   *)
(* the names apart again.  The text between the parts is left out: a name  *)
(* is the sequence of its numbers, and the pattern without parts is that   *)
(* of a single file.  A time is a record of its parts, to the minute.      *)
(***************************************************************************)
EXTENDS Integers, SequencesExt, FiniteSetsExt

CONSTANTS
    Years, DaysOf,        \* the years, and the number of days of each month
    HoursOf, MinutesOf,   \* the hours of a day, the minutes of an hour
    RecordTimes,          \* the times of the records that are written
    MaxFragments,         \* bound: the parts of a pattern
    MaxFiles              \* bound: the records that are written

VARIABLES
    fragments,            \* the pattern as far as it is parsed
    written               \* the times of the records in the log
vars == <<fragments, written>>

-----------------------------------------------------------------------------
(* Times. *)

Units == <<"year", "month", "day", "hour", "minute">>   \* from the greatest to the smallest
Lowest == [year |-> 0, month |-> 1, day |-> 1, hour |-> 0, minute |-> 0]
Highest == [year |-> 9999, month |-> Len(DaysOf), day |-> Max(ToSet(DaysOf)), hour |-> HoursOf - 1, minute |-> MinutesOf - 1]
Absent == -1

DaysBefore ==  \* each month, and at last the days of the year
    LET before[m \in 1 .. Len(DaysOf) + 1] == IF m = 1 THEN 0 ELSE before[m - 1] + DaysOf[m - 1]
    IN  before

(* time.Date carries a day that the month does not have over into the next one. *)
Ordinal(t) ==
    LET day == t.year * DaysBefore[Len(DaysOf) + 1] + DaysBefore[t.month] + t.day
    IN  (day * HoursOf + t.hour) * MinutesOf + t.minute

Times == {[year |-> y, month |-> m, day |-> d, hour |-> h, minute |-> n] :
             y \in Years, m \in DOMAIN DaysOf, d \in 1 .. Highest.day, h \in 0 .. Highest.hour, n \in 0 .. Highest.minute}
Instants == {t \in Times : t.day <= DaysOf[t.month]}

(* %y tells the years of this century apart. *)
PathPatternAssumption ==
    /\ Years \subseteq 2000 .. 2099
    /\ DaysOf \in Seq(Nat \ {0}) /\ DaysOf # <<>>
    /\ HoursOf \in Nat \ {0} /\ MinutesOf \in Nat \ {0}
    /\ RecordTimes \subseteq Instants

-----------------------------------------------------------------------------
(* The fragments: %y is the year of the century. *)

UnitOf == [Y |-> "year", y |-> "year", m |-> "month", d |-> "day", H |-> "hour", M |-> "minute"]
Fragments == DOMAIN UnitOf

BuildFragment(f, t) == IF f = "y" THEN t.year % 100 ELSE t[UnitOf[f]]
ValueOf(f, n) == IF f = "y" THEN n + 2000 ELSE n

Build(t) == [i \in DOMAIN fragments |-> BuildFragment(fragments[i], t)]

(* parseTimePattern with FillTimePattern: parts in their range, and the same value for the same part. *)
ParseTimePattern(name) ==
    [u \in ToSet(Units) |->
        LET places == {i \in DOMAIN fragments : UnitOf[fragments[i]] = u}
        IN  IF places = {} THEN Absent ELSE ValueOf(fragments[Min(places)], name[Min(places)])]
Parses(name) ==
    /\ Len(name) = Len(fragments)
    /\ \A i \in DOMAIN name :
         LET n == ValueOf(fragments[i], name[i]) u == UnitOf[fragments[i]]
         IN  Lowest[u] <= n /\ n <= Highest[u] /\ n = ParseTimePattern(name)[u]

(* timePattern.Exec: a part that is absent is that of t when a smaller one is there, else that of base. *)
Exec(tp, t, base) ==
    [u \in DOMAIN tp |->
        LET smaller == {Units[k] : k \in {k \in DOMAIN Units : \E i \in 1 .. k - 1 : Units[i] = u}}
        IN  IF tp[u] # Absent THEN tp[u]
            ELSE IF \E s \in smaller : tp[s] # Absent THEN t[u]
            ELSE base[u]]

MatchFromSince(name, since, until) ==  \* mutant: both ends stand for their parts with those of since
    LET tp == ParseTimePattern(name)
    IN  /\ Parses(name)
        /\ Ordinal(since) <= Ordinal(Exec(tp, since, Highest))
        /\ Ordinal(Exec(tp, since, Lowest)) <= Ordinal(until)

Match(name, since, until) ==
    LET tp == ParseTimePattern(name)
    IN  /\ Parses(name)
        /\ Ordinal(since) <= Ordinal(Exec(tp, until, Highest))
        /\ Ordinal(Exec(tp, since, Lowest)) <= Ordinal(until)

-----------------------------------------------------------------------------
(* The directory. *)

Names == {Build(t) : t \in written}

(* filepath.Glob sorts by the letters of the names; numbers have leading zeros. *)
SortsBefore(a, b) == \E i \in DOMAIN a : a[i] < b[i] /\ \A k \in 1 .. i - 1 : a[k] = b[k]
Glob(names) ==
    CHOOSE s \in [1 .. Cardinality(names) -> names] :
        ToSet(s) = names /\ \A i, k \in DOMAIN s : i < k => SortsBefore(s[i], s[k])

(* In the order of their letters, too, which the readers do not rely on. *)
ListBetween(since, until) == {name \in Names : Match(name, since, until)}

Less(p, x) ==
    \E i \in DOMAIN Units : p[Units[i]] < x[Units[i]] /\ \A k \in 1 .. i - 1 : p[Units[k]] = x[Units[k]]

(* sort.Slice of up to 12 elements is an insertion sort, and of more one that leaves alone what  *)
(* is in order already.  It swaps the names, and asks for the order of places of tps, which stay *)
(* where they are. *)
Insert(names, tps, i) ==
    LET to == Min({p \in 1 .. i : \A q \in p + 1 .. i : Less(tps[q], tps[q - 1])})
    IN  [k \in DOMAIN names |-> IF k = to THEN names[i] ELSE IF to < k /\ k <= i THEN names[k - 1] ELSE names[k]]

ListAll ==
    LET found == Glob({name \in Names : Parses(name)})
        tps == [i \in DOMAIN found |-> ParseTimePattern(found[i])]
        sorted[i \in 0 .. Len(found)] == IF i = 0 THEN found ELSE Insert(sorted[i - 1], tps, i)
    IN  sorted[Len(found)]

-----------------------------------------------------------------------------
Init == fragments = <<>> /\ written = {}

(* ParsePathPattern meets a `%` with a letter. *)
ParseFragment(f) ==
    /\ written = {}
    /\ Len(fragments) < MaxFragments
    /\ fragments' = Append(fragments, f)
    /\ UNCHANGED written

(* Store.writer creates the file that the pattern says for the time of a record. *)
WriteRecord(t) ==
    /\ Cardinality(written) < MaxFiles
    /\ written' = written \cup {t}
    /\ UNCHANGED fragments

Next == (\E f \in Fragments : ParseFragment(f)) \/ (\E t \in RecordTimes : WriteRecord(t))
Spec == Init /\ [][Next]_vars

-----------------------------------------------------------------------------
Parts == {UnitOf[fragments[i]] : i \in DOMAIN fragments}

(* The pattern leaves out no part between two of its parts: %m%d, but not %Y_%d. *)
WithoutGap ==
    \A i, j, k \in DOMAIN Units : i < j /\ j < k /\ Units[i] \in Parts /\ Units[k] \in Parts => Units[j] \in Parts

(* A record of a period is in a file that is read for the period: whatever parts the pattern    *)
(* has, in whatever order, and although the ends of the period stand in for the greater parts   *)
(* that a name does not tell (ListBetween; FuzzPathPattern asks for periods of no length). *)
BuiltNamesFound ==
    WithoutGap => \A t \in written : \A since, until \in Instants :
        Ordinal(since) <= Ordinal(t) /\ Ordinal(t) <= Ordinal(until) => Build(t) \in ListBetween(since, until)

SortedByTime ==
    LET all == ListAll
    IN  /\ ToSet(all) = Names /\ Len(all) = Cardinality(Names)
        /\ \A i, k \in DOMAIN all : i < k => ~Less(ParseTimePattern(all[k]), ParseTimePattern(all[i]))

RankOf(f) == CHOOSE i \in DOMAIN Units : Units[i] = UnitOf[f]
FromGreaterToSmaller ==
    \A i, k \in DOMAIN fragments : i < k => RankOf(fragments[i]) <= RankOf(fragments[k])

(* Restore and the conversion of logs get all files, in order of time, when the pattern goes    *)
(* from greater parts to smaller ones, as the default pattern does. *)
ListAllSorted == FromGreaterToSmaller => SortedByTime

(* The files of a period, and all files in order: what the pages, Restore and the conversion ask for. *)
FilesFound == BuiltNamesFound /\ ListAllSorted

(* "The result is sorted by time order" (pattern.go 311), for every pattern. *)
ListAllSortedAlways == SortedByTime
=============================================================================
