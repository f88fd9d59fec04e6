------------------------------ MODULE LogSearch ------------------------------
(***************************************************************************)
(* searchLog of internal/store/search.go: the bisection of a log file by    *)
(* byte offsets, as newFileScanner calls it.  A line is its length and the  *)
(* time in it; a record is JSON only from the beginning of its line, so     *)
(* what is read from the middle of a line is no record.  The writer may     *)
(* append while the search goes on.                                         *)
(***************************************************************************)
EXTENDS Integers, Sequences

CONSTANTS
  Since,        \* the beginning of the period somebody asks for
  Clearance,    \* the 70 minutes of newFileScanner
  MaxDelay,     \* how late a record may be: the 60 minutes of its comment
  Accuracies,   \* the values of `accuracy'
  FirstBuffer,  \* the 256 bytes of the first buffer
  Sizes,        \* bound: the lengths of the lines, without the newline
  MaxTime,      \* bound: the times of the records
  MaxLines      \* bound: the number of lines

NoTime == 0  \* of an empty line or one that is no record

LogSearchAssumption ==
  /\ Since \in Nat /\ Clearance \in Nat
  /\ MaxDelay \in 0 .. Clearance
  /\ Accuracies \subseteq Nat
  /\ FirstBuffer \in Nat \ {0}
  /\ Sizes \subseteq Nat
  /\ MaxTime \in Nat /\ MaxLines \in Nat

VARIABLES
  lines,     \* the file: each line has a size and a time
  size,      \* the length of the file when the search began
  accuracy,  \* how many bytes too early the result may be
  left,      \* the result so far
  right,     \* the offset the search stays below
  mid,       \* the offset that is read next
  buf,       \* the length of the buffer
  searching

bounds == <<left, right, mid>>
inputs == <<size, accuracy>>
vars == <<lines, inputs, bounds, buf, searching>>

-----------------------------------------------------------------------------
(* The file.                                                                *)

Line == {[size |-> s, time |-> t] : s \in Sizes, t \in NoTime .. MaxTime}
Readable == {i \in DOMAIN lines : lines[i].time # NoTime}

\* The offset line i begins at; the last one is the length of the file.
Offsets ==
  LET offset[i \in 1 .. Len(lines) + 1] ==
        IF i = 1 THEN 0 ELSE offset[i - 1] + lines[i - 1].size + 1
  IN  offset
FileLen == Offsets[Len(lines) + 1]

\* The line around an offset of the file, and what is left of it from there.
LineAt(p) == CHOOSE i \in DOMAIN lines : Offsets[i] <= p /\ p < Offsets[i + 1]
Rest(p) == Offsets[LineAt(p) + 1] - 1 - p

\* What newFileScanner searches for, with the clearance.
SearchTargetExact == Since
SearchTarget == Since - Clearance

-----------------------------------------------------------------------------

Halfway(a, b) == a + (b - a) \div 2

Bisecting == searching /\ left + accuracy < right
Reading == Bisecting /\ mid < FileLen

\* The buffer has the newline, and the bytes before it are the line at mid.
HasLine == Reading /\ Rest(mid) < buf /\ Rest(mid) > 0
IsRecord(p) == Offsets[LineAt(p)] = p /\ lines[LineAt(p)].time # NoTime
TimeAt(p) == lines[LineAt(p)].time

\* The size of the file is read once; a file no longer than the accuracy is read
\* from its beginning.
Init ==
  /\ lines \in UNION {[1 .. n -> Line] : n \in 0 .. MaxLines}
  /\ \A i, k \in Readable : i < k => lines[i].time <= lines[k].time + MaxDelay
  /\ \A i \in Readable : lines[i].size > 1
  /\ accuracy \in Accuracies
  /\ left = 0
  /\ size = FileLen
  /\ right = size
  /\ mid = size \div 2
  /\ buf = FirstBuffer
  /\ searching = (size > accuracy)

ReadPastEndAgain ==
  /\ Bisecting /\ mid >= FileLen
  /\ UNCHANGED vars

ReadPastEnd ==
  /\ Bisecting /\ mid >= FileLen
  /\ right' = Halfway(left, right)
  /\ UNCHANGED <<lines, inputs, left, mid, buf, searching>>

GrowBuffer ==
  /\ Reading /\ Rest(mid) >= buf
  /\ buf' = 2 * buf
  /\ UNCHANGED <<lines, inputs, bounds, searching>>

SkipNewline ==
  /\ Reading /\ Rest(mid) = 0
  /\ mid' = mid + 1
  /\ UNCHANGED <<lines, inputs, left, right, buf, searching>>

\* The record is too old: so are, but for their delay, all before it.
GoRight ==
  /\ HasLine /\ IsRecord(mid)
  /\ TimeAt(mid) < SearchTarget
  /\ left' = mid + Rest(mid) + 1
  /\ mid' = Halfway(left', right)
  /\ UNCHANGED <<lines, inputs, right, buf, searching>>

GoLeft ==
  /\ HasLine /\ IsRecord(mid)
  /\ TimeAt(mid) >= SearchTarget
  /\ right' = Halfway(left, right)
  /\ mid' = Halfway(left, right')
  /\ UNCHANGED <<lines, inputs, left, buf, searching>>

SkipLineMovingLeft ==
  /\ HasLine /\ ~IsRecord(mid)
  /\ LET next == mid + Rest(mid) + 1
     IN  /\ left' = next
         /\ right' = IF next < right THEN right ELSE Halfway(left, right)
         /\ mid' = IF next < right THEN next ELSE Halfway(left, right')
  /\ UNCHANGED <<lines, inputs, buf, searching>>

SkipLineUnhalved ==
  /\ HasLine /\ ~IsRecord(mid)
  /\ LET next == mid + Rest(mid) + 1
     IN  mid' = IF next < right THEN next ELSE Halfway(left, right)
  /\ UNCHANGED <<lines, inputs, left, right, buf, searching>>

\* "The current position is not valid JSON": the next line, unless it is too far.
SkipLine ==
  /\ HasLine /\ ~IsRecord(mid)
  /\ LET next == mid + Rest(mid) + 1
     IN  IF next < right
         THEN mid' = next /\ UNCHANGED right
         ELSE /\ right' = Halfway(left, right)
              /\ mid' = Halfway(left, right')
  /\ UNCHANGED <<lines, inputs, left, buf, searching>>

\* The file is left at offset `left'.
Finish ==
  /\ searching /\ ~Bisecting
  /\ searching' = FALSE
  /\ UNCHANGED <<lines, inputs, bounds, buf>>

SearchStep ==
  ReadPastEnd \/ GrowBuffer \/ SkipNewline \/ GoRight \/ GoLeft \/ SkipLine \/ Finish

\* The writer, meanwhile.
AppendLine(line) ==
  /\ searching /\ Len(lines) < MaxLines
  /\ line.time # NoTime /\ line.size > 1
  /\ \A i \in Readable : lines[i].time <= line.time + MaxDelay
  /\ lines' = Append(lines, line)
  /\ UNCHANGED <<inputs, bounds, buf, searching>>

Terminated == ~searching /\ UNCHANGED vars

Next == SearchStep \/ (\E line \in Line : AppendLine(line)) \/ Terminated

\* Reads of a file return.
Fairness == WF_vars(SearchStep)
Spec == Init /\ [][Next]_vars /\ Fairness

-----------------------------------------------------------------------------

\* Nothing that is asked for is in front of the place the scanner begins to read at,
\* which is the beginning of a line: "To make sure find all records, make 70 minutes
\* clearance" (newFileScanner), for records that are up to MaxDelay late.
StartsSafely ==
  /\ left \in {Offsets[i] : i \in DOMAIN Offsets}
  /\ \A i \in Readable : Offsets[i] < left => lines[i].time < Since

Sorted == \A i, k \in Readable : i < k => lines[i].time <= lines[k].time
EndsWithEmptyLine == \E i \in DOMAIN lines : Offsets[i + 1] = size /\ lines[i].size = 0

\* "If the accuracy is 0, the result is perfectly aligned to the begin of the found
\* record" (searchLog): with no late records, exactly the records before the target
\* are in front of it, whatever lies between them that is no record.  Not so if the
\* file ends with empty lines: a search that reads the end of the file there does not
\* move `mid', and goes left from then on.
ExactIfSorted ==
  ~searching /\ accuracy = 0 /\ Sorted /\ ~EndsWithEmptyLine =>
    \A i \in Readable :
      Offsets[i] < size => (Offsets[i] < left <=> lines[i].time < SearchTarget)

\* The search ends on every file, whatever its lines look like.
SearchEnds == <>~searching
===============================================================================
