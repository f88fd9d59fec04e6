----------------------------- MODULE MCLogFiles -----------------------------
(* The files of the log: written, found again, and searched for the place a page begins at. *)
(* A behaviour of this module is one of LogWriter, of PathPattern or of LogSearch, while the *)
(* other modules stay in an initial state.                                                   *)
EXTENDS LogWriter

CONSTANTS
  Years, DaysOf, HoursOf, MinutesOf, RecordTimes, MaxFragments, MaxFiles,             \* of PathPattern
  Since, Clearance, MaxDelay, Accuracies, FirstBuffer, Sizes, MaxTime, MaxLines       \* of LogSearch

VARIABLES
  fragments, written,                                        \* of PathPattern
  lines, size, accuracy, left, right, mid, buf, searching,   \* of LogSearch
  part

patternVars == <<fragments, written>>
searchVars == <<lines, size, accuracy, left, right, mid, buf, searching>>

Pattern == INSTANCE PathPattern
Search == INSTANCE LogSearch

ASSUME FileNamesAssumption == Pattern!PathPatternAssumption
ASSUME FileSearchAssumption == Search!LogSearchAssumption

\* Two years of two months, of two days and of one, so that a day is carried over.
MCDaysOf == <<2, 1>>
MCYears == {2001, 2002}
Time(y, m, d, h, n) == [year |-> y, month |-> m, day |-> d, hour |-> h, minute |-> n]
MCRecordTimes ==
  {Time(2001, 1, 1, 0, 1), Time(2001, 1, 2, 1, 1), Time(2001, 2, 1, 0, 0),
   Time(2002, 1, 1, 1, 0), Time(2002, 1, 2, 0, 0)}

MCInit ==
  /\ part \in {"writer", "pattern", "search"}
  /\ Init /\ Pattern!Init /\ Search!Init
  /\ part # "writer" => fpath = CHOOSE p \in Paths : TRUE
  /\ part # "search" => lines = <<>> /\ accuracy = 0

MCNext ==
  \/ part = "writer" /\ Next /\ UNCHANGED <<patternVars, searchVars, part>>
  \/ part = "pattern" /\ Pattern!Next /\ UNCHANGED <<vars, searchVars, part>>
  \/ part = "pattern" /\ UNCHANGED <<vars, patternVars, searchVars, part>>
  \/ part = "search" /\ Search!Next /\ UNCHANGED <<vars, patternVars, part>>

MCSpec == /\ MCInit
          /\ [][MCNext]_<<vars, patternVars, searchVars, part>>
          /\ Fairness
          /\ part = "search" => Search!Fairness

\* See PathPattern and LogSearch.
FilesFound == Pattern!FilesFound
ListAllSortedAlways == Pattern!ListAllSortedAlways
StartsSafely == Search!StartsSafely
ExactIfSorted == Search!ExactIfSorted
SearchEnds == part = "search" => Search!SearchEnds
=============================================================================
