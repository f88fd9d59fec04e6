------------------------------ MODULE LogReader ------------------------------
(***************************************************************************)
(* A page of the log: OpenLog over the log files of a period (fileScanner   *)
(* and fileScannerSet of internal/store/scanner.go) under the FilterScanner *)
(* and PagingScanner of internal/endpoint/log.go, as /log.json reads it,    *)
(* while the writer appends records that may be late.  Where a file is read *)
(* from is what module LogSearch shows of searchLog.                        *)
(***************************************************************************)
EXTENDS Integers, Sequences, FiniteSetsExt, Functions

CONSTANTS
  FileOf,       \* the file of each instant: PathPattern.Build
  Since, Until, \* the period: from Since, before Until
  Clearance,    \* the 70 minutes of fileScanner
  MaxDelay,     \* how late a record may be: the 60 minutes of its comment
  OffsetValues, \* bound: the values of `offset'
  LimitValues,  \* bound: the values of `limit'; 0 is no limit
  MaxTime,      \* bound: the last instant
  MaxLines      \* bound: the number of lines of all files

ASSUME LogReaderAssumption ==
  /\ MaxTime \in Nat /\ FileOf \in [1 .. MaxTime -> Nat]
  /\ Since \in 1 .. MaxTime /\ Until \in Since .. MaxTime
  /\ Clearance \in Nat /\ MaxDelay \in 0 .. Clearance
  /\ OffsetValues \subseteq Nat /\ LimitValues \subseteq Nat
  /\ MaxLines \in Nat

VARIABLES
  logs,      \* the log files: the lines of each, in order of writing
  clock,     \* the time of the newest record
  offset, limit,
  phase,     \* "idle", "opening", "paging", "counting" and "done", or "failed"
  paths,     \* the files that are still to be opened
  scanners,  \* the open ones: the file, the line it stands on
  scanned,   \* fileScannerSet.Scan has been called
  count,     \* PagingScanner.count
  page,      \* the records of the page
  opened     \* history variable: what there was to find when the log was opened, and still is

request == <<offset, limit>>
readerVars == <<phase, paths, scanners, scanned, count, page>>
vars == <<logs, clock, request, readerVars, opened>>

-----------------------------------------------------------------------------
(* Lines.  A "match" is a record the query selects, an "other" one it does   *)
(* not; a "long" one does not fit the buffer of the reader, and "garbage" is *)
(* no record.                                                                *)

Kinds == {"match", "other", "long", "garbage"}
Files == {FileOf[t] : t \in DOMAIN FileOf}

InPeriod(line) ==
  line.kind \in {"match", "other"} /\ Since <= line.time /\ line.time < Until

EndsScanAtOnce(line) ==
  \/ line.kind = "long"
  \/ line.kind # "garbage" /\ line.time > Until

\* ReadSlice still says ErrBufferFull when the long line has been read; a record
\* beyond the clearance is the other line that ends the scan of a file.
EndsScan(line) ==
  \/ line.kind = "long"
  \/ line.kind # "garbage" /\ line.time > Until + Clearance

\* fileScanner.Scan from line k on: the line it stops at, or one past the end.
Hits(f, k) == {i \in k .. Len(logs[f]) : InPeriod(logs[f][i]) \/ EndsScan(logs[f][i])}
ScanFile(f, k) == IF Hits(f, k) = {} THEN Len(logs[f]) + 1 ELSE Min(Hits(f, k))
Found(f, i) == i <= Len(logs[f]) /\ InPeriod(logs[f][i])

-----------------------------------------------------------------------------
(* fileScannerSet.                                                          *)

LineOf(s) == logs[s.file][s.line]

EarliestFirst(ss) == 1

\* updateEarliest: the first scanner with the earliest record.
Earliest(ss) ==
  Min({i \in DOMAIN ss : \A k \in DOMAIN ss : LineOf(ss[i]).time <= LineOf(ss[k]).time})

WithoutScanner(i) == SubSeq(scanners, 1, i - 1) \o SubSeq(scanners, i + 1, Len(scanners))

\* The scanners after another Scan, the one that stands on the earliest record having
\* gone on or having been closed.
Advance ==
  LET e == Earliest(scanners)
      f == scanners[e].file
      i == ScanFile(f, scanners[e].line + 1)
  IN  IF Found(f, i) THEN [scanners EXCEPT ![e].line = i] ELSE WithoutScanner(e)

Advanced == IF ~scanned \/ scanners = <<>> THEN scanners ELSE Advance

\* One Scan of the set: whether there is a record, and which.
Scan ==
  /\ scanned' = TRUE
  /\ scanners' = Advanced
HasRecord == Advanced # <<>>
Current == Advanced[Earliest(Advanced)]
Matches == LineOf(Current).kind = "match"

-----------------------------------------------------------------------------
(* The request.                                                             *)

\* ListBetween: the existing files whose names fit the period, in the order of Glob.
ListBetween ==
  LET fits == {f \in Files : logs[f] # <<>> /\ \E t \in Since .. Until : FileOf[t] = f}
  IN  [i \in 1 .. Cardinality(fits) |->
         CHOOSE f \in fits : Cardinality({g \in fits : g < f}) = i - 1]

\* The records somebody asks for, and those that no long line hides from a scan of
\* the whole file.
Asked ==
  UNION {{<<f, i>> : i \in {k \in DOMAIN logs[f] : logs[f][k].kind = "match" /\ InPeriod(logs[f][k])}} :
           f \in Files}
Readable == {p \in Asked : \A k \in 1 .. p[2] : logs[p[1]][k].kind # "long"}

Open ==
  /\ phase = "idle"
  /\ phase' = "opening"
  /\ paths' = ListBetween
  /\ opened' = Readable
  /\ UNCHANGED <<logs, clock, request, scanners, scanned, count, page>>

\* newFileScanner: searchLog leaves nothing that is asked for behind; a file without
\* a record of the period is closed again.
OpenFile ==
  /\ phase = "opening" /\ paths # <<>>
  /\ LET f == Head(paths)
     IN  \E k \in 1 .. Len(logs[f]) + 1 :
           /\ \A i \in 1 .. k - 1 : logs[f][i].kind # "garbage" => logs[f][i].time < Since
           /\ LET i == ScanFile(f, k)
              IN  scanners' = IF Found(f, i) THEN Append(scanners, [file |-> f, line |-> i])
                              ELSE scanners
  /\ paths' = Tail(paths)
  /\ UNCHANGED <<logs, clock, request, phase, scanned, count, page, opened>>

\* A file that has been removed since it was listed is passed over.
SkipRemoved ==
  /\ phase = "opening" /\ paths # <<>>
  /\ logs' = [logs EXCEPT ![Head(paths)] = <<>>]
  /\ opened' = {p \in opened : p[1] # Head(paths)}
  /\ paths' = Tail(paths)
  /\ UNCHANGED <<clock, request, phase, scanners, scanned, count, page>>

\* One that cannot be opened or searched ends the request: what is open is closed, and the
\* answer is an error.
FailToOpen ==
  /\ phase = "opening" /\ paths # <<>>
  /\ phase' = "failed"
  /\ paths' = <<>> /\ scanners' = <<>>
  /\ UNCHANGED <<logs, clock, request, scanned, count, page, opened>>

StartPaging ==
  /\ phase = "opening" /\ paths = <<>>
  /\ phase' = "paging"
  /\ UNCHANGED <<logs, clock, request, paths, scanners, scanned, count, page, opened>>

LimitReachedLate == limit # 0 /\ limit < count - offset
LimitReachedByCount == limit # 0 /\ limit <= count
LimitReached == limit # 0 /\ limit <= count - offset

\* FilterScanner passes over a record the query does not select.
PassOver ==
  /\ phase \in {"paging", "counting"}
  /\ phase = "paging" => count < offset \/ ~LimitReached
  /\ Scan
  /\ HasRecord /\ ~Matches
  /\ UNCHANGED <<logs, clock, request, phase, paths, count, page, opened>>

SkipRecord ==
  /\ phase = "paging" /\ count < offset
  /\ Scan
  /\ HasRecord /\ Matches
  /\ count' = count + 1
  /\ UNCHANGED <<logs, clock, request, phase, paths, page, opened>>

TakeRecord ==
  /\ phase = "paging" /\ count >= offset /\ ~LimitReached
  /\ Scan
  /\ HasRecord /\ Matches
  /\ count' = count + 1
  /\ page' = Append(page, <<Current.file, Current.line>>)
  /\ UNCHANGED <<logs, clock, request, phase, paths, opened>>

\* Nothing is left, before or on the page.
EndOfLog ==
  /\ phase = "paging"
  /\ count < offset \/ ~LimitReached
  /\ Scan
  /\ ~HasRecord
  /\ phase' = "counting"
  /\ UNCHANGED <<logs, clock, request, paths, count, page, opened>>

EndOfPage ==
  /\ phase = "paging" /\ count >= offset /\ LimitReached
  /\ phase' = "counting"
  /\ UNCHANGED <<logs, clock, request, paths, scanners, scanned, count, page, opened>>

\* ScanTotal.
CountRecord ==
  /\ phase = "counting"
  /\ Scan
  /\ HasRecord /\ Matches
  /\ count' = count + 1
  /\ UNCHANGED <<logs, clock, request, phase, paths, page, opened>>

Finish ==
  /\ phase = "counting"
  /\ Scan
  /\ ~HasRecord
  /\ phase' = "done"
  /\ UNCHANGED <<logs, clock, request, paths, count, page, opened>>

-----------------------------------------------------------------------------

\* The writer, before and while the log is read.
Write(time, kind) ==
  /\ phase \notin {"done", "failed"}
  /\ FoldFunction(LAMBDA log, n : Len(log) + n, 0, logs) < MaxLines
  /\ clock <= time + MaxDelay
  /\ clock' = Max({clock, time})
  /\ logs' = [logs EXCEPT ![FileOf[time]] = Append(@, [time |-> time, kind |-> kind])]
  /\ UNCHANGED <<request, readerVars, opened>>

Terminated == phase \in {"done", "failed"} /\ UNCHANGED vars

Init ==
  /\ logs = [f \in Files |-> <<>>]
  /\ clock = 1
  /\ offset \in OffsetValues
  /\ limit \in LimitValues
  /\ phase = "idle"
  /\ paths = <<>>
  /\ scanners = <<>>
  /\ scanned = FALSE
  /\ count = 0
  /\ page = <<>>
  /\ opened = {}

Next ==
  \/ Open \/ OpenFile \/ SkipRemoved \/ FailToOpen \/ StartPaging
  \/ PassOver \/ SkipRecord \/ TakeRecord \/ EndOfLog \/ EndOfPage
  \/ CountRecord \/ Finish
  \/ \E time \in 1 .. MaxTime, kind \in Kinds : Write(time, kind)
  \/ Terminated

Spec == Init /\ [][Next]_vars

-----------------------------------------------------------------------------

OnPage == {page[i] : i \in DOMAIN page}
Line(p) == logs[p[1]][p[2]]

\* The reading finds every record of the period, however late it was written ("To make
\* sure find all records, make 70 minutes clearance"), and the total counts it: all
\* there were when the log was opened, but those of files removed before they could be
\* opened, and none that is not there in the end.  A line that is longer than the reader's
\* buffer hides the rest of its file.
FindsAll ==
  phase = "done" =>
    /\ Cardinality(opened) <= count /\ count <= Cardinality(Asked)
    /\ offset = 0 /\ limit = 0 => opened \subseteq OnPage /\ OnPage \subseteq Asked

\* A page has as many of the total as its offset and limit ask for, so that following
\* the `next' links ends exactly with the last record (PagingScanner and ScanTotal,
\* which share one counter).
PageIsFull ==
  phase = "done" =>
    LET left == IF count < offset THEN 0 ELSE count - offset
    IN  Len(page) = IF limit = 0 THEN left ELSE Min({limit, left})

\* No record is shown twice, and the files are merged in the order of time as far as
\* each of them is in that order (fileScannerSet).
MergedByTime ==
  /\ \A i, k \in DOMAIN page : i # k => page[i] # page[k]
  /\ (\A f \in Files : \A i, k \in DOMAIN logs[f] : i < k => logs[f][i].time <= logs[f][k].time) =>
       \A i, k \in DOMAIN page : i < k => Line(page[i]).time <= Line(page[k]).time
===============================================================================
