--------------------------- MODULE LogWriterProofs ---------------------------
(***************************************************************************)
(* Theorems about LogWriter, for any number of files and of records, any   *)
(* rotation of the files and any failure of the disk.                      *)
(***************************************************************************)
EXTENDS LogWriter, SequenceTheorems, TLAPS

File == [path : Paths, lines : Seq(Nat)]

\* The types of the variables.
TypeOK ==
  /\ sent \in Seq(Paths)
  /\ taken \in 0 .. Len(sent)
  /\ closed \in BOOLEAN
  /\ pc \in {"waiting", "opening", "writing", "stopped"}
  /\ f \in 0 .. Len(inodes)
  /\ fpath \in Paths
  /\ timer \in BOOLEAN
  /\ healthy \in BOOLEAN
  /\ failed \in SUBSET Nat
  /\ entry \in [Paths -> 0 .. Len(inodes)]
  /\ inodes \in Seq(File)

\* The writer is done with the records up to this one.
Done == IF pc \in {"opening", "writing"} THEN taken - 1 ELSE taken

\* The file x of a writer that is done with the first n records of s.
FileOK(x, s, n) ==
  /\ \A k \in DOMAIN x.lines : x.lines[k] \in 1 .. n /\ s[x.lines[k]] = x.path
  /\ \A k, m \in DOMAIN x.lines : k < m => x.lines[k] < x.lines[m]

\* What the directory and the handle lead to has their name.
HandleOK ==
  /\ \A p \in Paths : entry[p] # None => inodes[entry[p]].path = p
  /\ f # None => inodes[f].path = fpath
  /\ pc \in {"opening", "writing"} => taken # 0
  /\ pc = "opening" => f = None
  /\ pc = "writing" => f # None /\ fpath = Path

\* The inductive invariant.  FiledByName needs the handle to have the name of the
\* record that is about to be written, and all lines to be of records before it.
WriterInv ==
  /\ TypeOK
  /\ \A i \in DOMAIN inodes : FileOK(inodes[i], sent, Done)
  /\ HandleOK
  /\ WrittenOrReported
-----------------------------------------------------------------------------
(* Files.                                                                   *)

\* A file stays right when more is sent, and when the writer gets on.
LEMMA FileStaysOK ==
  ASSUME NEW x \in File, NEW s \in Seq(Paths), NEW t \in Seq(Paths), NEW n \in 0 .. Len(s), NEW m \in Nat,
         n <= m, \A i \in 1 .. Len(s) : t[i] = s[i],
         FileOK(x, s, n)
  PROVE  FileOK(x, t, m)
<1>1. ASSUME NEW k \in DOMAIN x.lines
      PROVE  x.lines[k] \in 1 .. m /\ t[x.lines[k]] = x.path
  <2>1. x.lines[k] \in 1 .. n /\ s[x.lines[k]] = x.path
    BY DEF FileOK
  <2>2. x.lines[k] \in 1 .. Len(s) /\ Len(s) \in Nat
    BY <2>1
  <2> QED
    BY <2>1, <2>2
<1> QED
  BY <1>1 DEF FileOK

\* So it does when the next record of its name is appended.
LEMMA AppendedFileOK ==
  ASSUME NEW x \in File, NEW s, NEW n \in Nat \ {0}, FileOK(x, s, n - 1), s[n] = x.path
  PROVE  /\ [x EXCEPT !.lines = Append(@, n)] \in File
         /\ FileOK([x EXCEPT !.lines = Append(@, n)], s, n)
<1> DEFINE y == [x EXCEPT !.lines = Append(@, n)]
           L == Len(x.lines)
<1>1. /\ x.lines \in Seq(Nat)
      /\ L \in Nat
      /\ DOMAIN x.lines = 1 .. L
  BY DEF File
<1>2. /\ y.path = x.path
      /\ y.lines \in Seq(Nat)
      /\ DOMAIN y.lines = 1 .. L + 1
      /\ y.lines[L + 1] = n
      /\ \A k \in 1 .. L : y.lines[k] = x.lines[k]
  BY <1>1 DEF File
<1>3. y \in File
  BY <1>2 DEF File
<1> HIDE DEF y, L
<1>4. \A k \in 1 .. L : x.lines[k] \in 1 .. n - 1 /\ s[x.lines[k]] = x.path
  BY <1>1 DEF FileOK
<1>5. ASSUME NEW k \in 1 .. L + 1 PROVE y.lines[k] \in 1 .. n /\ s[y.lines[k]] = y.path
  <2>1. CASE k = L + 1
    BY <1>2, <2>1
  <2>2. CASE k # L + 1
    <3>1. k \in 1 .. L
      BY <1>1, <2>2
    <3> QED
      BY <1>2, <1>4, <3>1
  <2> QED
    BY <2>1, <2>2
<1>6. ASSUME NEW k \in 1 .. L + 1, NEW m \in 1 .. L + 1, k < m PROVE y.lines[k] < y.lines[m]
  <2>1. k \in 1 .. L
    BY <1>1, <1>6
  <2>2. CASE m = L + 1
    BY <1>2, <1>4, <2>1, <2>2
  <2>3. CASE m # L + 1
    <3>1. m \in 1 .. L
      BY <1>1, <2>3
    <3> QED
      BY <1>1, <1>2, <1>6, <2>1, <3>1 DEF FileOK
  <2> QED
    BY <2>2, <2>3
<1> QED
  BY <1>2, <1>3, <1>5, <1>6 DEF FileOK, y

Lines(I) == UNION {Range(I[i].lines) : i \in DOMAIN I}

\* Creating a file brings no line to the disk, writing to one brings that line.
LEMMA LinesOfCreate ==
  ASSUME NEW I \in Seq(File), NEW p \in Paths
  PROVE  Lines(Append(I, [path |-> p, lines |-> <<>>])) = Lines(I)
<1> DEFINE x == [path |-> p, lines |-> <<>>]
           J == Append(I, x)
<1>1. /\ Len(I) \in Nat
      /\ DOMAIN I = 1 .. Len(I)
      /\ DOMAIN J = 1 .. Len(I) + 1
      /\ \A i \in 1 .. Len(I) : J[i] = I[i]
      /\ J[Len(I) + 1] = x
  OBVIOUS
<1>2. Range(x.lines) = {}
  BY DEF Range
<1> HIDE DEF x, J
<1>3. ASSUME NEW l PROVE l \in Lines(J) <=> l \in Lines(I)
  <2>1. l \in Lines(J) <=> \E i \in 1 .. Len(I) + 1 : l \in Range(J[i].lines)
    BY <1>1 DEF Lines
  <2>2. l \in Lines(I) <=> \E i \in 1 .. Len(I) : l \in Range(I[i].lines)
    BY <1>1 DEF Lines
  <2> QED
    BY <1>1, <1>2, <2>1, <2>2
<1> QED
  BY <1>3 DEF J, x

\* What is on the disk after a line was appended to one file.
LEMMA LinesOfWrite ==
  ASSUME NEW I \in Seq(File), NEW g \in 1 .. Len(I), NEW n
  PROVE  Lines([I EXCEPT ![g].lines = Append(@, n)]) = Lines(I) \cup {n}
<1> DEFINE J == [I EXCEPT ![g].lines = Append(@, n)]
<1>1. I[g] \in File
  BY ElementOfSeq
<1>2. /\ DOMAIN I = 1 .. Len(I)
      /\ DOMAIN J = 1 .. Len(I)
      /\ \A i \in 1 .. Len(I) : i # g => J[i] = I[i]
      /\ J[g].lines = Append(I[g].lines, n)
  BY <1>1 DEF File
<1>3. Range(J[g].lines) = Range(I[g].lines) \cup {n}
  <2> DEFINE L == Len(I[g].lines)
  <2>1. /\ L \in Nat
        /\ DOMAIN I[g].lines = 1 .. L
        /\ DOMAIN J[g].lines = 1 .. L + 1
        /\ J[g].lines[L + 1] = n
        /\ \A k \in 1 .. L : J[g].lines[k] = I[g].lines[k]
    BY <1>1, <1>2 DEF File
  <2> HIDE DEF J, L
  <2>2. \A k \in 1 .. L + 1 : k = L + 1 \/ k \in 1 .. L
    BY <2>1
  <2>3. /\ \A k \in 1 .. L : k \in 1 .. L + 1
        /\ L + 1 \in 1 .. L + 1
    BY <2>1
  <2>4. ASSUME NEW y PROVE (\E k \in 1 .. L + 1 : y = J[g].lines[k])
                             <=> (\E k \in 1 .. L : y = I[g].lines[k]) \/ y = n
    <3>1. ASSUME NEW k \in 1 .. L + 1, y = J[g].lines[k]
          PROVE  (\E j \in 1 .. L : y = I[g].lines[j]) \/ y = n
      BY <2>1, <2>2, <3>1
    <3>2. ASSUME NEW k \in 1 .. L, y = I[g].lines[k]
          PROVE  \E j \in 1 .. L + 1 : y = J[g].lines[j]
      BY <2>1, <2>3, <3>2, Zenon
    <3>3. y = n => \E j \in 1 .. L + 1 : y = J[g].lines[j]
      BY <2>1, <2>3, Zenon
    <3> QED
      BY <3>1, <3>2, <3>3
  <2>5. ASSUME NEW y
        PROVE  y \in Range(J[g].lines) <=> y \in Range(I[g].lines) \cup {n}
    <3>1. y \in Range(J[g].lines) <=> \E k \in 1 .. L + 1 : y = J[g].lines[k]
      BY <2>1 DEF Range
    <3>2. y \in Range(I[g].lines) <=> \E k \in 1 .. L : y = I[g].lines[k]
      BY <2>1 DEF Range
    <3>3. y \in Range(I[g].lines) \cup {n} <=> y \in Range(I[g].lines) \/ y = n
      OBVIOUS
    <3> QED
      BY <2>4, <3>1, <3>2, <3>3, Zenon
  <2> QED
    BY <2>5
<1> HIDE DEF J
<1>4. ASSUME NEW l PROVE l \in Lines(J) <=> l \in Lines(I) \cup {n}
  <2>1. l \in Lines(J) <=> \E i \in 1 .. Len(I) : l \in Range(J[i].lines)
    BY <1>2 DEF Lines
  <2>2. l \in Lines(I) <=> \E i \in 1 .. Len(I) : l \in Range(I[i].lines)
    BY <1>2 DEF Lines
  <2> QED
    BY <1>2, <1>3, <2>1, <2>2
<1> QED
  BY <1>4 DEF J
-----------------------------------------------------------------------------
(* The steps.                                                               *)

FilesOK == \A i \in DOMAIN inodes : FileOK(inodes[i], sent, Done)

\* A step that leaves the files alone, and is done with the same records, keeps them right.
LEMMA SameFilesOK ==
  ASSUME TypeOK, FilesOK, Done \in 0 .. Len(sent), UNCHANGED <<sent, inodes>>, Done' = Done
  PROVE  FilesOK' /\ OnDisk' = OnDisk
<1>1. sent' = sent /\ inodes' = inodes
  OBVIOUS
<1> QED
  BY <1>1 DEF FilesOK, FileOK, OnDisk

\* No more records were taken than were sent.
LEMMA DoneType ==
  ASSUME TypeOK, HandleOK
  PROVE  Done \in 0 .. Len(sent) /\ taken \in Nat /\ Len(sent) \in Nat
  BY DEF TypeOK, HandleOK, Done

\* A record that was received is neither written nor failed yet.
LEMMA ReceiveKeeps ==
  ASSUME WriterInv, Receive PROVE WriterInv'
<1> USE DEF Receive
<1>1. /\ TypeOK /\ FilesOK /\ HandleOK /\ WrittenOrReported
      /\ taken \in Nat /\ Len(sent) \in Nat /\ taken < Len(sent)
      /\ UNCHANGED <<sent, entry, inodes, failed, fpath, closed>>
      /\ taken' = taken + 1
  BY DoneType DEF WriterInv, FilesOK, diskVars
<1>2. Done' = Done /\ Done = taken
  <2>1. pc = "waiting" /\ pc' \in {"opening", "writing"}
    OBVIOUS
  <2> QED
    BY <1>1, <2>1 DEF Done
<1>3. TypeOK'
  <2>1. sent' = sent /\ inodes' = inodes /\ entry' = entry /\ failed' = failed /\ fpath' = fpath /\ closed' = closed
    BY <1>1
  <2>2. taken' \in 0 .. Len(sent')
    BY <1>1
  <2>3. pc' \in {"opening", "writing"} /\ healthy' \in BOOLEAN
    OBVIOUS
  <2>4. f' \in 0 .. Len(inodes')
    <3>1. f' = f \/ f' = 0
      BY DEF None
    <3>2. f \in 0 .. Len(inodes) /\ Len(inodes) \in Nat
      BY <1>1 DEF TypeOK
    <3> QED
      BY <2>1, <3>1, <3>2
  <2>5. timer' \in BOOLEAN
    BY <1>1 DEF TypeOK
  <2> QED
    BY <1>1, <2>1, <2>2, <2>3, <2>4, <2>5 DEF TypeOK
<1>4. FilesOK' /\ OnDisk' = OnDisk
  BY <1>1, <1>2, SameFilesOK, DoneType
<1>5. HandleOK'
  <2>1. \A p \in Paths : entry'[p] # None => inodes'[entry'[p]].path = p
    BY <1>1 DEF HandleOK
  <2>2. taken' # 0
    BY <1>1
  <2>3. CASE f # None /\ fpath = sent[taken + 1]
    <3>1. pc' = "writing" /\ f' = f /\ Path' = fpath'
      BY <1>1, <2>3 DEF Path
    <3> QED
      BY <1>1, <2>1, <2>2, <2>3, <3>1 DEF HandleOK
  <2>4. CASE ~(f # None /\ fpath = sent[taken + 1])
    BY <1>1, <2>1, <2>2, <2>4 DEF HandleOK
  <2> QED
    BY <2>3, <2>4
<1>6. WrittenOrReported'
  BY <1>1, <1>2, <1>4 DEF WrittenOrReported, Done
<1> QED
  BY <1>3, <1>4, <1>5, <1>6 DEF WriterInv, FilesOK

\* A file that is opened is the one of the path, or a new and empty one.
LEMMA OpenKeeps ==
  ASSUME WriterInv, Open PROVE WriterInv'
<1> USE DEF Open
<1>1. /\ TypeOK /\ FilesOK /\ HandleOK /\ WrittenOrReported
      /\ taken \in Nat /\ taken # 0 /\ taken \in 1 .. Len(sent) /\ Len(sent) \in Nat
      /\ Done \in 0 .. Len(sent)
      /\ UNCHANGED <<sent, failed, closed, taken>>
      /\ pc = "opening" /\ pc' = "writing" /\ fpath' = Path
      /\ timer' = TRUE
  BY DoneType DEF WriterInv, FilesOK, HandleOK, TypeOK
<1>2. Done' = Done
  BY <1>1 DEF Done
<1>3. Path \in Paths /\ Path' = Path
  <2>1. sent \in Seq(Paths)
    BY <1>1 DEF TypeOK
  <2> QED
    BY <1>1, <2>1, ElementOfSeq DEF Path
<1>4. healthy' \in BOOLEAN
  BY <1>1 DEF TypeOK
<1>5. CASE entry[Path] # None
  <2>1. UNCHANGED <<entry, inodes>> /\ f' = entry[Path]
    BY <1>5 DEF diskVars
  <2>2. FilesOK' /\ OnDisk' = OnDisk
    BY <1>1, <1>2, <2>1, SameFilesOK
  <2>3. TypeOK'
    <3>1. f' \in 0 .. Len(inodes')
      BY <1>1, <1>3, <2>1 DEF TypeOK
    <3> QED
      BY <1>1, <1>3, <1>4, <2>1, <3>1 DEF TypeOK
  <2>4. HandleOK'
    BY <1>1, <1>3, <1>5, <2>1 DEF HandleOK
  <2>5. WrittenOrReported'
    BY <1>1, <2>2 DEF WrittenOrReported
  <2> QED
    BY <2>2, <2>3, <2>4, <2>5 DEF WriterInv, FilesOK
<1>6. CASE entry[Path] = None
  <2> DEFINE x == [path |-> Path, lines |-> <<>>]
             n == Len(inodes) + 1
  <2>1. /\ inodes' = Append(inodes, x)
        /\ entry' = [entry EXCEPT ![Path] = n]
        /\ f' = n
    BY <1>6
  <2>2. x \in File /\ FileOK(x, sent, Done)
    BY <1>3 DEF File, FileOK
  <2>3. OnDisk' = OnDisk
    <3>1. inodes \in Seq(File)
      BY <1>1 DEF TypeOK
    <3>2. OnDisk = Lines(inodes) /\ OnDisk' = Lines(inodes')
      BY DEF OnDisk, Lines
    <3> QED
      BY <1>3, <2>1, <3>1, <3>2, LinesOfCreate
  <2>4. /\ inodes \in Seq(File) /\ Len(inodes) \in Nat
        /\ DOMAIN inodes = 1 .. Len(inodes)
        /\ entry \in [Paths -> 0 .. Len(inodes)]
    BY <1>1 DEF TypeOK
  <2>5. /\ inodes' \in Seq(File)
        /\ Len(inodes') = n
        /\ DOMAIN inodes' = 1 .. n
        /\ \A i \in 1 .. Len(inodes) : inodes'[i] = inodes[i]
        /\ inodes'[n] = x
    <3> HIDE DEF x
    <3> QED
      BY <2>1, <2>2, <2>4
  <2>6. FilesOK'
    <3>1. ASSUME NEW i \in 1 .. n PROVE FileOK(inodes'[i], sent, Done)
      <4>1. CASE i = n
        BY <2>2, <2>5, <4>1
      <4>2. CASE i # n
        BY <1>1, <2>4, <2>5, <4>2 DEF FilesOK
      <4> QED
        BY <4>1, <4>2
    <3> QED
      BY <1>1, <1>2, <2>5, <3>1 DEF FilesOK, FileOK
  <2>7. TypeOK'
    <3>1. entry' \in [Paths -> 0 .. n]
      <4>1. n \in 0 .. n /\ \A p \in Paths : entry[p] \in 0 .. n
        BY <2>4
      <4> QED
        BY <2>1, <2>4, <4>1
    <3> QED
      BY <1>1, <1>3, <1>4, <2>1, <2>4, <2>5, <3>1 DEF TypeOK
  <2>8. HandleOK'
    <3>1. ASSUME NEW p \in Paths, entry'[p] # None PROVE inodes'[entry'[p]].path = p
      <4>1. CASE p = Path
        BY <1>3, <2>1, <2>4, <2>5, <4>1
      <4>2. CASE p # Path
        <5>1. entry'[p] = entry[p] /\ entry[p] \in 1 .. Len(inodes)
          BY <2>1, <2>4, <3>1, <4>2 DEF None
        <5> QED
          BY <1>1, <2>5, <3>1, <5>1 DEF HandleOK
      <4> QED
        BY <4>1, <4>2
    <3>2. f' # None /\ inodes'[f'].path = fpath'
      BY <1>1, <2>1, <2>4, <2>5 DEF None
    <3> QED
      BY <1>1, <1>3, <3>1, <3>2 DEF HandleOK
  <2>9. WrittenOrReported'
    BY <1>1, <2>3 DEF WrittenOrReported
  <2> QED
    BY <2>6, <2>7, <2>8, <2>9 DEF WriterInv, FilesOK
<1> QED
  BY <1>5, <1>6

\* The record of a file that cannot be opened is reported as not written.
LEMMA FailToOpenKeeps ==
  ASSUME WriterInv, FailToOpen PROVE WriterInv'
<1> USE DEF FailToOpen
<1>1. /\ TypeOK /\ FilesOK /\ HandleOK /\ WrittenOrReported
      /\ taken \in Nat /\ taken # 0 /\ taken \in 1 .. Len(sent) /\ Len(sent) \in Nat
      /\ UNCHANGED <<sent, closed, taken, f, timer, entry, inodes>>
      /\ pc = "opening" /\ pc' = "waiting" /\ fpath' = Path
      /\ f = None /\ healthy' = FALSE /\ failed' = failed \cup {taken}
      /\ Done = taken - 1 /\ Done' = taken
  BY DoneType DEF WriterInv, FilesOK, HandleOK, TypeOK, diskVars, Done
<1>2. TypeOK'
  <2>1. Path \in Paths
    <3>1. sent \in Seq(Paths)
      BY <1>1 DEF TypeOK
    <3> QED
      BY <1>1, <3>1, ElementOfSeq DEF Path
  <2>2. failed' \in SUBSET Nat
    BY <1>1 DEF TypeOK
  <2> QED
    BY <1>1, <2>1, <2>2 DEF TypeOK
<1>3. FilesOK'
  <2>1. ASSUME NEW i \in DOMAIN inodes PROVE FileOK(inodes[i], sent, taken)
    <3>1. inodes[i] \in File /\ sent \in Seq(Paths)
      BY <1>1, ElementOfSeq DEF TypeOK
    <3>2. FileOK(inodes[i], sent, taken - 1)
      BY <1>1 DEF FilesOK
    <3>3. taken - 1 \in 0 .. Len(sent) /\ taken - 1 <= taken
      BY <1>1
    <3> QED
      BY <1>1, <3>1, <3>2, <3>3, FileStaysOK
  <2> QED
    BY <1>1, <2>1 DEF FilesOK, FileOK
<1>4. HandleOK'
  BY <1>1 DEF HandleOK
<1>5. WrittenOrReported'
  <2>1. OnDisk' = OnDisk
    BY <1>1 DEF OnDisk
  <2>2. 1 .. taken - 1 = OnDisk \cup failed
    BY <1>1 DEF WrittenOrReported
  <2>3. 1 .. taken = (1 .. taken - 1) \cup {taken}
    BY <1>1
  <2> QED
    BY <1>1, <2>1, <2>2, <2>3 DEF WrittenOrReported
<1> QED
  BY <1>2, <1>3, <1>4, <1>5 DEF WriterInv, FilesOK

\* A line is appended to the file that was opened for its record, or reported as not written.
LEMMA WriteKeeps ==
  ASSUME WriterInv, Write PROVE WriterInv'
<1> USE DEF Write
<1>1. /\ TypeOK /\ FilesOK /\ HandleOK /\ WrittenOrReported
      /\ taken \in Nat /\ taken # 0 /\ taken \in 1 .. Len(sent) /\ Len(sent) \in Nat
      /\ UNCHANGED <<sent, closed, taken, f, fpath, timer, entry>>
      /\ pc = "writing" /\ pc' = "waiting"
      /\ f # None /\ fpath = Path
      /\ Done = taken - 1 /\ Done' = taken
  BY DoneType DEF WriterInv, FilesOK, HandleOK, TypeOK, Done
<1>2. /\ inodes \in Seq(File) /\ sent \in Seq(Paths)
      /\ f \in 1 .. Len(inodes)
      /\ Len(inodes) \in Nat
      /\ DOMAIN inodes = 1 .. Len(inodes)
      /\ \A i \in 1 .. Len(inodes) : inodes[i] \in File /\ FileOK(inodes[i], sent, taken - 1)
  <2>1. inodes \in Seq(File) /\ sent \in Seq(Paths)
    BY <1>1 DEF TypeOK
  <2>2. \A i \in 1 .. Len(inodes) : inodes[i] \in File
    BY <2>1, ElementOfSeq
  <2>3. \A i \in 1 .. Len(inodes) : FileOK(inodes[i], sent, taken - 1)
    BY <1>1, <2>1 DEF FilesOK
  <2> QED
    BY <1>1, <2>1, <2>2, <2>3 DEF TypeOK, None
<1>3. \A i \in 1 .. Len(inodes) : FileOK(inodes[i], sent, taken)
  <2>1. taken - 1 \in 0 .. Len(sent) /\ taken - 1 <= taken
    BY <1>1
  <2> QED
    BY <1>1, <1>2, <2>1, FileStaysOK
<1>4. 1 .. taken - 1 = OnDisk \cup failed
  BY <1>1 DEF WrittenOrReported
<1>5. 1 .. taken = (1 .. taken - 1) \cup {taken}
  BY <1>1
<1>6. CASE /\ inodes' = [inodes EXCEPT ![f].lines = Append(@, taken)]
           /\ UNCHANGED <<healthy, failed>>
  <2> DEFINE x == [inodes[f] EXCEPT !.lines = Append(@, taken)]
  <2>1. x \in File /\ FileOK(x, sent, taken) /\ x.path = inodes[f].path
    <3>1. inodes[f].path = sent[taken] /\ taken \in Nat \ {0}
      BY <1>1 DEF HandleOK, Path
    <3>2. x \in File /\ FileOK(x, sent, taken)
      BY <1>2, <3>1, AppendedFileOK
    <3>3. x.path = inodes[f].path
      BY <1>2 DEF File
    <3> QED
      BY <3>2, <3>3
  <2>2. inodes' = [inodes EXCEPT ![f] = x]
    BY <1>6
  <2> HIDE DEF x
  <2>3. /\ inodes' \in Seq(File)
        /\ Len(inodes') = Len(inodes)
        /\ DOMAIN inodes' = 1 .. Len(inodes)
        /\ \A i \in 1 .. Len(inodes) : inodes'[i] = IF i = f THEN x ELSE inodes[i]
    BY <1>2, <2>1, <2>2, ExceptSeq
  <2>4. TypeOK'
    BY <1>1, <1>6, <2>3 DEF TypeOK
  <2>5. FilesOK'
    <3>1. \A i \in 1 .. Len(inodes) : FileOK(inodes'[i], sent, taken)
      BY <1>3, <2>1, <2>3
    <3> QED
      BY <1>1, <2>3, <3>1 DEF FilesOK, FileOK
  <2>6. HandleOK'
    <3>1. \A i \in 1 .. Len(inodes) : inodes'[i].path = inodes[i].path
      BY <2>1, <2>3
    <3>2. \A p \in Paths : entry[p] # None => entry[p] \in 1 .. Len(inodes)
      BY <1>1 DEF TypeOK, None
    <3> QED
      BY <1>1, <1>2, <3>1, <3>2 DEF HandleOK
  <2>7. WrittenOrReported'
    <3>1. OnDisk' = OnDisk \cup {taken}
      <4>1. OnDisk = Lines(inodes) /\ OnDisk' = Lines(inodes')
        BY DEF OnDisk, Lines
      <4>2. PICK after : after = inodes'
        OBVIOUS
      <4>3. after = [inodes EXCEPT ![f].lines = Append(@, taken)]
        BY <1>6, <4>2
      <4>4. Lines(after) = Lines(inodes) \cup {taken}
        BY <1>2, <4>3, LinesOfWrite
      <4> QED
        BY <4>1, <4>2, <4>4
    <3>2. 1 .. taken = OnDisk' \cup failed'
      BY <1>4, <1>5, <1>6, <3>1, Zenon
    <3>3. /\ taken' = taken
          /\ ~ pc' \in {"opening", "writing"}
          /\ taken \in OnDisk'
      BY <1>1, <3>1
    <3> QED
      BY <3>2, <3>3 DEF WrittenOrReported
  <2> QED
    BY <2>4, <2>5, <2>6, <2>7 DEF WriterInv, FilesOK
<1>7. CASE /\ DiskFails
           /\ healthy' = FALSE
           /\ failed' = failed \cup {taken}
           /\ UNCHANGED inodes
  <2>1. TypeOK'
    <3>1. failed' \in SUBSET Nat
      BY <1>1, <1>7 DEF TypeOK
    <3> QED
      BY <1>1, <1>7, <3>1 DEF TypeOK
  <2>2. FilesOK'
    BY <1>1, <1>2, <1>3, <1>7 DEF FilesOK, FileOK
  <2>3. HandleOK'
    BY <1>1, <1>7 DEF HandleOK
  <2>4. WrittenOrReported'
    <3>1. OnDisk' = OnDisk
      BY <1>7 DEF OnDisk
    <3> QED
      BY <1>1, <1>4, <1>5, <1>7, <3>1 DEF WrittenOrReported
  <2> QED
    BY <2>1, <2>2, <2>3, <2>4 DEF WriterInv, FilesOK
<1> QED
  BY <1>6, <1>7
\* A step that only closes the handle, or moves or empties a name of the directory.
LEMMA HandleStepKeeps ==
  ASSUME WriterInv, CloseOnTimer \/ Stop \/ Close \/ (\E p \in Paths : Rotate(p))
  PROVE  WriterInv'
<1>1. /\ TypeOK /\ FilesOK /\ HandleOK /\ WrittenOrReported
      /\ taken \in Nat /\ Len(sent) \in Nat /\ Done \in 0 .. Len(sent)
  BY DoneType DEF WriterInv, FilesOK
<1>2. UNCHANGED <<sent, taken, fpath, failed, inodes>>
  BY DEF CloseOnTimer, Stop, Close, Rotate, writerVars, diskVars
<1>3. \/ pc' = pc /\ f' = f /\ healthy' = healthy
      \/ pc' = pc /\ pc = "waiting" /\ f' = None /\ (healthy' = healthy \/ healthy' = FALSE)
      \/ pc' = "stopped" /\ pc = "waiting" /\ f' = None
  BY DEF CloseOnTimer, Stop, Close, Rotate, CloseFile, writerVars
<1>4. Done' = Done
  BY <1>2, <1>3 DEF Done
<1>5. FilesOK' /\ OnDisk' = OnDisk
  BY <1>1, <1>2, <1>4, SameFilesOK
<1>6. entry' \in [Paths -> 0 .. Len(inodes)] /\ \A p \in Paths : entry'[p] = entry[p] \/ entry'[p] = None
  <2>1. entry \in [Paths -> 0 .. Len(inodes)] /\ 0 \in 0 .. Len(inodes)
    BY <1>1 DEF TypeOK
  <2>2. entry' = entry \/ \E p \in Paths : entry' = [entry EXCEPT ![p] = 0]
    BY DEF CloseOnTimer, Stop, Close, Rotate, diskVars, None
  <2> QED
    BY <2>1, <2>2 DEF None
<1>7. TypeOK'
  <2>1. timer' \in BOOLEAN /\ healthy' \in BOOLEAN /\ closed' \in BOOLEAN
    BY <1>1 DEF CloseOnTimer, Stop, Close, Rotate, CloseFile, writerVars, TypeOK
  <2>2. f' \in 0 .. Len(inodes)
    BY <1>1, <1>3 DEF TypeOK, None
  <2>3. pc' \in {"waiting", "opening", "writing", "stopped"}
    BY <1>1, <1>3 DEF TypeOK
  <2> QED
    BY <1>1, <1>2, <1>6, <2>1, <2>2, <2>3 DEF TypeOK
<1>8. HandleOK'
  <2>1. Path' = Path
    BY <1>2 DEF Path
  <2> QED
    BY <1>1, <1>2, <1>3, <1>6, <2>1 DEF HandleOK
<1>9. WrittenOrReported'
  BY <1>1, <1>2, <1>3, <1>5 DEF WrittenOrReported
<1> QED
  BY <1>5, <1>7, <1>8, <1>9 DEF WriterInv, FilesOK

\* What is sent is not owed to anybody before the writer receives it.
LEMMA SendKeeps ==
  ASSUME WriterInv, NEW p \in Paths, Send(p) PROVE WriterInv'
<1>1. /\ TypeOK /\ FilesOK /\ HandleOK /\ WrittenOrReported
      /\ taken \in Nat /\ Len(sent) \in Nat /\ Done \in 0 .. Len(sent)
  BY DoneType DEF WriterInv, FilesOK
<1>2. /\ sent' = Append(sent, p)
      /\ UNCHANGED <<closed, taken, pc, f, fpath, timer, healthy, failed, entry, inodes>>
  BY DEF Send, writerVars, diskVars
<1>3. /\ sent' \in Seq(Paths)
      /\ Len(sent') = Len(sent) + 1
      /\ \A i \in 1 .. Len(sent) : sent'[i] = sent[i]
  BY <1>1, <1>2 DEF TypeOK
<1>4. Done' = Done /\ OnDisk' = OnDisk
  BY <1>2 DEF Done, OnDisk
<1>5. TypeOK'
  BY <1>1, <1>2, <1>3 DEF TypeOK
<1>6. FilesOK'
  <2>1. ASSUME NEW i \in DOMAIN inodes PROVE FileOK(inodes[i], sent', Done)
    <3>1. inodes[i] \in File /\ sent \in Seq(Paths)
      BY <1>1, ElementOfSeq DEF TypeOK
    <3>2. FileOK(inodes[i], sent, Done)
      BY <1>1 DEF FilesOK
    <3>3. Done \in Nat /\ Done <= Done
      BY <1>1
    <3> QED
      BY <1>1, <1>3, <3>1, <3>2, <3>3, FileStaysOK
  <2> QED
    BY <1>2, <1>4, <2>1 DEF FilesOK, FileOK
<1>7. HandleOK'
  <2>1. taken # 0 => Path' = Path
    <3>1. taken # 0 => taken \in 1 .. Len(sent)
      BY <1>1 DEF TypeOK
    <3> QED
      BY <1>2, <1>3, <3>1 DEF Path
  <2> QED
    BY <1>1, <1>2, <2>1 DEF HandleOK
<1>8. WrittenOrReported'
  BY <1>1, <1>2, <1>4 DEF WrittenOrReported
<1> QED
  BY <1>5, <1>6, <1>7, <1>8 DEF WriterInv, FilesOK

-----------------------------------------------------------------------------
(* The theorems.                                                            *)

\* The inductive invariant holds in every behaviour.
LEMMA WriterInvariant == Spec => []WriterInv
<1>1. Init => WriterInv
  <2> SUFFICES ASSUME Init PROVE WriterInv
    OBVIOUS
  <2>1. TypeOK /\ HandleOK
    <3>1. sent = <<>> /\ inodes = <<>> /\ sent \in Seq(Paths) /\ inodes \in Seq(File) /\ Len(sent) = 0 /\ Len(inodes) = 0
      BY DEF Init
    <3>2. timer = FALSE /\ healthy = TRUE /\ closed = FALSE
      BY DEF Init
    <3>3. entry \in [Paths -> 0 .. 0]
      BY DEF Init, None
    <3>4. TypeOK
      BY <3>1, <3>2, <3>3 DEF Init, TypeOK, None
    <3> QED
      BY <3>4 DEF Init, HandleOK, None
  <2>2. WrittenOrReported
    <3>1. OnDisk = {}
      BY DEF Init, OnDisk
    <3> QED
      BY <3>1 DEF Init, WrittenOrReported
  <2> QED
    BY <2>1, <2>2 DEF Init, WriterInv
<1>2. WriterInv /\ [Next]_vars => WriterInv'
  <2> SUFFICES ASSUME WriterInv, [Next]_vars PROVE WriterInv'
    OBVIOUS
  <2>1. CASE UNCHANGED vars
    <3>1. /\ UNCHANGED <<sent, closed, taken, pc, f, fpath, timer, healthy, failed, entry, inodes>>
      BY <2>1 DEF vars, writerVars, diskVars
    <3> QED
      BY <3>1 DEF WriterInv, TypeOK, FileOK, HandleOK, WrittenOrReported, Done, OnDisk, Path
  <2> QED
    <3>1. CASE Receive \/ Open \/ FailToOpen \/ Write
      BY <3>1, ReceiveKeeps, OpenKeeps, FailToOpenKeeps, WriteKeeps
    <3>2. CASE CloseOnTimer \/ Stop \/ Close \/ (\E p \in Paths : Rotate(p))
      BY <3>2, HandleStepKeeps, Zenon
    <3>3. CASE \E p \in Paths : Send(p)
      BY <3>3, SendKeeps
    <3>4. \/ Receive \/ Open \/ FailToOpen \/ Write
          \/ CloseOnTimer \/ Stop \/ Close \/ (\E p \in Paths : Rotate(p))
          \/ \E p \in Paths : Send(p)
          \/ UNCHANGED vars
      BY Zenon DEF Next, Terminated
    <3> QED
      BY <2>1, <3>1, <3>2, <3>3, <3>4, Zenon
<1> QED
  BY <1>1, <1>2, PTL DEF Spec

\* No record ever gets into the file of another day, or before one that was reported
\* earlier, however the files are rotated and whatever fails (Store.writer).
THEOREM RecordsAreFiledByName == Spec => []FiledByName
<1>1. WriterInv => FiledByName
  BY DEF WriterInv, FileOK, FiledByName
<1> QED
  BY <1>1, WriterInvariant, PTL

\* No record is lost in silence, and /healthz is not healthy when the last one is not
\* on the disk (Store.writer).
THEOREM NoRecordLostInSilence == Spec => []WrittenOrReported
<1>1. WriterInv => WrittenOrReported
  BY DEF WriterInv
<1> QED
  BY <1>1, WriterInvariant, PTL
=============================================================================
