-------------------------- MODULE SourceLoaderProofs --------------------------
(***************************************************************************)
(* A theorem about SourceLoader for any lists, of any length and in any     *)
(* number, that may name each other at any depth.                           *)
(***************************************************************************)
EXTENDS SourceLoader, WellFoundedInduction, SequenceTheorems, TLAPS

Frames == [source : Sources, next : Nat \ {0}, invalids : SUBSET Lines, checking : BOOLEAN]

LoaderTypeOK ==
  /\ content \in [Sources -> Seq(Lines)]
  /\ readable \in SUBSET Sources
  /\ cancelled \in BOOLEAN
  /\ stack \in Seq(Frames)
  /\ ignores \in Seq(Nat)
  /\ result \in Seq(Plain)
  /\ outcome \in {"loading", "loaded", "failed", "panicked"}
  /\ cut \in BOOLEAN

\* Everything that is opened or loaded is something the root leads to.
SoundOK ==
  /\ \A i \in DOMAIN stack : stack[i].source \in Reachable
  /\ \A i \in DOMAIN result : \E u \in Reachable \cap Plain : result[i] = Normal[u]

\* What the lists of V, once opened, and the targets loaded so far account for.
Accounted(V) ==
  V \cup {u \in Plain \ Unsupported : \E i \in DOMAIN result : result[i] = Normal[u]}

\* V are the lists opened so far: each is read as far as its innermost call is, or to its
\* end, and no line of that, nor anything in `ignores', is left out.
Accounts(V) ==
  /\ V \subseteq readable
  /\ stack # <<>> \/ outcome # "loading" => Root \in V
  /\ \A i \in DOMAIN ignores : ignores[i] \in Accounted(V)
  /\ \A i \in DOMAIN stack :
       /\ stack[i].source \in V
       /\ \A k \in DOMAIN content[stack[i].source] :
            k < stack[i].next => content[stack[i].source][k] \in Accounted(V)
  /\ \A s \in V : Listed(s) \subseteq Accounted(V) \/ \E i \in DOMAIN stack : stack[i].source = s

\* Nothing has been complained about yet, and nothing cut off.
Clean ==
  /\ ~cut
  /\ outcome \notin {"failed", "panicked"}
  /\ \A i \in DOMAIN stack : stack[i].invalids = {}

\* The inductive invariant.  The code keeps no set of the lists it has opened (`ignores'
\* forgets), so there is only known to be one.
LoaderInv ==
  /\ LoaderTypeOK
  /\ outcome # "loading" => stack = <<>>
  /\ outcome = "loading" /\ stack = <<>> => ignores = <<>>
  /\ SoundOK
  /\ Clean => \E V \in SUBSET Sources : Accounts(V)

-----------------------------------------------------------------------------
(* UrlSet.                                                                  *)

\* A non-empty set of numbers has a least element.
LEMMA LeastNumber == ASSUME NEW S \in SUBSET Nat, S # {} PROVE \E x \in S : \A y \in S : x <= y
<1> DEFINE R == {p \in Nat \X Nat : p[1] < p[2]}
<1>1. IsWellFoundedOn(R, Nat)
  <2>1. OpToRel(<, Nat) = R
    BY DEF OpToRel
  <2> QED
    BY <2>1, NatLessThanWellFounded
<1>2. PICK x \in S : \A y \in S : ~(<<y, x>> \in R)
  BY <1>1, WFMin
<1>3. ASSUME NEW y \in S PROVE x <= y
  <2>1. x \in Nat /\ y \in Nat
    OBVIOUS
  <2>2. y < x => <<y, x>> \in R
    BY <2>1
  <2> QED
    BY <1>2, <2>1, <2>2
<1> QED
  BY <1>3

\* The bisection ends at an index, or one past the end.
LEMMA SearchType == ASSUME NEW s \in Seq(Nat), NEW u \in Nat PROVE Search(s, u) \in 1 .. Len(s) + 1
<1> DEFINE S == {i \in 1 .. Len(s) + 1 : i = Len(s) + 1 \/ s[i] <= u}
<1>1. Len(s) \in Nat /\ \A i \in 1 .. Len(s) : s[i] \in Nat
  OBVIOUS
<1>2. S \in SUBSET Nat /\ Len(s) + 1 \in S
  BY <1>1
<1>3. PICK i \in S : \A k \in S : i <= k
  BY <1>2, LeastNumber
<1>4. \A k \in 1 .. i - 1 : s[k] > u
  BY <1>1, <1>3
<1>5. i \in 1 .. Len(s) + 1 /\ (i = Len(s) + 1 \/ s[i] <= u)
  BY <1>3
<1> QED
  BY <1>4, <1>5 DEF Search

\* What the set has was put into it.
LEMMA HasMember == ASSUME NEW s \in Seq(Nat), NEW u \in Nat, Has(s, u) PROVE \E i \in DOMAIN s : s[i] = u
<1>1. Search(s, u) \in 1 .. Len(s) + 1
  BY SearchType
<1>2. Search(s, u) \in 1 .. Len(s) /\ DOMAIN s = 1 .. Len(s) /\ Len(s) \in Nat
  BY <1>1 DEF Has
<1> QED
  BY <1>2 DEF Has

\* Adding a URL puts nothing else into the set.  (It may put out what was there.)
LEMMA AddProperties ==
  ASSUME NEW s \in Seq(Nat), NEW u \in Nat
  PROVE  /\ Add(s, u) \in Seq(Nat)
         /\ \A i \in DOMAIN Add(s, u) : Add(s, u)[i] = u \/ \E k \in DOMAIN s : Add(s, u)[i] = s[k]
<1> DEFINE n == Search(s, u)
           before == SubSeq(s, 1, n - 1)
           after == SubSeq(s, n + 1, Len(s))
<1>1. n \in 1 .. Len(s) + 1 /\ Len(s) \in Nat /\ DOMAIN s = 1 .. Len(s)
  BY SearchType
<1> HIDE DEF n
<1>2. CASE n = Len(s) + 1
  BY <1>1, <1>2 DEF Add, n
<1>3. CASE n # Len(s) + 1 /\ s[n] = u
  BY <1>1, <1>3 DEF Add, n
<1>4. CASE n # Len(s) + 1 /\ s[n] # u
  <2>1. Add(s, u) = before \o <<u, u>> \o after
    BY <1>4 DEF Add, n
  <2>2. n \in 1 .. Len(s)
    BY <1>1, <1>4
  <2>3. /\ before \in Seq(Nat) /\ Len(before) = n - 1 /\ \A i \in 1 .. n - 1 : before[i] = s[i]
    BY <1>1, <2>2
  <2>4. /\ after \in Seq(Nat) /\ Len(after) = Len(s) - n /\ \A i \in 1 .. Len(s) - n : after[i] = s[n + i]
    <3>1. n + 1 \in Int /\ Len(s) \in Int /\ \A i \in n + 1 .. Len(s) : s[i] \in Nat
      BY <1>1, <2>2
    <3>2. /\ after \in Seq(Nat)
          /\ Len(after) = IF n + 1 <= Len(s) THEN Len(s) - (n + 1) + 1 ELSE 0
          /\ \A i \in 1 .. Len(s) - (n + 1) + 1 : after[i] = s[(n + 1) + i - 1]
      BY <3>1, SubSeqProperties
    <3>3. Len(s) - (n + 1) + 1 = Len(s) - n /\ \A i \in 1 .. Len(s) - n : (n + 1) + i - 1 = n + i
      BY <1>1, <2>2
    <3> HIDE DEF after
    <3>4. Len(after) = Len(s) - n
      <4>1. \A k, j \in Nat : j <= k => (IF j + 1 <= k THEN k - (j + 1) + 1 ELSE 0) = k - j
        OBVIOUS
      <4>2. n \in Nat /\ n <= Len(s) /\ Len(s) \in Nat
        BY <1>1, <2>2
      <4>3. (IF n + 1 <= Len(s) THEN Len(s) - (n + 1) + 1 ELSE 0) = Len(s) - n
        BY <4>1, <4>2
      <4>4. Len(after) = IF n + 1 <= Len(s) THEN Len(s) - (n + 1) + 1 ELSE 0
        BY <3>2
      <4> QED
        BY <4>3, <4>4
    <3>5. \A i \in 1 .. Len(s) - n : after[i] = s[n + i]
      BY <3>2, <3>3
    <3> QED
      BY <3>2, <3>4, <3>5
  <2> DEFINE front == before \o <<u, u>>
  <2> HIDE DEF before, after
  <2>5. /\ front \in Seq(Nat) /\ Len(front) = n + 1
        /\ \A i \in 1 .. n + 1 : front[i] = IF i <= n - 1 THEN before[i] ELSE u
    <3>1. /\ <<u, u>> \in Seq(Nat) /\ Len(<<u, u>>) = 2
          /\ \A i \in 1 .. 2 : <<u, u>>[i] = u
      OBVIOUS
    <3>2. /\ front \in Seq(Nat) /\ Len(front) = Len(before) + Len(<<u, u>>)
          /\ \A i \in 1 .. Len(before) + Len(<<u, u>>) :
               front[i] = IF i <= Len(before) THEN before[i] ELSE <<u, u>>[i - Len(before)]
      BY <2>3, <3>1, ConcatProperties
    <3> HIDE DEF front
    <3>3. Len(before) + Len(<<u, u>>) = n + 1
      BY <1>1, <2>3, <3>1
    <3>4. ASSUME NEW i \in 1 .. n + 1 PROVE front[i] = IF i <= n - 1 THEN before[i] ELSE u
      <4>1. ~(i <= n - 1) => i - (n - 1) \in 1 .. 2
        BY <1>1, <2>2
      <4> QED
        BY <2>3, <3>1, <3>2, <3>3, <4>1
    <3> QED
      BY <3>2, <3>3, <3>4
  <2>6. Add(s, u) = front \o after
    BY <2>1
  <2> HIDE DEF front
  <2>7. /\ Add(s, u) \in Seq(Nat) /\ Len(Add(s, u)) = Len(s) + 1
        /\ \A i \in 1 .. Len(s) + 1 :
             Add(s, u)[i] = IF i <= n + 1 THEN front[i] ELSE after[i - (n + 1)]
    <3>1. /\ front \o after \in Seq(Nat) /\ Len(front \o after) = Len(front) + Len(after)
          /\ \A i \in 1 .. Len(front) + Len(after) :
               (front \o after)[i] = IF i <= Len(front) THEN front[i] ELSE after[i - Len(front)]
      BY <2>4, <2>5, ConcatProperties
    <3>2. Len(front) + Len(after) = Len(s) + 1
      BY <1>1, <2>4, <2>5
    <3> QED
      BY <2>5, <2>6, <3>1, <3>2
  <2>8. ASSUME NEW i \in 1 .. Len(s) + 1
        PROVE  Add(s, u)[i] = u \/ \E k \in DOMAIN s : Add(s, u)[i] = s[k]
    <3>1. CASE i <= n - 1
      <4>1. i \in 1 .. n - 1 /\ i \in 1 .. n + 1 /\ i \in DOMAIN s
        BY <1>1, <2>2, <3>1
      <4> QED
        BY <2>3, <2>5, <2>7, <4>1
    <3>2. CASE i \in n .. n + 1
      <4>1. i \in 1 .. n + 1 /\ i <= n + 1 /\ ~(i <= n - 1)
        BY <1>1, <2>2, <3>2
      <4> QED
        BY <2>5, <2>7, <4>1
    <3>3. CASE i > n + 1
      <4>1. i - (n + 1) \in 1 .. Len(s) - n /\ ~(i <= n + 1) /\ n + (i - (n + 1)) \in DOMAIN s
        BY <1>1, <2>2, <3>3
      <4> QED
        BY <2>4, <2>7, <4>1
    <3> QED
      BY <1>1, <2>2, <3>1, <3>2, <3>3
  <2>9. DOMAIN Add(s, u) = 1 .. Len(s) + 1
    BY <2>7
  <2> QED
    BY <2>7, <2>8, <2>9
<1> QED
  BY <1>2, <1>3, <1>4

-----------------------------------------------------------------------------
(* The lists, and the stack of calls.                                       *)

\* What the root leads to is a set of lines that leads on to nothing else.
LEMMA ReachableLeads ==
  ASSUME LoaderTypeOK
  PROVE  Reachable \in SUBSET Lines /\ Leads(Reachable)
<1>1. \A s \in Sources : Listed(s) \subseteq Lines
  BY DEF LoaderTypeOK, Listed
<1>2. Root \in Lines
  BY SourceLoaderAssumption DEF Lines
<1>3. Reachable \in SUBSET Lines
  BY DEF Reachable
<1>4. Root \in Reachable
  BY <1>2 DEF Reachable, Leads
<1>5. ASSUME NEW s \in Reachable \cap Sources, NEW u \in Listed(s) PROVE u \in Reachable
  <2>1. u \in Lines
    BY <1>1, <1>5
  <2>2. ASSUME NEW S \in SUBSET Lines, Leads(S) PROVE u \in S
    <3>1. s \in S
      BY <1>5, <2>2 DEF Reachable
    <3> QED
      BY <1>5, <2>2, <3>1 DEF Leads
  <2> QED
    BY <2>1, <2>2 DEF Reachable
<1> QED
  BY <1>3, <1>4, <1>5 DEF Leads

\* The innermost call and those that wait for it.
LEMMA StackParts ==
  ASSUME stack \in Seq(Frames), stack # <<>>
  PROVE  /\ Len(stack) \in Nat \ {0} /\ DOMAIN stack = 1 .. Len(stack)
         /\ Top \in Frames
         /\ Callers \in Seq(Frames) /\ Len(Callers) = Len(stack) - 1
         /\ DOMAIN Callers = 1 .. Len(stack) - 1
         /\ \A i \in 1 .. Len(stack) - 1 : Callers[i] = stack[i]
<1>1. Len(stack) \in Nat \ {0} /\ DOMAIN stack = 1 .. Len(stack)
  BY EmptySeq, LenProperties
<1>2. Top \in Frames
  BY <1>1 DEF Top
<1>3. 1 \in Int /\ Len(stack) - 1 \in Int /\ \A i \in 1 .. Len(stack) - 1 : stack[i] \in Frames
  BY <1>1
<1>4. /\ Callers \in Seq(Frames)
      /\ Len(Callers) = IF 1 <= Len(stack) - 1 THEN Len(stack) - 1 - 1 + 1 ELSE 0
      /\ \A i \in 1 .. Len(stack) - 1 - 1 + 1 : Callers[i] = stack[1 + i - 1]
  BY <1>3, SubSeqProperties DEF Callers
<1>5. Len(Callers) = Len(stack) - 1
  <2>1. \A n \in Nat \ {0} : (IF 1 <= n - 1 THEN n - 1 - 1 + 1 ELSE 0) = n - 1
    OBVIOUS
  <2> QED
    BY <1>1, <1>4, <2>1, Zenon
<1>6. DOMAIN Callers = 1 .. Len(stack) - 1
  BY <1>4, <1>5, LenProperties
<1>7. ASSUME NEW i \in 1 .. Len(stack) - 1 PROVE Callers[i] = stack[i]
  <2>1. i \in 1 .. Len(stack) - 1 - 1 + 1 /\ 1 + i - 1 = i
    BY <1>1
  <2> QED
    BY <1>4, <2>1
<1> QED
  BY <1>1, <1>2, <1>4, <1>5, <1>6, <1>7

\* Putting a frame in the place of the innermost.
LEMMA PutTopProperties ==
  ASSUME stack \in Seq(Frames), stack # <<>>, NEW f \in Frames
  PROVE  /\ PutTop(f) \in Seq(Frames) /\ PutTop(f) # <<>>
         /\ Len(PutTop(f)) = Len(stack) /\ DOMAIN PutTop(f) = DOMAIN stack
         /\ PutTop(f)[Len(stack)] = f
         /\ \A i \in 1 .. Len(stack) - 1 : PutTop(f)[i] = stack[i]
<1>1. /\ Len(stack) \in Nat \ {0} /\ DOMAIN stack = 1 .. Len(stack)
      /\ Callers \in Seq(Frames) /\ Len(Callers) = Len(stack) - 1
      /\ \A i \in 1 .. Len(stack) - 1 : Callers[i] = stack[i]
  BY StackParts
<1>2. /\ PutTop(f) \in Seq(Frames) /\ PutTop(f) # <<>>
      /\ Len(PutTop(f)) = Len(Callers) + 1
      /\ \A i \in 1 .. Len(Callers) : PutTop(f)[i] = Callers[i]
      /\ PutTop(f)[Len(Callers) + 1] = f
  <2>1. PutTop(f) = Append(Callers, f)
    BY DEF PutTop
  <2>2. Callers \in Seq(Frames)
    BY <1>1
  <2>3. /\ Append(Callers, f) \in Seq(Frames) /\ Append(Callers, f) # <<>>
        /\ Len(Append(Callers, f)) = Len(Callers) + 1
        /\ \A i \in 1 .. Len(Callers) : Append(Callers, f)[i] = Callers[i]
        /\ Append(Callers, f)[Len(Callers) + 1] = f
    BY <2>2, AppendProperties
  <2> QED
    BY <2>1, <2>3, Zenon
<1>3. Len(Callers) + 1 = Len(stack)
  BY <1>1
<1>4. DOMAIN PutTop(f) = 1 .. Len(stack)
  BY <1>2, <1>3, LenProperties
<1> QED
  BY <1>1, <1>2, <1>3, <1>4

\* The line that is read next is one of its list's, and the root leads to it.
LEMMA LineProperties ==
  ASSUME LoaderInv, HasLine
  PROVE  /\ outcome = "loading" /\ stack # <<>> /\ ~Top.checking
         /\ stack \in Seq(Frames)
         /\ Top \in Frames /\ Top.source \in Sources
         /\ Top.next \in DOMAIN content[Top.source]
         /\ Line \in Listed(Top.source) /\ Line \in Lines /\ Line \in Reachable
<1>1. outcome = "loading" /\ stack # <<>> /\ ~Top.checking /\ Top.next <= Len(content[Top.source])
  BY DEF HasLine, Scanning
<1>2. stack \in Seq(Frames) /\ content \in [Sources -> Seq(Lines)]
  BY DEF LoaderInv, LoaderTypeOK
<1>3. Top \in Frames /\ Len(stack) \in DOMAIN stack
  BY <1>1, <1>2, StackParts
<1>4. Top.source \in Sources /\ Top.next \in Nat \ {0} /\ content[Top.source] \in Seq(Lines)
  BY <1>2, <1>3 DEF Frames
<1>5. Top.next \in DOMAIN content[Top.source]
  BY <1>1, <1>4
<1>6. Line \in Listed(Top.source) /\ Line \in Lines
  BY <1>4, <1>5 DEF Listed, Line
<1>7. Top.source \in Reachable
  BY <1>3 DEF LoaderInv, SoundOK, Top
<1>8. Line \in Reachable
  BY <1>4, <1>6, <1>7, ReachableLeads DEF LoaderInv, Leads
<1> QED
  BY <1>1, <1>2, <1>3, <1>4, <1>5, <1>6, <1>8

-----------------------------------------------------------------------------
(* The steps.                                                               *)

\* A line is read: what it adds to the targets the root leads to, and a line that is not
\* complained about is accounted for.
LEMMA ReadLineKeeps ==
  ASSUME LoaderInv, HasLine, NEW new \in SUBSET Lines, NEW check \in BOOLEAN,
         stack' = PutTop(NextLine(new, check)),
         UNCHANGED <<inputs, cancelled, outcome, cut>>,
         ignores' \in Seq(Nat), result' \in Seq(Plain),
         \A i \in DOMAIN result : i \in DOMAIN result' /\ result'[i] = result[i],
         \A i \in DOMAIN result' : \E u \in Reachable \cap Plain : result'[i] = Normal[u],
         ASSUME new = {}, NEW V \in SUBSET Sources, Accounts(V)
         PROVE  Line \in Accounted(V)' /\ \A i \in DOMAIN ignores' : ignores'[i] \in Accounted(V)'
  PROVE  LoaderInv'
<1> DEFINE f == NextLine(new, check)
           n == Len(stack)
<1>1. /\ outcome = "loading" /\ stack # <<>> /\ stack \in Seq(Frames)
      /\ Top \in Frames /\ Top.next \in DOMAIN content[Top.source]
  BY LineProperties
<1>2. /\ f \in Frames /\ f.source = Top.source /\ f.next = Top.next + 1
      /\ f.invalids = Top.invalids \cup new
  <2>1. Top.next + 1 \in Nat \ {0} /\ Top.invalids \cup new \in SUBSET Lines
    BY <1>1 DEF Frames
  <2>2. f = [Top EXCEPT !.next = Top.next + 1, !.invalids = Top.invalids \cup new, !.checking = check]
    BY DEF NextLine
  <2> HIDE DEF f
  <2>3. Top = [source |-> Top.source, next |-> Top.next, invalids |-> Top.invalids, checking |-> Top.checking]
    BY <1>1 DEF Frames
  <2>4. f = [source |-> Top.source, next |-> Top.next + 1, invalids |-> Top.invalids \cup new, checking |-> check]
    BY <2>2, <2>3
  <2> QED
    BY <1>1, <2>1, <2>4 DEF Frames
<1>3. n \in Nat \ {0} /\ DOMAIN stack = 1 .. n
  BY <1>1, StackParts
<1>4. /\ stack' \in Seq(Frames) /\ stack' # <<>> /\ DOMAIN stack' = 1 .. n /\ stack'[n] = f
      /\ \A i \in 1 .. n - 1 : stack'[i] = stack[i]
  BY <1>1, <1>2, <1>3, PutTopProperties
<1>5. content' = content /\ readable' = readable /\ Reachable' = Reachable
  BY DEF inputs, Reachable, Leads, Listed
<1>6. stack[n] = Top
  BY DEF Top
<1> HIDE DEF f, n
<1>7. \A i \in 1 .. n : stack'[i].source = stack[i].source /\ (i # n => stack'[i] = stack[i])
  <2>1. ASSUME NEW i \in 1 .. n, i # n PROVE i \in 1 .. n - 1
    BY <1>3, <2>1
  <2> QED
    BY <1>2, <1>4, <1>6, <2>1
<1>8. LoaderTypeOK'
  BY <1>4, <1>5 DEF LoaderInv, LoaderTypeOK, inputs
<1>9. SoundOK'
  BY <1>3, <1>4, <1>5, <1>7 DEF LoaderInv, SoundOK
<1>10. ASSUME Clean' PROVE \E V \in SUBSET Sources : Accounts(V)'
  <2>1. f.invalids = {} /\ \A i \in 1 .. n : stack'[i].invalids = {}
    <3>1. \A i \in DOMAIN stack' : stack'[i].invalids = {}
      BY <1>10 DEF Clean
    <3>2. \A i \in 1 .. n : stack'[i].invalids = {}
      BY <1>4, <3>1
    <3>3. n \in 1 .. n /\ stack'[n] = f
      BY <1>3, <1>4
    <3> QED
      BY <3>2, <3>3
  <2>2. new = {} /\ Top.invalids = {}
    BY <1>2, <2>1
  <2>3. Clean
    BY <1>3, <1>6, <1>7, <1>10, <2>1, <2>2 DEF Clean
  <2>4. PICK V \in SUBSET Sources : Accounts(V)
    BY <2>3 DEF LoaderInv
  <2>5. Line \in Accounted(V)' /\ \A i \in DOMAIN ignores' : ignores'[i] \in Accounted(V)'
    BY <2>2, <2>4
  <2>6. Accounted(V) \subseteq Accounted(V)'
    BY DEF Accounted
  <2>7. ASSUME NEW i \in 1 .. n
        PROVE  /\ stack'[i].source \in V
               /\ \A k \in DOMAIN content[stack'[i].source] :
                    k < stack'[i].next => content[stack'[i].source][k] \in Accounted(V)'
    <3>1. /\ stack[i].source \in V
          /\ \A k \in DOMAIN content[stack[i].source] :
               k < stack[i].next => content[stack[i].source][k] \in Accounted(V)
      BY <1>3, <2>4 DEF Accounts
    <3>2. CASE i # n
      BY <1>7, <2>6, <3>1, <3>2
    <3>3. CASE i = n
      <4>1. stack'[i] = f /\ stack[i] = Top
        BY <1>4, <1>6, <3>3
      <4>2. ASSUME NEW k \in DOMAIN content[Top.source], k < Top.next + 1
            PROVE  k < Top.next \/ k = Top.next
        <5>1. k \in Int /\ Top.next \in Int
          BY <1>1 DEF LoaderInv, LoaderTypeOK, Frames
        <5> QED
          BY <4>2, <5>1
      <4>3. content[Top.source][Top.next] \in Accounted(V)'
        BY <2>5 DEF Line
      <4> QED
        BY <1>2, <2>6, <3>1, <4>1, <4>2, <4>3
    <3> QED
      BY <3>2, <3>3
  <2>8. ASSUME NEW s \in V
        PROVE  (Listed(s) \subseteq Accounted(V))' \/ \E i \in 1 .. n : stack'[i].source = s
    <3>1. Listed(s) \subseteq Accounted(V) \/ \E i \in 1 .. n : stack[i].source = s
      BY <1>3, <2>4 DEF Accounts
    <3>2. Listed(s)' = Listed(s)
      BY <1>5 DEF Listed
    <3> QED
      BY <1>7, <2>6, <3>1, <3>2
  <2>9. V \subseteq readable /\ Root \in V
    BY <1>1, <2>4 DEF Accounts
  <2> QED
    BY <1>4, <1>5, <2>5, <2>7, <2>8, <2>9 DEF Accounts
<1> QED
  BY <1>1, <1>4, <1>8, <1>9, <1>10 DEF LoaderInv

\* A line that is no URL is complained about, one that `ignores' has is accounted for.
LEMMA SkipKeeps == ASSUME LoaderInv, SkipMalformed \/ SkipKnown PROVE LoaderInv'
<1>1. /\ HasLine /\ UNCHANGED <<inputs, cancelled, outcome, cut>>
      /\ ignores' = ignores /\ result' = result
  BY DEF SkipMalformed, SkipKnown
<1>2. /\ ignores' \in Seq(Nat) /\ result' \in Seq(Plain)
      /\ \A i \in DOMAIN result' : \E u \in Reachable \cap Plain : result'[i] = Normal[u]
  BY <1>1 DEF LoaderInv, LoaderTypeOK, SoundOK
<1>3. Line \in Lines
  BY <1>1, LineProperties
<1>4. ASSUME NEW V \in SUBSET Sources PROVE Accounted(V)' = Accounted(V)
  BY <1>1 DEF Accounted
<1>5. CASE SkipMalformed
  <2>1. {Malformed} \in SUBSET Lines /\ {Malformed} # {} /\ FALSE \in BOOLEAN
    BY DEF Lines
  <2>2. stack' = PutTop(NextLine({Malformed}, FALSE))
    BY <1>5 DEF SkipMalformed
  <2> QED
    BY <1>1, <1>2, <2>1, <2>2, ReadLineKeeps
<1>6. CASE SkipKnown
  <2>1. stack' = PutTop(NextLine({}, FALSE)) /\ Has(ignores, Line) /\ Line # Malformed
    BY <1>6 DEF SkipKnown
  <2>2. Line \in Nat /\ ignores \in Seq(Nat)
    BY <1>3, SourceLoaderAssumption DEF Lines, Malformed, LoaderInv, LoaderTypeOK
  <2>3. \E i \in DOMAIN ignores : ignores[i] = Line
    BY <2>1, <2>2, HasMember
  <2>4. ASSUME NEW V \in SUBSET Sources, Accounts(V)
        PROVE  Line \in Accounted(V)' /\ \A i \in DOMAIN ignores' : ignores'[i] \in Accounted(V)'
    <3>1. \A i \in DOMAIN ignores : ignores[i] \in Accounted(V)
      BY <2>4 DEF Accounts
    <3> QED
      BY <1>1, <1>4, <2>3, <3>1
  <2>5. {} \in SUBSET Lines /\ FALSE \in BOOLEAN
    OBVIOUS
  <2> QED
    BY <1>1, <1>2, <2>1, <2>4, <2>5, ReadLineKeeps
<1> QED
  BY <1>5, <1>6

\* A target that is refused or a list that is not opened is complained about.
LEMMA RefuseKeeps == ASSUME LoaderInv, RefuseTarget \/ FailToOpen PROVE LoaderInv'
<1>1. /\ HasLine /\ UNCHANGED <<inputs, cancelled, outcome, cut>>
      /\ ignores' = ignores /\ result' = result
      /\ stack' = PutTop(NextLine({Line}, TRUE))
  BY DEF RefuseTarget, FailToOpen
<1>2. /\ ignores' \in Seq(Nat) /\ result' \in Seq(Plain)
      /\ \A i \in DOMAIN result' : \E u \in Reachable \cap Plain : result'[i] = Normal[u]
  BY <1>1 DEF LoaderInv, LoaderTypeOK, SoundOK
<1>3. {Line} \in SUBSET Lines /\ {Line} # {} /\ TRUE \in BOOLEAN
  BY <1>1, LineProperties
<1> QED
  BY <1>1, <1>2, <1>3, ReadLineKeeps

\* A panic leaves nothing to account for.
LEMMA PanicKeeps == ASSUME LoaderInv, Panic PROVE LoaderInv'
<1>1. /\ UNCHANGED <<content, readable, cancelled, ignores, result, cut>>
      /\ stack' = <<>> /\ outcome' = "panicked"
  BY DEF Panic, inputs
<1>2. LoaderTypeOK'
  <2>1. <<>> \in Seq(Frames)
    OBVIOUS
  <2> QED
    BY <1>1, <2>1 DEF LoaderInv, LoaderTypeOK
<1>3. Reachable' = Reachable
  BY <1>1 DEF Reachable, Leads, Listed
<1>4. SoundOK'
  BY <1>1, <1>3 DEF LoaderInv, SoundOK
<1> QED
  BY <1>1, <1>2, <1>4 DEF LoaderInv, Clean

\* A target that is loaded, and the URL of its prober, are accounted for.
LEMMA LoadTargetKeeps == ASSUME LoaderInv, LoadTarget PROVE LoaderInv'
<1>1. /\ HasLine /\ UNCHANGED <<inputs, cancelled, outcome, cut>>
      /\ Line \in Plain \ Unsupported
      /\ result' = Append(result, Normal[Line])
      /\ ignores' = Add(ignores, Normal[Line])
      /\ stack' = PutTop(NextLine({}, TRUE))
  BY DEF LoadTarget
<1>2. Line \in Reachable /\ Normal[Line] \in Plain \ Unsupported /\ Normal[Normal[Line]] = Normal[Line]
  BY <1>1, LineProperties, SourceLoaderAssumption
<1>3. result \in Seq(Plain) /\ ignores \in Seq(Nat) /\ Normal[Line] \in Nat
  BY <1>2, SourceLoaderAssumption DEF LoaderInv, LoaderTypeOK
<1>4. /\ result' \in Seq(Plain) /\ Len(result) \in Nat
      /\ DOMAIN result = 1 .. Len(result) /\ DOMAIN result' = 1 .. Len(result) + 1
      /\ \A i \in 1 .. Len(result) : result'[i] = result[i]
      /\ result'[Len(result) + 1] = Normal[Line]
  BY <1>1, <1>2, <1>3
<1>5. \A i \in DOMAIN result : i \in DOMAIN result' /\ result'[i] = result[i]
  BY <1>4
<1>6. ASSUME NEW i \in DOMAIN result'
      PROVE  \E u \in Reachable \cap Plain : result'[i] = Normal[u]
  <2>1. CASE i \in DOMAIN result
    BY <1>5, <2>1 DEF LoaderInv, SoundOK
  <2>2. CASE i = Len(result) + 1
    BY <1>1, <1>2, <1>4, <2>2
  <2> QED
    BY <1>4, <2>1, <2>2
<1>7. /\ ignores' \in Seq(Nat)
      /\ \A i \in DOMAIN ignores' : ignores'[i] = Normal[Line] \/ \E k \in DOMAIN ignores : ignores'[i] = ignores[k]
  BY <1>1, <1>3, AddProperties
<1>8. ASSUME NEW V \in SUBSET Sources, Accounts(V)
      PROVE  Line \in Accounted(V)' /\ \A i \in DOMAIN ignores' : ignores'[i] \in Accounted(V)'
  <2>1. Accounted(V) \subseteq Accounted(V)'
    BY <1>5 DEF Accounted
  <2>2. Len(result) + 1 \in DOMAIN result'
    BY <1>4
  <2>3. Line \in Accounted(V)'
    BY <1>1, <1>4, <2>2 DEF Accounted
  <2>4. Normal[Line] \in Accounted(V)'
    BY <1>2, <1>4, <2>2 DEF Accounted
  <2>5. \A k \in DOMAIN ignores : ignores[k] \in Accounted(V)
    BY <1>8 DEF Accounts
  <2> QED
    BY <1>7, <2>1, <2>3, <2>4, <2>5
<1>9. {} \in SUBSET Lines /\ TRUE \in BOOLEAN
  OBVIOUS
<1> QED
  BY <1>1, <1>3, <1>4, <1>5, <1>6, <1>7, <1>8, <1>9, ReadLineKeeps

\* A list that is opened is one of those that are read.
LEMMA LoadNestedKeeps == ASSUME LoaderInv, LoadNested PROVE LoaderInv'
<1> DEFINE f == NextLine({}, TRUE)
           n == Len(stack)
<1>1. /\ HasLine /\ UNCHANGED <<inputs, cancelled, result, outcome, cut>>
      /\ Line \in readable
      /\ ignores' = Add(ignores, Line)
      /\ stack' = Append(PutTop(f), Frame(Line))
  BY DEF LoadNested
<1>2. /\ outcome = "loading" /\ stack # <<>> /\ stack \in Seq(Frames)
      /\ Top \in Frames /\ Top.next \in DOMAIN content[Top.source] /\ Line \in Reachable
  BY <1>1, LineProperties
<1>3. /\ f \in Frames /\ f.source = Top.source /\ f.next = Top.next + 1 /\ f.invalids = Top.invalids
  <2>1. Top.next + 1 \in Nat \ {0} /\ Top.invalids \cup {} = Top.invalids
    BY <1>2 DEF Frames
  <2>2. f = [Top EXCEPT !.next = Top.next + 1, !.invalids = Top.invalids \cup {}, !.checking = TRUE]
    BY DEF NextLine
  <2> HIDE DEF f
  <2>3. Top = [source |-> Top.source, next |-> Top.next, invalids |-> Top.invalids, checking |-> Top.checking]
    BY <1>2 DEF Frames
  <2>4. f = [source |-> Top.source, next |-> Top.next + 1, invalids |-> Top.invalids, checking |-> TRUE]
    BY <2>1, <2>2, <2>3
  <2> QED
    BY <1>2, <2>1, <2>4 DEF Frames
<1>4. n \in Nat \ {0} /\ DOMAIN stack = 1 .. n
  BY <1>2, StackParts
<1>5. Line \in Sources /\ Line \in Nat /\ ignores \in Seq(Nat)
  BY <1>1, SourceLoaderAssumption DEF LoaderInv, LoaderTypeOK
<1>6. /\ Frame(Line) \in Frames /\ Frame(Line).source = Line /\ Frame(Line).next = 1
      /\ Frame(Line).invalids = {}
  BY <1>5 DEF Frame, Frames
<1> HIDE DEF f, n
<1>7. /\ stack' \in Seq(Frames) /\ stack' # <<>> /\ DOMAIN stack' = 1 .. n + 1
      /\ \A i \in 1 .. n - 1 : stack'[i] = stack[i]
      /\ stack'[n] = f /\ stack'[n + 1] = Frame(Line)
  <2>1. /\ PutTop(f) \in Seq(Frames) /\ Len(PutTop(f)) = n
        /\ PutTop(f)[n] = f /\ \A i \in 1 .. n - 1 : PutTop(f)[i] = stack[i]
    BY <1>2, <1>3, PutTopProperties DEF n
  <2>2. /\ stack' \in Seq(Frames) /\ stack' # <<>> /\ Len(stack') = n + 1
        /\ \A i \in 1 .. n : stack'[i] = PutTop(f)[i]
        /\ stack'[n + 1] = Frame(Line)
    <3> DEFINE below == PutTop(f)
    <3>1. below \in Seq(Frames) /\ Len(below) = n /\ stack' = Append(below, Frame(Line))
      BY <1>1, <2>1
    <3> HIDE DEF below
    <3>2. /\ Append(below, Frame(Line)) \in Seq(Frames) /\ Append(below, Frame(Line)) # <<>>
          /\ Len(Append(below, Frame(Line))) = Len(below) + 1
          /\ \A i \in 1 .. Len(below) : Append(below, Frame(Line))[i] = below[i]
          /\ Append(below, Frame(Line))[Len(below) + 1] = Frame(Line)
      BY <1>6, <3>1, AppendProperties
    <3>3. \A i \in 1 .. n : stack'[i] = below[i]
      BY <3>1, <3>2, Zenon
    <3> QED
      BY <3>1, <3>2, <3>3, Zenon DEF below
  <2>3. DOMAIN stack' = 1 .. n + 1
    BY <2>2, LenProperties, Zenon
  <2>4. n \in 1 .. n /\ \A i \in 1 .. n - 1 : i \in 1 .. n
    BY <1>4
  <2> QED
    BY <2>1, <2>2, <2>3, <2>4
<1>8. content' = content /\ readable' = readable /\ Reachable' = Reachable /\ result' = result
  BY <1>1 DEF inputs, Reachable, Leads, Listed
<1>9. stack[n] = Top
  BY DEF Top, n
<1>10. \A i \in 1 .. n : stack'[i].source = stack[i].source /\ stack'[i].invalids = stack[i].invalids
                         /\ (i # n => stack'[i] = stack[i])
  <2>1. ASSUME NEW i \in 1 .. n, i # n PROVE i \in 1 .. n - 1
    BY <1>4, <2>1
  <2> QED
    BY <1>3, <1>7, <1>9, <2>1
<1>11. \A i \in 1 .. n + 1 : i \in 1 .. n \/ i = n + 1
  BY <1>4
<1>12. /\ ignores' \in Seq(Nat)
       /\ \A i \in DOMAIN ignores' : ignores'[i] = Line \/ \E k \in DOMAIN ignores : ignores'[i] = ignores[k]
  BY <1>1, <1>5, AddProperties
<1>13. LoaderTypeOK'
  BY <1>1, <1>7, <1>8, <1>12 DEF LoaderInv, LoaderTypeOK
<1>14. SoundOK'
  <2>1. ASSUME NEW i \in DOMAIN stack' PROVE stack'[i].source \in Reachable
    <3>1. CASE i \in 1 .. n
      BY <1>4, <1>10, <3>1 DEF LoaderInv, SoundOK
    <3>2. CASE i = n + 1
      BY <1>2, <1>6, <1>7, <3>2
    <3> QED
      BY <1>7, <1>11, <2>1, <3>1, <3>2
  <2> QED
    BY <1>8, <2>1 DEF LoaderInv, SoundOK
<1>15. ASSUME Clean' PROVE \E V \in SUBSET Sources : Accounts(V)'
  <2>1. Clean
    <3>1. ASSUME NEW i \in 1 .. n PROVE stack[i].invalids = {}
      <4>1. i \in DOMAIN stack'
        BY <1>4, <1>7
      <4> QED
        BY <1>10, <1>15, <4>1 DEF Clean
    <3> QED
      BY <1>1, <1>4, <1>15, <3>1 DEF Clean
  <2>2. PICK W \in SUBSET Sources : Accounts(W)
    BY <2>1 DEF LoaderInv
  <2>3. PICK V \in SUBSET Sources : V = W \cup {Line}
    BY <1>5
  <2>4. Accounted(W) \subseteq Accounted(V)' /\ Line \in Accounted(V)'
    BY <1>8, <2>3 DEF Accounted
  <2>5. V \subseteq readable /\ Root \in V
    BY <1>1, <1>2, <2>2, <2>3 DEF Accounts
  <2>6. \A i \in DOMAIN ignores' : ignores'[i] \in Accounted(V)'
    BY <1>12, <2>2, <2>4 DEF Accounts
  <2>7. ASSUME NEW i \in 1 .. n
        PROVE  /\ stack'[i].source \in V
               /\ \A k \in DOMAIN content[stack'[i].source] :
                    k < stack'[i].next => content[stack'[i].source][k] \in Accounted(V)'
    <3>1. /\ stack[i].source \in W
          /\ \A k \in DOMAIN content[stack[i].source] :
               k < stack[i].next => content[stack[i].source][k] \in Accounted(W)
      BY <1>4, <2>2 DEF Accounts
    <3>2. CASE i # n
      BY <1>10, <2>3, <2>4, <3>1, <3>2
    <3>3. CASE i = n
      <4>1. stack'[i] = f /\ stack[i] = Top
        BY <1>7, <1>9, <3>3
      <4>2. ASSUME NEW k \in DOMAIN content[Top.source], k < Top.next + 1
            PROVE  k < Top.next \/ k = Top.next
        <5>1. k \in Int /\ Top.next \in Int
          BY <1>2 DEF LoaderInv, LoaderTypeOK, Frames
        <5> QED
          BY <4>2, <5>1
      <4>3. content[Top.source][Top.next] \in Accounted(V)'
        BY <2>4 DEF Line
      <4> QED
        BY <1>3, <2>3, <2>4, <3>1, <4>1, <4>2, <4>3
    <3> QED
      BY <3>2, <3>3
  <2>8. /\ stack'[n + 1].source \in V
        /\ \A k \in DOMAIN content[stack'[n + 1].source] : ~(k < stack'[n + 1].next)
    <3>1. stack'[n + 1].source = Line /\ stack'[n + 1].next = 1 /\ Line \in V
      BY <1>6, <1>7, <2>3
    <3>2. \A k \in DOMAIN content[Line] : ~(k < 1)
      BY <1>5 DEF LoaderInv, LoaderTypeOK
    <3> QED
      BY <3>1, <3>2
  <2>9. ASSUME NEW s \in V
        PROVE  (Listed(s) \subseteq Accounted(V))' \/ \E i \in 1 .. n + 1 : stack'[i].source = s
    <3>1. Listed(s)' = Listed(s)
      BY <1>8 DEF Listed
    <3>2. CASE s \in W
      <4>1. Listed(s) \subseteq Accounted(W) \/ \E i \in 1 .. n : stack[i].source = s
        BY <1>4, <2>2, <3>2 DEF Accounts
      <4>2. 1 .. n \subseteq 1 .. n + 1
        BY <1>4
      <4> QED
        BY <1>10, <2>4, <3>1, <4>1, <4>2
    <3>3. CASE s = Line
      BY <1>4, <1>6, <1>7, <3>3
    <3> QED
      BY <2>3, <2>9, <3>2, <3>3
  <2>10. Accounts(V)'
    <3>1. ASSUME NEW i \in 1 .. n + 1
          PROVE  /\ stack'[i].source \in V
                 /\ \A k \in DOMAIN content[stack'[i].source] :
                      k < stack'[i].next => content[stack'[i].source][k] \in Accounted(V)'
      BY <1>11, <2>7, <2>8, <3>1
    <3> QED
      BY <1>7, <1>8, <2>5, <2>6, <2>9, <3>1 DEF Accounts
  <2> QED
    BY <2>10
<1> QED
  BY <1>1, <1>2, <1>7, <1>13, <1>14, <1>15 DEF LoaderInv

\* A call that returns without a complaint has read its list to the end, unless the list
\* was cut off.
LEMMA ReturnKeeps ==
  ASSUME LoaderInv, outcome = "loading", stack # <<>>, NEW invalids \in SUBSET Lines,
         Return(invalids), UNCHANGED <<inputs, cancelled, ignores, result>>,
         cut' \in BOOLEAN, cut => cut',
         invalids = {} /\ ~cut' => Top.invalids = {} /\ Len(content[Top.source]) < Top.next
  PROVE  LoaderInv'
<1> DEFINE n == Len(stack)
<1>1. stack \in Seq(Frames) /\ n \in Nat \ {0} /\ DOMAIN stack = 1 .. n
  BY StackParts DEF LoaderInv, LoaderTypeOK
<1>2. /\ Callers \in Seq(Frames) /\ Len(Callers) = n - 1 /\ DOMAIN Callers = 1 .. n - 1
      /\ \A i \in 1 .. n - 1 : Callers[i] = stack[i]
  BY <1>1, StackParts
<1>3. stack[n] = Top /\ Top \in Frames
  BY <1>1, StackParts DEF Top
<1> HIDE DEF n
<1>4. /\ content' = content /\ readable' = readable /\ Reachable' = Reachable
      /\ result' = result /\ ignores' = ignores /\ cancelled' = cancelled
  BY DEF inputs, Reachable, Leads, Listed
<1>5. /\ stack' \in Seq(Frames) /\ DOMAIN stack' = 1 .. n - 1
      /\ \A i \in 1 .. n - 1 : stack'[i].source = stack[i].source /\ stack'[i].next = stack[i].next
                               /\ stack[i].invalids \subseteq stack'[i].invalids
  <2>1. CASE Callers = <<>>
    <3>1. n = 1 /\ stack' = <<>>
      BY <1>1, <1>2, <2>1 DEF Return
    <3> QED
      BY <3>1
  <2>2. CASE Callers # <<>>
    <3> DEFINE c == Callers[n - 1]
               g == [c EXCEPT !.invalids = @ \cup invalids]
    <3>1. n - 1 \in 1 .. n - 1 /\ c \in Frames
      BY <1>1, <1>2, <2>2
    <3>2. stack' = [Callers EXCEPT ![n - 1] = g]
      BY <1>2, <2>2 DEF Return
    <3>3. /\ g \in Frames /\ g.source = c.source /\ g.next = c.next
          /\ c.invalids \subseteq g.invalids
      BY <3>1 DEF Frames
    <3> HIDE DEF g
    <3>4. stack' \in Seq(Frames) /\ Len(stack') = n - 1
      BY <1>2, <3>1, <3>2, <3>3, ExceptSeq
    <3>5. \A i \in 1 .. n - 1 : stack'[i] = IF i = n - 1 THEN g ELSE stack[i]
      BY <1>2, <3>2
    <3>6. DOMAIN stack' = 1 .. n - 1
      BY <3>4, LenProperties
    <3>7. c = stack[n - 1]
      BY <1>2, <3>1
    <3> HIDE DEF c
    <3> QED
      BY <3>3, <3>4, <3>5, <3>6, <3>7
  <2> QED
    BY <2>1, <2>2
<1>6. outcome' \in {"loading", "loaded", "failed"} /\ (outcome' = "loading" <=> stack' # <<>>)
  <2>1. CASE Callers = <<>>
    BY <2>1 DEF Return
  <2>2. CASE Callers # <<>>
    <3>1. stack' # <<>>
      BY <1>1, <1>2, <1>5, <2>2
    <3>2. outcome' = outcome
      BY <2>2 DEF Return
    <3> QED
      BY <3>1, <3>2
  <2> QED
    BY <2>1, <2>2
<1>7. LoaderTypeOK'
  BY <1>4, <1>5, <1>6 DEF LoaderInv, LoaderTypeOK
<1>8. \A i \in 1 .. n - 1 : i \in 1 .. n
  BY <1>1
<1>9. SoundOK'
  BY <1>1, <1>4, <1>5, <1>8 DEF LoaderInv, SoundOK
<1>10. ASSUME Clean' PROVE \E V \in SUBSET Sources : Accounts(V)'
  <2>1. ~cut' /\ outcome' # "failed" /\ \A i \in 1 .. n - 1 : stack'[i].invalids = {}
    BY <1>5, <1>10 DEF Clean
  <2>2. invalids = {}
    <3>1. CASE Callers = <<>>
      BY <2>1, <3>1 DEF Return
    <3>2. CASE Callers # <<>>
      <4>1. n - 1 \in 1 .. n - 1
        BY <1>1, <1>2, <3>2
      <4>2. stack' = [Callers EXCEPT ![n - 1].invalids = @ \cup invalids]
        BY <1>2, <3>2 DEF Return
      <4>3. Callers[n - 1] \in Frames
        BY <1>2, <4>1
      <4>4. stack'[n - 1].invalids = Callers[n - 1].invalids \cup invalids
        BY <1>2, <4>1, <4>2, <4>3 DEF Frames
      <4> QED
        BY <2>1, <4>1, <4>4
    <3> QED
      BY <3>1, <3>2
  <2>3. Top.invalids = {} /\ Len(content[Top.source]) < Top.next
    BY <2>1, <2>2
  <2>4. \A i \in 1 .. n : i = n \/ i \in 1 .. n - 1
    BY <1>1
  <2>5. Clean
    BY <1>1, <1>3, <1>5, <2>1, <2>3, <2>4 DEF Clean
  <2>6. PICK V \in SUBSET Sources : Accounts(V)
    BY <2>5 DEF LoaderInv
  <2>7. Accounted(V)' = Accounted(V)
    BY <1>4 DEF Accounted
  <2>8. Listed(Top.source) \subseteq Accounted(V)
    <3>1. \A k \in DOMAIN content[Top.source] : k < Top.next => content[Top.source][k] \in Accounted(V)
      BY <1>1, <1>3, <2>6 DEF Accounts
    <3>2. \A k \in DOMAIN content[Top.source] : k < Top.next
      BY <1>3, <2>3 DEF LoaderInv, LoaderTypeOK, Frames
    <3> QED
      BY <3>1, <3>2 DEF Listed
  <2>9. ASSUME NEW s \in V
        PROVE  Listed(s) \subseteq Accounted(V) \/ \E i \in 1 .. n - 1 : stack'[i].source = s
    <3>1. Listed(s) \subseteq Accounted(V) \/ \E i \in 1 .. n : stack[i].source = s
      BY <1>1, <2>6 DEF Accounts
    <3> QED
      BY <1>3, <1>5, <2>4, <2>8, <3>1
  <2>10. \A s \in V : Listed(s)' = Listed(s)
    BY <1>4 DEF Listed
  <2>11. Root \in V /\ V \subseteq readable /\ \A i \in DOMAIN ignores : ignores[i] \in Accounted(V)
    BY <2>6 DEF Accounts
  <2>12. ASSUME NEW i \in 1 .. n - 1
         PROVE  /\ stack'[i].source \in V
                /\ \A k \in DOMAIN content[stack'[i].source] :
                     k < stack'[i].next => content[stack'[i].source][k] \in Accounted(V)
    BY <1>1, <1>5, <1>8, <2>6 DEF Accounts
  <2>13. Accounts(V)'
    BY <1>4, <1>5, <2>7, <2>9, <2>10, <2>11, <2>12 DEF Accounts
  <2> QED
    BY <2>13
<1> QED
  BY <1>6, <1>7, <1>9, <1>10 DEF LoaderInv

\* The first call.
LEMMA OpenRootKeeps == ASSUME LoaderInv, OpenRoot PROVE LoaderInv'
<1>1. /\ outcome = "loading" /\ stack = <<>> /\ ignores = <<>>
      /\ UNCHANGED <<inputs, cancelled, result, cut>>
  BY DEF OpenRoot, LoaderInv
<1>2. content' = content /\ readable' = readable /\ Reachable' = Reachable /\ result' = result
  BY <1>1 DEF inputs, Reachable, Leads, Listed
<1>3. CASE outcome' = "failed" /\ UNCHANGED <<stack, ignores>>
  BY <1>1, <1>2, <1>3 DEF LoaderInv, LoaderTypeOK, SoundOK, Clean
<1>4. CASE Root \in readable /\ stack' = <<Frame(Root)>> /\ ignores' = Add(ignores, Root) /\ UNCHANGED outcome
  <2>1. Root \in Sources /\ Root \in Nat
    BY SourceLoaderAssumption
  <2>2. /\ Frame(Root) \in Frames /\ Frame(Root).source = Root /\ Frame(Root).next = 1
    BY <2>1 DEF Frame, Frames
  <2>3. /\ stack' \in Seq(Frames) /\ stack' # <<>> /\ DOMAIN stack' = {1}
        /\ stack'[1] = Frame(Root)
    BY <1>4, <2>2
  <2>4. /\ ignores' \in Seq(Nat) /\ \A i \in DOMAIN ignores' : ignores'[i] = Root
    <3>1. <<>> \in Seq(Nat) /\ DOMAIN <<>> = {}
      OBVIOUS
    <3> QED
      BY <1>1, <1>4, <2>1, <3>1, AddProperties
  <2>5. LoaderTypeOK'
    BY <1>1, <1>2, <1>4, <2>3, <2>4 DEF LoaderInv, LoaderTypeOK
  <2>6. Root \in Reachable
    BY ReachableLeads DEF LoaderInv, Leads
  <2>7. SoundOK'
    BY <1>2, <2>2, <2>3, <2>6 DEF LoaderInv, SoundOK
  <2>8. PICK V \in SUBSET Sources : V = {Root}
    BY <2>1
  <2>9. Root \in Accounted(V)'
    BY <2>8 DEF Accounted
  <2>10. \A k \in DOMAIN content[Root] : ~(k < 1)
    BY <2>1 DEF LoaderInv, LoaderTypeOK
  <2>11. Accounts(V)'
    BY <1>2, <1>4, <2>2, <2>3, <2>4, <2>8, <2>9, <2>10 DEF Accounts
  <2> QED
    BY <1>1, <1>4, <2>3, <2>5, <2>7, <2>11 DEF LoaderInv
<1> QED
  BY <1>3, <1>4 DEF OpenRoot

\* After a look at the context the list is read on, or given up with a complaint.
LEMMA CheckContextKeeps == ASSUME LoaderInv, CheckContext PROVE LoaderInv'
<1>1. /\ outcome = "loading" /\ stack # <<>> /\ stack \in Seq(Frames)
      /\ UNCHANGED <<inputs, cancelled, ignores, result, cut>>
  BY DEF CheckContext, LoaderInv, LoaderTypeOK
<1>2. Top \in Frames /\ Len(stack) \in Nat \ {0} /\ DOMAIN stack = 1 .. Len(stack)
  BY <1>1, StackParts
<1>3. CASE Return({Top.source})
  <2>1. {Top.source} \in SUBSET Lines /\ {Top.source} # {}
    BY <1>2 DEF Frames, Lines
  <2>2. cut' = cut /\ cut' \in BOOLEAN
    BY <1>1 DEF LoaderInv, LoaderTypeOK
  <2> DEFINE invalids == {Top.source}
  <2>3. /\ invalids \in SUBSET Lines /\ Return(invalids)
        /\ invalids = {} /\ ~cut' => Top.invalids = {} /\ Len(content[Top.source]) < Top.next
    BY <1>3, <2>1
  <2> HIDE DEF invalids
  <2> QED
    BY <1>1, <2>2, <2>3, ReturnKeeps
<1>4. CASE stack' = PutTop([Top EXCEPT !.checking = FALSE]) /\ UNCHANGED outcome
  <2> DEFINE f == [Top EXCEPT !.checking = FALSE]
             n == Len(stack)
  <2>1. /\ f \in Frames /\ f.source = Top.source /\ f.next = Top.next /\ f.invalids = Top.invalids
    BY <1>2 DEF Frames
  <2>2. n \in Nat \ {0} /\ DOMAIN stack = 1 .. n /\ stack[n] = Top
    BY <1>2 DEF Top
  <2> HIDE DEF f, n
  <2>3. /\ stack' \in Seq(Frames) /\ stack' # <<>> /\ DOMAIN stack' = 1 .. n
        /\ stack'[n] = f /\ \A i \in 1 .. n - 1 : stack'[i] = stack[i]
    BY <1>1, <1>4, <2>1, <2>2, PutTopProperties DEF f, n
  <2>4. ASSUME NEW i \in 1 .. n
        PROVE  /\ stack'[i].source = stack[i].source
               /\ stack'[i].next = stack[i].next
               /\ stack'[i].invalids = stack[i].invalids
    <3>1. i = n \/ i \in 1 .. n - 1
      BY <2>2
    <3> QED
      BY <2>1, <2>2, <2>3, <3>1
  <2>5. /\ content' = content /\ readable' = readable /\ Reachable' = Reachable
        /\ result' = result /\ ignores' = ignores /\ outcome' = outcome /\ cut' = cut
    BY <1>1, <1>4 DEF inputs, Reachable, Leads, Listed
  <2>6. LoaderTypeOK'
    BY <1>1, <2>3, <2>5 DEF LoaderInv, LoaderTypeOK
  <2>7. SoundOK'
    BY <2>2, <2>3, <2>4, <2>5 DEF LoaderInv, SoundOK
  <2>8. ASSUME Clean' PROVE \E V \in SUBSET Sources : Accounts(V)'
    <3>1. Clean
      BY <2>2, <2>3, <2>4, <2>5, <2>8 DEF Clean
    <3>2. PICK V \in SUBSET Sources : Accounts(V)
      BY <3>1 DEF LoaderInv
    <3>3. Accounted(V)' = Accounted(V) /\ \A s \in V : Listed(s)' = Listed(s)
      BY <2>5 DEF Accounted, Listed
    <3>4. Accounts(V)'
      BY <1>1, <2>2, <2>3, <2>4, <2>5, <3>2, <3>3 DEF Accounts
    <3> QED
      BY <3>4
  <2> QED
    BY <1>1, <2>3, <2>5, <2>6, <2>7, <2>8 DEF LoaderInv
<1> QED
  BY <1>3, <1>4 DEF CheckContext

\* The list is read to its end, or is cut off.
LEMMA EndKeeps == ASSUME LoaderInv, EndOfList \/ CutList PROVE LoaderInv'
<1>1. /\ Scanning /\ Return(Top.invalids) /\ UNCHANGED <<inputs, cancelled, ignores, result>>
      /\ cut \in BOOLEAN
  BY DEF EndOfList, CutList, HasLine, LoaderInv, LoaderTypeOK
<1>2. outcome = "loading" /\ stack # <<>> /\ stack \in Seq(Frames)
  BY <1>1 DEF Scanning, LoaderInv, LoaderTypeOK
<1>3. Top \in Frames
  BY <1>2, StackParts
<1>4. Top.invalids \in SUBSET Lines
  BY <1>3 DEF Frames
<1>5. CASE EndOfList
  <2>1. ~(Top.next <= Len(content[Top.source])) /\ cut' = cut
    BY <1>1, <1>5 DEF EndOfList, HasLine
  <2>2. Len(content[Top.source]) \in Nat /\ Top.next \in Nat
    BY <1>3 DEF Frames, LoaderInv, LoaderTypeOK
  <2>3. Len(content[Top.source]) < Top.next
    BY <2>1, <2>2
  <2> QED
    BY <1>1, <1>2, <1>4, <2>1, <2>3, ReturnKeeps
<1>6. CASE CutList
  <2>1. cut' = TRUE
    BY <1>6 DEF CutList
  <2> QED
    BY <1>1, <1>2, <1>4, <2>1, ReturnKeeps
<1> QED
  BY <1>5, <1>6

\* A step that only the context, or nothing, changes in.
LEMMA IdleKeeps ==
  ASSUME LoaderInv, cancelled' \in BOOLEAN, UNCHANGED <<inputs, stack, ignores, result, outcome, cut>>
  PROVE  LoaderInv'
<1>1. /\ content' = content /\ readable' = readable /\ stack' = stack /\ ignores' = ignores
      /\ result' = result /\ outcome' = outcome /\ cut' = cut /\ Reachable' = Reachable
  BY DEF inputs, Reachable, Leads, Listed
<1>2. LoaderTypeOK'
  BY <1>1 DEF LoaderInv, LoaderTypeOK
<1>3. SoundOK'
  BY <1>1 DEF LoaderInv, SoundOK
<1>4. Clean' = Clean
  BY <1>1 DEF Clean
<1>5. ASSUME NEW V \in SUBSET Sources, Accounts(V) PROVE Accounts(V)'
  <2>1. Accounted(V)' = Accounted(V) /\ \A s \in V : Listed(s)' = Listed(s)
    BY <1>1 DEF Accounted, Listed
  <2> QED
    BY <1>1, <1>5, <2>1 DEF Accounts
<1> QED
  BY <1>1, <1>2, <1>3, <1>4, <1>5 DEF LoaderInv

\* The empty set of lists accounts for what has been read: nothing.
LEMMA LoaderInitial == Init => LoaderInv
<1> SUFFICES ASSUME Init PROVE LoaderInv
  OBVIOUS
<1>1. content \in [Sources -> Seq(Lines)]
  <2>1. \A n \in 0 .. MaxLines : [1 .. n -> Lines] \subseteq Seq(Lines)
    OBVIOUS
  <2> QED
    BY <2>1 DEF Init
<1>2. LoaderTypeOK
  <2>1. <<>> \in Seq(Frames) /\ <<>> \in Seq(Nat) /\ <<>> \in Seq(Plain)
    OBVIOUS
  <2> QED
    BY <1>1, <2>1 DEF Init, LoaderTypeOK
<1>3. SoundOK
  BY DEF Init, SoundOK
<1>4. Accounts({})
  BY DEF Init, Accounts
<1> QED
  BY <1>2, <1>3, <1>4 DEF Init, LoaderInv

\* Every step of loadSource keeps the invariant.
LEMMA LoaderStep == LoaderInv /\ [Next]_vars => LoaderInv'
<1> SUFFICES ASSUME LoaderInv, [Next]_vars PROVE LoaderInv'
  OBVIOUS
<1>1. CASE LoadStep
  BY <1>1, OpenRootKeeps, SkipKeeps, RefuseKeeps, PanicKeeps, LoadTargetKeeps, LoadNestedKeeps,
     CheckContextKeeps, EndKeeps DEF LoadStep
<1>2. CASE CutList
  BY <1>2, EndKeeps
<1>3. CASE Cancel
  BY <1>3, IdleKeeps DEF Cancel
<1>4. CASE UNCHANGED vars
  <2>1. cancelled \in BOOLEAN
    BY DEF LoaderInv, LoaderTypeOK
  <2> QED
    BY <1>4, <2>1, IdleKeeps DEF vars
<1> QED
  BY <1>1, <1>2, <1>3, <1>4 DEF Next, Terminated

\* loadSource keeps its account of the lists, whatever `ignores' forgets.
THEOREM LoaderInvHolds == Spec => []LoaderInv
<1> QED
  BY LoaderInitial, LoaderStep, PTL DEF Spec

-----------------------------------------------------------------------------

\* A load that succeeds, with no list cut off, has loaded exactly what the root leads to:
\* the lists it has opened and the targets it has loaded make up a set that leads to
\* nothing else, however often `ignores' forgot what it held.
THEOREM SuccessfulLoadIsComplete == Spec => []Complete
<1>1. LoaderInv => Complete
  <2> SUFFICES ASSUME LoaderInv, outcome = "loaded", ~cut
               PROVE  /\ {Normal[u] : u \in Reachable \cap Plain} = {result[i] : i \in DOMAIN result}
                      /\ Reachable \subseteq readable \cup (Plain \ Unsupported)
    BY DEF Complete
  <2>1. stack = <<>> /\ Clean
    BY DEF LoaderInv, Clean
  <2>2. PICK V \in SUBSET Sources : Accounts(V)
    BY <2>1 DEF LoaderInv
  <2>3. V \subseteq readable /\ Root \in V /\ \A s \in V : Listed(s) \subseteq Accounted(V)
    BY <2>1, <2>2 DEF Accounts
  <2>4. Accounted(V) \in SUBSET Lines /\ Accounted(V) \cap Sources = V
    BY SourceLoaderAssumption DEF Accounted, Lines
  <2>5. Leads(Accounted(V))
    BY <2>3, <2>4 DEF Leads, Accounted
  <2>6. Reachable \subseteq Accounted(V)
    BY <2>4, <2>5 DEF Reachable
  <2>7. Reachable \subseteq readable \cup (Plain \ Unsupported)
    BY <2>3, <2>6 DEF Accounted
  <2>8. ASSUME NEW u \in Reachable \cap Plain PROVE \E i \in DOMAIN result : result[i] = Normal[u]
    BY <2>6, SourceLoaderAssumption DEF Accounted
  <2>9. \A i \in DOMAIN result : \E u \in Reachable \cap Plain : result[i] = Normal[u]
    BY DEF LoaderInv, SoundOK
  <2>10. {Normal[u] : u \in Reachable \cap Plain} = {result[i] : i \in DOMAIN result}
    BY <2>8, <2>9
  <2> QED
    BY <2>7, <2>10
<1> QED
  BY <1>1, LoaderInvHolds, PTL
=============================================================================
