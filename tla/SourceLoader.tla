----------------------------- MODULE SourceLoader -----------------------------
(***************************************************************************)
(* loadSource of internal/scheme/source.go: a list of targets that may name *)
(* further lists, read recursively, with the urlSet `ignores' to read no    *)
(* list and no target twice.  The calls under way are the frames of a       *)
(* stack.  A step is the treatment of one line, up to the next call,        *)
(* return or look at the context.                                           *)
(***************************************************************************)
EXTENDS UrlSet

CONSTANTS
  Sources,      \* the source: URLs, numbers as in UrlSet
  Plain,        \* the other URLs
  Unsupported,  \* those the callback refuses
  Panicking,    \* those of them it makes no interface of, so that it panics at Target: ping alerts, exec-x
  Normal,       \* the URL of the prober the callback makes of a plain URL
  Root,         \* the source that is loaded
  MaxLines,     \* bound: the number of lines in a list
  MaxDepth      \* bound: the number of frames

Malformed == 0  \* a line that is no URL
Lines == Sources \cup Plain \cup {Malformed}

ASSUME SourceLoaderAssumption ==
  /\ Sources \subseteq Nat \ {Malformed}
  /\ Plain \subseteq Nat \ {Malformed}
  /\ Sources \cap Plain = {}
  /\ Root \in Sources
  /\ Unsupported \subseteq Plain /\ Panicking \subseteq Unsupported
  /\ Normal \in [Plain -> Plain] /\ \A u \in Plain : Normal[Normal[u]] = Normal[u]
  /\ \A u \in Plain \ Unsupported : Normal[u] \notin Unsupported

VARIABLES
  content,    \* the lines of each list, without the comments
  readable,   \* the lists openSource can open
  cancelled,  \* the context is done
  stack,      \* the calls of loadSource, the innermost last
  ignores,    \* the urlSet
  result,     \* the targets of the probers made so far
  outcome,    \* "loading", then "loaded", "failed" or "panicked"
  cut         \* history variable: a list was not read to its end

inputs == <<content, readable>>
vars == <<inputs, cancelled, stack, ignores, result, outcome, cut>>

-----------------------------------------------------------------------------

Frame(s) == [source |-> s, next |-> 1, invalids |-> {}, checking |-> FALSE]
Top == stack[Len(stack)]
Callers == SubSeq(stack, 1, Len(stack) - 1)
Line == content[Top.source][Top.next]

\* Top is to read a line, or has read the last one.
Scanning == outcome = "loading" /\ stack # <<>> /\ ~Top.checking
HasLine == Scanning /\ Top.next <= Len(content[Top.source])

\* Top after its line: with more invalid lines, and maybe a look at the context.
NextLine(new, check) ==
  [Top EXCEPT !.next = @ + 1, !.invalids = @ \cup new, !.checking = check]
PutTop(frame) == Append(Callers, frame)

ReturnQuietly(invalids) ==
  IF Callers = <<>>
  THEN stack' = <<>> /\ outcome' = IF invalids = {} THEN "loaded" ELSE "failed"
  ELSE stack' = Callers /\ UNCHANGED outcome

\* Top returns: its caller takes over what it could not load.
Return(invalids) ==
  IF Callers = <<>>
  THEN stack' = <<>> /\ outcome' = IF invalids = {} THEN "loaded" ELSE "failed"
  ELSE /\ stack' = [Callers EXCEPT ![Len(Callers)].invalids = @ \cup invalids]
       /\ UNCHANGED outcome

-----------------------------------------------------------------------------

\* The first call of loadSource.
OpenRoot ==
  /\ outcome = "loading" /\ stack = <<>>
  /\ \/ /\ Root \in readable
        /\ stack' = <<Frame(Root)>>
        /\ ignores' = Add(ignores, Root)
        /\ UNCHANGED outcome
     \/ /\ Root \notin readable \/ cancelled
        /\ outcome' = "failed"
        /\ UNCHANGED <<stack, ignores>>
  /\ UNCHANGED <<inputs, cancelled, result, cut>>

\* The lines loadSource continues after without a look at the context.
SkipMalformed ==
  /\ HasLine /\ Line = Malformed
  /\ stack' = PutTop(NextLine({Malformed}, FALSE))
  /\ UNCHANGED <<inputs, cancelled, ignores, result, outcome, cut>>

SkipKnown ==
  /\ HasLine /\ Line # Malformed /\ Has(ignores, Line)
  /\ stack' = PutTop(NextLine({}, FALSE))
  /\ UNCHANGED <<inputs, cancelled, ignores, result, outcome, cut>>

RefuseTarget ==
  /\ HasLine /\ Line \in Unsupported \ Panicking /\ ~Has(ignores, Line)
  /\ stack' = PutTop(NextLine({Line}, TRUE))
  /\ UNCHANGED <<inputs, cancelled, ignores, result, outcome, cut>>

\* The callback asks a nil interface for its target: the panic goes through all calls.
Panic ==
  /\ HasLine /\ Line \in Panicking /\ ~Has(ignores, Line)
  /\ stack' = <<>>
  /\ outcome' = "panicked"
  /\ UNCHANGED <<inputs, cancelled, ignores, result, cut>>

LoadTarget ==
  /\ HasLine /\ Line \in Plain \ Unsupported /\ ~Has(ignores, Line)
  /\ result' = Append(result, Normal[Line])
  /\ ignores' = Add(ignores, Normal[Line])
  /\ stack' = PutTop(NextLine({}, TRUE))
  /\ UNCHANGED <<inputs, cancelled, outcome, cut>>

LoadNestedUnmarked ==
  /\ HasLine /\ Line \in readable /\ ~Has(ignores, Line)
  /\ Len(stack) < MaxDepth
  /\ stack' = Append(PutTop(NextLine({}, TRUE)), Frame(Line))
  /\ UNCHANGED <<inputs, cancelled, ignores, result, outcome, cut>>

LoadNested ==
  /\ HasLine /\ Line \in readable /\ ~Has(ignores, Line)
  /\ Len(stack) < MaxDepth
  /\ stack' = Append(PutTop(NextLine({}, TRUE)), Frame(Line))
  /\ ignores' = Add(ignores, Line)
  /\ UNCHANGED <<inputs, cancelled, result, outcome, cut>>

FailToOpen ==
  /\ HasLine /\ Line \in Sources /\ ~Has(ignores, Line)
  /\ Line \notin readable \/ cancelled
  /\ stack' = PutTop(NextLine({Line}, TRUE))
  /\ UNCHANGED <<inputs, cancelled, ignores, result, outcome, cut>>

\* After a target or a nested list: a call whose context is done gives up, and its
\* caller counts the whole list as invalid.  The deadline of a nested call is never
\* the first to pass.
CheckContext ==
  /\ outcome = "loading" /\ stack # <<>> /\ Top.checking
  /\ \/ /\ ~cancelled
        /\ stack' = PutTop([Top EXCEPT !.checking = FALSE])
        /\ UNCHANGED outcome
     \/ /\ cancelled
        /\ Return({Top.source})
  /\ UNCHANGED <<inputs, cancelled, ignores, result, cut>>

EndOfList ==
  /\ Scanning /\ ~HasLine
  /\ Return(Top.invalids)
  /\ UNCHANGED <<inputs, cancelled, ignores, result, cut>>

\* The connection is lost, or a line is longer than bufio.Scanner takes; its error is not
\* asked for.
CutList ==
  /\ HasLine
  /\ Return(Top.invalids)
  /\ cut' = TRUE
  /\ UNCHANGED <<inputs, cancelled, ignores, result>>

\* The ten minutes are over, or the server stops.
Cancel ==
  /\ outcome = "loading" /\ ~cancelled
  /\ cancelled' = TRUE
  /\ UNCHANGED <<inputs, stack, ignores, result, outcome, cut>>

Init ==
  /\ content \in [Sources -> UNION {[1 .. n -> Lines] : n \in 0 .. MaxLines}]
  /\ readable \in SUBSET Sources
  /\ cancelled = FALSE
  /\ stack = <<>>
  /\ ignores = <<>>
  /\ result = <<>>
  /\ outcome = "loading"
  /\ cut = FALSE

LoadStep ==
  \/ OpenRoot
  \/ SkipMalformed \/ SkipKnown
  \/ RefuseTarget \/ Panic \/ LoadTarget
  \/ LoadNested \/ FailToOpen
  \/ CheckContext \/ EndOfList

\* What has been loaded is handed over.
Terminated == outcome # "loading" /\ UNCHANGED vars

Next == LoadStep \/ CutList \/ Cancel \/ Terminated

\* One goroutine that nothing blocks for ever: a list that cannot be read ends with
\* the context.
Spec == Init /\ [][Next]_vars /\ WF_vars(LoadStep)

-----------------------------------------------------------------------------

\* The lists and targets the source leads to: the least set that has the root and, with
\* a list, its lines.
Listed(s) == {content[s][i] : i \in DOMAIN content[s]}
Leads(S) == Root \in S /\ \A s \in S \cap Sources : Listed(s) \subseteq S
Reachable == {u \in Lines : \A S \in SUBSET Lines : Leads(S) => u \in S}

\* A load that succeeds has loaded everything the lists lead to, at any depth, and there
\* was nothing to complain about: no target is left out because of the order of the
\* lines, a repeated line or lists that name each other, although `ignores' may have
\* forgotten what it held, and the errors of a nested list reach the outermost caller
\* (loadSource with urlSet and ayderr.List).  Only a list that is cut off hides the rest.
Complete ==
  outcome = "loaded" /\ ~cut =>
    /\ {Normal[u] : u \in Reachable \cap Plain} = {result[i] : i \in DOMAIN result}
    /\ Reachable \subseteq readable \cup (Plain \ Unsupported)

\* Lists that name each other, or themselves ("# ignore self including"), do not make
\* loadSource read for ever.
Terminates == <>(outcome # "loading")

\* "If the URL is already added, it will be ignored" (urlSet.Add), so that a target
\* that is listed twice is probed once.
LoadedOnce == \A i, k \in DOMAIN result : i # k => result[i] # result[k]
===============================================================================
