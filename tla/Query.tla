------------------------------- MODULE Query -------------------------------
(***************************************************************************)
(* The query language of the log pages and of the MCP server:              *)
(* internal/query/query.go, the Scan of tokenizer.go, and the ranges of    *)
(* the log that newLogOptionsByRequest (internal/endpoint/log.go) and      *)
(* FetchLogsByJq (internal/endpoint/mcp.go) open for a query.              *)
(*                                                                         *)
(* The parser reads a word at a time, and what it has read so far is a     *)
(* query at any time.  It builds a tree of nodes that it changes in place, *)
(* through the pointers of its stack: `nodes` is that heap, a pointer is   *)
(* an index of it.  Every word is followed by a space.                     *)
(***************************************************************************)
EXTENDS Keyword

CONSTANTS
    Texts,        \* the texts that patterns are put to
    Punctuation,  \* the words of the grammar that inputs use, of <<"(">>, <<")">>, <<"or">>, <<"not">>, <<"and">>
    Keywords,     \* the keywords that inputs of several words are made of
    Spelled,      \* keywords that are read alone
    MaxWords,     \* bound: the words of an input
    Records,      \* the records queries are put to: a set of values for each of their fields
    DefaultPeriod, Now,   \* the log page's period, and its time, after the records
    Intervals     \* the pairs since-until of MCP calls

VARIABLES
    words,        \* the input read so far
    parser        \* the variables of ParseQuery, and the tokenizer's last token
vars == <<words, parser>>

-----------------------------------------------------------------------------
(* ParseQuery *)

And(kids) == [op |-> "and", kids |-> kids]
Or(kids)  == [op |-> "or", kids |-> kids]
Not(kid)  == [op |-> "not", kids |-> <<kid>>]
LeafNode(leaf) == [op |-> "leaf", leaf |-> leaf]

NewParser == [nodes |-> <<And(<<>>)>>, stack |-> <<1>>, orMode |-> FALSE, notMode |-> FALSE, token |-> [type |-> "("]]

(* pushQuery, of the last node of `nodes`.  The branch that appends to an Or returns early, *)
(* and leaves notMode as it is. *)
PushQuery(p, nodes) ==
    LET all == IF p.notMode THEN Append(nodes, Not(Len(nodes))) ELSE nodes
        q == Len(all)
        top == Last(p.stack)
        kids == all[top].kids
        InOr == kids # <<>> /\ all[Last(kids)].op = "or"
        alternatives == all[Last(kids)].kids
        last == Last(alternatives)
    IN  IF p.orMode THEN
            [p EXCEPT !.nodes = [all EXCEPT ![top].kids = <<q + 2>>] \o <<And(kids), Or(<<q + 1, q>>)>>,
                      !.orMode = FALSE, !.notMode = FALSE]
        ELSE IF InOr /\ all[last].op = "and" THEN
            [p EXCEPT !.nodes = [all EXCEPT ![last].kids = Append(@, q)]]
        ELSE IF InOr THEN
            [p EXCEPT !.nodes = [Append(all, And(<<last, q>>)) EXCEPT ![Last(kids)].kids = Front(alternatives) \o <<q + 1>>]]
        ELSE
            [p EXCEPT !.nodes = [all EXCEPT ![top].kids = Append(@, q)], !.orMode = FALSE, !.notMode = FALSE]

OpenParen(p) ==
    [PushQuery(p, Append(p.nodes, And(<<>>))) EXCEPT !.stack = Append(@, Len(p.nodes) + 1)]

CloseParen(p) ==
    LET closed == [p EXCEPT !.orMode = FALSE, !.notMode = FALSE]
    IN  IF Len(p.stack) > 1 THEN [closed EXCEPT !.stack = Front(@)]
        ELSE [closed EXCEPT !.nodes = Append(@, And(<<p.stack[1]>>)), !.stack = <<Len(p.nodes) + 1>>]

PushKeyword(p, leaf) ==
    LET plain == Append(p.nodes, LeafNode(leaf))
    IN  PushQuery(p, IF leaf.not THEN Append(plain, Not(Len(plain))) ELSE plain)

(* One round of the loop of ParseQuery, for the token the tokenizer holds. *)
TakeToken(p) ==
    CASE p.token.type = "("   -> OpenParen(p)
      [] p.token.type = ")"   -> CloseParen(p)
      [] p.token.type = "or"  -> [p EXCEPT !.orMode = TRUE, !.notMode = FALSE]
      [] p.token.type = "not" -> [p EXCEPT !.notMode = ~@]
      [] OTHER           -> PushKeyword(p, p.token.leaf)

(* Scan: after `and` it goes on to the next word.  At the end of the input there is none, Scan *)
(* returns true all the same, and the token before is taken again. *)
AtEnd == IF words # <<>> /\ Last(words) = <<"and">> THEN TakeToken(parser) ELSE parser

Init == words = <<>> /\ parser = NewParser

ReadAnd ==
    /\ Len(words) < MaxWords /\ <<"and">> \in Punctuation
    /\ words' = Append(words, <<"and">>)
    /\ UNCHANGED parser

ReadToken(word, token) ==
    /\ Len(words) < MaxWords
    /\ \A i \in DOMAIN words : words[i] \in Punctuation \cup Keywords
    /\ words' = Append(words, word)
    /\ parser' = TakeToken([parser EXCEPT !.token = token])

ReadPunctuation == \E w \in Punctuation \ {<<"and">>} : ReadToken(w, [type |-> w[1]])
ReadKeyword == \E w \in Keywords \cup (IF words = <<>> THEN Spelled ELSE {}) : ReadToken(w, [type |-> "keyword", leaf |-> ScanKeyword(w)])

Next == ReadAnd \/ ReadPunctuation \/ ReadKeyword
Spec == Init /\ [][Next]_vars

-----------------------------------------------------------------------------
(* The queries as trees, and their methods. *)

RECURSIVE Tree(_, _)
Tree(nodes, id) ==
    LET node == nodes[id]
    IN  IF node.op = "leaf" THEN node ELSE [node EXCEPT !.kids = [i \in DOMAIN @ |-> Tree(nodes, @[i])]]

RECURSIVE Optimize(_)
InvertKeepsJoin(q) ==  \* mutant: a negation goes inside and leaves the and or the or
    IF q.op = "not" THEN q.kids[1] ELSE Optimize([q EXCEPT !.kids = [i \in DOMAIN @ |-> Not(@[i])]])
Invert(q) ==
    CASE q.op = "and" -> Optimize(Or([i \in DOMAIN q.kids |-> Not(q.kids[i])]))
      [] q.op = "or"  -> Optimize(And([i \in DOMAIN q.kids |-> Not(q.kids[i])]))
      [] q.op = "not" -> q.kids[1]
Optimize(q) ==
    LET kids == [i \in DOMAIN q.kids |-> Optimize(q.kids[i])]
        flat == FlattenSeq([i \in DOMAIN kids |-> IF kids[i].op = q.op THEN kids[i].kids ELSE <<kids[i]>>])
    IN  CASE q.op = "leaf" -> q
          [] q.op = "and"  -> IF Len(flat) = 1 THEN flat[1] ELSE And(flat)
          [] q.op = "or"   -> Or(flat)
          [] q.op = "not"  -> IF kids[1].op = "leaf" THEN Not(kids[1]) ELSE Invert(kids[1])

ParseQuery == Optimize(Tree(AtEnd.nodes, AtEnd.stack[1]))

(* SimpleQuery tries the fixed fields, FieldQuery those that its key names, the extra ones too. *)
FixedFields == {"time", "status", "latency", "target", "message"}
LeafMatch(leaf, r) ==
    \E f \in (IF leaf.key = NoKey THEN DOMAIN r \cap FixedFields ELSE {g \in DOMAIN r : StringMatch(leaf.key, <<g>>)}) :
        \E v \in r[f] : ValueMatch(leaf.value, v)

RECURSIVE Match(_, _)
Match(q, r) ==
    CASE q.op = "leaf" -> LeafMatch(q.leaf, r)
      [] q.op = "and"  -> \A i \in DOMAIN q.kids : Match(q.kids[i], r)
      [] q.op = "or"   -> \E i \in DOMAIN q.kids : Match(q.kids[i], r)
      [] q.op = "not"  -> ~Match(q.kids[1], r)

(* A range has a set of at most one start and one of at most one end: empty is a nil pointer. *)
Unbounded == [start |-> {}, end |-> {}]
From(t) == [start |-> {t}, end |-> {}]
UpTo(t) == [start |-> {}, end |-> {t}]

ValueRangeOpenStart(m) ==  \* mutant: >= begins after its literal
    IF m.op = {"greater", "equal"} THEN From(m.value + 1) ELSE Unbounded

ValueRange(m) ==
    CASE m.op \in {OpIncludes, {"equal"}} -> [start |-> {m.value}, end |-> {m.value + m.resolution - 1}]
      [] m.op = {"less"}             -> UpTo(m.value - 1)
      [] m.op = {"less", "equal"}    -> UpTo(m.value)
      [] m.op = {"greater"}          -> From(m.value + 1)
      [] m.op = {"greater", "equal"} -> From(m.value)
      [] OTHER -> Unbounded

NamesTime(leaf) == leaf.key = NoKey \/ StringMatch(leaf.key, <<"time">>)

Extreme(S, Pick(_)) == IF S = {} THEN {} ELSE {Pick(S)}

(* And takes the latest start and the earliest end of its parts, Or the earliest start and the  *)
(* latest end; a part without one has no say. *)
RECURSIVE TimeRange(_)
TimeRange(q) ==
    LET starts == UNION {TimeRange(q.kids[i]).start : i \in DOMAIN q.kids}
        ends == UNION {TimeRange(q.kids[i]).end : i \in DOMAIN q.kids}
        hull == [start |-> Extreme(starts, Min), end |-> Extreme(ends, Max)]
    IN  CASE q.op = "leaf" -> IF q.leaf.value.kind = "time" /\ NamesTime(q.leaf) THEN ValueRange(q.leaf.value) ELSE Unbounded
          [] q.op = "and"  -> [start |-> Extreme(starts, Max), end |-> Extreme(ends, Min)]
          [] q.op = "or"   -> IF \E s \in hull.start, e \in hull.end : s > e THEN Unbounded ELSE hull
          [] q.op = "not"  -> IF (starts = {}) = (ends = {}) THEN Unbounded
                              ELSE IF ends = {} THEN UpTo(Min(starts) - 1) ELSE From(Max(ends) + 1)

(* The scanners of OpenLog take the end of a range for an end outside of it. *)
Read(t, range) == (\A s \in range.start : t >= s) /\ (\A e \in range.end : t < e)

(* newLogOptionsByRequest: what the query leaves open is filled with the default period. *)
PageRange(range) ==
    LET end == IF range.end = {} THEN {Now} ELSE range.end
    IN  [start |-> IF range.start = {} THEN {e - DefaultPeriod : e \in end} ELSE range.start, end |-> end]

(* FetchLogsByJq: the range of the query narrows the range of the call. *)
NarrowRange(i, range) == [start |-> {Max({i[1]} \cup range.start)}, end |-> {Min({i[2]} \cup range.end)}]

-----------------------------------------------------------------------------
(* The grammar: alternatives divided by `or`, each a sequence of terms that must all match, each *)
(* term a keyword or a parenthesis with its negations.  A parenthesis that is not closed ends    *)
(* with the input, one that was not opened begins with it.  An alternative without terms matches *)
(* anything when it is the first, and does not count otherwise.                                  *)

(* The place of the parenthesis that closes the one ws begins with. *)
Closes(ws) ==
    LET Depth(j) == Cardinality({k \in 1..j : ws[k][1] = "("}) - Cardinality({k \in 1..j : ws[k][1] = ")"})
    IN  Min({Len(ws) + 1} \cup {j \in DOMAIN ws : Depth(j) = 0})

(* Means(ws, r, not, all, any): r matches ws, of which what came before made the alternative  *)
(* hold so far (all), or an earlier alternative hold (any), and ended in an odd number of     *)
(* negations (not); fresh after an `or`.                                                      *)
RECURSIVE Means(_, _, _, _, _, _)
Means(ws, r, not, all, any, fresh) ==
    LET close == Closes(ws)
        Term(holds, rest) == Means(rest, r, FALSE, all /\ (holds # not), any, FALSE)
        soFar == any \/ (~fresh /\ all)
    IN  IF ws = <<>> THEN soFar
        ELSE CASE ws[1][1] = "or"  -> Means(Tail(ws), r, FALSE, TRUE, soFar, TRUE)
               [] ws[1][1] = "not" -> Means(Tail(ws), r, ~not, all, any, fresh)
               [] ws[1][1] = "and" -> Means(Tail(ws), r, not, all, any, fresh)
               [] ws[1][1] = ")"   -> Means(Tail(ws), r, FALSE, soFar, FALSE, FALSE)
               [] ws[1][1] = "("   -> Term(Means(SubSeq(ws, 2, close - 1), r, FALSE, TRUE, FALSE, FALSE),
                                        SubSeq(ws, close + 1, Len(ws)))
               [] OTHER         -> LET leaf == ScanKeyword(ws[1]) IN Term(LeafMatch(leaf, r) # leaf.not, Tail(ws))

Agrees == LET q == ParseQuery IN \A r \in Records : Match(q, r) = Means(words, r, FALSE, TRUE, FALSE, FALSE)

(* A negation that is not at the head of its alternative leaks when the alternative is not the  *)
(* first one, see PushQuery; an `and` that ends the input repeats a term without its negation.  *)
Sound ==
    /\ \A i \in DOMAIN words : words[i][1] = "not" =>
          \A j \in 1 .. i - 1 : words[j][1] = "or" => \A k \in j .. i : words[k][1] \in {"or", "and", "not"}
    /\ AtEnd # parser => ~Contains(words, <<"not">>)

(* The query parsed from an input, optimised, matches the records that the grammar says: `or`   *)
(* binds weaker than sequence, parentheses group, negations apply to one term, whatever the     *)
(* nesting and wherever the input breaks off (README 633-640, TestParseQuery). *)
ParsesByGrammar == Sound => Agrees

(* The same with negations everywhere: `NOT a` "not matches to a" (README 638), and to nothing else. *)
NotAppliesToOneTerm == AtEnd = parser => Agrees

-----------------------------------------------------------------------------
(* Time conditions name the field `time`, and the alternatives of an `or` are bounded on the same sides. *)
RECURSIVE SameSides(_)
SameSides(q) ==
    /\ q.op = "leaf" /\ q.leaf.value.kind = "time" => q.leaf.key = NewStringMatcher(<< <<"time">> >>)
    /\ q.op # "leaf" => \A i \in DOMAIN q.kids : SameSides(q.kids[i])
    /\ q.op = "or" => \A i, j \in DOMAIN q.kids :
          LET a == TimeRange(q.kids[i]) b == TimeRange(q.kids[j])
          IN  ((a.start = {}) = (b.start = {})) /\ ((a.end = {}) = (b.end = {}))

IsTimeCondition(q) == q.op = "leaf" /\ q.leaf.value.kind = "time" /\ q.leaf.key # NoKey
OnlyTime(q) == IsTimeCondition(q) \/ (q.op = "and" /\ \A i \in DOMAIN q.kids : IsTimeCondition(q.kids[i]))

(* The part of the log that is read for a query has all records the query matches: on the log *)
(* page, those of the default period where the query leaves a side open; for an MCP call,     *)
(* those of the interval asked for.  Not so a record at the last instant of the query's range: *)
(* `time<=T` with a fraction of a second in T matches a record at T, and OpenLog ends before  *)
(* T.  The end of a T of seconds or coarser is between two records of a log file, which have   *)
(* whole seconds.  A conjunction of time conditions reads nothing else.                        *)
RangeCovers ==
    LET q == ParseQuery
        range == TimeRange(q)
        page == PageRange(range)
        Time(r) == CHOOSE t \in 0..Now : \E v \in r["time"] : v.value = t
    IN  SameSides(q) => \A r \in Records :
          LET t == Time(r)
          IN  /\ Match(q, r) /\ t \notin range.end =>
                    /\ Read(t, [page EXCEPT !.start = range.start])
                    /\ range.start = {} => Read(t, page) \/ \A e \in page.end : t < e - DefaultPeriod
                    /\ \A i \in Intervals : i[1] <= t /\ t < i[2] => Read(t, NarrowRange(i, range))
              /\ OnlyTime(q) /\ Read(t, range) => Match(q, r)

ReadAlone == {w \in Range(words) : Len(words) = 1 /\ w \in Spelled}

(* The six comparisons with one literal divide the values of its kind: each is less, equal or   *)
(* greater, <= and >= and != are the complements, also for literals that stand for a period     *)
(* (a day, a minute), where > begins after its end. *)
OrderingsPartition ==
    \A text \in ReadAlone :
      LET n == Len(text)
          Holds(o, v) == LET leaf == ScanKeyword([text EXCEPT ![n - 1] = o]) IN ValueMatch(leaf.value, v) # leaf.not
      IN  ( /\ n >= 2 /\ text[n] \in DOMAIN Quantity /\ text[n - 1] \in DOMAIN OpCode
            /\ \A i \in 1 .. n - 2 : text[i] \notin DOMAIN OpCode \cup {Quote} )
          => \A v \in UNION {UNION {r[f] : f \in DOMAIN r} : r \in Records} :
               (v.type = Quantity[text[n]].kind) =>
                 /\ Cardinality({o \in {"<", "=", ">"} : Holds(o, v)}) = 1
                 /\ Holds("<=", v) = ~Holds(">", v)
                 /\ Holds(">=", v) = ~Holds("<", v)
                 /\ Holds("!=", v) = ~Holds("=", v)

(* What a pattern means: a star stands for any text. *)
RECURSIVE PatternMatches(_, _)
PatternMatches(p, s) ==
    IF p = <<>> THEN s = <<>>
    ELSE IF p[1] = "*" THEN \E k \in 0 .. Len(s) : PatternMatches(Tail(p), SubSeq(s, k + 1, Len(s)))
    ELSE s # <<>> /\ s[1] = p[1] /\ PatternMatches(Tail(p), Tail(s))

(* Keywords match as patterns: a bare one anywhere in a text, one after = the whole text, one   *)
(* before = the names of the fields; the leftmost places that globMatcher takes never miss a    *)
(* match, the special matchers that the builder picks are no different, and a quoted star is no *)
(* pattern. *)
PatternsMatch ==
    \A text \in ReadAlone :
      ( /\ \A i \in DOMAIN text : text[i] \notin DOMAIN OpCode \cup {Quote}
        /\ Len(text) = 1 => text[1] \notin DOMAIN Quantity )
      => \A s \in Texts :
           LET v == [type |-> "text", text |-> s]
           IN  /\ ValueMatch(ScanKeyword(text).value, v) = PatternMatches(<<"*">> \o text \o <<"*">>, s)
               /\ ValueMatch(ScanKeyword(<<"=">> \o text).value, v) = PatternMatches(text, s)
               /\ ValueMatch(ScanKeyword(<<"=", Quote>> \o text \o <<Quote>>).value, v) = (s = text)
               /\ StringMatch(ScanKeyword(text \o <<"=">>).key, s) = PatternMatches(text, s)

(* What a keyword of the query matches, texts and quantities. *)
KeywordsMatch == PatternsMatch /\ OrderingsPartition
=============================================================================
