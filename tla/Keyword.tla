------------------------------ MODULE Keyword ------------------------------
(***************************************************************************)
(* The keywords of the query language and what they match:                 *)
(* internal/query/tokenizer.go, operator.go, stringmatcher.go and          *)
(* valuematcher.go.                                                        *)
(*                                                                         *)
(* A keyword is spelled as a sequence of pieces: a piece is an operator, a *)
(* star, a quotation mark or an atom, a bit of text that is not taken      *)
(* apart.  A text is a sequence of atoms, so that `time` is <<"time">>.    *)
(* Instants and latencies are integers, a nanosecond being 1.              *)
(***************************************************************************)
EXTENDS Integers, SequencesExt, FiniteSetsExt

CONSTANT Quantity  \* the atoms that parse as a number, a duration or a time: their kind, value and resolution
QuantityAssumption ==
    \A a \in DOMAIN Quantity : /\ Quantity[a].kind \in {"number", "duration", "time"}
                               /\ Quantity[a].value \in Nat /\ Quantity[a].resolution \in Nat \ {0}

Star == <<>>        \* nil in a []*string; a literal is never empty
Quote == "quote"

-----------------------------------------------------------------------------
(* operator.go: an operator is the set of its bits. *)

OpIncludes == {}
OpCode == [o \in {"=", "!=", "<", "<=", ">", ">="} |->
             CASE o = "="  -> {"equal"}         [] o = "!=" -> {"equal", "not"}
               [] o = "<"  -> {"less"}          [] o = "<=" -> {"less", "equal"}
               [] o = ">"  -> {"greater"}       [] o = ">=" -> {"greater", "equal"}]

-----------------------------------------------------------------------------
(* stringmatcher.go *)

(* The places of text s, after the first `from` atoms and before the atom `to` + 1, where chunk begins. *)
Places(s, chunk, from, to) == {i \in from .. (to - Len(chunk)) : SubSeq(s, i + 1, i + Len(chunk)) = chunk}
HasText(s, sub) == Places(s, sub, 0, Len(s)) # {}

TakeChunkKeepRight(s, m, chunk) ==  \* mutant: leaves room for the chunks already taken
    LET at == Places(s, chunk, m.left, m.right)
    IN  IF m.found /\ at # {} THEN [m EXCEPT !.left = Min(at) + Len(chunk)] ELSE [m EXCEPT !.found = FALSE]

(* One chunk of globMatcher.Match: its leftmost place that leaves room for the chunks after it. *)
TakeChunk(s, m, chunk) ==
    LET right == m.right + Len(chunk)
        at == Places(s, chunk, m.left, right)
    IN  IF m.found /\ at # {} THEN [found |-> TRUE, left |-> Min(at) + Len(chunk), right |-> right]
                              ELSE [m EXCEPT !.found = FALSE]

GlobMatch(g, s) ==
    LET chunksLength == Len(FlattenSeq(g.chunks))
    IN  /\ Len(s) >= Len(g.prefix) + chunksLength + Len(g.suffix)
        /\ IsPrefix(g.prefix, s) /\ IsSuffix(g.suffix, s)
        /\ FoldLeft(LAMBDA m, c : TakeChunk(s, m, c),
                    [found |-> TRUE, left |-> Len(g.prefix), right |-> Len(s) - chunksLength - Len(g.suffix)],
                    g.chunks).found

(* newStringMatcher.  The cheapest matcher that does what prefix, chunks and suffix ask for. *)
MatcherOf(parts, prefix, chunks, suffix) ==
    [kind |-> CASE parts = <<>> -> "exact"
                [] chunks = <<>> /\ prefix # <<>> /\ suffix = <<>> -> IF Last(parts) = Star THEN "prefix" ELSE "exact"
                [] chunks = <<>> /\ prefix = <<>> /\ suffix # <<>> -> "suffix"
                [] prefix = <<>> /\ suffix = <<>> /\ Len(chunks) = 1 -> "include"
                [] OTHER -> "glob",
     prefix |-> prefix, suffix |-> suffix, chunks |-> chunks]

(* The last literal is the suffix unless a star follows it. *)
CutSuffix(parts, prefix, rest) ==
    IF rest # <<>> /\ Last(parts) # Star THEN MatcherOf(parts, prefix, Front(rest), Last(rest))
                                         ELSE MatcherOf(parts, prefix, rest, <<>>)

(* The first literal is the prefix unless a star comes before it. *)
CutPrefix(parts, literals) ==
    IF literals # <<>> /\ parts[1] # Star THEN CutSuffix(parts, literals[1], Tail(literals))
                                          ELSE CutSuffix(parts, <<>>, literals)

(* Literals without a star between them are one. *)
JoinLiteral(parts, e) ==
    IF e # Star /\ parts # <<>> /\ Last(parts) # Star THEN Front(parts) \o <<Last(parts) \o e>> ELSE Append(parts, e)

MatcherOfParts(parts) == CutPrefix(parts, SelectSeq(parts, LAMBDA e : e # Star))
NewStringMatcher(query) == MatcherOfParts(FoldLeft(JoinLiteral, <<>>, query))

StringMatch(m, s) ==
    CASE m.kind = "exact"   -> s = m.prefix
      [] m.kind = "prefix"  -> IsPrefix(m.prefix, s)
      [] m.kind = "suffix"  -> IsSuffix(m.suffix, s)
      [] m.kind = "include" -> HasText(s, m.chunks[1])
      [] OTHER              -> GlobMatch(m, s)

-----------------------------------------------------------------------------
(* valuematcher.go *)

AnyValue == [kind |-> "any"]

(* newOrderingValueMatcher takes one literal that parses; a time with > or <= stands for its last instant. *)
IsQuantity(ss) == Len(ss) = 1 /\ Len(ss[1]) = 1 /\ ss[1][1] \in DOMAIN Quantity

QuantityMatcher(q, op, str) ==
    LET last == IF q.kind = "time" /\ op \in {{"greater"}, {"less", "equal"}} THEN q.resolution - 1 ELSE 0
    IN  [kind |-> q.kind, op |-> op, value |-> q.value + last, resolution |-> q.resolution, str |-> str]

NewValueMatcher(ss, op) ==
    IF IsQuantity(ss) THEN QuantityMatcher(Quantity[ss[1][1]], op, ss[1])
    ELSE [kind |-> "text", matcher |-> NewStringMatcher(IF op = OpIncludes THEN <<Star>> \o ss \o <<Star>> ELSE ss)]

(* The comparisons at the end of the Match methods; numbers and durations have resolution 1. *)
Compare(m, x) ==
    \/ "equal" \in m.op /\ x = m.value
    \/ IF "less" \in m.op THEN x < m.value
       ELSE IF "greater" \in m.op THEN x > m.value
       ELSE m.value <= x /\ x < m.value + m.resolution

(* A value of a record is a time, a duration or a text.  A matcher of quantities reads a text   *)
(* as it reads its own literal, or looks for its literal in it when it has no operator.  The    *)
(* text of a time or a duration, which only matchers of texts see, is TextOf.                   *)
CONSTANT TextOf(_)

ValueMatch(m, v) ==
    CASE m.kind = "any"  -> TRUE
      [] m.kind = "text" -> StringMatch(m.matcher, IF v.type = "text" THEN v.text ELSE TextOf(v))
      [] OTHER ->
           \/ v.type = "text" /\ m.op = OpIncludes /\ HasText(v.text, m.str)
           \/ /\ v.type = "text" /\ Len(v.text) = 1 /\ v.text[1] \in DOMAIN Quantity
              /\ Quantity[v.text[1]].kind = m.kind /\ Compare(m, Quantity[v.text[1]].value)
           \/ v.type = "time" /\ m.kind = "time" /\ Compare(m, v.value)
           \/ v.type = "duration" /\ m.kind \in {"duration", "number"} /\ Compare(m, v.value)

-----------------------------------------------------------------------------
(* tokenizer.scanKeyword *)

CloseBuf(s) ==
    LET strings == IF s.buf = <<>> THEN s.strings ELSE Append(s.strings, s.buf)
    IN  [s EXCEPT !.buf = <<>>, !.strings = <<>>,
                  !.tokens = IF strings = <<>> THEN @ ELSE Append(@, [literal |-> TRUE, op |-> OpIncludes, value |-> strings])]

ScanPiece(s, c) ==
    CASE c = Quote -> [s EXCEPT !.quote = ~@]
      [] s.quote \/ c \notin DOMAIN OpCode \cup {"*"} -> [s EXCEPT !.buf = Append(@, c)]
      [] c = "*" -> [CloseBuf(s) EXCEPT !.strings = <<Star>>]
      [] OTHER -> [CloseBuf(s) EXCEPT !.tokens = Append(@, [literal |-> FALSE, op |-> OpCode[c], value |-> << <<c>> >>])]

KeywordTokens(text) ==
    CloseBuf(FoldLeft(ScanPiece, [tokens |-> <<>>, buf |-> <<>>, strings |-> <<>>, quote |-> FALSE], text)).tokens

NoKey == [kind |-> "none"]
Leaf(key, op, value) == [key |-> key, not |-> "not" \in op, value |-> value]

(* The first = or != divides a keyword of several tokens into key and value; without one, the   *)
(* last comparison does when an orderable literal follows it; else all of it is one text.       *)
Divide(tokens, quoted) ==
    LET n == Len(tokens)
        Values(from, to) == FlattenSeq([i \in 1 .. (to - from + 1) |-> tokens[from + i - 1].value])
        equals == {i \in 1..n : n > 1 /\ tokens[i].op \in {OpCode["="], OpCode["!="]}}
        ordered == /\ n > 1 /\ ~tokens[n - 1].literal /\ tokens[n].literal
                   /\ IsQuantity(tokens[n].value)
        WithKey(left, op, right) ==
            Leaf(IF left # <<>> \/ quoted THEN NewStringMatcher(left) ELSE NoKey, op, NewValueMatcher(right, op \ {"not"}))
    IN  IF n = 0 THEN Leaf(NoKey, OpIncludes, AnyValue)
        ELSE IF equals # {} THEN WithKey(Values(1, Min(equals) - 1), tokens[Min(equals)].op, Values(Min(equals) + 1, n))
        ELSE IF ordered THEN WithKey(Values(1, n - 2), tokens[n - 1].op, tokens[n].value)
        ELSE Leaf(NoKey, OpIncludes, NewValueMatcher(Values(1, n), OpIncludes))

ScanKeyword(text) == Divide(KeywordTokens(text), text # <<>> /\ Head(text) = Quote)
=============================================================================
