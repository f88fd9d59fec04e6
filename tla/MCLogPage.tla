------------------------------ MODULE MCLogPage ------------------------------
(* What a page of the log shows: the query that is parsed, and the scanners that are merged *)
(* and paged.  A behaviour of this module is one of Query or one of LogReader, while the    *)
(* other stays in an initial state.                                                         *)
EXTENDS LogReader, SequencesExt

CONSTANTS Quantity, TextOf(_), Texts, Punctuation, Keywords, Spelled, MaxWords, Records, DefaultPeriod, Now, Intervals

VARIABLES
    words, parser,   \* of Query
    part

queryVars == <<words, parser>>

Language == INSTANCE Query

ASSUME Language!QuantityAssumption

MCInit ==
    /\ part \in {"query", "reader"}
    /\ Language!Init /\ Init
    /\ part # "reader" => offset = 0 /\ limit = 0

MCNext ==
    \/ part = "query" /\ Language!Next /\ UNCHANGED <<vars, part>>
    \/ part = "reader" /\ Next /\ UNCHANGED <<queryVars, part>>
    \/ part = "query" /\ UNCHANGED <<queryVars, vars, part>>  \* the input has ended

MCSpec == MCInit /\ [][MCNext]_<<queryVars, vars, part>>

(* See Query and LogReader. *)
ParsesByGrammar == part = "query" => Language!ParsesByGrammar
NotAppliesToOneTerm == part = "query" => Language!NotAppliesToOneTerm
RangeCovers == part = "query" => Language!RangeCovers
KeywordsMatch == part = "query" => Language!KeywordsMatch

(* Two days D1 (instants 2-3) and D2 (4-5), a latency L, and the atoms x, y and z. *)
MCQuantity ==
    "D1" :> [kind |-> "time", value |-> 2, resolution |-> 2] @@
    "D2" :> [kind |-> "time", value |-> 4, resolution |-> 2] @@
    "L"  :> [kind |-> "duration", value |-> 2, resolution |-> 1]

MCTextOf(v) == <<v.type, "D1">>

MCTexts == SeqOf({"x", "y"}, 4)
Text(s) == [type |-> "text", text |-> s]
MCRecords == {[time |-> {[type |-> "time", value |-> t]}, latency |-> {[type |-> "duration", value |-> t % 4]},
               message |-> {Text(m)}, note |-> {Text(<<"y">>), Text(<<"D2">>)}] :
              t \in 1..6, m \in {<<"x">>, <<"y">>, <<"x", "z", "y">>}}

After == <<"time", ">=", "D1">>
Before == <<"time", "<=", "D1">>
MCKeywords == {<<"x">>, After, Before}
FewKeywords == {<<"x">>, <<"y">>}
MCSpelled == (SeqOf({"time", "L", "D1", "*", "<", "!="}, 4) \cup SeqOf({"x", "y", "*"}, 5)) \ {<<>>}
MCPunctuation == {<<"(">>, <<")">>, <<"or">>, <<"not">>, <<"and">>}
FewPunctuation == {<<"or">>, <<"not">>}
MCIntervals == {<<0, 3>>, <<3, 4>>, <<3, 7>>}

(* The end of a month and the beginning of the next one, with names that begin with the day: *)
(* the order of the names is not the order of time. *)
MCFileOf == [t \in 1..MaxTime |-> IF t < 3 THEN 31 ELSE 1]
=============================================================================
