----------------------------- MODULE MCSeqChain -----------------------------
(* The chains the runs iterate: sources over two values and an error, up to   *)
(* two methods, and every call that ends a chain.                             *)
EXTENDS SeqReference

CONSTANTS a, b, LongestSource

Vals == {a, b}
FailsOnB(x) == [v \in Vals |-> IF v = b THEN Err ELSE x]
OnlyA == [v \in Vals |-> v = a]
OnlyB == [v \in Vals |-> v = b]

Failing(op, n, f) == [op |-> op, failable |-> TRUE, n |-> n, f |-> f]
Safe(op, n, f) == [op |-> op, failable |-> FALSE, n |-> n, f |-> f]
Swap == [v \in Vals |-> IF v = a THEN b ELSE a]
Same == [v \in Vals |-> v]
Twice == [v \in Vals |-> IF v = a THEN <<a, b>> ELSE <<>>]

SafeStages ==
  {Safe("filterMap", 0, FilterOrErr(OnlyA)), Safe("filterMap", 0, MapOrErr(Swap)),
   Safe("flatMap", 0, Twice), Safe("take", 2, Same), Safe("takeWhile", 0, OnlyA),
   Safe("skip", 1, Same), Safe("uniq", 0, Same)}

\* The methods that give elements of another type.
PackingStages == {Safe("chunk", 2, Same), Safe("index", 0, Same)}

FailingStages ==
  {Failing("filterMap", 0, FilterOrErr(OnlyA)), Failing("filterMap", 0, FailsOnB(a)),
   Failing("flatMap", 0, Twice), Failing("flatMap", 0, FailsOnB(<<a, b>>)),
   Failing("take", 0, Same), Failing("take", 1, Same), Failing("take", 2, Same),
   Failing("takeWhile", 0, FailsOnB(TRUE)), Failing("takeWhile", 0, OnlyA),
   Failing("skip", 1, Same), Failing("skip", -1, Same), Failing("uniq", 0, FailsOnB(a)),
   Failing("uniq", 0, Same), Failing("take", -1, Same)}

SourcesOver(S) ==
  {[op |-> "source", failable |-> TRUE, n |-> 0, items |-> s] :
     s \in UNION {[1..n -> S] : n \in 0..LongestSource}}

Consumers ==
  LET call(op, n, zero, f) == [op |-> op, n |-> n, zero |-> zero, f |-> f] IN
  {call("seq", 2, <<>>, Same), call("slice", 0, <<>>, Same), call("map", 0, {}, FailsOnB(a)),
   call("map", 0, {}, Same), call("find", 0, Drop, OnlyB), call("find", 0, Drop, FailsOnB(FALSE)),
   call("all", 0, TRUE, OnlyA), call("reduce", 0, 0, [v \in Vals |-> 1]),
   call("reduce", 0, 0, FailsOnB(0))}

Chainings(sources, first, second) ==
  {<<src, s>> : src \in sources, s \in first}
  \cup {<<src, s, t>> : src \in sources, s \in first, t \in second}

\* One walk over every chain.
EagerChains ==
  [stages : Chainings(SourcesOver(Vals \cup {Err}), FailingStages, FailingStages)
            \cup Chainings(SourcesOver(Vals), SafeStages, SafeStages \cup FailingStages),
   consumer : Consumers, walks : {{1}}]

\* Chains with state, for several walks; and the methods that change the element type.
ReplayChains ==
  [stages : Chainings(SourcesOver(Vals \cup {Err}),
                      {Failing("uniq", 0, Same), Failing("take", 2, Same), Failing("skip", 1, Same),
                       Failing("flatMap", 0, Twice)},
                      {Failing("take", 1, Same), Failing("uniq", 0, Same)})
            \cup {<<src, s, t, u>> : src \in SourcesOver(Vals), s \in SafeStages, t \in PackingStages,
                                     u \in {Safe("take", 1, Same), Failing("skip", 1, Same)}},
   consumer : {c \in Consumers : c.op \in {"seq", "slice"}}, walks : {{1, 2}}]

MCChains == EagerChains \cup ReplayChains
=============================================================================
