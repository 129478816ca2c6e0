------------------------------ MODULE SeqChain ------------------------------
(* Chains over iter.Seq (internal/seq/chain.go, failable_chain.go), as they   *)
(* are iterated: every level is a function that ranges over the level below   *)
(* and yields to the level above, so an element travels up until a level      *)
(* drops it, and a level that returns ends the loops of all levels below.     *)
(* Level 1 is the source, level N + 1 the call that ends the chain.           *)
EXTENDS Integers, FiniteSets, Sequences

CONSTANTS
  Chains,     \* the chains to iterate: [stages, consumer, walks]
  Walks,      \* iterations of one chain, running at the same time
  MaxStages,  \* bound on the length of a chain
  Err, Drop   \* an error; a FilterMap function's "do not keep"

ASSUME SeqAssumption ==
  /\ MaxStages \in Nat
  /\ \A c \in Chains : Len(c.stages) \in 1..MaxStages /\ c.walks \subseteq Walks

Levels == 1..(MaxStages + 1)

VARIABLES
  chain,
  started,  \* the walks that have begun
  ended,    \* walk -> the number of levels that have returned
  at,       \* walk -> [lvl, item], the element that is travelling (lvl = 0: none)
  pend,     \* walk, level -> what a FlatMap stage has left of its inner sequence
  st,       \* walk, level -> the local variables of the stage's function
  vals,     \* walk, level -> the values that have been yielded to the level
  errs,     \* walk, level -> the errors
  res       \* walk -> the locals of the call that ends the chain

vars == <<chain, started, ended, at, pend, st, vals, errs, res>>

N == Len(chain.stages)
Stage(k) == chain.stages[k]
Nothing == [lvl |-> 0, item |-> Drop]

----------------------------------------------------------------------------
(* The methods that are expressed in terms of another one, as the function    *)
(* they hand on.                                                              *)

FilterOrErr(f) == [v \in DOMAIN f |-> IF f[v] = Err THEN Err ELSE IF f[v] = TRUE THEN v ELSE Drop]
MapOrErr(f) == f

(* The loop bodies.  s is the stage, t its locals, v the element; the outcome *)
(* is the values the body yields or that it yields an error, whether it       *)
(* returns, and the locals behind it.                                         *)

Out(yields, stop, t) == [yields |-> yields, fail |-> FALSE, stop |-> stop, t |-> t]

Keep(v, t) == Out(<<v>>, FALSE, t)
Skipped(t) == Out(<<>>, FALSE, t)
Failed(t) == [yields |-> <<>>, fail |-> TRUE, stop |-> TRUE, t |-> t]

\* Defect: the loop asks for another element before it looks at the count.
TakeOneMore(s, t, v) ==
  IF t.rest = 0 THEN Out(<<>>, TRUE, t) ELSE Keep(v, [t EXCEPT !.rest = @ - 1])

\* Take on a Chain
TakeChain(s, t, v) == Out(<<v>>, t.rest = 1, [t EXCEPT !.rest = @ - 1])

\* Chain: Filter, Map and FilterMap; FlatMap; Take; TakeWhile; Skip; UniqFunc
ChainBody(s, t, v) ==
  CASE s.op = "filterMap" -> IF s.f[v] = Drop THEN Skipped(t) ELSE Keep(s.f[v], t)
    [] s.op = "flatMap" -> Out(s.f[v], FALSE, t)
    [] s.op = "take" -> TakeChain(s, t, v)
    [] s.op = "takeWhile" -> IF s.f[v] THEN Keep(v, t) ELSE Out(<<>>, TRUE, t)
    [] s.op = "skip" -> IF t.rest > 0 THEN Skipped([t EXCEPT !.rest = @ - 1]) ELSE Keep(v, t)
    [] OTHER -> IF s.f[v] \in t.seen THEN Skipped(t)
                ELSE Keep(v, [t EXCEPT !.seen = @ \cup {s.f[v]}])

\* Chunked
ChunkBody(s, t, v) ==
  IF Len(t.chunk) + 1 < s.n THEN Skipped([t EXCEPT !.chunk = Append(@, v)])
  ELSE Keep(Append(t.chunk, v), [t EXCEPT !.chunk = <<>>])

\* WithIndex
IndexBody(t, v) == Keep(<<t.next, v>>, [t EXCEPT !.next = @ + 1])

(* The bodies of a FailableChain hand on an error they are given, and return. *)

FilterMapOrErr(s, t, e) ==
  CASE e = Err -> Failed(t)
    [] e # Err /\ s.f[e] = Err -> Failed(t)
    [] e # Err /\ s.f[e] = Drop -> Skipped(t)
    [] OTHER -> Keep(s.f[e], t)

FlatMapOrErr(s, t, e) ==
  CASE e = Err -> Failed(t)
    [] e # Err /\ s.f[e] = Err -> Failed(t)
    [] OTHER -> Out(s.f[e], FALSE, t)

\* Take on a FailableChain
TakeBody(s, t, e) ==
  IF e = Err THEN Failed(t) ELSE Out(<<e>>, t.rest = 1, [t EXCEPT !.rest = @ - 1])

TakeWhileOrErr(s, t, e) ==
  CASE e = Err -> Failed(t)
    [] e # Err /\ s.f[e] = Err -> Failed(t)
    [] e # Err /\ s.f[e] = TRUE -> Keep(e, t)
    [] OTHER -> Out(<<>>, TRUE, t)

\* Defect: Skip yields the error and goes on.
SkipGoesOn(s, t, e) ==
  IF e = Err THEN [Failed(t) EXCEPT !.stop = FALSE]
  ELSE IF t.rest > 0 THEN Skipped([t EXCEPT !.rest = @ - 1]) ELSE Keep(e, t)

\* Skip on a FailableChain
SkipBody(s, t, e) ==
  IF e = Err THEN Failed(t)
  ELSE IF t.rest > 0 THEN Skipped([t EXCEPT !.rest = @ - 1]) ELSE Keep(e, t)

UniqFuncOrErr(s, t, e) ==
  CASE e = Err -> Failed(t)
    [] e # Err /\ s.f[e] = Err -> Failed(t)
    [] e # Err /\ s.f[e] \in t.seen -> Skipped(t)
    [] OTHER -> Keep(e, [t EXCEPT !.seen = @ \cup {s.f[e]}])

\* No error reaches a stage of a Chain.
Body(s, t, e) ==
  CASE s.op = "chunk" -> ChunkBody(s, t, e)
    [] s.op = "index" -> IndexBody(t, e)
    [] ~s.failable /\ s.op \notin {"chunk", "index"} -> ChainBody(s, t, e)
    [] s.failable /\ s.op = "filterMap" -> FilterMapOrErr(s, t, e)
    [] s.failable /\ s.op = "flatMap" -> FlatMapOrErr(s, t, e)
    [] s.failable /\ s.op = "take" -> TakeBody(s, t, e)
    [] s.failable /\ s.op = "takeWhile" -> TakeWhileOrErr(s, t, e)
    [] s.failable /\ s.op = "skip" -> SkipBody(s, t, e)
    [] OTHER -> UniqFuncOrErr(s, t, e)

----------------------------------------------------------------------------
(* The calls that end a chain: c is the call, r its locals [val, found, err]. *)

Go(r) == [r |-> r, stop |-> FALSE]
Stop(r) == [r |-> r, stop |-> TRUE]
Fail(c) == Stop([val |-> c.zero, found |-> FALSE, err |-> TRUE])

\* ToSeq2, and a loop over it that breaks after c.n elements
ToSeq2(c, r, e) ==
  IF e = Err THEN Stop([r EXCEPT !.err = TRUE])
  ELSE [r |-> [r EXCEPT !.val = Append(@, e)], stop |-> Len(r.val) + 1 = c.n]

ToSlice(c, r, e) == IF e = Err THEN Fail(c) ELSE Go([r EXCEPT !.val = Append(@, e)])

\* ToMapOrErr: the map as the set of its pairs
ToMapOrErr(c, r, e) ==
  IF e = Err \/ c.f[e] = Err THEN Fail(c)
  ELSE Go([r EXCEPT !.val = {p \in @ : p[1] # c.f[e]} \cup {<<c.f[e], e>>}])

FindOrErr(c, r, e) ==
  CASE e = Err -> Fail(c)
    [] e # Err /\ c.f[e] = Err -> Fail(c)
    [] e # Err /\ c.f[e] = TRUE -> Stop([r EXCEPT !.val = e, !.found = TRUE])
    [] OTHER -> Go(r)

\* AllOrErr: looks for an element that fails; the answer is turned round below.
AllOrErr(c, r, e) ==
  FindOrErr([c EXCEPT !.f = [v \in DOMAIN c.f |-> IF c.f[v] = Err THEN Err ELSE ~c.f[v]]], r, e)

\* ReduceOrErr adding numbers up; Count adds ones, EachOrErr nothing.
ReduceOrErr(c, r, e) ==
  IF e = Err \/ c.f[e] = Err THEN Fail(c) ELSE Go([r EXCEPT !.val = @ + c.f[e]])

\* The calls that end a Chain are the same loops over a sequence without errors;
\* ToSet has the keys of ToMap.
Consumer(c, r, e) ==
  CASE c.op = "seq" -> ToSeq2(c, r, e)
    [] c.op = "slice" -> ToSlice(c, r, e)
    [] c.op = "map" -> ToMapOrErr(c, r, e)
    [] c.op = "find" -> FindOrErr(c, r, e)
    [] c.op = "all" -> AllOrErr(c, r, e)
    [] c.op = "reduce" -> ReduceOrErr(c, r, e)

\* What the call returns.
Answer(i) ==
  CASE chain.consumer.op = "all" -> [val |-> ~res[i].err /\ ~res[i].found, err |-> res[i].err]
    [] OTHER -> [val |-> res[i].val, err |-> res[i].err]

----------------------------------------------------------------------------
(* Iteration. *)

\* A value is yielded to level k, or an error is.
Yield(i, k, v) ==
  /\ at' = [at EXCEPT ![i] = [lvl |-> k, item |-> v]]
  /\ vals' = [vals EXCEPT ![i][k] = Append(@, v)]
  /\ errs' = errs

YieldError(i, k) ==
  /\ at' = [at EXCEPT ![i] = [lvl |-> k, item |-> Err]]
  /\ errs' = [errs EXCEPT ![i][k] = @ + 1]
  /\ vals' = vals

\* Locals of a stage before its loop.
Locals(k) ==
  [rest |-> IF k \in 2..N /\ Stage(k).op \in {"take", "skip"} THEN Stage(k).n ELSE 0,
   seen |-> {}, chunk |-> <<>>, next |-> 0]

\* Defect: the locals are made when the chain is built, not when it is iterated, so a
\* walk takes over what an earlier one has left.
HoistedLocals(i) ==
  IF started = {} THEN [k \in Levels |-> Locals(k)] ELSE st[CHOOSE j \in started : TRUE]

\* Every method keeps its per-iteration state inside the sequence it returns.
FreshLocals(i) == [k \in Levels |-> Locals(k)]

\* A Take of zero returns before it ranges over anything.
TakesNothing == {k \in 2..N : Stage(k).op = "take" /\ Stage(k).n = 0}

Init ==
  /\ chain \in Chains
  /\ started = {}
  /\ ended = [i \in Walks |-> 0]
  /\ at = [i \in Walks |-> Nothing]
  /\ pend = [i \in Walks |-> [k \in Levels |-> <<>>]]
  /\ st = [i \in Walks |-> [k \in Levels |-> Locals(k)]]
  /\ vals = [i \in Walks |-> [k \in Levels |-> <<>>]]
  /\ errs = [i \in Walks |-> [k \in Levels |-> 0]]
  /\ res = [i \in Walks |-> [val |-> chain.consumer.zero, found |-> FALSE, err |-> FALSE]]

Start(i) ==
  /\ i \in chain.walks \ started
  /\ started' = started \cup {i}
  /\ st' = [st EXCEPT ![i] = FreshLocals(i)]
  /\ \E k \in TakesNothing \cup {0} :
       (\A j \in TakesNothing : j <= k) /\ ended' = [ended EXCEPT ![i] = k]
  /\ UNCHANGED <<chain, at, pend, vals, errs, res>>

Idle(i) == i \in started /\ at[i].lvl = 0 /\ ended[i] <= N

\* NewFailableChain, ChainOf, Chain.failable: the source yields its next element.
Pull(i) ==
  LET s == Stage(1)
      e == s.items[st[i][1].next + 1]
  IN /\ Idle(i) /\ ended[i] = 0 /\ \A k \in 1..N : pend[i][k] = <<>>
     /\ st[i][1].next < Len(s.items)
     /\ st' = [st EXCEPT ![i][1].next = @ + 1]
     /\ IF e = Err THEN YieldError(i, 2) /\ ended' = [ended EXCEPT ![i] = 1]
        ELSE Yield(i, 2, e) /\ ended' = ended
     /\ UNCHANGED <<chain, started, pend, res>>

\* The body of a stage's loop.
Handle(i) ==
  LET k == at[i].lvl
      out == Body(Stage(k), st[i][k], at[i].item)
  IN /\ k \in 2..N
     /\ st' = [st EXCEPT ![i][k] = out.t]
     /\ ended' = [ended EXCEPT ![i] = IF out.stop THEN k ELSE @]
     /\ CASE out.fail -> YieldError(i, k + 1) /\ pend' = pend
          [] ~out.fail /\ out.yields = <<>> ->
               at' = [at EXCEPT ![i] = Nothing] /\ UNCHANGED <<vals, errs, pend>>
          [] OTHER -> /\ Yield(i, k + 1, Head(out.yields))
                      /\ pend' = [pend EXCEPT ![i][k] = Tail(out.yields)]
     /\ UNCHANGED <<chain, started, res>>

\* Control is back in the inner loop of a FlatMap stage.
Resume(i) ==
  /\ Idle(i)
  /\ \E k \in (ended[i] + 1)..N :
       /\ pend[i][k] # <<>> /\ \A j \in (k + 1)..N : pend[i][j] = <<>>
       /\ Yield(i, k + 1, Head(pend[i][k]))
       /\ pend' = [pend EXCEPT ![i][k] = Tail(@)]
  /\ UNCHANGED <<chain, started, ended, st, res>>

\* The loop of the level above those that have returned comes to its end; Chunked then
\* yields what it has left.
Return(i) ==
  LET k == ended[i] + 1 IN
  /\ Idle(i) /\ \A j \in k..N : pend[i][j] = <<>>
  /\ k = 1 => st[i][1].next = Len(Stage(1).items)
  /\ ended' = [ended EXCEPT ![i] = k]
  /\ IF k \in 2..N /\ st[i][k].chunk # <<>> THEN Yield(i, k + 1, st[i][k].chunk)
     ELSE UNCHANGED <<at, vals, errs>>
  /\ UNCHANGED <<chain, started, pend, st, res>>

\* The body of the loop that ends the chain.
Consume(i) ==
  LET c == Consumer(chain.consumer, res[i], at[i].item) IN
  /\ at[i].lvl = N + 1
  /\ res' = [res EXCEPT ![i] = c.r]
  /\ at' = [at EXCEPT ![i] = Nothing]
  /\ ended' = [ended EXCEPT ![i] = IF c.stop THEN N + 1 ELSE @]
  /\ UNCHANGED <<chain, started, pend, st, vals, errs>>

Over(i) == ended[i] = N + 1 /\ at[i].lvl = 0

Finished == (\A i \in chain.walks : Over(i)) /\ UNCHANGED vars

Next ==
  \/ \E i \in Walks : Start(i) \/ Pull(i) \/ Handle(i) \/ Resume(i) \/ Return(i) \/ Consume(i)
  \/ Finished

Spec == Init /\ [][Next]_vars

----------------------------------------------------------------------------
(* Properties. *)

\* An element travels above the levels that have returned: no yield function is
\* called after its loop has ended (which panics in Go), and an error that a level
\* has seen is the end of the levels below.
NoLateYield ==
  \A i \in Walks :
    /\ at[i].lvl > 0 => at[i].lvl > ended[i]
    /\ \A k \in 2..(N + 1) : errs[i][k] > 0 => ended[i] >= k - 1

\* Nothing arrives at any level after an error (failable_chain.go:16, and :92 for the
\* methods that drive a loop of their own).
NothingAfterError ==
  [][\A i \in Walks, k \in Levels :
       errs[i][k] > 0 => vals'[i][k] = vals[i][k] /\ errs'[i][k] = errs[i][k]]_vars
=============================================================================
