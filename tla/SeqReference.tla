---------------------------- MODULE SeqReference ----------------------------
(* What a chain means, on whole sequences: each method as a function from the *)
(* sequence below it to the sequence it gives.  A sequence here is values     *)
(* with at most one Err, at its end.                                          *)
EXTENDS SeqChain, SequencesExt

\* Through the first position where P holds, or before it.
Until(s, P(_)) ==
  LET hits == {j \in DOMAIN s : P(s[j])} IN IF hits = {} THEN s ELSE SubSeq(s, 1, Min(hits))
Before(s, P(_)) ==
  LET hits == {j \in DOMAIN s : P(s[j])} IN IF hits = {} THEN s ELSE SubSeq(s, 1, Min(hits) - 1)

ToError(s) == Until(s, LAMBDA x : x = Err)
Applied(f, s) == ToError([j \in DOMAIN s |-> IF s[j] = Err THEN Err ELSE f[s[j]]])

Chunks(s, n) ==
  [j \in 1..((Len(s) + n - 1) \div n) |->
     SubSeq(s, (j - 1) * n + 1, IF j * n < Len(s) THEN j * n ELSE Len(s))]

\* A method; a source that has not ended may still fill the last chunk.
Means(s, input, ends) ==
  LET n == Len(input) IN
  CASE s.op = "filterMap" -> SelectSeq(Applied(s.f, input), LAMBDA x : x # Drop)
    [] s.op = "flatMap" ->
         FlattenSeq([j \in DOMAIN Applied(s.f, input) |->
                       LET x == Applied(s.f, input)[j] IN IF x = Err THEN <<Err>> ELSE x])
    [] s.op = "take" -> IF s.n < 0 \/ s.n > n THEN input ELSE SubSeq(input, 1, s.n)
    [] s.op = "takeWhile" ->
         LET kept == Before(Applied(s.f, input), LAMBDA x : x = FALSE) IN
         [j \in DOMAIN kept |-> IF kept[j] = Err THEN Err ELSE input[j]]
    [] s.op = "skip" ->
         LET m == Cardinality({j \in 1..n : j <= s.n /\ input[j] # Err}) IN SubSeq(input, m + 1, n)
    [] s.op = "uniq" ->
         LET keys == Applied(s.f, input)
             first == {j \in DOMAIN keys : \A h \in 1..(j - 1) : keys[h] # keys[j]}
             pairs == [j \in DOMAIN keys |-> IF keys[j] = Err THEN Err ELSE input[j]]
         IN [h \in 1..Cardinality(first) |->
               pairs[CHOOSE j \in first : Cardinality({g \in first : g <= j}) = h]]
    [] s.op = "chunk" -> IF ends THEN Chunks(input, s.n) ELSE Chunks(SubSeq(input, 1, n - (n % s.n)), s.n)
    [] s.op = "index" -> [j \in 1..n |-> <<j - 1, input[j]>>]

\* The sequence that level k is given when the source has the elements of input, and
\* ends or may go on.
RECURSIVE Given(_, _, _)
Given(input, k, ends) ==
  IF k = 2 THEN ToError(input) ELSE Means(Stage(k - 1), Given(input, k - 1, ends), ends)

Source == Stage(1).items

\* The call that ends the chain, on the whole sequence.
Settling(c, s) ==
  {j \in DOMAIN s :
     \/ s[j] = Err
     \/ c.op \in {"find", "all", "map", "reduce"} /\ s[j] # Err /\ c.f[s[j]] = Err
     \/ c.op = "find" /\ s[j] # Err /\ c.f[s[j]] = TRUE
     \/ c.op = "all" /\ s[j] # Err /\ c.f[s[j]] = FALSE
     \/ c.op = "seq" /\ j = c.n}

Expected(c, s) ==
  LET hits == Settling(c, s)
      hit == IF hits = {} THEN Err ELSE s[Min(hits)]
      failed == hits # {} /\ (hit = Err \/ (c.op # "seq" /\ c.op # "slice" /\ c.f[hit] = Err))
  IN [err |-> failed,
      val |->
        CASE c.op = "seq" -> SelectSeq(IF hits = {} THEN s ELSE SubSeq(s, 1, Min(hits)), LAMBDA e : e # Err)
          [] c.op = "all" -> hits = {}
          [] c.op = "find" -> IF hits = {} \/ failed THEN c.zero ELSE hit
          [] c.op # "seq" /\ failed -> c.zero
          [] c.op = "slice" /\ ~failed -> s
          [] c.op = "reduce" /\ ~failed -> MapThenSumSet(LAMBDA j : c.f[s[j]], DOMAIN s)
          [] c.op = "map" /\ ~failed ->
               {<<c.f[s[j]], s[j]>> : j \in {h \in DOMAIN s : \A g \in DOMAIN s : g > h => c.f[s[g]] # c.f[s[h]]}}]

\* Nothing further can come out of the chain once its source has given input: some
\* level has what makes it return, or the call that ends the chain has its answer.
Closed(input) ==
  \/ \E k \in 2..N :
       LET s == Stage(k)
           given == Given(input, k, FALSE)
           gives == Given(input, k + 1, FALSE)
       IN \/ s.op = "take" /\ s.n >= 0 /\ Len(given) >= s.n
          \/ s.op = "takeWhile" /\ \E j \in DOMAIN given : given[j] # Err /\ s.f[given[j]] = FALSE
          \/ \E j \in DOMAIN gives : gives[j] = Err
  \/ Settling(chain.consumer, Given(input, N + 1, FALSE)) # {}

----------------------------------------------------------------------------
(* Properties. *)

\* What has been yielded to a level is the beginning of what the methods below it mean
\* there, at every moment and in every walk: laziness, early returns and other walks
\* over the same chain change no element (failable_chain.go:8).  And the call that ends
\* the chain returns what it would return on the whole sequence (failable_chain.go:340,
\* :354: an error counts only when it comes before what settles the answer).
LazyIsEager ==
  \A i \in Walks :
    /\ \A k \in 2..(N + 1) :
         IsPrefix(vals[i][k] \o IF errs[i][k] > 0 THEN <<Err>> ELSE <<>>, Given(Source, k, TRUE))
    /\ Over(i) => Answer(i) = Expected(chain.consumer, Given(Source, N + 1, TRUE))

\* A walk asks its source for no element it can do without: it stops at the first one
\* behind which nothing can come out of the chain (failable_chain.go:145, :343).
PullsOnlyWhatItNeeds ==
  \A i \in Walks : Over(i) => \A n \in 0..(st[i][1].next - 1) : ~Closed(SubSeq(Source, 1, n))
=============================================================================
