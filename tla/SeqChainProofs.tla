--------------------------- MODULE SeqChainProofs ---------------------------
(* No chain, whatever its source, methods and functions, yields anything      *)
(* after an error or to a loop that has ended.                                *)
EXTENDS SeqChain, TLAPS

(* The shape of the state, as far as the argument needs it, and a walk that   *)
(* has not begun has not moved.                                               *)
Shape ==
  /\ Len(chain.stages) \in 1..MaxStages
  /\ ended \in [Walks -> 0..(N + 1)]
  /\ errs \in [Walks -> [Levels -> Nat]]
  /\ DOMAIN at = Walks
  /\ DOMAIN vals = Walks /\ \A i \in Walks : DOMAIN vals[i] = Levels
  /\ \A i \in Walks : at[i].lvl \in {0} \cup 2..(N + 1)
  /\ \A i \in Walks \ started : ended[i] = 0 /\ at[i].lvl = 0

IInv == Shape /\ NoLateYield

\* A loop body that yields an error returns.
LEMMA FailureStops ==
  ASSUME NEW s, NEW t, NEW e, Body(s, t, e).fail
  PROVE  Body(s, t, e).stop
BY SMTT(60) DEF Body, Failed, ChunkBody, IndexBody, ChainBody, TakeChain, FilterMapOrErr,
   FlatMapOrErr, TakeBody, TakeWhileOrErr, SkipBody, UniqFuncOrErr, Keep, Skipped, Out

LEMMA InitIInv == Init => IInv
<1>1. ASSUME Init PROVE Shape
  BY <1>1, SeqAssumption DEF Init, Shape, N, Levels, Nothing
<1>2. ASSUME Init PROVE NoLateYield
  BY <1>2, SeqAssumption DEF Init, NoLateYield, N, Levels, Nothing
<1> QED BY <1>1, <1>2 DEF IInv

(* What a step of walk i does: it yields to level k, or to none (k = 0), and  *)
(* the levels up to m have then returned.  What it yields comes from level    *)
(* k - 1, which had not returned.                                             *)
Moves(i, k, m) ==
  /\ started \subseteq started' /\ i \in started' /\ chain' = chain
  /\ m \in 0..(N + 1) /\ m >= ended[i] /\ ended' = [ended EXCEPT ![i] = m]
  /\ \/ /\ k = 0 /\ vals' = vals /\ errs' = errs
        /\ (at' = at /\ at[i].lvl = 0) \/ at' = [at EXCEPT ![i] = Nothing]
     \/ k \in 2..(N + 1) /\ k > m /\ k - 1 > ended[i] /\ \E v : Yield(i, k, v)
     \/ k \in 2..(N + 1) /\ k = m + 1 /\ k - 1 > ended[i] /\ YieldError(i, k)

LEMMA EveryStepMoves ==
  ASSUME IInv, NEW i \in Walks,
         Start(i) \/ Pull(i) \/ Handle(i) \/ Resume(i) \/ Return(i) \/ Consume(i)
  PROVE  \E k, m \in Int : Moves(i, k, m)
<1> USE DEF IInv, Shape, NoLateYield
<1>0. N \in 1..MaxStages /\ MaxStages \in Nat /\ ended[i] \in 0..(N + 1) /\ DOMAIN at = Walks
      /\ at[i].lvl \in {0} \cup 2..(N + 1) /\ ended = [ended EXCEPT ![i] = ended[i]]
  BY SeqAssumption DEF N
<1>1. CASE Start(i)
  <2>1. PICK m \in TakesNothing \cup {0} : ended' = [ended EXCEPT ![i] = m]
    BY <1>1 DEF Start
  <2>2. m \in 0..(N + 1) /\ ended[i] = 0 /\ at[i].lvl = 0
    BY <1>0, <1>1, <2>1 DEF TakesNothing, Start
  <2>3. Moves(i, 0, m)
    BY <1>0, <1>1, <2>1, <2>2 DEF Start, Moves
  <2> QED BY <2>2, <2>3
<1>2. CASE Pull(i)
  <2>1. CASE Stage(1).items[st[i][1].next + 1] = Err
    <3>1. Moves(i, 2, 1)
      BY <1>0, <1>2, <2>1 DEF Pull, Idle, Moves
    <3> QED BY <3>1
  <2>2. CASE Stage(1).items[st[i][1].next + 1] # Err
    <3>1. Moves(i, 2, 0)
      BY <1>0, <1>2, <2>2 DEF Pull, Idle, Moves
    <3> QED BY <3>1
  <2> QED BY <2>1, <2>2
<1>3. CASE Handle(i)
  <2> DEFINE k == at[i].lvl
             b == Body(Stage(k), st[i][k], at[i].item)
             m == IF b.stop THEN k ELSE ended[i]
  <2> HIDE DEF b
  <2>1. /\ k \in 2..N /\ ended' = [ended EXCEPT ![i] = m] /\ started' = started /\ chain' = chain
        /\ CASE b.fail -> YieldError(i, k + 1) /\ pend' = pend
             [] ~b.fail /\ b.yields = <<>> ->
                  at' = [at EXCEPT ![i] = Nothing] /\ UNCHANGED <<vals, errs, pend>>
             [] OTHER -> /\ Yield(i, k + 1, Head(b.yields))
                         /\ pend' = [pend EXCEPT ![i][k] = Tail(b.yields)]
    BY <1>0, <1>3 DEF Handle, b
  <2>2. k > ended[i] /\ m \in 0..(N + 1) /\ m >= ended[i] /\ m <= k /\ k + 1 \in 2..(N + 1)
    BY <1>0, <2>1
  <2>3. i \in started
    BY <1>0, <2>1
  <2>4. CASE b.fail
    <3>1. b.stop BY <2>4, FailureStops DEF b
    <3>2. Moves(i, k + 1, m)
      BY <1>0, <2>1, <2>2, <2>3, <2>4, <3>1 DEF Moves
    <3> QED BY <2>2, <3>2
  <2>5. CASE ~b.fail /\ b.yields = <<>>
    <3>1. Moves(i, 0, m)
      BY <1>0, <2>1, <2>2, <2>3, <2>5 DEF Moves
    <3> QED BY <2>2, <3>1
  <2>6. CASE ~b.fail /\ b.yields # <<>>
    <3>1. Yield(i, k + 1, Head(b.yields)) BY <2>1, <2>6
    <3>2. Moves(i, k + 1, m)
      BY <1>0, <2>1, <2>2, <2>3, <3>1 DEF Moves
    <3> QED BY <2>2, <3>2
  <2> QED BY <2>4, <2>5, <2>6
<1>4. CASE Resume(i)
  <2>1. PICK k \in (ended[i] + 1)..N : Yield(i, k + 1, Head(pend[i][k]))
    BY <1>4 DEF Resume
  <2>2. Moves(i, k + 1, ended[i])
    BY <1>0, <1>4, <2>1 DEF Resume, Idle, Moves
  <2> QED BY <1>0, <2>1, <2>2
<1>5. CASE Return(i)
  <2> DEFINE k == ended[i] + 1
  <2>1. CASE k \in 2..N /\ st[i][k].chunk # <<>>
    <3>1. Moves(i, k + 1, k)
      BY <1>0, <1>5, <2>1 DEF Return, Idle, Moves
    <3> QED BY <1>0, <3>1
  <2>2. CASE ~(k \in 2..N /\ st[i][k].chunk # <<>>)
    <3>1. Moves(i, 0, k)
      BY <1>0, <1>5, <2>2 DEF Return, Idle, Moves
    <3> QED BY <1>0, <3>1
  <2> QED BY <2>1, <2>2
<1>6. CASE Consume(i)
  <2> DEFINE m == IF Consumer(chain.consumer, res[i], at[i].item).stop THEN N + 1 ELSE ended[i]
  <2>1. m \in 0..(N + 1) /\ m >= ended[i] /\ i \in started /\ ended' = [ended EXCEPT ![i] = m]
    BY <1>0, <1>6 DEF Consume
  <2>2. Moves(i, 0, m)
    BY <1>0, <1>6, <2>1 DEF Consume, Moves
  <2> QED BY <1>0, <2>1, <2>2
<1> QED BY <1>1, <1>2, <1>3, <1>4, <1>5, <1>6

(* The invariant from what changes: the levels that have returned grow, and a *)
(* new element or error is above them.                                        *)
LEMMA InvariantMoves ==
  ASSUME IInv, NEW i \in Walks, NEW k \in Int, NEW m \in Int,
         i \in started', started \subseteq started', chain' = chain,
         m \in 0..(N + 1), m >= ended[i], ended' = [ended EXCEPT ![i] = m],
         DOMAIN at' = Walks, k \in {0} \cup 2..(N + 1), at'[i].lvl = k, k = 0 \/ k > m,
         \A j \in Walks : j # i => at'[j] = at[j],
         DOMAIN vals' = Walks, \A j \in Walks : DOMAIN vals'[j] = Levels,
         errs' \in [Walks -> [Levels -> Nat]],
         \A j \in Walks, l \in Levels :
           errs'[j][l] = errs[j][l] \/ (j = i /\ l = k /\ m >= k - 1)
  PROVE  IInv'
<1>1. /\ N \in 1..MaxStages /\ N' = N /\ MaxStages \in Nat /\ ended'[i] = m
      /\ \A j \in Walks : j # i => ended'[j] = ended[j]
      /\ ended' \in [Walks -> 0..(N + 1)]
  BY SeqAssumption DEF IInv, Shape, N
<1>2. \A j \in Walks : at'[j].lvl \in {0} \cup 2..(N + 1)
  BY DEF IInv, Shape
<1>3. \A j \in Walks \ started' : ended'[j] = 0 /\ at'[j].lvl = 0
  BY <1>1 DEF IInv, Shape
<1>4. Shape'
  BY <1>1, <1>2, <1>3 DEF IInv, Shape
<1>5. ASSUME NEW j \in Walks, at'[j].lvl > 0 PROVE at'[j].lvl > ended'[j]
  BY <1>1, <1>5 DEF IInv, NoLateYield
<1>6. ASSUME NEW j \in Walks, NEW l \in 2..(N + 1), errs'[j][l] > 0 PROVE ended'[j] >= l - 1
  <2>0. l \in Levels
    BY <1>1 DEF Levels
  <2>1. errs[j][l] \in Nat /\ ended[j] \in 0..(N + 1) /\ ended'[j] >= ended[j]
    BY <1>1, <2>0 DEF IInv, Shape
  <2>2. CASE errs'[j][l] = errs[j][l]
    BY <1>1, <1>6, <2>1, <2>2 DEF IInv, NoLateYield
  <2>3. CASE j = i /\ l = k /\ m >= k - 1
    BY <1>1, <2>3
  <2> QED BY <2>0, <2>2, <2>3
<1>7. NoLateYield'
  BY <1>1, <1>5, <1>6 DEF NoLateYield
<1> QED BY <1>4, <1>7 DEF IInv

LEMMA MovePreserves ==
  ASSUME IInv, NEW i \in Walks, NEW k \in Int, NEW m \in Int, Moves(i, k, m)
  PROVE  /\ IInv'
         /\ \A j \in Walks, l \in Levels :
              errs[j][l] > 0 => vals'[j][l] = vals[j][l] /\ errs'[j][l] = errs[j][l]
<1>0. /\ N \in 1..MaxStages /\ MaxStages \in Nat /\ DOMAIN at = Walks
      /\ DOMAIN vals = Walks /\ \A j \in Walks : DOMAIN vals[j] = Levels
      /\ errs \in [Walks -> [Levels -> Nat]]
      /\ i \in started' /\ started \subseteq started' /\ chain' = chain
      /\ m \in 0..(N + 1) /\ m >= ended[i] /\ ended' = [ended EXCEPT ![i] = m]
      /\ ended[i] \in 0..(N + 1)
  BY SeqAssumption DEF Moves, IInv, Shape, N
<1>1. CASE /\ k = 0 /\ vals' = vals /\ errs' = errs
           /\ (at' = at /\ at[i].lvl = 0) \/ at' = [at EXCEPT ![i] = Nothing]
  <2>1. DOMAIN at' = Walks /\ at'[i].lvl = 0 /\ \A j \in Walks : j # i => at'[j] = at[j]
    BY <1>0, <1>1 DEF Nothing
  <2>2. IInv'
    BY <1>0, <1>1, <2>1, InvariantMoves
  <2> QED BY <1>1, <2>2
<1>2. CASE k \in 2..(N + 1) /\ k > m /\ k - 1 > ended[i] /\ \E v : Yield(i, k, v)
  <2>0. PICK v : Yield(i, k, v) BY <1>2
  <2>1. DOMAIN at' = Walks /\ at'[i].lvl = k /\ \A j \in Walks : j # i => at'[j] = at[j]
    BY <1>0, <2>0 DEF Yield
  <2>2. DOMAIN vals' = Walks /\ (\A j \in Walks : DOMAIN vals'[j] = Levels) /\ errs' = errs
    BY <1>0, <2>0 DEF Yield
  <2>3. IInv'
    BY <1>0, <1>2, <2>1, <2>2, InvariantMoves
  <2> k \in Levels
    BY <1>0, <1>2 DEF Levels
  <2>4. errs[i][k] = 0
    BY <1>0, <1>2 DEF IInv, NoLateYield
  <2>5. \A j \in Walks, l \in Levels : errs[j][l] > 0 => vals'[j][l] = vals[j][l] /\ errs'[j][l] = errs[j][l]
    BY <1>0, <2>0, <2>4 DEF Yield
  <2> QED BY <2>3, <2>5
<1>3. CASE k \in 2..(N + 1) /\ k = m + 1 /\ k - 1 > ended[i] /\ YieldError(i, k)
  <2>1. DOMAIN at' = Walks /\ at'[i].lvl = k /\ \A j \in Walks : j # i => at'[j] = at[j]
    BY <1>0, <1>3 DEF YieldError
  <2>2. k \in Levels
    BY <1>0, <1>3 DEF Levels
  <2>3. /\ vals' = vals /\ errs' \in [Walks -> [Levels -> Nat]]
        /\ \A j \in Walks, l \in Levels : errs'[j][l] = errs[j][l] \/ (j = i /\ l = k)
    BY <1>0, <1>3, <2>2 DEF YieldError
  <2> /\ k > m /\ m >= k - 1
      /\ \A j \in Walks, l \in Levels : errs'[j][l] = errs[j][l] \/ (j = i /\ l = k /\ m >= k - 1)
    BY <1>0, <1>3, <2>3
  <2> DOMAIN vals' = Walks /\ \A j \in Walks : DOMAIN vals'[j] = Levels
    BY <1>0, <2>3
  <2>4. IInv'
    BY <1>0, <1>3, <2>1, <2>3, InvariantMoves
  <2>5. errs[i][k] = 0
    BY <1>0, <1>3, <2>2 DEF IInv, NoLateYield
  <2> QED BY <2>3, <2>4, <2>5
<1> QED BY <1>1, <1>2, <1>3 DEF Moves

LEMMA StutterPreserves == IInv /\ UNCHANGED vars => IInv'
BY DEF IInv, Shape, NoLateYield, vars, N

LEMMA NextPreserves ==
  ASSUME IInv, [Next]_vars
  PROVE  /\ IInv'
         /\ \A j \in Walks, l \in Levels :
              errs[j][l] > 0 => vals'[j][l] = vals[j][l] /\ errs'[j][l] = errs[j][l]
<1>1. CASE UNCHANGED vars
  BY <1>1, StutterPreserves DEF vars
<1>2. ASSUME NEW i \in Walks,
             Start(i) \/ Pull(i) \/ Handle(i) \/ Resume(i) \/ Return(i) \/ Consume(i)
      PROVE  /\ IInv'
             /\ \A j \in Walks, l \in Levels :
                  errs[j][l] > 0 => vals'[j][l] = vals[j][l] /\ errs'[j][l] = errs[j][l]
  <2>1. PICK k, m \in Int : Moves(i, k, m) BY <1>2, EveryStepMoves
  <2> QED BY <2>1, MovePreserves
<1> QED BY <1>1, <1>2 DEF Next, Finished

(* In every chain an element only travels above the levels that have          *)
(* returned: no yield function of chain.go or failable_chain.go is called     *)
(* after its loop has ended, and a level that has seen an error has seen the  *)
(* end of everything below.                                                   *)
THEOREM NoLateYieldTheorem == Spec => []NoLateYield
<1>1. Init => IInv BY InitIInv
<1>2. IInv /\ [Next]_vars => IInv' BY NextPreserves
<1>3. IInv => NoLateYield BY DEF IInv
<1> QED BY <1>1, <1>2, <1>3, PTL DEF Spec

(* The promise of the type FailableChain (failable_chain.go:16) at every      *)
(* level of every chain: once an error has arrived, nothing does.             *)
THEOREM NothingAfterErrorTheorem == Spec => NothingAfterError
<1>1. Init => IInv BY InitIInv
<1>2. IInv /\ [Next]_vars => IInv' BY NextPreserves
<1>3. IInv /\ [Next]_vars =>
        [\A i \in Walks, k \in Levels :
           errs[i][k] > 0 => vals'[i][k] = vals[i][k] /\ errs'[i][k] = errs[i][k]]_vars
  BY NextPreserves
<1> QED BY <1>1, <1>2, <1>3, PTL DEF Spec, NothingAfterError
=============================================================================
