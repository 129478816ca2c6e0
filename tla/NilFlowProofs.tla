---------------------------- MODULE NilFlowProofs ----------------------------
(* For every control-flow graph: what the analyzer claims of a value at a     *)
(* block is true of every execution that gets there, and the proof over       *)
(* merges is exact where there is no loop.  The graph lemmas speak of paths   *)
(* through the sets that no edge leaves; the rest follows one execution step  *)
(* at a time.                                                                 *)
EXTENDS NilFlow, WellFoundedInduction, TLAPS

----------------------------------------------------------------------------
(* Paths. *)

\* A block reaches itself.
LEMMA ReachesSelf ==
  ASSUME NEW E, NEW a
  PROVE  Reaches(E, a, a)
BY DEF Reaches

\* A path is extended by an edge.
LEMMA ReachesStep ==
  ASSUME NEW E, NEW a, NEW b, NEW c, Reaches(E, a, b), <<b, c>> \in E
  PROVE  Reaches(E, a, c)
<1> SUFFICES ASSUME NEW S \in SUBSET (Blocks \ {c}), a \in S
             PROVE  \E e \in E : e[1] \in S /\ e[2] \notin S
  BY DEF Reaches
<1>1. CASE b \in S
  BY <1>1
<1>2. CASE b \notin S
  BY <1>2 DEF Reaches
<1> QED BY <1>1, <1>2

\* A set with the start in it that no edge leaves holds every block reached.
LEMMA ReachesInside ==
  ASSUME NEW E, NEW a, NEW b, NEW S \in SUBSET Blocks, Reaches(E, a, b), a \in S,
         \A x, y : <<x, y>> \in E /\ x \in S => y \in S,
         \A e \in E : e = <<e[1], e[2]>>
  PROVE  b \in S
<1> SUFFICES ASSUME b \notin S PROVE FALSE
  OBVIOUS
<1>1. S \in SUBSET (Blocks \ {b})
  OBVIOUS
<1>2. PICK e \in E : e[1] \in S /\ e[2] \notin S
  BY <1>1 DEF Reaches
<1> QED BY <1>2

\* The edges are pairs of blocks.
Graph(E) == \A e \in E : e = <<e[1], e[2]>> /\ e[1] \in Blocks /\ e[2] \in Blocks

From(E, a) == {b \in Blocks : Reaches(E, a, b)}

LEMMA ReachesLast ==
  ASSUME NEW E, Graph(E), NEW a \in Blocks, NEW c \in Blocks, a # c, Reaches(E, a, c)
  PROVE  \E b \in Blocks : Reaches(E, a, b) /\ <<b, c>> \in E
<1> SUFFICES ASSUME \A b \in Blocks : Reaches(E, a, b) => <<b, c>> \notin E
             PROVE  FALSE
  OBVIOUS
<1> DEFINE S == From(E, a) \ {c}
<1>1. S \in SUBSET Blocks /\ a \in S
  BY ReachesSelf DEF From
<1>2. ASSUME NEW x, NEW y, <<x, y>> \in E, x \in S
      PROVE  y \in S
  <2>1. x \in Blocks /\ Reaches(E, a, x) /\ y \in Blocks
    BY <1>2 DEF From, Graph
  <2>2. Reaches(E, a, y)
    BY <1>2, <2>1, ReachesStep
  <2> QED BY <1>2, <2>1, <2>2 DEF From
<1>3. c \in S
  <2> HIDE DEF S
  <2> QED BY <1>1, <1>2, ReachesInside DEF Graph
<1> QED BY <1>3

LEMMA ReachesTrans ==
  ASSUME NEW E, Graph(E), NEW a \in Blocks, NEW b \in Blocks, NEW c \in Blocks,
         Reaches(E, a, b), Reaches(E, b, c)
  PROVE  Reaches(E, a, c)
<1> DEFINE S == From(E, a)
<1>1. S \in SUBSET Blocks /\ b \in S
  BY DEF From
<1>2. ASSUME NEW x, NEW y, <<x, y>> \in E, x \in S
      PROVE  y \in S
  BY <1>2, ReachesStep DEF From, Graph
<1>3. c \in S
  <2> HIDE DEF S
  <2> QED BY <1>1, <1>2, ReachesInside DEF Graph
<1> QED BY <1>3 DEF From

LEMMA ReachesMore ==
  ASSUME NEW E, NEW F, E \subseteq F, NEW a, NEW b, Reaches(E, a, b)
  PROVE  Reaches(F, a, b)
BY DEF Reaches

\* A path to a block need not leave that block on the way.
LEMMA FirstArrival ==
  ASSUME NEW E, Graph(E), NEW a \in Blocks, NEW d \in Blocks, Reaches(E, a, d)
  PROVE  Reaches({e \in E : e[1] # d}, a, d)
<1> DEFINE F == {e \in E : e[1] # d}
           S == From(F, a)
<1> SUFFICES ASSUME ~Reaches(F, a, d) PROVE FALSE
  OBVIOUS
<1>1. S \in SUBSET Blocks /\ a \in S
  BY ReachesSelf DEF From
<1>2. ASSUME NEW x, NEW y, <<x, y>> \in E, x \in S
      PROVE  y \in S
  <2>1. x # d /\ Reaches(F, a, x) /\ y \in Blocks
    BY <1>2 DEF From, Graph
  <2>2. <<x, y>> \in F
    BY <1>2, <2>1
  <2>3. Reaches(F, a, y)
    <3> HIDE DEF F
    <3> QED BY <2>1, <2>2, ReachesStep
  <2> QED BY <2>1, <2>3 DEF From
<1>3. d \in S
  <2> HIDE DEF S
  <2> QED BY <1>1, <1>2, ReachesInside DEF Graph
<1> QED BY <1>3 DEF From

\* A block that only paths over the edge from h reach lies behind h.
LEMMA CutBehind ==
  ASSUME NEW E, Graph(E), NEW h \in Blocks, NEW s, NEW a \in Blocks, NEW c \in Blocks,
         Reaches(E, a, c), ~Reaches(E \ {<<h, s>>}, a, c)
  PROVE  Reaches(E, h, c)
<1> DEFINE F == E \ {<<h, s>>}
           S == From(F, a) \cup From(E, h)
<1>1. S \in SUBSET Blocks /\ a \in S
  BY ReachesSelf DEF From
<1>2. ASSUME NEW x, NEW y, <<x, y>> \in E, x \in S
      PROVE  y \in S
  <2>1. x \in Blocks /\ y \in Blocks
    BY <1>2 DEF Graph
  <2>2. CASE x \in From(E, h)
    <3>1. Reaches(E, h, y)
      BY <1>2, <2>2, ReachesStep DEF From
    <3> QED BY <2>1, <3>1 DEF From
  <2>3. CASE x \in From(F, a) /\ <<x, y>> \in F
    <3>1. Reaches(F, a, y)
      <4> HIDE DEF F
      <4> QED BY <2>3, ReachesStep DEF From
    <3> QED BY <2>1, <3>1 DEF From
  <2>4. CASE <<x, y>> \notin F
    <3>1. x = h
      BY <1>2, <2>4
    <3>2. Reaches(E, h, y)
      BY <1>2, <3>1, ReachesSelf, ReachesStep
    <3> QED BY <2>1, <3>2 DEF From
  <2> QED BY <1>2, <2>2, <2>3, <2>4
<1>3. c \in S
  <2> HIDE DEF S
  <2> QED BY <1>1, <1>2, ReachesInside DEF Graph
<1> QED BY <1>3 DEF From

----------------------------------------------------------------------------
(* The function's graph. *)

LEMMA EdgeFacts ==
  ASSUME NEW g, ControlFlow(g)
  PROVE  /\ Graph(EdgesOf(g))
         /\ \A a, b : <<a, b>> \in EdgesOf(g) <=> a \in Blocks /\ b \in Range(g.succ[a])
         /\ \A a, b : a \in Preds(g, b) <=> <<a, b>> \in EdgesOf(g)
<1>1. ASSUME NEW a \in Blocks, NEW b \in Range(g.succ[a])
      PROVE  b \in Blocks
  <2>1. g.succ[a] \in Seq(Blocks)
    BY DEF ControlFlow
  <2> QED BY <2>1 DEF Range
<1>2. ASSUME NEW e \in EdgesOf(g)
      PROVE  e = <<e[1], e[2]>> /\ e[1] \in Blocks /\ e[2] \in Range(g.succ[e[1]])
  <2>1. PICK a \in Blocks : e \in {<<a, b>> : b \in Range(g.succ[a])}
    BY Zenon DEF EdgesOf
  <2>2. PICK b \in Range(g.succ[a]) : e = <<a, b>>
    BY <2>1
  <2> QED BY <2>2
<1>3. ASSUME NEW a \in Blocks, NEW b \in Range(g.succ[a])
      PROVE  <<a, b>> \in EdgesOf(g)
  <2>1. <<a, b>> \in {<<a, c>> : c \in Range(g.succ[a])}
    OBVIOUS
  <2> QED BY <2>1, Zenon DEF EdgesOf
<1>4. \A a, b : <<a, b>> \in EdgesOf(g) <=> a \in Blocks /\ b \in Range(g.succ[a])
  <2>1. ASSUME NEW a, NEW b, <<a, b>> \in EdgesOf(g)
        PROVE  a \in Blocks /\ b \in Range(g.succ[a])
    <3>1. <<a, b>>[1] \in Blocks /\ <<a, b>>[2] \in Range(g.succ[<<a, b>>[1]])
      BY <2>1, <1>2
    <3> QED BY <3>1
  <2> QED BY <2>1, <1>3
<1>5. Graph(EdgesOf(g))
  BY <1>1, <1>2 DEF Graph
<1>6. \A a, b : a \in Preds(g, b) <=> a \in Blocks /\ b \in Range(g.succ[a])
  BY DEF Preds
<1> QED BY <1>4, <1>5, <1>6

\* Every block is reached, and every block but the entry has a predecessor.
LEMMA AllReached ==
  ASSUME NEW g, ControlFlow(g), NEW b \in Blocks
  PROVE  /\ Reaches(EdgesOf(g), 1, b)
         /\ b # 1 => \E a \in Blocks : <<a, b>> \in EdgesOf(g)
<1>1. b \in Forward(g, 1)
  BY DEF ControlFlow
<1>2. Reaches(EdgesOf(g), 1, b)
  BY <1>1 DEF Forward
<1> QED BY <1>2, EdgeFacts, ReachesLast, NilFlowAssumption

LEMMA ForwardIs ==
  ASSUME NEW g, NEW a \in Blocks, NEW b \in Blocks
  PROVE  /\ b \in Forward(g, a) <=> Reaches(EdgesOf(g), a, b)
         /\ a \in Backward(g, b) <=> Reaches(EdgesOf(g), a, b)
BY DEF Forward, Backward

\* Of the edges into a block behind a cut, all but the cut come from behind it.
LEMMA CutStep ==
  ASSUME NEW g, NEW h, NEW s, NEW a, NEW c, Cut(g, h, s, c), <<a, c>> \in EdgesOf(g),
         <<a, c>> # <<h, s>>
  PROVE  Cut(g, h, s, a)
<1> DEFINE F == EdgesOf(g) \ {<<h, s>>}
<1>1. <<a, c>> \in F
  OBVIOUS
<1>2. Reaches(F, 1, a) => Reaches(F, 1, c)
  <2> HIDE DEF F
  <2> QED BY <1>1, ReachesStep
<1> QED BY <1>2 DEF Cut

LEMMA CutReaches ==
  ASSUME NEW g, ControlFlow(g), NEW h \in Blocks, NEW s, NEW c \in Blocks, Cut(g, h, s, c)
  PROVE  Reaches(EdgesOf(g), h, c)
<1>1. Reaches(EdgesOf(g), 1, c) /\ Graph(EdgesOf(g))
  BY AllReached, EdgeFacts
<1>2. ~Reaches(EdgesOf(g) \ {<<h, s>>}, 1, c)
  BY DEF Cut
<1> QED BY <1>1, <1>2, CutBehind, NilFlowAssumption

\* The edges that do not touch m.
Around(g, m) == {e \in EdgesOf(g) : e[1] # m /\ e[2] # m}

LEMMA DominatesIs ==
  ASSUME NEW g, NEW a, NEW b
  PROVE  Dominates(g, a, b) <=> a = b \/ a = 1 \/ ~Reaches(Around(g, a), 1, b)
BY DEF Dominates, Around

\* A dominator of a block dominates its predecessors or is the block.
LEMMA DominatesPred ==
  ASSUME NEW g, NEW m, NEW a, NEW b, Dominates(g, m, b), b # m, <<a, b>> \in EdgesOf(g)
  PROVE  Dominates(g, m, a)
<1> SUFFICES ASSUME a # m, m # 1, Reaches(Around(g, m), 1, a) PROVE FALSE
  BY DominatesIs
<1>1. <<a, b>> \in Around(g, m)
  BY DEF Around
<1>2. Reaches(Around(g, m), 1, b)
  BY <1>1, ReachesStep
<1> QED BY <1>2, DominatesIs

LEMMA DominatesReaches ==
  ASSUME NEW g, ControlFlow(g), NEW m \in Blocks, NEW a \in Blocks, Dominates(g, m, a)
  PROVE  Reaches(EdgesOf(g), m, a)
<1> DEFINE E == EdgesOf(g)
           S == From(Around(g, m), 1) \cup From(E, m)
<1>0. Reaches(E, 1, a) /\ Graph(E)
  BY AllReached, EdgeFacts
<1>1. CASE m = a \/ m = 1
  BY <1>0, <1>1, ReachesSelf
<1>2. CASE m # a /\ m # 1
  <2>1. S \in SUBSET Blocks /\ 1 \in S
    BY ReachesSelf, NilFlowAssumption DEF From
  <2>2. ASSUME NEW x, NEW y, <<x, y>> \in E, x \in S
        PROVE  y \in S
    <3>1. x \in Blocks /\ y \in Blocks
      BY <1>0, <2>2 DEF Graph
    <3>2. CASE x \in From(E, m) \/ x = m
      <4>1. Reaches(E, m, x)
        BY <3>2, ReachesSelf DEF From
      <4>2. Reaches(E, m, y)
        BY <2>2, <4>1, ReachesStep
      <4> QED BY <3>1, <4>2 DEF From
    <3>3. CASE y = m
      BY <3>1, <3>3, ReachesSelf DEF From
    <3>4. CASE x \in From(Around(g, m), 1) /\ x # m /\ y # m
      <4>1. <<x, y>> \in Around(g, m)
        BY <2>2, <3>4 DEF Around
      <4>2. Reaches(Around(g, m), 1, y)
        BY <3>4, <4>1, ReachesStep DEF From
      <4> QED BY <3>1, <4>2 DEF From
    <3> QED BY <2>2, <3>2, <3>3, <3>4
  <2>3. a \in S
    <3> HIDE DEF S
    <3> QED BY <1>0, <2>1, <2>2, ReachesInside DEF Graph
  <2>4. ~Reaches(Around(g, m), 1, a)
    BY <1>2, DominatesIs
  <2> QED BY <2>3, <2>4 DEF From
<1> QED BY <1>1, <1>2

\* The blocks that are reached without leaving m are m and those it does not
\* dominate.
LEMMA NotBehind ==
  ASSUME NEW g, ControlFlow(g), NEW m \in Blocks \ {1}, NEW a \in Blocks, a # m,
         Reaches({e \in EdgesOf(g) : e[1] # m}, 1, a)
  PROVE  ~Dominates(g, m, a)
<1> DEFINE F == {e \in EdgesOf(g) : e[1] # m}
           S == From(Around(g, m), 1) \cup {m}
<1>1. S \in SUBSET Blocks /\ 1 \in S
  BY ReachesSelf, NilFlowAssumption DEF From
<1>2. ASSUME NEW x, NEW y, <<x, y>> \in F, x \in S
      PROVE  y \in S
  <2>1. x # m /\ <<x, y>> \in EdgesOf(g) /\ y \in Blocks
    BY <1>2, EdgeFacts DEF Graph
  <2>2. CASE y # m
    <3>1. <<x, y>> \in Around(g, m)
      BY <2>1, <2>2 DEF Around
    <3>2. Reaches(Around(g, m), 1, y)
      BY <1>2, <2>1, <3>1, ReachesStep DEF From
    <3> QED BY <2>1, <3>2 DEF From
  <2> QED BY <2>2
<1>3. \A e \in F : e = <<e[1], e[2]>>
  BY EdgeFacts DEF Graph
<1>4. a \in S
  <2> HIDE DEF S, F
  <2>1. Reaches(F, 1, a)
    BY DEF F
  <2> QED BY <2>1, <1>1, <1>2, <1>3, ReachesInside
<1> QED BY <1>4, DominatesIs DEF From

----------------------------------------------------------------------------
(* The blocks that prove a fact. *)

\* The rule that Proves is the least set of.
Rule(g, c, subj, positive, use, S) ==
  \/ DominatorWalkProvesFact(g, c, subj, positive, use)
  \/ /\ Preds(g, c) # {}
     /\ \A a \in Preds(g, c) : EdgeIsProof(g, a, c, subj, positive, use) \/ a \in S

LEMMA ProvesIs ==
  ASSUME NEW g, ControlFlow(g), NEW b, NEW subj, NEW positive, NEW use
  PROVE  Proves(g, b, subj, positive, use) <=>
           \A S \in SUBSET (Blocks \ {b}) :
             \E c \in Blocks \ S : Rule(g, c, subj, positive, use, S)
<1> DEFINE walk == {c \in Blocks : DominatorWalkProvesFact(g, c, subj, positive, use)}
           edges == {e \in EdgesOf(g) : EdgeIsProof(g, e[1], e[2], subj, positive, use)}
           proves(c, S) == \/ c \in walk
                           \/ /\ Preds(g, c) # {}
                              /\ \A a \in Preds(g, c) : <<a, c>> \in edges \/ a \in S
<1>1. ASSUME NEW c \in Blocks, NEW a \in Preds(g, c)
      PROVE  <<a, c>> \in edges <=> EdgeIsProof(g, a, c, subj, positive, use)
  BY EdgeFacts
<1>2. \A c \in Blocks : \A S : proves(c, S) <=> Rule(g, c, subj, positive, use, S)
  BY <1>1 DEF Rule
<1>3. Proves(g, b, subj, positive, use) <=>
        \A S \in SUBSET (Blocks \ {b}) : \E c \in Blocks \ S : proves(c, S)
  BY Zenon DEF Proves
<1> HIDE DEF proves
<1> QED BY <1>2, <1>3

Proven(g, subj, positive, use) == {b \in Blocks : Proves(g, b, subj, positive, use)}

\* What the rule adds nothing to contains every block that proves the fact.
LEMMA ProvesInside ==
  ASSUME NEW g, ControlFlow(g), NEW b, NEW subj, NEW positive, NEW use,
         NEW S \in SUBSET Blocks,
         \A c \in Blocks : Rule(g, c, subj, positive, use, S) => c \in S,
         Proves(g, b, subj, positive, use)
  PROVE  b \in S
<1> SUFFICES ASSUME b \notin S PROVE FALSE
  OBVIOUS
<1>1. S \in SUBSET (Blocks \ {b})
  OBVIOUS
<1>2. \E c \in Blocks \ S : Rule(g, c, subj, positive, use, S)
  BY <1>1, ProvesIs
<1> QED BY <1>2

\* The rule adds nothing to the blocks that prove the fact.
LEMMA ProvesClosed ==
  ASSUME NEW g, ControlFlow(g), NEW c \in Blocks, NEW subj, NEW positive, NEW use,
         Rule(g, c, subj, positive, use, Proven(g, subj, positive, use))
  PROVE  Proves(g, c, subj, positive, use)
<1> SUFFICES ASSUME NEW S \in SUBSET (Blocks \ {c})
             PROVE  \E d \in Blocks \ S : Rule(g, d, subj, positive, use, S)
  BY ProvesIs
<1>1. CASE Proven(g, subj, positive, use) \subseteq S
  BY <1>1 DEF Rule
<1>2. CASE ~(Proven(g, subj, positive, use) \subseteq S)
  <2>1. PICK b \in Blocks : Proves(g, b, subj, positive, use) /\ b \notin S
    BY <1>2 DEF Proven
  <2>2. S \in SUBSET (Blocks \ {b})
    BY <2>1
  <2> QED BY <2>1, <2>2, ProvesIs
<1> QED BY <1>1, <1>2

\* A block that proves the fact does so by the rule.
LEMMA ProvesByRule ==
  ASSUME NEW g, ControlFlow(g), NEW b, NEW subj, NEW positive, NEW use,
         Proves(g, b, subj, positive, use)
  PROVE  Rule(g, b, subj, positive, use, Proven(g, subj, positive, use))
<1> DEFINE P == Proven(g, subj, positive, use)
           S == {c \in P : Rule(g, c, subj, positive, use, P)}
<1>1. S \in SUBSET Blocks
  BY DEF Proven
<1>2. ASSUME NEW c \in Blocks, Rule(g, c, subj, positive, use, S)
      PROVE  c \in S
  <2>1. Rule(g, c, subj, positive, use, P)
    BY <1>2 DEF Rule
  <2>2. c \in P
    BY <2>1, ProvesClosed DEF Proven
  <2> QED BY <2>1, <2>2
<1>3. b \in S
  <2> HIDE DEF S
  <2> QED BY <1>1, <1>2, ProvesInside
<1> QED BY <1>3

\* The edge from h to s proves the fact, for a use in block use.
ProofEdge(g, h, s, subj, positive, use) ==
  /\ h \in Blocks /\ TerminatingIf(g, h)
  /\ \E side \in BOOLEAN : s = SideOf(g, h, side)
                            /\ BranchProvesFact(g.cond[h], subj, side, positive)
  /\ ProofHoldsFrom(g, subj, h, use)

\* Every path to c takes an edge that proves the fact.
Guarded(g, c, subj, positive, use) ==
  \E h, s \in Blocks : Cut(g, h, s, c) /\ ProofEdge(g, h, s, subj, positive, use)

Sure(g, c, subj, positive, use) ==
  Proves(g, c, subj, positive, use) \/ Guarded(g, c, subj, positive, use)

LEMMA SidesOf ==
  ASSUME NEW g, ControlFlow(g), NEW h \in Blocks, TerminatingIf(g, h)
  PROVE  /\ \A side \in BOOLEAN : /\ SideOf(g, h, side) \in Blocks
                                  /\ <<h, SideOf(g, h, side)>> \in EdgesOf(g)
         /\ SideOf(g, h, TRUE) # SideOf(g, h, FALSE)
         /\ SideOf(g, h, TRUE) = g.succ[h][1] /\ SideOf(g, h, FALSE) = g.succ[h][2]
         /\ DOMAIN g.succ[h] = {1, 2}
<1>1. g.succ[h] \in Seq(Blocks) /\ Len(g.succ[h]) = 2
  BY DEF ControlFlow, TerminatingIf
<1>2. DOMAIN g.succ[h] = 1..2 /\ 1 \in 1..2 /\ 2 \in 1..2
  BY <1>1
<1>3. g.succ[h][1] \in Blocks /\ g.succ[h][2] \in Blocks
  BY <1>1
<1>4. g.succ[h][1] \in Range(g.succ[h]) /\ g.succ[h][2] \in Range(g.succ[h])
  BY <1>2 DEF Range
<1>5. g.succ[h][1] # g.succ[h][2]
  BY DEF ControlFlow
<1>6. SideOf(g, h, TRUE) = g.succ[h][1] /\ SideOf(g, h, FALSE) = g.succ[h][2]
  BY DEF SideOf
<1>7. DOMAIN g.succ[h] = {1, 2}
  BY <1>2
<1> QED BY <1>3, <1>4, <1>5, <1>6, <1>7, EdgeFacts

LEMMA EdgeProofIsProofEdge ==
  ASSUME NEW g, ControlFlow(g), NEW a, NEW c, <<a, c>> \in EdgesOf(g),
         NEW subj, NEW positive, NEW use, EdgeIsProof(g, a, c, subj, positive, use)
  PROVE  ProofEdge(g, a, c, subj, positive, use)
<1>1. a \in Blocks /\ c \in Range(g.succ[a]) /\ TerminatingIf(g, a)
  BY EdgeFacts DEF EdgeIsProof
<1>2. c = g.succ[a][1] \/ c = g.succ[a][2]
  BY <1>1, SidesOf DEF Range
<1>3. \E side \in BOOLEAN : c = SideOf(g, a, side) /\ side = (g.succ[a][1] = c)
  BY <1>1, <1>2, SidesOf
<1> QED BY <1>1, <1>3 DEF ProofEdge, EdgeIsProof

\* A condition that proves a fact says something on that side.
LEMMA ProofSpeaks ==
  ASSUME NEW c, NEW subj, subj # "other", NEW side \in BOOLEAN, NEW positive,
         BranchProvesFact(c, subj, side, positive)
  PROVE  Speaks(c, side)
BY DEF BranchProvesFact, Matches, Speaks

LEMMA WalkIsGuarded ==
  ASSUME NEW g, ControlFlow(g), SidesAreEdges(g), NEW c \in Blocks,
         NEW subj, subj # "other", NEW positive, NEW use,
         DominatorWalkProvesFact(g, c, subj, positive, use)
  PROVE  Guarded(g, c, subj, positive, use)
<1>1. PICK h \in StrictDominators(g, c) :
        /\ TerminatingIf(g, h)
        /\ \E side \in DominantSide(g, h, c) : BranchProvesFact(g.cond[h], subj, side, positive)
        /\ ProofHoldsFrom(g, subj, h, use)
  BY DEF DominatorWalkProvesFact
<1>2. h \in Blocks /\ c \in Blocks \ {h} /\ Dominates(g, h, c)
  BY DEF StrictDominators
<1>3. PICK side \in DominantSide(g, h, c) : BranchProvesFact(g.cond[h], subj, side, positive)
  BY <1>1
<1>4. side \in BOOLEAN
  BY DEF DominantSide
<1>5. Cut(g, h, SideOf(g, h, side), c)
  BY <1>1, <1>2, <1>3, <1>4, ProofSpeaks DEF SidesAreEdges
<1>6. ProofEdge(g, h, SideOf(g, h, side), subj, positive, use)
  BY <1>1, <1>2, <1>3, <1>4 DEF ProofEdge
<1> QED BY <1>1, <1>2, <1>4, <1>5, <1>6, SidesOf DEF Guarded

\* Where the fact is sure, the edge taken proves it or it was sure before.
LEMMA SureStep ==
  ASSUME NEW g, ControlFlow(g), SidesAreEdges(g), NEW a, NEW c,
         <<a, c>> \in EdgesOf(g), NEW subj, subj # "other", NEW positive, NEW use,
         Sure(g, c, subj, positive, use)
  PROVE  ProofEdge(g, a, c, subj, positive, use) \/ Sure(g, a, subj, positive, use)
<1>0. c \in Blocks /\ a \in Preds(g, c)
  BY EdgeFacts DEF Graph
<1>1. CASE Guarded(g, c, subj, positive, use)
  <2>1. PICK h \in Blocks, s \in Blocks :
          Cut(g, h, s, c) /\ ProofEdge(g, h, s, subj, positive, use)
    BY <1>1 DEF Guarded
  <2>2. CASE <<a, c>> = <<h, s>>
    BY <2>1, <2>2
  <2>3. CASE <<a, c>> # <<h, s>>
    <3>1. Cut(g, h, s, a)
      BY <2>1, <2>3, CutStep
    <3> QED BY <2>1, <3>1 DEF Guarded, Sure
  <2> QED BY <2>2, <2>3
<1>2. CASE /\ Preds(g, c) # {}
           /\ \A d \in Preds(g, c) : \/ EdgeIsProof(g, d, c, subj, positive, use)
                                     \/ d \in Proven(g, subj, positive, use)
  <2>1. EdgeIsProof(g, a, c, subj, positive, use) \/ Proves(g, a, subj, positive, use)
    BY <1>0, <1>2 DEF Proven
  <2> QED BY <2>1, EdgeProofIsProofEdge DEF Sure
<1>3. Proves(g, c, subj, positive, use) =>
        Rule(g, c, subj, positive, use, Proven(g, subj, positive, use))
  BY ProvesByRule
<1> QED BY <1>0, <1>1, <1>2, <1>3, WalkIsGuarded DEF Rule, Sure

\* Blocks on paths from the entry without a proof on the way are not sure.
LEMMA NotSure ==
  ASSUME NEW g, ControlFlow(g), SidesAreEdges(g), NEW subj, subj # "other", NEW positive, NEW use,
         NEW X \in SUBSET Blocks,
         \A c \in X : ~Guarded(g, c, subj, positive, use),
         \A c \in X : c = 1 \/ \E a \in X : /\ <<a, c>> \in EdgesOf(g)
                                          /\ ~ProofEdge(g, a, c, subj, positive, use)
  PROVE  \A c \in X : ~Sure(g, c, subj, positive, use)
<1> DEFINE S == Blocks \ X
<1>1. S \in SUBSET Blocks
  OBVIOUS
<1>2. ASSUME NEW c \in Blocks, Rule(g, c, subj, positive, use, S), c \in X
      PROVE  FALSE
  <2>1. Preds(g, c) # {} /\ \A a \in Preds(g, c) :
          EdgeIsProof(g, a, c, subj, positive, use) \/ a \in S
    BY <1>2, WalkIsGuarded DEF Rule
  <2>2. c # 1
    BY <2>1 DEF ControlFlow
  <2>3. PICK a \in X : <<a, c>> \in EdgesOf(g) /\ ~ProofEdge(g, a, c, subj, positive, use)
    BY <1>2, <2>2
  <2>4. ~EdgeIsProof(g, a, c, subj, positive, use)
    BY <2>3, EdgeProofIsProofEdge
  <2> QED BY <2>1, <2>3, <2>4, EdgeFacts
<1>3. ASSUME NEW c \in X, Proves(g, c, subj, positive, use)
      PROVE  FALSE
  <2>1. \A d \in Blocks : Rule(g, d, subj, positive, use, S) => d \in S
    BY <1>2
  <2>2. c \in S
    <3> HIDE DEF S
    <3> QED BY <1>1, <1>3, <2>1, ProvesInside
  <2> QED BY <2>2
<1> QED BY <1>3 DEF Sure

\* Nothing is sure at the entry.
LEMMA EntryNotSure ==
  ASSUME NEW g, ControlFlow(g), SidesAreEdges(g), NEW subj, subj # "other", NEW positive, NEW use
  PROVE  ~Sure(g, 1, subj, positive, use)
<1>1. \A h, s : ~Cut(g, h, s, 1)
  BY ReachesSelf DEF Cut
<1>2. ~Guarded(g, 1, subj, positive, use)
  BY <1>1 DEF Guarded
<1> DEFINE X == {1}
<1>3. X \in SUBSET Blocks /\ \A c \in X : c = 1 /\ ~Guarded(g, c, subj, positive, use)
  BY <1>2, NilFlowAssumption
<1>4. \A c \in X : ~Sure(g, c, subj, positive, use)
  <2> HIDE DEF X
  <2> QED BY <1>3, NotSure
<1> QED BY <1>4

----------------------------------------------------------------------------
(* The field.  A proof of it holds only where nothing writes it on the way.   *)

\* A guard that a write or a loop stands behind proves nothing for the use.
LEMMA HoldsMeansQuiet ==
  ASSUME NEW g, NEW h \in Blocks, NEW d \in Blocks, NEW u \in Blocks,
         Reaches(EdgesOf(g), h, d), Reaches(EdgesOf(g), d, u),
         ProofHoldsFrom(g, "field", h, u), d # h
  PROVE  ~BlockWritesField(g, d, u)
<1>1. d \in Span(g, h, u)
  BY ForwardIs DEF Span
<1> QED BY <1>1 DEF ProofHoldsFrom

LEMMA HoldsMeansNoLoop ==
  ASSUME NEW g, ControlFlow(g), NEW h \in Blocks, NEW u \in Blocks, NEW s \in Blocks,
         Reaches(EdgesOf(g), h, u), <<u, s>> \in EdgesOf(g), Reaches(EdgesOf(g), s, u)
  PROVE  ~ProofHoldsFrom(g, "field", h, u)
<1>1. Reaches(EdgesOf(g), h, s) /\ Reaches(EdgesOf(g), u, u)
  BY ReachesStep, ReachesSelf
<1>2. u \in Span(g, h, u) /\ s \in Span(g, h, u)
  BY <1>1, ForwardIs DEF Span
<1>3. s \in Range(g.succ[u]) /\ u \in Forward(g, s)
  BY EdgeFacts, ForwardIs
<1> QED BY <1>2, <1>3 DEF ProofHoldsFrom, OnCycle

\* No block that writes the field on the way to the use is sure of it.
LEMMA WriterNotSure ==
  ASSUME NEW g, ControlFlow(g), SidesAreEdges(g), NEW positive, NEW d \in Blocks,
         NEW u \in Blocks, Reaches(EdgesOf(g), d, u), BlockWritesField(g, d, u)
  PROVE  ~Sure(g, d, "field", positive, u)
<1> DEFINE E == EdgesOf(g)
           F == {e \in E : e[1] # d}
           X == {c \in Blocks : Reaches(F, 1, c) /\ Reaches(E, c, d)}
<1>0. Graph(E) /\ Graph(F) /\ 1 \in Blocks
  BY EdgeFacts, NilFlowAssumption DEF Graph
<1>1. ASSUME NEW c \in X, NEW h \in Blocks, NEW s, h # d, Reaches(E, h, c)
      PROVE  ~ProofEdge(g, h, s, "field", positive, u)
  <2>1. Reaches(E, h, d)
    BY <1>0, <1>1, ReachesTrans
  <2> QED BY <1>1, <2>1, HoldsMeansQuiet DEF ProofEdge
<1>2. ASSUME NEW c \in X, Guarded(g, c, "field", positive, u)
      PROVE  FALSE
  <2>1. PICK h \in Blocks, s \in Blocks :
          Cut(g, h, s, c) /\ ProofEdge(g, h, s, "field", positive, u)
    BY <1>2 DEF Guarded
  <2>2. Reaches(E, h, c)
    BY <2>1, CutReaches
  <2>3. h = d
    BY <1>1, <2>1, <2>2
  <2>4. F \subseteq E \ {<<h, s>>}
    BY <2>3
  <2>5. Reaches(E \ {<<h, s>>}, 1, c)
    BY <2>4, ReachesMore
  <2> QED BY <2>1, <2>5 DEF Cut
<1>3. ASSUME NEW c \in X, c # 1
      PROVE  \E a \in X : <<a, c>> \in E /\ ~ProofEdge(g, a, c, "field", positive, u)
  <2>1. PICK a \in Blocks : Reaches(F, 1, a) /\ <<a, c>> \in F
    <3> HIDE DEF F
    <3> QED BY <1>0, <1>3, ReachesLast
  <2>2. a # d /\ <<a, c>> \in E
    BY <2>1
  <2>3. Reaches(E, a, c)
    BY <2>2, ReachesSelf, ReachesStep
  <2>4. Reaches(E, a, d)
    BY <1>0, <2>3, ReachesTrans
  <2> QED BY <1>1, <2>1, <2>2, <2>3, <2>4
<1>4. d \in X
  <2>1. Reaches(E, 1, d)
    BY AllReached
  <2>2. Reaches(F, 1, d)
    BY <1>0, <2>1, FirstArrival
  <2> QED BY <2>2, ReachesSelf
<1>5. X \in SUBSET Blocks
  OBVIOUS
<1> HIDE DEF X
<1> QED BY <1>2, <1>3, <1>4, <1>5, NotSure

\* No block that leads to a use on a loop is sure of the field.
LEMMA LoopNotSure ==
  ASSUME NEW g, ControlFlow(g), SidesAreEdges(g), NEW positive, NEW u \in Blocks,
         NEW s \in Blocks, <<u, s>> \in EdgesOf(g), Reaches(EdgesOf(g), s, u),
         NEW d \in Blocks, Reaches(EdgesOf(g), d, u)
  PROVE  ~Sure(g, d, "field", positive, u)
<1> DEFINE E == EdgesOf(g)
           X == {c \in Blocks : Reaches(E, c, u)}
<1>0. Graph(E)
  BY EdgeFacts
<1>1. ASSUME NEW c \in X, NEW h \in Blocks, NEW t, Reaches(E, h, c)
      PROVE  ~ProofEdge(g, h, t, "field", positive, u)
  <2>1. Reaches(E, h, u)
    BY <1>0, <1>1, ReachesTrans
  <2> QED BY <2>1, HoldsMeansNoLoop DEF ProofEdge
<1>2. ASSUME NEW c \in X, Guarded(g, c, "field", positive, u)
      PROVE  FALSE
  <2>1. PICK h \in Blocks, t \in Blocks :
          Cut(g, h, t, c) /\ ProofEdge(g, h, t, "field", positive, u)
    BY <1>2 DEF Guarded
  <2>2. Reaches(E, h, c)
    BY <2>1, CutReaches
  <2> QED BY <1>1, <2>1, <2>2
<1>3. ASSUME NEW c \in X, c # 1
      PROVE  \E a \in X : <<a, c>> \in E /\ ~ProofEdge(g, a, c, "field", positive, u)
  <2>1. PICK a \in Blocks : <<a, c>> \in E
    BY <1>3, AllReached
  <2>2. Reaches(E, a, c)
    BY <2>1, ReachesSelf, ReachesStep
  <2>3. Reaches(E, a, u)
    BY <1>0, <2>2, ReachesTrans
  <2> QED BY <1>1, <2>1, <2>2, <2>3
<1>4. X \in SUBSET Blocks /\ d \in X
  OBVIOUS
<1> HIDE DEF X
<1> QED BY <1>2, <1>3, <1>4, NotSure

\* On the step into a block that is sure of the field on the way to the use, nothing
\* writes it.
LEMMA QuietStep ==
  ASSUME NEW g, ControlFlow(g), SidesAreEdges(g), GuardsReadLast(g), NEW positive,
         NEW a, NEW c, NEW u \in Blocks, <<a, c>> \in EdgesOf(g),
         Reaches(EdgesOf(g), c, u), Sure(g, c, "field", positive, u)
  PROVE  "after" \notin g.stores[a] /\ "before" \notin g.stores[c]
<1> DEFINE E == EdgesOf(g)
<1>0. Graph(E) /\ a \in Blocks /\ c \in Blocks
  BY EdgeFacts DEF Graph
<1>1. ~BlockWritesField(g, c, u)
  BY <1>0, WriterNotSure
<1>2. "before" \notin g.stores[c]
  BY <1>1 DEF BlockWritesField
<1>3. Reaches(E, a, c)
  BY ReachesSelf, ReachesStep
<1>4. Reaches(E, a, u)
  BY <1>0, <1>3, ReachesTrans
<1>5. a # u
  BY <1>0, LoopNotSure
<1>6. ASSUME "after" \in g.stores[a]
      PROVE  FALSE
  <2>1. BlockWritesField(g, a, u)
    BY <1>5, <1>6 DEF BlockWritesField
  <2>2. ~Sure(g, a, "field", positive, u)
    BY <1>0, <1>4, <2>1, WriterNotSure
  <2>3. ProofEdge(g, a, c, "field", positive, u)
    BY <2>2, SureStep
  <2>4. g.cond[a].subj = "field"
    BY <2>3 DEF ProofEdge, BranchProvesFact, Matches
  <2> QED BY <1>0, <1>6, <2>4 DEF GuardsReadLast
<1> QED BY <1>2, <1>6

----------------------------------------------------------------------------
(* The phi. *)

\* Nothing is sure of x where it merges: its guards stand behind the merge.
LEMMA MergeNotSure ==
  ASSUME NEW g, ControlFlow(g), SidesAreEdges(g), PhiForm(g), NEW positive, NEW use,
         g.phi.block # 0
  PROVE  ~Sure(g, g.phi.block, "x", positive, use)
<1> DEFINE m == g.phi.block
           E == EdgesOf(g)
           F == {e \in E : e[1] # m}
           X == {c \in Blocks : Reaches(F, 1, c)}
<1>0. /\ m \in Blocks \ {1} /\ Graph(E) /\ Graph(F) /\ 1 \in Blocks
      /\ \A b \in Blocks : g.cond[b].subj = "x" => Dominates(g, m, b)
  BY EdgeFacts, NilFlowAssumption DEF PhiForm, Graph
<1>1. ASSUME NEW h \in X, NEW s, ProofEdge(g, h, s, "x", positive, use)
      PROVE  h = m
  <2>1. g.cond[h].subj = "x"
    BY <1>1 DEF ProofEdge, BranchProvesFact, Matches
  <2>2. Dominates(g, m, h)
    BY <1>0, <2>1
  <2> QED BY <1>0, <2>2, NotBehind
<1>2. ASSUME NEW c \in X, Guarded(g, c, "x", positive, use)
      PROVE  FALSE
  <2>1. PICK h \in Blocks, s \in Blocks :
          Cut(g, h, s, c) /\ ProofEdge(g, h, s, "x", positive, use)
    BY <1>2 DEF Guarded
  <2> DEFINE S == {b \in X : Reaches(E \ {<<h, s>>}, 1, b)}
  <2>2. S \in SUBSET Blocks /\ 1 \in S
    BY <1>0, ReachesSelf
  <2>3. ASSUME NEW x, NEW y, <<x, y>> \in F, x \in S
        PROVE  y \in S
    <3>1. x # m /\ <<x, y>> \in E /\ y \in Blocks
      BY <1>0, <2>3 DEF Graph
    <3>2. Reaches(F, 1, y)
      <4> HIDE DEF F
      <4> QED BY <2>3, ReachesStep
    <3>3. x # h
      BY <1>1, <2>1, <2>3, <3>1
    <3>4. <<x, y>> \in E \ {<<h, s>>}
      BY <3>1, <3>3
    <3>5. Reaches(E \ {<<h, s>>}, 1, y)
      BY <2>3, <3>4, ReachesStep
    <3> QED BY <3>1, <3>2, <3>5
  <2>4. c \in S
    <3>1. Reaches(F, 1, c)
      OBVIOUS
    <3> HIDE DEF S, F
    <3> QED BY <1>0, <2>2, <2>3, <3>1, ReachesInside DEF Graph
  <2> QED BY <2>1, <2>4 DEF Cut
<1>3. ASSUME NEW c \in X, c # 1
      PROVE  \E a \in X : <<a, c>> \in E /\ ~ProofEdge(g, a, c, "x", positive, use)
  <2>1. PICK a \in Blocks : Reaches(F, 1, a) /\ <<a, c>> \in F
    <3> HIDE DEF F
    <3> QED BY <1>0, <1>3, ReachesLast
  <2>2. a # m /\ <<a, c>> \in E
    BY <2>1
  <2> QED BY <1>1, <2>1, <2>2
<1>4. m \in X
  <2>1. Reaches(E, 1, m)
    BY <1>0, AllReached
  <2>2. Reaches(F, 1, m)
    BY <1>0, <2>1, FirstArrival
  <2> QED BY <1>0, <2>2
<1>5. X \in SUBSET Blocks
  OBVIOUS
<1> HIDE DEF X
<1> QED BY <1>2, <1>3, <1>4, <1>5, NotSure

\* No guard is on a literal nil.
LEMMA LiteralNotSure ==
  ASSUME NEW g, ControlFlow(g), SidesAreEdges(g), NEW positive, NEW use, NEW b \in Blocks
  PROVE  ~Sure(g, b, "nil", positive, use)
<1>1. \A h, s : ~ProofEdge(g, h, s, "nil", positive, use)
  BY DEF ProofEdge, BranchProvesFact, Matches, ControlFlow
<1>2. \A c \in Blocks : ~Guarded(g, c, "nil", positive, use)
  BY <1>1 DEF Guarded
<1>3. \A c \in Blocks : c = 1 \/ \E a \in Blocks :
        <<a, c>> \in EdgesOf(g) /\ ~ProofEdge(g, a, c, "nil", positive, use)
  BY <1>1, AllReached
<1> DEFINE X == Blocks
<1>4. X \in SUBSET Blocks /\ b \in X
  OBVIOUS
<1>5. /\ \A c \in X : ~Guarded(g, c, "nil", positive, use)
      /\ \A c \in X : c = 1 \/ \E a \in X :
           <<a, c>> \in EdgesOf(g) /\ ~ProofEdge(g, a, c, "nil", positive, use)
  BY <1>2, <1>3
<1> HIDE DEF X
<1> QED BY <1>4, <1>5, NotSure

----------------------------------------------------------------------------
(* The proof over merges is exact. *)

\* The edges an execution with a nil p can take.
Open(g) ==
  {e \in EdgesOf(g) : TerminatingIf(g, e[1]) =>
                        ~BranchProvesFact(g.cond[e[1]], "p", g.succ[e[1]][1] = e[2], FALSE)}

LEMMA NilReachIs ==
  ASSUME NEW g, NEW b
  PROVE  b \in NilReach(g) <=> b \in Blocks /\ Reaches(Open(g), 1, b)
BY DEF NilReach, Open

\* The edges a proof can stand on are those that no nil p takes.
LEMMA OpenIsNoProof ==
  ASSUME NEW g, ControlFlow(g), NEW a, NEW c, <<a, c>> \in EdgesOf(g), NEW use
  PROVE  /\ <<a, c>> \in Open(g) <=> ~EdgeIsProof(g, a, c, "p", FALSE, use)
         /\ <<a, c>> \in Open(g) <=> ~ProofEdge(g, a, c, "p", FALSE, use)
<1>1. ProofHoldsFrom(g, "p", a, use)
  BY DEF ProofHoldsFrom
<1>2. <<a, c>> \in Open(g) <=> ~EdgeIsProof(g, a, c, "p", FALSE, use)
  BY <1>1 DEF Open, EdgeIsProof
<1>3. ASSUME ProofEdge(g, a, c, "p", FALSE, use)
      PROVE  EdgeIsProof(g, a, c, "p", FALSE, use)
  <2>1. PICK side \in BOOLEAN : c = SideOf(g, a, side)
                                /\ BranchProvesFact(g.cond[a], "p", side, FALSE)
    BY <1>3 DEF ProofEdge
  <2>2. a \in Blocks /\ TerminatingIf(g, a)
    BY <1>3 DEF ProofEdge
  <2>3. side = (g.succ[a][1] = c)
    BY <2>1, <2>2, SidesOf
  <2> QED BY <1>1, <2>1, <2>2, <2>3 DEF EdgeIsProof
<1> QED BY <1>2, <1>3, EdgeProofIsProofEdge

LEMMA NilReachNotSure ==
  ASSUME NEW g, ControlFlow(g), SidesAreEdges(g), NEW use
  PROVE  \A b \in NilReach(g) : ~Sure(g, b, "p", FALSE, use)
<1> DEFINE X == NilReach(g)
<1>0. Graph(EdgesOf(g)) /\ Graph(Open(g)) /\ 1 \in Blocks
  BY EdgeFacts, NilFlowAssumption DEF Graph, Open
<1>1. ASSUME NEW c \in X, Guarded(g, c, "p", FALSE, use)
      PROVE  FALSE
  <2>1. PICK h \in Blocks, s \in Blocks :
          Cut(g, h, s, c) /\ ProofEdge(g, h, s, "p", FALSE, use)
    BY <1>1 DEF Guarded
  <2>2. <<h, s>> \in EdgesOf(g)
    BY <2>1, SidesOf DEF ProofEdge
  <2>3. <<h, s>> \notin Open(g)
    BY <2>1, <2>2, OpenIsNoProof
  <2>4. Open(g) \subseteq EdgesOf(g) \ {<<h, s>>}
    BY <2>3 DEF Open
  <2>5. Reaches(EdgesOf(g) \ {<<h, s>>}, 1, c)
    BY <2>4, NilReachIs, ReachesMore
  <2> QED BY <2>1, <2>5 DEF Cut
<1>2. ASSUME NEW c \in X, c # 1
      PROVE  \E a \in X : <<a, c>> \in EdgesOf(g) /\ ~ProofEdge(g, a, c, "p", FALSE, use)
  <2>1. PICK a \in Blocks : Reaches(Open(g), 1, a) /\ <<a, c>> \in Open(g)
    BY <1>0, <1>2, NilReachIs, ReachesLast
  <2>2. <<a, c>> \in EdgesOf(g)
    BY <2>1 DEF Open
  <2> QED BY <2>1, <2>2, NilReachIs, OpenIsNoProof
<1>3. X \in SUBSET Blocks
  BY NilReachIs
<1> HIDE DEF X
<1>4. \A c \in X : ~Sure(g, c, "p", FALSE, use)
  BY <1>1, <1>2, <1>3, NotSure
<1> QED BY <1>4 DEF X

\* A nonempty set of naturals has a least element.
LEMMA LeastBlock ==
  ASSUME NEW S \in SUBSET Nat, S # {}
  PROVE  \E b \in S : \A a \in S : b <= a
<1>1. PICK b \in S : \A a \in S : ~(<<a, b>> \in OpToRel(<, Nat))
  BY NatLessThanWellFounded, WFMin
<1>2. \A a \in S : ~(a < b)
  BY <1>1 DEF OpToRel
<1> QED BY <1>2

LEMMA UnreachedIsProved ==
  ASSUME NEW g, ControlFlow(g), \A e \in EdgesOf(g) : e[1] < e[2], NEW use
  PROVE  \A b \in Blocks \ NilReach(g) : Proves(g, b, "p", FALSE, use)
<1> DEFINE Bad == {b \in Blocks \ NilReach(g) : ~Proves(g, b, "p", FALSE, use)}
<1> SUFFICES ASSUME Bad # {} PROVE FALSE
  OBVIOUS
<1>1. Bad \in SUBSET Nat
  BY NilFlowAssumption
<1>2. PICK b \in Bad : \A a \in Bad : b <= a
  <2> HIDE DEF Bad
  <2> QED BY <1>1, LeastBlock
<1>3. b # 1
  BY NilReachIs, ReachesSelf
<1>4. Preds(g, b) # {}
  BY <1>3, AllReached, EdgeFacts
<1>5. ASSUME NEW a \in Preds(g, b)
      PROVE  EdgeIsProof(g, a, b, "p", FALSE, use) \/ a \in Proven(g, "p", FALSE, use)
  <2>1. <<a, b>> \in EdgesOf(g) /\ a \in Blocks
    BY EdgeFacts DEF Preds
  <2>2. <<a, b>>[1] < <<a, b>>[2]
    BY <2>1
  <2>3. a \in Nat /\ b \in Nat /\ a < b
    BY <2>1, <2>2, NilFlowAssumption
  <2>4. a \notin Bad
    <3> HIDE DEF Bad
    <3>1. a \in Bad => b <= a
      BY <1>2
    <3> QED BY <2>3, <3>1
  <2>5. CASE <<a, b>> \in Open(g)
    <3>1. a \notin NilReach(g)
      BY <2>1, <2>5, NilReachIs, ReachesStep
    <3> QED BY <2>1, <2>4, <3>1 DEF Proven
  <2>6. CASE <<a, b>> \notin Open(g)
    BY <2>1, <2>6, OpenIsNoProof
  <2> QED BY <2>5, <2>6
<1>6. Proves(g, b, "p", FALSE, use)
  BY <1>4, <1>5, ProvesClosed DEF Rule
<1> QED BY <1>6

LEMMA ExactOnGraph ==
  ASSUME NEW g, ControlFlow(g), SidesAreEdges(g), \A e \in EdgesOf(g) : e[1] < e[2]
  PROVE  \A b \in Blocks : BlockProvesFact(g, b, "p", FALSE) <=> b \notin NilReach(g)
<1> SUFFICES ASSUME NEW b \in Blocks
             PROVE  Proves(g, b, "p", FALSE, b) <=> b \notin NilReach(g)
  BY DEF BlockProvesFact
<1> QED BY NilReachNotSure, UnreachedIsProved DEF Sure

----------------------------------------------------------------------------
(* Executions. *)

Environments ==
  [p : {Nil, Obj}, var : {Nil, Obj}, x : {Nil, Obj}, field : {Nil, Obj},
   cell : {Nil, Obj}, n : Ints]

\* The claims are those of the function, made before it is called.
FlowType ==
  /\ graph \in Graphs
  /\ claims = <<>> => at = 0
  /\ claims # <<>> => claims = ClaimsOf(graph)
  /\ at \in Blocks \cup {0}
  /\ env \in Environments

LEMMA OutcomesAreBoolean ==
  ASSUME NEW c, NEW e, c.subj = "n" => c.lit \in Int /\ e.n \in Int
  PROVE  Outcomes(c, e) \subseteq BOOLEAN
<1>1. CASE c.subj = "other"
  BY <1>1 DEF Outcomes
<1>2. CASE c.subj # "other" /\ c.subj = "n"
  <2>1. \A i, lit \in Int : \A op : Compare(i, op, lit) \in BOOLEAN
    <3> SUFFICES ASSUME NEW i \in Int, NEW lit \in Int, NEW op
                 PROVE  Compare(i, op, lit) \in BOOLEAN
      OBVIOUS
    <3>1. CASE op = "=="
      BY <3>1 DEF Compare
    <3>2. CASE op = "!="
      BY <3>2 DEF Compare
    <3>3. CASE op = "<"
      BY <3>3 DEF Compare
    <3>4. CASE op = "<="
      BY <3>4 DEF Compare
    <3>5. CASE op = ">"
      BY <3>5 DEF Compare
    <3>6. CASE op # "==" /\ op # "!=" /\ op # "<" /\ op # "<=" /\ op # ">"
      <4>1. Compare(i, op, lit) = (i >= lit)
        BY <3>6, Zenon DEF Compare
      <4> QED BY <4>1
    <3> QED BY <3>1, <3>2, <3>3, <3>4, <3>5, <3>6
  <2> QED BY <1>2, <2>1 DEF Outcomes
<1>3. CASE c.subj # "other" /\ c.subj # "n" /\ c.op = "as"
  BY <1>3 DEF Outcomes
<1>4. CASE c.subj # "other" /\ c.subj # "n" /\ c.op # "as"
  BY <1>4 DEF Outcomes
<1> QED BY <1>1, <1>2, <1>3, <1>4

LEMMA RunOutcomes ==
  ASSUME FlowType, ControlFlow(graph), NEW b \in Blocks
  PROVE  Outcomes(graph.cond[b], env) \subseteq BOOLEAN
<1>1. env.n \in Int
  BY DEF FlowType, Environments, Ints
<1>2. graph.cond[b].subj = "n" => graph.cond[b].lit \in Int
  BY DEF ControlFlow, Ints
<1> QED BY <1>1, <1>2, OutcomesAreBoolean

\* What an execution changes on the edge it takes.
StepFacts ==
  /\ at \in Blocks /\ at' \in Blocks /\ <<at, at'>> \in EdgesOf(graph)
  /\ graph' = graph /\ claims' = claims
  /\ env'.p = env.p /\ env'.n = env.n /\ env'.x = Merged(graph, at, at', env)
  /\ "after" \notin graph.stores[at] /\ "before" \notin graph.stores[at'] =>
       env'.field = env.field
  /\ graph.assign[at'] = "none" => env'.var = env.var
  /\ TerminatingIf(graph, at) =>
       \E o \in Outcomes(graph.cond[at], env) : at' = SideOf(graph, at, o)

LEMMA StepChanges ==
  ASSUME FlowType, \A g \in Graphs : ControlFlow(g), Step
  PROVE  FlowType' /\ StepFacts
<1> DEFINE g == graph
           succ == g.succ[at]
           taken == IF TerminatingIf(g, at)
                    THEN {IF o THEN succ[1] ELSE succ[2] : o \in Outcomes(g.cond[at], env)}
                    ELSE Range(succ)
<1>0. at \in Blocks /\ ControlFlow(g) /\ UNCHANGED <<graph, claims>> /\ at # 0
  BY NilFlowAssumption DEF FlowType, Step
<1>1. PICK b \in taken : \E f1 \in Stored(g, at, "after", env.field) :
        \E f2 \in Stored(g, b, "before", f1),
           cell \in Asked(g, "cell", {env.cell, Nil}, {env.cell}) :
          /\ at' = b
          /\ env' = [env EXCEPT !.field = f2, !.cell = cell, !.x = Merged(g, at, b, env),
                       !.var = IF g.assign[b] = "none" THEN @
                               ELSE IF g.assign[b] = "nil" THEN Nil ELSE Obj]
  BY DEF Step
<1>a. PICK f1 \in Stored(g, at, "after", env.field) :
        \E f2 \in Stored(g, b, "before", f1),
           cell \in Asked(g, "cell", {env.cell, Nil}, {env.cell}) :
          /\ at' = b
          /\ env' = [env EXCEPT !.field = f2, !.cell = cell, !.x = Merged(g, at, b, env),
                         !.var = IF g.assign[b] = "none" THEN @
                                   ELSE IF g.assign[b] = "nil" THEN Nil ELSE Obj]
  BY <1>1
<1>2. PICK f2 \in Stored(g, b, "before", f1),
           cell \in Asked(g, "cell", {env.cell, Nil}, {env.cell}) :
        /\ at' = b
        /\ env' = [env EXCEPT !.field = f2, !.cell = cell, !.x = Merged(g, at, b, env),
                     !.var = IF g.assign[b] = "none" THEN @
                             ELSE IF g.assign[b] = "nil" THEN Nil ELSE Obj]
  BY <1>a
<1>5. /\ b \in Blocks /\ <<at, b>> \in EdgesOf(g)
      /\ TerminatingIf(g, at) => \E o \in Outcomes(g.cond[at], env) : b = SideOf(g, at, o)
  <2>1. CASE TerminatingIf(g, at)
    <3>1. PICK o \in Outcomes(g.cond[at], env) : b = IF o THEN succ[1] ELSE succ[2]
      BY <2>1
    <3>2. b = SideOf(g, at, o)
      BY <3>1 DEF SideOf
    <3>3. o \in BOOLEAN
      BY <1>0, RunOutcomes
    <3>4. <<at, b>> \in EdgesOf(g) /\ b \in Blocks
      BY <1>0, <2>1, <3>2, <3>3, SidesOf
    <3> QED BY <3>2, <3>4
  <2>2. CASE ~TerminatingIf(g, at)
    <3>1. <<at, b>> \in EdgesOf(g)
      BY <1>0, <2>2, EdgeFacts
    <3>2. b \in Blocks
      BY <1>0, <3>1, EdgeFacts DEF Graph
    <3> QED BY <3>1, <3>2, <2>2
  <2> QED BY <2>1, <2>2
<1> HIDE DEF taken
<1>6. /\ env \in Environments
      /\ env.p \in {Nil, Obj} /\ env.x \in {Nil, Obj} /\ env.var \in {Nil, Obj}
      /\ env.field \in {Nil, Obj} /\ env.cell \in {Nil, Obj} /\ env.n \in Ints
  BY DEF FlowType, Environments
<1>7. f1 \in {Nil, Obj} /\ f2 \in {Nil, Obj} /\ cell \in {Nil, Obj}
  BY <1>6 DEF Stored, Asked
<1>8. Merged(g, at, b, env) \in {Nil, Obj}
  BY <1>6 DEF Merged
<1> DEFINE v == IF g.assign[b] = "none" THEN env.var
                ELSE IF g.assign[b] = "nil" THEN Nil ELSE Obj
           x == Merged(g, at, b, env)
<1>9. v \in {Nil, Obj} /\ x \in {Nil, Obj}
  BY <1>6, <1>8
<1>10. env' = [env EXCEPT !.field = f2, !.cell = cell, !.x = x, !.var = v]
  BY <1>2, <1>6 DEF Environments
<1>11. g.assign[b] = "none" => v = env.var
  OBVIOUS
<1> HIDE DEF x, v
<1>12. /\ env' \in Environments /\ env'.p = env.p /\ env'.n = env.n
       /\ env'.x = x /\ env'.field = f2 /\ env'.var = v
  BY <1>6, <1>7, <1>9, <1>10 DEF Environments
<1>13. "after" \notin g.stores[at] /\ "before" \notin g.stores[b] => f2 = env.field
  BY DEF Stored
<1>14. at' = b
  BY <1>2
<1>15. FlowType'
  BY <1>0, <1>5, <1>12, <1>14 DEF FlowType
<1>16. StepFacts
  <2>1. env'.x = Merged(graph, at, at', env)
    BY <1>12, <1>14 DEF x
  <2>2. "after" \notin graph.stores[at] /\ "before" \notin graph.stores[at'] =>
          env'.field = env.field
    BY <1>12, <1>13, <1>14
  <2>3. graph.assign[at'] = "none" => env'.var = env.var
    BY <1>11, <1>12, <1>14
  <2> QED BY <1>0, <1>5, <1>12, <1>14, <2>1, <2>2, <2>3 DEF StepFacts
<1> QED BY <1>15, <1>16

\* The outcome of a guard on a pointer decides the fact its side proves.
LEMMA OutcomeProves ==
  ASSUME NEW c, NEW e, NEW subj \in {"p", "x", "field"}, NEW o \in Outcomes(c, e),
         NEW positive \in BOOLEAN, BranchProvesFact(c, subj, o, positive)
  PROVE  (e[subj] = Nil) <=> positive
<1>1. c.subj = subj /\ o \in BOOLEAN
  BY OutcomesAreBoolean DEF BranchProvesFact, Matches
<1>2. CASE c.op = "as"
  <2>1. o /\ ~positive
    BY <1>2 DEF BranchProvesFact
  <2>2. Outcomes(c, e) = IF e[subj] = Nil THEN {FALSE} ELSE BOOLEAN
    BY <1>1, <1>2 DEF Outcomes
  <2> QED BY <2>1, <2>2
<1>3. CASE c.op # "as"
  <2>1. Outcomes(c, e) = {(e[subj] = Nil) = (c.op = "==")}
    BY <1>1, <1>3 DEF Outcomes
  <2>2. o <=> ((e[subj] = Nil) <=> (c.op = "=="))
    BY <2>1
  <2>3. ((c.op = "==") <=> o) <=> positive
    BY <1>1, <1>3 DEF BranchProvesFact
  <2> QED BY <1>1, <2>2, <2>3
<1> QED BY <1>2, <1>3

\* An execution that takes an edge that proves a fact has it.
LEMMA EdgeDecides ==
  ASSUME FlowType, ControlFlow(graph), StepFacts, NEW subj \in {"p", "x", "field"},
         NEW positive \in BOOLEAN, NEW use,
         ProofEdge(graph, at, at', subj, positive, use)
  PROVE  (env[subj] = Nil) <=> positive
<1>1. at \in Blocks /\ TerminatingIf(graph, at)
  BY DEF ProofEdge
<1>2. PICK side \in BOOLEAN : at' = SideOf(graph, at, side)
                              /\ BranchProvesFact(graph.cond[at], subj, side, positive)
  BY DEF ProofEdge
<1>3. PICK o \in Outcomes(graph.cond[at], env) : at' = SideOf(graph, at, o)
  BY <1>1 DEF StepFacts
<1>4. o \in BOOLEAN
  BY <1>1, RunOutcomes
<1>5. SideOf(graph, at, TRUE) # SideOf(graph, at, FALSE)
  BY <1>1, SidesOf
<1>6. o = side
  BY <1>2, <1>3, <1>4, <1>5
<1>7. BranchProvesFact(graph.cond[at], subj, o, positive)
  BY <1>2, <1>6
<1> QED BY <1>3, <1>7, OutcomeProves

----------------------------------------------------------------------------
(* What holds of the values while the function runs. *)

\* A function the SSA package builds whose dominating sides are edges.
Sound(g) == ControlFlow(g) /\ SidesAreEdges(g)

PSure ==
  at # 0 => \A positive \in BOOLEAN, use \in Blocks :
              Sure(graph, at, "p", positive, use) => ((env.p = Nil) <=> positive)

NDecided ==
  at # 0 => \A h \in Blocks, side \in BOOLEAN :
              /\ TerminatingIf(graph, h) /\ graph.cond[h].subj = "n"
              /\ Cut(graph, h, SideOf(graph, h, side), at)
              => side \in Outcomes(graph.cond[h], env)

FieldSure ==
  at # 0 => \A use \in Blocks :
              Reaches(EdgesOf(graph), at, use) /\ Sure(graph, at, "field", FALSE, use) =>
                env.field # Nil

XSure ==
  at # 0 => \A use \in Blocks : Sure(graph, at, "x", FALSE, use) => env.x # Nil

\* x is p before the merge; behind one that joins non-nil values it is not nil.
XMerged ==
  at # 0 => IF graph.phi.block # 0 /\ Reaches(EdgesOf(graph), graph.phi.block, at)
            THEN JoinPhi(graph) = "nonnil" => env.x # Nil
            ELSE env.x = env.p

VarIsP == at # 0 => env.var = env.p

FlowInv == FlowType /\ PSure

LEMMA FlowInit == Init => FlowInv /\ at = 0
<1> SUFFICES ASSUME Init PROVE FlowInv /\ at = 0
  OBVIOUS
<1>1. 0 \in Ints
  BY NilFlowAssumption DEF Ints, MinInt
<1>2. env \in Environments
  BY <1>1 DEF Init, Environments
<1> QED BY <1>2 DEF Init, FlowInv, FlowType, PSure

\* The steps other than an execution's: they leave it alone or begin it.
LEMMA OtherSteps ==
  ASSUME FlowType, [Next]_vars, ~Step
  PROVE  /\ FlowType' /\ graph' = graph
         /\ \/ at' = at /\ env' = env
            \/ at' = 1 /\ env'.x = env'.p /\ env'.var = env'.p
<1>1. CASE Analyse
  BY <1>1 DEF Analyse, FlowType
<1>2. CASE Call
  <2>1. PICK p \in {Nil, Obj}, f \in Asked(graph, "field", {Nil, Obj}, {Obj}),
             n \in Asked(graph, "n", Ints, {0}) :
          env' = [p |-> p, var |-> p, x |-> p, field |-> f, cell |-> p, n |-> n]
    BY <1>2 DEF Call
  <2>2. f \in {Nil, Obj} /\ n \in Ints
    BY NilFlowAssumption DEF Asked, Ints, MinInt
  <2>3. env' \in Environments /\ env'.x = env'.p /\ env'.var = env'.p
    BY <2>1, <2>2 DEF Environments
  <2> QED BY <1>2, <2>3, NilFlowAssumption DEF Call, FlowType
<1>3. CASE Returned \/ UNCHANGED vars
  BY <1>3 DEF Returned, vars, FlowType
<1> QED BY <1>1, <1>2, <1>3 DEF Next

LEMMA PStep ==
  ASSUME \A g \in Graphs : Sound(g), FlowInv, [Next]_vars
  PROVE  FlowInv'
<1>0. graph \in Graphs /\ ControlFlow(graph) /\ SidesAreEdges(graph) /\ FlowType
  BY DEF FlowInv, FlowType, Sound
<1>1. CASE Step
  <2>1. FlowType' /\ StepFacts
    BY <1>0, <1>1, StepChanges DEF Sound
  <2>2. ASSUME NEW positive \in BOOLEAN, NEW use \in Blocks,
               Sure(graph, at', "p", positive, use)
        PROVE  (env.p = Nil) <=> positive
    <3>1. CASE ProofEdge(graph, at, at', "p", positive, use)
      <4>1. (env["p"] = Nil) <=> positive
        BY <1>0, <2>1, <3>1, EdgeDecides
      <4> QED BY <4>1
    <3>2. CASE Sure(graph, at, "p", positive, use)
      BY <1>1, <3>2 DEF FlowInv, PSure, Step
    <3>3. <<at, at'>> \in EdgesOf(graph)
      BY <2>1 DEF StepFacts
    <3> QED BY <1>0, <2>2, <3>1, <3>2, <3>3, SureStep
  <2>3. graph' = graph /\ env'.p = env.p
    BY <2>1 DEF StepFacts
  <2> QED BY <2>1, <2>2, <2>3 DEF FlowInv, PSure
<1>2. CASE ~Step
  <2>1. FlowType' /\ graph' = graph /\ ((at' = at /\ env' = env) \/ at' = 1)
    BY <1>0, <1>2, OtherSteps
  <2>2. CASE at' = at /\ env' = env
    BY <2>1, <2>2 DEF FlowInv, PSure
  <2>3. CASE at' = 1
    <3>1. \A positive, use : ~Sure(graph, 1, "p", positive, use)
      BY <1>0, EntryNotSure
    <3> QED BY <2>1, <2>3, <3>1 DEF FlowInv, PSure
  <2> QED BY <2>1, <2>2, <2>3
<1> QED BY <1>1, <1>2

\* The claims in force.
LEMMA Claimed ==
  ASSUME FlowType, Running
  PROVE  at \in Blocks /\ graph \in Graphs /\ claims = ClaimsOf(graph)
BY NilFlowAssumption DEF FlowType, Running

\* The proof over merges (narrow_ssa.go:60) is exact where there is no loop, for
\* every graph whose dominating sides are edges: p is proved non-nil in precisely
\* the blocks no execution with a nil p reaches, and proved nil only where it is.
THEOREM MergeProofsAreExact ==
  ASSUME \A g \in Graphs : Sound(g)
  PROVE  Spec => []ProofsAreExact
<1>1. ASSUME FlowInv PROVE ProofsAreExact
  <2>0. graph \in Graphs /\ ControlFlow(graph) /\ SidesAreEdges(graph)
    BY <1>1 DEF FlowInv, FlowType, Sound
  <2>1. ASSUME Running, claims[at].provedNil
        PROVE  env.p = Nil
    <3>1. at \in Blocks /\ claims = ClaimsOf(graph)
      BY <1>1, <2>1, Claimed DEF FlowInv
    <3>2. claims[at].provedNil = Asked(graph, "p", BlockProvesFact(graph, at, "p", TRUE), FALSE)
      BY <3>1 DEF ClaimsOf
    <3>3. BlockProvesFact(graph, at, "p", TRUE)
      BY <2>1, <3>2 DEF Asked
    <3>4. Sure(graph, at, "p", TRUE, at)
      BY <3>3 DEF BlockProvesFact, Sure
    <3> QED BY <1>1, <2>1, <3>1, <3>4 DEF FlowInv, PSure, Running
  <2> QED BY <2>0, <2>1, ExactOnGraph DEF ProofsAreExact
<1>2. FlowInv /\ [Next]_vars => FlowInv'
  BY PStep
<1>3. Init => FlowInv
  BY FlowInit
<1> QED BY <1>1, <1>2, <1>3, PTL DEF Spec

----------------------------------------------------------------------------
(* The phi while the function runs. *)

LEMMA JoinIsNonNil ==
  ASSUME NEW g, JoinPhi(g) = "nonnil", NEW a \in Preds(g, g.phi.block)
  PROVE  \/ g.phi.edge[a] \in {"new", "cell"}
         \/ EdgeCarriesNonNil(g, a, g.phi.block, g.phi.edge[a])
<1> DEFINE m == g.phi.block
           state(b) == LET v == g.phi.edge[b] IN
                       IF ValueNilness(v) = "nonnil" \/ EdgeCarriesNonNil(g, b, m, v)
                       THEN "nonnil"
                       ELSE IF \E c \in Preds(g, m) : c < b /\ g.phi.edge[c] = v
                       THEN "unknown" ELSE ValueNilness(v)
           states == {state(b) : b \in Preds(g, m)}
<1>1. JoinPhi(g) = JoinStates(states)
  BY Zenon DEF JoinPhi
<1>2. \A S : JoinStates(S) = "nonnil" => S = {"nonnil"}
  BY DEF JoinStates
<1>3. states = {"nonnil"}
  <2> HIDE DEF states
  <2> QED BY <1>1, <1>2
<1>4. state(a) \in states
  OBVIOUS
<1>5. state(a) = "nonnil"
  <2> HIDE DEF state
  <2> QED BY <1>3, <1>4
<1>6. ValueNilness(g.phi.edge[a]) = "nonnil" \/ EdgeCarriesNonNil(g, a, m, g.phi.edge[a])
  BY <1>5
<1>7. \A v : ValueNilness(v) = "nonnil" => v \in {"new", "cell"}
  BY DEF ValueNilness
<1> QED BY <1>6, <1>7

XInv == FlowInv /\ XSure /\ XMerged

\* An execution brings a non-nil value into a merge that joins non-nil values.
LEMMA EnterMerge ==
  ASSUME XInv, ControlFlow(graph), SidesAreEdges(graph), PhiForm(graph), StepFacts,
         graph.phi.block # 0, at' = graph.phi.block, JoinPhi(graph) = "nonnil"
  PROVE  env'.x # Nil
<1> DEFINE m == graph.phi.block
           v == graph.phi.edge[at]
<1>0. /\ m \in Blocks /\ FlowType /\ at \in Blocks /\ <<at, m>> \in EdgesOf(graph)
      /\ at # 0
  BY NilFlowAssumption DEF PhiForm, XInv, FlowInv, StepFacts
<1>1. at \in Preds(graph, m)
  BY <1>0, EdgeFacts
<1>2. v \in {"p", "x", "nil", "new"}
  BY <1>1 DEF PhiForm
<1>3. env'.x = Merged(graph, at, m, env)
  BY DEF StepFacts
<1>4. v = "new" \/ EdgeCarriesNonNil(graph, at, m, v)
  BY <1>1, <1>2, JoinIsNonNil
<1>5. v # "new" => \/ ProofEdge(graph, at, m, v, FALSE, m)
                  \/ Sure(graph, at, v, FALSE, m)
  BY <1>0, <1>4, EdgeProofIsProofEdge DEF EdgeCarriesNonNil, Sure
<1>6. CASE v = "new"
  BY <1>3, <1>6, NilFlowAssumption DEF Merged
<1>7. CASE v = "nil"
  <2>1. ~ProofEdge(graph, at, m, "nil", FALSE, m)
    BY <1>0 DEF ProofEdge, BranchProvesFact, Matches, ControlFlow
  <2> QED BY <1>0, <1>5, <1>7, <2>1, LiteralNotSure
<1>8. CASE v = "p"
  <2>1. CASE ProofEdge(graph, at, m, "p", FALSE, m)
    <3>1. (env["p"] = Nil) <=> FALSE
      BY <1>0, <2>1, EdgeDecides
    <3> QED BY <1>3, <1>8, <3>1 DEF Merged
  <2>2. CASE Sure(graph, at, "p", FALSE, m)
    <3>1. env.p # Nil
      BY <1>0, <2>2 DEF XInv, FlowInv, PSure
    <3> QED BY <1>3, <1>8, <3>1 DEF Merged
  <2> QED BY <1>5, <1>8, <2>1, <2>2
<1>9. CASE v = "x"
  <2>1. CASE ProofEdge(graph, at, m, "x", FALSE, m)
    <3>1. (env["x"] = Nil) <=> FALSE
      BY <1>0, <2>1, EdgeDecides
    <3> QED BY <1>3, <1>9, <3>1 DEF Merged
  <2>2. CASE Sure(graph, at, "x", FALSE, m)
    <3>1. env.x # Nil
      BY <1>0, <2>2 DEF XInv, XSure
    <3> QED BY <1>3, <1>9, <3>1 DEF Merged
  <2> QED BY <1>5, <1>9, <2>1, <2>2
<1> QED BY <1>2, <1>6, <1>7, <1>8, <1>9

LEMMA XStep ==
  ASSUME \A g \in Graphs : Sound(g) /\ PhiForm(g), XInv, [Next]_vars
  PROVE  XInv'
<1>0. /\ graph \in Graphs /\ ControlFlow(graph) /\ SidesAreEdges(graph) /\ PhiForm(graph)
      /\ FlowType /\ \A g \in Graphs : Sound(g) /\ ControlFlow(g)
  BY DEF XInv, FlowInv, FlowType, Sound
<1>1. FlowInv'
  BY <1>0, PStep DEF XInv
<1> DEFINE m == graph.phi.block
           E == EdgesOf(graph)
<1>2. CASE Step
  <2>1. StepFacts
    BY <1>0, <1>2, StepChanges
  <2>2. /\ at # 0 /\ at \in Blocks /\ at' \in Blocks /\ <<at, at'>> \in E /\ graph' = graph
        /\ env'.p = env.p /\ (at' # m => env'.x = env.x)
    BY <2>1, NilFlowAssumption DEF StepFacts, Merged
  <2>3. XSure'
    <3> SUFFICES ASSUME NEW use \in Blocks, Sure(graph, at', "x", FALSE, use)
                 PROVE  env'.x # Nil
      BY <2>2 DEF XSure
    <3>1. m # 0 => at' # m
      BY <1>0, MergeNotSure
    <3>2. at' # m
      BY <2>2, <3>1, NilFlowAssumption
    <3>3. CASE ProofEdge(graph, at, at', "x", FALSE, use)
      <4>1. (env["x"] = Nil) <=> FALSE
        BY <1>0, <2>1, <3>3, EdgeDecides
      <4> QED BY <2>2, <3>2, <4>1
    <3>4. CASE Sure(graph, at, "x", FALSE, use)
      BY <2>2, <3>2, <3>4 DEF XInv, XSure
    <3> QED BY <1>0, <2>2, <3>3, <3>4, SureStep
  <2>4. XMerged'
    <3>1. CASE m # 0 /\ at' = m
      <4>1. JoinPhi(graph) = "nonnil" => env'.x # Nil
        BY <1>0, <2>1, <3>1, EnterMerge
      <4>2. Reaches(EdgesOf(graph), graph.phi.block, at')
        BY <3>1, ReachesSelf
      <4> QED BY <2>2, <3>1, <4>1, <4>2 DEF XMerged
    <3>2. CASE m # 0 /\ at' # m /\ Reaches(E, m, at')
      <4>1. m \in Blocks /\ at' \in Forward(graph, m)
        BY <1>0, <2>2, <3>2, ForwardIs DEF PhiForm
      <4>2. Dominates(graph, m, at')
        BY <1>0, <3>2, <4>1 DEF PhiForm
      <4>3. Dominates(graph, m, at)
        BY <2>2, <3>2, <4>2, DominatesPred
      <4>4. Reaches(E, m, at)
        BY <1>0, <2>2, <4>1, <4>3, DominatesReaches
      <4> QED BY <2>2, <3>2, <4>4 DEF XMerged, XInv
    <3>3. CASE m = 0 \/ ~Reaches(E, m, at')
      <4>1. at' # m
        BY <2>2, <3>3, ReachesSelf, NilFlowAssumption
      <4>2. m # 0 => ~Reaches(E, m, at)
        BY <2>2, <3>3, ReachesStep
      <4> QED BY <2>2, <3>3, <4>1, <4>2 DEF XMerged, XInv
    <3> QED BY <3>1, <3>2, <3>3
  <2> QED BY <1>1, <2>3, <2>4 DEF XInv
<1>3. CASE ~Step
  <2>1. graph' = graph /\ ((at' = at /\ env' = env) \/ (at' = 1 /\ env'.x = env'.p))
    BY <1>0, <1>3, OtherSteps
  <2>2. CASE at' = at /\ env' = env
    BY <1>1, <2>1, <2>2 DEF XInv, XSure, XMerged
  <2>3. CASE at' = 1 /\ env'.x = env'.p
    <3>1. \A use : ~Sure(graph, 1, "x", FALSE, use)
      BY <1>0, EntryNotSure
    <3>2. m # 0 => ~Reaches(E, m, 1)
      <4> SUFFICES ASSUME m # 0, Reaches(E, m, 1) PROVE FALSE
        OBVIOUS
      <4>1. m \in Blocks \ {1} /\ 1 \in Forward(graph, m)
        BY <1>0, ForwardIs, NilFlowAssumption DEF PhiForm
      <4>2. Dominates(graph, m, 1)
        BY <1>0, <4>1 DEF PhiForm
      <4> QED BY <4>1, <4>2, DominatesIs, ReachesSelf
    <3> QED BY <1>1, <2>1, <2>3, <3>1, <3>2 DEF XInv, XSure, XMerged
  <2> QED BY <2>1, <2>2, <2>3
<1> QED BY <1>2, <1>3

\* A nil value never reaches a call unreported (nil_flow_ssa.go:116): for every
\* graph whose dominating sides are edges, with any guards, merges and loops, an
\* argument that is nil in some execution is reported where it is passed.
THEOREM NilArgumentsAreReported ==
  ASSUME \A g \in Graphs : Sound(g) /\ PhiForm(g)
  PROVE  Spec => []NilArgumentIsReported
<1>1. ASSUME XInv PROVE NilArgumentIsReported
  <2> SUFFICES ASSUME Running, NEW v \in graph.asks \cap {"p", "x"}, env[v] = Nil
               PROVE  claims[at].reported[v]
    BY DEF NilArgumentIsReported
  <2> DEFINE w == IF v = "x" THEN ValueOfX(graph, at) ELSE v
             m == graph.phi.block
  <2>0. /\ at \in Blocks /\ at # 0 /\ claims = ClaimsOf(graph) /\ ControlFlow(graph)
        /\ SidesAreEdges(graph) /\ PhiForm(graph) /\ FlowType /\ v \in {"p", "x"}
    BY <1>1, Claimed DEF XInv, FlowInv, Sound, Running
  <2>1. claims[at].reported[v] = Reported(graph, at, w)
    BY <2>0 DEF ClaimsOf
  <2>2. w = "p" => env.p = Nil
    <3>1. CASE v = "p"
      BY <3>1
    <3>2. CASE v = "x" /\ w = "p"
      <4>1. ~(m # 0 /\ Dominates(graph, m, at))
        BY <3>2 DEF ValueOfX
      <4>2. m # 0 => ~Reaches(EdgesOf(graph), m, at)
        BY <2>0, <4>1, ForwardIs DEF PhiForm
      <4> QED BY <1>1, <2>0, <3>2, <4>2 DEF XInv, XMerged
    <3> QED BY <2>0, <3>1, <3>2
  <2>3. CASE w = "p"
    <3>1. ~ProvenNonNil(graph, "p")
      BY DEF ProvenNonNil, ValueNilness
    <3>2. ~Narrowed(graph, at, "p")
      BY <1>1, <2>0, <2>2, <2>3 DEF XInv, FlowInv, PSure, Narrowed, BlockProvesFact, Sure
    <3>3. Reported(graph, at, "p")
      BY <3>1, <3>2 DEF Reported
    <3> QED BY <2>1, <2>3, <3>3
  <2>4. CASE w # "p"
    <3>1. v = "x" /\ w = "x" /\ m # 0 /\ Dominates(graph, m, at) /\ env.x = Nil
      BY <2>0, <2>4 DEF ValueOfX
    <3>2. Reaches(EdgesOf(graph), m, at)
      BY <2>0, <3>1, DominatesReaches DEF PhiForm
    <3>3. ~ProvenNonNil(graph, "x")
      BY <1>1, <2>0, <3>1, <3>2 DEF XInv, XMerged, ProvenNonNil
    <3>4. ~Narrowed(graph, at, "x")
      BY <1>1, <2>0, <3>1 DEF XInv, XSure, Narrowed, BlockProvesFact, Sure
    <3>5. Reported(graph, at, "x")
      BY <3>3, <3>4 DEF Reported
    <3> QED BY <2>1, <3>1, <3>5
  <2> QED BY <2>3, <2>4
<1>2. XInv /\ [Next]_vars => XInv'
  BY XStep
<1>3. Init => XInv
  BY FlowInit DEF XInv, XSure, XMerged
<1> QED BY <1>1, <1>2, <1>3, PTL DEF Spec

----------------------------------------------------------------------------
(* Intervals. *)

Ops == {"==", "!=", "<", "<=", ">", ">="}

LEMMA SwapIsMirror ==
  ASSUME NEW op \in Ops, NEW i \in Int, NEW j \in Int
  PROVE  /\ SwapOrderedOp(op) \in Ops
         /\ Compare(i, op, j) <=> Compare(j, SwapOrderedOp(op), i)
<1>1. CASE op = "=="
  BY <1>1 DEF SwapOrderedOp, Compare, Ops
<1>2. CASE op = "!="
  BY <1>2 DEF SwapOrderedOp, Compare, Ops
<1>3. CASE op = "<"
  BY <1>3 DEF SwapOrderedOp, Compare, Ops
<1>4. CASE op = "<="
  BY <1>4 DEF SwapOrderedOp, Compare, Ops
<1>5. CASE op = ">"
  BY <1>5 DEF SwapOrderedOp, Compare, Ops
<1>6. CASE op = ">="
  BY <1>6 DEF SwapOrderedOp, Compare, Ops
<1> QED BY <1>1, <1>2, <1>3, <1>4, <1>5, <1>6 DEF Ops

LEMMA NegateIsComplement ==
  ASSUME NEW op \in Ops, NEW i \in Int, NEW j \in Int
  PROVE  /\ NegateOrderedOp(op) \in Ops
         /\ ~Compare(i, op, j) <=> Compare(i, NegateOrderedOp(op), j)
<1>1. CASE op = "=="
  BY <1>1 DEF NegateOrderedOp, Compare, Ops
<1>2. CASE op = "!="
  BY <1>2 DEF NegateOrderedOp, Compare, Ops
<1>3. CASE op = "<"
  BY <1>3 DEF NegateOrderedOp, Compare, Ops
<1>4. CASE op = "<="
  BY <1>4 DEF NegateOrderedOp, Compare, Ops
<1>5. CASE op = ">"
  BY <1>5 DEF NegateOrderedOp, Compare, Ops
<1>6. CASE op = ">="
  BY <1>6 DEF NegateOrderedOp, Compare, Ops
<1> QED BY <1>1, <1>2, <1>3, <1>4, <1>5, <1>6 DEF Ops

\* The ends computed with the arithmetic of the machine type admit every value of
\* it that the comparison lets pass.
LEMMA BoundAdmits ==
  ASSUME NEW op \in Ops, NEW i \in Ints, NEW lit \in Ints, Compare(i, op, lit)
  PROVE  Admits(BoundOf(op, lit), i)
<1>0. i \in Int /\ lit \in Int /\ MinInt <= i /\ i <= MaxInt /\ MinInt <= lit
      /\ lit <= MaxInt /\ MaxInt \in Int /\ MinInt \in Int
  BY NilFlowAssumption DEF Ints, MinInt
<1>1. CASE op = "=="
  BY <1>0, <1>1 DEF BoundOf, Compare, Admits
<1>2. CASE op = "!="
  BY <1>0, <1>2 DEF BoundOf, Compare, Admits
<1>3. CASE op = "<"
  <2>1. i < lit
    BY <1>3 DEF Compare
  <2>2. i <= Wrap(lit - 1)
    BY <1>0, <2>1 DEF Wrap
  <2>3. BoundOf(op, lit) = [lower |-> {}, upper |-> {Wrap(lit - 1)}]
    BY <1>3 DEF BoundOf
  <2> QED BY <2>2, <2>3 DEF Admits
<1>4. CASE op = "<="
  BY <1>0, <1>4 DEF BoundOf, Compare, Admits
<1>5. CASE op = ">"
  <2>1. i > lit
    BY <1>5 DEF Compare
  <2>2. Wrap(lit + 1) <= i
    BY <1>0, <2>1 DEF Wrap
  <2>3. BoundOf(op, lit) = [lower |-> {Wrap(lit + 1)}, upper |-> {}]
    BY <1>5 DEF BoundOf
  <2> QED BY <2>2, <2>3 DEF Admits
<1>6. CASE op = ">="
  BY <1>0, <1>6 DEF BoundOf, Compare, Admits
<1> QED BY <1>1, <1>2, <1>3, <1>4, <1>5, <1>6 DEF Ops

LEMMA GuardAdmits ==
  ASSUME NEW c, c.subj = "n", c.op \in Ops, c.lit \in Ints, c.flip \in BOOLEAN,
         NEW e, e.n \in Ints, NEW side \in BOOLEAN, side \in Outcomes(c, e)
  PROVE  Admits(GuardRangeBound(c, side), e.n)
<1> DEFINE swapped == IF c.flip THEN SwapOrderedOp(c.op) ELSE c.op
           op == IF side THEN swapped ELSE NegateOrderedOp(swapped)
<1>0. e.n \in Int /\ c.lit \in Int
  BY DEF Ints
<1>1. Outcomes(c, e) = {IF c.flip THEN Compare(c.lit, c.op, e.n) ELSE Compare(e.n, c.op, c.lit)}
  <2>1. c.op # "as" /\ c.subj # "other"
    BY DEF Ops
  <2> QED BY <2>1, Zenon DEF Outcomes
<1>2. side = (IF c.flip THEN Compare(c.lit, c.op, e.n) ELSE Compare(e.n, c.op, c.lit))
  BY <1>1
<1>3. swapped \in Ops /\ (side <=> Compare(e.n, swapped, c.lit))
  BY <1>0, <1>2, SwapIsMirror
<1>4. op \in Ops /\ Compare(e.n, op, c.lit)
  <2> HIDE DEF swapped
  <2>1. CASE side
    BY <1>3, <2>1
  <2>2. CASE ~side
    BY <1>0, <1>3, <2>2, NegateIsComplement
  <2> QED BY <2>1, <2>2
<1>5. GuardRangeBound(c, side) = BoundOf(op, c.lit)
  BY DEF GuardRangeBound
<1> HIDE DEF op
<1> QED BY <1>4, <1>5, BoundAdmits

----------------------------------------------------------------------------
(* The claims. *)

ClaimInv == FlowInv /\ NDecided /\ FieldSure /\ VarIsP

LEMMA ClaimStep ==
  ASSUME \A g \in Graphs : Sound(g) /\ GuardsReadLast(g) /\ Unassigned(g),
         ClaimInv, [Next]_vars
  PROVE  ClaimInv'
<1>0. /\ graph \in Graphs /\ ControlFlow(graph) /\ SidesAreEdges(graph)
      /\ GuardsReadLast(graph) /\ Unassigned(graph)
      /\ FlowType /\ \A g \in Graphs : Sound(g) /\ ControlFlow(g)
  BY DEF ClaimInv, FlowInv, FlowType, Sound
<1>1. FlowInv'
  BY <1>0, PStep DEF ClaimInv
<1> DEFINE E == EdgesOf(graph)
<1>2. CASE Step
  <2>1. StepFacts
    BY <1>0, <1>2, StepChanges
  <2>2. /\ at # 0 /\ at \in Blocks /\ at' \in Blocks /\ <<at, at'>> \in E /\ graph' = graph
        /\ env'.p = env.p /\ env'.n = env.n /\ env'.var = env.var
    BY <1>0, <2>1, NilFlowAssumption DEF StepFacts, Unassigned
  <2>3. VarIsP'
    BY <2>2 DEF VarIsP, ClaimInv
  <2>4. NDecided'
    <3> SUFFICES ASSUME NEW h \in Blocks, NEW side \in BOOLEAN,
                        TerminatingIf(graph, h), graph.cond[h].subj = "n",
                        Cut(graph, h, SideOf(graph, h, side), at')
                 PROVE  side \in Outcomes(graph.cond[h], env')
      BY <2>2 DEF NDecided
    <3>0. Outcomes(graph.cond[h], env') = Outcomes(graph.cond[h], env)
      <4>1. graph.cond[h].op # "as" /\ graph.cond[h].subj # "other"
        BY <1>0 DEF ControlFlow
      <4>2. \A e : Outcomes(graph.cond[h], e) =
              {IF graph.cond[h].flip THEN Compare(graph.cond[h].lit, graph.cond[h].op, e.n)
               ELSE Compare(e.n, graph.cond[h].op, graph.cond[h].lit)}
        BY <4>1, Zenon DEF Outcomes
      <4> QED BY <2>2, <4>2
    <3>1. CASE <<at, at'>> = <<h, SideOf(graph, h, side)>>
      <4>1. PICK o \in Outcomes(graph.cond[at], env) : at' = SideOf(graph, at, o)
        BY <2>1, <3>1 DEF StepFacts
      <4>2. o \in BOOLEAN
        BY <1>0, <2>2, RunOutcomes
      <4>3. SideOf(graph, at, TRUE) # SideOf(graph, at, FALSE)
        BY <1>0, <2>2, <3>1, SidesOf
      <4>4. o = side
        BY <3>1, <4>1, <4>2, <4>3
      <4> QED BY <3>0, <3>1, <4>1, <4>4
    <3>2. CASE <<at, at'>> # <<h, SideOf(graph, h, side)>>
      <4>1. Cut(graph, h, SideOf(graph, h, side), at)
        BY <2>2, <3>2, CutStep
      <4> QED BY <2>2, <3>0, <4>1 DEF ClaimInv, NDecided
    <3> QED BY <3>1, <3>2
  <2>5. FieldSure'
    <3> SUFFICES ASSUME NEW use \in Blocks, Reaches(E, at', use),
                        Sure(graph, at', "field", FALSE, use)
                 PROVE  env'.field # Nil
      BY <2>2 DEF FieldSure
    <3>1. "after" \notin graph.stores[at] /\ "before" \notin graph.stores[at']
      BY <1>0, <2>2, QuietStep
    <3>2. env'.field = env.field
      BY <2>1, <3>1 DEF StepFacts
    <3>3. CASE ProofEdge(graph, at, at', "field", FALSE, use)
      <4>1. (env["field"] = Nil) <=> FALSE
        BY <1>0, <2>1, <3>3, EdgeDecides
      <4> QED BY <3>2, <4>1
    <3>4. CASE Sure(graph, at, "field", FALSE, use)
      <4>1. Reaches(E, at, at') /\ Graph(E)
        BY <1>0, <2>2, EdgeFacts, ReachesSelf, ReachesStep
      <4>2. Reaches(E, at, use)
        BY <2>2, <4>1, ReachesTrans
      <4> QED BY <2>2, <3>2, <3>4, <4>2 DEF ClaimInv, FieldSure
    <3> QED BY <1>0, <2>2, <3>3, <3>4, SureStep
  <2> QED BY <1>1, <2>3, <2>4, <2>5 DEF ClaimInv
<1>3. CASE ~Step
  <2>1. graph' = graph /\ ((at' = at /\ env' = env) \/ (at' = 1 /\ env'.var = env'.p))
    BY <1>0, <1>3, OtherSteps
  <2>2. CASE at' = at /\ env' = env
    BY <1>1, <2>1, <2>2 DEF ClaimInv, NDecided, FieldSure, VarIsP
  <2>3. CASE at' = 1 /\ env'.var = env'.p
    <3>1. \A use : ~Sure(graph, 1, "field", FALSE, use)
      BY <1>0, EntryNotSure
    <3>2. \A h, s : ~Cut(graph, h, s, 1)
      BY ReachesSelf DEF Cut
    <3> QED BY <1>1, <2>1, <2>3, <3>1, <3>2 DEF ClaimInv, NDecided, FieldSure, VarIsP
  <2> QED BY <2>1, <2>2, <2>3
<1> QED BY <1>2, <1>3

\* The verdict of the nearest guard on p is a fact that is sure at the block.
LEMMA VerdictIsSure ==
  ASSUME NEW g, Sound(g), NEW b \in Blocks, NEW r \in GuardVerdict(g, b, "p")
  PROVE  \E positive \in BOOLEAN : /\ Sure(g, b, "p", positive, b)
                                   /\ r = "nil" <=> positive
<1> DEFINE deciding == {h \in StrictDominators(g, b) :
                          TerminatingIf(g, h) /\ g.cond[h].subj = "p" /\ g.cond[h].op # "as"
                          /\ DominantSide(g, h, b) # {}}
           nearest == {h \in deciding : \A j \in deciding : Dominates(g, j, h)}
           answer(h, side) == IF BranchProvesFact(g.cond[h], "p", side, TRUE) THEN "nil" ELSE "nonnil"
<1>1. GuardVerdict(g, b, "p") =
        UNION {{answer(h, side) : side \in DominantSide(g, h, b)} : h \in nearest}
  BY Zenon DEF GuardVerdict
<1>2. PICK h \in nearest : r \in {answer(h, side) : side \in DominantSide(g, h, b)}
  <2> HIDE DEF nearest, answer
  <2> QED BY <1>1
<1>3. PICK side \in DominantSide(g, h, b) : r = answer(h, side)
  <2> HIDE DEF nearest, answer
  <2> QED BY <1>2
<1>4. /\ h \in Blocks /\ b \in Blocks \ {h} /\ Dominates(g, h, b) /\ TerminatingIf(g, h)
      /\ g.cond[h].subj = "p" /\ g.cond[h].op # "as"
  BY DEF StrictDominators
<1>5. side \in BOOLEAN
  BY DEF DominantSide
<1>6. Cut(g, h, SideOf(g, h, side), b)
  BY <1>4 DEF Sound, SidesAreEdges, Speaks
<1>7. PICK positive \in BOOLEAN : BranchProvesFact(g.cond[h], "p", side, positive)
                                  /\ (positive <=> BranchProvesFact(g.cond[h], "p", side, TRUE))
  <2>1. \A q \in BOOLEAN : BranchProvesFact(g.cond[h], "p", side, q) <=>
                             (((g.cond[h].op = "==") <=> side) <=> q)
    BY <1>4, <1>5 DEF BranchProvesFact, Matches
  <2>2. CASE (g.cond[h].op = "==") <=> side
    BY <2>1, <2>2
  <2>3. CASE ~((g.cond[h].op = "==") <=> side)
    BY <2>1, <2>3
  <2> QED BY <2>2, <2>3
<1>8. ProofHoldsFrom(g, "p", h, b)
  BY DEF ProofHoldsFrom
<1>9. ProofEdge(g, h, SideOf(g, h, side), "p", positive, b)
  BY <1>4, <1>5, <1>7, <1>8 DEF ProofEdge
<1>10. SideOf(g, h, side) \in Blocks
  BY <1>4, <1>5, SidesOf DEF Sound
<1>11. Sure(g, b, "p", positive, b)
  BY <1>4, <1>6, <1>9, <1>10 DEF Sure, Guarded
<1>12. r = "nil" <=> positive
  BY <1>3, <1>7
<1> QED BY <1>11, <1>12

\* Every interval end comes from a guard on n that the execution has passed.
LEMMA RangeIsAdmitted ==
  ASSUME ClaimInv, Sound(graph), at \in Blocks, at # 0
  PROVE  Admits(RangeEnds(graph, at), env.n)
<1> DEFINE guards == {h \in StrictDominators(graph, at) :
                        TerminatingIf(graph, h) /\ graph.cond[h].subj = "n"}
           bound(h, side) == GuardRangeBound(graph.cond[h], side)
           bounds == UNION {{bound(h, side) : side \in DominantSide(graph, h, at)} : h \in guards}
<1>1. RangeEnds(graph, at) =
        [lower |-> UNION {x.lower : x \in bounds}, upper |-> UNION {x.upper : x \in bounds}]
  BY Zenon DEF RangeEnds
<1>2. ASSUME NEW x \in bounds
      PROVE  Admits(x, env.n)
  <2>1. PICK h \in guards : x \in {bound(h, side) : side \in DominantSide(graph, h, at)}
    <3> HIDE DEF guards, bound
    <3> QED OBVIOUS
  <2>2. PICK side \in DominantSide(graph, h, at) : x = bound(h, side)
    <3> HIDE DEF guards, bound
    <3> QED BY <2>1
  <2>3. /\ h \in Blocks /\ at \in Blocks \ {h} /\ Dominates(graph, h, at)
        /\ TerminatingIf(graph, h) /\ graph.cond[h].subj = "n"
    BY DEF StrictDominators
  <2>4. side \in BOOLEAN
    BY DEF DominantSide
  <2>5. graph.cond[h].op # "as" /\ Speaks(graph.cond[h], side)
    BY <2>3 DEF Sound, ControlFlow, Speaks
  <2>a. Cut(graph, h, SideOf(graph, h, side), at)
    BY <2>3, <2>5 DEF Sound, SidesAreEdges
  <2>6. side \in Outcomes(graph.cond[h], env)
    BY <2>3, <2>4, <2>a DEF ClaimInv, NDecided
  <2>7. /\ graph.cond[h].op \in Ops /\ graph.cond[h].lit \in Ints
        /\ graph.cond[h].flip \in BOOLEAN /\ env.n \in Ints
    BY <2>3 DEF Sound, ControlFlow, Ops, ClaimInv, FlowInv, FlowType, Environments
  <2> DEFINE c == graph.cond[h]
             e == env
  <2>8. /\ c.subj = "n" /\ c.op \in Ops /\ c.lit \in Ints /\ c.flip \in BOOLEAN
        /\ e.n \in Ints /\ side \in Outcomes(c, e)
    BY <2>3, <2>6, <2>7
  <2>9. Admits(GuardRangeBound(c, side), e.n)
    <3> HIDE DEF c, e
    <3> QED BY <2>4, <2>8, GuardAdmits
  <2> QED BY <2>2, <2>9
<1> HIDE DEF bounds
<1> QED BY <1>1, <1>2 DEF Admits

\* What the analyzer claims at a block is true of every execution that gets there,
\* for every graph whose dominating sides are edges: the verdict on a parameter
\* nobody assigns (cond_ssa.go:93), the safety of a field whose guards read it last
\* (nil_narrow.go:131) and the interval of n (cond_range_ssa.go:175).
THEOREM ClaimsAreTrue ==
  ASSUME \A g \in Graphs : Sound(g) /\ GuardsReadLast(g) /\ Unassigned(g)
  PROVE  Spec => []ClaimsHold
<1>1. ASSUME ClaimInv PROVE ClaimsHold
  <2> SUFFICES ASSUME Running
               PROVE  /\ \A r \in claims[at].verdict : (env.var = Nil) = (r = "nil")
                      /\ claims[at].fieldSafe => env.field # Nil
                      /\ Admits(claims[at].range, env.n)
    BY DEF ClaimsHold
  <2>0. /\ at \in Blocks /\ at # 0 /\ claims = ClaimsOf(graph) /\ Sound(graph)
    BY <1>1, Claimed DEF ClaimInv, FlowInv, Running
  <2>1. /\ claims[at].verdict = Asked(graph, "var", GuardVerdict(graph, at, "p"), {})
        /\ claims[at].fieldSafe = Asked(graph, "field", FieldNarrowed(graph, at), FALSE)
        /\ claims[at].range = Asked(graph, "n", Tightest(RangeEnds(graph, at)),
                                    [lower |-> {}, upper |-> {}])
    BY <2>0 DEF ClaimsOf
  <2>2. ASSUME NEW r \in claims[at].verdict
        PROVE  (env.var = Nil) = (r = "nil")
    <3>1. r \in GuardVerdict(graph, at, "p")
      BY <2>1 DEF Asked
    <3>2. PICK positive \in BOOLEAN : /\ Sure(graph, at, "p", positive, at)
                                      /\ r = "nil" <=> positive
      BY <2>0, <3>1, VerdictIsSure
    <3>3. (env.p = Nil) <=> positive
      BY <1>1, <2>0, <3>2 DEF ClaimInv, FlowInv, PSure
    <3>4. env.var = env.p
      BY <1>1, <2>0 DEF ClaimInv, VarIsP
    <3> QED BY <3>2, <3>3, <3>4
  <2>3. ASSUME claims[at].fieldSafe
        PROVE  env.field # Nil
    <3>1. FieldNarrowed(graph, at)
      BY <2>1, <2>3 DEF Asked
    <3>2. Sure(graph, at, "field", FALSE, at)
      BY <3>1 DEF FieldNarrowed, BlockProvesFact, Sure
    <3> QED BY <1>1, <2>0, <3>2, ReachesSelf DEF ClaimInv, FieldSure
  <2>4. Admits(claims[at].range, env.n)
    <3>1. CASE "n" \in graph.asks
      <4>1. Admits(RangeEnds(graph, at), env.n)
        BY <1>1, <2>0, RangeIsAdmitted
      <4>2. claims[at].range = Tightest(RangeEnds(graph, at))
        BY <2>1, <3>1 DEF Asked
      <4> QED BY <4>1, <4>2 DEF Tightest, Admits
    <3>2. CASE "n" \notin graph.asks
      BY <2>1, <3>2 DEF Asked, Admits
    <3> QED BY <3>1, <3>2
  <2> QED BY <2>2, <2>3, <2>4
<1>2. ClaimInv /\ [Next]_vars => ClaimInv'
  BY ClaimStep
<1>3. Init => ClaimInv
  BY FlowInit DEF ClaimInv, NDecided, FieldSure, VarIsP
<1> QED BY <1>1, <1>2, <1>3, PTL DEF Spec

=============================================================================
