---------------------------- MODULE DriverProofs ----------------------------
(***************************************************************************)
(* Proofs about internal/driver for every job graph.  First, the reader    *)
(* counters are exact and no unfinished job ever loses an input.  Then what*)
(* is delivered: jobs complete the way the abstract schedule allows, what  *)
(* they deliver is final, the facts they see are exactly the visible ones, *)
(* and nothing is kept longer than a reader needs it.                      *)
(***************************************************************************)
EXTENDS DriverProperties, FiniteSetTheorems, SequenceTheorems, TLAPS

Rank(j) == AnalyzerRank[AnalyzerOf(j)] + PackageRank[PackageOf(j)]

-----------------------------------------------------------------------------
(* The inductive invariant.                                                *)

\* Everything the walks hold is in the memo.
Reachable ==
    /\ \A i \in DOMAIN stack : stack[i] \in jobs
    /\ \A i \in DOMAIN roots : roots[i] \in jobs
    /\ \A j \in Job : \A i \in DOMAIN deps[j] : deps[j][i] \in jobs
    /\ \A j \in Job \ jobs : deps[j] = << >> /\ pos[j] = 1

\* The dependencies materialize(j) has visited so far.
VisitedSoFar(j) ==
    {Visited(j, i) : i \in {k \in 1 .. NumVisits(j) : k < pos[j] /\ HasEdge(j, k)}}

HeldDeps(j) == {deps[j][i] : i \in DOMAIN deps[j]}

\* A job has the edges its loops have visited, and has left the stack only
\* after all of them.
BuildInv ==
    phase = "build" =>
        /\ completed = {} /\ live = {} /\ syntax = Loaded
        /\ \A j \in Job : HeldDeps(j) = VisitedSoFar(j)
        /\ \A j \in jobs : pos[j] > NumVisits(j) \/ \E i \in DOMAIN stack : stack[i] = j

\* Execute calls nest along edges of the acyclic graph, so no job is on the
\* stack twice or after it completed.
ExecInv ==
    phase = "exec" =>
        /\ completed \subseteq jobs
        /\ \A i \in DOMAIN stack : stack[i] \notin completed
        /\ \A i, k \in DOMAIN stack : i < k => Rank(stack[k]) < Rank(stack[i])
        /\ \A j \in Unreleased : HeldDeps(j) = DepSet(j)

\* What may not be freed yet has not been.
KeepInv ==
    phase = "exec" =>
        /\ \A d \in completed :
              (err[d] = "none" /\ (consumers[d] > 0 \/ IsRoot(d))) => d \in live
        /\ \A p \in Loaded : remaining[p] > 0 => p \in syntax

IInv ==
    /\ TypeOK
    /\ Reachable
    /\ BuildInv
    /\ ExecInv
    /\ CountersExact
    /\ KeepInv

-----------------------------------------------------------------------------
(* The job graph.                                                          *)

\* A visited dependency is a job.
LEMMA VisitedType ==
    ASSUME NEW j \in Job
    PROVE  /\ NumVisits(j) \in Nat
           /\ \A i \in 1 .. NumVisits(j) : Visited(j, i) \in Job
BY ShapeAssumption DEF Job, AnalyzerOf, PackageOf, NumRequires, NumVisits, Visited

\* Dependencies are below their consumer in the acyclic orders of Requires
\* and Imports.
LEMMA VisitedRank ==
    ASSUME NEW j \in Job, NEW i \in 1 .. NumVisits(j)
    PROVE  Rank(j) \in Nat /\ Rank(Visited(j, i)) < Rank(j)
<1> DEFINE a == AnalyzerOf(j)
           p == PackageOf(j)
<1>1. a \in Analyzers /\ p \in Packages
  BY DEF Job, AnalyzerOf, PackageOf
<1>2. CASE i <= NumRequires(j)
  <2>1. i \in DOMAIN Requires[a] /\ Requires[a][i] \in Analyzers
    BY <1>1, <1>2, ShapeAssumption DEF NumRequires, NumVisits
  <2> QED BY <1>1, <1>2, <2>1, AcyclicAssumption
          DEF Rank, Visited, AnalyzerOf, PackageOf
<1>3. CASE ~(i <= NumRequires(j))
  <2> DEFINE k == i - NumRequires(j)
  <2>1. k \in DOMAIN Imports[p] /\ Imports[p][k] \in Packages
    BY <1>1, <1>3, ShapeAssumption DEF NumRequires, NumVisits
  <2> QED BY <1>1, <1>3, <2>1, AcyclicAssumption
          DEF Rank, Visited, AnalyzerOf, PackageOf
<1> QED BY <1>2, <1>3

\* Hence so are the members of DepSet.
LEMMA DepSetType ==
    ASSUME NEW j \in Job, NEW d \in DepSet(j)
    PROVE  d \in Job /\ Rank(d) \in Nat /\ Rank(j) \in Nat /\ Rank(d) < Rank(j)
<1>1. PICK i \in 1 .. NumVisits(j) : d = Visited(j, i)
  BY VisitedType DEF DepSet
<1>2. d \in Job
  BY <1>1, VisitedType
<1>3. Rank(d) \in Nat
  BY <1>2, AcyclicAssumption DEF Rank, Job, AnalyzerOf, PackageOf
<1> QED BY <1>1, <1>2, <1>3, VisitedRank

-----------------------------------------------------------------------------
(* Counting edges.                                                         *)

\* The graph is finite, hence so are the sets the counters count.
LEMMA FiniteGraph ==
    ASSUME deps \in [Job -> Seq(Job)]
    PROVE  /\ IsFiniteSet(Job)
           /\ IsFiniteSet(Edges)
           /\ \A d : IsFiniteSet(EdgesTo(d)) /\ Cardinality(EdgesTo(d)) \in Nat
           /\ \A j, d : /\ IsFiniteSet(EdgesBetween(j, d))
                        /\ Cardinality(EdgesBetween(j, d)) \in Nat
<1>1. IsFiniteSet(Job)
  BY ShapeAssumption, FS_Product DEF Job
<1>2. IsFiniteSet(Edges)
  <2> DEFINE E(j) == {j} \X DOMAIN deps[j]
             EE == {E(j) : j \in Job}
  <2>1. IsFiniteSet(EE)
    <3> DEFINE f == [j \in Job |-> E(j)]
    <3>1. f \in Surjection(Job, EE)
      BY DEF Surjection
    <3> QED BY <1>1, <3>1, FS_Surjection
  <2>2. \A j \in Job : IsFiniteSet(E(j))
    <3> SUFFICES ASSUME NEW j \in Job PROVE IsFiniteSet(E(j))
      OBVIOUS
    <3>1. DOMAIN deps[j] = 1 .. Len(deps[j]) /\ Len(deps[j]) \in Nat
      OBVIOUS
    <3>2. IsFiniteSet(DOMAIN deps[j])
      BY <3>1, FS_Interval
    <3> QED BY <3>2, FS_Singleton, FS_Product
  <2>3. \A S \in EE : IsFiniteSet(S)
    BY <2>2
  <2> QED BY <2>1, <2>3, FS_UNION DEF Edges
<1>3. \A d : EdgesTo(d) \in SUBSET Edges
  BY DEF EdgesTo
<1>4. \A j, d : EdgesBetween(j, d) \in SUBSET Edges
  BY DEF EdgesTo, EdgesBetween
<1> QED BY <1>1, <1>2, <1>3, <1>4, FS_Subset, FS_CardinalityType

\* The counted jobs of a package are finitely many.
LEMMA FiniteUnreleased ==
    ASSUME jobs \subseteq Job, NEW p
    PROVE  IsFiniteSet({j \in Unreleased : PackageOf(j) = p})
<1>1. IsFiniteSet(Job)
  BY ShapeAssumption, FS_Product DEF Job
<1>2. {j \in Unreleased : PackageOf(j) = p} \in SUBSET Job
  BY DEF Unreleased
<1> QED BY <1>1, <1>2, FS_Subset

-----------------------------------------------------------------------------
(* The walk of materialize.                                                *)

\* The call stack.
LEMMA StackTop ==
    ASSUME stack \in Seq(Job), stack # << >>
    PROVE  /\ Len(stack) \in Nat \ {0}
           /\ DOMAIN stack = 1 .. Len(stack)
           /\ Len(stack) \in DOMAIN stack
           /\ Top \in Job
           /\ \E i \in DOMAIN stack : stack[i] = Top
BY DEF Top

LEMMA StackPush ==
    ASSUME stack \in Seq(Job), NEW j \in Job, stack' = Append(stack, j)
    PROVE  /\ stack' \in Seq(Job)
           /\ Len(stack') = Len(stack) + 1
           /\ DOMAIN stack' = (DOMAIN stack) \cup {Len(stack) + 1}
           /\ stack'[Len(stack) + 1] = j
           /\ \A i \in DOMAIN stack : i < Len(stack) + 1 /\ stack'[i] = stack[i]
OBVIOUS

LEMMA StackPop ==
    ASSUME stack \in Seq(Job), stack # << >>, Pop
    PROVE  /\ stack' \in Seq(Job)
           /\ DOMAIN stack' = (DOMAIN stack) \ {Len(stack)}
           /\ \A i \in DOMAIN stack' : stack'[i] = stack[i]
BY DEF Pop

\* The initial state: an empty graph, no counts.
LEMMA InitIInv == Init => IInv
<1> SUFFICES ASSUME Init PROVE IInv
  OBVIOUS
<1>1. TypeOK
  BY RootAssumption, ShapeAssumption DEF Init, TypeOK, Outcomes
<1>2. Reachable
  BY DEF Init, Reachable
<1>3. BuildInv
  BY VisitedType DEF Init, BuildInv, HeldDeps, VisitedSoFar
<1>4. CountersExact
  <2>1. \A d : EdgesTo(d) = {}
    BY DEF Init, EdgesTo, Edges
  <2>2. Unreleased = {}
    BY DEF Init, Unreleased
  <2> QED BY <2>1, <2>2, FS_EmptySet DEF Init, CountersExact
<1>5. ExecInv /\ KeepInv
  BY DEF Init, ExecInv, KeepInv
<1> QED BY <1>1, <1>2, <1>3, <1>4, <1>5 DEF IInv

\* A memo miss counts the new job against its package exactly once.
LEMMA MaterializeIInv ==
    ASSUME IInv, phase = "build", NEW j \in Job, Materialize(j)
    PROVE  IInv'
<1> USE DEF IInv
<1>1. j \notin jobs /\ jobs' = jobs \cup {j} /\ stack' = Append(stack, j)
  BY DEF Materialize
<1>2. UNCHANGED <<phase, rp, ra, re, roots, pos, deps, consumers,
                  completed, order, err, live, exportOpen, syntax, facts, diags>>
  BY DEF Materialize, runVars
<1>3. PackageOf(j) \in Packages
  BY DEF Job, PackageOf
<1>4. TypeOK'
  BY <1>1, <1>2, <1>3 DEF TypeOK, Materialize
<1>5. /\ DOMAIN stack' = (DOMAIN stack) \cup {Len(stack) + 1}
      /\ stack'[Len(stack) + 1] = j
      /\ \A i \in DOMAIN stack : stack'[i] = stack[i]
  BY <1>1, StackPush DEF TypeOK
<1>6. Reachable'
  BY <1>1, <1>2, <1>5 DEF Reachable
<1>7. BuildInv'
  <2>1. \A k \in Job : HeldDeps(k)' = HeldDeps(k) /\ VisitedSoFar(k)' = VisitedSoFar(k)
    BY <1>2 DEF HeldDeps, VisitedSoFar
  <2> QED BY <1>1, <1>2, <1>5, <2>1 DEF BuildInv
<1>8. CountersExact'
  <2>1. \A d : EdgesTo(d)' = EdgesTo(d)
    BY <1>2 DEF EdgesTo, Edges
  <2>2. Unreleased' = Unreleased \cup {j}
    BY <1>1, <1>2 DEF Unreleased, BuildInv
  <2>3. ASSUME NEW p \in Packages
        PROVE  remaining'[p] = Cardinality({k \in Unreleased' : PackageOf(k) = p})
    <3> DEFINE U == {k \in Unreleased : PackageOf(k) = p}
    <3>1. IsFiniteSet(U) /\ remaining[p] = Cardinality(U)
      BY FiniteUnreleased DEF TypeOK, CountersExact
    <3>2. CASE p = PackageOf(j)
      <4>1. {k \in Unreleased' : PackageOf(k) = p} = U \cup {j} /\ j \notin U
        BY <1>1, <2>2, <3>2 DEF Unreleased
      <4>2. remaining'[p] = remaining[p] + 1
        BY <3>2, <1>3 DEF Materialize, TypeOK
      <4> QED BY <3>1, <4>1, <4>2, FS_AddElement
    <3>3. CASE p # PackageOf(j)
      <4>1. {k \in Unreleased' : PackageOf(k) = p} = U
        BY <2>2, <3>3
      <4>2. remaining'[p] = remaining[p]
        BY <3>3, <1>3 DEF Materialize, TypeOK
      <4> QED BY <3>1, <4>1, <4>2
    <3> QED BY <3>2, <3>3
  <2> QED BY <1>2, <2>1, <2>3 DEF CountersExact
<1>9. ExecInv' /\ KeepInv'
  BY <1>2 DEF ExecInv, KeepInv
<1> QED BY <1>4, <1>6, <1>7, <1>8, <1>9

\* A new edge is counted once, at its target.
LEMMA AddEdgeIInv ==
    ASSUME IInv, AddEdge
    PROVE  IInv'
<1> USE DEF IInv
<1> DEFINE j == Top
           d == NextDep(j)
           n == Len(deps[j]) + 1
<1>1. /\ j \in Job /\ j \in jobs /\ pos[j] \in 1 .. NumVisits(j)
      /\ d = Visited(j, pos[j]) /\ d \in Job /\ d \in jobs
      /\ deps[j] \in Seq(Job) /\ n \in Nat
  <2>1. j \in Job /\ j \in jobs
    BY StackTop DEF AddEdge, TypeOK, Reachable
  <2>2. pos[j] \in 1 .. NumVisits(j)
    BY <2>1, VisitedType DEF AddEdge, TypeOK
  <2>3. d = Visited(j, pos[j]) /\ d \in Job /\ d \in jobs
    BY <2>1, <2>2, VisitedType DEF AddEdge, NextDep
  <2>4. deps[j] \in Seq(Job)
    BY <2>1 DEF TypeOK
  <2> QED BY <2>1, <2>2, <2>3, <2>4
<1>2. /\ deps' = [deps EXCEPT ![j] = Append(deps[j], d)]
      /\ consumers' = [consumers EXCEPT ![d] = consumers[d] + 1]
      /\ pos' = [pos EXCEPT ![j] = pos[j] + 1]
      /\ HasEdge(j, pos[j])
      /\ phase = "build"
      /\ UNCHANGED <<phase, rp, ra, re, stack, jobs, roots, remaining,
                     completed, order, err, live, exportOpen, syntax, facts, diags>>
  BY DEF AddEdge, runVars
<1> HIDE DEF j, d
<1>3. /\ DOMAIN deps'[j] = (DOMAIN deps[j]) \cup {n} /\ n \notin DOMAIN deps[j]
      /\ deps'[j][n] = d
      /\ \A i \in DOMAIN deps[j] : deps'[j][i] = deps[j][i]
      /\ \A k \in Job : k # j => deps'[k] = deps[k]
  <2>1. deps'[j] = Append(deps[j], d) /\ \A k \in Job : k # j => deps'[k] = deps[k]
    BY <1>1, <1>2 DEF TypeOK
  <2>2. ASSUME NEW s \in Seq(Job)
        PROVE  /\ DOMAIN Append(s, d) = (DOMAIN s) \cup {Len(s) + 1}
               /\ Len(s) + 1 \notin DOMAIN s
               /\ Append(s, d)[Len(s) + 1] = d
               /\ \A i \in DOMAIN s : Append(s, d)[i] = s[i]
    BY <1>1
  <2> QED BY <1>1, <2>1, <2>2
<1>4. TypeOK'
  <2>1. deps' \in [Job -> Seq(Job)]
    BY <1>1, <1>2 DEF TypeOK
  <2>2. consumers' \in [Job -> Nat]
    BY <1>1, <1>2 DEF TypeOK
  <2>3. pos' \in [Job -> Nat \ {0}]
    BY <1>1, <1>2 DEF TypeOK
  <2> QED BY <1>2, <2>1, <2>2, <2>3 DEF TypeOK
<1>5. Reachable'
  <2>1. \A k \in Job : \A i \in DOMAIN deps'[k] : deps'[k][i] \in jobs
    BY <1>1, <1>3 DEF Reachable
  <2>2. \A k \in Job \ jobs : k # j /\ pos'[k] = pos[k] /\ deps'[k] = deps[k]
    BY <1>1, <1>2, <1>3 DEF TypeOK
  <2> QED BY <1>2, <2>1, <2>2 DEF Reachable
<1>6. BuildInv'
  <2>1. \A k \in Job : HeldDeps(k)' = VisitedSoFar(k)'
    <3> SUFFICES ASSUME NEW k \in Job PROVE HeldDeps(k)' = VisitedSoFar(k)'
      OBVIOUS
    <3>1. HeldDeps(k) = VisitedSoFar(k)
      BY <1>2 DEF BuildInv
    <3>2. CASE k = j
      <4>1. HeldDeps(k)' = HeldDeps(k) \cup {d}
        BY <1>3, <3>2 DEF HeldDeps
      <4>2. pos'[j] = pos[j] + 1 /\ NumVisits(j) \in Nat
        BY <1>1, <1>2, VisitedType DEF TypeOK
      <4>3. {i \in 1 .. NumVisits(j) : i < pos'[j] /\ HasEdge(j, i)}
              = {i \in 1 .. NumVisits(j) : i < pos[j] /\ HasEdge(j, i)} \cup {pos[j]}
        BY <1>1, <1>2, <4>2
      <4>4. VisitedSoFar(k)' = VisitedSoFar(k) \cup {d}
        BY <1>1, <3>2, <4>3 DEF VisitedSoFar
      <4> QED BY <3>1, <4>1, <4>4
    <3>3. CASE k # j
      <4>1. pos'[k] = pos[k] /\ deps'[k] = deps[k]
        BY <1>2, <1>3, <3>3 DEF TypeOK
      <4> QED BY <3>1, <4>1 DEF HeldDeps, VisitedSoFar
    <3> QED BY <3>2, <3>3
  <2>2. \A k \in jobs : pos'[k] > NumVisits(k) \/ \E i \in DOMAIN stack : stack[i] = k
    <3>1. \E i \in DOMAIN stack : stack[i] = j
      BY DEF AddEdge, Top, TypeOK, j
    <3> QED BY <1>1, <1>2, <3>1 DEF BuildInv, TypeOK
  <2> QED BY <1>2, <2>1, <2>2 DEF BuildInv
<1>7. CountersExact'
  <2>1. Edges' = Edges \cup {<<j, n>>} /\ <<j, n>> \notin Edges
    BY <1>1, <1>3 DEF Edges
  <2>2. \A e \in Edges : deps'[e[1]][e[2]] = deps[e[1]][e[2]]
    BY <1>3 DEF Edges
  <2>3. ASSUME NEW t \in Job
        PROVE  consumers'[t] = Cardinality(EdgesTo(t)')
    <3>1. IsFiniteSet(EdgesTo(t)) /\ consumers[t] = Cardinality(EdgesTo(t))
      BY <1>2, FiniteGraph DEF TypeOK, CountersExact
    <3>2. CASE t = d
      <4>1. EdgesTo(t)' = EdgesTo(t) \cup {<<j, n>>} /\ <<j, n>> \notin EdgesTo(t)
        BY <1>3, <2>1, <2>2, <3>2 DEF EdgesTo
      <4>2. consumers'[t] = consumers[t] + 1
        BY <1>1, <1>2, <3>2 DEF TypeOK
      <4>3. Cardinality(EdgesTo(t)') = Cardinality(EdgesTo(t)) + 1
        BY <3>1, <4>1, FS_AddElement
      <4> QED BY <3>1, <4>2, <4>3
    <3>3. CASE t # d
      <4>1. EdgesTo(t)' = EdgesTo(t)
        BY <1>3, <2>1, <2>2, <3>3 DEF EdgesTo
      <4> QED BY <1>1, <1>2, <3>1, <3>3, <4>1 DEF TypeOK
    <3> QED BY <3>2, <3>3
  <2>4. Unreleased' = Unreleased
    BY <1>2 DEF Unreleased
  <2> QED BY <1>2, <2>3, <2>4 DEF CountersExact
<1>8. ExecInv' /\ KeepInv'
  BY <1>2 DEF ExecInv, KeepInv
<1> QED BY <1>4, <1>5, <1>6, <1>7, <1>8

\* The steps of the walk that add neither a job nor an edge.
LEMMA WalkIInv ==
    ASSUME IInv, SkipImport \/ ReturnJob \/ AddRoot
    PROVE  IInv'
<1> USE DEF IInv
<1>1. /\ phase = "build"
      /\ UNCHANGED <<phase, re, jobs, deps, consumers, remaining,
                     completed, order, err, live, exportOpen, syntax, facts, diags>>
  BY DEF SkipImport, ReturnJob, AddRoot, graphVars, runVars
<1>2. CountersExact'
  BY <1>1 DEF CountersExact, EdgesTo, Edges, Unreleased
<1>3. ExecInv' /\ KeepInv'
  BY <1>1 DEF ExecInv, KeepInv
<1>4. CASE SkipImport
  <2> DEFINE j == Top
  <2>1. j \in Job /\ j \in jobs /\ \E i \in DOMAIN stack : stack[i] = j
    BY <1>4, StackTop DEF SkipImport, TypeOK, Reachable
  <2>2. /\ pos' = [pos EXCEPT ![j] = pos[j] + 1]
        /\ ~HasEdge(j, pos[j])
        /\ UNCHANGED <<rp, ra, stack, roots>>
    BY <1>4 DEF SkipImport
  <2> HIDE DEF j
  <2>3. TypeOK'
    <3>1. pos' \in [Job -> Nat \ {0}]
      BY <2>1, <2>2 DEF TypeOK
    <3> QED BY <1>1, <2>2, <3>1 DEF TypeOK
  <2>4. Reachable'
    <3>1. \A k \in Job \ jobs : pos'[k] = pos[k]
      BY <2>1, <2>2 DEF TypeOK
    <3> QED BY <1>1, <2>2, <3>1 DEF Reachable
  <2>5. \A k \in Job : VisitedSoFar(k)' = VisitedSoFar(k)
    <3> SUFFICES ASSUME NEW k \in Job PROVE VisitedSoFar(k)' = VisitedSoFar(k)
      OBVIOUS
    <3>1. pos'[k] = pos[k] \/ (k = j /\ pos'[k] = pos[k] + 1 /\ pos[k] \in Nat)
      BY <2>1, <2>2 DEF TypeOK
    <3>2. {i \in 1 .. NumVisits(k) : i < pos'[k] /\ HasEdge(k, i)}
            = {i \in 1 .. NumVisits(k) : i < pos[k] /\ HasEdge(k, i)}
      BY <2>2, <3>1, VisitedType
    <3> QED BY <3>2 DEF VisitedSoFar
  <2>6. \A k \in Job : HeldDeps(k)' = HeldDeps(k)
    BY <1>1 DEF HeldDeps
  <2>7. \A k \in jobs : pos'[k] > NumVisits(k) \/ \E i \in DOMAIN stack : stack[i] = k
    BY <1>1, <2>1, <2>2 DEF BuildInv, TypeOK
  <2>8. BuildInv'
    BY <1>1, <2>2, <2>5, <2>6, <2>7 DEF BuildInv
  <2> QED BY <1>2, <1>3, <2>3, <2>4, <2>8
<1>5. CASE ReturnJob
  <2>1. stack # << >> /\ Pop /\ pos[Top] > NumVisits(Top) /\ UNCHANGED <<rp, ra, roots, pos>>
    BY <1>5 DEF ReturnJob, graphVars
  <2>2. /\ stack' \in Seq(Job)
        /\ DOMAIN stack' = (DOMAIN stack) \ {Len(stack)}
        /\ \A i \in DOMAIN stack' : stack'[i] = stack[i]
    BY <2>1, StackPop DEF TypeOK
  <2>3. TypeOK'
    BY <1>1, <2>1, <2>2 DEF TypeOK
  <2>4. Reachable'
    BY <1>1, <2>1, <2>2 DEF Reachable
  <2>5. \A k \in Job : HeldDeps(k)' = HeldDeps(k) /\ VisitedSoFar(k)' = VisitedSoFar(k)
    BY <1>1, <2>1 DEF HeldDeps, VisitedSoFar
  <2>6. BuildInv'
    BY <1>1, <2>1, <2>2, <2>5 DEF BuildInv, Top
  <2> QED BY <1>2, <1>3, <2>3, <2>4, <2>6
<1>6. CASE AddRoot
  <2>1. /\ roots' = Append(roots, NextRoot) /\ NextRoot \in jobs
        /\ UNCHANGED <<stack, pos>>
        /\ rp' \in Nat \ {0} /\ ra' \in 1 .. Len(RootAnalyzers)
    BY <1>6, RootAssumption DEF AddRoot, TypeOK
  <2>2. TypeOK'
    BY <1>1, <2>1 DEF TypeOK
  <2>3. \A i \in DOMAIN roots' : roots'[i] \in jobs
    <3>1. roots \in Seq(Job) /\ NextRoot \in Job
      BY <2>1 DEF TypeOK
    <3>2. /\ DOMAIN Append(roots, NextRoot) = (DOMAIN roots) \cup {Len(roots) + 1}
          /\ Append(roots, NextRoot)[Len(roots) + 1] = NextRoot
          /\ \A i \in DOMAIN roots : Append(roots, NextRoot)[i] = roots[i]
      BY <3>1
    <3> QED BY <2>1, <3>2 DEF Reachable
  <2>4. Reachable'
    BY <1>1, <2>1, <2>3 DEF Reachable
  <2>5. BuildInv'
    <3>1. \A k \in Job : HeldDeps(k)' = HeldDeps(k) /\ VisitedSoFar(k)' = VisitedSoFar(k)
      BY <1>1, <2>1 DEF HeldDeps, VisitedSoFar
    <3> QED BY <1>1, <2>1, <3>1 DEF BuildInv
  <2> QED BY <1>2, <1>3, <2>2, <2>4, <2>5
<1> QED BY <1>4, <1>5, <1>6

\* A dependency or root that materialize asks for is a job.
LEMMA VisitIInv ==
    ASSUME IInv, VisitRoot \/ VisitDep
    PROVE  IInv'
<1> USE DEF IInv
<1>1. CASE VisitRoot
  <2>1. NextRoot \in Job
    BY <1>1, RootAssumption DEF VisitRoot, NextRoot, Job, TypeOK
  <2> QED BY <1>1, <2>1, MaterializeIInv DEF VisitRoot
<1>2. CASE VisitDep
  <2>1. Top \in Job
    BY <1>2, StackTop DEF VisitDep, TypeOK
  <2>2. NextDep(Top) \in Job
    BY <1>2, <2>1, VisitedType DEF VisitDep, NextDep, TypeOK
  <2> QED BY <1>2, <2>2, MaterializeIInv DEF VisitDep
<1> QED BY <1>1, <1>2

\* When buildGraph returns, every job in the memo has all its edges.
LEMMA FinishBuildIInv ==
    ASSUME IInv, FinishBuild
    PROVE  IInv'
<1> USE DEF IInv
<1>1. /\ phase = "build" /\ phase' = "exec" /\ stack = << >>
      /\ UNCHANGED <<rp, ra, re, stack, jobs, roots, pos, deps, consumers, remaining,
                     completed, order, err, live, exportOpen, syntax, facts, diags>>
  BY DEF FinishBuild, graphVars, runVars
<1>2. TypeOK' /\ Reachable'
  BY <1>1 DEF TypeOK, Reachable
<1>3. CountersExact'
  BY <1>1 DEF CountersExact, EdgesTo, Edges, Unreleased
<1>4. ExecInv'
  <2>1. ASSUME NEW j \in jobs
        PROVE  HeldDeps(j) = DepSet(j)
    <3>1. j \in Job /\ pos[j] \in Nat /\ pos[j] > NumVisits(j)
      BY <1>1 DEF TypeOK, BuildInv
    <3>2. {k \in 1 .. NumVisits(j) : k < pos[j] /\ HasEdge(j, k)}
            = {k \in 1 .. NumVisits(j) : HasEdge(j, k)}
      BY <3>1, VisitedType
    <3> QED BY <1>1, <3>1, <3>2 DEF BuildInv, VisitedSoFar, DepSet
  <2>2. \A j : HeldDeps(j)' = HeldDeps(j)
    BY <1>1 DEF HeldDeps
  <2> QED BY <1>1, <2>1, <2>2 DEF ExecInv, Unreleased, BuildInv
<1>5. KeepInv' /\ BuildInv'
  BY <1>1 DEF KeepInv, BuildInv
<1> QED BY <1>2, <1>3, <1>4, <1>5

-----------------------------------------------------------------------------
(* The walk of execute.                                                    *)

\* A call is made for an uncompleted job below every job on the stack.
LEMMA CallIInv ==
    ASSUME IInv, ExecuteRoot \/ ExecuteDep
    PROVE  IInv'
<1> USE DEF IInv
<1>1. /\ phase = "exec"
      /\ UNCHANGED <<phase, rp, ra, jobs, roots, pos, deps, consumers, remaining,
                     completed, order, err, live, exportOpen, syntax, facts, diags>>
  BY DEF ExecuteRoot, ExecuteDep, graphVars, runVars
<1>2. re' \in Nat \ {0}
  <2>1. re \in Nat \ {0} /\ (re' = re + 1 \/ re' = re)
    BY DEF ExecuteRoot, ExecuteDep, TypeOK
  <2> QED BY <2>1
<1>3. CountersExact'
  BY <1>1 DEF CountersExact, EdgesTo, Edges, Unreleased
<1>4. KeepInv' /\ BuildInv'
  BY <1>1 DEF KeepInv, BuildInv, IsRoot
<1>5. \A j \in Unreleased' : HeldDeps(j)' = DepSet(j)
  <2>1. Unreleased' = Unreleased /\ \A j : HeldDeps(j)' = HeldDeps(j)
    BY <1>1 DEF Unreleased, HeldDeps
  <2> QED BY <1>1, <2>1 DEF ExecInv
<1>6. CASE ExecuteRoot
  <2>1. re \in DOMAIN roots
    BY <1>6 DEF ExecuteRoot, TypeOK
  <2>2. roots[re] \in jobs /\ roots[re] \in Job
    BY <2>1 DEF Reachable, TypeOK
  <2>3. stack' = << >> \/ (stack' = <<roots[re]>> /\ roots[re] \notin completed)
    BY <1>6 DEF ExecuteRoot
  <2>4. stack' \in Seq(Job) /\ \A i \in DOMAIN stack' : i = 1 /\ stack'[i] = roots[re]
    <3>1. CASE stack' = << >>
      BY <3>1
    <3>2. CASE stack' = <<roots[re]>>
      BY <2>2, <3>2
    <3> QED BY <2>3, <3>1, <3>2
  <2>5. TypeOK' /\ Reachable'
    BY <1>1, <1>2, <2>2, <2>4 DEF TypeOK, Reachable
  <2>6. ExecInv'
    BY <1>1, <1>5, <2>3, <2>4 DEF ExecInv
  <2> QED BY <1>3, <1>4, <2>5, <2>6
<1>7. CASE ExecuteDep
  <2>1. /\ stack # << >> /\ stack \in Seq(Job) /\ Top \in Job
        /\ Len(stack) \in DOMAIN stack /\ Top = stack[Len(stack)]
    BY <1>7, StackTop DEF ExecuteDep, TypeOK, Top
  <2>2. PICK d : /\ d \in HeldDeps(Top) /\ d \in jobs /\ d \notin completed
                 /\ stack' = Append(stack, d)
    BY <1>7, <2>1 DEF ExecuteDep, HeldDeps, Reachable
  <2>3. d \in Job
    BY <2>2 DEF TypeOK
  <2>4. Rank(d) \in Nat /\ Rank(Top) \in Nat /\ Rank(d) < Rank(Top)
    <3>1. Top \in Unreleased
      BY <1>1, <2>1 DEF ExecInv, Reachable, Unreleased
    <3>2. d \in DepSet(Top)
      BY <1>1, <2>2, <3>1 DEF ExecInv
    <3> QED BY <2>1, <3>2, DepSetType
  <2>5. /\ stack' \in Seq(Job)
        /\ DOMAIN stack' = (DOMAIN stack) \cup {Len(stack) + 1}
        /\ stack'[Len(stack) + 1] = d
        /\ \A i \in DOMAIN stack : i < Len(stack) + 1 /\ stack'[i] = stack[i]
    BY <2>1, <2>2, <2>3, StackPush
  <2>6. TypeOK' /\ Reachable'
    BY <1>1, <1>2, <2>2, <2>5 DEF TypeOK, Reachable
  <2>7. \A i \in DOMAIN stack : Rank(stack[i]) \in Nat /\ Rank(d) < Rank(stack[i])
    <3> SUFFICES ASSUME NEW i \in DOMAIN stack
                 PROVE  Rank(stack[i]) \in Nat /\ Rank(d) < Rank(stack[i])
      OBVIOUS
    <3>1. stack[i] \in Job /\ i \in Nat /\ i <= Len(stack)
      BY <2>1
    <3>2. Rank(stack[i]) \in Nat
      BY <3>1, AcyclicAssumption DEF Rank, Job, AnalyzerOf, PackageOf
    <3>3. i = Len(stack) \/ Rank(Top) < Rank(stack[i])
      BY <1>1, <2>1, <3>1 DEF ExecInv
    <3> QED BY <2>1, <2>4, <3>2, <3>3
  <2>8. \A i, k \in DOMAIN stack' : i < k => Rank(stack'[k]) < Rank(stack'[i])
    <3> SUFFICES ASSUME NEW i \in DOMAIN stack', NEW k \in DOMAIN stack', i < k
                 PROVE  Rank(stack'[k]) < Rank(stack'[i])
      OBVIOUS
    <3>1. i \in DOMAIN stack
      BY <2>1, <2>5
    <3>2. CASE k \in DOMAIN stack
      BY <1>1, <2>5, <3>1, <3>2 DEF ExecInv
    <3>3. CASE k = Len(stack) + 1
      BY <2>5, <2>7, <3>1, <3>3
    <3> QED BY <2>5, <3>2, <3>3
  <2>9. ExecInv'
    BY <1>1, <1>5, <2>2, <2>5, <2>8 DEF ExecInv
  <2> QED BY <1>3, <1>4, <2>6, <2>9
<1> QED BY <1>6, <1>7

\* When the job on top completes, the rest of the stack stays uncompleted.
LEMMA PopUncompleted ==
    ASSUME IInv, phase = "exec", stack # << >>, Pop
    PROVE  /\ Top \in Job /\ Top \in jobs /\ Top \notin completed
           /\ stack' \in Seq(Job)
           /\ \A i \in DOMAIN stack' : i \in DOMAIN stack /\ stack'[i] = stack[i]
           /\ \A i \in DOMAIN stack' : stack'[i] \notin completed \cup {Top}
           /\ \A i, k \in DOMAIN stack' : i < k => Rank(stack'[k]) < Rank(stack'[i])
<1> USE DEF IInv
<1>1. /\ Top \in Job /\ Top = stack[Len(stack)] /\ Len(stack) \in DOMAIN stack
      /\ DOMAIN stack = 1 .. Len(stack) /\ Len(stack) \in Nat
  BY StackTop DEF TypeOK, Top
<1>2. Top \in jobs /\ Top \notin completed
  BY <1>1 DEF Reachable, ExecInv
<1>3. /\ stack' \in Seq(Job)
      /\ DOMAIN stack' = (DOMAIN stack) \ {Len(stack)}
      /\ \A i \in DOMAIN stack' : stack'[i] = stack[i]
  BY StackPop DEF TypeOK
<1>4. ASSUME NEW i \in DOMAIN stack'
      PROVE  stack'[i] \notin completed \cup {Top}
  <2>1. i \in DOMAIN stack /\ i < Len(stack) /\ stack'[i] = stack[i] /\ stack[i] \in Job
    BY <1>1, <1>3 DEF TypeOK
  <2>2. Rank(Top) < Rank(stack[i]) /\ Rank(Top) \in Nat
    BY <1>1, <2>1, AcyclicAssumption DEF ExecInv, Rank, Job, AnalyzerOf, PackageOf
  <2>3. Top # stack[i]
    BY <2>2
  <2> QED BY <2>1, <2>3 DEF ExecInv
<1> QED BY <1>1, <1>2, <1>3, <1>4 DEF ExecInv

\* The early exit releases nothing: the job stays counted.
LEMMA DepFailedIInv ==
    ASSUME IInv, DepFailed
    PROVE  IInv'
<1> USE DEF IInv
<1> DEFINE j == Top
<1>1. /\ phase = "exec" /\ stack # << >> /\ Pop
      /\ err' = [err EXCEPT ![j] = "dep"]
      /\ completed' = completed \cup {j}
      /\ order' = Append(order, j)
      /\ UNCHANGED <<phase, rp, ra, re, jobs, roots, pos, deps, consumers, remaining,
                     live, exportOpen, syntax, facts, diags>>
  BY DEF DepFailed, graphVars
<1>2. /\ j \in Job /\ j \in jobs /\ j \notin completed
      /\ stack' \in Seq(Job)
      /\ \A i \in DOMAIN stack' : i \in DOMAIN stack /\ stack'[i] = stack[i]
      /\ \A i \in DOMAIN stack' : stack'[i] \notin completed \cup {j}
      /\ \A i, k \in DOMAIN stack' : i < k => Rank(stack'[k]) < Rank(stack'[i])
  BY <1>1, PopUncompleted
<1> HIDE DEF j
<1>3. TypeOK'
  <2>1. err' \in [Job -> Outcomes]
    BY <1>1, <1>2 DEF TypeOK, Outcomes
  <2>2. order' \in Seq(Job) /\ completed' \subseteq Job
    BY <1>1, <1>2 DEF TypeOK
  <2> QED BY <1>1, <1>2, <2>1, <2>2 DEF TypeOK
<1>4. Reachable'
  BY <1>1, <1>2 DEF Reachable
<1>5. Unreleased' = Unreleased
  BY <1>1, <1>2 DEF Unreleased, TypeOK
<1>6. CountersExact'
  BY <1>1, <1>5 DEF CountersExact, EdgesTo, Edges
<1>7. ExecInv'
  <2>1. \A k : HeldDeps(k)' = HeldDeps(k)
    BY <1>1 DEF HeldDeps
  <2> QED BY <1>1, <1>2, <1>5, <2>1 DEF ExecInv
<1>8. KeepInv' /\ BuildInv'
  <2>1. \A d \in completed' : err'[d] = "none" => d \in completed /\ err[d] = "none"
    BY <1>1, <1>2 DEF TypeOK
  <2> QED BY <1>1, <2>1 DEF KeepInv, BuildInv, IsRoot
<1> QED BY <1>3, <1>4, <1>6, <1>7, <1>8

\* A completed run gives back exactly the edges and the job it was counted
\* for, and frees only what nobody is counted for any more.
LEMMA CompleteIInv ==
    ASSUME IInv, phase = "exec", stack # << >>,
           NEW outcome \in Outcomes \ {"dep"}, Complete(outcome),
           facts' \in [Job -> SUBSET Objects], exportOpen' \subseteq Job
    PROVE  IInv'
<1> USE DEF IInv
<1> DEFINE j == Top
           q == PackageOf(j)
<1>1. /\ err' = [err EXCEPT ![j] = outcome]
      /\ completed' = completed \cup {j}
      /\ order' = Append(order, j)
      /\ live' = (live \cup (IF outcome = "none" THEN {j} ELSE {})) \ Freed(j)
      /\ UNCHANGED <<phase, rp, ra, re, diags>>
      /\ Pop
  BY DEF Complete
<1>2. /\ consumers' = ConsumersAfter(j)
      /\ deps' = [deps EXCEPT ![j] = << >>]
      /\ remaining' = [remaining EXCEPT ![q] = remaining[q] - 1]
      /\ syntax' = IF remaining[q] = 1 THEN syntax \ {q} ELSE syntax
      /\ UNCHANGED <<jobs, roots, pos>>
  BY DEF Complete, Release
<1>3. /\ j \in Job /\ j \in jobs /\ j \notin completed
      /\ stack' \in Seq(Job)
      /\ \A i \in DOMAIN stack' : i \in DOMAIN stack /\ stack'[i] = stack[i]
      /\ \A i \in DOMAIN stack' : stack'[i] \notin completed \cup {j}
      /\ \A i, k \in DOMAIN stack' : i < k => Rank(stack'[k]) < Rank(stack'[i])
  BY <1>1, PopUncompleted
<1> HIDE DEF j
<1>4. q \in Packages
  BY <1>3 DEF Job, PackageOf
<1>5. deps' \in [Job -> Seq(Job)] /\ deps'[j] = << >> /\ \A k \in Job : k # j => deps'[k] = deps[k]
  BY <1>2, <1>3 DEF TypeOK
<1>6. /\ \A d \in Job : consumers[d] = Cardinality(EdgesTo(d))
      /\ \A p \in Packages : remaining[p] = Cardinality({k \in Unreleased : PackageOf(k) = p})
  BY DEF CountersExact
<1>7. ASSUME NEW d \in Job
      PROVE  /\ consumers'[d] = Cardinality(EdgesTo(d)')
             /\ consumers'[d] \in Nat
             /\ consumers'[d] = consumers[d] - Cardinality(EdgesBetween(j, d))
  <2>1. EdgesTo(d)' = EdgesTo(d) \ EdgesBetween(j, d)
    BY <1>3, <1>5 DEF EdgesTo, EdgesBetween, Edges
  <2>2. IsFiniteSet(EdgesTo(d)) /\ IsFiniteSet(EdgesBetween(j, d))
    BY FiniteGraph DEF TypeOK
  <2>3. EdgesTo(d) \cap EdgesBetween(j, d) = EdgesBetween(j, d)
    BY DEF EdgesBetween
  <2>4. /\ Cardinality(EdgesTo(d)') = Cardinality(EdgesTo(d)) - Cardinality(EdgesBetween(j, d))
        /\ Cardinality(EdgesTo(d)') \in Nat
    BY <2>1, <2>2, <2>3, FS_Difference, FS_CardinalityType
  <2>5. consumers'[d] = consumers[d] - Cardinality(EdgesBetween(j, d))
    BY <1>2 DEF ConsumersAfter
  <2> QED BY <1>6, <2>4, <2>5
<1>8. Unreleased' = Unreleased \ {j} /\ j \in Unreleased
  BY <1>1, <1>2, <1>3 DEF Unreleased, TypeOK
<1>9. ASSUME NEW p \in Packages
      PROVE  /\ remaining'[p] = Cardinality({k \in Unreleased' : PackageOf(k) = p})
             /\ remaining'[p] \in Nat
             /\ remaining'[p] = IF p = q THEN remaining[p] - 1 ELSE remaining[p]
  <2> DEFINE U == {k \in Unreleased : PackageOf(k) = p}
  <2>1. IsFiniteSet(U) /\ remaining[p] = Cardinality(U) /\ remaining[p] \in Nat
    BY <1>6, FiniteUnreleased DEF TypeOK
  <2>2. remaining'[p] = IF p = q THEN remaining[p] - 1 ELSE remaining[p]
    BY <1>2, <1>4 DEF TypeOK
  <2>3. CASE p = q
    <3>1. {k \in Unreleased' : PackageOf(k) = p} = U \ {j} /\ j \in U
      BY <1>8, <2>3
    <3>2. Cardinality(U \ {j}) = Cardinality(U) - 1 /\ Cardinality(U \ {j}) \in Nat
      BY <2>1, <3>1, FS_RemoveElement, FS_CardinalityType
    <3> QED BY <2>1, <2>2, <2>3, <3>1, <3>2
  <2>4. CASE p # q
    <3>1. {k \in Unreleased' : PackageOf(k) = p} = U
      BY <1>8, <2>4
    <3> QED BY <2>1, <2>2, <2>4, <3>1
  <2> QED BY <2>3, <2>4
<1>10. CountersExact'
  BY <1>7, <1>9 DEF CountersExact
<1>11. TypeOK'
  <2>1. err' \in [Job -> Outcomes]
    BY <1>1, <1>3 DEF TypeOK
  <2>4. consumers' \in [Job -> Nat]
    BY <1>2, <1>7 DEF ConsumersAfter
  <2>5. remaining' \in [Packages -> Nat]
    <3>1. DOMAIN remaining' = Packages /\ remaining' = [p \in Packages |-> remaining'[p]]
      BY <1>2 DEF TypeOK
    <3> QED BY <1>9, <3>1
  <2>6. live' \subseteq Job /\ syntax' \subseteq Packages /\ completed' \subseteq Job
    BY <1>1, <1>2, <1>3 DEF TypeOK
  <2>7. order' \in Seq(Job)
    BY <1>1, <1>3 DEF TypeOK
  <2> QED BY <1>1, <1>2, <1>3, <1>5, <2>1, <2>4, <2>5, <2>6, <2>7 DEF TypeOK
<1>12. Reachable'
  BY <1>2, <1>3, <1>5 DEF Reachable
<1>13. ExecInv'
  <2>1. \A k \in Unreleased' : HeldDeps(k)' = DepSet(k)
    <3> SUFFICES ASSUME NEW k \in Unreleased' PROVE HeldDeps(k)' = DepSet(k)
      OBVIOUS
    <3>1. k \in Unreleased /\ k # j /\ k \in Job
      BY <1>8 DEF Unreleased, TypeOK
    <3> QED BY <1>5, <3>1 DEF ExecInv, HeldDeps
  <2> QED BY <1>1, <1>2, <1>3, <2>1 DEF ExecInv
<1>14. KeepInv'
  <2>1. ASSUME NEW d \in completed', err'[d] = "none",
               consumers'[d] > 0 \/ IsRoot(d)'
        PROVE  d \in live'
    <3>1. d \in Job
      BY <1>11 DEF TypeOK
    <3>2. d \notin Freed(j)
      BY <1>2, <1>7, <2>1, <3>1 DEF Freed, ConsumersAfter, IsRoot
    <3>3. CASE d = j
      BY <1>1, <1>3, <2>1, <3>2, <3>3 DEF TypeOK
    <3>4. CASE d # j
      <4>1. d \in completed /\ err[d] = "none"
        BY <1>1, <1>3, <2>1, <3>4 DEF TypeOK
      <4>2. consumers[d] > 0 \/ IsRoot(d)
        <5>1. consumers'[d] <= consumers[d] /\ consumers[d] \in Nat /\ consumers'[d] \in Nat
          <6>1. Cardinality(EdgesBetween(j, d)) \in Nat
            BY FiniteGraph DEF TypeOK
          <6> QED BY <1>7, <3>1, <6>1 DEF TypeOK
        <5> QED BY <1>2, <2>1, <5>1 DEF IsRoot
      <4> QED BY <1>1, <3>2, <4>1, <4>2 DEF KeepInv
    <3> QED BY <3>3, <3>4
  <2>2. ASSUME NEW p \in Loaded, remaining'[p] > 0
        PROVE  p \in syntax'
    <3>1. p \in Packages
      BY ShapeAssumption
    <3>2. /\ remaining[p] \in Nat /\ remaining'[p] \in Nat
          /\ remaining'[p] = IF p = q THEN remaining[p] - 1 ELSE remaining[p]
      BY <1>9, <3>1 DEF TypeOK
    <3>3. remaining[p] > 0 /\ (p = q => remaining[q] # 1)
      BY <2>2, <3>2
    <3> QED BY <1>2, <3>3 DEF KeepInv
  <2> QED BY <2>1, <2>2 DEF KeepInv
<1>15. BuildInv'
  BY <1>1 DEF BuildInv
<1> QED BY <1>10, <1>11, <1>12, <1>13, <1>14, <1>15

\* What a Run does to the pass of j before it returns.
CalledByRun(j) ==
    \/ \E o \in Objects : Export(j, o)
    \/ LateExport(j)
    \/ \E f \in Findings : Report(j, f)

\* Inheriting puts objects into the table.
LEMMA InheritType ==
    ASSUME IInv, stack # << >>, InheritFacts
    PROVE  facts' \in [Job -> SUBSET Objects]
<1>1. Top \in Job
  BY StackTop DEF IInv, TypeOK
<1>2. Inherited(Top) \subseteq Objects
  BY <1>1 DEF Inherited, IInv, TypeOK
<1> QED BY <1>1, <1>2 DEF InheritFacts, IInv, TypeOK

\* While a Run is in progress only the tables and the flag change.
LEMMA RunIInv ==
    ASSUME IInv, StartRun \/ \E j \in jobs : CalledByRun(j)
    PROVE  IInv'
<1> USE DEF IInv
<1>1. /\ phase = "exec" /\ stack # << >> /\ phase' \in {"exec", "panic"}
      /\ UNCHANGED <<rp, ra, re, stack, jobs, roots, pos, deps, consumers, remaining,
                     completed, order, err, live, syntax>>
  BY DEF StartRun, CalledByRun, CallsPass, Export, LateExport, Report, graphVars, runVars
<1>2. facts' \in [Job -> SUBSET Objects]
  <2>1. CASE StartRun
    BY <2>1, InheritType DEF StartRun
  <2>2. ASSUME NEW j \in jobs, NEW o \in Objects, Export(j, o)
        PROVE  facts' \in [Job -> SUBSET Objects]
    BY <2>2 DEF Export, TypeOK
  <2>3. CASE UNCHANGED facts
    BY <2>3 DEF TypeOK
  <2> QED BY <2>1, <2>2, <2>3 DEF CalledByRun, LateExport, Report, runVars
<1>3. diags' \in [Job -> SUBSET Findings]
  <2>1. ASSUME NEW j \in jobs, NEW f \in Findings, Report(j, f)
        PROVE  diags' \in [Job -> SUBSET Findings]
    BY <2>1 DEF Report, TypeOK
  <2>2. CASE UNCHANGED diags
    BY <2>2 DEF TypeOK
  <2> QED BY <2>1, <2>2 DEF StartRun, CalledByRun, Export, LateExport, runVars
<1>4. exportOpen' \subseteq Job
  <2>1. Top \in Job
    BY <1>1, StackTop DEF TypeOK
  <2> QED BY <2>1 DEF StartRun, CalledByRun, Export, LateExport, Report, runVars, TypeOK
<1>5. TypeOK'
  BY <1>1, <1>2, <1>3, <1>4 DEF TypeOK
<1>6. Unreleased' = Unreleased /\ \A j : HeldDeps(j)' = HeldDeps(j) /\ IsRoot(j)' = IsRoot(j)
  BY <1>1 DEF Unreleased, HeldDeps, IsRoot
<1>7. Reachable' /\ BuildInv'
  BY <1>1 DEF Reachable, BuildInv
<1>8. CountersExact'
  BY <1>1, <1>6 DEF CountersExact, EdgesTo, Edges
<1>9. ExecInv'
  BY <1>1, <1>6 DEF ExecInv
<1>10. KeepInv'
  BY <1>1, <1>6 DEF KeepInv
<1> QED BY <1>5, <1>7, <1>8, <1>9, <1>10

\* After the run-wide release only the types are left to hold.
LEMMA ReleaseAllIInv ==
    ASSUME IInv, ReleaseAll
    PROVE  IInv'
<1> USE DEF IInv
<1>1. /\ phase' = "done"
      /\ live' \subseteq live /\ syntax' \subseteq syntax
      /\ deps' = [j \in Job |-> << >>]
      /\ UNCHANGED <<rp, ra, re, stack, jobs, roots, pos, consumers, remaining,
                     completed, order, err, exportOpen, facts, diags>>
      /\ phase = "exec"
  BY DEF ReleaseAll
<1>2. TypeOK'
  BY <1>1 DEF TypeOK
<1>3. Reachable'
  BY <1>1 DEF Reachable
<1> QED BY <1>1, <1>2, <1>3 DEF BuildInv, ExecInv, CountersExact, KeepInv

-----------------------------------------------------------------------------
(* The theorems.                                                           *)

\* IInv is inductive.
LEMMA NextIInv == IInv /\ [Next]_vars => IInv'
<1> SUFFICES ASSUME IInv, [Next]_vars PROVE IInv'
  OBVIOUS
<1>1. CASE VisitRoot \/ VisitDep
  BY <1>1, VisitIInv
<1>2. CASE AddRoot \/ SkipImport \/ ReturnJob
  BY <1>2, WalkIInv
<1>3. CASE AddEdge
  BY <1>3, AddEdgeIInv
<1>4. CASE FinishBuild
  BY <1>4, FinishBuildIInv
<1>5. CASE ExecuteRoot \/ ExecuteDep
  BY <1>5, CallIInv
<1>6. CASE DepFailed
  BY <1>6, DepFailedIInv
<1>7. CASE SkipIllTyped
  <2>1. facts' \in [Job -> SUBSET Objects]
    BY <1>7, InheritType DEF SkipIllTyped
  <2>2. exportOpen' \subseteq Job
    BY <1>7 DEF SkipIllTyped, IInv, TypeOK
  <2> QED BY <1>7, <2>1, <2>2, CompleteIInv DEF SkipIllTyped, Outcomes
<1>8. CASE ReturnRun
  <2>1. PICK outcome \in RunOutcomes(Top) : Complete(outcome)
    BY <1>8 DEF ReturnRun
  <2>2. outcome \in Outcomes \ {"dep"}
    BY DEF RunOutcomes, Outcomes
  <2>3. facts' \in [Job -> SUBSET Objects] /\ exportOpen' \subseteq Job
    BY <1>8 DEF ReturnRun, IInv, TypeOK
  <2> QED BY <1>8, <2>1, <2>2, <2>3, CompleteIInv DEF ReturnRun
<1>9. CASE ReleaseAll
  BY <1>9, ReleaseAllIInv
<1>11. CASE StartRun \/ \E j \in jobs : CalledByRun(j)
  BY <1>11, RunIInv
<1>10. CASE UNCHANGED vars
  <2>1. UNCHANGED <<phase, rp, ra, re, stack, jobs, roots, pos, deps, consumers, remaining,
                    completed, order, err, live, exportOpen, syntax, facts, diags>>
    BY <1>10 DEF vars, graphVars, runVars
  <2>2. TypeOK' /\ Reachable' /\ CountersExact'
    BY <2>1 DEF IInv, TypeOK, Reachable, CountersExact, EdgesTo, Edges, Unreleased
  <2>3. /\ Unreleased' = Unreleased
        /\ \A j : /\ HeldDeps(j)' = HeldDeps(j)
                  /\ VisitedSoFar(j)' = VisitedSoFar(j)
                  /\ IsRoot(j)' = IsRoot(j)
    BY <2>1 DEF HeldDeps, VisitedSoFar, Unreleased, IsRoot
  <2>4. BuildInv'
    BY <2>1, <2>3 DEF IInv, BuildInv
  <2>5. ExecInv'
    BY <2>1, <2>3 DEF IInv, ExecInv
  <2>6. KeepInv'
    BY <2>1, <2>3 DEF IInv, KeepInv
  <2> QED BY <2>2, <2>4, <2>5, <2>6 DEF IInv
<1> QED BY <1>1, <1>2, <1>3, <1>4, <1>5, <1>6, <1>7, <1>8, <1>9, <1>10, <1>11
        DEF Next, Returned, CalledByRun

\* The invariant implies that no unfinished job has lost an input.
LEMMA IInvInputsLive == IInv => InputsLive
<1> USE DEF IInv
<1> SUFFICES ASSUME IInv, phase = "exec", NEW j \in jobs \ completed
             PROVE  /\ {deps[j][i] : i \in DOMAIN deps[j]} = DepSet(j)
                    /\ PackageOf(j) \in Loaded => PackageOf(j) \in syntax
                    /\ \A d \in DepSet(j) :
                          /\ d \in jobs
                          /\ (/\ d \in completed /\ err[d] = "none"
                              /\ PackageOf(d) = PackageOf(j)) => d \in live
  BY DEF InputsLive
<1>1. j \in Job /\ j \in Unreleased
  BY DEF TypeOK, Unreleased
<1>2. HeldDeps(j) = DepSet(j)
  BY <1>1 DEF ExecInv
<1>3. ASSUME PackageOf(j) \in Loaded PROVE PackageOf(j) \in syntax
  <2> DEFINE p == PackageOf(j)
             U == {k \in Unreleased : PackageOf(k) = p}
  <2>1. p \in Packages /\ j \in U
    BY <1>1 DEF Job, PackageOf
  <2>2. IsFiniteSet(U) /\ remaining[p] = Cardinality(U) /\ remaining[p] \in Nat
    BY <2>1, FiniteUnreleased DEF TypeOK, CountersExact
  <2>3. remaining[p] > 0
    BY <2>1, <2>2, FS_EmptySet
  <2> QED BY <1>3, <2>3 DEF KeepInv
<1>4. ASSUME NEW d \in DepSet(j)
      PROVE  d \in jobs /\ (d \in completed /\ err[d] = "none" => d \in live)
  <2>1. PICK i \in DOMAIN deps[j] : deps[j][i] = d
    BY <1>2 DEF HeldDeps
  <2>2. d \in jobs /\ d \in Job
    BY <1>1, <2>1 DEF Reachable, TypeOK
  <2>3. <<j, i>> \in EdgesTo(d)
    BY <1>1, <2>1 DEF EdgesTo, Edges
  <2>4. IsFiniteSet(EdgesTo(d)) /\ consumers[d] = Cardinality(EdgesTo(d)) /\ consumers[d] \in Nat
    BY <2>2, FiniteGraph DEF TypeOK, CountersExact
  <2>5. consumers[d] > 0
    BY <2>3, <2>4, FS_EmptySet
  <2> QED BY <2>2, <2>5 DEF KeepInv
<1> QED BY <1>2, <1>3, <1>4 DEF HeldDeps

\* Every reachable state is type-correct; in particular neither counter of
\* release ever goes below zero.
THEOREM TypeCorrect == Spec => []TypeOK
<1>1. IInv => TypeOK
  BY DEF IInv
<1> QED BY <1>1, InitIInv, NextIInv, PTL DEF Spec

\* Job.consumers and pkgState.remaining count their readers exactly, in every
\* job graph.
THEOREM CountersAreExact == Spec => []CountersExact
<1>1. IInv => CountersExact
  BY DEF IInv
<1> QED BY <1>1, InitIInv, NextIInv, PTL DEF Spec

\* Release never frees an input an unfinished job will read, in every job
\* graph.
THEOREM InputsStayLive == Spec => []InputsLive
BY IInvInputsLive, InitIInv, NextIInv, PTL DEF Spec

-----------------------------------------------------------------------------
(* The jobs the roots need.                                                *)

\* There is a least set of jobs that holds the roots and is closed under
\* dependencies, so Needed is one of those sets.
LEMMA NeededClosed ==
    Needed \subseteq Job /\ RootJobs \subseteq Needed
    /\ \A j \in Needed : DepSet(j) \subseteq Needed
<1> DEFINE L == {j \in Job : \A S \in Closed : j \in S}
<1>1. RootJobs \subseteq Job
  BY RootAssumption DEF RootJobs, Job
<1>2. RootJobs \subseteq L
  BY <1>1 DEF Closed
<1>3. ASSUME NEW j \in L, NEW d \in DepSet(j) PROVE d \in L
  <2>1. d \in Job
    BY DepSetType
  <2> QED BY <2>1 DEF Closed
<1>4. L \in Closed
  BY <1>2, <1>3 DEF Closed
<1>5. \A T \in Closed : L \subseteq T
  OBVIOUS
<1>6. Needed \in Closed
  BY <1>4, <1>5 DEF Needed
<1> QED BY <1>6 DEF Closed

-----------------------------------------------------------------------------
(* The steps that complete a job.                                          *)

\* Execute(j) returns with the given outcome: after all dependencies, and with
\* the outcome "dep" exactly when one of them failed.
Finishes(j) ==
    /\ phase = "exec" /\ phase' = "exec"
    /\ j \in jobs /\ j \notin completed
    /\ HeldDeps(j) = DepSet(j) /\ DepSet(j) \subseteq completed
    /\ completed' = completed \cup {j}
    /\ order' = Append(order, j)
    /\ \E outcome \in Outcomes :
          /\ err' = [err EXCEPT ![j] = outcome]
          /\ outcome = "dep" <=> \E d \in DepSet(j) : err[d] # "none"
          /\ outcome # "dep" => \E exported \in SUBSET Exportable(j) :
                                   facts'[j] = Inherited(j) \cup exported
    /\ facts' = [facts EXCEPT ![j] = facts'[j]]
    /\ diags' = [diags EXCEPT ![j] = diags'[j]]
    /\ UNCHANGED <<jobs, roots>>

\* The tables of an unfinished job may grow, and Report reaches a pass that was
\* left behind.
Idle ==
    /\ UNCHANGED <<completed, order, err>>
    /\ \A j \in completed :
          /\ facts'[j] = facts[j]
          /\ j \notin Leaky => diags'[j] = diags[j]
    /\ phase = "exec" => UNCHANGED <<jobs, roots>>

\* A completed job's dependencies are the ones it holds.
LEMMA TopHoldsDeps ==
    ASSUME IInv, phase = "exec", stack # << >>, DepsCompleted(Top)
    PROVE  /\ Top \in jobs /\ Top \in Job /\ Top \notin completed
           /\ HeldDeps(Top) = DepSet(Top) /\ DepSet(Top) \subseteq completed
           /\ FailedDeps(Top) # {} <=> \E d \in DepSet(Top) : err[d] # "none"
<1> USE DEF IInv
<1>1. Top \in Job /\ \E i \in DOMAIN stack : stack[i] = Top
  BY StackTop DEF TypeOK
<1>2. Top \in jobs /\ Top \notin completed
  BY <1>1 DEF Reachable, ExecInv
<1>3. HeldDeps(Top) = DepSet(Top)
  BY <1>2 DEF ExecInv, Unreleased
<1>4. DepSet(Top) \subseteq completed
  BY <1>3 DEF DepsCompleted, HeldDeps
<1>5. FailedDeps(Top) # {} <=> \E d \in DepSet(Top) : err[d] # "none"
  BY <1>3 DEF FailedDeps, HeldDeps
<1> QED BY <1>1, <1>2, <1>3, <1>4, <1>5

\* The one Run in progress is that of the job on top: it was entered with the
\* facts of the imports and has added exports of its own; no other unfinished
\* job has a fact.
OpenInv ==
    /\ phase = "build" => exportOpen = {}
    /\ phase = "exec" =>
          \A j \in exportOpen :
             /\ stack # << >> /\ j = Top
             /\ Runnable(j) /\ ~Skips(j)
             /\ \E exported \in SUBSET Exportable(j) : facts[j] = Inherited(j) \cup exported
    /\ \A j \in Job \ (completed \cup exportOpen) : facts[j] = {}

LEMMA InitOpenInv == Init => OpenInv
BY DEF Init, OpenInv

\* A job inherits from other packages only, so its own table does not matter.
LEMMA InheritedUnchanged ==
    ASSUME NEW j \in Job, facts \in [Job -> SUBSET Objects], UNCHANGED deps,
           \A k \in Job : k # j => facts'[k] = facts[k],
           deps \in [Job -> Seq(Job)]
    PROVE  Inherited(j)' = Inherited(j)
<1>1. ASSUME NEW i \in DOMAIN deps[j], PackageOf(deps[j][i]) # PackageOf(j)
      PROVE  facts'[deps[j][i]] = facts[deps[j][i]]
  <2>1. deps[j][i] \in Job
    OBVIOUS
  <2> QED BY <1>1, <2>1
<1>2. \A o : o \in Inherited(j)' <=> o \in Inherited(j)
  <2>1. \A o : o \in Inherited(j) <=>
           \E i \in DOMAIN deps[j] :
              /\ PackageOf(deps[j][i]) # PackageOf(j) /\ AnalyzerOf(deps[j][i]) = AnalyzerOf(j)
              /\ o \in facts[deps[j][i]] /\ Visible(o, PackageOf(deps[j][i]))
    BY DEF Inherited
  <2>2. \A o : o \in Inherited(j)' <=>
           \E i \in DOMAIN deps[j] :
              /\ PackageOf(deps[j][i]) # PackageOf(j) /\ AnalyzerOf(deps[j][i]) = AnalyzerOf(j)
              /\ o \in facts'[deps[j][i]] /\ Visible(o, PackageOf(deps[j][i]))
    BY DEF Inherited
  <2> QED BY <1>1, <2>1, <2>2
<1> QED BY <1>2

\* A Run is entered once the dependencies are good, exports into its own table,
\* and is over when its job completes.
LEMMA NextOpenInv ==
    ASSUME IInv, OpenInv, [Next]_vars
    PROVE  OpenInv'
<1> USE DEF IInv
<1>1. CASE phase' = "build"
  <2>1. phase = "build" /\ UNCHANGED <<completed, exportOpen, facts>>
    BY <1>1 DEF Next, VisitRoot, VisitDep, Materialize, AddRoot, AddEdge, SkipImport,
         ReturnJob, FinishBuild, ExecuteRoot, ExecuteDep, DepFailed, SkipIllTyped,
         StartRun, ReturnRun, Complete, CallsPass, Export, LateExport, Report,
         ReleaseAll, Returned, vars, graphVars, runVars
  <2> QED BY <1>1, <2>1 DEF OpenInv
<1>2. CASE FinishBuild
  BY <1>2 DEF FinishBuild, OpenInv, graphVars, runVars
<1>3. CASE ExecuteRoot
  <2>1. /\ phase = "exec" /\ stack = << >>
        /\ UNCHANGED <<phase, completed, exportOpen, facts>>
    BY <1>3 DEF ExecuteRoot, graphVars, runVars
  <2> QED BY <2>1 DEF OpenInv
<1>4. CASE ExecuteDep
  <2>1. /\ phase = "exec" /\ stack # << >> /\ ~DepsCompleted(Top)
        /\ UNCHANGED <<phase, completed, exportOpen, facts>>
    BY <1>4 DEF ExecuteDep, DepsCompleted, graphVars, runVars
  <2> QED BY <2>1 DEF OpenInv, Runnable
<1>5. CASE DepFailed
  <2>1. /\ phase = "exec" /\ FailedDeps(Top) # {} /\ completed' = completed \cup {Top}
        /\ UNCHANGED <<phase, exportOpen, facts>>
    BY <1>5 DEF DepFailed
  <2> QED BY <2>1 DEF OpenInv, Runnable
<1>6. CASE SkipIllTyped
  <2>1. /\ phase = "exec" /\ Skips(Top) /\ completed' = completed \cup {Top}
        /\ UNCHANGED <<phase, exportOpen>>
    BY <1>6 DEF SkipIllTyped, Complete
  <2>2. exportOpen = {}
    BY <2>1 DEF OpenInv
  <2>3. \A k \in Job : k # Top => facts'[k] = facts[k]
    BY <1>6 DEF SkipIllTyped, InheritFacts, TypeOK
  <2> QED BY <2>1, <2>2, <2>3 DEF OpenInv
<1>7. CASE StartRun
  <2>0. PICK j : j = Top
    OBVIOUS
  <2>1. /\ phase = "exec" /\ stack # << >> /\ ~Skips(j) /\ Runnable(j) /\ j \notin exportOpen
        /\ facts' = [facts EXCEPT ![j] = facts[j] \cup Inherited(j)]
        /\ exportOpen' = exportOpen \cup {j}
        /\ UNCHANGED <<phase, stack, deps, completed, err>>
    BY <1>7, <2>0 DEF StartRun, InheritFacts, graphVars
  <2>2. j \in Job /\ j \notin completed
    BY <2>0, <2>1, StackTop, TopHoldsDeps DEF Runnable
  <2>3. exportOpen = {} /\ facts[j] = {}
    BY <2>0, <2>1, <2>2 DEF OpenInv
  <2>4. /\ facts'[j] = Inherited(j) /\ \A k \in Job : k # j => facts'[k] = facts[k]
    BY <2>1, <2>2, <2>3 DEF TypeOK
  <2>5. Inherited(j)' = Inherited(j)
    BY <2>1, <2>2, <2>4, InheritedUnchanged DEF TypeOK
  <2>6. Runnable(j)' /\ ~Skips(j)'
    BY <2>1 DEF Runnable, Skips, DepsCompleted, FailedDeps
  <2>7. \E exported \in SUBSET Exportable(j) : facts'[j] = Inherited(j)' \cup exported
    <3>1. {} \in SUBSET Exportable(j) /\ facts'[j] = Inherited(j)' \cup {}
      BY <2>4, <2>5
    <3> QED BY <3>1
  <2>8. exportOpen' = {j} /\ phase' = "exec" /\ stack' # << >> /\ j = Top'
    BY <2>0, <2>1, <2>3 DEF Top
  <2> QED BY <2>1, <2>4, <2>6, <2>7, <2>8 DEF OpenInv
<1>8. CASE ReturnRun
  <2>1. PICK outcome : Complete(outcome)
    BY <1>8 DEF ReturnRun
  <2>2. /\ phase = "exec" /\ Top \in exportOpen /\ completed' = completed \cup {Top}
        /\ exportOpen' = exportOpen \ {Top} /\ UNCHANGED <<phase, facts>>
    BY <1>8, <2>1 DEF ReturnRun, Complete
  <2>3. exportOpen' = {}
    BY <2>2 DEF OpenInv
  <2> QED BY <2>2, <2>3 DEF OpenInv
<1>9. ASSUME NEW j \in jobs, NEW o \in Objects, Export(j, o)
      PROVE  OpenInv'
  <2>1. /\ phase = "exec" /\ j \in exportOpen /\ o \in Exportable(j)
        /\ facts' = [facts EXCEPT ![j] = facts[j] \cup {o}]
        /\ UNCHANGED <<phase, stack, deps, completed, err, exportOpen>>
    BY <1>9 DEF Export, CallsPass, graphVars
  <2>2. j \in Job /\ j = Top /\ j = Top' /\ stack # << >>
    BY <2>1 DEF OpenInv, TypeOK, Top
  <2>3. PICK exported \in SUBSET Exportable(j) : facts[j] = Inherited(j) \cup exported
    BY <2>1 DEF OpenInv
  <2>4. /\ facts'[j] = facts[j] \cup {o} /\ \A k \in Job : k # j => facts'[k] = facts[k]
    BY <2>1, <2>2 DEF TypeOK
  <2>5. Inherited(j)' = Inherited(j)
    BY <2>1, <2>2, <2>4, InheritedUnchanged DEF TypeOK
  <2>6. Runnable(j)' /\ ~Skips(j)'
    BY <2>1 DEF OpenInv, Runnable, Skips, DepsCompleted, FailedDeps
  <2>7. facts'[j] = Inherited(j)' \cup (exported \cup {o})
    BY <2>3, <2>4, <2>5
  <2>8. \E e \in SUBSET Exportable(j) : facts'[j] = Inherited(j)' \cup e
    BY <2>1, <2>7
  <2>9. \A k \in exportOpen' : k = j
    BY <2>1, <2>2 DEF OpenInv
  <2> QED BY <2>1, <2>2, <2>4, <2>6, <2>8, <2>9 DEF OpenInv
<1>10. ASSUME NEW j \in jobs, LateExport(j)
       PROVE  OpenInv'
  BY <1>10 DEF LateExport, OpenInv, runVars
<1>11. ASSUME phase # "build", phase' = phase \/ phase' = "done",
              phase = "exec" => UNCHANGED stack,
              UNCHANGED <<deps, completed, err, exportOpen, facts>> \/
                 (phase' = "done" /\ UNCHANGED <<completed, exportOpen, facts>>)
       PROVE  OpenInv'
  <2>1. \A j : Skips(j)' = Skips(j)
    BY DEF Skips
  <2>2. CASE phase' = "exec"
    <3>1. UNCHANGED <<phase, stack, deps, completed, err, exportOpen, facts>>
      BY <1>11, <2>2
    <3>2. Top' = Top /\ \A j : Runnable(j)' = Runnable(j) /\ Inherited(j)' = Inherited(j)
      BY <3>1 DEF Top, Runnable, DepsCompleted, FailedDeps, Inherited
    <3> QED BY <2>1, <3>1, <3>2 DEF OpenInv
  <2>3. CASE phase' # "exec"
    BY <1>11, <2>3 DEF OpenInv
  <2> QED BY <2>2, <2>3
<1>12. CASE ReleaseAll
  BY <1>12, <1>11 DEF ReleaseAll
<1>13. ASSUME NEW j \in jobs, NEW f \in Findings, Report(j, f)
       PROVE  OpenInv'
  BY <1>13, <1>11 DEF Report, CallsPass, graphVars
<1>14. CASE UNCHANGED vars
  BY <1>1, <1>14, <1>11 DEF vars, graphVars, runVars
<1>15. CASE VisitRoot \/ VisitDep \/ AddRoot \/ SkipImport \/ ReturnJob \/ AddEdge
  <2>1. phase' = "build"
    BY <1>15 DEF VisitRoot, VisitDep, Materialize, AddRoot, SkipImport, ReturnJob, AddEdge
  <2> QED BY <1>1, <2>1
<1> QED BY <1>2, <1>3, <1>4, <1>5, <1>6, <1>7, <1>8, <1>9, <1>10, <1>12, <1>13, <1>14, <1>15
        DEF Next, Returned

\* Every step completes one job that is ready, or leaves what has been
\* delivered alone.
LEMMA StepKinds ==
    ASSUME IInv, OpenInv, [Next]_vars
    PROVE  Finishes(Top) \/ Idle
<1>0. ASSUME UNCHANGED <<completed, order, err, facts, diags>>,
             phase = "exec" => UNCHANGED <<jobs, roots>>
      PROVE  Idle
  BY <1>0 DEF Idle
<1>1. CASE VisitRoot \/ VisitDep
  BY <1>1, <1>0 DEF VisitRoot, VisitDep, Materialize, runVars
<1>2. CASE AddRoot \/ SkipImport \/ ReturnJob \/ AddEdge
  BY <1>2, <1>0 DEF AddRoot, SkipImport, ReturnJob, AddEdge, runVars
<1>3. CASE FinishBuild
  BY <1>3, <1>0 DEF FinishBuild, runVars
<1>4. CASE ExecuteRoot \/ ExecuteDep
  BY <1>4, <1>0 DEF ExecuteRoot, ExecuteDep, graphVars, runVars
<1>5. CASE ReleaseAll
  BY <1>5, <1>0 DEF ReleaseAll
<1>6. CASE UNCHANGED vars
  BY <1>6, <1>0 DEF vars, graphVars, runVars
<1>7. CASE DepFailed
  <2>1. /\ phase = "exec" /\ stack # << >> /\ DepsCompleted(Top) /\ FailedDeps(Top) # {}
        /\ phase' = phase /\ completed' = completed \cup {Top} /\ order' = Append(order, Top)
        /\ err' = [err EXCEPT ![Top] = "dep"]
        /\ UNCHANGED <<jobs, roots, facts, diags>>
    BY <1>7 DEF DepFailed, graphVars
  <2>2. facts' = [facts EXCEPT ![Top] = facts'[Top]] /\ diags' = [diags EXCEPT ![Top] = diags'[Top]]
    BY <2>1 DEF IInv, TypeOK
  <2> QED BY <2>1, <2>2, TopHoldsDeps DEF Finishes, Outcomes
<1>8. ASSUME phase = "exec", stack # << >>, NEW outcome \in Outcomes \ {"dep"},
             Complete(outcome), Runnable(Top),
             \A k \in Job : k # Top => facts'[k] = facts[k],
             facts' \in [Job -> SUBSET Objects],
             \E exported \in SUBSET Exportable(Top) : facts'[Top] = Inherited(Top) \cup exported
      PROVE  Finishes(Top)
  <2>1. /\ DepsCompleted(Top) /\ FailedDeps(Top) = {}
        /\ phase' = phase /\ completed' = completed \cup {Top} /\ order' = Append(order, Top)
        /\ err' = [err EXCEPT ![Top] = outcome]
        /\ UNCHANGED <<jobs, roots, diags>>
    BY <1>8 DEF Complete, Release, Runnable
  <2>2. Top \in Job
    BY <1>8, <2>1, TopHoldsDeps
  <2>3. /\ facts' = [facts EXCEPT ![Top] = facts'[Top]]
        /\ diags' = [diags EXCEPT ![Top] = diags'[Top]]
    BY <1>8, <2>1, <2>2 DEF IInv, TypeOK
  <2> QED BY <1>8, <2>1, <2>3, TopHoldsDeps DEF Finishes
<1>9. CASE SkipIllTyped
  <2>1. /\ phase = "exec" /\ stack # << >> /\ Runnable(Top) /\ Skips(Top)
        /\ Complete("illtyped") /\ InheritFacts
    BY <1>9 DEF SkipIllTyped
  <2>2. Top \in Job /\ Top \notin completed
    BY <2>1, TopHoldsDeps DEF Runnable
  <2>3. facts[Top] = {}
    BY <2>1, <2>2 DEF OpenInv
  <2>4. /\ facts'[Top] = Inherited(Top) \cup {} /\ \A k \in Job : k # Top => facts'[k] = facts[k]
    BY <2>1, <2>2, <2>3 DEF InheritFacts, IInv, TypeOK
  <2>5. facts' \in [Job -> SUBSET Objects]
    BY <2>1, InheritType
  <2> QED BY <1>8, <2>1, <2>4, <2>5 DEF Outcomes
<1>10. CASE ReturnRun
  <2>1. PICK outcome \in RunOutcomes(Top) : Complete(outcome)
    BY <1>10 DEF ReturnRun
  <2>2. outcome \in Outcomes \ {"dep"}
    BY DEF RunOutcomes, Outcomes
  <2>3. /\ phase = "exec" /\ stack # << >> /\ Top \in exportOpen /\ UNCHANGED facts
    BY <1>10 DEF ReturnRun
  <2>4. /\ Runnable(Top)
        /\ \E exported \in SUBSET Exportable(Top) : facts'[Top] = Inherited(Top) \cup exported
    BY <2>3 DEF OpenInv
  <2>5. facts' \in [Job -> SUBSET Objects] /\ \A k \in Job : k # Top => facts'[k] = facts[k]
    BY <2>3 DEF IInv, TypeOK
  <2> QED BY <1>8, <2>1, <2>2, <2>3, <2>4, <2>5
<1>11. CASE StartRun
  <2>1. /\ phase = "exec" /\ stack # << >> /\ Runnable(Top) /\ InheritFacts
        /\ UNCHANGED <<jobs, roots, completed, order, err, diags>>
    BY <1>11 DEF StartRun, graphVars
  <2>2. Top \in Job /\ Top \notin completed
    BY <2>1, TopHoldsDeps DEF Runnable
  <2>3. \A k \in completed : facts'[k] = facts[k]
    BY <2>1, <2>2 DEF InheritFacts, IInv, TypeOK
  <2> QED BY <2>1, <2>3 DEF Idle
<1>12. ASSUME NEW j \in jobs, NEW o \in Objects, Export(j, o)
       PROVE  Idle
  <2>1. /\ phase = "exec" /\ j \in exportOpen
        /\ facts' = [facts EXCEPT ![j] = facts[j] \cup {o}]
        /\ UNCHANGED <<jobs, roots, completed, order, err, diags>>
    BY <1>12 DEF Export, CallsPass, graphVars
  <2>2. j \in Job /\ j \notin completed
    BY <2>1, TopHoldsDeps DEF OpenInv, Runnable
  <2>3. \A k \in completed : facts'[k] = facts[k]
    BY <2>1, <2>2 DEF IInv, TypeOK
  <2> QED BY <2>1, <2>3 DEF Idle
<1>13. ASSUME NEW j \in jobs, LateExport(j)
       PROVE  Idle
  BY <1>13, <1>0 DEF LateExport, graphVars, runVars
<1>14. ASSUME NEW j \in jobs, NEW f \in Findings, Report(j, f)
       PROVE  Idle
  <2>1. /\ phase = "exec" /\ ((j = Top /\ Top \in exportOpen) \/ j \in Leaky)
        /\ diags' = [diags EXCEPT ![j] = diags[j] \cup {f}]
        /\ UNCHANGED <<jobs, roots, completed, order, err, facts>>
    BY <1>14 DEF Report, CallsPass, graphVars
  <2>2. j \in completed => j \in Leaky
    BY <2>1, TopHoldsDeps DEF OpenInv, Runnable
  <2>3. \A k \in completed : k \notin Leaky => diags'[k] = diags[k]
    BY <2>1, <2>2 DEF IInv, TypeOK
  <2> QED BY <2>1, <2>3 DEF Idle
<1> QED BY <1>1, <1>2, <1>3, <1>4, <1>5, <1>6, <1>7, <1>9, <1>10, <1>11, <1>12, <1>13, <1>14
        DEF Next, Returned

\* The recorded error and the facts of a completed job never change, whatever
\* later Runs do with its pass, nor do its diagnostics unless it left its pass
\* where they call it, in every job graph.
THEOREM DeliveredIsFinal == Spec => DeliveredStaysFinal
<1> DEFINE Final == \A j \in completed :
                       /\ facts'[j] = facts[j] /\ err'[j] = err[j]
                       /\ j \notin Leaky => diags'[j] = diags[j]
<1>1. ASSUME IInv, OpenInv, [Next]_vars PROVE Final
  <2>1. CASE Idle
    BY <2>1 DEF Idle
  <2>2. CASE Finishes(Top)
    <3>1. completed \subseteq Job
      BY <1>1 DEF IInv, TypeOK
    <3> QED BY <1>1, <2>2, <3>1 DEF Finishes, IInv, TypeOK
  <2> QED BY <1>1, <2>1, <2>2, StepKinds
<1>2. IInv /\ OpenInv /\ [Next]_vars => [Final]_vars
  BY <1>1
<1> HIDE DEF Final
<1>3. IInv /\ OpenInv /\ [Next]_vars => OpenInv'
  BY NextOpenInv
<1>4. Spec => [][Final]_vars
  BY <1>2, <1>3, InitIInv, NextIInv, InitOpenInv, PTL DEF Spec
<1> QED BY <1>4 DEF DeliveredStaysFinal, Final

-----------------------------------------------------------------------------
(* Driver implements JobSchedule.                                          *)

\* What the memo and the completion order say about each other: the memo has
\* only needed jobs, the order lists the completed ones, behind their
\* dependencies, and an uncompleted job has recorded nothing.
OrderInv ==
    /\ jobs \subseteq Needed
    /\ completed \subseteq jobs
    /\ completed = {order[i] : i \in DOMAIN order}
    /\ \A j \in completed : DepSet(j) \subseteq completed
    /\ \A j \in Job \ completed : err[j] = "none"

\* materialize is asked for roots and for dependencies of jobs in the memo.
LEMMA MemoIsNeeded ==
    ASSUME IInv, jobs \subseteq Needed, [Next]_vars
    PROVE  jobs \subseteq jobs' /\ jobs' \subseteq Needed
<1>1. CASE VisitRoot
  <2>1. NextRoot \in RootJobs
    BY <1>1, RootAssumption DEF VisitRoot, NextRoot, RootJobs, IInv, TypeOK
  <2> QED BY <1>1, <2>1, NeededClosed DEF VisitRoot, Materialize
<1>2. CASE VisitDep
  <2>1. Top \in Job /\ Top \in jobs
    BY <1>2, StackTop DEF VisitDep, IInv, TypeOK, Reachable
  <2>2. pos[Top] \in 1 .. NumVisits(Top)
    BY <1>2, <2>1, VisitedType DEF VisitDep, IInv, TypeOK
  <2>3. NextDep(Top) \in DepSet(Top)
    BY <1>2, <2>2 DEF VisitDep, NextDep, DepSet
  <2> QED BY <1>2, <2>1, <2>3, NeededClosed DEF VisitDep, Materialize
<1>3. CASE UNCHANGED jobs
  BY <1>3
<1>4. \A outcome : Complete(outcome) => UNCHANGED jobs
  BY DEF Complete, Release
<1>5. VisitRoot \/ VisitDep \/ UNCHANGED jobs
  BY <1>4 DEF Next, AddRoot, AddEdge, SkipImport, ReturnJob, FinishBuild, ExecuteRoot, ExecuteDep,
       DepFailed, SkipIllTyped, StartRun, Export, LateExport, Report, ReturnRun, ReleaseAll,
       Returned, vars, graphVars
<1> QED BY <1>1, <1>2, <1>3, <1>5

\* A sequence grows by what is appended.
LEMMA AppendRange ==
    ASSUME NEW S, NEW s \in Seq(S), NEW e \in S
    PROVE  {Append(s, e)[i] : i \in DOMAIN Append(s, e)} = {s[i] : i \in DOMAIN s} \cup {e}
<1>1. /\ DOMAIN Append(s, e) = (DOMAIN s) \cup {Len(s) + 1}
      /\ Append(s, e)[Len(s) + 1] = e
      /\ \A i \in DOMAIN s : Append(s, e)[i] = s[i]
  OBVIOUS
<1> QED BY <1>1

LEMMA InitOrderInv == Init => OrderInv
BY DEF Init, OrderInv

LEMMA NextOrderInv ==
    ASSUME IInv, OpenInv, OrderInv, [Next]_vars
    PROVE  OrderInv'
<1>1. jobs \subseteq jobs' /\ jobs' \subseteq Needed
  BY MemoIsNeeded DEF OrderInv
<1>2. CASE Idle
  BY <1>1, <1>2 DEF Idle, OrderInv
<1>3. CASE Finishes(Top)
  <2> DEFINE j == Top
  <2>1. j \in jobs /\ j \in Job
    BY <1>3 DEF Finishes, IInv, TypeOK
  <2>2. completed' = completed \cup {j} /\ order' = Append(order, j) /\ DepSet(j) \subseteq completed
    BY <1>3 DEF Finishes
  <2>3. completed' = {order'[i] : i \in DOMAIN order'}
    <3>1. order \in Seq(Job)
      BY DEF IInv, TypeOK
    <3> QED BY <2>1, <2>2, <3>1, AppendRange DEF OrderInv
  <2>4. \A k \in Job \ completed' : err'[k] = err[k]
    BY <1>3, <2>2 DEF Finishes, IInv, TypeOK
  <2> QED BY <1>1, <2>1, <2>2, <2>3, <2>4 DEF OrderInv
<1> QED BY <1>2, <1>3, StepKinds

\* The mapped state takes a step of the schedule when a job completes, and
\* none otherwise.
LEMMA StepSchedule ==
    ASSUME IInv, OpenInv, OrderInv, [Next]_vars
    PROVE  [Schedule!Next]_(Schedule!vars)
<1> DEFINE failed == {j \in completed : err[j] # "none"}
           skipped == {j \in completed : err[j] = "dep"}
<1>1. CASE Idle
  BY <1>1 DEF Idle, Schedule!vars
<1>2. ASSUME NEW j \in Job, j = Top, Finishes(Top)
      PROVE  Schedule!Next
  <2> DEFINE D == [k \in Job |-> DepSet(k)]
  <2>1. j \in jobs /\ j \in Job /\ j \in Needed /\ D[j] = DepSet(j)
    BY <1>2 DEF Finishes, IInv, TypeOK, OrderInv
  <2>2. /\ completed' = completed \cup {j} /\ order' = Append(order, j)
        /\ DepSet(j) \subseteq completed /\ j \notin completed
    BY <1>2 DEF Finishes
  <2>3. Schedule!Finished = completed
    BY DEF OrderInv, Schedule!Finished
  <2>4. PICK outcome \in Outcomes :
           /\ err' = [err EXCEPT ![j] = outcome]
           /\ outcome = "dep" <=> \E d \in DepSet(j) : err[d] # "none"
    BY <1>2 DEF Finishes
  <2>5. /\ err'[j] = outcome
        /\ \A k \in completed : err'[k] = err[k]
    BY <2>1, <2>2, <2>4 DEF IInv, TypeOK
  <2>6. /\ failed' = failed \cup (IF outcome = "none" THEN {} ELSE {j})
        /\ skipped' = skipped \cup (IF outcome = "dep" THEN {j} ELSE {})
    BY <2>2, <2>5
  <2>7. DepSet(j) \cap failed = {} <=> outcome # "dep"
    BY <2>2, <2>4
  <2>8. Schedule!Complete(j)
    BY <2>1, <2>2, <2>3, <2>6, <2>7 DEF Schedule!Complete
  <2> QED BY <2>8 DEF Schedule!Next
<1>3. Finishes(Top) => Top \in Job
  BY DEF Finishes, IInv, TypeOK
<1> QED BY <1>1, <1>2, <1>3, StepKinds

\* Run completes each needed job once, behind its dependencies, and fails
\* exactly the jobs above a failure and those whose analyzer fails, in every
\* job graph.
THEOREM DriverImplementsSchedule == Spec => ImplementsSchedule
<1>1. Init => Schedule!Init
  BY DEF Init, Schedule!Init
<1>2. IInv /\ OpenInv /\ OrderInv /\ [Next]_vars => OpenInv' /\ OrderInv'
  BY NextOpenInv, NextOrderInv
<1>3. IInv /\ OpenInv /\ OrderInv /\ [Next]_vars => [Schedule!Next]_(Schedule!vars)
  BY StepSchedule
<1> QED BY <1>1, <1>2, <1>3, InitIInv, NextIInv, InitOpenInv, InitOrderInv, PTL
        DEF Spec, ImplementsSchedule, Schedule!Spec

-----------------------------------------------------------------------------
(* Nothing is kept longer than needed.                                     *)

\* Execute calls nest along edges that start in a root, so whoever completes
\* with callers on the stack has a reader that is not finished.
CallChain ==
    phase = "exec" =>
        /\ stack # << >> => IsRoot(stack[1])
        /\ \A i \in DOMAIN stack : i > 1 => stack[i] \in DepSet(stack[i - 1])

\* An edge that is counted starts in a job that release has still to visit.
ReleasedHoldNothing ==
    phase # "done" => \A j \in Job \ Unreleased : deps[j] = << >>

PromptInv == ReleasedPromptly /\ CallChain /\ ReleasedHoldNothing

\* The calls of execute.
LEMMA CallPrompt ==
    ASSUME IInv, PromptInv, ExecuteRoot \/ ExecuteDep
    PROVE  PromptInv'
<1> USE DEF IInv
<1>1. /\ phase = "exec"
      /\ UNCHANGED <<phase, jobs, roots, deps, completed, err, live, syntax>>
  BY DEF ExecuteRoot, ExecuteDep, graphVars, runVars
<1>2. ReleasedPromptly' /\ ReleasedHoldNothing'
  BY <1>1 DEF PromptInv, ReleasedPromptly, ReleasedHoldNothing, IsRoot, Unreleased
<1>3. CASE ExecuteRoot
  <2>1. re \in DOMAIN roots
    BY <1>3 DEF ExecuteRoot, TypeOK
  <2>2. stack' = << >> \/ stack' = <<roots[re]>>
    BY <1>3 DEF ExecuteRoot
  <2>3. /\ stack' # << >> => stack'[1] = roots[re]
        /\ \A i \in DOMAIN stack' : ~(i > 1)
    BY <2>2
  <2>4. CallChain'
    BY <1>1, <2>1, <2>3 DEF CallChain, IsRoot
  <2> QED BY <1>2, <2>4 DEF PromptInv
<1>4. CASE ExecuteDep
  <2>1. /\ stack # << >> /\ stack \in Seq(Job) /\ Top \in Job
        /\ Len(stack) \in DOMAIN stack /\ Top = stack[Len(stack)]
        /\ DOMAIN stack = 1 .. Len(stack) /\ Len(stack) \in Nat
    BY <1>4, StackTop DEF ExecuteDep, TypeOK, Top
  <2>2. PICK d : /\ d \in HeldDeps(Top) /\ d \in jobs
                 /\ stack' = Append(stack, d)
    BY <1>4, <2>1 DEF ExecuteDep, HeldDeps, Reachable
  <2>3. d \in Job /\ d \in DepSet(Top)
    <3>1. Top \in Unreleased
      BY <1>1, <2>1 DEF ExecInv, Reachable, Unreleased
    <3> QED BY <1>1, <2>2, <3>1 DEF ExecInv, TypeOK
  <2>4. /\ DOMAIN stack' = (DOMAIN stack) \cup {Len(stack) + 1}
        /\ stack'[Len(stack) + 1] = d
        /\ \A i \in DOMAIN stack : i < Len(stack) + 1 /\ stack'[i] = stack[i]
    BY <2>1, <2>2, <2>3, StackPush
  <2>5. \E i \in DOMAIN roots' : roots'[i] = stack'[1]
    BY <1>1, <2>1, <2>4 DEF PromptInv, CallChain, IsRoot
  <2>6. ASSUME NEW i \in DOMAIN stack', i > 1
        PROVE  stack'[i] \in DepSet(stack'[i - 1])
    <3>1. CASE i \in DOMAIN stack
      <4>1. i - 1 \in DOMAIN stack
        BY <2>1, <2>6, <3>1
      <4> QED BY <1>1, <2>4, <2>6, <3>1, <4>1 DEF PromptInv, CallChain
    <3>2. CASE i = Len(stack) + 1
      <4>1. i - 1 = Len(stack)
        BY <2>1, <3>2
      <4> QED BY <2>1, <2>3, <2>4, <3>2, <4>1
    <3> QED BY <2>4, <3>1, <3>2
  <2>7. CallChain'
    BY <2>5, <2>6 DEF CallChain, IsRoot
  <2> QED BY <1>2, <2>7 DEF PromptInv
<1> QED BY <1>3, <1>4

\* A call that returns leaves the chain below it.
LEMMA PopChain ==
    ASSUME IInv, CallChain, phase = "exec", stack # << >>, Pop, UNCHANGED <<phase, roots>>
    PROVE  /\ CallChain'
           /\ IsRoot(Top) \/ \E i \in DOMAIN stack' :
                                 stack'[i] = stack[i] /\ Top \in DepSet(stack[i])
<1>1. /\ stack \in Seq(Job) /\ DOMAIN stack = 1 .. Len(stack) /\ Len(stack) \in Nat \ {0}
      /\ Top = stack[Len(stack)]
  BY StackTop DEF IInv, TypeOK, Top
<1>2. /\ DOMAIN stack' = (DOMAIN stack) \ {Len(stack)}
      /\ \A i \in DOMAIN stack' : stack'[i] = stack[i]
      /\ stack' \in Seq(Job)
  BY <1>1, StackPop
<1>3. stack' # << >> => 1 \in DOMAIN stack'
  BY <1>2
<1>4. ASSUME NEW i \in DOMAIN stack', i > 1
      PROVE  i - 1 \in DOMAIN stack' /\ i \in DOMAIN stack
  BY <1>1, <1>2, <1>4
<1>5. CallChain'
  <2>1. stack' # << >> => \E i \in DOMAIN roots' : roots'[i] = stack'[1]
    BY <1>2, <1>3 DEF CallChain, IsRoot
  <2>2. \A i \in DOMAIN stack' : i > 1 => stack'[i] \in DepSet(stack'[i - 1])
    BY <1>2, <1>4 DEF CallChain
  <2> QED BY <2>1, <2>2 DEF CallChain, IsRoot
<1>6. CASE Len(stack) = 1
  BY <1>1, <1>5, <1>6 DEF CallChain
<1>7. CASE Len(stack) > 1
  <2>1. Len(stack) - 1 \in DOMAIN stack'
    <3>1. \A n \in Nat : n > 1 => n - 1 \in 1 .. n /\ n - 1 # n
      OBVIOUS
    <3>2. Len(stack) - 1 \in 1 .. Len(stack) /\ Len(stack) - 1 # Len(stack)
      BY <1>1, <1>7, <3>1
    <3> QED BY <1>1, <1>2, <3>2
  <2>2. Top \in DepSet(stack[Len(stack) - 1])
    BY <1>1, <1>7 DEF CallChain
  <2> QED BY <1>2, <1>5, <2>1, <2>2
<1> QED BY <1>1, <1>6, <1>7

\* What release frees and what it keeps: a counted reader of a result that is
\* kept is an unfinished job or one that took the early exit.
LEMMA CompletePrompt ==
    ASSUME IInv, PromptInv, IInv', phase = "exec", stack # << >>,
           NEW outcome \in Outcomes \ {"dep"}, Complete(outcome), Runnable(Top)
    PROVE  PromptInv'
<1> DEFINE j == Top
           q == PackageOf(j)
<1>1. /\ err' = [err EXCEPT ![j] = outcome]
      /\ completed' = completed \cup {j}
      /\ live' = (live \cup (IF outcome = "none" THEN {j} ELSE {})) \ Freed(j)
      /\ consumers' = ConsumersAfter(j)
      /\ deps' = [deps EXCEPT ![j] = << >>]
      /\ syntax' = IF remaining[q] = 1 THEN syntax \ {q} ELSE syntax
      /\ remaining' = [remaining EXCEPT ![q] = remaining[q] - 1]
      /\ UNCHANGED <<phase, jobs, roots>>
      /\ Pop /\ DepsCompleted(j)
  BY DEF Complete, Release, Runnable
<1>2. /\ j \in jobs /\ j \in Job /\ j \notin completed /\ HeldDeps(j) = DepSet(j)
      /\ q \in Packages
  BY <1>1, TopHoldsDeps DEF Job, PackageOf
<1>3. /\ CallChain'
      /\ IsRoot(j) \/ \E i \in DOMAIN stack' : stack'[i] = stack[i] /\ j \in DepSet(stack[i])
  BY <1>1, PopChain DEF PromptInv
<1>4. /\ \A i \in DOMAIN stack' : stack'[i] \in jobs' /\ stack'[i] \notin completed'
  BY <1>1 DEF IInv, Reachable, ExecInv
<1> HIDE DEF j
<1>5. Unreleased' = Unreleased \ {j}
  BY <1>1, <1>2 DEF Unreleased, IInv, TypeOK
<1>6. /\ deps \in [Job -> Seq(Job)] /\ deps' \in [Job -> Seq(Job)] /\ deps'[j] = << >>
      /\ \A k \in Job : k # j => deps'[k] = deps[k]
  BY <1>1, <1>2 DEF IInv, TypeOK
<1>7. ReleasedHoldNothing'
  BY <1>1, <1>5, <1>6 DEF ReleasedHoldNothing, PromptInv
<1>8. ASSUME NEW d \in live', ~IsRoot(d)
      PROVE  \E k \in Unreleased' : d \in DepSet(k)
  <2>1. d \in Job /\ d \notin Freed(j)
    BY <1>1, <1>8 DEF IInv, TypeOK
  <2>2. CASE d = j
    <3>1. PICK i \in DOMAIN stack' : stack'[i] = stack[i] /\ j \in DepSet(stack[i])
      BY <1>3, <1>8, <2>2
    <3> QED BY <1>4, <2>2, <3>1 DEF Unreleased
  <2>3. CASE d # j
    <3>1. PICK k \in Unreleased : d \in DepSet(k)
      BY <1>1, <1>8, <2>3 DEF PromptInv, ReleasedPromptly
    <3>2. CASE k # j
      BY <1>5, <3>1, <3>2
    <3>3. CASE k = j
      <4>1. EdgesBetween(j, d) # {}
        <5>1. PICK i \in DOMAIN deps[j] : deps[j][i] = d
          BY <1>2, <3>1, <3>3 DEF HeldDeps
        <5>2. <<j, i>> \in Edges
          BY <1>2 DEF Edges
        <5> QED BY <5>1, <5>2 DEF EdgesBetween, EdgesTo
      <4>2. consumers'[d] # 0
        BY <1>1, <1>8, <2>1, <4>1 DEF Freed
      <4>3. consumers'[d] = Cardinality(EdgesTo(d)')
        BY <1>1, <2>1 DEF IInv, CountersExact
      <4>4. EdgesTo(d)' # {}
        BY <4>2, <4>3, FS_EmptySet
      <4>5. PICK r \in Job : \E i \in DOMAIN deps'[r] : deps'[r][i] = d
        BY <4>4 DEF EdgesTo, Edges
      <4>6. r \in Unreleased'
        BY <1>1, <1>7, <4>5 DEF ReleasedHoldNothing
      <4>7. HeldDeps(r)' = DepSet(r)
        BY <1>1, <4>6 DEF IInv, ExecInv
      <4> QED BY <4>5, <4>6, <4>7 DEF HeldDeps
    <3> QED BY <3>2, <3>3
  <2> QED BY <2>2, <2>3
<1>9. ASSUME NEW p \in syntax', NEW k \in jobs', PackageOf(k) = p
      PROVE  \E r \in Unreleased' : PackageOf(r) = p
  <2>1. p \in syntax /\ p \in Packages /\ k \in jobs
    BY <1>1, <1>9 DEF IInv, TypeOK
  <2>2. PICK r \in Unreleased : PackageOf(r) = p
    BY <1>9, <2>1 DEF PromptInv, ReleasedPromptly
  <2>3. CASE p # q
    BY <1>5, <2>2, <2>3
  <2>4. CASE p = q
    <3>1. remaining[q] \in Nat /\ remaining[q] # 1 /\ remaining'[q] = remaining[q] - 1
      BY <1>1, <1>2, <1>9, <2>4 DEF IInv, TypeOK
    <3>2. remaining'[q] # 0
      BY <3>1
    <3>3. remaining'[q] = Cardinality({r1 \in Unreleased' : PackageOf(r1) = q})
      BY <1>1, <1>2 DEF IInv, CountersExact
    <3> QED BY <2>4, <3>2, <3>3, FS_EmptySet
  <2> QED BY <2>3, <2>4
<1>10. ReleasedPromptly'
  BY <1>1, <1>8, <1>9 DEF ReleasedPromptly, IsRoot
<1> QED BY <1>3, <1>7, <1>10 DEF PromptInv

\* PromptInv is inductive relative to IInv.
LEMMA NextPrompt ==
    ASSUME IInv, OpenInv, PromptInv, [Next]_vars, IInv'
    PROVE  PromptInv'
<1>1. CASE phase' = "build"
  \* While the graph is built nothing is completed and nothing is freed.
  <2>1. live' = {} /\ Unreleased' = jobs'
    BY <1>1 DEF IInv, BuildInv, Unreleased
  <2>2. ReleasedPromptly'
    BY <1>1, <2>1 DEF ReleasedPromptly
  <2>3. CallChain' /\ ReleasedHoldNothing'
    BY <1>1, <2>1 DEF CallChain, ReleasedHoldNothing, IInv, Reachable
  <2> QED BY <2>2, <2>3 DEF PromptInv
<1>2. CASE FinishBuild
  <2>1. /\ stack' = << >> /\ phase' = "exec" /\ phase = "build"
        /\ UNCHANGED <<jobs, roots, deps, completed, err, live, syntax>>
    BY <1>2 DEF FinishBuild, graphVars, runVars
  <2> QED BY <2>1 DEF PromptInv, ReleasedPromptly, ReleasedHoldNothing, CallChain,
                      IsRoot, Unreleased
<1>3. CASE ExecuteRoot \/ ExecuteDep
  BY <1>3, CallPrompt
<1>4. CASE DepFailed
  <2>1. /\ phase = "exec" /\ stack # << >> /\ Pop /\ DepsCompleted(Top)
        /\ err' = [err EXCEPT ![Top] = "dep"] /\ completed' = completed \cup {Top}
        /\ UNCHANGED <<phase, jobs, roots, deps, live, syntax>>
    BY <1>4 DEF DepFailed, graphVars
  <2>2. Top \in jobs /\ Top \in Job /\ Top \notin completed
    BY <2>1, TopHoldsDeps
  <2>3. Unreleased' = Unreleased
    BY <2>1, <2>2 DEF Unreleased, IInv, TypeOK
  <2>4. CallChain'
    BY <2>1, PopChain DEF PromptInv
  <2> QED BY <2>1, <2>3, <2>4 DEF PromptInv, ReleasedPromptly, ReleasedHoldNothing, IsRoot
<1>5. CASE SkipIllTyped
  BY <1>5, CompletePrompt DEF SkipIllTyped, Outcomes
<1>6. CASE ReturnRun
  <2>1. PICK outcome \in RunOutcomes(Top) : Complete(outcome)
    BY <1>6 DEF ReturnRun
  <2>2. outcome \in Outcomes \ {"dep"}
    BY DEF RunOutcomes, Outcomes
  <2>3. phase = "exec" /\ stack # << >> /\ Runnable(Top)
    BY <1>6 DEF ReturnRun, OpenInv
  <2> QED BY <2>1, <2>2, <2>3, CompletePrompt
<1>10. CASE StartRun \/ \E j \in jobs : CalledByRun(j)
  <2>1. /\ phase = "exec" /\ phase' \in {"exec", "panic"}
        /\ UNCHANGED <<stack, jobs, roots, deps, completed, err, live, syntax>>
    BY <1>10 DEF StartRun, CalledByRun, CallsPass, Export, LateExport, Report, graphVars, runVars
  <2>2. Unreleased' = Unreleased /\ \A j : IsRoot(j)' = IsRoot(j)
    BY <2>1 DEF Unreleased, IsRoot
  <2> QED BY <2>1, <2>2 DEF PromptInv, ReleasedPromptly, ReleasedHoldNothing, CallChain
<1>7. CASE ReleaseAll
  <2>1. /\ phase' = "done" /\ live' = {j \in live : IsRoot(j)}
        /\ syntax' = syntax \ {PackageOf(j) : j \in jobs}
        /\ UNCHANGED <<jobs, roots>>
    BY <1>7 DEF ReleaseAll
  <2> QED BY <2>1 DEF PromptInv, ReleasedPromptly, ReleasedHoldNothing, CallChain, IsRoot
<1>8. CASE UNCHANGED vars
  BY <1>8 DEF vars, graphVars, runVars, PromptInv, ReleasedPromptly, ReleasedHoldNothing,
              CallChain, IsRoot, Unreleased
<1>9. CASE VisitRoot \/ VisitDep \/ AddRoot \/ SkipImport \/ ReturnJob \/ AddEdge
  <2>1. phase' = "build"
    BY <1>9 DEF VisitRoot, VisitDep, Materialize, AddRoot, SkipImport, ReturnJob, AddEdge
  <2> QED BY <1>1, <2>1
<1> QED BY <1>2, <1>3, <1>4, <1>5, <1>6, <1>7, <1>8, <1>9, <1>10
        DEF Next, Returned, CalledByRun

\* A result or a syntax tree outlives its last reader only when that reader
\* failed on a dependency, and nothing but root results outlives Run, in every
\* job graph.
THEOREM ReleaseIsPrompt == Spec => []ReleasedPromptly
<1>1. Init => PromptInv
  BY DEF Init, PromptInv, ReleasedPromptly, CallChain, ReleasedHoldNothing
<1>2. IInv /\ OpenInv /\ PromptInv /\ [Next]_vars /\ IInv' => OpenInv' /\ PromptInv'
  BY NextOpenInv, NextPrompt
<1>3. PromptInv => ReleasedPromptly
  BY DEF PromptInv
<1> QED BY <1>1, <1>2, <1>3, InitIInv, NextIInv, InitOpenInv, PTL DEF Spec

-----------------------------------------------------------------------------
(* The facts a job sees.                                                   *)

\* A job inherits along the imports that carry syntax, and no package imports
\* itself.
LEMMA ImportDeps ==
    ASSUME NEW j \in Job, AnalyzerOf(j) \in FactAnalyzers, NEW q \in Packages
    PROVE  ImportsLoaded(PackageOf(j), q)
             <=> <<AnalyzerOf(j), q>> \in DepSet(j) /\ q # PackageOf(j)
<1> DEFINE a == AnalyzerOf(j)
           p == PackageOf(j)
<1>1. a \in Analyzers /\ p \in Packages /\ NumRequires(j) \in Nat
  BY ShapeAssumption DEF Job, AnalyzerOf, PackageOf, NumRequires
<1>2. Imports[p] \in Seq(Packages) /\ NumVisits(j) = NumRequires(j) + Len(Imports[p])
  BY <1>1, ShapeAssumption DEF NumVisits
<1>3. ASSUME ImportsLoaded(p, q)
      PROVE  <<a, q>> \in DepSet(j) /\ q # p
  <2>1. PICK i \in DOMAIN Imports[p] : Imports[p][i] = q /\ q \in Loaded
    BY <1>3 DEF ImportsLoaded
  <2> DEFINE k == NumRequires(j) + i
  <2>2. i \in 1 .. Len(Imports[p])
    BY <1>2
  <2>3. k \in 1 .. NumVisits(j) /\ ~(k <= NumRequires(j)) /\ k - NumRequires(j) = i
    BY <1>1, <1>2, <2>2
  <2>4. Visited(j, k) = <<a, q>>
    BY <2>1, <2>3 DEF Visited
  <2>5. HasEdge(j, k)
    BY <2>1, <2>4 DEF HasEdge, PackageOf
  <2>6. PackageRank[q] < PackageRank[p] /\ PackageRank[p] \in Nat /\ PackageRank[q] \in Nat
    BY <1>1, <2>1, AcyclicAssumption
  <2> HIDE DEF k
  <2> QED BY <2>3, <2>4, <2>5, <2>6 DEF DepSet
<1>4. ASSUME <<a, q>> \in DepSet(j), q # p
      PROVE  ImportsLoaded(p, q)
  <2>1. PICK k \in 1 .. NumVisits(j) : HasEdge(j, k) /\ Visited(j, k) = <<a, q>>
    BY <1>4 DEF DepSet
  <2>2. ~(k <= NumRequires(j))
    BY <1>4, <2>1 DEF Visited
  <2>3. Imports[p][k - NumRequires(j)] = q /\ q \in Loaded
    BY <2>1, <2>2 DEF Visited, HasEdge, PackageOf
  <2>4. k - NumRequires(j) \in 1 .. Len(Imports[p])
    BY <1>1, <1>2, <2>2
  <2> QED BY <1>2, <2>3, <2>4 DEF ImportsLoaded
<1> QED BY <1>3, <1>4

\* What is below a package: its imports and what is below them.
LEMMA BelowStep ==
    ASSUME NEW p \in Packages, NEW r
    PROVE  r \in Below(p) <=> \/ r \in Packages /\ ImportsLoaded(p, r)
                             \/ \E q \in Packages : ImportsLoaded(p, q) /\ r \in Below(q)
<1> DEFINE B == {t \in Packages : \/ ImportsLoaded(p, t)
                                 \/ \E q \in Packages : ImportsLoaded(p, q) /\ t \in Below(q)}
<1>1. ASSUME NEW q \in Packages, NEW t \in Below(q), NEW u \in Packages, ImportsLoaded(t, u)
      PROVE  u \in Below(q)
  BY <1>1 DEF Below
<1>2. ASSUME NEW q \in Packages, NEW u \in Packages, ImportsLoaded(q, u)
      PROVE  u \in Below(q)
  BY <1>2 DEF Below
<1>3. /\ \A t \in Packages : ImportsLoaded(p, t) => t \in B
      /\ \A t \in B, u \in Packages : ImportsLoaded(t, u) => u \in B
  BY <1>1, <1>2
<1>4. r \in Below(p) => r \in B
  BY <1>3 DEF Below
<1>5. ASSUME NEW q \in Packages, ImportsLoaded(p, q), NEW t \in Below(q)
      PROVE  t \in Below(p)
  BY <1>5 DEF Below
<1> QED BY <1>2, <1>4, <1>5

\* Everything below the package of a completed job has been completed.
LEMMA BelowCompleted ==
    ASSUME IInv, OrderInv, NEW j \in completed, AnalyzerOf(j) \in FactAnalyzers,
           NEW q \in Below(PackageOf(j))
    PROVE  <<AnalyzerOf(j), q>> \in completed
<1> DEFINE a == AnalyzerOf(j)
           S == {r \in Packages : <<a, r>> \in completed}
<1>1. j \in Job /\ a \in Analyzers /\ j = <<a, PackageOf(j)>> /\ PackageOf(j) \in Packages
  BY DEF IInv, TypeOK, Job, AnalyzerOf, PackageOf
<1>2. ASSUME NEW r \in Packages, <<a, r>> \in completed, NEW t \in Packages, ImportsLoaded(r, t)
      PROVE  <<a, t>> \in completed
  <2>1. <<a, r>> \in Job /\ AnalyzerOf(<<a, r>>) = a /\ PackageOf(<<a, r>>) = r
    BY <1>1 DEF Job, AnalyzerOf, PackageOf
  <2>2. <<a, t>> \in DepSet(<<a, r>>)
    BY <1>2, <2>1, ImportDeps
  <2> QED BY <1>2, <2>2 DEF OrderInv
<1>3. \A r \in Packages : ImportsLoaded(PackageOf(j), r) => r \in S
  BY <1>1, <1>2
<1>4. q \in S
  BY <1>2, <1>3 DEF Below
<1> QED BY <1>4

\* What a job inherits, by package.
LEMMA InheritedByPackage ==
    ASSUME IInv, NEW j \in Job, AnalyzerOf(j) \in FactAnalyzers, HeldDeps(j) = DepSet(j), NEW o
    PROVE  o \in Inherited(j) <=>
             \E q \in Packages : /\ ImportsLoaded(PackageOf(j), q)
                                /\ o \in facts[<<AnalyzerOf(j), q>>]
                                /\ Visible(o, q)
<1> DEFINE a == AnalyzerOf(j)
<1>1. o \in Inherited(j) <=>
        \E d \in HeldDeps(j) : /\ PackageOf(d) # PackageOf(j) /\ AnalyzerOf(d) = a
                               /\ o \in facts[d] /\ Visible(o, PackageOf(d))
  BY DEF Inherited, HeldDeps
<1>2. ASSUME NEW d \in DepSet(j), AnalyzerOf(d) = a
      PROVE  d = <<a, PackageOf(d)>> /\ PackageOf(d) \in Packages
  <2>1. d \in Job
    BY DepSetType
  <2> QED BY <1>2, <2>1 DEF Job, AnalyzerOf, PackageOf
<1>3. ASSUME NEW q \in Packages
      PROVE  ImportsLoaded(PackageOf(j), q) <=> <<a, q>> \in DepSet(j) /\ q # PackageOf(j)
  BY ImportDeps
<1>4. \A q \in Packages : AnalyzerOf(<<a, q>>) = a /\ PackageOf(<<a, q>>) = q
  BY DEF AnalyzerOf, PackageOf
<1> QED BY <1>1, <1>2, <1>3, <1>4

\* FactsExact for one job, one object at a time.
Knows(j, o) ==
    o \in facts[j] <=>
        \/ o \in OwnFacts(j)
        \/ \E q \in Below(PackageOf(j)) :
              /\ o \in OwnFacts(<<AnalyzerOf(j), q>>)
              /\ \/ Visibility[o] = "always"
                 \/ Visibility[o] = "direct" /\ ImportsLoaded(PackageOf(j), q)

Ran(j) == j \in completed /\ AnalyzerOf(j) \in FactAnalyzers /\ err[j] # "dep"

LEMMA FactsExactByObject ==
    FactsExact <=> \A j \in completed : Ran(j) => \A o : Knows(j, o)
<1> DEFINE Seen(j, q) == {o \in OwnFacts(<<AnalyzerOf(j), q>>) :
                                \/ Visibility[o] = "always"
                                \/ /\ Visibility[o] = "direct"
                                   /\ ImportsLoaded(PackageOf(j), q)}
           Expected(j) == OwnFacts(j) \cup UNION {Seen(j, q) : q \in Below(PackageOf(j))}
<1>1. ASSUME NEW j
      PROVE  facts[j] = Expected(j) <=> \A o : Knows(j, o)
  <2>1. \A o : Knows(j, o) <=> (o \in facts[j] <=> o \in Expected(j))
    BY DEF Knows
  <2> HIDE DEF Expected
  <2> QED BY <2>1
<1>2. FactsExact <=> \A j \in completed : Ran(j) => facts[j] = Expected(j)
  BY DEF FactsExact, Ran
<1> HIDE DEF Expected
<1> QED BY <1>1, <1>2

\* What a job that ran delivers is what it inherited and what it exported, so
\* the exactness of its imports' facts makes its own exact.
LEMMA FinishFacts ==
    ASSUME IInv, OrderInv, FactsExact, IInv', OrderInv',
           NEW j \in Job, j = Top, Finishes(Top), Ran(j)', NEW o
    PROVE  Knows(j, o)'
<1> DEFINE a == AnalyzerOf(j)
           p == PackageOf(j)
<1>1. /\ a \in FactAnalyzers /\ p \in Packages /\ a \in Analyzers
      /\ j \notin completed /\ HeldDeps(j) = DepSet(j) /\ DepSet(j) \subseteq completed
  BY DEF Finishes, Ran, Job, AnalyzerOf, PackageOf
<1>2. PICK exported \in SUBSET Exportable(j) : facts'[j] = Inherited(j) \cup exported
  <2>1. PICK outcome \in Outcomes :
           /\ err' = [err EXCEPT ![j] = outcome]
           /\ outcome # "dep" => \E exported \in SUBSET Exportable(j) :
                                    facts'[j] = Inherited(j) \cup exported
    BY DEF Finishes
  <2>2. outcome # "dep"
    BY <2>1 DEF Ran, IInv, TypeOK
  <2> QED BY <1>1, <2>1, <2>2
<1>3. \A d \in DepSet(j) : err[d] = "none"
  <2>1. PICK outcome \in Outcomes :
           /\ err' = [err EXCEPT ![j] = outcome]
           /\ outcome = "dep" <=> \E d \in DepSet(j) : err[d] # "none"
    BY DEF Finishes
  <2> QED BY <2>1 DEF Ran, IInv, TypeOK
<1>4. \A k \in Job : k # j => facts'[k] = facts[k]
  BY DEF Finishes, IInv, TypeOK
<1>5. ASSUME NEW q \in Below(p)
      PROVE  /\ <<a, q>> \in completed /\ <<a, q>> \in Job /\ q \in Packages
             /\ OwnFacts(<<a, q>>)' = OwnFacts(<<a, q>>)
             /\ OwnFacts(<<a, q>>) = {x \in facts[<<a, q>>] : Home[x] = q}
  <2>1. q \in Packages /\ <<a, q>> \in Job /\ PackageOf(<<a, q>>) = q
    BY <1>1 DEF Below, Job, PackageOf
  <2>2. <<a, q>> \in completed
    <3>1. PICK t \in Packages : ImportsLoaded(p, t) /\ (q = t \/ q \in Below(t))
      BY <1>1, <2>1, BelowStep
    <3>2. <<a, t>> \in completed
      BY <1>1, <3>1, ImportDeps
    <3>3. AnalyzerOf(<<a, t>>) = a /\ PackageOf(<<a, t>>) = t
      BY DEF AnalyzerOf, PackageOf
    <3> QED BY <1>1, <3>1, <3>2, <3>3, BelowCompleted
  <2>3. facts'[<<a, q>>] = facts[<<a, q>>]
    BY <1>1, <1>4, <2>1, <2>2
  <2> QED BY <2>1, <2>2, <2>3 DEF OwnFacts
<1>6. ASSUME NEW q \in Packages, ImportsLoaded(p, q)
      PROVE  /\ q \in Below(p)
             /\ o \in facts[<<a, q>>] <=>
                  \/ o \in OwnFacts(<<a, q>>)
                  \/ \E r \in Below(q) : /\ o \in OwnFacts(<<a, r>>)
                                         /\ \/ Visibility[o] = "always"
                                            \/ Visibility[o] = "direct" /\ ImportsLoaded(q, r)
  <2>1. q \in Below(p)
    BY <1>1, <1>6, BelowStep
  <2>2. <<a, q>> \in DepSet(j) /\ <<a, q>> \in completed
    BY <1>1, <1>6, ImportDeps
  <2>3. AnalyzerOf(<<a, q>>) = a /\ PackageOf(<<a, q>>) = q
    BY DEF AnalyzerOf, PackageOf
  <2>4. Ran(<<a, q>>)
    BY <1>1, <1>3, <2>2, <2>3 DEF Ran
  <2>5. Knows(<<a, q>>, o)
    BY <2>2, <2>4, FactsExactByObject
  <2> QED BY <2>1, <2>3, <2>5 DEF Knows
<1>7. o \in Inherited(j) <=>
        \E q \in Packages : ImportsLoaded(p, q) /\ o \in facts[<<a, q>>] /\ Visible(o, q)
  BY <1>1, InheritedByPackage
<1>8. o \in exported => Home[o] = p
  BY DEF Exportable
<1>9. o \in OwnFacts(j)' <=> o \in facts'[j] /\ Home[o] = p
  BY DEF OwnFacts
<1> DEFINE Seen == \E q \in Below(p) :
                     /\ o \in OwnFacts(<<a, q>>)
                     /\ \/ Visibility[o] = "always"
                        \/ Visibility[o] = "direct" /\ ImportsLoaded(p, q)
<1>10. ASSUME o \in Inherited(j) PROVE Seen
  <2>1. PICK q \in Packages : ImportsLoaded(p, q) /\ o \in facts[<<a, q>>] /\ Visible(o, q)
    BY <1>7, <1>10
  <2>2. CASE o \in OwnFacts(<<a, q>>)
    BY <1>6, <2>1, <2>2 DEF Visible
  <2>3. ASSUME NEW r \in Below(q), o \in OwnFacts(<<a, r>>) PROVE Seen
    <3>1. r \in Below(p)
      BY <1>1, <2>1, <2>3, BelowStep
    <3>2. Home[o] = r
      BY <1>5, <2>3, <3>1
    <3> QED BY <2>1, <2>3, <3>1, <3>2 DEF Visible
  <2> QED BY <1>6, <2>1, <2>2, <2>3
<1>11. ASSUME Seen PROVE o \in Inherited(j)
  <2>1. PICK q \in Below(p) :
           /\ o \in OwnFacts(<<a, q>>)
           /\ \/ Visibility[o] = "always"
              \/ Visibility[o] = "direct" /\ ImportsLoaded(p, q)
    BY <1>11
  <2>2. q \in Packages /\ Home[o] = q
    BY <1>5, <2>1
  <2>3. CASE ImportsLoaded(p, q)
    BY <1>6, <1>7, <2>1, <2>2, <2>3 DEF Visible
  <2>4. ASSUME NEW t \in Packages, ImportsLoaded(p, t), q \in Below(t), Visibility[o] = "always"
        PROVE  o \in Inherited(j)
    BY <1>6, <1>7, <2>1, <2>4 DEF Visible
  <2> QED BY <1>1, <2>1, <2>2, <2>3, <2>4, BelowStep
<1>12. Seen <=> \E q \in Below(p) :
                  /\ o \in OwnFacts(<<a, q>>)'
                  /\ \/ Visibility[o] = "always"
                     \/ Visibility[o] = "direct" /\ ImportsLoaded(p, q)
  BY <1>5
<1> HIDE DEF Seen
<1>13. o \in facts'[j] <=> o \in OwnFacts(j)' \/ Seen
  BY <1>2, <1>8, <1>9, <1>10, <1>11
<1> QED BY <1>12, <1>13 DEF Knows

LEMMA NextFactsExact ==
    ASSUME IInv, OpenInv, OrderInv, FactsExact, [Next]_vars, IInv', OrderInv'
    PROVE  FactsExact'
<1>0. ASSUME \A k \in completed' : Ran(k)' => \A o : Knows(k, o)'
      PROVE  FactsExact'
  <2> DEFINE Seen(k, q) == {o \in OwnFacts(<<AnalyzerOf(k), q>>) :
                                \/ Visibility[o] = "always"
                                \/ /\ Visibility[o] = "direct"
                                   /\ ImportsLoaded(PackageOf(k), q)}
             Expected(k) == OwnFacts(k) \cup UNION {Seen(k, q) : q \in Below(PackageOf(k))}
  <2>1. ASSUME NEW k \in completed', Ran(k)'
        PROVE  facts'[k] = Expected(k)'
    <3>1. ASSUME NEW o
          PROVE  o \in Expected(k)' <=>
                   \/ o \in OwnFacts(k)'
                   \/ \E q \in Below(PackageOf(k)) :
                         /\ o \in OwnFacts(<<AnalyzerOf(k), q>>)'
                         /\ \/ Visibility[o] = "always"
                            \/ Visibility[o] = "direct" /\ ImportsLoaded(PackageOf(k), q)
      OBVIOUS
    <3>2. ASSUME NEW o
          PROVE  Knows(k, o)' <=> (o \in facts'[k] <=> o \in Expected(k)')
      <4> HIDE DEF Expected
      <4> QED BY <3>1 DEF Knows
    <3> HIDE DEF Expected
    <3> QED BY <1>0, <2>1, <3>2
  <2>2. FactsExact' <=> \A k \in completed' : Ran(k)' => facts'[k] = Expected(k)'
    BY DEF FactsExact, Ran
  <2> HIDE DEF Expected
  <2> QED BY <2>1, <2>2
<1>1. CASE Idle
  <2>1. /\ UNCHANGED <<completed, err>>
        /\ \A k \in completed : facts'[k] = facts[k] /\ OwnFacts(k)' = OwnFacts(k)
    BY <1>1 DEF Idle, OwnFacts
  <2>2. ASSUME NEW k \in completed', Ran(k)', NEW o
        PROVE  Knows(k, o)'
    <3>1. k \in completed /\ Ran(k)
      BY <2>1, <2>2 DEF Ran
    <3>2. Knows(k, o)
      BY <3>1, FactsExactByObject
    <3>3. \A q \in Below(PackageOf(k)) :
             OwnFacts(<<AnalyzerOf(k), q>>)' = OwnFacts(<<AnalyzerOf(k), q>>)
      BY <2>1, <3>1, BelowCompleted DEF Ran
    <3> QED BY <2>1, <3>1, <3>2, <3>3 DEF Knows
  <2> QED BY <1>0, <2>2
<1>2. CASE Finishes(Top)
  <2>1. Top \in Job /\ completed' = completed \cup {Top} /\ Top \notin completed
    BY <1>2 DEF Finishes, IInv, TypeOK
  <2>2. \A k \in Job : k # Top => facts'[k] = facts[k] /\ err'[k] = err[k]
    BY <1>2 DEF Finishes, IInv, TypeOK
  <2>3. ASSUME NEW k \in completed', Ran(k)', NEW o
        PROVE  Knows(k, o)'
    <3>1. CASE k = Top
      BY <1>2, <2>1, <2>3, <3>1, FinishFacts
    <3>2. CASE k # Top
      <4>1. k \in completed /\ Ran(k) /\ k \in Job
        BY <2>1, <2>2, <2>3, <3>2 DEF Ran, IInv, TypeOK
      <4>2. Knows(k, o)
        BY <4>1, FactsExactByObject
      <4>3. OwnFacts(k)' = OwnFacts(k) /\ facts'[k] = facts[k]
        BY <2>2, <3>2, <4>1 DEF OwnFacts
      <4>4. ASSUME NEW q \in Below(PackageOf(k))
            PROVE  OwnFacts(<<AnalyzerOf(k), q>>)' = OwnFacts(<<AnalyzerOf(k), q>>)
        <5>1. <<AnalyzerOf(k), q>> \in completed
          BY <4>1, BelowCompleted DEF Ran
        <5>2. <<AnalyzerOf(k), q>> \in Job /\ <<AnalyzerOf(k), q>> # Top
          BY <2>1, <5>1 DEF IInv, TypeOK
        <5> QED BY <2>2, <5>2 DEF OwnFacts
      <4> QED BY <4>2, <4>3, <4>4 DEF Knows
    <3> QED BY <3>1, <3>2
  <2> QED BY <1>0, <2>3
<1> QED BY <1>1, <1>2, StepKinds

\* A job that ran knows exactly the visible facts of what is below it: nothing
\* is dropped and nothing leaks on any way through the imports, in every job
\* graph and for every assignment of visibilities.
THEOREM FactsAreExact == Spec => []FactsExact
<1>1. Init => FactsExact
  BY DEF Init, FactsExact
<1>2. IInv /\ OpenInv /\ OrderInv /\ [Next]_vars => OpenInv' /\ OrderInv'
  BY NextOpenInv, NextOrderInv
<1>3. IInv /\ OpenInv /\ OrderInv /\ FactsExact /\ [Next]_vars /\ IInv' /\ OrderInv' => FactsExact'
  BY NextFactsExact
<1> QED BY <1>1, <1>2, <1>3, InitIInv, NextIInv, InitOpenInv, InitOrderInv, PTL DEF Spec
=============================================================================
