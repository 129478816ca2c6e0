------------------------------- MODULE NilFlow -------------------------------
(* What the analyzer claims about values from the guards on the way to them   *)
(* (internal/analysis/narrow_ssa.go, narrow_subject.go, nil_narrow.go,        *)
(* narrow_field_invalidate.go, nil_flow_ssa.go, cond_ssa.go, cond_range_ssa.go,*)
(* cond_path_ssa.go), and the executions of the function those claims are     *)
(* about.                                                                     *)
(*                                                                            *)
(* The function has a pointer parameter p, an integer parameter n, a local x  *)
(* defined as p and reassigned (an SSA phi at one block), a local whose       *)
(* address is taken, a field read through another parameter, and calls that   *)
(* need a non-nil argument in every block.  The analyzer's claims are made    *)
(* once per function; the execution then walks the blocks.                    *)
EXTENDS Integers, FiniteSets, SequencesExt

CONSTANTS
  Graphs,   \* control-flow graphs to analyse
  Blocks,   \* their basic blocks; 1 is the entry
  Nil, Obj, \* the values of a pointer
  MaxInt    \* the largest value of n, an integer of a small machine type

Subjects == {"p", "x", "var", "field", "cell", "n"}

ASSUME NilFlowAssumption ==
  /\ 1 \in Blocks /\ Blocks \subseteq Nat \ {0}
  /\ Nil # Obj
  /\ MaxInt \in Nat
  /\ \A g \in Graphs : g.asks \subseteq Subjects

(* A graph gives each block                                                   *)
(*   succ    its successors: two behind an If, the then side first            *)
(*   cond    the If's condition [subj, op, lit, flip]: of p, x or the field   *)
(*           with nil ("==", "!=", or "as" for errors.As and type assertions),*)
(*           of n with a literal (flip: the literal stands left), or "other"  *)
(*   stores  when it writes the field: "before" or "after" the block reads it *)
(*   assign  what it assigns to the variable p, if anything                   *)
(* and phi, the block where x merges (0: nowhere), with the value each edge   *)
(* brings; and asks, the subjects a call in it is about (what is not asked    *)
(* about keeps one value).  Every block is reachable, and x has no other      *)
(* merge.                                                                     *)

VARIABLES
  graph,   \* the function
  claims,  \* block -> what the analyzer claims at its start; empty before it ran
  at,      \* the block being executed; 0 before the function is called
  env      \* the values: p, its variable, n, x, the field and the local cell

vars == <<graph, claims, at, env>>

----------------------------------------------------------------------------
(* The graph. *)

Preds(g, b) == {a \in Blocks : b \in Range(g.succ[a])}

EdgesOf(g) == UNION {{<<a, b>> : b \in Range(g.succ[a])} : a \in Blocks}

\* Some path over the edges leads from a to b: they leave every set of blocks
\* with a in it and b outside.
Reaches(edges, a, b) ==
  \A S \in SUBSET (Blocks \ {b}) : a \in S => \E e \in edges : e[1] \in S /\ e[2] \notin S

\* The blocks reachable from b, b included.
Forward(g, b) == {c \in Blocks : Reaches(EdgesOf(g), b, c)}

Backward(g, b) == {a \in Blocks : b \in Forward(g, a)}

\* The dominator tree of the SSA package: every path from the entry to b meets a.
Dominates(g, a, b) ==
  \/ a = b
  \/ a = 1
  \/ ~Reaches({e \in EdgesOf(g) : e[1] # a /\ e[2] # a}, 1, b)

StrictDominators(g, b) == {a \in Blocks \ {b} : Dominates(g, a, b)}

TerminatingIf(g, b) == Len(g.succ[b]) = 2

----------------------------------------------------------------------------
(* Guards. *)

\* narrowSubject.matches: a value is itself; a field is any load of its address.
Matches(c, subj) == c.subj = subj

\* binopProvesFact, callProvesFact, extractProvesFact: what taking one side of
\* the condition proves of the subject's nilness.
BranchProvesFact(c, subj, then, positive) ==
  /\ Matches(c, subj)
  /\ IF c.op = "as" THEN then /\ ~positive ELSE ((c.op = "==") = then) = positive

\* dominantSide: the side of h's If that dominates b, if any.  (Asked of b or of
\* the block below h on the way to b, it answers the same.)
DominantSide(g, h, b) ==
  IF Dominates(g, g.succ[h][1], b) THEN {TRUE}
  ELSE IF Dominates(g, g.succ[h][2], b) THEN {FALSE} ELSE {}

\* blocksBetween: the blocks that can run behind the guard and before the use.
Span(g, guard, use) == Forward(g, guard) \cap Backward(g, use)

OnCycle(g, b, span) == \E s \in Range(g.succ[b]) : s \in span /\ b \in Forward(g, s)

BlockWritesField(g, b, use) ==
  IF b = use THEN "before" \in g.stores[b] ELSE g.stores[b] # {}

\* Defect: a loop around the use is not looked for.
HoldsIgnoringLoops(g, subj, guard, use) ==
  subj = "field" => \A b \in Span(g, guard, use) \ {guard} : ~BlockWritesField(g, b, use)

\* proofHoldsFrom: a value keeps its proof; a field keeps it while nothing can
\* write it between the guard and the use.
ProofHoldsFrom(g, subj, guard, use) ==
  subj = "field" =>
    LET span == Span(g, guard, use) IN
    /\ ~(use \in span /\ OnCycle(g, use, span))
    /\ \A b \in span \ {guard} : ~BlockWritesField(g, b, use)

DominatorWalkProvesFact(g, b, subj, positive, use) ==
  \E h \in StrictDominators(g, b) :
    /\ TerminatingIf(g, h)
    /\ \E side \in DominantSide(g, h, b) : BranchProvesFact(g.cond[h], subj, side, positive)
    /\ ProofHoldsFrom(g, subj, h, use)

\* Defect: a merge proves nothing.
EdgeIsNoProof(g, a, b, subj, positive, use) == FALSE

EdgeIsProof(g, a, b, subj, positive, use) ==
  /\ TerminatingIf(g, a)
  /\ BranchProvesFact(g.cond[a], subj, g.succ[a][1] = b, positive)
  /\ ProofHoldsFrom(g, subj, a, use)

\* proves, edgeProvesFact: a dominating guard, or a proof on every incoming edge,
\* by the edge itself or by the block it leaves.  A block met again on the way
\* proves nothing, so an answer has a finite derivation: the blocks that prove the
\* fact are the least set closed under this rule, inside every other one.
Proves(g, b, subj, positive, use) ==
  LET walk == {c \in Blocks : DominatorWalkProvesFact(g, c, subj, positive, use)}
      edges == {e \in EdgesOf(g) : EdgeIsProof(g, e[1], e[2], subj, positive, use)}
      proves(c, S) == \/ c \in walk
                      \/ /\ Preds(g, c) # {}
                         /\ \A a \in Preds(g, c) : <<a, c>> \in edges \/ a \in S
  IN \A S \in SUBSET (Blocks \ {b}) : \E c \in Blocks \ S : proves(c, S)

BlockProvesFact(g, b, subj, positive) == Proves(g, b, subj, positive, b)

\* edgeCarriesNonNil
EdgeCarriesNonNil(g, a, b, subj) ==
  EdgeIsProof(g, a, b, subj, FALSE, b) \/ Proves(g, a, subj, FALSE, b)

\* narrowedByDominatingGuard: the nearest dominating guard on the subject decides,
\* "nil" or "nonnil"; the join of edges is not consulted.
GuardVerdict(g, b, subj) ==
  LET deciding == {h \in StrictDominators(g, b) :
                     TerminatingIf(g, h) /\ g.cond[h].subj = subj /\ g.cond[h].op # "as"
                     /\ DominantSide(g, h, b) # {}}
      nearest == {h \in deciding : \A j \in deciding : Dominates(g, j, h)}
  IN UNION {{IF BranchProvesFact(g.cond[h], subj, side, TRUE) THEN "nil" ELSE "nonnil" :
               side \in DominantSide(g, h, b)} : h \in nearest}

\* dominatorPathNilCheck: the same walk for a path below a parameter.
PathVerdict(g, b) == GuardVerdict(g, b, "field")

----------------------------------------------------------------------------
(* Nilness of SSA values, and the report at a call that needs a non-nil       *)
(* argument.  p is declared `?`.                                              *)

\* Defect: one non-nil edge is enough.
JoinByAnyEdge(states) ==
  IF \E s \in states : s = "nonnil" THEN "nonnil" ELSE "nillable"

JoinStates(states) ==
  IF states = {"nonnil"} THEN "nonnil"
  ELSE IF states \cap {"nillable", "nil"} # {} THEN "nillable" ELSE "unknown"

\* ssaValueNilness: a value met again answers unknown, so of several edges with
\* the parameter only the first one reads its declaration.  A load answers for
\* the address it reads.
ValueNilness(v) ==
  CASE v = "p" -> "nillable"
    [] v = "nil" -> "nil"
    [] v = "new" -> "nonnil"
    [] v = "cell" -> "nonnil"
    [] OTHER -> "unknown"

\* joinPhi
JoinPhi(g) ==
  LET b == g.phi.block
      state(a) == LET v == g.phi.edge[a] IN
                  IF ValueNilness(v) = "nonnil" \/ EdgeCarriesNonNil(g, a, b, v)
                  THEN "nonnil"
                  ELSE IF \E c \in Preds(g, b) : c < a /\ g.phi.edge[c] = v
                  THEN "unknown" ELSE ValueNilness(v)
  IN JoinStates({state(a) : a \in Preds(g, b)})

\* The SSA value behind the name x in block b.
ValueOfX(g, b) == IF g.phi.block # 0 /\ Dominates(g, g.phi.block, b) THEN "x" ELSE "p"

\* argProvenNonNil, resultProvenNonNil
ProvenNonNil(g, v) == IF v = "x" THEN JoinPhi(g) = "nonnil" ELSE ValueNilness(v) = "nonnil"

\* argNilNarrowed, resultNilNarrowed: the guards speak of the value that is passed.
Narrowed(g, b, v) == BlockProvesFact(g, b, v, FALSE)

\* checkCallArgNilFlow, checkReturnNilFlow: every argument here resolves to the
\* declaration of p, through the definition of its name.
Reported(g, b, v) == ~ProvenNonNil(g, v) /\ ~Narrowed(g, b, v)

\* fieldArgNarrowed
FieldNarrowed(g, b) == BlockProvesFact(g, b, "field", FALSE)

----------------------------------------------------------------------------
(* Integer intervals. *)

MinInt == 0 - MaxInt - 1
Ints == MinInt..MaxInt

\* Arithmetic of the machine type.
Wrap(i) == IF i > MaxInt THEN MinInt ELSE IF i < MinInt THEN MaxInt ELSE i

SwapOrderedOp(op) ==
  CASE op = "<" -> ">" [] op = "<=" -> ">=" [] op = ">" -> "<" [] op = ">=" -> "<=" [] OTHER -> op

NegateOrderedOp(op) ==
  CASE op = "==" -> "!=" [] op = "!=" -> "==" [] op = "<" -> ">="
    [] op = "<=" -> ">"  [] op = ">" -> "<="  [] OTHER -> "<"

\* guardRangeBound, an absent end being the empty set.
BoundOf(op, lit) ==
  CASE op = "<"  -> [lower |-> {}, upper |-> {Wrap(lit - 1)}]
    [] op = "<=" -> [lower |-> {}, upper |-> {lit}]
    [] op = ">"  -> [lower |-> {Wrap(lit + 1)}, upper |-> {}]
    [] op = ">=" -> [lower |-> {lit}, upper |-> {}]
    [] op = "==" -> [lower |-> {lit}, upper |-> {lit}]
    [] OTHER     -> [lower |-> {}, upper |-> {}]

GuardRangeBound(c, then) ==
  LET swapped == IF c.flip THEN SwapOrderedOp(c.op) ELSE c.op
  IN BoundOf(IF then THEN swapped ELSE NegateOrderedOp(swapped), c.lit)

\* accumulateRangeFromGuards: the ends that the dominating guards prove; the
\* intersection keeps the tightest of each.
RangeEnds(g, b) ==
  LET guards == {h \in StrictDominators(g, b) : TerminatingIf(g, h) /\ g.cond[h].subj = "n"}
      bounds == UNION {{GuardRangeBound(g.cond[h], side) : side \in DominantSide(g, h, b)} :
                         h \in guards}
  IN [lower |-> UNION {x.lower : x \in bounds}, upper |-> UNION {x.upper : x \in bounds}]

Tightest(r) ==
  [lower |-> {i \in r.lower : \A j \in r.lower : j <= i},
   upper |-> {i \in r.upper : \A j \in r.upper : i <= j}]

Admits(r, i) == (\A l \in r.lower : l <= i) /\ (\A u \in r.upper : i <= u)

----------------------------------------------------------------------------
(* Execution. *)

Asked(g, what, claim, none) == IF what \in g.asks THEN claim ELSE none

ClaimsOf(g) ==
  [b \in Blocks |->
     [reported |-> [v \in g.asks \cap {"p", "x", "cell"} |->
                      Reported(g, b, IF v = "x" THEN ValueOfX(g, b) ELSE v)],
      provedNil |-> Asked(g, "p", BlockProvesFact(g, b, "p", TRUE), FALSE),
      verdict |-> Asked(g, "var", GuardVerdict(g, b, "p"), {}),
      fieldSafe |-> Asked(g, "field", FieldNarrowed(g, b), FALSE),
      path |-> Asked(g, "field", PathVerdict(g, b), {}),
      range |-> Asked(g, "n", Tightest(RangeEnds(g, b)), [lower |-> {}, upper |-> {}])]]

Stored(g, b, when, f) == IF when \in g.stores[b] THEN {Nil, Obj} ELSE {f}

Init ==
  /\ graph \in Graphs
  /\ claims = <<>>
  /\ at = 0
  /\ env = [p |-> Obj, var |-> Obj, x |-> Obj, field |-> Obj, cell |-> Obj, n |-> 0]

\* The analyzer answers every question about the function.
Analyse ==
  /\ claims = <<>>
  /\ claims' = ClaimsOf(graph)
  /\ UNCHANGED <<graph, at, env>>

\* A program with the function in it calls it.
Call ==
  /\ claims # <<>> /\ at = 0
  /\ at' = 1
  /\ \E p \in {Nil, Obj}, f \in Asked(graph, "field", {Nil, Obj}, {Obj}),
        n \in Asked(graph, "n", Ints, {0}) :
       env' = [p |-> p, var |-> p, x |-> p, field |-> f, cell |-> p, n |-> n]
  /\ UNCHANGED <<graph, claims>>

Compare(i, op, lit) ==
  CASE op = "==" -> i = lit [] op = "!=" -> i # lit [] op = "<" -> i < lit
    [] op = "<=" -> i <= lit [] op = ">" -> i > lit [] OTHER -> i >= lit

\* The outcomes of a block's condition.
Outcomes(c, e) ==
  CASE c.subj = "other" -> BOOLEAN
    [] c.subj = "n" -> {IF c.flip THEN Compare(c.lit, c.op, e.n) ELSE Compare(e.n, c.op, c.lit)}
    [] c.op = "as" -> IF e[c.subj] = Nil THEN {FALSE} ELSE BOOLEAN
    [] OTHER -> {(e[c.subj] = Nil) = (c.op = "==")}

Merged(g, a, b, e) ==
  IF g.phi.block # b THEN e.x
  ELSE CASE g.phi.edge[a] = "p" -> e.p
         [] g.phi.edge[a] = "x" -> e.x
         [] g.phi.edge[a] = "nil" -> Nil
         [] OTHER -> Obj

\* The block reads the field for its condition, may write it, and branches; the
\* next block may write it before its own call.
Step ==
  /\ at # 0
  /\ LET g == graph
         succ == g.succ[at]
         taken == IF TerminatingIf(g, at)
                  THEN {IF o THEN succ[1] ELSE succ[2] : o \in Outcomes(g.cond[at], env)}
                  ELSE Range(succ)
     IN \E b \in taken :
          \E f1 \in Stored(g, at, "after", env.field) :
            \E f2 \in Stored(g, b, "before", f1),
               cell \in Asked(g, "cell", {env.cell, Nil}, {env.cell}) :
              /\ at' = b
              /\ env' = [env EXCEPT !.field = f2, !.cell = cell,
                           !.x = Merged(g, at, b, env),
                           !.var = IF g.assign[b] = "none" THEN @
                                   ELSE IF g.assign[b] = "nil" THEN Nil ELSE Obj]
  /\ UNCHANGED <<graph, claims>>

Returned == at # 0 /\ graph.succ[at] = <<>> /\ UNCHANGED vars

Next == Analyse \/ Call \/ Step \/ Returned

Spec == Init /\ [][Next]_vars

----------------------------------------------------------------------------
(* Functions for which the claims are right.                                  *)

SideOf(g, h, side) == g.succ[h][IF side THEN 1 ELSE 2]

\* Every path from the entry to b takes the edge from h to s.
Cut(g, h, s, b) == ~Reaches(EdgesOf(g) \ {<<h, s>>}, 1, b)

\* The condition says something of its value on this side.
Speaks(c, side) == c.subj # "other" /\ (c.op = "as" => side)

\* The side of a guard that dominates a block is the edge that leads there: a side
\* that is a merge or a loop header dominates what it is no proof for.
SidesAreEdges(g) ==
  \A h \in Blocks : TerminatingIf(g, h) =>
    \A b \in Blocks \ {h} : Dominates(g, h, b) =>
      \A side \in DominantSide(g, h, b) :
        Speaks(g.cond[h], side) => Cut(g, h, SideOf(g, h, side), b)

\* What the SSA package guarantees: an entry without predecessors, no dead blocks,
\* an If with two targets, literals of n's type.
ControlFlow(g) ==
  /\ g.succ \in [Blocks -> Seq(Blocks)]
  /\ \A b \in Blocks : TerminatingIf(g, b) => g.succ[b][1] # g.succ[b][2]
  /\ Preds(g, 1) = {} /\ Forward(g, 1) = Blocks
  /\ \A b \in Blocks :
       /\ g.cond[b].subj \in {"p", "x", "field", "n", "other"}
       /\ g.cond[b].subj = "n" => /\ g.cond[b].op \in {"==", "!=", "<", "<=", ">", ">="}
                                  /\ g.cond[b].lit \in Ints /\ g.cond[b].flip \in BOOLEAN

\* The phi is the one definition of x behind its block, and dominates its uses.
PhiForm(g) ==
  LET m == g.phi.block
      behind(b) == m \in Blocks \ {1} /\ Dominates(g, m, b)
  IN /\ m # 0 => /\ m \in Blocks \ {1}
                 /\ \A b \in Forward(g, m) : behind(b)
                 /\ \A a \in Preds(g, m) : g.phi.edge[a] \in {"p", "x", "nil", "new"}
     /\ \A b \in Blocks : g.cond[b].subj = "x" => behind(b)

\* A guard on the field reads it last in its block.
GuardsReadLast(g) ==
  \A b \in Blocks : g.cond[b].subj = "field" => "after" \notin g.stores[b]

Unassigned(g) == \A b \in Blocks : g.assign[b] = "none"

----------------------------------------------------------------------------
(* Properties. *)

Running == at # 0

\* An argument that is nil in some execution and stems from a parameter declared
\* `?` is reported where it is passed (nil_flow_ssa.go:116): the guard matcher and
\* the phi join never silence a call that a nil value reaches.
NilArgumentIsReported ==
  Running =>
    \A v \in graph.asks \cap {"p", "x"} : env[v] = Nil => claims[at].reported[v]

\* What the analyzer claims at a block is true of every execution that gets there:
\* the verdict that decides a nil check of a rule on a parameter (cond_ssa.go:93);
\* that a field argument the guard silenced is not nil (nil_narrow.go:131), whatever
\* is stored or handed over between the guard and the call, loops included; and the
\* interval that several guards prove for n (cond_range_ssa.go:175), with literals
\* at the ends of its type.
ClaimsHold ==
  Running =>
    /\ \A r \in claims[at].verdict : (env.var = Nil) = (r = "nil")
    /\ claims[at].fieldSafe => env.field # Nil
    /\ Admits(claims[at].range, env.n)

\* The blocks some execution with a nil p reaches, by search over the edges that
\* a nil p can take.
NilReach(g) ==
  LET open == {e \in EdgesOf(g) :
                 TerminatingIf(g, e[1]) =>
                   ~BranchProvesFact(g.cond[e[1]], "p", g.succ[e[1]][1] = e[2], FALSE)}
  IN {b \in Blocks : Reaches(open, 1, b)}

\* The proof over merges is exact where there is no loop (narrow_ssa.go:60): p is
\* proved non-nil in precisely the blocks that no execution with a nil p reaches,
\* and proved nil only where p is nil.
ProofsAreExact ==
  /\ Running => (claims[at].provedNil => env.p = Nil)
  /\ claims = <<>> /\ "p" \in graph.asks /\ (\A e \in EdgesOf(graph) : e[1] < e[2]) =>
       \A b \in Blocks : BlockProvesFact(graph, b, "p", FALSE) <=> b \notin NilReach(graph)

=============================================================================
