------------------------------ MODULE MCNilFlow ------------------------------
(* The functions the nil-flow runs analyse: all small control-flow graphs of  *)
(* a shape, and single functions with a known gap.                            *)
EXTENDS NilFlow

IfNil == [subj |-> "p", op |-> "==", lit |-> 0, flip |-> FALSE]
IfNotNil == [IfNil EXCEPT !.op = "!="]
IfAs == [IfNil EXCEPT !.op = "as"]
IfOther == [IfNil EXCEPT !.subj = "other"]
IfX == [IfNil EXCEPT !.subj = "x"]
IfField == [IfNil EXCEPT !.subj = "field"]
IfInt(op, lit, flip) == [subj |-> "n", op |-> op, lit |-> lit, flip |-> flip]

Plain(succ, cond) ==
  [succ |-> succ, cond |-> cond, stores |-> [b \in Blocks |-> {}],
   assign |-> [b \in Blocks |-> "none"],
   phi |-> [block |-> 0, edge |-> [b \in Blocks |-> "p"]],
   asks |-> {"p", "var"}]

Asking(graphs, subjects) == {[g EXCEPT !.asks = subjects] : g \in graphs}

\* Ways to leave a block whose targets are T.
Exits(T) == {<<t>> : t \in T} \cup {<<e[1], e[2]>> : e \in {d \in T \X T : d[1] # d[2]}}

Skeletons(E1, E2, E3, E4) ==
  {succ \in {<<a, b, c, d, <<>>>> : a \in E1, b \in E2, c \in E3, d \in E4} :
     Forward(Plain(succ, [b \in Blocks |-> IfOther]), 1) = Blocks}

Acyclic == Skeletons(Exits(2..5), Exits(3..5), Exits(4..5), {<<>>, <<5>>})
Loops == Skeletons({<<2>>, <<2, 5>>, <<2, 4>>, <<2, 3>>}, Exits(3..5), Exits(4..5), {<<2>>, <<3>>})

\* The skeletons with every choice of conditions for their Ifs, but guards with a
\* side that is a merge.
Built(skeletons, Conds) ==
  {g \in UNION {{Plain(succ, [b \in Blocks |-> IF Len(succ[b]) = 2 THEN c[b] ELSE IfOther]) :
                    c \in [1..3 -> Conds]} : succ \in skeletons} : SidesAreEdges(g)}

\* All guards on p.
ValueGraphs == Built(Acyclic \cup Loops, {IfNil, IfAs, IfOther})

\* x is reassigned on the way to the block where it merges.
PhiEdges(g, b) ==
  {e \in [Blocks -> {"p", "x", "nil", "new"}] :
     /\ \A a \in Blocks \ Preds(g, b) : e[a] = "p"
     /\ \A a \in Preds(g, b) :
          /\ e[a] = "x" => Dominates(g, b, a)
          /\ e[a] = "p" => ~Dominates(g, b, a)
          /\ e[a] \in {"nil", "new"} => Len(g.succ[a]) = 1
     /\ Cardinality({e[a] : a \in Preds(g, b)}) > 1}

PhiGraphs ==
  LET merges(g) == {b \in Blocks : Cardinality(Preds(g, b)) > 1
                                  /\ \A c \in Forward(g, b) : Dominates(g, b, c)}
      named(g, b) == [g EXCEPT !.cond = [a \in Blocks |->
                        IF Dominates(g, b, a) /\ g.cond[a] = IfNil THEN IfX ELSE g.cond[a]]]
  IN UNION {UNION {{[named(g, b) EXCEPT !.phi = [block |-> b, edge |-> e]] : e \in PhiEdges(g, b)} :
                     b \in merges(g)} : g \in Built(Acyclic \cup Loops, {IfNil, IfOther})}

\* One block writes the field, or hands its struct to a callee; a guard on the
\* field reads it last.
FieldGraphs ==
  UNION {{[g EXCEPT !.stores[b] = {when}] :
            <<b, when>> \in {<<c, w>> \in Blocks \X {"before", "after"} :
                               w = "after" => g.cond[c] # IfField}} :
           g \in {f \in Built(Acyclic \cup Loops, {IfField, IfOther}) :
                   \E b \in Blocks : f.cond[b] = IfField}}

\* Two guards on n, with literals at the ends of its type.
RangeGraphs ==
  LET conds == {IfInt(op, lit, flip) : op \in {"==", "!=", "<", "<=", ">", ">="},
                                       lit \in {MinInt, 0, MaxInt}, flip \in BOOLEAN}
  IN {Plain(<<<<2, 5>>, <<3, 4>>, <<>>, <<>>, <<>>>>,
            <<c[1], c[2], IfOther, IfOther, IfOther>>) : c \in conds \X conds}

MCGraphs ==
  ValueGraphs \cup Asking(PhiGraphs, {"p", "x"}) \cup Asking(FieldGraphs, {"field"})
  \cup Asking(RangeGraphs, {"n"})

\* The functions meet what the theorems ask of a function.
ASSUME GraphsAreSound ==
  \A g \in MCGraphs : /\ ControlFlow(g) /\ SidesAreEdges(g)
                      /\ PhiForm(g) /\ GuardsReadLast(g) /\ Unassigned(g)

\* The recursion of proves and edgeProvesFact with its map of visited blocks, which
\* finds the least set that Proves stands for.
RECURSIVE ProvesVisiting(_, _, _, _, _, _)
ProvesVisiting(g, b, subj, positive, use, visiting) ==
  /\ b \notin visiting
  /\ \/ DominatorWalkProvesFact(g, b, subj, positive, use)
     \/ /\ Preds(g, b) # {}
        /\ \A a \in Preds(g, b) :
             \/ EdgeIsProof(g, a, b, subj, positive, use)
             \/ ProvesVisiting(g, a, subj, positive, use, visiting \cup {b})

ASSUME RecursionFindsLeastSet ==
  /\ \A g \in Built(Acyclic \cup Loops, {IfNil, IfOther}) : \A b \in Blocks :
       Proves(g, b, "p", FALSE, b) = ProvesVisiting(g, b, "p", FALSE, b, {})
  /\ \A g \in FieldGraphs : \A b \in Blocks :
       Proves(g, b, "field", FALSE, b) = ProvesVisiting(g, b, "field", FALSE, b, {})

----------------------------------------------------------------------------
(* Known gaps: functions for which a claim fails. *)

Conds(c) == [b \in Blocks |-> IF b = 1 THEN c ELSE IfOther]

\* if p == nil { log() }; use(p)                           NilArgumentIsReported
MergeGraphs == {Plain(<<<<2, 3>>, <<3>>, <<4>>, <<5>>, <<>>>>, Conds(IfNil))}

\* if p == nil { return }; p = next(); use(p)                        ClaimsHold
ReassignGraphs ==
  {[Plain(<<<<2, 3>>, <<>>, <<4>>, <<5>>, <<>>>>, Conds(IfNil)) EXCEPT !.assign[4] = a] :
     a \in {"nil", "new"}}

\* ok := t.f != nil; t.f = next(); if ok { use(t.f) }                ClaimsHold
StaleGraphs ==
  Asking({[Plain(<<<<2, 3>>, <<4>>, <<4>>, <<5>>, <<>>>>, Conds(IfField))
             EXCEPT !.stores[1] = {"after"}]}, {"field"})

\* if t.f == nil { return }; t.f = next(); return              PathVerdictsHold
PathGraphs ==
  Asking({[Plain(<<<<2, 3>>, <<>>, <<4>>, <<5>>, <<>>>>, Conds(IfField))
             EXCEPT !.stores[4] = {"before"}]}, {"field"})

\* c := p; fill(&c); use(c)                                  NilLocalIsReported
CellGraphs == Asking({Plain(<<<<2>>, <<3>>, <<4>>, <<5>>, <<>>>>, Conds(IfOther))}, {"cell"})

\* The verdict that decides a nil check of a rule on a path below a parameter
\* (cond_path_ssa.go:60) is true of the field.
PathVerdictsHold == Running => \A r \in claims[at].path : (env.field = Nil) = (r = "nil")

\* The address-taken local: argProvenNonNil answers for "the value the call hands
\* to the callee" (nil_flow_ssa.go:178).
NilLocalIsReported == Running /\ env.cell = Nil => claims[at].reported["cell"]

=============================================================================
