---------------------------- MODULE SentinelFlow ----------------------------
(* Sentinel errors (internal/analysis/consume.go, classify.go, propagate.go,  *)
(* flow.go, flow_ssa.go, return_check.go, emit_validation.go): which          *)
(* references to a sentinel the analyzer reports as leaks, what it says of    *)
(* the values returned, and the executions of the function it says it of.     *)
(*                                                                            *)
(* The function returns one error.  Its statements stand in the body          *)
(* (grp = 0) or in the body of an if (grp > 0); the if of group Guarded tests *)
(* the parameter that a case of the annotation may require.                   *)
EXTENDS Integers, FiniteSets, Sequences

CONSTANTS
  Programs,   \* functions to analyse
  Subjects,   \* the package's sentinels (vow:define @Sentinel)
  Names,      \* local names and parameters
  Groups,     \* the if bodies
  Guarded,    \* the one whose condition is the required one
  Other,      \* the result of a call, or any other error
  Trusted,    \* the result of a vow:discharged call
  NilErr,     \* the nil literal
  Star, Blank \* the members `*` and `_` of a sum

ASSUME SentinelAssumption ==
  /\ Guarded \in Groups /\ 0 \notin Groups
  /\ Subjects \cap Names = {}
  /\ {Other, Trusted, NilErr, Star, Blank} \cap (Subjects \cup Names) = {}

(* A function is                                                              *)
(*   stmts   statements [kind, n, src, grp]: n := src, n = src, a call with   *)
(*           the argument src (to a vow:use callee, as an observer's argument *)
(*           in an if, or plainly), and returns of src                        *)
(*   cases   its vow:cond cases [guarded, members, optional]                  *)
(*   emits   the sentinels of its vow:emit                                    *)
(*   uses    the sentinels its vow:use callee takes over                      *)
\* The contexts of a reference that isInConditional and isObserverCall tell apart,
\* and the statements that bind and return.
Kinds == {"define", "assign", "call", "handoff", "observe", "return"}

VARIABLES
  program,
  pass,     \* the pass that is running, "run" for the execution
  cursor,   \* the statement it is at
  reports,  \* [at, subject, kind]
  envs,     \* the states the executions can be in before the statement
  returned  \* statement -> what executions have returned there

vars == <<program, pass, cursor, reports, envs, returned>>

Stmt(p, i) == p.stmts[i]
Indices(p) == 1..Len(p.stmts)
Here == Stmt(program, cursor)

----------------------------------------------------------------------------
(* Aliases, by name. *)

Defines(p, n) == {i \in Indices(p) : Stmt(p, i).kind = "define" /\ Stmt(p, i).n = n}

\* resolveLocalAlias: the right side of the only `:=` of the name.
ResolveLocalAlias(p, n) ==
  IF Cardinality(Defines(p, n)) = 1 THEN {Stmt(p, i).src : i \in Defines(p, n)} ELSE {}

\* resolveSubjectInFunc: a sentinel, or a name one definition away from one.
ResolveSubject(p, id) ==
  IF id \in Subjects THEN {id} ELSE ResolveLocalAlias(p, id) \cap Subjects

\* resolveExprAlias: the far end of the chain of definitions.
ResolveExprAlias(p, src) ==
  LET end[id \in Names \cup {src}, left \in 0..Cardinality(Names)] ==
        IF id \notin Names \/ ResolveLocalAlias(p, id) = {} \/ left = 0 THEN id
        ELSE LET rhs == CHOOSE s \in ResolveLocalAlias(p, id) : TRUE IN
             IF rhs \in Names THEN end[rhs, left - 1] ELSE rhs
  IN end[src, Cardinality(Names)]

----------------------------------------------------------------------------
(* Annotations. *)

\* prereqHoldsAtReturn: the case's requirement is proved where the return stands.
PrereqHolds(p, i, c) == c.guarded => Stmt(p, i).grp = Guarded

\* Defect: the placeholder authorises like the wildcard.
BlankAuthorises(c, s) == {Star, Blank, s} \cap c.members # {}

\* sumListsSubject, conditionAuthorisesSubject
SumListsSubject(c, s) == Star \in c.members \/ s \in c.members

\* returnAnnotationLists
Authorises(p, i, s) ==
  s \in p.emits \/ \E c \in p.cases : PrereqHolds(p, i, c) /\ SumListsSubject(c, s)

\* validateSumPosition, for a value behind its aliases: a call is not analysed,
\* nil and names that are no sentinel pass by `_`, a sentinel only by name or `*`.
SumAdmits(c, v) ==
  \/ Star \in c.members
  \/ v \in {Other, Trusted}
  \/ v = NilErr /\ (c.optional \/ Blank \in c.members \/ NilErr \in c.members)
  \/ v \in Subjects \cup Names /\ (v \in c.members \/ (Blank \in c.members /\ v \notin Subjects))

----------------------------------------------------------------------------
(* Passes. *)

\* classifyReference
Class(p, i, s) ==
  CASE Stmt(p, i).kind = "handoff" /\ s \in p.uses -> "observe"
    [] Stmt(p, i).kind = "observe" -> "observe"
    [] Stmt(p, i).kind = "return" /\ Authorises(p, i, s) -> "chain"
    [] OTHER -> "leak"

\* The identifiers of a statement that the walk classifies: not a name where it is
\* introduced, nor the right side that introduces it.
References(st) ==
  CASE st.kind = "define" -> {}
    [] st.kind = "assign" -> {st.n, st.src} \cap (Names \cup Subjects)
    [] OTHER -> {st.src} \cap (Names \cup Subjects)

Leak(i, s) == [at |-> i, subject |-> s, kind |-> "leak"]

Leaks(p, i) ==
  {Leak(i, s) : s \in {t \in UNION {ResolveSubject(p, id) : id \in References(Stmt(p, i))} :
                         Class(p, i, t) = "leak"}}

\* The variable that a name stands for at statement i.
Object(p, i, n) ==
  LET g == Stmt(p, i).grp IN
  IF g # 0 /\ \E j \in Defines(p, n) : j <= i /\ Stmt(p, j).grp = g THEN <<n, g>> ELSE <<n, 0>>

Source(p, i, n) ==
  IF \E j \in Defines(p, n) : j < i /\ Stmt(p, j).grp = Stmt(p, i).grp /\ Stmt(p, i).grp # 0
  THEN <<n, Stmt(p, i).grp>> ELSE <<n, 0>>

WritersOf(p, i, o) ==
  {j \in 1..(i - 1) : Stmt(p, j).kind \in {"define", "assign"} /\ Object(p, j, Stmt(p, j).n) = o}

\* The body of the if returns behind statement j.
Leaves(p, j) ==
  \E k \in Indices(p) : k > j /\ Stmt(p, j).grp # 0 /\ Stmt(p, k).grp = Stmt(p, j).grp
                        /\ Stmt(p, k).kind = "return"

\* The assignments whose value the SSA form merges into o at statement i.
Reaching(p, i, o) ==
  {j \in WritersOf(p, i, o) :
     /\ Stmt(p, j).grp = Stmt(p, i).grp \/ ~Leaves(p, j)
     /\ \A k \in WritersOf(p, i, o) :
          k > j => Stmt(p, k).grp \notin {0, Stmt(p, i).grp, Stmt(p, j).grp}}

\* Defect: a merge keeps its last edge.
LastEdge(p, i, n) ==
  LET f[k \in 1..i, m \in Names] ==
        UNION {LET src == Stmt(p, j).src IN
               IF src \in Subjects THEN {src} ELSE IF src \in Names THEN f[j, src] ELSE {} :
                 j \in {l \in Reaching(p, k, Source(p, k, m)) :
                          \A h \in Reaching(p, k, Source(p, k, m)) : h <= l}}
  IN f[i, n]

\* Defect: assignments that others have overwritten count too.
Overwritten(p, i, n) ==
  LET f[k \in 1..i, m \in Names] ==
        UNION {LET src == Stmt(p, j).src IN
               IF src \in Subjects THEN {src} ELSE IF src \in Names THEN f[j, src] ELSE {} :
                 j \in WritersOf(p, k, Source(p, k, m))}
  IN f[i, n]

\* collectSSASubjects: back through copies and merges to the sentinels themselves.
SSASubjects(p, i, n) ==
  LET f[k \in 1..i, m \in Names] ==
        UNION {LET src == Stmt(p, j).src IN
               IF src \in Subjects THEN {src} ELSE IF src \in Names THEN f[j, src] ELSE {} :
                 j \in Reaching(p, k, Source(p, k, m))}
  IN f[i, n]

\* reportSSALeaks at one return: names the walk over references resolved are left
\* to it.
SSALeaks(p, i) ==
  LET n == Stmt(p, i).src IN
  IF Stmt(p, i).kind # "return" \/ n \notin Names \/ ResolveSubject(p, n) # {} THEN {}
  ELSE {Leak(i, s) : s \in {t \in SSASubjects(p, i, n) : ~Authorises(p, i, t)}}

\* checkReturnAgainstAnnotation for every case that applies
PositionReports(p, i) ==
  IF Stmt(p, i).kind # "return" THEN {}
  ELSE {[at |-> i, subject |-> ResolveExprAlias(p, Stmt(p, i).src), kind |-> "position"] :
          c \in {d \in p.cases : PrereqHolds(p, i, d) /\
                                 ~SumAdmits(d, ResolveExprAlias(p, Stmt(p, i).src))}}

\* Defect: any mention of the sentinel in the body is taken for an emission.
EmitByMention(p) ==
  {[at |-> 0, subject |-> s, kind |-> "emit"] :
     s \in {t \in p.emits : \A i \in Indices(p) : Stmt(p, i).src # t}}

\* validateEmitCallees
EmitReports(p) ==
  {[at |-> 0, subject |-> s, kind |-> "emit"] :
     s \in {t \in p.emits : \A i \in Indices(p) :
              Stmt(p, i).kind = "return" => ResolveExprAlias(p, Stmt(p, i).src) # t}}

NextPass == [refs |-> "ssa", ssa |-> "positions", positions |-> "run", run |-> "done"]

Init ==
  /\ program \in Programs
  /\ pass = "refs" /\ cursor = 1 /\ reports = {}
  /\ envs = {[took |-> t, val |-> [o \in Names \X (Groups \cup {0}) |-> Other]] : t \in SUBSET Groups}
  /\ returned = [i \in Indices(program) |-> {}]

\* One statement of one pass over the function.
Analyse ==
  /\ pass \in {"refs", "ssa", "positions"} /\ cursor <= Len(program.stmts)
  /\ reports' = reports \cup (CASE pass = "refs" -> Leaks(program, cursor)
                                [] pass = "ssa" -> SSALeaks(program, cursor)
                                [] OTHER -> PositionReports(program, cursor))
  /\ cursor' = cursor + 1
  /\ UNCHANGED <<program, pass, envs, returned>>

FinishPass ==
  /\ pass # "done" /\ cursor > Len(program.stmts)
  /\ pass' = NextPass[pass]
  /\ cursor' = IF pass' = "done" THEN cursor ELSE 1
  /\ reports' = reports \cup (IF pass = "positions" THEN EmitReports(program) ELSE {})
  /\ UNCHANGED <<program, envs, returned>>

\* The executions that reach the statement carry it out.
Value(e, src) ==
  IF src \in Names THEN e.val[Source(program, cursor, src)]
  ELSE IF src = Trusted THEN Other ELSE src

Execute ==
  /\ pass = "run" /\ cursor <= Len(program.stmts)
  /\ LET reach == {e \in envs : Here.grp = 0 \/ Here.grp \in e.took} IN
     /\ envs' = (envs \ reach) \cup
                IF Here.kind = "return" THEN {}
                ELSE IF Here.kind \notin {"define", "assign"} THEN reach
                ELSE {[e EXCEPT !.val[Object(program, cursor, Here.n)] = Value(e, Here.src)] : e \in reach}
     /\ returned' = IF Here.kind # "return" THEN returned
                    ELSE [returned EXCEPT ![cursor] = {Value(e, Here.src) : e \in reach}]
  /\ cursor' = cursor + 1
  /\ UNCHANGED <<program, pass, reports>>

Done == pass = "done" /\ UNCHANGED vars

Next == Analyse \/ FinishPass \/ Execute \/ Done

Spec == Init /\ [][Next]_vars

----------------------------------------------------------------------------
(* Properties. *)

\* Every report names a sentinel, or the value a position does not admit.
TypeOK ==
  /\ pass \in {"refs", "ssa", "positions", "run", "done"}
  /\ cursor \in 1..(Len(program.stmts) + 1)
  /\ \A r \in reports : r.at \in 0..Len(program.stmts)
                        /\ (r.kind # "position" => r.subject \in Subjects)

\* A sentinel that some execution returns without authorisation is reported
\* somewhere in the function (consume.go:14, flow_ssa.go:13): between them the two
\* walks miss no way a sentinel can take to the return.
LeakIsReported ==
  pass = "done" =>
    \A i \in Indices(program) : \A s \in returned[i] \cap Subjects :
      Authorises(program, i, s) \/ \E r \in reports : r.kind = "leak" /\ r.subject = s

\* A leak reported at a return is one: some execution returns that sentinel there
\* (flow_ssa.go:24).
LeakIsTrue ==
  pass = "done" =>
    \A r \in reports : r.kind = "leak" /\ Stmt(program, r.at).kind = "return" =>
      r.subject \in returned[r.at]

\* The matcher and the propagation gate agree (return_check.go:627, propagate.go:134):
\* where one case applies to a returned sentinel, the sentinel is reported as a
\* leak exactly when the position rejects it; `_` neither admits nor authorises it.
SurfacesAgree ==
  pass = "done" =>
    \A i \in Indices(program) :
      LET s == ResolveExprAlias(program, Stmt(program, i).src)
          cases == {c \in program.cases : PrereqHolds(program, i, c)}
      IN Stmt(program, i).kind = "return" /\ s \in Subjects /\ Cardinality(cases) = 1
           /\ s \notin program.emits =>
           (Leak(i, s) \in reports <=> [at |-> i, subject |-> s, kind |-> "position"] \in reports)

\* A vow:emit declaration that passes its self-validation is honest: some execution
\* returns the sentinel (emit_validation.go:103).
EmitIsHonest ==
  pass = "done" =>
    \A s \in program.emits :
      \/ [at |-> 0, subject |-> s, kind |-> "emit"] \in reports
      \/ \E i \in Indices(program) : s \in returned[i]

=============================================================================
