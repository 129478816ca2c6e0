----------------------------- MODULE CallerGuard -----------------------------
(* What a caller must and need not check of a call's results                  *)
(* (internal/analysis/caller_dead_guard.go, cond_caller_safety_violation.go): *)
(* a guard on a result that the callee's vow:nil or vow:cond contract already *)
(* decides is reported as dead, and a dereference of a result whose paired    *)
(* guard has not run is reported as unsafe.  Both passes walk every block     *)
(* with the same state; the walk is modelled once, with both reports.         *)
(*                                                                            *)
(* Beside the analyzer's state each frame of the walk carries the set of      *)
(* environments in which some execution reaches the statement: the reference  *)
(* that the reports are judged against.                                       *)
EXTENDS Integers, FiniteSets, SequencesExt

CONSTANTS
  Names,     \* local variables
  Values,    \* what they hold: Nil and literals
  Nil,
  Blank,     \* the blank identifier
  Contracts, \* callee -> its contract
  Programs   \* the function bodies to walk

(* A contract has the number of results, those declared `!` and the logical   *)
(* rules; an operand of a rule that is not a bare result compared by == or != *)
(* to one literal has position 0.                                             *)
(*                                                                            *)
(* A program is its syntax tree: the nodes in source order, the body of the   *)
(* function first.  Each has its kind, the node it stands in (up) and the     *)
(* last node below it (end).  A block and a case clause have the list of      *)
(* their statements; the other statements are call [callee, lhs, new],        *)
(* rewrite [n], range [n], var [n], func [n], use [n], return, loop [body],   *)
(* switch [body] and if [init, n, op, val, body, els], whose operator is "?"  *)
(* when the condition is not a comparison of a local with a literal and whose *)
(* els is 0, a block or, in an else-if, an if.                                *)

Kinds == {"block", "case", "call", "rewrite", "range", "var", "func", "use", "return",
          "loop", "switch", "if"}

Nodes(ast) == 1..Len(ast)

Blocks(ast) == {p \in Nodes(ast) : ast[p].kind = "block"}

\* What ast.Inspect of p visits.
Span(ast, p) == p..ast[p].end

Children(x) ==
  CASE x.kind \in {"block", "case"} -> Range(x.list)
    [] x.kind \in {"loop", "switch"} -> {x.body}
    [] x.kind = "if" -> {x.body, x.els} \ {0}
    [] OTHER -> {}

Comparisons == {"==", "!="}

\* One statement, apart from where it stands.
NodeOK(ast, x) ==
  /\ x.kind \in Kinds
  /\ x.kind \in {"block", "case"} => x.list \in Seq(Nat) /\ IsInjective(x.list)
  /\ x.kind \in {"rewrite", "range", "var", "func", "use"} => x.n \in Names
  /\ x.kind = "call" =>
       /\ x.callee \in DOMAIN Contracts /\ x.new \in BOOLEAN
       /\ x.lhs \in Seq(Names \cup {Blank}) /\ Len(x.lhs) = Contracts[x.callee].results
       /\ \A i, j \in 1..Len(x.lhs) : x.lhs[i] = x.lhs[j] /\ i # j => x.lhs[i] = Blank
  /\ x.kind \in {"loop", "switch", "if"} => x.body \in Blocks(ast)
  /\ x.kind = "if" =>
       /\ x.init \in BOOLEAN /\ x.n \in Names /\ x.op \in Comparisons \cup {"?"} /\ x.val \in Values
       /\ x.els # 0 => x.els \in Nodes(ast) /\ x.els # x.body

IsProgram(ast) ==
  /\ ast # <<>> /\ ast[1].kind = "block"
  /\ \A p \in Nodes(ast) :
       /\ NodeOK(ast, ast[p])
       /\ ast[p].end \in p..Len(ast)
       /\ \A c \in Children(ast[p]) :
            c \in (p + 1)..ast[p].end /\ ast[c].up = p /\ ast[c].end <= ast[p].end

OperandOK(o, c) == o.pos \in 0..c.results /\ o.op \in Comparisons /\ o.val \in Values

IsContract(c) ==
  /\ c.results \in Nat /\ c.nonnil \subseteq 1..c.results
  /\ c.rules \in Seq(Range(c.rules))
  /\ \A r \in Range(c.rules) :
       r.dir \in {"=>", "<=>"} /\ OperandOK(r.left, c) /\ OperandOK(r.right, c)

ASSUME CallerGuardAssumption ==
  /\ Nil \in Values /\ Blank \notin Names
  /\ \A f \in DOMAIN Contracts : IsContract(Contracts[f])
  /\ \A ast \in Programs : ast \in Seq(Range(ast)) /\ IsProgram(ast)

VARIABLES
  program,  \* the syntax tree
  stack,    \* the block being walked and the blocks around it
  scanned,  \* the blocks that were entered
  reports,  \* the diagnostics
  visited   \* the statements scanned so far, in order

vars == <<program, stack, scanned, reports, visited>>

State(op, val) == [op |-> op, val |-> val]

----------------------------------------------------------------------------
(* Syntax. *)

AssignedBy(x) ==
  CASE x.kind = "call" -> Range(x.lhs)
    [] x.kind = "rewrite" -> {x.n}
    [] x.kind = "if" /\ x.init -> {x.n}
    [] OTHER -> {}

\* The assignments, increments and address-of operators anywhere in p.
Writes(ast, p) == (UNION {AssignedBy(ast[q]) : q \in Span(ast, p)}) \ {Blank}

ContainsFuncLit(ast, p) == \E q \in Span(ast, p) : ast[q].kind = "func"

BranchShortCircuits(ast, blk) ==
  ast[blk].list # <<>> /\ ast[Last(ast[blk].list)].kind = "return"

RecognisedGuardShape(x) == x.op # "?"

NamesDeclaredBy(x) == IF x.kind = "var" THEN {x.n} ELSE {}

\* An if that descendIntoIfBody enters, and one whose body leaves the block it
\* stands in after a comparison that can be read.
Descends(x) == x.kind = "if" /\ ~x.init

LeavingGuard(ast, x) ==
  Descends(x) /\ BranchShortCircuits(ast, x.body) /\ RecognisedGuardShape(x)

PlainElse(ast, x) == x.els # 0 /\ ast[x.els].kind = "block"

----------------------------------------------------------------------------
(* The analyzer's state: bindings that wait for their paired guard, and       *)
(* bindings whose narrowing is established.                                   *)

OppositeGuardState(s) == [s EXCEPT !.op = IF @ = "==" THEN "!=" ELSE "=="]

\* condCallerNarrowRuleShape: an implication's left side is the guard; of an
\* equivalence the == side is, when the other side is a !=.
RuleShape(r) ==
  LET shape(g, t) == {[guard |-> g, target |-> t]} IN
  IF r.left.pos = 0 \/ r.right.pos = 0 \/ r.left.pos = r.right.pos THEN {}
  ELSE IF r.dir = "=>" THEN shape(r.left, r.right)
  ELSE IF r.left.op = "==" /\ r.right.op = "!=" THEN shape(r.left, r.right)
  ELSE IF r.left.op = "!=" /\ r.right.op = "==" THEN shape(r.right, r.left)
  ELSE {}

DeadGuardOutcome(narrow, guard) ==
  LET match == narrow.val = guard.val
      same  == narrow.op = guard.op
  IN IF narrow.op = "!=" /\ ~match THEN "undecided"
     ELSE IF same = match THEN "redundant" ELSE "impossible"

\* Shadowed names lose their binding and the pending ones paired with them.
Forget(b, ns) ==
  [pending  |-> {x \in b.pending : x.bound \notin ns /\ x.guardName \notin ns},
   narrowed |-> {x \in b.narrowed : x.bound \notin ns}]

\* Rewritten names take the narrowed ones paired with them too.
Drop(b, ns) ==
  LET f == Forget(b, ns) IN
  [f EXCEPT !.narrowed = {x \in @ : x.source = "cond" => x.guardName \notin ns}]

\* Defect: a rewritten guard keeps the bindings paired with it.
InvalidateWithoutCascade(ast, p, b) ==
  LET ns == NamesDeclaredBy(ast[p]) \cup Writes(ast, p) IN
  [pending  |-> {x \in b.pending : x.bound \notin ns},
   narrowed |-> {x \in b.narrowed : x.bound \notin ns}]

Invalidate(ast, p, b) == Drop(Forget(b, NamesDeclaredBy(ast[p])), Writes(ast, p))

Promoted(b, ps) ==
  [pending  |-> b.pending \ ps,
   narrowed |-> {x \in b.narrowed : \A p \in ps : p.bound # x.bound} \cup ps]

ApplyBodyNarrow(name, proof, b) ==
  Promoted(b, {x \in b.pending : x.guardName = name /\ x.guardNarrow = proof})

\* Defect: a guard on the bound local itself proves nothing.
PromoteByPairOnly(ast, x, b) ==
  IF LeavingGuard(ast, x)
  THEN ApplyBodyNarrow(x.n, OppositeGuardState(State(x.op, x.val)), b)
  ELSE b

\* A guard whose body leaves the block proves the opposite for what follows, of
\* the paired local or of the bound one itself.
PromoteOnGuard(ast, x, b) ==
  IF LeavingGuard(ast, x)
  THEN LET through == OppositeGuardState(State(x.op, x.val))
           paired  == ApplyBodyNarrow(x.n, through, b)
       IN Promoted(paired, {y \in paired.pending : y.bound = x.n /\ y.narrow = through})
  ELSE b

NilBindings(st) ==
  {[bound |-> st.lhs[i], source |-> "nil", narrow |-> State("!=", Nil),
    guardName |-> Blank, guardNarrow |-> State("!=", Nil)] :
      i \in {j \in Contracts[st.callee].nonnil : j <= Len(st.lhs) /\ st.lhs[j] # Blank}}

\* The bindings the rules offer; the first rule for a local is the one recorded.
CondBinding(st, k) ==
  {[bound |-> st.lhs[s.target.pos], source |-> "cond",
    narrow |-> State(s.target.op, s.target.val),
    guardName |-> st.lhs[s.guard.pos], guardNarrow |-> State(s.guard.op, s.guard.val)] :
      s \in {t \in RuleShape(Contracts[st.callee].rules[k]) :
               /\ t.guard.pos <= Len(st.lhs) /\ t.target.pos <= Len(st.lhs)
               /\ st.lhs[t.target.pos] # Blank}}

RecordBindings(st, b) ==
  IF st.kind # "call" THEN b
  ELSE LET nils == NilBindings(st)
           narrowed == {x \in b.narrowed : \A y \in nils : y.bound # x.bound} \cup nils
           free(x) == \A y \in b.pending \cup narrowed : y.bound # x.bound
           rules == 1..Len(Contracts[st.callee].rules)
           first(x, k) == \A j \in 1..(k - 1) : \A y \in CondBinding(st, j) : y.bound # x.bound
       IN [pending  |-> b.pending \cup UNION {{x \in CondBinding(st, k) : free(x) /\ first(x, k)} :
                                                k \in rules},
           narrowed |-> narrowed]

----------------------------------------------------------------------------
(* Executions.  An environment gives each variable of each block its value; a *)
(* frame knows the block in which the visible variable of a name was          *)
(* declared, which is the scanned block itself for those from outside.        *)

Unset == [n \in Names |-> Nil]

\* Nothing is known of the variables around a block that is scanned on its own.
Fresh(ast, blk) ==
  {[c \in Blocks(ast) |-> IF c = blk THEN w ELSE Unset] : w \in [Names -> Values]}

Satisfies(v, s) == (v = s.val) <=> (s.op = "==")

Truth(f, x, e) == Satisfies(e[f.scope[x.n]][x.n], State(x.op, x.val))

RuleHolds(r, ret) ==
  LET holds(o) == Satisfies(ret[o.pos], o) IN
  r.left.pos # 0 /\ r.right.pos # 0 =>
    IF r.dir = "=>" THEN holds(r.left) => holds(r.right) ELSE holds(r.left) <=> holds(r.right)

\* What a callee that keeps its contract returns.
ReturnsOf(c) ==
  {ret \in [1..c.results -> Values] :
     /\ \A i \in c.nonnil : ret[i] # Nil
     /\ \A k \in 1..Len(c.rules) : RuleHolds(c.rules[k], ret)}

Havoc(es, scope, ns) ==
  {[d \in DOMAIN e |-> [n \in Names |-> IF n \in ns /\ scope[n] = d THEN w[n] ELSE e[d][n]]] :
     e \in es, w \in [Names -> Values]}

\* Names written inside a nested list may or may not be rewritten.
MayHavoc(es, scope, ns) == es \cup Havoc(es, scope, ns)

Store(es, scope, lhs, rets) ==
  {[d \in DOMAIN e |-> [n \in Names |->
      IF scope[n] = d /\ \E i \in 1..Len(lhs) : lhs[i] = n
      THEN r[CHOOSE i \in 1..Len(lhs) : lhs[i] = n] ELSE e[d][n]]] : e \in es, r \in rets}

\* The scope behind a declaration.
Declared(f, ns) == [n \in Names |-> IF n \in ns THEN f.block ELSE f.scope[n]]

\* The scope and the environments behind a statement other than a descended if.
ScopeBehind(f, x) ==
  CASE x.kind = "call" /\ x.new -> Declared(f, Range(x.lhs))
    [] x.kind = "var" -> Declared(f, {x.n})
    [] OTHER -> f.scope

EnvsBehind(ast, f, p) ==
  LET x == ast[p]
      scope == ScopeBehind(f, x)
  IN CASE x.kind = "call" -> Store(f.envs, scope, x.lhs, ReturnsOf(Contracts[x.callee]))
       [] x.kind \in {"var", "rewrite", "range", "func"} -> Havoc(f.envs, scope, {x.n})
       [] x.kind = "return" -> {}
       [] OTHER -> MayHavoc(f.envs, scope, Writes(ast, p))

----------------------------------------------------------------------------
(* The walk. *)

\* The scan of one block; els is the else block to descend into next, if any.
Frame(blk, at, scope, b, es, els) ==
  [block |-> blk, at |-> at, scope |-> scope, b |-> b, envs |-> es, els |-> els]

NoBindings == [pending |-> {}, narrowed |-> {}]

Top == stack[Len(stack)]
TopList == program[Top.block].list
Here == TopList[Top.at]
Scanning == stack # <<>> /\ Top.els = <<>> /\ Top.at <= Len(TopList)

\* reportCallerDeadGuard
DeadGuards(ast, f, p) ==
  LET x == ast[p] IN
  {[kind |-> "dead", at |-> p, name |-> y.bound,
    outcome |-> DeadGuardOutcome(y.narrow, State(x.op, x.val)),
    truths |-> {Truth(f, x, e) : e \in f.envs}] :
      y \in {z \in f.b.narrowed :
               /\ LeavingGuard(ast, x) /\ z.bound = x.n
               /\ DeadGuardOutcome(z.narrow, State(x.op, x.val)) # "undecided"}}

\* reportCondCallerSafetyViolation
UnsafeUses(ast, f, p) ==
  LET x == ast[p] IN
  {[kind |-> "unsafe", at |-> p, name |-> y.bound,
    values |-> {e[f.scope[x.n]][x.n] : e \in f.envs}] :
      y \in {z \in f.b.pending : x.kind = "use" /\ z.bound = x.n}}

Report ==
  /\ reports' = reports \cup DeadGuards(program, Top, Here) \cup UnsafeUses(program, Top, Here)
  /\ visited' = Append(visited, Here)
  /\ UNCHANGED program

Init ==
  /\ program \in Programs
  /\ stack = <<>> /\ scanned = {} /\ reports = {} /\ visited = <<>>

\* A statement with a function literal retires every binding; the blocks in it are
\* left to the walk of the file.
ScanFuncLit ==
  /\ Scanning /\ ContainsFuncLit(program, Here)
  /\ Report
  /\ stack' = [stack EXCEPT ![Len(stack)] =
                 Frame(Top.block, Top.at + 1, Top.scope, NoBindings,
                       MayHavoc(Top.envs, Top.scope, Names), <<>>)]
  /\ UNCHANGED scanned

Rebound(ast, p, b) == RecordBindings(ast[p], PromoteOnGuard(ast, ast[p], Invalidate(ast, p, b)))

ScanStatement ==
  /\ Scanning /\ ~ContainsFuncLit(program, Here) /\ ~Descends(program[Here])
  /\ Report
  /\ stack' = [stack EXCEPT ![Len(stack)] =
                 Frame(Top.block, Top.at + 1, ScopeBehind(Top, program[Here]),
                       Rebound(program, Here, Top.b), EnvsBehind(program, Top, Here), <<>>)]
  /\ UNCHANGED scanned

\* The state in a branch that runs when the condition is as in proof.
Branch(x, proof, b) ==
  IF RecognisedGuardShape(x) THEN ApplyBodyNarrow(x.n, proof, b) ELSE b

\* The executions in which the condition has the value t.
When(f, x, t) == {e \in f.envs : RecognisedGuardShape(x) => (Truth(f, x, e) = t)}

BodyFrame(f, x, b) ==
  Frame(x.body, 1, f.scope, Branch(x, State(x.op, x.val), b), When(f, x, TRUE), <<>>)

ElseFrame(f, x, b) ==
  Frame(x.els, 1, f.scope, Branch(x, OppositeGuardState(State(x.op, x.val)), b),
        When(f, x, FALSE), <<>>)

\* The executions that pass an if without entering a block of its that is descended.
PassesBy(ast, f, x) ==
  IF x.els = 0 THEN When(f, x, FALSE)
  ELSE IF PlainElse(ast, x) THEN {}
  ELSE MayHavoc(When(f, x, FALSE), f.scope, Writes(ast, x.els))

\* Defect: the descended block is not marked as scanned.
DescendUnmarked(blk) == scanned

\* A block entered by the descent is none for the walk of the file.
Descend(blk) == scanned \cup {blk}

\* descendIntoIfBody, descendSafetyIntoIfBody: the body is scanned with a copy of
\* the state, narrowed by what the branch proves; then a plain else block is.
ScanIf ==
  /\ Scanning /\ ~ContainsFuncLit(program, Here) /\ Descends(program[Here])
  /\ Report
  /\ LET x == program[Here]
         b == Rebound(program, Here, Top.b)
         f == Frame(Top.block, Top.at + 1, Top.scope, b, PassesBy(program, Top, x),
                    IF PlainElse(program, x) THEN <<ElseFrame(Top, x, b)>> ELSE <<>>)
     IN /\ stack' = Append([stack EXCEPT ![Len(stack)] = f], BodyFrame(Top, x, b))
        /\ scanned' = Descend(x.body)

ScanElse ==
  /\ stack # <<>> /\ Top.els # <<>>
  /\ LET f == Frame(Top.block, Top.at, Top.scope, Top.b, Top.envs, <<>>) IN
     stack' = Append([stack EXCEPT ![Len(stack)] = f], Top.els[1])
  /\ scanned' = Descend(Top.els[1].block)
  /\ UNCHANGED <<program, reports, visited>>

\* The end of a block: executions that fall out of it go on in the block around.
FinishBlock ==
  /\ stack # <<>> /\ Top.els = <<>> /\ Top.at > Len(TopList)
  /\ LET left == {[e EXCEPT ![Top.block] = Unset] : e \in Top.envs}
         back(f) == Frame(f.block, f.at, f.scope, f.b, f.envs \cup left, f.els)
     IN stack' = [i \in 1..(Len(stack) - 1) |->
                    IF i = Len(stack) - 1 THEN back(stack[i]) ELSE stack[i]]
  /\ UNCHANGED <<program, scanned, reports, visited>>

\* validateCallerDeadGuard: the walk of the file comes to the next block that was
\* not scanned yet, and scans it on its own.
ScanNextBlock ==
  /\ stack = <<>>
  /\ \E blk \in Blocks(program) \ scanned :
       /\ \A other \in Blocks(program) \ scanned : blk <= other
       /\ stack' = <<Frame(blk, 1, [n \in Names |-> blk], NoBindings, Fresh(program, blk), <<>>)>>
       /\ scanned' = scanned \cup {blk}
  /\ UNCHANGED <<program, reports, visited>>

Finished == stack = <<>> /\ Blocks(program) \subseteq scanned

Done == Finished /\ UNCHANGED vars

Next == ScanFuncLit \/ ScanStatement \/ ScanIf \/ ScanElse \/ FinishBlock \/ ScanNextBlock \/ Done

Spec == Init /\ [][Next]_vars

----------------------------------------------------------------------------
(* Properties. *)

\* The two maps hold one binding per local and no local twice, so the report of
\* a guard can name the contract that decides it (caller_dead_guard.go:438).
TypeOK ==
  \A i \in 1..Len(stack) :
    LET f == stack[i] IN
    /\ f.block \in scanned /\ f.at \in 1..(Len(program[f.block].list) + 1)
    /\ f.scope \in [Names -> Blocks(program)]
    /\ f.envs \subseteq [Blocks(program) -> [Names -> Values]]
    /\ \A x, y \in f.b.pending \cup f.b.narrowed : x.bound = y.bound => x = y
    /\ f.b.pending \cap f.b.narrowed = {}

\* A guard reported as dead (caller_dead_guard.go:420) is dead: in no execution
\* with callees that keep their contracts does an impossible guard fire or a
\* redundant one let pass, whatever assignments, shadowing declarations and
\* guards stand between the call and the guard.
DeadGuardIsDead ==
  \A r \in reports : r.kind = "dead" =>
    IF r.outcome = "impossible" THEN TRUE \notin r.truths ELSE FALSE \notin r.truths

\* A dereference reported as unsafe (cond_caller_safety_violation.go:150) can
\* really meet a nil value: the message says the rule leaves it possibly nil.
UnsafeUseMayBeNil ==
  \A r \in reports : r.kind = "unsafe" /\ r.values # {} => Nil \in r.values

\* The descent and the walk of the file share the set of scanned blocks
\* (caller_dead_guard.go:160): no statement is examined twice, so no diagnostic
\* is repeated.
NoStatementTwice == \A i, j \in 1..Len(visited) : visited[i] = visited[j] => i = j

----------------------------------------------------------------------------
(* What the proof about dead guards asks of a program: the two shapes of the  *)
(* known gaps do not occur in it.                                             *)

\* No range clause assigns to a local.
NoRangeClause(ast) == \A p \in Nodes(ast) : ast[p].kind # "range"

\* No guard stands inside the branch with which another guard leaves.
NoGuardInBranch(ast) ==
  \A p \in Nodes(ast) : LeavingGuard(ast, ast[p]) =>
    \A q \in Span(ast, ast[p].body) : ~LeavingGuard(ast, ast[q])

=============================================================================
