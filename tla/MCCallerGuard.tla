---------------------------- MODULE MCCallerGuard ----------------------------
(* Instances of CallerGuard: a call of a function with a contract, followed   *)
(* by guards, assignments, shadowing declarations, dereferences and nested    *)
(* blocks over a result `x` and its paired `e`.                               *)
EXTENDS CallerGuard

MCNames == {"x", "e"}
MCValues == {Nil, "1", "2"}

Op(pos, op, val) == [pos |-> pos, op |-> op, val |-> val]
Rule(l, dir, r) == [left |-> l, dir |-> dir, right |-> r]

\* both     err == nil <=> $1 != nil          nonnil   $1 declared !, with a rule
\* imply    err == nil => $1 != nil           inverse  err != nil => $1 == nil
\* literal  status == 1 => $1 != nil, and a second rule for the same result
MCContracts ==
  LET contract(nonnil, rules) == [results |-> 2, nonnil |-> nonnil, rules |-> rules]
      eNil == Op(2, "==", Nil)
      eSet == Op(2, "!=", Nil)
      xNil == Op(1, "==", Nil)
      xSet == Op(1, "!=", Nil)
  IN [both    |-> contract({}, <<Rule(xSet, "<=>", eNil)>>),
      imply   |-> contract({}, <<Rule(eNil, "=>", xSet)>>),
      inverse |-> contract({}, <<Rule(eSet, "=>", xNil), Rule(Op(0, "==", Nil), "=>", xNil)>>),
      literal |-> contract({}, <<Rule(Op(2, "==", "1"), "=>", xSet), Rule(eNil, "=>", xNil)>>),
      nonnil  |-> contract({1}, <<Rule(eNil, "=>", Op(1, "==", "1"))>>)]

(* Functions are written as nested lists of statements. *)

Call(c, lhs, new) == [kind |-> "call", callee |-> c, lhs |-> lhs, new |-> new]
On(kind, n) == [kind |-> kind, n |-> n]
Return == [kind |-> "return"]
Nest(kind, body) == [kind |-> kind, body |-> body]
If(n, op, val, body) == [kind |-> "if", init |-> FALSE, n |-> n, op |-> op, val |-> val,
                         body |-> body, els |-> <<>>, elseIf |-> FALSE]
Else(st, els, elseIf) == [st EXCEPT !.els = els, !.elseIf = elseIf]
Guard(n, op, val) == If(n, op, val, <<Return>>)

Calls == {Call(c, lhs, FALSE) : c \in DOMAIN MCContracts, lhs \in {<<"x", "e">>, <<"x", Blank>>}}

XGuards == {Guard("x", op, Nil) : op \in {"==", "!="}}
EGuards == {Guard("e", op, v) : op \in {"==", "!="}, v \in {Nil, "1"}}

\* Bodies that fall through, and bodies that end in a return.
OpenBodies ==
  {<<>>, <<On("use", "x")>>, <<On("rewrite", "e")>>, <<Guard("x", "==", Nil)>>,
   <<On("var", "x"), Guard("x", "==", Nil)>>,
   <<On("var", "e"), Guard("e", "!=", Nil), Guard("x", "==", Nil)>>,
   <<Call("both", <<"x", "e">>, TRUE), Guard("e", "!=", Nil), Guard("x", "!=", Nil)>>}
ClosedBodies == {<<Return>>, <<On("use", "x"), Return>>}

Ifs ==
  {If("e", op, v, b) : op \in {"==", "!="}, v \in {Nil, "1"}, b \in OpenBodies \cup ClosedBodies}
  \cup {If("x", op, Nil, b) : op \in {"==", "!="}, b \in OpenBodies \cup ClosedBodies}
  \cup {If("x", "?", Nil, b) : b \in OpenBodies}
  \cup {Else(If("e", op, Nil, <<>>), <<g>>, FALSE) : op \in {"==", "!="}, g \in XGuards}
  \cup {Else(Guard("e", "!=", Nil), <<g>>, eif) : g \in XGuards, eif \in BOOLEAN}
  \cup {[If("x", "==", Nil, b) EXCEPT !.init = TRUE] : b \in {<<Return>>, <<Guard("e", "!=", Nil)>>}}

Simple == {On(k, n) : k \in {"use", "rewrite", "func"}, n \in MCNames}
          \cup {Nest("loop", <<On("rewrite", "e"), Call("imply", <<"x", "e">>, FALSE), On("use", "x")>>),
                Nest("loop", <<Guard("e", "!=", Nil)>>)}

GuardPrograms ==
  {<<c, s, t, u>> : c \in Calls, s \in Ifs \cup Simple, t \in Simple \cup EGuards \cup XGuards,
                    u \in XGuards}
  \cup {<<c, g, s, t>> : c \in Calls, g \in EGuards, s \in Ifs, t \in XGuards}

\* Dereferences among guards of one block.  Below a rule that promises nil they
\* stand where nothing is known of x.
UsePrograms ==
  LET step == Simple \cup EGuards
      ifs  == {If("e", op, Nil, b) : op \in {"==", "!="},
                                     b \in {<<>>, <<On("use", "x")>>, <<On("rewrite", "x")>>}}
  IN {<<c, s, t, On("use", "x")>> :
        c \in Calls, s \in step \cup ifs, t \in step \cup ifs}
     \cup {<<c, s, t, On("use", "x")>> :
        c \in {d \in Calls : d.callee # "inverse"}, s \in step \cup XGuards \cup ifs, t \in XGuards}
     \cup {<<c, s, t, On("use", "x")>> :
        c \in {d \in Calls : d.callee # "inverse"}, s \in XGuards, t \in Simple \cup XGuards}

Lists(st) ==
  CASE st.kind \in {"loop", "switch", "case"} -> <<st.body>>
    [] st.kind = "if" -> <<st.body, st.els>>
    [] OTHER -> <<>>

\* The shapes of the known gaps: a dereference below or behind a check of x itself.
\* (UsePrograms has those where the check is a guard the walk can read.)
BehindOwnCheck(p) ==
  LET parts(i) == {p[i]} \cup UNION {Range(l) : l \in Range(Lists(p[i]))}
      checks(i) == \E st \in parts(i) : st.kind = "if" /\ st.n = "x"
  IN \E i \in 1..Len(p) : \E j \in i..Len(p) : checks(i) /\ On("use", "x") \in parts(j)

\* The nodes of a function in source order, the first of a part at position `at`.
Starts(parts, at) ==
  [i \in 1..Len(parts) |-> at + FoldLeft(LAMBDA n, l : n + Len(l), 0, SubSeq(parts, 1, i - 1))]

Listed(kind, up, at, parts) ==
  LET below == FlattenSeq(parts) IN
  <<[kind |-> kind, up |-> up, end |-> at + Len(below), list |-> Starts(parts, at + 1)]>> \o below

RECURSIVE Flat(_, _, _), FlatAll(_, _, _)
FlatAll(list, up, at) ==
  IF list = <<>> THEN <<>>
  ELSE LET h == Flat(Head(list), up, at) IN <<h>> \o FlatAll(Tail(list), up, at + Len(h))
Flat(st, up, at) ==
  LET block(list, i) == Listed("block", at, i, FlatAll(list, i, i + 1))
      place(n) == [up |-> up, end |-> at + n]
  IN CASE st.kind = "case" -> Listed("case", up, at, FlatAll(st.body, at, at + 1))
       [] st.kind \in {"loop", "switch"} ->
            LET b == block(st.body, at + 1) IN <<[st EXCEPT !.body = at + 1] @@ place(Len(b))>> \o b
       [] st.kind = "if" ->
            LET b == block(st.body, at + 1)
                at2 == at + 1 + Len(b)
                e == IF st.els = <<>> THEN <<>>
                     ELSE IF st.elseIf THEN Flat(st.els[1], at, at2) ELSE block(st.els, at2)
            IN <<[st EXCEPT !.body = at + 1, !.els = IF @ = <<>> THEN 0 ELSE at2]
                 @@ place(Len(b) + Len(e))>> \o b \o e
       [] OTHER -> <<st @@ place(0)>>

Ast(list) == Listed("block", 0, 1, FlatAll(list, 1, 2))

\* A switch with a clause that calls and dereferences.
SwitchPrograms ==
  {Ast(<<Nest("switch", <<Nest("case", <<Call(c, <<"x", "e">>, TRUE), On("use", "x")>>)>>)>>) :
     c \in {"imply", "both"}}

MCPrograms == {Ast(p) : p \in {q \in GuardPrograms : ~BehindOwnCheck(q)} \cup UsePrograms}
              \cup SwitchPrograms

\* The proof about dead guards speaks of these functions.
ASSUME ProgramsAreCovered == \A p \in MCPrograms : NoRangeClause(p) /\ NoGuardInBranch(p)

----------------------------------------------------------------------------
(* Known gaps: small functions on which the analyzers say more, or see less,  *)
(* than their comments promise.                                               *)

\* A guard inside the branch that leaves the function.
BranchPrograms ==
  {Ast(<<Call(c, <<"x", "e">>, FALSE), If("e", "!=", Nil, <<g, Return>>)>>) :
     c \in {"imply", "literal"}, g \in XGuards}

\* A dereference behind a check of the local itself.
BehindPrograms ==
  {Ast(<<Call(c, <<"x", "e">>, FALSE), If("x", "!=", Nil, <<On("use", "x")>>)>>) :
     c \in {"imply", "both"}}

\* A range loop that assigns to the local it ranges with.
RangePrograms ==
  {Ast(<<Call(c, <<"x", "e">>, FALSE), Guard("e", "!=", Nil), On("range", "x"), g>>) :
     c \in {"imply", "both"}, g \in XGuards}

\* A dereference behind a guard on the local, under a rule that promises nil.
InversePrograms ==
  {Ast(<<Call("inverse", <<"x", "e">>, FALSE), Guard("x", "==", Nil), On("use", "x")>>),
   Ast(<<Call("inverse", <<"x", "e">>, FALSE), Guard("e", "!=", Nil), Guard("x", "==", Nil),
         On("use", "x")>>)}

\* caller_dead_guard.go:152: "other nested block kinds (for / switch / range
\* bodies, and function literals) still scan independently with a fresh state":
\* when the walk ends, every statement of the function has been scanned.
EveryStatementScanned ==
  Finished => \A p \in Nodes(program) : program[p].kind # "block" => p \in Range(visited)

=============================================================================
