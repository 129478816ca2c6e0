--------------------------- MODULE MCSentinelFlow ---------------------------
(* The functions the sentinel runs analyse.  The names are x, y and z, and the *)
(* parameter e; the function ends with a return in its body.                  *)
EXTENDS SentinelFlow

CONSTANTS A, B, x, y, z, e

St(kind, n, src, grp) == [kind |-> kind, n |-> n, src |-> src, grp |-> grp]
Values == Subjects \cup Names \cup {Other, NilErr}

\* A local name is in scope where its definition stands, and behind it.
Visible(p, i, n) ==
  n = e \/ \E j \in Defines(p, n) : j < i /\ Stmt(p, j).grp \in {0, Stmt(p, i).grp}

\* What the compiler accepts: names are visible where they are used, are defined
\* once in a scope; nothing follows a return in its scope, and the function ends
\* with one; the bodies of the ifs do not interleave.
WellFormed(p) ==
  /\ \A i \in Indices(p) :
       /\ Stmt(p, i).src \in Names => Visible(p, i, Stmt(p, i).src)
       /\ Stmt(p, i).kind = "assign" => Visible(p, i, Stmt(p, i).n)
       /\ Stmt(p, i).kind = "define" =>
            /\ Stmt(p, i).n = e => Stmt(p, i).grp # 0
            /\ \A j \in Defines(p, Stmt(p, i).n) : j # i => Stmt(p, j).grp # Stmt(p, i).grp
            /\ Stmt(p, i).src # NilErr
       /\ \A j \in 1..(i - 1) :
            /\ Stmt(p, j).kind = "return" => Stmt(p, j).grp \notin {0, Stmt(p, i).grp}
            /\ Stmt(p, j).grp = Stmt(p, i).grp /\ Stmt(p, i).grp # 0 =>
                 \A k \in j..i : Stmt(p, k).grp = Stmt(p, i).grp
  /\ Stmt(p, Len(p.stmts)).kind = "return" /\ Stmt(p, Len(p.stmts)).grp = 0

\* The names that the alias resolver follows mean their one definition wherever they
\* stand.  (The functions of the known gaps are the ones without this.)
AliasesAreFinal(p) ==
  \A n \in Names :
    Cardinality(Defines(p, n)) = 1 /\ (\A d \in Defines(p, n) : Stmt(p, d).src # Other) =>
    \A d \in Defines(p, n), i \in Indices(p) :
      /\ ~(Stmt(p, i).kind = "assign" /\ Stmt(p, i).n = n)
      /\ n \in {Stmt(p, i).src, Stmt(p, i).n} => Stmt(p, d).grp \in {0, Stmt(p, i).grp} /\ i >= d

Fn(stmts, cases, emits, uses) == [stmts |-> stmts, cases |-> cases, emits |-> emits, uses |-> uses]
Case(members) == [guarded |-> FALSE, members |-> members, optional |-> FALSE]

Annotations ==
  {<<{}, {}, {}>>, <<{}, {}, {A}>>, <<{}, {A}, {}>>, <<{Case({A})}, {}, {}>>,
   <<{Case({Star})}, {}, {}>>, <<{Case({A, Blank})}, {}, {}>>,
   <<{[Case({B}) EXCEPT !.guarded = TRUE], [Case({A}) EXCEPT !.optional = TRUE]}, {}, {}>>}

Annotated(bodies, annotations) ==
  {Fn(b, a[1], a[2], a[3]) : b \in bodies, a \in annotations}

Returns == {St("return", e, s, 0) : s \in Values \cup {Trusted}}
Bindings(names, srcs, groups) ==
  {St(k, n, s, g) : k \in {"define", "assign"}, n \in names, s \in srcs, g \in groups}
Others(srcs, groups) ==
  {St(k, e, s, g) : k \in {"call", "handoff", "observe", "return"}, s \in srcs, g \in groups}

Accepted(programs) == {p \in programs : WellFormed(p) /\ AliasesAreFinal(p)}

\* One binding and one other statement, everything an annotation can say.
Mixed ==
  Annotated({<<s, t, r>> : s \in Bindings({x, e}, {A, B, Other}, {0, Guarded}),
               t \in Others({x, A, NilErr}, {0, Guarded}) \cup Bindings({x, y}, {A, x}, {0, Guarded}),
               r \in Returns}, Annotations)

\* Three bindings, for the ways a value can take to the return.
Flows ==
  Annotated({<<s, t, u, r>> : s \in Bindings({x}, {A, Other}, {0}),
               t \in Bindings({x, y}, {A, B, x}, {0, Guarded}),
               u \in Bindings({x, y}, {A, x, y, Other}, Groups \cup {0}),
               r \in {St("return", e, n, 0) : n \in {x, y}}},
            {<<{}, {}, {}>>, <<{Case({A})}, {}, {}>>, <<{}, {A}, {}>>})

AnalysedPrograms == Accepted(Mixed) \cup Accepted(Flows)

----------------------------------------------------------------------------
(* Known gaps: functions with an alias that is assigned to again. *)

\* x := ErrA; x = other(); return x
ReassignPrograms ==
  {Fn(<<St("define", x, A, 0), St("assign", x, Other, 0), St("return", e, x, 0)>>, {}, {}, {})}

\* z := ErrB; y := z; x := ErrA; x = y; return x
MaskedPrograms ==
  {Fn(<<St("define", z, B, 0), St("define", y, z, 0), St("define", x, A, 0),
        St("assign", x, y, 0), St("return", e, x, 0)>>, {}, {}, {})}
=============================================================================
