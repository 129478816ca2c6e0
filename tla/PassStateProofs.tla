-------------------------- MODULE PassStateProofs --------------------------
(***************************************************************************)
(* For every package: a pass never takes passState's mutex while it holds  *)
(* it; and a finished pass has reported what the package's text calls for, *)
(* and nothing twice, although sets are built when a check, a builder or a *)
(* report first asks for them.  The second argument is a ledger: every     *)
(* diagnostic the package can cause is owed by runFunc, by a set nobody has*)
(* built, or by one call on the stack, or it has been reported; a step moves*)
(* it on, and drops it only if the text does not call for it.              *)
(***************************************************************************)
EXTENDS PassState, SequenceTheorems, TLAPS

\* A report of it takes no lock: no filter that locks applies.
Plain(d) == d.category = "" /\ d.call = "none"

\* A builder that runs with the mutex held.
Builder(c) == c.op = "get" /\ c.at = "build" /\ c.set \in HoldsLock

\* What a getter has still to ask for and to report.
CallOK(c) ==
    c.op = "get" => /\ c.reads \subseteq Reads(c.set)
                    /\ c.set \in HoldsLock => \A d \in c.todo : Plain(d)

\* Call i is the innermost one, or the one below a plain report.
Innermost(i) ==
    \/ i = Len(stack)
    \/ /\ i = Len(stack) - 1
       /\ stack[Len(stack)].op = "report"
       /\ Plain(stack[Len(stack)].diag)

\* The mutex is held exactly while a builder that holds it is on the stack.
LockInv ==
    /\ pkg \in Packages
    /\ stack \in Seq(Frames)
    /\ mu \in BOOLEAN
    /\ \A i \in 1 .. Len(stack) : CallOK(stack[i])
    /\ \A i \in 1 .. Len(stack) : Builder(stack[i]) => mu /\ Innermost(i)
    /\ mu => \E i \in 1 .. Len(stack) : Builder(stack[i])

-----------------------------------------------------------------------------
(* The stack.                                                              *)

\* A return drops the innermost call and keeps the others.
LEMMA ReturnFacts ==
    ASSUME NEW S, NEW s \in Seq(S), s # << >>
    PROVE  LET t == SubSeq(s, 1, Len(s) - 1)
           IN  /\ t \in Seq(S) /\ Len(t) = Len(s) - 1
               /\ \A i \in 1 .. Len(t) : t[i] = s[i]
<1> DEFINE n == Len(s) - 1
           t == SubSeq(s, 1, n)
<1>1. n \in Nat /\ \A i \in 1 .. n : s[i] \in S
  BY EmptySeq, LenProperties
<1> HIDE DEF n
<1>2. /\ t \in Seq(S) /\ Len(t) = IF 1 <= n THEN n - 1 + 1 ELSE 0
      /\ \A i \in 1 .. (n - 1 + 1) : t[i] = s[1 + i - 1]
  BY <1>1, SubSeqProperties
<1> HIDE DEF t
<1>3. t \in Seq(S) /\ Len(t) = n /\ \A i \in 1 .. n : t[i] = s[i]
  BY <1>1, <1>2
<1> QED
  BY <1>3 DEF t, n

\* Going on replaces the innermost call.
LEMMA ContinueFacts ==
    ASSUME NEW S, NEW s \in Seq(S), s # << >>, NEW f \in S
    PROVE  LET t == Append(SubSeq(s, 1, Len(s) - 1), f) \o << >>
           IN  /\ t \in Seq(S) /\ Len(t) = Len(s)
               /\ t[Len(s)] = f
               /\ \A i \in 1 .. (Len(s) - 1) : t[i] = s[i]
<1> DEFINE l == SubSeq(s, 1, Len(s) - 1)
           a == Append(l, f)
<1>1. l \in Seq(S) /\ Len(l) = Len(s) - 1 /\ \A i \in 1 .. Len(l) : l[i] = s[i]
  BY ReturnFacts
<1> HIDE DEF l
<1>2. a \in Seq(S) /\ Len(a) = Len(s) /\ a[Len(s)] = f /\ \A i \in 1 .. Len(l) : a[i] = l[i]
  BY <1>1, AppendProperties
<1> HIDE DEF a
<1>3. a \o << >> = a
  BY <1>2, ConcatEmptySeq
<1> QED
  BY <1>1, <1>2, <1>3 DEF a, l

\* A call from the innermost one is put above what that one goes on with.
LEMMA PushFacts ==
    ASSUME stack \in Seq(Frames), stack # << >>, NEW f \in Frames, NEW g \in Frames,
           Continue(f, <<g>>)
    PROVE  /\ stack' \in Seq(Frames) /\ Len(stack') = Len(stack) + 1
           /\ stack'[Len(stack)] = f /\ stack'[Len(stack) + 1] = g
           /\ \A i \in 1 .. (Len(stack) - 1) : stack'[i] = stack[i]
<1> DEFINE l == SubSeq(stack, 1, Len(stack) - 1)
           a == Append(l, f)
<1>1. l \in Seq(Frames) /\ Len(l) = Len(stack) - 1 /\ \A i \in 1 .. Len(l) : l[i] = stack[i]
  BY ReturnFacts
<1> HIDE DEF l
<1>2. a \in Seq(Frames) /\ Len(a) = Len(stack) /\ a[Len(stack)] = f /\ \A i \in 1 .. Len(l) : a[i] = l[i]
  BY <1>1, AppendProperties
<1> HIDE DEF a
<1>3. <<g>> \in Seq(Frames) /\ Len(<<g>>) = 1 /\ <<g>>[1] = g
  OBVIOUS
<1>4. Len(stack) \in Nat /\ Len(stack) # 0
  BY EmptySeq
<1>5. a \o <<g>> \in Seq(Frames) /\ Len(a \o <<g>>) = Len(stack) + 1
  BY <1>2, <1>3, ConcatProperties
<1>6. \A i \in 1 .. (Len(stack) + 1) :
         (a \o <<g>>)[i] = IF i <= Len(stack) THEN a[i] ELSE <<g>>[i - Len(stack)]
  BY <1>2, <1>3, <1>4, ConcatProperties
<1>7. (a \o <<g>>)[Len(stack)] = f /\ (a \o <<g>>)[Len(stack) + 1] = g
  BY <1>2, <1>3, <1>4, <1>6
<1>8. \A i \in 1 .. (Len(stack) - 1) : (a \o <<g>>)[i] = stack[i]
  BY <1>1, <1>2, <1>4, <1>6
<1>9. stack' = a \o <<g>>
  BY DEF Continue, Lower, a, l
<1> QED
  BY <1>5, <1>7, <1>8, <1>9

\* A call is a getter's or a report's.
LEMMA FrameFacts ==
    ASSUME NEW c \in Frames
    PROVE  /\ c.op \in {"get", "report"}
           /\ c.op = "get" => c.set \in Sets /\ c.todo \subseteq Diagnostics
BY DEF Frames

\* A getter that starts to build keeps what it owes.
LEMMA FrameBuilds ==
    ASSUME NEW c \in Frames, c.op = "get", NEW f, f = [c EXCEPT !.at = "build"]
    PROVE  f \in Frames /\ f.op = "get" /\ f.at = "build"
           /\ f.set = c.set /\ f.reads = c.reads /\ f.todo = c.todo
BY DEF Frames

\* A getter has asked for one set.
LEMMA FrameReads ==
    ASSUME NEW c \in Frames, c.op = "get", NEW x \in c.reads, NEW f, f = [c EXCEPT !.reads = @ \ {x}]
    PROVE  f \in Frames /\ f.op = "get" /\ f.at = c.at
           /\ f.set = c.set /\ f.reads = c.reads \ {x} /\ f.todo = c.todo
BY DEF Frames

\* A getter has made one report.
LEMMA FrameReports ==
    ASSUME NEW c \in Frames, c.op = "get", NEW x \in c.todo, NEW f, f = [c EXCEPT !.todo = @ \ {x}]
    PROVE  f \in Frames /\ f.op = "get" /\ f.at = c.at
           /\ f.set = c.set /\ f.reads = c.reads /\ f.todo = c.todo \ {x}
BY DEF Frames

\* A report goes on to a later filter.
LEMMA FrameFilters ==
    ASSUME NEW c \in Frames, c.op = "report",
           NEW x \in {"barrier", "suppress", "use", "emit"}, NEW f, f = [c EXCEPT !.at = x]
    PROVE  f \in Frames /\ f.op = "report" /\ f.at = x /\ f.set = c.set /\ f.diag = c.diag
BY DEF Frames

-----------------------------------------------------------------------------
(* The calls that are pushed.                                              *)

\* Builders that hold the mutex report plain diagnostics only.
LEMMA BuildersReportPlain ==
    ASSUME NEW s \in HoldsLock, NEW d \in BuildReports(s)
    PROVE  Plain(d)
<1>0. \A about, line : Plain(Diagnostic(about, "", "", line, "none"))
  BY DEF Diagnostic, Plain
<1>1. \A e \in ScopeReports : Plain(e)
  BY <1>0 DEF ScopeReports
<1>2. \A e \in DischargedReports : Plain(e)
  BY <1>0 DEF DischargedReports, DischargedReport
<1>3. \A e \in EmitReports : Plain(e)
  BY <1>0 DEF EmitReports, AtFunc
<1>4. d \in ScopeReports \cup DischargedReports \cup EmitReports
  BY DEF BuildReports, HoldsLock
<1> QED
  BY <1>1, <1>2, <1>3, <1>4

\* A getter starts at its lock and owes what its builder reads and reports.
LEMMA GettingOK ==
    ASSUME NEW s \in Sets
    PROVE  /\ Getting(s) \in Frames /\ CallOK(Getting(s)) /\ ~Builder(Getting(s))
           /\ Getting(s).op = "get"
<1>1. BuildReports(s) \subseteq Diagnostics
  BY DEF Diagnostics
<1>2. Reads(s) \subseteq Sets
  BY DEF Reads, Sets
<1>3. s \in HoldsLock => \A d \in BuildReports(s) : Plain(d)
  BY BuildersReportPlain
<1>4. Getting(s) \in Frames
  BY <1>1, <1>2 DEF Getting, Frames
<1>5. CallOK(Getting(s))
  BY <1>3 DEF Getting, CallOK
<1> QED
  BY <1>4, <1>5 DEF Getting, Builder

\* A report starts at the narrow scope.
LEMMA ReportingOK ==
    ASSUME NEW d \in Diagnostics
    PROVE  /\ Reporting(d) \in Frames /\ CallOK(Reporting(d)) /\ ~Builder(Reporting(d))
           /\ Reporting(d).op = "report" /\ Reporting(d).diag = d
BY DEF Reporting, Frames, CallOK, Builder

-----------------------------------------------------------------------------
(* Each way the stack changes keeps the invariant.                         *)

\* While the mutex is held its holder is the innermost call or is inside a
\* plain report.
LEMMA HeldAtTop ==
    ASSUME LockInv, stack # << >>, mu
    PROVE  Builder(Top) \/ (Top.op = "report" /\ Plain(Top.diag))
BY DEF LockInv, Innermost, Top

\* The innermost call is a well-formed one.
LEMMA TopFacts ==
    ASSUME LockInv, stack # << >>
    PROVE  Top \in Frames /\ CallOK(Top) /\ Len(stack) \in Nat \ {0}
BY EmptySeq, LenProperties DEF LockInv, Top

\* The return of a call that holds no lock.
LEMMA ReturnKeeps ==
    ASSUME LockInv, stack # << >>, ~Builder(Top), Return, pkg' = pkg, mu' = mu, Frames' = Frames
    PROVE  LockInv'
<1>1. /\ stack' \in Seq(Frames) /\ Len(stack') = Len(stack) - 1
      /\ \A i \in 1 .. Len(stack') : stack'[i] = stack[i]
  BY ReturnFacts DEF LockInv, Return, Lower
<1>2. Len(stack) \in Nat \ {0}
  BY TopFacts
<1>3. \A i \in 1 .. Len(stack') : CallOK(stack'[i])
  BY <1>1, <1>2 DEF LockInv
<1>4. \A i \in 1 .. Len(stack') : Builder(stack'[i]) => mu' /\ Innermost(i)'
  BY <1>1, <1>2 DEF LockInv, Innermost
<1>5. mu' => \E i \in 1 .. Len(stack') : Builder(stack'[i])
  BY <1>1, <1>2 DEF LockInv, Top
<1> QED
  BY <1>1, <1>3, <1>4, <1>5 DEF LockInv, CallOK, Builder, Plain

\* The return of a builder, which leaves the mutex free.
LEMMA PublishKeeps ==
    ASSUME LockInv, Publish, Frames' = Frames
    PROVE  LockInv'
<1>1. /\ stack' \in Seq(Frames) /\ Len(stack') = Len(stack) - 1
      /\ \A i \in 1 .. Len(stack') : stack'[i] = stack[i]
  BY ReturnFacts DEF LockInv, Publish, IsGetting, Return, Lower
<1>2. Len(stack) \in Nat \ {0}
  BY TopFacts DEF Publish, IsGetting
<1>3. \A i \in 1 .. Len(stack') : CallOK(stack'[i])
  BY <1>1, <1>2 DEF LockInv
<1>4. \A i \in 1 .. Len(stack') : ~Builder(stack'[i])
  BY <1>1, <1>2 DEF LockInv, Innermost, Publish, IsGetting, Top
<1> QED
  BY <1>1, <1>3, <1>4 DEF LockInv, Publish, CallOK, Builder, Plain

\* The innermost call goes on and holds the mutex as before.
LEMMA ContinueKeeps ==
    ASSUME LockInv, stack # << >>, pkg' = pkg, Frames' = Frames,
           NEW f \in Frames, CallOK(f), Continue(f, << >>),
           Builder(Top) => Builder(f),
           f.op = Top.op, f.op = "report" => f.diag = Top.diag,
           mu' \in BOOLEAN, mu' <=> (mu \/ Builder(f))
    PROVE  LockInv'
<1>1. /\ stack' \in Seq(Frames) /\ Len(stack') = Len(stack) /\ stack'[Len(stack)] = f
      /\ \A i \in 1 .. (Len(stack) - 1) : stack'[i] = stack[i]
  BY ContinueFacts DEF LockInv, Continue, Lower
<1>2. Len(stack) \in Nat \ {0}
  BY TopFacts
<1>3. \A i \in 1 .. Len(stack') : CallOK(stack'[i])
  BY <1>1, <1>2 DEF LockInv
<1>4. \A i \in 1 .. Len(stack') : Builder(stack'[i]) => mu' /\ Innermost(i)'
  BY <1>1, <1>2 DEF LockInv, Innermost, Top
<1>5. mu' => \E i \in 1 .. Len(stack') : Builder(stack'[i])
  <2>1. CASE Builder(f)
    BY <1>1, <1>2, <2>1
  <2>2. CASE mu /\ ~Builder(f)
    <3>1. PICK i \in 1 .. Len(stack) : Builder(stack[i])
      BY <2>2 DEF LockInv
    <3>2. i # Len(stack)
      BY <2>2, <3>1 DEF Top
    <3> QED
      BY <1>1, <1>2, <3>1, <3>2
  <2> QED
    BY <2>1, <2>2
<1> QED
  BY <1>1, <1>3, <1>4, <1>5 DEF LockInv, CallOK, Builder, Plain

\* The innermost call goes on and calls g: with the mutex free, or a builder
\* that holds it makes a plain report.
LEMMA PushKeeps ==
    ASSUME LockInv, stack # << >>, pkg' = pkg, mu' = mu, Frames' = Frames,
           NEW f \in Frames, CallOK(f), NEW g \in Frames, CallOK(g), ~Builder(g),
           Continue(f, <<g>>), Builder(f) <=> Builder(Top),
           mu => Builder(Top) /\ g.op = "report" /\ Plain(g.diag)
    PROVE  LockInv'
<1>1. /\ stack' \in Seq(Frames) /\ Len(stack') = Len(stack) + 1
      /\ stack'[Len(stack)] = f /\ stack'[Len(stack) + 1] = g
      /\ \A i \in 1 .. (Len(stack) - 1) : stack'[i] = stack[i]
  BY PushFacts DEF LockInv
<1>2. Len(stack) \in Nat \ {0}
  BY TopFacts
<1>3. \A i \in 1 .. Len(stack') : CallOK(stack'[i])
  BY <1>1, <1>2 DEF LockInv
<1>4. \A i \in 1 .. (Len(stack) - 1) : ~Builder(stack[i])
  <2>1. CASE mu
    <3>1. Top.op = "get"
      BY <2>1 DEF Builder
    <3> QED
      BY <1>2, <3>1 DEF LockInv, Innermost, Top
  <2>2. CASE ~mu
    BY <1>2, <2>2 DEF LockInv
  <2> QED
    BY <2>1, <2>2
<1>5. Builder(Top) => mu
  BY <1>2 DEF LockInv, Top
<1>6. \A i \in 1 .. Len(stack') : Builder(stack'[i]) => mu' /\ Innermost(i)'
  BY <1>1, <1>2, <1>4, <1>5 DEF Innermost
<1>7. mu' => \E i \in 1 .. Len(stack') : Builder(stack'[i])
  BY <1>1, <1>2
<1> QED
  BY <1>1, <1>3, <1>6, <1>7 DEF LockInv, CallOK, Builder, Plain

\* runFunc itself calls c: nothing holds the mutex.
LEMMA FirstCallKeeps ==
    ASSUME LockInv, stack = << >>, pkg' = pkg, mu' = mu, Frames' = Frames,
           NEW c \in Frames, CallOK(c), ~Builder(c), stack' \in {<< >>, <<c>>}
    PROVE  LockInv'
<1>1. ~mu
  BY DEF LockInv
<1>2. CASE stack' = << >>
  BY <1>1, <1>2 DEF LockInv
<1>3. CASE stack' = <<c>>
  <2>1. stack' \in Seq(Frames) /\ Len(stack') = 1 /\ stack'[1] = c
    BY <1>3
  <2>2. \A i \in 1 .. Len(stack') : CallOK(stack'[i]) /\ ~Builder(stack'[i])
    BY <2>1
  <2> QED
    BY <1>1, <2>1, <2>2 DEF LockInv, CallOK, Builder, Plain
<1> QED
  BY <1>2, <1>3

-----------------------------------------------------------------------------
(* The invariant is inductive.                                             *)

\* No step changes the package or, with it, what its calls may look like.
LEMMA FramesConstant ==
    ASSUME pkg' = pkg
    PROVE  Frames' = Frames /\ Diagnostics' = Diagnostics
BY DEF Frames, Diagnostics, ConfigReport, ConfigLine, Visible, MarkerReport, FindingReport,
       BuildReports, ScopeReports, DischargedReports, EmitReports, NilDeclReports,
       FieldNilReports, Carries, Bare, DischargedForms, MarkersOf

\* The reports runFunc makes are among the package's diagnostics.
LEMMA RunReports ==
    /\ ConfigReport \in Diagnostics
    /\ \A m \in MarkersOf("suppress") \cup MarkersOf("use") : MarkerReport(m) \in Diagnostics
    /\ \A d \in pkg.findings : FindingReport(d) \in Diagnostics
<1>1. ConfigReport \in Diagnostics
  BY DEF Diagnostics
<1>2. \A m \in MarkersOf("suppress") \cup MarkersOf("use") : MarkerReport(m) \in Diagnostics
  BY Zenon DEF Diagnostics
<1>3. \A d \in pkg.findings : FindingReport(d) \in Diagnostics
  <2> DEFINE F == {FindingReport(d) : d \in pkg.findings}
  <2>1. F \subseteq Diagnostics
    BY DEF Diagnostics
  <2>2. \A d \in pkg.findings : FindingReport(d) \in F
    OBVIOUS
  <2> QED
    BY <2>1, <2>2
<1> QED
  BY <1>1, <1>2, <1>3

\* What is inductive: the lock's part, and that the markers looked at are of
\* the phase's kind.
PassInv ==
    /\ LockInv
    /\ asked \in Nat
    /\ phase \in {"suppress", "use"} => work \subseteq MarkersOf(phase)

\* The phases' work.
LEMMA WorkKept ==
    ASSUME PassInv, Next
    PROVE  /\ asked' \in Nat
           /\ (phase \in {"suppress", "use"} => work \subseteq MarkersOf(phase))'
<1>1. asked' \in {asked, asked + 1}
  BY DEF Next, ReportConfigError, AskExport, NextPhase, MarkSuppressed, MarkUseAsserted,
         RejectMarker, AskInCheck, BuildAsks, ReportFinding, GetCached, GetStartsBuild, Publish,
         BuildReportsOne, DropByNarrowScope, PassNarrowScope, DischargedFilter, SuppressFilter,
         UseFilter, PassReport, Finished, Filtered, vars
<1>2. asked' \in Nat
  BY <1>1 DEF PassInv
<1>3. (phase' = phase /\ pkg' = pkg /\ work' \subseteq work) \/ (GoOn /\ pkg' = pkg)
  BY DEF Next, ReportConfigError, AskExport, NextPhase, MarkSuppressed, MarkUseAsserted,
         RejectMarker, AskInCheck, BuildAsks, ReportFinding, GetCached, GetStartsBuild, Publish,
         BuildReportsOne, DropByNarrowScope, PassNarrowScope, DischargedFilter, SuppressFilter,
         UseFilter, PassReport, Finished, Filtered, vars
<1>4. CASE phase' = phase /\ pkg' = pkg /\ work' \subseteq work
  <2>1. MarkersOf(phase)' = MarkersOf(phase)
    BY <1>4 DEF MarkersOf
  <2> QED
    BY <1>2, <1>4, <2>1 DEF PassInv
<1>5. CASE GoOn /\ pkg' = pkg
  <2>1. ASSUME phase' \in {"suppress", "use"} PROVE work' = MarkersOf(phase')
    BY <1>5, <2>1 DEF GoOn, WorkOf
  <2>2. MarkersOf(phase') = MarkersOf(phase)'
    BY <1>5 DEF MarkersOf
  <2> QED
    BY <1>2, <2>1, <2>2
<1> QED
  BY <1>3, <1>4, <1>5

\* The steps of runFunc.
LEMMA RunKeeps ==
    ASSUME PassInv
    PROVE  /\ ReportConfigError \/ AskExport \/ NextPhase => LockInv'
           /\ \A m \in pkg.markers :
                 MarkSuppressed(m) \/ MarkUseAsserted(m) \/ RejectMarker(m) => LockInv'
           /\ \A s \in Sets : AskInCheck(s) => LockInv'
           /\ \A d \in pkg.findings : ReportFinding(d) => LockInv'
<1> USE DEF PassInv
<1>1. ASSUME ReportConfigError PROVE LockInv'
  BY <1>1, FramesConstant, RunReports, ReportingOK, FirstCallKeeps DEF ReportConfigError
<1>2. ASSUME AskExport PROVE LockInv'
  <2>1. asked + 1 \in 1 .. 5
    BY <1>2 DEF AskExport, Exports
  <2>2. Exports[asked + 1] \in Sets
    BY <2>1 DEF Exports, Sets
  <2> QED
    BY <1>2, <2>2, FramesConstant, GettingOK, FirstCallKeeps DEF AskExport
<1>3. ASSUME NextPhase PROVE LockInv'
  BY <1>3, FramesConstant DEF NextPhase, LockInv, Innermost
<1>4. ASSUME NEW m \in pkg.markers, MarkSuppressed(m) PROVE LockInv'
  BY <1>4, FramesConstant DEF MarkSuppressed, LockInv, Innermost
<1>5. ASSUME NEW m \in pkg.markers, MarkUseAsserted(m) PROVE LockInv'
  BY <1>5, FramesConstant DEF MarkUseAsserted, LockInv, Innermost
<1>6. ASSUME NEW m \in pkg.markers, RejectMarker(m) PROVE LockInv'
  <2>1. MarkerReport(m) \in Diagnostics
    BY <1>6, RunReports DEF RejectMarker
  <2> QED
    BY <1>6, <2>1, FramesConstant, ReportingOK, FirstCallKeeps DEF RejectMarker
<1>7. ASSUME NEW s \in Sets, AskInCheck(s) PROVE LockInv'
  BY <1>7, FramesConstant, GettingOK, FirstCallKeeps DEF AskInCheck
<1>8. ASSUME NEW d \in pkg.findings, ReportFinding(d) PROVE LockInv'
  BY <1>8, FramesConstant, RunReports, ReportingOK, FirstCallKeeps DEF ReportFinding
<1> QED
  BY <1>1, <1>2, <1>3, <1>4, <1>5, <1>6, <1>7, <1>8

\* The steps of a getter.
LEMMA GetterKeeps ==
    ASSUME LockInv
    PROVE  /\ GetCached \/ GetStartsBuild \/ Publish => LockInv'
           /\ \A s \in Sets : BuildAsks(s) => LockInv'
           /\ \A d \in Top.todo : BuildReportsOne(d) => LockInv'
<1>1. ASSUME GetCached PROVE LockInv'
  <2>1. ~Builder(Top)
    BY <1>1 DEF GetCached, IsGetting, Builder
  <2> QED
    BY <1>1, <2>1, FramesConstant, ReturnKeeps DEF GetCached, IsGetting
<1>2. ASSUME GetStartsBuild PROVE LockInv'
  <2> DEFINE f == [Top EXCEPT !.at = "build"]
  <2>1. stack # << >> /\ Top.op = "get" /\ Top.at = "lock" /\ ~mu /\ pkg' = pkg
    BY <1>2 DEF GetStartsBuild, IsGetting
  <2>a. f \in Frames /\ f.op = "get" /\ f.at = "build"
        /\ f.set = Top.set /\ f.reads = Top.reads /\ f.todo = Top.todo
    BY <2>1, TopFacts, FrameBuilds
  <2>b. mu' = (Top.set \in HoldsLock) /\ Continue(f, << >>)
    BY <1>2 DEF GetStartsBuild
  <2> HIDE DEF f
  <2>2. CallOK(f) /\ (Builder(f) <=> Top.set \in HoldsLock)
    BY <2>1, <2>a, TopFacts DEF CallOK, Builder
  <2>3. mu' \in BOOLEAN /\ (mu' <=> Builder(f))
    <3>1. CASE Top.set \in HoldsLock
      <4>1. mu' = TRUE
        BY <2>b, <3>1
      <4> QED
        BY <2>2, <3>1, <4>1
    <3>2. CASE Top.set \notin HoldsLock
      <4>1. (Top.set \in HoldsLock) = FALSE
        BY <3>2
      <4>2. mu' = FALSE
        BY <2>b, <4>1
      <4> QED
        BY <2>2, <3>2, <4>2
    <3> QED
      BY <3>1, <3>2
  <2>4. ~Builder(Top)
    BY <2>1 DEF Builder
  <2> QED
    BY <2>1, <2>a, <2>b, <2>2, <2>3, <2>4, FramesConstant, ContinueKeeps
<1>3. ASSUME Publish PROVE LockInv'
  BY <1>3, FramesConstant, PublishKeeps DEF Publish
<1>4. ASSUME NEW s \in Sets, BuildAsks(s) PROVE LockInv'
  <2> DEFINE f == [Top EXCEPT !.reads = @ \ {s}]
  <2>1. /\ stack # << >> /\ Top.op = "get" /\ Top.at = "build" /\ s \in Top.reads
        /\ pkg' = pkg /\ mu' = mu /\ Continue(f, <<Getting(s)>>)
    BY <1>4 DEF BuildAsks, IsGetting
  <2>a. f \in Frames /\ f.op = "get" /\ f.at = Top.at
        /\ f.set = Top.set /\ f.reads = Top.reads \ {s} /\ f.todo = Top.todo
    BY <2>1, TopFacts, FrameReads
  <2> HIDE DEF f
  <2>2. f \in Frames /\ CallOK(f) /\ (Builder(f) <=> Builder(Top))
    BY <2>1, <2>a, TopFacts DEF CallOK, Builder
  <2>3. Top.set = "logical"
    BY <2>1, TopFacts DEF CallOK, Reads
  <2>4. ~Builder(Top)
    BY <2>3 DEF Builder, HoldsLock
  <2>5. ~mu
    BY <2>1, <2>4, HeldAtTop
  <2> QED
    BY <2>1, <2>2, <2>5, GettingOK, FramesConstant, PushKeeps
<1>5. ASSUME NEW d \in Top.todo, BuildReportsOne(d) PROVE LockInv'
  <2> DEFINE f == [Top EXCEPT !.todo = @ \ {d}]
  <2>1. /\ stack # << >> /\ Top.op = "get" /\ Top.at = "build"
        /\ pkg' = pkg /\ mu' = mu /\ Continue(f, <<Reporting(d)>>)
    BY <1>5 DEF BuildReportsOne, IsGetting
  <2>a. f \in Frames /\ f.op = "get" /\ f.at = Top.at
        /\ f.set = Top.set /\ f.reads = Top.reads /\ f.todo = Top.todo \ {d}
    BY <2>1, TopFacts, FrameReports
  <2> HIDE DEF f
  <2>2. f \in Frames /\ CallOK(f) /\ (Builder(f) <=> Builder(Top))
    BY <2>1, <2>a, TopFacts DEF CallOK, Builder
  <2>3. d \in Diagnostics
    BY <2>1, TopFacts, FrameFacts
  <2>4. mu => Builder(Top) /\ Plain(d)
    BY <2>1, HeldAtTop, TopFacts DEF CallOK, Builder
  <2> QED
    BY <2>1, <2>2, <2>3, <2>4, ReportingOK, FramesConstant, PushKeeps
<1> QED
  BY <1>1, <1>2, <1>3, <1>4, <1>5

\* A report drops the diagnostic or goes on to its next filter.
LEMMA FilterKeeps ==
    ASSUME LockInv, stack # << >>, Top.op = "report", pkg' = pkg, mu' = mu,
           \/ Return
           \/ \E x \in {"barrier", "suppress", "use", "emit"} :
                  Continue([Top EXCEPT !.at = x], << >>)
    PROVE  LockInv'
<1>1. ~Builder(Top)
  BY DEF Builder
<1>2. CASE Return
  BY <1>1, <1>2, FramesConstant, ReturnKeeps
<1>3. ASSUME NEW x \in {"barrier", "suppress", "use", "emit"},
             Continue([Top EXCEPT !.at = x], << >>)
      PROVE  LockInv'
  <2> DEFINE f == [Top EXCEPT !.at = x]
  <2>1. f \in Frames /\ f.op = "report" /\ f.diag = Top.diag
    BY TopFacts, FrameFilters
  <2>2. CallOK(f) /\ ~Builder(f) /\ Continue(f, << >>)
    BY <1>3, <2>1 DEF CallOK, Builder
  <2>3. mu \in BOOLEAN
    BY DEF LockInv
  <2> HIDE DEF f
  <2> QED
    BY <1>1, <2>1, <2>2, <2>3, FramesConstant, ContinueKeeps
<1> QED
  BY <1>2, <1>3

\* The steps of vowReport.
LEMMA ReportKeeps ==
    ASSUME LockInv,
           \/ DropByNarrowScope \/ PassNarrowScope \/ DischargedFilter
           \/ SuppressFilter \/ UseFilter \/ PassReport
    PROVE  LockInv'
<1> USE DEF IsReporting, Filtered
<1>1. CASE DropByNarrowScope
  BY <1>1, FilterKeeps DEF DropByNarrowScope
<1>2. CASE PassNarrowScope
  <2>1. CASE Top.diag.call \notin Funcs
    BY <1>2, <2>1, FilterKeeps DEF PassNarrowScope
  <2>2. CASE Top.diag.call \in Funcs
    <3> DEFINE f == [Top EXCEPT !.at = "barrier"]
    <3>1. /\ stack # << >> /\ Top.op = "report" /\ pkg' = pkg /\ mu' = mu
          /\ Continue(f, <<Getting("discharged")>>)
      BY <1>2, <2>2 DEF PassNarrowScope
    <3>2. f \in Frames /\ f.op = "report"
      BY <3>1, TopFacts, FrameFilters
    <3>3. CallOK(f) /\ ~Builder(f) /\ ~Builder(Top)
      BY <3>1, <3>2 DEF CallOK, Builder
    <3>4. ~mu
      BY <2>2, <3>1, <3>3, HeldAtTop, PackageAssumption DEF Plain
    <3>5. "discharged" \in Sets
      BY DEF Sets
    <3> HIDE DEF f
    <3> QED
      BY <3>1, <3>2, <3>3, <3>4, <3>5, GettingOK, FramesConstant, PushKeeps
  <2> QED
    BY <2>1, <2>2
<1>3. CASE DischargedFilter
  BY <1>3, FilterKeeps DEF DischargedFilter
<1>4. CASE SuppressFilter
  BY <1>4, FilterKeeps DEF SuppressFilter
<1>5. CASE UseFilter
  BY <1>5, FilterKeeps DEF UseFilter
<1>6. CASE PassReport
  BY <1>6, FilterKeeps DEF PassReport
<1> QED
  BY <1>1, <1>2, <1>3, <1>4, <1>5, <1>6

\* The invariant keeps the innermost call from taking the mutex it holds.
LEMMA LockInvSafe ==
    ASSUME LockInv
    PROVE  NeverReenters
<1> SUFFICES ASSUME stack # << >>, TakesLock, mu
             PROVE  FALSE
  BY DEF NeverReenters, LockInv
<1>1. CASE Builder(Top)
  BY <1>1 DEF TakesLock, IsGetting, IsReporting, Builder
<1>2. CASE Top.op = "report" /\ Plain(Top.diag)
  BY <1>2 DEF TakesLock, IsGetting, IsReporting, Plain, isSuppressibleCategory, NamesSubject
<1> QED
  BY <1>1, <1>2, HeldAtTop

LEMMA InitPass == Init => PassInv
<1> SUFFICES ASSUME Init PROVE PassInv
  OBVIOUS
<1>1. pkg \in Packages /\ stack = << >> /\ mu = FALSE /\ phase = "config" /\ asked = 0
  BY DEF Init
<1>2. stack \in Seq(Frames) /\ Len(stack) = 0
  BY <1>1, EmptySeq
<1>3. 1 .. Len(stack) = {}
  BY <1>2
<1> QED
  BY <1>1, <1>2, <1>3 DEF PassInv, LockInv

LEMMA NextPass == PassInv /\ [Next]_vars => PassInv'
<1> SUFFICES ASSUME PassInv, [Next]_vars PROVE PassInv'
  OBVIOUS
<1>1. CASE Next
  <2>1. LockInv'
    <3>1. CASE Finished
      BY <3>1, FramesConstant DEF Finished, vars, PassInv, LockInv, Innermost
    <3>2. CASE \E s \in Sets : AskInCheck(s) \/ BuildAsks(s)
      BY <3>2, RunKeeps, GetterKeeps DEF PassInv
    <3>3. CASE stack # << >> /\ \E d \in Top.todo : BuildReportsOne(d)
      BY <3>3, GetterKeeps DEF PassInv
    <3>4. CASE GetCached \/ GetStartsBuild \/ Publish
      BY <3>4, GetterKeeps DEF PassInv
    <3>5. CASE \/ DropByNarrowScope \/ PassNarrowScope \/ DischargedFilter
               \/ SuppressFilter \/ UseFilter \/ PassReport
      BY <3>5, ReportKeeps DEF PassInv
    <3>6. CASE ReportConfigError \/ AskExport \/ NextPhase
      BY <3>6, RunKeeps
    <3>7. CASE \E m \in pkg.markers :
                  MarkSuppressed(m) \/ MarkUseAsserted(m) \/ RejectMarker(m)
      BY <3>7, RunKeeps
    <3>8. CASE \E d \in pkg.findings : ReportFinding(d)
      BY <3>8, RunKeeps
    <3> QED
      BY <1>1, <3>1, <3>2, <3>3, <3>4, <3>5, <3>6, <3>7, <3>8 DEF Next
  <2> QED
    BY <1>1, <2>1, WorkKept DEF PassInv
<1>2. CASE UNCHANGED vars
  BY <1>2, FramesConstant DEF vars, PassInv, LockInv, Innermost, MarkersOf
<1> QED
  BY <1>1, <1>2

\* Whatever the package holds and in whatever order its checks ask for sets, a
\* pass never takes passState's mutex while it holds it, although builders
\* report under the lock and reports ask for sets.
THEOREM MutexIsNeverReentered == Spec => []NeverReenters
<1>1. PassInv => NeverReenters
  BY LockInvSafe DEF PassInv
<1> QED
  BY <1>1, InitPass, NextPass, PTL DEF Spec

-----------------------------------------------------------------------------
(* Where diagnostics come from.                                            *)

\* The markers whose rejection runFunc reports.
Rejected == {m \in MarkersOf("suppress") \cup MarkersOf("use") : m.form \notin {"ok", "scoped"}}

\* Every diagnostic of the package, before the filters.
Due ==
    (IF pkg.configError THEN {ConfigReport} ELSE {})
    \cup {MarkerReport(m) : m \in Rejected}
    \cup {FindingReport(d) : d \in pkg.findings}
    \cup (UNION {BuildReports(s) : s \in Sets})

\* The kind of the comment a builder's report is about.
CommentOf(s) ==
    CASE s = "scope" -> "import" [] s = "emit" -> "emit"
      [] s = "nilDecl" -> "nil" [] s = "fieldNil" -> "fieldnil" [] OTHER -> "none"

OnFunc(f) == <<"discharged", {f}>>
OnCheck == <<"check", {}>>
OnConfig == <<"config", {}>>

LEMMA RunAbouts ==
    /\ ConfigReport.about = OnConfig
    /\ \A m : MarkerReport(m).about = Comment(m)
    /\ \A d : FindingReport(d).about = OnCheck
BY DEF ConfigReport, MarkerReport, FindingReport, Diagnostic, AtFunc, OnConfig, OnCheck

LEMMA BuildAbouts ==
    ASSUME NEW s \in Sets, NEW d \in BuildReports(s)
    PROVE  IF s = "discharged" THEN \E f \in Funcs : d.about = OnFunc(f)
           ELSE \E m : m.kind = CommentOf(s) /\ d.about = Comment(m)
<1>0. \A about, category, line, call : Diagnostic(about, category, "", line, call).about = about
  BY DEF Diagnostic
<1>1. ASSUME NEW e \in ScopeReports PROVE \E m : m.kind = "import" /\ e.about = Comment(m)
  <2>1. PICK m \in MarkersOf("import") : e = Diagnostic(Comment(m), "", "", m.line, "none")
    BY Zenon DEF ScopeReports
  <2>2. e.about = Comment(m)
    BY <1>0, <2>1
  <2> QED BY <2>2 DEF MarkersOf
<1>2. ASSUME NEW e \in DischargedReports PROVE \E f \in Funcs : e.about = OnFunc(f)
  <2>1. PICK f \in Funcs : e = DischargedReport(f)
    BY Zenon DEF DischargedReports
  <2>2. e.about = OnFunc(f)
    BY <2>1 DEF DischargedReport, Diagnostic, OnFunc
  <2> QED BY <2>2
<1>3. ASSUME NEW e \in EmitReports PROVE \E m : m.kind = "emit" /\ e.about = Comment(m)
  <2>1. PICK m \in MarkersOf("emit") : e = AtFunc(m, "")
    BY Zenon DEF EmitReports
  <2>2. e.about = Comment(m)
    BY <1>0, <2>1 DEF AtFunc
  <2> QED BY <2>2 DEF MarkersOf
<1>4. ASSUME NEW e \in NilDeclReports PROVE \E m : m.kind = "nil" /\ e.about = Comment(m)
  <2>1. PICK m \in MarkersOf("nil") : e = IF m.fn \in Funcs THEN AtFunc(m, "nil-safety")
                                            ELSE Diagnostic(Comment(m), "nil-safety", "", m.line, "none")
    BY Zenon DEF NilDeclReports
  <2>2. e.about = Comment(m)
    BY <1>0, <2>1 DEF AtFunc
  <2> QED BY <2>2 DEF MarkersOf
<1>5. ASSUME NEW e \in FieldNilReports PROVE \E m : m.kind = "fieldnil" /\ e.about = Comment(m)
  <2>1. PICK m \in MarkersOf("fieldnil") : e = Diagnostic(Comment(m), "nil-safety", "", m.line, "none")
    BY Zenon DEF FieldNilReports
  <2>2. e.about = Comment(m)
    BY <1>0, <2>1
  <2> QED BY <2>2 DEF MarkersOf
<1>6. s \in {"scope", "discharged", "emit", "nilDecl", "fieldNil"}
  BY DEF BuildReports
<1> QED BY <1>1, <1>2, <1>3, <1>4, <1>5, <1>6 DEF BuildReports, CommentOf

\* The texts reports are about differ.
LEMMA AboutsApart ==
    /\ \A m, n : Comment(m) = Comment(n) => m = n
    /\ \A m, f : /\ Comment(m) # OnFunc(f) /\ Comment(m) # OnConfig
                 /\ Comment(m) # OnCheck /\ OnCheck # OnConfig
                 /\ OnFunc(f) # OnConfig
                 /\ OnFunc(f) # OnCheck
BY DEF Comment, OnFunc, OnConfig, OnCheck

\* Two sets report different diagnostics.
LEMMA BuildersApart ==
    ASSUME NEW s \in Sets, NEW t \in Sets, NEW d \in BuildReports(s), d \in BuildReports(t)
    PROVE  s = t
<1>1. CASE s = "discharged" /\ t # "discharged"
  <2>1. (\E f \in Funcs : d.about = OnFunc(f)) /\ (\E m : d.about = Comment(m))
    BY <1>1, BuildAbouts
  <2> QED BY <2>1, AboutsApart
<1>2. CASE s # "discharged" /\ t = "discharged"
  <2>1. (\E f \in Funcs : d.about = OnFunc(f)) /\ (\E m : d.about = Comment(m))
    BY <1>2, BuildAbouts
  <2> QED BY <2>1, AboutsApart
<1>3. CASE s = "discharged" /\ t = "discharged"
  BY <1>3
<1>4. CASE s # "discharged" /\ t # "discharged"
  <2>1. CommentOf(s) = CommentOf(t)
    BY <1>4, AboutsApart, BuildAbouts
  <2>2. s \in {"scope", "emit", "nilDecl", "fieldNil"} /\ t \in {"scope", "emit", "nilDecl", "fieldNil"}
    BY <1>4 DEF BuildReports, Sets
  <2> QED BY <2>1, <2>2 DEF CommentOf
<1> QED BY <1>1, <1>2, <1>3, <1>4

\* A finding is told by its report.
LEMMA FindingsApart ==
    ASSUME pkg \in Packages, NEW d \in pkg.findings, NEW e \in pkg.findings,
           FindingReport(d) = FindingReport(e)
    PROVE  d = e
<1>1. d \in FindingType /\ e \in FindingType
  BY PackageAssumption
<1>2. d.category = e.category /\ d.subject = e.subject /\ d.line = e.line /\ d.call = e.call
  BY DEF FindingReport, Diagnostic
<1>3. \A c \in FindingType :
         c = [category |-> c.category, subject |-> c.subject, line |-> c.line, call |-> c.call]
  <2> DEFINE A == {"", "must-consume", "nil-safety", "nil-decl"}
             B == Subjects \cup {""}
  <2>1. FindingType = [category: A, subject: B, line: Lines, call: Places]
    BY DEF FindingType
  <2> HIDE DEF A, B
  <2> QED BY <2>1
<1> QED BY <1>1, <1>2, <1>3

\* runFunc reports the config error, markers and findings, each differently, and
\* none of what the builders report.
LEMMA RunApart ==
    /\ \A m, n : MarkerReport(m) = MarkerReport(n) => m = n
    /\ \A m, d : /\ MarkerReport(m) # ConfigReport /\ FindingReport(d) # ConfigReport
                 /\ MarkerReport(m) # FindingReport(d)
    /\ \A s \in Sets : \A r \in BuildReports(s) :
          /\ r # ConfigReport
          /\ \A m \in Rejected : r # MarkerReport(m)
          /\ \A d : r # FindingReport(d)
<1>3. \A m \in Rejected : m.kind \in {"suppress", "use"}
  BY DEF Rejected, MarkersOf
<1>4. \A s \in Sets : CommentOf(s) \notin {"suppress", "use"}
  BY DEF CommentOf
<1>5. \A m, n : MarkerReport(m) = MarkerReport(n) => m = n
  BY AboutsApart, RunAbouts
<1>6. \A m, d : /\ MarkerReport(m) # ConfigReport /\ FindingReport(d) # ConfigReport
                /\ MarkerReport(m) # FindingReport(d)
  BY AboutsApart, RunAbouts
<1>7. ASSUME NEW s \in Sets, NEW r \in BuildReports(s)
      PROVE  /\ r # ConfigReport
             /\ \A m \in Rejected : r # MarkerReport(m)
             /\ \A d : r # FindingReport(d)
  <2>1. CASE s = "discharged"
    <3>1. PICK f \in Funcs : r.about = OnFunc(f)
      BY <2>1, BuildAbouts
    <3> QED BY <3>1, AboutsApart, RunAbouts
  <2>2. CASE s # "discharged"
    <3>1. PICK m : m.kind = CommentOf(s) /\ r.about = Comment(m)
      BY <2>2, BuildAbouts
    <3>2. r # ConfigReport /\ \A d : r # FindingReport(d)
      BY <3>1, AboutsApart, RunAbouts
    <3>3. \A n \in Rejected : r # MarkerReport(n)
      BY <1>3, <1>4, <3>1, AboutsApart, RunAbouts
    <3> QED BY <3>2, <3>3
  <2> QED BY <2>1, <2>2
<1> QED BY <1>5, <1>6, <1>7

\* What the builders asked for while markers are read report has no category.
LEMMA EarlyCategories ==
    /\ ConfigReport.category = ""
    /\ \A m : MarkerReport(m).category = ""
    /\ \A s \in HoldsLock : \A d \in BuildReports(s) : d.category = ""
<1>1. ConfigReport.category = "" /\ \A m : MarkerReport(m).category = ""
  BY DEF ConfigReport, MarkerReport, Diagnostic, AtFunc
<1> QED BY <1>1, BuildersReportPlain DEF Plain

LEMMA DueConstant ==
    ASSUME pkg' = pkg
    PROVE  /\ Due' = Due /\ Rejected' = Rejected
           /\ MarkersOf("suppress")' = MarkersOf("suppress") /\ MarkersOf("use")' = MarkersOf("use")
           /\ \A s : BuildReports(s)' = BuildReports(s)
           /\ {d \in Due : Deserved(d)}' = {d \in Due : Deserved(d)}
           /\ dischargedFuncs' = dischargedFuncs
           /\ ConfigReport' = ConfigReport /\ \A m : MarkerReport(m)' = MarkerReport(m)
<1>1. \A s : BuildReports(s)' = BuildReports(s)
  BY DEF BuildReports, ScopeReports, DischargedReports, EmitReports, NilDeclReports,
         FieldNilReports, Carries, Bare, DischargedForms, MarkersOf
<1>2. ConfigReport' = ConfigReport /\ dischargedFuncs' = dischargedFuncs /\ Rejected' = Rejected
  BY DEF ConfigReport, ConfigLine, Visible, dischargedFuncs, Carries, Bare, DischargedForms,
         Rejected, MarkersOf
<1>3. Due' = Due
  BY <1>1, <1>2 DEF Due
<1>4. \A d : Deserved(d)' <=> Deserved(d)
  BY <1>2 DEF Deserved, Visible, Accepted, MarkersOf
<1> QED BY <1>1, <1>2, <1>3, <1>4 DEF MarkersOf, MarkerReport

-----------------------------------------------------------------------------
(* The ledger.                                                             *)

Reported == {reported[i] : i \in DOMAIN reported}

\* What runFunc has still to look at.
PendingSuppress ==
    CASE phase = "config" -> MarkersOf("suppress") [] phase = "suppress" -> work [] OTHER -> {}
PendingUse ==
    CASE phase \in {"config", "suppress"} -> MarkersOf("use") [] phase = "use" -> work [] OTHER -> {}
PendingFindings ==
    CASE phase \in {"config", "suppress", "use", "export"} -> pkg.findings
      [] phase = "checks" -> work [] OTHER -> {}

RunOwes ==
    (IF phase = "config" /\ pkg.configError THEN {ConfigReport} ELSE {})
    \cup {MarkerReport(m) : m \in Rejected \cap (PendingSuppress \cup PendingUse)}
    \cup {FindingReport(d) : d \in PendingFindings}

\* A set that is neither built nor being built has all of its reports to make.
InBuild(c) == c.op = "get" /\ c.at = "build"
IsBuilding(s) == \E i \in 1 .. Len(stack) : InBuild(stack[i]) /\ stack[i].set = s
Unbuilt == {s \in Sets \ built : ~IsBuilding(s)}
SetsOwe == UNION {BuildReports(s) : s \in Unbuilt}

Rest == RunOwes \cup SetsOwe \cup Reported

\* What a call will itself report.
Owes(c) == IF c.op = "report" THEN {c.diag} ELSE IF c.at = "build" THEN c.todo ELSE {}

\* The filters a report has passed.
Passed(c) ==
    /\ c.at # "narrow" => Visible(c.diag.line)
    /\ c.at \in {"suppress", "use", "emit"} => c.diag.call \notin dischargedFuncs
    /\ c.at \in {"use", "emit"} =>
          ~\E m \in Accepted("suppress") : isSuppressibleCategory(c.diag) /\ Covers(m, c.diag.line)
    /\ c.at = "emit" => Deserved(c.diag)

\* While markers are read, only builders under the lock run, and no report has a
\* category a marker could silence.
Early == phase \in {"config", "suppress", "use"}

SoundCalls ==
    {c \in Frames :
        /\ Owes(c) \subseteq Due
        /\ c.op = "get" /\ c.at = "lock" => c.todo = BuildReports(c.set)
        /\ InBuild(c) => c.set \notin built
        /\ c.op = "report" => Passed(c)
        /\ Early => /\ c.op = "report" => c.diag.category = ""
                    /\ c.op = "get" => c.set \in HoldsLock}

Deserving == {d \in Due : Deserved(d)}

\* Each diagnostic is owed in one place, and what the text calls for is owed or
\* reported.  Only runFunc asks for the sets that are built without the lock.
Ledger ==
    /\ \A i \in 1 .. Len(stack) :
          stack[i] \in SoundCalls /\ (i # 1 /\ stack[i].op = "get" => stack[i].set \in HoldsLock)
    /\ \A i \in 1 .. Len(stack) : Owes(stack[i]) \cap Rest = {}
    /\ \A i, k \in 1 .. Len(stack) : i # k => Owes(stack[i]) \cap Owes(stack[k]) = {}
    /\ \A d \in Deserving : d \in Rest \/ \E i \in 1 .. Len(stack) : d \in Owes(stack[i])

\* A call stays sound while the phase lasts.
LEMMA SoundKept ==
    ASSUME pkg' = pkg, phase' = phase, NEW c \in SoundCalls, InBuild(c) => c.set \notin built'
    PROVE  c \in SoundCalls'
<1>1. Frames' = Frames /\ Due' = Due /\ BuildReports(c.set)' = BuildReports(c.set)'
  BY FramesConstant, DueConstant
<1>2. \A d : Passed(d)' <=> Passed(d)
  BY DueConstant DEF Passed, Visible, Accepted, Deserved, MarkersOf
<1>3. \A t : BuildReports(t)' = BuildReports(t)
  BY DueConstant
<1> QED BY <1>1, <1>2, <1>3 DEF SoundCalls, Early, InBuild, Owes

LEMMA DeservingConstant == pkg' = pkg => Deserving' = Deserving
BY DueConstant DEF Deserving

\* What the calls below the innermost one owe, nobody else does.
LEMMA BelowOwesOther ==
    ASSUME LockInv, Ledger, stack # << >>, NEW i \in 1 .. (Len(stack) - 1)
    PROVE  Owes(stack[i]) \cap (Rest \cup Owes(Top)) = {}
<1>1. i \in 1 .. Len(stack) /\ Len(stack) \in 1 .. Len(stack) /\ i # Len(stack)
  BY TopFacts
<1>2. Owes(stack[i]) \cap Rest = {}
  BY <1>1 DEF Ledger
<1>3. Owes(stack[i]) \cap Owes(stack[Len(stack)]) = {}
  BY <1>1 DEF Ledger
<1> QED BY <1>2, <1>3 DEF Top

\* The innermost call returns: what it owed is reported, or rightly dropped.
LEMMA LedgerPops ==
    ASSUME PassInv, Ledger, stack # << >>, Return, pkg' = pkg, phase' = phase,
           Rest' \subseteq Rest \cup Owes(Top),
           \A d \in Rest \cup Owes(Top) : d \in Deserving => d \in Rest',
           \A i \in 1 .. (Len(stack) - 1) : InBuild(stack[i]) => stack[i].set \notin built'
    PROVE  Ledger'
<1>1. /\ stack' \in Seq(Frames) /\ Len(stack') = Len(stack) - 1
      /\ \A i \in 1 .. Len(stack') : stack'[i] = stack[i]
  BY ReturnFacts DEF PassInv, LockInv, Return, Lower
<1>2. Len(stack) \in Nat \ {0} /\ Top = stack[Len(stack)]
  BY TopFacts DEF PassInv, Top
<1>3. \A i \in 1 .. Len(stack') : i \in 1 .. Len(stack) /\ i # Len(stack)
  BY <1>1, <1>2
<1>4. \A i \in 1 .. Len(stack') :
         stack'[i] \in SoundCalls' /\ (i # 1 /\ stack'[i].op = "get" => stack'[i].set \in HoldsLock)
  BY <1>1, <1>3, SoundKept DEF Ledger
<1>5. ASSUME NEW i \in 1 .. Len(stack')
      PROVE  Owes(stack'[i]) \cap Rest' = {}
  <2>1. Owes(stack[i]) \cap (Rest \cup Owes(Top)) = {} /\ stack'[i] = stack[i]
    BY <1>1, BelowOwesOther DEF PassInv
  <2> QED BY <2>1
<1>6. \A i, k \in 1 .. Len(stack') : i # k => Owes(stack'[i]) \cap Owes(stack'[k]) = {}
  BY <1>1, <1>3 DEF Ledger
<1>7. ASSUME NEW d \in Deserving
      PROVE  d \in Rest' \/ \E i \in 1 .. Len(stack') : d \in Owes(stack'[i])
  <2>1. CASE d \in Rest \cup Owes(Top)
    BY <2>1
  <2>2. CASE d \notin Rest \cup Owes(Top)
    <3>1. PICK i \in 1 .. Len(stack) : d \in Owes(stack[i])
      BY <2>2 DEF Ledger
    <3>2. i \in 1 .. Len(stack')
      BY <1>1, <1>2, <2>2, <3>1
    <3> QED BY <1>1, <3>1, <3>2
  <2> QED BY <2>1, <2>2
<1> QED BY <1>4, <1>5, <1>6, <1>7, DeservingConstant DEF Ledger, Owes

\* The innermost call goes on: what it owed, it still owes.
LEMMA LedgerGoesOn ==
    ASSUME PassInv, Ledger, stack # << >>, pkg' = pkg, phase' = phase, built' = built,
           NEW f \in SoundCalls', Continue(f, << >>), f.op = Top.op, f.set = Top.set,
           Owes(f) \cap Rest' = {}, Rest' \cup Owes(f) = Rest \cup Owes(Top)
    PROVE  Ledger'
<1>0. f \in Frames
  BY FramesConstant DEF SoundCalls
<1>1. /\ Len(stack') = Len(stack) /\ stack'[Len(stack)] = f
      /\ \A i \in 1 .. (Len(stack) - 1) : stack'[i] = stack[i]
  BY <1>0, ContinueFacts DEF PassInv, LockInv, Continue, Lower
<1>2. Len(stack) \in Nat \ {0} /\ Top = stack[Len(stack)]
  BY TopFacts DEF PassInv, Top
<1>3. \A i \in 1 .. Len(stack') : i \in 1 .. Len(stack) /\ (i = Len(stack) \/ i \in 1 .. (Len(stack) - 1))
  BY <1>1, <1>2
<1>4. Rest' \subseteq Rest \cup Owes(Top) /\ Owes(f) \subseteq Rest \cup Owes(Top)
  OBVIOUS
<1>5. \A i \in 1 .. (Len(stack) - 1) : Owes(stack[i]) \cap (Rest \cup Owes(Top)) = {}
  BY BelowOwesOther DEF PassInv
<1>6. \A i \in 1 .. Len(stack') :
         stack'[i] \in SoundCalls' /\ (i # 1 /\ stack'[i].op = "get" => stack'[i].set \in HoldsLock)
  <2>1. \A c \in SoundCalls : InBuild(c) => c.set \notin built'
    BY DEF SoundCalls
  <2> QED BY <1>1, <1>2, <1>3, <2>1, SoundKept DEF Ledger
<1>7. ASSUME NEW i \in 1 .. Len(stack')
      PROVE  Owes(stack'[i]) \cap Rest' = {}
  <2>1. CASE i = Len(stack)
    BY <1>1, <2>1
  <2>2. CASE i \in 1 .. (Len(stack) - 1)
    <3>1. Owes(stack[i]) \cap (Rest \cup Owes(Top)) = {} /\ stack'[i] = stack[i]
      BY <1>1, <1>5, <2>2
    <3> QED BY <1>4, <3>1
  <2> QED BY <1>3, <2>1, <2>2
<1>8. ASSUME NEW i \in 1 .. Len(stack'), NEW k \in 1 .. Len(stack'), i # k
      PROVE  Owes(stack'[i]) \cap Owes(stack'[k]) = {}
  <2>0. \A n \in 1 .. (Len(stack) - 1) : Owes(stack'[n]) \cap Owes(f) = {}
    <3> SUFFICES ASSUME NEW n \in 1 .. (Len(stack) - 1) PROVE Owes(stack'[n]) \cap Owes(f) = {}
      OBVIOUS
    <3>1. Owes(stack[n]) \cap (Rest \cup Owes(Top)) = {} /\ stack'[n] = stack[n]
      BY <1>1, <1>5
    <3> QED BY <1>4, <3>1
  <2>1. CASE i = Len(stack)
    <3>1. k \in 1 .. (Len(stack) - 1)
      BY <1>3, <1>8, <2>1
    <3> QED BY <1>1, <2>0, <2>1, <3>1
  <2>2. CASE k = Len(stack)
    <3>1. i \in 1 .. (Len(stack) - 1)
      BY <1>3, <1>8, <2>2
    <3> QED BY <1>1, <2>0, <2>2, <3>1
  <2>3. CASE i # Len(stack) /\ k # Len(stack)
    <3>1. stack'[i] = stack[i] /\ stack'[k] = stack[k] /\ i \in 1 .. Len(stack) /\ k \in 1 .. Len(stack)
      BY <1>1, <1>3, <2>3
    <3> QED BY <1>8, <3>1 DEF Ledger
  <2> QED BY <2>1, <2>2, <2>3
<1>9. ASSUME NEW d \in Deserving
      PROVE  d \in Rest' \/ \E i \in 1 .. Len(stack') : d \in Owes(stack'[i])
  <2>1. CASE d \in Rest \cup Owes(Top)
    BY <1>1, <1>2, <2>1
  <2>2. CASE d \notin Rest \cup Owes(Top)
    <3>1. PICK i \in 1 .. Len(stack) : d \in Owes(stack[i])
      BY <2>2 DEF Ledger
    <3>2. i \in 1 .. Len(stack') /\ i \in 1 .. (Len(stack) - 1)
      BY <1>1, <1>2, <2>2, <3>1
    <3> QED BY <1>1, <3>1, <3>2
  <2> QED BY <2>1, <2>2
<1> QED BY <1>6, <1>7, <1>8, <1>9, DeservingConstant DEF Ledger, Owes

\* The innermost call calls another and hands over some of what it owes.
LEMMA LedgerPushes ==
    ASSUME PassInv, Ledger, stack # << >>, pkg' = pkg, phase' = phase, built' = built,
           NEW f \in SoundCalls', NEW g \in SoundCalls', Continue(f, <<g>>),
           f.op = Top.op, f.set = Top.set, g.op = "get" => g.set \in HoldsLock,
           Owes(f) \cap Owes(g) = {}, Rest' = Rest, Owes(f) \cup Owes(g) = Owes(Top)
    PROVE  Ledger'
<1>0. f \in Frames /\ g \in Frames
  BY FramesConstant DEF SoundCalls
<1>1. /\ Len(stack') = Len(stack) + 1
      /\ stack'[Len(stack)] = f /\ stack'[Len(stack) + 1] = g
      /\ \A i \in 1 .. (Len(stack) - 1) : stack'[i] = stack[i]
  BY <1>0, PushFacts DEF PassInv, LockInv
<1>2. Len(stack) \in Nat \ {0} /\ Top = stack[Len(stack)]
  BY TopFacts DEF PassInv, Top
<1>3. \A i \in 1 .. Len(stack') :
         i = Len(stack) + 1 \/ i = Len(stack) \/ (i \in 1 .. (Len(stack) - 1) /\ i \in 1 .. Len(stack))
  BY <1>1, <1>2
<1>4. Owes(f) \subseteq Owes(Top) /\ Owes(g) \subseteq Owes(Top) /\ Owes(Top) \cap Rest = {}
  BY <1>2 DEF Ledger
<1>5. \A i \in 1 .. (Len(stack) - 1) : Owes(stack[i]) \cap (Rest \cup Owes(Top)) = {}
  BY BelowOwesOther DEF PassInv
<1>6. \A i \in 1 .. Len(stack') :
         stack'[i] \in SoundCalls' /\ (i # 1 /\ stack'[i].op = "get" => stack'[i].set \in HoldsLock)
  <2>1. \A c \in SoundCalls : InBuild(c) => c.set \notin built'
    BY DEF SoundCalls
  <2> QED BY <1>1, <1>2, <1>3, <2>1, SoundKept DEF Ledger
<1>6a. \A n \in 1 .. (Len(stack) - 1) :
         /\ Owes(stack'[n]) \cap Rest = {}
         /\ Owes(stack'[n]) \cap Owes(f) = {} /\ Owes(stack'[n]) \cap Owes(g) = {}
  <2> SUFFICES ASSUME NEW n \in 1 .. (Len(stack) - 1)
               PROVE  /\ Owes(stack'[n]) \cap Rest = {}
                      /\ Owes(stack'[n]) \cap Owes(f) = {} /\ Owes(stack'[n]) \cap Owes(g) = {}
    OBVIOUS
  <2>1. Owes(stack[n]) \cap (Rest \cup Owes(Top)) = {} /\ stack'[n] = stack[n]
    BY <1>1, <1>5
  <2> QED BY <1>4, <2>1
<1>7. ASSUME NEW i \in 1 .. Len(stack')
      PROVE  Owes(stack'[i]) \cap Rest' = {}
  <2>1. CASE i \in {Len(stack), Len(stack) + 1}
    <3>1. stack'[i] \in {f, g}
      BY <1>1, <2>1
    <3> QED BY <1>4, <3>1
  <2>2. CASE i \in 1 .. (Len(stack) - 1)
    BY <1>6a, <2>2
  <2> QED BY <1>3, <2>1, <2>2
<1>8. ASSUME NEW i \in 1 .. Len(stack'), NEW k \in 1 .. Len(stack'), i # k
      PROVE  Owes(stack'[i]) \cap Owes(stack'[k]) = {}
  <2>1. CASE i \in 1 .. (Len(stack) - 1) /\ k \in 1 .. (Len(stack) - 1)
    <3>1. stack'[i] = stack[i] /\ stack'[k] = stack[k] /\ i \in 1 .. Len(stack) /\ k \in 1 .. Len(stack)
      BY <1>1, <1>2, <2>1
    <3> QED BY <1>8, <3>1 DEF Ledger
  <2>2. CASE i \in 1 .. (Len(stack) - 1) /\ k \in {Len(stack), Len(stack) + 1}
    <3>1. stack'[k] \in {f, g}
      BY <1>1, <2>2
    <3> QED BY <1>6a, <2>2, <3>1
  <2>3. CASE i \in {Len(stack), Len(stack) + 1} /\ k \in 1 .. (Len(stack) - 1)
    <3>1. stack'[i] \in {f, g}
      BY <1>1, <2>3
    <3> QED BY <1>6a, <2>3, <3>1
  <2>4. CASE i \in {Len(stack), Len(stack) + 1} /\ k \in {Len(stack), Len(stack) + 1}
    <3>1. \/ stack'[i] = f /\ stack'[k] = g
          \/ stack'[i] = g /\ stack'[k] = f
      BY <1>1, <1>8, <2>4
    <3> QED BY <3>1
  <2> QED BY <1>3, <2>1, <2>2, <2>3, <2>4
<1>9. ASSUME NEW d \in Deserving
      PROVE  d \in Rest' \/ \E i \in 1 .. Len(stack') : d \in Owes(stack'[i])
  <2>1. CASE d \in Rest
    BY <2>1
  <2>2. CASE d \in Owes(Top)
    <3>1. Len(stack) \in 1 .. Len(stack') /\ Len(stack) + 1 \in 1 .. Len(stack')
      BY <1>1, <1>2
    <3> QED BY <1>1, <2>2, <3>1
  <2>3. CASE d \notin Rest \cup Owes(Top)
    <3>1. PICK i \in 1 .. Len(stack) : d \in Owes(stack[i])
      BY <2>3 DEF Ledger
    <3>2. i \in 1 .. Len(stack') /\ i \in 1 .. (Len(stack) - 1)
      BY <1>1, <1>2, <2>3, <3>1
    <3> QED BY <1>1, <3>1, <3>2
  <2> QED BY <2>1, <2>2, <2>3
<1> QED BY <1>6, <1>7, <1>8, <1>9, DeservingConstant DEF Ledger, Owes

\* runFunc makes a call, or none.
LEMMA LedgerStarts ==
    ASSUME Ledger, stack = << >>, pkg' = pkg,
           NEW c \in SoundCalls', stack' = <<c>>, Owes(c) \cap Rest' = {}, Rest' \cup Owes(c) = Rest
    PROVE  Ledger'
<1>1. Len(stack') = 1 /\ stack'[1] = c
  OBVIOUS
<1>2. \A d \in Deserving : d \in Rest
  BY DEF Ledger
<1> QED BY <1>1, <1>2, DeservingConstant DEF Ledger, Owes

LEMMA LedgerIdles ==
    ASSUME Ledger, stack = << >>, stack' = << >>, pkg' = pkg, Rest' = Rest
    PROVE  Ledger'
BY DeservingConstant DEF Ledger

-----------------------------------------------------------------------------
(* What else is inductive.                                                 *)

\* What is reported is called for, is reported once, and nobody still owes it.
Book ==
    /\ reported \in Seq(Diagnostics)
    /\ ReportedOnce
    /\ Reported \subseteq Deserving
    /\ Reported \cap (RunOwes \cup SetsOwe) = {}

\* The marks are those of the markers read so far.
Marks ==
    /\ \A line : InSuppressed(line) <=>
                    \E m \in Accepted("suppress") \ PendingSuppress : Covers(m, line)
    /\ \A line, subject : UseAsserted(line, subject) <=>
                    \E m \in Accepted("use") \ PendingUse : subject \in m.names /\ Covers(m, line)

\* A set runFunc asked for is built, or its getter is the outermost call.
Asked ==
    /\ asked <= Len(Exports)
    /\ \A i \in 1 .. asked :
          \/ Exports[i] \in built
          \/ stack # << >> /\ stack[1].op = "get" /\ stack[1].set = Exports[i]
    /\ phase \in {"checks", "done"} => asked = Len(Exports)
    /\ phase = "done" => stack = << >> /\ AlwaysAsked \subseteq built

PhaseInv ==
    /\ phase \in {"config", "suppress", "use", "export", "checks", "done"}
    /\ phase \in {"config", "export", "done"} => work = {}
    /\ phase = "checks" => work \subseteq pkg.findings

Accounts == PhaseInv /\ Ledger /\ Book /\ Marks /\ Asked

ReportInv == PassInv /\ Accounts

LEMMA OwedBySets ==
    \A d : d \in SetsOwe <=> \E s \in Unbuilt : d \in BuildReports(s)
BY DEF SetsOwe

\* The order of the phases.
LEMMA PhaseOrder ==
    /\ PhaseAfter("config") = "suppress" /\ PhaseAfter("suppress") = "use"
    /\ PhaseAfter("use") = "export" /\ PhaseAfter("export") = "checks"
    /\ PhaseAfter("checks") = "done"
<1>1. DOMAIN Phases = 1 .. 6
  BY DEF Phases
<1>2. /\ Phases[1] = "config" /\ Phases[2] = "suppress" /\ Phases[3] = "use"
      /\ Phases[4] = "export" /\ Phases[5] = "checks" /\ Phases[6] = "done"
  BY DEF Phases
<1>3. \A i \in 1 .. 6 : i = 1 \/ i = 2 \/ i = 3 \/ i = 4 \/ i = 5 \/ i = 6
  OBVIOUS
<1>4. \A k \in 1 .. 6 : (CHOOSE i \in DOMAIN Phases : Phases[i] = Phases[k]) = k
  BY <1>1, <1>2, <1>3
<1>5. ASSUME NEW k \in 1 .. 5 PROVE PhaseAfter(Phases[k]) = Phases[k + 1]
  <2>1. (CHOOSE i \in DOMAIN Phases : Phases[i] = Phases[k]) = k
    BY <1>4
  <2> QED BY <2>1 DEF PhaseAfter
<1> QED BY <1>2, <1>5

\* Which sets are built or being built changes only where a build starts or is
\* published.
LEMMA UnbuiltPops ==
    ASSUME LockInv, stack # << >>, Return, built' = built \cup (IF InBuild(Top) THEN {Top.set} ELSE {})
    PROVE  Unbuilt' = Unbuilt
<1>1. Len(stack') = Len(stack) - 1 /\ \A i \in 1 .. Len(stack') : stack'[i] = stack[i]
  BY ReturnFacts DEF LockInv, Return, Lower
<1>2. Len(stack) \in Nat \ {0} /\ Top = stack[Len(stack)]
  BY TopFacts DEF Top
<1>3. \A s : IsBuilding(s) <=> IsBuilding(s)' \/ (InBuild(Top) /\ Top.set = s)
  BY <1>1, <1>2 DEF IsBuilding, InBuild
<1> QED BY <1>3 DEF Unbuilt

LEMMA UnbuiltGoesOn ==
    ASSUME LockInv, stack # << >>, built' = built, NEW f \in Frames, Continue(f, << >>),
           f.set = Top.set, InBuild(Top) => InBuild(f)
    PROVE  Unbuilt' = Unbuilt \ (IF InBuild(f) THEN {f.set} ELSE {})
<1>1. /\ Len(stack') = Len(stack) /\ stack'[Len(stack)] = f
      /\ \A i \in 1 .. (Len(stack) - 1) : stack'[i] = stack[i]
  BY ContinueFacts DEF LockInv, Continue, Lower
<1>2. Len(stack) \in Nat \ {0} /\ Top = stack[Len(stack)]
  BY TopFacts DEF Top
<1>3. \A s : IsBuilding(s)' <=> IsBuilding(s) \/ (InBuild(f) /\ f.set = s)
  BY <1>1, <1>2 DEF IsBuilding, InBuild
<1> QED BY <1>3 DEF Unbuilt

LEMMA UnbuiltPushes ==
    ASSUME LockInv, stack # << >>, built' = built, NEW f \in Frames, NEW g \in Frames,
           Continue(f, <<g>>), f.set = Top.set, InBuild(Top) <=> InBuild(f), ~InBuild(g)
    PROVE  Unbuilt' = Unbuilt
<1>1. /\ Len(stack') = Len(stack) + 1
      /\ stack'[Len(stack)] = f /\ stack'[Len(stack) + 1] = g
      /\ \A i \in 1 .. (Len(stack) - 1) : stack'[i] = stack[i]
  BY PushFacts DEF LockInv
<1>2. Len(stack) \in Nat \ {0} /\ Top = stack[Len(stack)]
  BY TopFacts DEF Top
<1>3. \A s : IsBuilding(s)' <=> IsBuilding(s)
  BY <1>1, <1>2 DEF IsBuilding, InBuild
<1> QED BY <1>3 DEF Unbuilt

LEMMA UnbuiltStarts ==
    ASSUME stack = << >>, built' = built,
           stack' = << >> \/ \E c : ~InBuild(c) /\ stack' = <<c>>
    PROVE  Unbuilt' = Unbuilt
<1>1. Len(stack) = 0
  OBVIOUS
<1>2. stack' = << >> \/ (Len(stack') = 1 /\ ~InBuild(stack'[1]))
  OBVIOUS
<1>3. \A s : ~IsBuilding(s) /\ ~IsBuilding(s)'
  BY <1>1, <1>2 DEF IsBuilding, InBuild
<1> QED BY <1>3 DEF Unbuilt

LEMMA SetsOweKept ==
    ASSUME pkg' = pkg, Unbuilt' = Unbuilt
    PROVE  SetsOwe' = SetsOwe
<1>1. \A s : BuildReports(s)' = BuildReports(s)
  BY DueConstant
<1> QED BY <1>1 DEF SetsOwe

\* What runFunc owes while it waits for a call.
LEMMA RunOwesKept ==
    ASSUME pkg' = pkg, phase' = phase, work' = work
    PROVE  RunOwes' = RunOwes /\ PendingSuppress' = PendingSuppress /\ PendingUse' = PendingUse
<1>1. /\ PendingSuppress' = PendingSuppress /\ PendingUse' = PendingUse
      /\ PendingFindings' = PendingFindings
  BY DEF PendingSuppress, PendingUse, PendingFindings, MarkersOf
<1>2. /\ Rejected' = Rejected /\ ConfigReport' = ConfigReport
      /\ \A m : MarkerReport(m)' = MarkerReport(m)
  BY DueConstant
<1> QED BY <1>1, <1>2 DEF RunOwes, FindingReport, Diagnostic

LEMMA PhaseKept ==
    ASSUME PhaseInv, pkg' = pkg, phase' = phase, work' = work
    PROVE  PhaseInv'
BY DEF PhaseInv

LEMMA BookKept ==
    ASSUME Book, pkg' = pkg, reported' = reported,
           RunOwes' \subseteq RunOwes, SetsOwe' \subseteq SetsOwe
    PROVE  Book' /\ Reported' = Reported
<1>1. Reported' = Reported /\ (ReportedOnce' <=> ReportedOnce)
  BY DEF Reported, ReportedOnce
<1> QED BY <1>1, FramesConstant, DeservingConstant DEF Book

LEMMA MarksKept ==
    ASSUME Marks, pkg' = pkg, marks' = marks,
           (Accepted("suppress") \ PendingSuppress)' = Accepted("suppress") \ PendingSuppress,
           (Accepted("use") \ PendingUse)' = Accepted("use") \ PendingUse
    PROVE  Marks'
<1>1. \A line : InSuppressed(line)' <=> InSuppressed(line)
  BY DEF InSuppressed, marks
<1>2. \A line, subject : UseAsserted(line, subject)' <=> UseAsserted(line, subject)
  BY DEF UseAsserted, marks
<1>3. \A m, line : Covers(m, line)' <=> Covers(m, line)
  BY DEF Covers
<1> QED BY <1>1, <1>2, <1>3 DEF Marks

LEMMA AcceptedConstant ==
    ASSUME pkg' = pkg, phase' = phase, work' = work
    PROVE  /\ (Accepted("suppress") \ PendingSuppress)' = Accepted("suppress") \ PendingSuppress
           /\ (Accepted("use") \ PendingUse)' = Accepted("use") \ PendingUse
BY RunOwesKept DEF Accepted, MarkersOf

\* An outermost getter stays the outermost call until its set is built.
LEMMA AskedKept ==
    ASSUME Asked, asked' = asked, phase' = phase, built \subseteq built',
           stack # << >>, stack \in Seq(Frames), phase = "done" => stack' = << >>,
           \/ stack' # << >> /\ stack'[1].op = stack[1].op /\ stack'[1].set = stack[1].set
           \/ stack[1].op = "get" => stack[1].set \in built'
    PROVE  Asked'
BY DEF Asked

\* The outermost call after a step.
LEMMA OutermostReturns ==
    ASSUME LockInv, stack # << >>, Return
    PROVE  (stack' # << >> /\ stack'[1] = stack[1]) \/ stack[1] = Top
<1>0. Len(stack) \in Nat \ {0} /\ Top = stack[Len(stack)]
  BY TopFacts DEF Top
<1>1. Len(stack') = Len(stack) - 1 /\ \A i \in 1 .. Len(stack') : stack'[i] = stack[i]
  BY ReturnFacts DEF LockInv, Return, Lower
<1>2. CASE Len(stack) = 1
  BY <1>0, <1>2
<1>3. CASE Len(stack) # 1
  <2>1. 1 \in 1 .. Len(stack') /\ Len(stack') # 0
    BY <1>0, <1>1, <1>3
  <2>2. stack' # << >>
    BY <2>1
  <2> QED BY <1>1, <2>1, <2>2
<1> QED BY <1>2, <1>3

LEMMA OutermostStays ==
    ASSUME LockInv, stack # << >>, NEW f \in Frames, f.op = Top.op, f.set = Top.set,
           Continue(f, << >>) \/ \E g \in Frames : Continue(f, <<g>>)
    PROVE  stack' # << >> /\ stack'[1].op = stack[1].op /\ stack'[1].set = stack[1].set
<1>0. Len(stack) \in Nat \ {0} /\ Top = stack[Len(stack)]
  BY TopFacts DEF Top
<1>1. /\ Len(stack') \in {Len(stack), Len(stack) + 1} /\ stack'[Len(stack)] = f
      /\ \A i \in 1 .. (Len(stack) - 1) : stack'[i] = stack[i]
  <2>1. ASSUME Continue(f, << >>)
        PROVE  /\ Len(stack') = Len(stack) /\ stack'[Len(stack)] = f
               /\ \A i \in 1 .. (Len(stack) - 1) : stack'[i] = stack[i]
    BY <2>1, ContinueFacts DEF LockInv, Continue, Lower
  <2>2. ASSUME NEW g \in Frames, Continue(f, <<g>>)
        PROVE  /\ Len(stack') = Len(stack) + 1 /\ stack'[Len(stack)] = f
               /\ \A i \in 1 .. (Len(stack) - 1) : stack'[i] = stack[i]
    BY <2>2, PushFacts DEF LockInv
  <2> QED BY <2>1, <2>2
<1>2. stack' # << >>
  BY <1>0, <1>1
<1>3. CASE Len(stack) = 1
  BY <1>0, <1>1, <1>2, <1>3
<1>4. CASE Len(stack) # 1
  BY <1>0, <1>1, <1>2, <1>4
<1> QED BY <1>3, <1>4

-----------------------------------------------------------------------------
(* Each way the stack changes keeps the accounts.                          *)

\* The innermost call returns; what it owed, the text does not call for.
LEMMA CallDrops ==
    ASSUME ReportInv, stack # << >>, Return,
           UNCHANGED <<pkg, phase, work, asked, marks, reported>>,
           built' = built \cup (IF InBuild(Top) THEN {Top.set} ELSE {}),
           Top.op = "get" => Top.set \in built',
           Owes(Top) \cap Deserving = {},
           \A i \in 1 .. (Len(stack) - 1) : InBuild(stack[i]) => stack[i].set \notin built'
    PROVE  Accounts'
<1> USE DEF ReportInv, Accounts
<1>0. LockInv
  BY DEF PassInv
<1>1. SetsOwe' = SetsOwe
  BY <1>0, UnbuiltPops, SetsOweKept
<1>2. RunOwes' = RunOwes /\ Book' /\ Reported' = Reported
  BY <1>1, RunOwesKept, BookKept
<1>3. Rest' = Rest
  BY <1>1, <1>2 DEF Rest
<1>4. Ledger'
  BY <1>3, LedgerPops
<1>5. Asked'
  BY <1>0, OutermostReturns, AskedKept DEF LockInv, Asked
<1> QED BY <1>2, <1>4, <1>5, PhaseKept, MarksKept, AcceptedConstant

\* The innermost call goes on and owes the same.
LEMMA CallGoesOn ==
    ASSUME ReportInv, stack # << >>,
           UNCHANGED <<pkg, phase, work, asked, built, marks, reported>>,
           NEW f \in SoundCalls', Continue(f, << >>), f.op = Top.op, f.set = Top.set,
           InBuild(f) <=> InBuild(Top), Owes(f) = Owes(Top)
    PROVE  Accounts'
<1> USE DEF ReportInv, Accounts
<1>0. LockInv /\ f \in Frames /\ Top \in Frames
  BY FramesConstant, TopFacts DEF PassInv, SoundCalls
<1>1. Top \in SoundCalls
  BY <1>0, TopFacts DEF Ledger, Top
<1>2. Unbuilt' = Unbuilt
  <2>1. InBuild(f) => f.set \notin built
    BY DEF SoundCalls, InBuild
  <2>2. InBuild(f) => f.set \notin Unbuilt
    BY <1>0, TopFacts DEF Unbuilt, IsBuilding, Top
  <2> QED BY <1>0, <2>2, UnbuiltGoesOn
<1>3. SetsOwe' = SetsOwe
  BY <1>2, SetsOweKept
<1>4. RunOwes' = RunOwes /\ Book' /\ Reported' = Reported
  BY <1>3, RunOwesKept, BookKept
<1>5. Rest' = Rest
  BY <1>3, <1>4 DEF Rest
<1>6. Owes(Top) \cap Rest = {}
  BY <1>0, TopFacts DEF Ledger, Top
<1>7. Ledger'
  BY <1>5, <1>6, LedgerGoesOn
<1>8. Asked'
  BY <1>0, OutermostStays, AskedKept DEF LockInv, Asked
<1> QED BY <1>4, <1>7, <1>8, PhaseKept, MarksKept, AcceptedConstant

\* The innermost call calls another.
LEMMA CallPushes ==
    ASSUME ReportInv, stack # << >>,
           UNCHANGED <<pkg, phase, work, asked, built, marks, reported>>,
           NEW f \in SoundCalls', NEW g \in SoundCalls', Continue(f, <<g>>),
           f.op = Top.op, f.set = Top.set, InBuild(f) <=> InBuild(Top),
           ~InBuild(g), g.op = "get" => g.set \in HoldsLock,
           Owes(f) \cap Owes(g) = {}, Owes(f) \cup Owes(g) = Owes(Top)
    PROVE  Accounts'
<1> USE DEF ReportInv, Accounts
<1>0. LockInv /\ f \in Frames /\ g \in Frames
  BY FramesConstant DEF PassInv, SoundCalls
<1>1. SetsOwe' = SetsOwe
  BY <1>0, UnbuiltPushes, SetsOweKept
<1>2. RunOwes' = RunOwes /\ Book' /\ Reported' = Reported
  BY <1>1, RunOwesKept, BookKept
<1>3. Rest' = Rest
  BY <1>1, <1>2 DEF Rest
<1>4. Ledger'
  BY <1>3, LedgerPushes
<1>5. Asked'
  BY <1>0, OutermostStays, AskedKept DEF LockInv, Asked
<1> QED BY <1>2, <1>4, <1>5, PhaseKept, MarksKept, AcceptedConstant

-----------------------------------------------------------------------------
(* The steps of a getter.                                                  *)

LEMMA TopSound ==
    ASSUME ReportInv, stack # << >>
    PROVE  /\ Top \in SoundCalls /\ Top \in Frames /\ CallOK(Top)
           /\ Owes(Top) \cap Rest = {} /\ Owes(Top) \subseteq Due
           /\ Top.op = "get" /\ Top.set \notin HoldsLock => Len(stack) = 1
           /\ \A i \in 1 .. (Len(stack) - 1) : stack[i] \in SoundCalls
<1>1. Len(stack) \in Nat \ {0} /\ Top \in Frames /\ CallOK(Top)
  BY TopFacts DEF ReportInv, PassInv
<1>2. /\ Top \in SoundCalls /\ Owes(Top) \cap Rest = {}
      /\ Top.op = "get" /\ Top.set \notin HoldsLock => Len(stack) = 1
      /\ \A i \in 1 .. (Len(stack) - 1) : stack[i] \in SoundCalls
  <2>1. Len(stack) \in 1 .. Len(stack) /\ Top = stack[Len(stack)]
    BY <1>1 DEF Top
  <2>2. Top \in SoundCalls /\ (Len(stack) # 1 /\ Top.op = "get" => Top.set \in HoldsLock)
    BY <2>1 DEF ReportInv, Accounts, Ledger
  <2>3. Owes(Top) \cap Rest = {}
    BY <2>1 DEF ReportInv, Accounts, Ledger
  <2>4. \A i \in 1 .. (Len(stack) - 1) : stack[i] \in SoundCalls
    BY <1>1 DEF ReportInv, Accounts, Ledger
  <2> QED BY <2>2, <2>3, <2>4
<1> QED BY <1>1, <1>2 DEF SoundCalls

\* Below a getter, no builder builds the same set.
LEMMA OneBuilder ==
    ASSUME ReportInv, stack # << >>, Top.op = "get",
           NEW i \in 1 .. (Len(stack) - 1), InBuild(stack[i])
    PROVE  stack[i].set # Top.set
<1>1. Len(stack) \in Nat \ {0} /\ i \in 1 .. Len(stack)
  BY TopFacts DEF ReportInv, PassInv
<1>2. CASE Top.set \in HoldsLock
  <2>1. ~Builder(stack[i])
    BY <1>1 DEF ReportInv, PassInv, LockInv, Innermost, Top
  <2> QED BY <1>2, <2>1 DEF Builder, InBuild
<1>3. CASE Top.set \notin HoldsLock
  <2>1. Len(stack) = 1
    BY <1>3, TopSound
  <2> QED BY <2>1
<1> QED BY <1>2, <1>3

\* A getter that is called owes nothing before it has the lock.
LEMMA GetterSound ==
    ASSUME pkg' = pkg, NEW s \in Sets, Early' => s \in HoldsLock
    PROVE  /\ Getting(s) \in SoundCalls' /\ ~InBuild(Getting(s)) /\ Owes(Getting(s)) = {}
           /\ Getting(s) \in Frames
<1>1. Getting(s) \in Frames
  BY GettingOK
<1>2. /\ Getting(s).op = "get" /\ Getting(s).at = "lock" /\ Getting(s).set = s
      /\ Getting(s).todo = BuildReports(s)
  BY DEF Getting
<1>3. Frames' = Frames /\ BuildReports(s)' = BuildReports(s)
  BY FramesConstant, DueConstant
<1>4. ~InBuild(Getting(s)) /\ Owes(Getting(s)) = {}
  BY <1>2 DEF InBuild, Owes
<1>5. Getting(s) \in SoundCalls'
  BY <1>1, <1>2, <1>3, <1>4 DEF SoundCalls, InBuild, Owes
<1> QED BY <1>1, <1>4, <1>5

\* A report that is made owes its diagnostic.
LEMMA ReportSound ==
    ASSUME pkg' = pkg, NEW d \in Diagnostics, d \in Due, Early' => d.category = ""
    PROVE  /\ Reporting(d) \in SoundCalls' /\ ~InBuild(Reporting(d)) /\ Owes(Reporting(d)) = {d}
           /\ Reporting(d).op = "report"
<1>1. Reporting(d) \in Frames /\ Reporting(d).op = "report" /\ Reporting(d).diag = d
  BY ReportingOK
<1>2. Reporting(d).at = "narrow"
  BY DEF Reporting
<1>3. Frames' = Frames /\ Due' = Due
  BY FramesConstant, DueConstant
<1>4. ~InBuild(Reporting(d)) /\ Owes(Reporting(d)) = {d}
  BY <1>1, <1>2 DEF InBuild, Owes
<1>5. Passed(Reporting(d))'
  BY <1>2 DEF Passed
<1>6. Reporting(d) \in SoundCalls'
  BY <1>1, <1>2, <1>3, <1>4, <1>5 DEF SoundCalls, InBuild, Owes
<1> QED BY <1>1, <1>4, <1>6

LEMMA CachedCounts ==
    ASSUME ReportInv, GetCached
    PROVE  Accounts'
<1>1. /\ stack # << >> /\ Top.op = "get" /\ Top.at = "lock" /\ Top.set \in built /\ Return
      /\ UNCHANGED <<pkg, phase, work, asked, built, marks, reported>>
  BY DEF GetCached, IsGetting
<1>2. ~InBuild(Top) /\ Owes(Top) = {}
  BY <1>1 DEF InBuild, Owes
<1>3. \A i \in 1 .. (Len(stack) - 1) : InBuild(stack[i]) => stack[i].set \notin built'
  BY <1>1, TopSound DEF SoundCalls
<1> QED BY <1>1, <1>2, <1>3, CallDrops

LEMMA PublishCounts ==
    ASSUME ReportInv, Publish
    PROVE  Accounts'
<1>1. /\ stack # << >> /\ Top.op = "get" /\ Top.at = "build" /\ Top.todo = {} /\ Return
      /\ UNCHANGED <<pkg, phase, work, asked, marks, reported>>
      /\ built' = built \cup {Top.set}
  BY DEF Publish, IsGetting
<1>2. InBuild(Top) /\ Owes(Top) = {}
  BY <1>1 DEF InBuild, Owes
<1>3. \A i \in 1 .. (Len(stack) - 1) : InBuild(stack[i]) => stack[i].set \notin built'
  BY <1>1, TopSound, OneBuilder DEF SoundCalls
<1> QED BY <1>1, <1>2, <1>3, CallDrops

LEMMA StartsBuildCounts ==
    ASSUME ReportInv, GetStartsBuild
    PROVE  Accounts'
<1> DEFINE f == [Top EXCEPT !.at = "build"]
           s == Top.set
<1>1. /\ stack # << >> /\ Top.op = "get" /\ Top.at = "lock" /\ s \notin built /\ Continue(f, << >>)
      /\ UNCHANGED <<pkg, phase, work, asked, built, marks, reported>>
  BY DEF GetStartsBuild, IsGetting
<1>2. /\ f \in Frames /\ f.op = "get" /\ f.at = "build" /\ f.set = s /\ f.todo = Top.todo
      /\ s \in Sets
  BY <1>1, TopSound, FrameBuilds, FrameFacts
<1> HIDE DEF f
<1>3. Owes(f) = BuildReports(s) /\ Owes(Top) = {} /\ InBuild(f) /\ ~InBuild(Top)
  BY <1>1, <1>2, TopSound DEF Owes, SoundCalls, InBuild
<1>4. s \in Unbuilt
  <2>1. ASSUME NEW i \in 1 .. Len(stack), InBuild(stack[i]), stack[i].set = s PROVE FALSE
    <3>1. i # Len(stack)
      BY <1>3, <2>1 DEF Top
    <3>2. i \in 1 .. (Len(stack) - 1)
      BY <3>1, TopFacts, <1>1 DEF ReportInv, PassInv
    <3> QED BY <1>1, <2>1, <3>2, OneBuilder
  <2> QED BY <1>1, <1>2, <2>1 DEF Unbuilt, IsBuilding
<1>5. Unbuilt' = Unbuilt \ {s}
  BY <1>1, <1>2, <1>3, UnbuiltGoesOn DEF ReportInv, PassInv
<1>6. \A t : BuildReports(t)' = BuildReports(t)
  BY <1>1, DueConstant
<1>7. SetsOwe' \cup Owes(f) = SetsOwe /\ SetsOwe' \cap Owes(f) = {}
  <2>1. ASSUME NEW d PROVE d \in SetsOwe' <=> \E t \in Unbuilt : t # s /\ d \in BuildReports(t)
    BY <1>5, <1>6 DEF SetsOwe
  <2>2. ASSUME NEW d, NEW t \in Unbuilt, d \in BuildReports(t), d \in BuildReports(s) PROVE t = s
    BY <1>2, <2>2, BuildersApart DEF Unbuilt
  <2>3. SetsOwe' \cap Owes(f) = {}
    BY <1>3, <2>1, <2>2
  <2>4. \A d : d \in SetsOwe <=> d \in SetsOwe' \/ d \in Owes(f)
    BY <1>3, <1>4, <2>1, OwedBySets
  <2> QED BY <2>3, <2>4
<1>8. RunOwes' = RunOwes /\ Book' /\ Reported' = Reported
  BY <1>1, <1>7, RunOwesKept, BookKept DEF ReportInv, Accounts
<1>9. Owes(f) \subseteq Due
  BY <1>2, <1>3 DEF Due
<1>10. RunOwes \cap Owes(f) = {}
  BY <1>2, <1>3, RunApart DEF RunOwes
<1>11. Reported \cap Owes(f) = {}
  BY <1>7 DEF ReportInv, Accounts, Book
<1>12. Owes(f) \cap Rest' = {} /\ Rest' \cup Owes(f) = Rest \cup Owes(Top)
  BY <1>3, <1>7, <1>8, <1>10, <1>11 DEF Rest
<1>13. f \in SoundCalls'
  <2>1. Frames' = Frames /\ Due' = Due
    BY <1>1, FramesConstant, DueConstant
  <2>2. Early => s \in HoldsLock
    BY <1>1, TopSound DEF SoundCalls
  <2>3. Early' <=> Early
    BY <1>1 DEF Early
  <2> QED BY <1>1, <1>2, <1>9, <2>1, <2>2, <2>3 DEF SoundCalls, InBuild, Owes
<1>14. Ledger'
  BY <1>1, <1>2, <1>12, <1>13, LedgerGoesOn DEF ReportInv, Accounts
<1>15. Asked'
  BY <1>1, <1>2, OutermostStays, AskedKept DEF ReportInv, Accounts, PassInv, LockInv, Asked
<1> QED BY <1>1, <1>8, <1>14, <1>15, PhaseKept, MarksKept, AcceptedConstant DEF ReportInv, Accounts

LEMMA AsksCounts ==
    ASSUME ReportInv, NEW s \in Sets, BuildAsks(s)
    PROVE  Accounts'
<1> DEFINE f == [Top EXCEPT !.reads = @ \ {s}]
<1>1. /\ stack # << >> /\ Top.op = "get" /\ Top.at = "build" /\ s \in Top.reads
      /\ Continue(f, <<Getting(s)>>)
      /\ UNCHANGED <<pkg, phase, work, asked, built, marks, reported>>
  BY DEF BuildAsks, IsGetting
<1>2. /\ f \in Frames /\ f.op = "get" /\ f.at = Top.at /\ f.set = Top.set /\ f.todo = Top.todo
  BY <1>1, TopSound, FrameReads
<1> HIDE DEF f
<1>3. s \in HoldsLock
  <2>1. s \in Reads(Top.set)
    BY <1>1, TopSound DEF CallOK
  <2> QED BY <2>1 DEF Reads, HoldsLock
<1>4. Getting(s) \in SoundCalls' /\ ~InBuild(Getting(s)) /\ Owes(Getting(s)) = {}
  BY <1>1, <1>3, GetterSound
<1>5. Owes(f) = Owes(Top) /\ (InBuild(f) <=> InBuild(Top))
  BY <1>1, <1>2 DEF Owes, InBuild
<1>6. f \in SoundCalls'
  <2>1. Frames' = Frames /\ Due' = Due
    BY <1>1, FramesConstant, DueConstant
  <2>2. Early' <=> Early
    BY <1>1 DEF Early
  <2> QED BY <1>1, <1>2, <1>5, <2>1, <2>2, TopSound DEF SoundCalls, InBuild, Owes
<1>7. Getting(s).op = "get" => Getting(s).set \in HoldsLock
  BY <1>3 DEF Getting
<1> QED BY <1>1, <1>2, <1>4, <1>5, <1>6, <1>7, CallPushes

LEMMA ReportsOneCounts ==
    ASSUME ReportInv, NEW d, d \in Top.todo, BuildReportsOne(d)
    PROVE  Accounts'
<1> DEFINE f == [Top EXCEPT !.todo = @ \ {d}]
<1>1. /\ stack # << >> /\ Top.op = "get" /\ Top.at = "build"
      /\ Continue(f, <<Reporting(d)>>)
      /\ UNCHANGED <<pkg, phase, work, asked, built, marks, reported>>
  BY DEF BuildReportsOne, IsGetting
<1>2. /\ f \in Frames /\ f.op = "get" /\ f.at = Top.at /\ f.set = Top.set /\ f.todo = Top.todo \ {d}
  BY <1>1, TopSound, FrameReports
<1> HIDE DEF f
<1>3. Owes(Top) = Top.todo /\ Owes(f) = Top.todo \ {d}
  BY <1>1, <1>2 DEF Owes
<1>4. d \in Due /\ d \in Diagnostics
  BY <1>1, <1>3, TopSound, FrameFacts
<1>5. Early => d.category = ""
  <2>1. Early => Top.set \in HoldsLock
    BY <1>1, TopSound DEF SoundCalls
  <2> QED BY <1>1, <2>1, TopSound DEF CallOK, Plain
<1>6. Reporting(d) \in SoundCalls' /\ ~InBuild(Reporting(d)) /\ Owes(Reporting(d)) = {d}
      /\ Reporting(d).op = "report"
  BY <1>1, <1>4, <1>5, ReportSound DEF Early
<1>7. f \in SoundCalls' /\ (InBuild(f) <=> InBuild(Top))
  <2>1. Frames' = Frames /\ Due' = Due
    BY <1>1, FramesConstant, DueConstant
  <2>2. Early' <=> Early
    BY <1>1 DEF Early
  <2> QED BY <1>1, <1>2, <1>3, <2>1, <2>2, TopSound DEF SoundCalls, InBuild, Owes
<1>8. Owes(f) \cap Owes(Reporting(d)) = {} /\ Owes(f) \cup Owes(Reporting(d)) = Owes(Top)
  BY <1>3, <1>6
<1> QED BY <1>1, <1>2, <1>6, <1>7, <1>8, CallPushes

-----------------------------------------------------------------------------
(* The steps of vowReport.                                                 *)

\* A filter drops only what the text does not call for.
LEMMA FilterDrops ==
    ASSUME ReportInv, stack # << >>, Top.op = "report", Return, UNCHANGED Filtered,
           ~Deserved(Top.diag)
    PROVE  Accounts'
<1>1. ~InBuild(Top) /\ Owes(Top) = {Top.diag}
  BY DEF InBuild, Owes
<1>2. Owes(Top) \cap Deserving = {}
  BY <1>1 DEF Deserving
<1>3. UNCHANGED <<pkg, phase, work, asked, built, marks, reported>>
  BY DEF Filtered
<1>4. \A i \in 1 .. (Len(stack) - 1) : InBuild(stack[i]) => stack[i].set \notin built'
  BY <1>3, TopSound DEF SoundCalls
<1> QED BY <1>1, <1>2, <1>3, <1>4, CallDrops

LEMMA PassedConstant ==
    ASSUME pkg' = pkg
    PROVE  \A c : Passed(c)' <=> Passed(c)
BY DueConstant DEF Passed, Visible, Accepted, Deserved, MarkersOf

\* A report that passed a filter.
LEMMA FilteredSound ==
    ASSUME ReportInv, stack # << >>, Top.op = "report", UNCHANGED Filtered,
           NEW x \in {"barrier", "suppress", "use", "emit"},
           NEW f, f = [Top EXCEPT !.at = x], Passed(f)
    PROVE  /\ f \in SoundCalls' /\ f.op = "report" /\ f.set = Top.set
           /\ ~InBuild(f) /\ ~InBuild(Top) /\ Owes(f) = Owes(Top)
<1>1. f \in Frames /\ f.op = "report" /\ f.at = x /\ f.set = Top.set /\ f.diag = Top.diag
  BY TopSound, FrameFilters
<1>2. pkg' = pkg /\ phase' = phase
  BY DEF Filtered
<1>3. ~InBuild(f) /\ ~InBuild(Top) /\ Owes(f) = Owes(Top)
  BY <1>1 DEF InBuild, Owes
<1>4. Frames' = Frames /\ Due' = Due /\ (Passed(f)' <=> Passed(f)) /\ (Early' <=> Early)
  BY <1>2, FramesConstant, DueConstant, PassedConstant DEF Early
<1>5. Early => f.diag.category = ""
  BY <1>1, TopSound DEF SoundCalls
<1>6. Owes(f) \subseteq Due
  BY <1>3, TopSound
<1>7. f \in SoundCalls'
  BY <1>1, <1>3, <1>4, <1>5, <1>6 DEF SoundCalls, InBuild, Owes
<1> QED BY <1>1, <1>3, <1>7

LEMMA FilterGoesOn ==
    ASSUME ReportInv, stack # << >>, Top.op = "report", UNCHANGED Filtered,
           NEW x \in {"barrier", "suppress", "use", "emit"},
           NEW f, f = [Top EXCEPT !.at = x], Continue(f, << >>), Passed(f)
    PROVE  Accounts'
<1>1. UNCHANGED <<pkg, phase, work, asked, built, marks, reported>>
  BY DEF Filtered
<1> QED BY <1>1, FilteredSound, CallGoesOn

LEMMA NarrowCounts ==
    ASSUME ReportInv, DropByNarrowScope \/ PassNarrowScope
    PROVE  Accounts'
<1>1. stack # << >> /\ Top.op = "report" /\ Top.at = "narrow" /\ UNCHANGED Filtered
  BY DEF DropByNarrowScope, PassNarrowScope, IsReporting
<1>2. CASE DropByNarrowScope
  <2>1. ~Deserved(Top.diag) /\ Return
    BY <1>2 DEF DropByNarrowScope, Deserved, Visible
  <2> QED BY <1>1, <2>1, FilterDrops
<1>3. CASE PassNarrowScope /\ Top.diag.call \in Funcs
  <2> DEFINE f == [Top EXCEPT !.at = "barrier"]
             g == Getting("discharged")
  <2>1. Continue(f, <<g>>) /\ Visible(Top.diag.line)
    BY <1>3 DEF PassNarrowScope, Visible
  <2>2. f \in Frames /\ f.at = "barrier" /\ f.diag = Top.diag
    BY <1>1, TopSound, FrameFilters
  <2> HIDE DEF f, g
  <2>3. Passed(f)
    BY <2>1, <2>2 DEF Passed
  <2>4. /\ f \in SoundCalls' /\ f.op = "report" /\ f.set = Top.set
        /\ ~InBuild(f) /\ ~InBuild(Top) /\ Owes(f) = Owes(Top)
    BY <1>1, <2>3, FilteredSound DEF f
  <2>5. "discharged" \in Sets /\ "discharged" \in HoldsLock
    BY DEF Sets, HoldsLock
  <2>6. g \in SoundCalls' /\ ~InBuild(g) /\ Owes(g) = {} /\ g.set \in HoldsLock
    <3>1. g \in SoundCalls' /\ ~InBuild(g) /\ Owes(g) = {}
      BY <1>1, <2>5, GetterSound DEF g, Filtered
    <3>2. g.set = "discharged"
      BY DEF g, Getting
    <3> QED BY <2>5, <3>1, <3>2
  <2>7. UNCHANGED <<pkg, phase, work, asked, built, marks, reported>>
    BY <1>1 DEF Filtered
  <2> QED BY <1>1, <2>1, <2>4, <2>6, <2>7, CallPushes
<1>4. CASE PassNarrowScope /\ Top.diag.call \notin Funcs
  <2> DEFINE f == [Top EXCEPT !.at = "suppress"]
  <2>1. Continue(f, << >>) /\ Visible(Top.diag.line)
    BY <1>4 DEF PassNarrowScope, Visible
  <2>2. f \in Frames /\ f.at = "suppress" /\ f.diag = Top.diag
    BY <1>1, TopSound, FrameFilters
  <2> HIDE DEF f
  <2>3. Passed(f)
    BY <1>4, <2>1, <2>2 DEF Passed, dischargedFuncs
  <2> QED BY <1>1, <2>1, <2>3, FilterGoesOn DEF f
<1> QED BY <1>2, <1>3, <1>4

LEMMA BarrierCounts ==
    ASSUME ReportInv, DischargedFilter
    PROVE  Accounts'
<1>1. stack # << >> /\ Top.op = "report" /\ Top.at = "barrier" /\ UNCHANGED Filtered
  BY DEF DischargedFilter, IsReporting
<1>2. CASE Top.diag.call \in dischargedFuncs
  <2>1. ~Deserved(Top.diag) /\ Return
    BY <1>2 DEF DischargedFilter, Deserved
  <2> QED BY <1>1, <2>1, FilterDrops
<1>3. CASE Top.diag.call \notin dischargedFuncs
  <2> DEFINE f == [Top EXCEPT !.at = "suppress"]
  <2>1. Continue(f, << >>)
    BY <1>3 DEF DischargedFilter
  <2>2. f \in Frames /\ f.at = "suppress" /\ f.diag = Top.diag
    BY <1>1, TopSound, FrameFilters
  <2>3. Visible(Top.diag.line)
    BY <1>1, TopSound DEF SoundCalls, Passed
  <2> HIDE DEF f
  <2>4. Passed(f)
    BY <1>3, <2>2, <2>3 DEF Passed
  <2> QED BY <1>1, <2>1, <2>4, FilterGoesOn DEF f
<1> QED BY <1>2, <1>3

\* The line and function marks decide as the text does: whatever a marker could
\* silence is reported after the markers have been read.
LEMMA SuppressCounts ==
    ASSUME ReportInv, SuppressFilter
    PROVE  Accounts'
<1>1. stack # << >> /\ Top.op = "report" /\ Top.at = "suppress" /\ UNCHANGED Filtered
  BY DEF SuppressFilter, IsReporting
<1>2. CASE isSuppressibleCategory(Top.diag) /\ InSuppressed(Top.diag.line)
  <2>1. Return
    BY <1>2 DEF SuppressFilter
  <2>2. PICK m \in Accepted("suppress") : Covers(m, Top.diag.line)
    BY <1>2 DEF ReportInv, Accounts, Marks
  <2>3. ~Deserved(Top.diag)
    BY <1>2, <2>2 DEF Deserved
  <2> QED BY <1>1, <2>1, <2>3, FilterDrops
<1>3. CASE ~(isSuppressibleCategory(Top.diag) /\ InSuppressed(Top.diag.line))
  <2> DEFINE f == [Top EXCEPT !.at = "use"]
  <2>1. Continue(f, << >>)
    BY <1>3 DEF SuppressFilter
  <2>2. f \in Frames /\ f.at = "use" /\ f.diag = Top.diag
    BY <1>1, TopSound, FrameFilters
  <2>3. Visible(Top.diag.line) /\ Top.diag.call \notin dischargedFuncs
    BY <1>1, TopSound DEF SoundCalls, Passed
  <2>4. ASSUME NEW m \in Accepted("suppress"), isSuppressibleCategory(Top.diag), Covers(m, Top.diag.line)
        PROVE  FALSE
    <3>1. ~Early
      BY <1>1, <2>4, TopSound DEF SoundCalls, isSuppressibleCategory
    <3>2. PendingSuppress = {}
      BY <3>1 DEF Early, PendingSuppress
    <3>3. InSuppressed(Top.diag.line)
      BY <2>4, <3>2 DEF ReportInv, Accounts, Marks
    <3> QED BY <1>3, <2>4, <3>3
  <2> HIDE DEF f
  <2>5. Passed(f)
    BY <2>2, <2>3, <2>4 DEF Passed
  <2> QED BY <1>1, <2>1, <2>5, FilterGoesOn DEF f
<1> QED BY <1>2, <1>3

LEMMA UseCounts ==
    ASSUME ReportInv, UseFilter
    PROVE  Accounts'
<1>1. stack # << >> /\ Top.op = "report" /\ Top.at = "use" /\ UNCHANGED Filtered
  BY DEF UseFilter, IsReporting
<1>2. CASE NamesSubject(Top.diag) /\ UseAsserted(Top.diag.line, Top.diag.subject)
  <2>1. Return
    BY <1>2 DEF UseFilter
  <2>2. PICK m \in Accepted("use") : Top.diag.subject \in m.names /\ Covers(m, Top.diag.line)
    BY <1>2 DEF ReportInv, Accounts, Marks
  <2>3. ~Deserved(Top.diag)
    BY <1>2, <2>2 DEF Deserved, NamesSubject
  <2> QED BY <1>1, <2>1, <2>3, FilterDrops
<1>3. CASE ~(NamesSubject(Top.diag) /\ UseAsserted(Top.diag.line, Top.diag.subject))
  <2> DEFINE f == [Top EXCEPT !.at = "emit"]
  <2>1. Continue(f, << >>)
    BY <1>3 DEF UseFilter
  <2>2. f \in Frames /\ f.at = "emit" /\ f.diag = Top.diag
    BY <1>1, TopSound, FrameFilters
  <2>3. /\ Visible(Top.diag.line) /\ Top.diag.call \notin dischargedFuncs
        /\ ~\E m \in Accepted("suppress") : isSuppressibleCategory(Top.diag) /\ Covers(m, Top.diag.line)
    BY <1>1, TopSound DEF SoundCalls, Passed
  <2>4. ASSUME NEW m \in Accepted("use"), Top.diag.category = "must-consume",
               Top.diag.subject \in m.names, Covers(m, Top.diag.line)
        PROVE  FALSE
    <3>1. ~Early
      BY <1>1, <2>4, TopSound DEF SoundCalls
    <3>2. PendingUse = {}
      BY <3>1 DEF Early, PendingUse
    <3>3. UseAsserted(Top.diag.line, Top.diag.subject)
      BY <2>4, <3>2 DEF ReportInv, Accounts, Marks
    <3>4. m \in MarkerType
      BY PackageAssumption DEF Accepted, MarkersOf, ReportInv, PassInv, LockInv
    <3>5. m.names \subseteq Subjects
      BY <3>4 DEF MarkerType
    <3>6. NamesSubject(Top.diag)
      BY <2>4, <3>5, PackageAssumption DEF NamesSubject
    <3> QED BY <1>3, <3>3, <3>6
  <2> HIDE DEF f
  <2>5. Deserved(Top.diag)
    BY <2>3, <2>4 DEF Deserved
  <2>6. Passed(f)
    BY <2>2, <2>3, <2>5 DEF Passed
  <2> QED BY <1>1, <2>1, <2>6, FilterGoesOn DEF f
<1> QED BY <1>2, <1>3

LEMMA PassReportCounts ==
    ASSUME ReportInv, PassReport
    PROVE  Accounts'
<1> DEFINE d == Top.diag
<1>1. /\ stack # << >> /\ Top.op = "report" /\ Top.at = "emit" /\ Return
      /\ reported' = Append(reported, d)
      /\ UNCHANGED <<pkg, phase, work, asked, built, marks>>
  BY DEF PassReport, IsReporting
<1>2. Owes(Top) = {d} /\ ~InBuild(Top)
  BY <1>1 DEF Owes, InBuild
<1>3. d \in Due /\ d \notin Rest
  BY <1>1, <1>2, TopSound
<1>4. d \in Diagnostics
  BY <1>1, TopSound DEF Frames
<1>5. d \in Deserving
  BY <1>1, <1>3, TopSound DEF SoundCalls, Passed, Deserving
<1> HIDE DEF d
<1>6. reported \in Seq(Diagnostics) /\ ReportedOnce /\ Reported \subseteq Deserving
      /\ Reported \cap (RunOwes \cup SetsOwe) = {}
  BY DEF ReportInv, Accounts, Book
<1>7. /\ reported' \in Seq(Diagnostics) /\ Len(reported') = Len(reported) + 1
      /\ \A i \in 1 .. Len(reported) : reported'[i] = reported[i]
      /\ reported'[Len(reported) + 1] = d
  BY <1>1, <1>4, <1>6, AppendProperties
<1>8. DOMAIN reported = 1 .. Len(reported) /\ DOMAIN reported' = 1 .. Len(reported') /\ Len(reported) \in Nat
  BY <1>6, <1>7, LenProperties
<1>9. \A i \in DOMAIN reported' :
         (i \in DOMAIN reported /\ reported'[i] = reported[i]) \/ (i = Len(reported) + 1 /\ reported'[i] = d)
  BY <1>7, <1>8
<1>10. d \notin Reported
  BY <1>3 DEF Rest
<1>11. Reported' = Reported \cup {d}
  <2>1. ASSUME NEW e \in Reported' PROVE e \in Reported \cup {d}
    <3>1. PICK i \in DOMAIN reported' : e = reported'[i]
      BY <2>1 DEF Reported
    <3> QED BY <1>9, <3>1 DEF Reported
  <2>2. ASSUME NEW e \in Reported PROVE e \in Reported'
    <3>1. PICK i \in DOMAIN reported : e = reported[i]
      BY <2>2 DEF Reported
    <3>2. i \in DOMAIN reported' /\ e = reported'[i]
      BY <1>7, <1>8, <3>1
    <3> QED BY <3>2 DEF Reported
  <2>3. d \in Reported'
    <3>1. Len(reported) + 1 \in DOMAIN reported'
      BY <1>7, <1>8
    <3> QED BY <1>7, <3>1 DEF Reported
  <2> QED BY <2>1, <2>2, <2>3
<1>12. ReportedOnce'
  <2> SUFFICES ASSUME NEW i \in DOMAIN reported', NEW k \in DOMAIN reported', reported'[i] = reported'[k]
               PROVE  i = k
    BY DEF ReportedOnce
  <2>1. \A n \in DOMAIN reported : reported[n] # d
    BY <1>10 DEF Reported
  <2>2. CASE i \in DOMAIN reported /\ k \in DOMAIN reported
    BY <1>6, <1>7, <1>8, <2>2 DEF ReportedOnce
  <2> QED BY <1>9, <2>1, <2>2
<1>13. SetsOwe' = SetsOwe /\ RunOwes' = RunOwes
  <2>1. Unbuilt' = Unbuilt
    BY <1>1, <1>2, UnbuiltPops DEF ReportInv, PassInv
  <2> QED BY <1>1, <2>1, SetsOweKept, RunOwesKept
<1>14. Book'
  <2>1. Reported' \subseteq Deserving' /\ Diagnostics' = Diagnostics
    BY <1>1, <1>5, <1>6, <1>11, DeservingConstant, FramesConstant
  <2>2. Reported' \cap (RunOwes' \cup SetsOwe') = {}
    BY <1>3, <1>6, <1>11, <1>13 DEF Rest
  <2> QED BY <1>7, <1>12, <2>1, <2>2 DEF Book
<1>15. Rest' = Rest \cup Owes(Top)
  BY <1>2, <1>11, <1>13 DEF Rest
<1>16. \A i \in 1 .. (Len(stack) - 1) : InBuild(stack[i]) => stack[i].set \notin built'
  BY <1>1, TopSound DEF SoundCalls
<1>17. Ledger'
  BY <1>1, <1>15, <1>16, LedgerPops DEF ReportInv, Accounts
<1>18. Asked'
  BY <1>1, OutermostReturns, AskedKept DEF ReportInv, Accounts, PassInv, LockInv, Asked
<1> QED BY <1>1, <1>14, <1>17, <1>18, PhaseKept, MarksKept, AcceptedConstant DEF ReportInv, Accounts

-----------------------------------------------------------------------------
(* The steps of runFunc.                                                   *)

\* runFunc makes a call, or goes on without one.
LEMMA RunStarts ==
    ASSUME ReportInv, stack = << >>, UNCHANGED <<pkg, built, reported>>, RunOwes' \subseteq RunOwes,
           NEW c \in SoundCalls', ~InBuild(c), stack' = <<c>>,
           Owes(c) \cap RunOwes' = {}, RunOwes' \cup Owes(c) = RunOwes
    PROVE  Ledger' /\ Book'
<1> USE DEF ReportInv, Accounts
<1>1. SetsOwe' = SetsOwe
  BY UnbuiltStarts, SetsOweKept
<1>2. Book' /\ Reported' = Reported
  BY <1>1, BookKept
<1>3. Owes(c) \cap SetsOwe = {}
  <2>1. \A d \in RunOwes : d \notin SetsOwe
    <3>1. \A s \in Sets : \A d \in BuildReports(s) : d \notin RunOwes
      BY RunApart DEF RunOwes
    <3> QED BY <3>1, OwedBySets DEF Unbuilt
  <2> QED BY <2>1
<1>4. Owes(c) \cap Reported = {}
  BY DEF Book
<1>5. Owes(c) \cap Rest' = {} /\ Rest' \cup Owes(c) = Rest
  BY <1>1, <1>2, <1>3, <1>4 DEF Rest
<1>6. Ledger'
  BY <1>5, LedgerStarts
<1> QED BY <1>2, <1>6

LEMMA RunIdles ==
    ASSUME ReportInv, stack = << >>, stack' = << >>, UNCHANGED <<pkg, built, reported>>, RunOwes' = RunOwes
    PROVE  Ledger' /\ Book'
<1> USE DEF ReportInv, Accounts
<1>1. SetsOwe' = SetsOwe
  BY UnbuiltStarts, SetsOweKept
<1>2. Book' /\ Reported' = Reported
  BY <1>1, BookKept
<1>3. Rest' = Rest
  BY <1>1, <1>2 DEF Rest
<1> QED BY <1>2, <1>3, LedgerIdles

LEMMA AskedIdle ==
    ASSUME Asked, asked' = asked, built' = built, stack = << >>,
           phase' \in {"checks", "done"} => asked = Len(Exports),
           phase' = "done" => stack' = << >> /\ AlwaysAsked \subseteq built
    PROVE  Asked'
BY DEF Asked

\* The next phase takes over what runFunc has still to look at.
LEMMA GoOnFacts ==
    ASSUME PhaseInv, GoOn, pkg' = pkg, phase # "done", work = {}
    PROVE  /\ PendingSuppress' = PendingSuppress /\ PendingUse' = PendingUse
           /\ PendingFindings' = PendingFindings
           /\ PhaseInv' /\ phase' # "config"
           /\ phase' = "checks" => phase = "export"
           /\ phase' = "done" => phase = "checks"
<1>0. /\ MarkersOf("suppress")' = MarkersOf("suppress") /\ MarkersOf("use")' = MarkersOf("use")
      /\ phase' = PhaseAfter(phase) /\ work' = WorkOf(phase')
      /\ phase \in {"config", "suppress", "use", "export", "checks"}
  BY DueConstant DEF GoOn, PhaseInv
<1> USE DEF PendingSuppress, PendingUse, PendingFindings, PhaseInv, WorkOf
<1>1. CASE phase = "config"
  BY <1>0, <1>1, PhaseOrder
<1>2. CASE phase = "suppress"
  BY <1>0, <1>2, PhaseOrder
<1>3. CASE phase = "use"
  BY <1>0, <1>3, PhaseOrder
<1>4. CASE phase = "export"
  BY <1>0, <1>4, PhaseOrder
<1>5. CASE phase = "checks"
  BY <1>0, <1>5, PhaseOrder
<1> QED BY <1>0, <1>1, <1>2, <1>3, <1>4, <1>5

\* What runFunc owes, step by step.
LEMMA RunOwesMoves ==
    ASSUME pkg' = pkg, phase' # "config", PendingFindings' = PendingFindings,
           PendingSuppress' \cup PendingUse' = PendingSuppress \cup PendingUse
    PROVE  RunOwes = RunOwes' \cup (IF phase = "config" /\ pkg.configError THEN {ConfigReport} ELSE {})
<1>1. /\ Rejected' = Rejected /\ \A m : MarkerReport(m)' = MarkerReport(m)
      /\ \A d : FindingReport(d)' = FindingReport(d)
  BY DueConstant DEF FindingReport, Diagnostic
<1> QED BY <1>1 DEF RunOwes

LEMMA MarksMove ==
    ASSUME Marks, pkg' = pkg, marks' = marks, PendingSuppress' = PendingSuppress, PendingUse' = PendingUse
    PROVE  Marks'
<1>1. Accepted("suppress")' = Accepted("suppress") /\ Accepted("use")' = Accepted("use")
  BY DEF Accepted, MarkersOf
<1> QED BY <1>1, MarksKept

LEMMA ConfigErrorCounts ==
    ASSUME ReportInv, ReportConfigError
    PROVE  Accounts'
<1> USE DEF ReportInv, Accounts
<1>1. /\ phase = "config" /\ stack = << >> /\ GoOn /\ work = {}
      /\ stack' = IF pkg.configError THEN <<Reporting(ConfigReport)>> ELSE << >>
      /\ UNCHANGED <<pkg, asked, mu, built, marks, reported>>
  BY DEF ReportConfigError, PhaseInv
<1>2. /\ PendingSuppress' = PendingSuppress /\ PendingUse' = PendingUse
      /\ PendingFindings' = PendingFindings /\ PhaseInv' /\ phase' # "config"
      /\ phase' \notin {"checks", "done"}
  BY <1>1, GoOnFacts
<1>3. RunOwes = RunOwes' \cup (IF phase = "config" /\ pkg.configError THEN {ConfigReport} ELSE {})
  BY <1>1, <1>2, RunOwesMoves
<1>4. Marks'
  BY <1>1, <1>2, MarksMove
<1>5. Asked'
  BY <1>1, <1>2, AskedIdle
<1>6. CASE pkg.configError
  <2> DEFINE c == Reporting(ConfigReport)
  <2>1. ConfigReport \in Due /\ ConfigReport \in Diagnostics
    BY <1>6, RunReports DEF Due
  <2>2. c \in SoundCalls' /\ ~InBuild(c) /\ Owes(c) = {ConfigReport}
    BY <1>1, <2>1, ReportSound, EarlyCategories
  <2> HIDE DEF c
  <2>3. ConfigReport \notin RunOwes'
    <3>1. /\ \A m : MarkerReport(m)' = MarkerReport(m)
          /\ \A d : FindingReport(d)' = FindingReport(d)
      BY <1>1, DueConstant DEF FindingReport, Diagnostic
    <3> QED BY <1>2, <3>1, RunApart DEF RunOwes
  <2>4. stack' = <<c>> /\ RunOwes' \cup Owes(c) = RunOwes /\ Owes(c) \cap RunOwes' = {}
    BY <1>1, <1>3, <1>6, <2>2, <2>3 DEF c
  <2> QED BY <1>1, <1>2, <1>4, <1>5, <2>2, <2>4, RunStarts
<1>7. CASE ~pkg.configError
  <2>1. stack' = << >> /\ RunOwes' = RunOwes
    BY <1>1, <1>3, <1>7
  <2> QED BY <1>1, <1>2, <1>4, <1>5, <2>1, RunIdles
<1> QED BY <1>6, <1>7

LEMMA NextPhaseCounts ==
    ASSUME ReportInv, NextPhase
    PROVE  Accounts'
<1> USE DEF ReportInv, Accounts
<1>1. /\ phase \in {"suppress", "use", "export", "checks"} /\ stack = << >> /\ GoOn /\ work = {}
      /\ phase = "export" => asked = Len(Exports)
      /\ phase = "checks" => AlwaysAsked \subseteq built
      /\ UNCHANGED <<pkg, asked, stack, mu, built, marks, reported>>
  BY DEF NextPhase
<1>2. /\ PendingSuppress' = PendingSuppress /\ PendingUse' = PendingUse
      /\ PendingFindings' = PendingFindings /\ PhaseInv' /\ phase' # "config"
      /\ phase' = "checks" => phase = "export"
      /\ phase' = "done" => phase = "checks"
  BY <1>1, GoOnFacts
<1>3. RunOwes = RunOwes'
  BY <1>1, <1>2, RunOwesMoves
<1>4. Marks'
  BY <1>1, <1>2, MarksMove
<1>5. Asked'
  BY <1>1, <1>2, AskedIdle DEF Asked
<1> QED BY <1>1, <1>2, <1>3, <1>4, <1>5, RunIdles

\* runFunc asks for a set, once the markers are read.
LEMMA RunAsks ==
    ASSUME ReportInv, stack = << >>, ~Early, NEW s \in Sets, stack' = <<Getting(s)>>,
           UNCHANGED <<pkg, phase, work, mu, built, marks, reported>>
    PROVE  PhaseInv' /\ Ledger' /\ Book' /\ Marks'
<1> USE DEF ReportInv, Accounts
<1>1. Early' <=> Early
  BY DEF Early
<1>2. Getting(s) \in SoundCalls' /\ ~InBuild(Getting(s)) /\ Owes(Getting(s)) = {}
  BY <1>1, GetterSound
<1>3. RunOwes' = RunOwes
  BY RunOwesKept
<1>4. Ledger' /\ Book'
  BY <1>2, <1>3, RunStarts
<1> QED BY <1>4, PhaseKept, MarksKept, AcceptedConstant

LEMMA ExportCounts ==
    ASSUME ReportInv, AskExport
    PROVE  Accounts'
<1> USE DEF ReportInv, Accounts
<1>1. /\ phase = "export" /\ stack = << >> /\ asked < Len(Exports) /\ asked' = asked + 1
      /\ stack' = <<Getting(Exports[asked + 1])>>
      /\ UNCHANGED <<pkg, phase, work, mu, built, marks, reported>>
  BY DEF AskExport
<1>2. asked \in Nat /\ Len(Exports) = 5
  BY DEF PassInv, Exports
<1>3. Exports[asked + 1] \in Sets
  BY <1>1, <1>2 DEF Exports, Sets
<1>4. ~Early
  BY <1>1 DEF Early
<1>5. PhaseInv' /\ Ledger' /\ Book' /\ Marks'
  BY <1>1, <1>3, <1>4, RunAsks
<1>6. Asked'
  <2>1. asked' <= Len(Exports) /\ phase' \notin {"checks", "done"}
    BY <1>1, <1>2
  <2>2. stack' # << >> /\ stack'[1].op = "get" /\ stack'[1].set = Exports[asked + 1]
    BY <1>1 DEF Getting
  <2>3. \A i \in 1 .. asked : Exports[i] \in built
    BY <1>1 DEF Asked
  <2>4. \A i \in 1 .. asked' : i \in 1 .. asked \/ i = asked + 1
    BY <1>1, <1>2
  <2> QED BY <1>1, <2>1, <2>2, <2>3, <2>4 DEF Asked
<1> QED BY <1>5, <1>6

LEMMA AskCounts ==
    ASSUME ReportInv, NEW s \in Sets, AskInCheck(s)
    PROVE  Accounts'
<1> USE DEF ReportInv, Accounts
<1>1. /\ phase = "checks" /\ stack = << >> /\ stack' = <<Getting(s)>>
      /\ UNCHANGED <<pkg, phase, work, asked, mu, built, marks, reported>>
  BY DEF AskInCheck
<1>2. PhaseInv' /\ Ledger' /\ Book' /\ Marks'
  BY <1>1, RunAsks DEF Early
<1>3. Asked'
  BY <1>1, AskedIdle DEF Asked
<1> QED BY <1>2, <1>3

\* A comment on a line is about the line it marks.
LEMMA CoversLine ==
    ASSUME NEW m, NEW line, m.fn \notin Funcs
    PROVE  Covers(m, line) <=> line \in resolveSuppressLine(m.line)
BY DEF Covers, resolveSuppressLine

\* A marker has been looked at.
LEMMA MarkerLookedAt ==
    ASSUME ReportInv, phase \in {"suppress", "use"}, NEW m \in work,
           UNCHANGED <<pkg, phase>>, work' = work \ {m}
    PROVE  /\ PhaseInv'
           /\ m \in MarkersOf(phase)
           /\ phase = "suppress" => /\ PendingSuppress' = PendingSuppress \ {m}
                                    /\ m \in PendingSuppress
                                    /\ PendingUse' = PendingUse
           /\ phase = "use" => /\ PendingUse' = PendingUse \ {m} /\ m \in PendingUse
                               /\ PendingSuppress' = PendingSuppress
           /\ PendingFindings' = PendingFindings
           /\ RunOwes' = (RunOwes \ (IF m \in Rejected THEN {MarkerReport(m)} ELSE {}))
           /\ m \in Rejected => MarkerReport(m) \in RunOwes
<1>1. PhaseInv'
  BY DEF ReportInv, Accounts, PhaseInv
<1>2. m \in MarkersOf(phase)
  BY DEF ReportInv, PassInv
<1>3. /\ phase = "suppress" => /\ PendingSuppress' = PendingSuppress \ {m}
                               /\ m \in PendingSuppress
                               /\ PendingUse' = PendingUse
      /\ phase = "use" => /\ PendingUse' = PendingUse \ {m} /\ m \in PendingUse
                          /\ PendingSuppress' = PendingSuppress
      /\ PendingFindings' = PendingFindings
  BY DEF PendingSuppress, PendingUse, PendingFindings, MarkersOf
<1>4. m.kind = phase
  BY <1>2 DEF MarkersOf
<1>5. PendingSuppress' \cup PendingUse' = (PendingSuppress \cup PendingUse) \ {m}
  <2>1. CASE phase = "suppress"
    <3>1. m \notin PendingUse
      BY <1>4, <2>1 DEF PendingUse, MarkersOf
    <3> QED BY <1>3, <2>1, <3>1
  <2>2. CASE phase = "use"
    <3>1. m \notin PendingSuppress
      BY <2>2 DEF PendingSuppress
    <3> QED BY <1>3, <2>2, <3>1
  <2> QED BY <2>1, <2>2
<1>6. /\ Rejected' = Rejected /\ \A n : MarkerReport(n)' = MarkerReport(n)
      /\ \A d : FindingReport(d)' = FindingReport(d)
  BY DueConstant DEF FindingReport, Diagnostic
<1>7. m \in Rejected => MarkerReport(m) \in RunOwes
  BY <1>3 DEF RunOwes
<1> DEFINE P == Rejected \cap (PendingSuppress \cup PendingUse)
           F == {FindingReport(d) : d \in PendingFindings}
<1>8. RunOwes = {MarkerReport(n) : n \in P} \cup F
  BY DEF RunOwes
<1>9. RunOwes' = {MarkerReport(n) : n \in P \ {m}} \cup F
  BY <1>3, <1>5, <1>6 DEF RunOwes
<1>10. MarkerReport(m) \notin F /\ \A n \in P : MarkerReport(n) = MarkerReport(m) => n = m
  BY RunApart
<1>11. m \notin Rejected => m \notin P
  OBVIOUS
<1> HIDE DEF P, F
<1>12. RunOwes' = (RunOwes \ (IF m \in Rejected THEN {MarkerReport(m)} ELSE {}))
  <2>1. CASE m \in Rejected
    BY <1>8, <1>9, <1>10, <2>1
  <2>2. CASE m \notin Rejected
    BY <1>8, <1>9, <1>11, <2>2
  <2> QED BY <2>1, <2>2
<1> QED BY <1>1, <1>2, <1>3, <1>7, <1>12

LEMMA SuppressedCounts ==
    ASSUME ReportInv, NEW m, MarkSuppressed(m)
    PROVE  Accounts'
<1> USE DEF ReportInv, Accounts
<1>1. /\ phase = "suppress" /\ stack = << >> /\ m \in work /\ m.form = "ok" /\ work' = work \ {m}
      /\ UNCHANGED <<pkg, phase, asked, stack, mu, built, usedFuncs, usedLines, reported>>
  BY DEF MarkSuppressed
<1>2. m \notin Rejected
  BY <1>1 DEF Rejected
<1>3. /\ PhaseInv' /\ m \in MarkersOf("suppress") /\ RunOwes' = RunOwes
      /\ PendingSuppress' = PendingSuppress \ {m} /\ m \in PendingSuppress /\ PendingUse' = PendingUse
  BY <1>1, <1>2, MarkerLookedAt
<1>4. Ledger' /\ Book'
  BY <1>1, <1>3, RunIdles
<1>5. /\ Accepted("suppress")' = Accepted("suppress") /\ Accepted("use")' = Accepted("use")
      /\ m \in Accepted("suppress")
  BY <1>1, <1>3 DEF Accepted, MarkersOf
<1>6. ASSUME NEW line
      PROVE  InSuppressed(line)' <=> InSuppressed(line) \/ Covers(m, line)
  <2>1. CASE m.fn \in Funcs
    <3>1. suppressedFuncs' = suppressedFuncs \cup {m.fn} /\ suppressedLines' = suppressedLines
      BY <2>1 DEF MarkSuppressed
    <3> QED BY <2>1, <3>1 DEF InSuppressed, Covers
  <2>2. CASE m.fn \notin Funcs
    <3>1. /\ suppressedLines' = suppressedLines \cup resolveSuppressLine(m.line)
          /\ suppressedFuncs' = suppressedFuncs
      BY <2>2 DEF MarkSuppressed
    <3> QED BY <2>2, <3>1, CoversLine DEF InSuppressed
  <2> QED BY <2>1, <2>2
<1>7. \A n, line : Covers(n, line)' <=> Covers(n, line)
  BY DEF Covers
<1>8. \A line, subject : UseAsserted(line, subject)' <=> UseAsserted(line, subject)
  BY <1>1 DEF UseAsserted
<1>9. ASSUME NEW line
      PROVE  InSuppressed(line)' <=> \E n \in (Accepted("suppress") \ PendingSuppress)' : Covers(n, line)'
  <2>1. InSuppressed(line) <=> \E n \in Accepted("suppress") \ PendingSuppress : Covers(n, line)
    BY DEF Marks
  <2>2. \A n : n \in (Accepted("suppress") \ PendingSuppress)' <=>
                  n \in Accepted("suppress") \ PendingSuppress \/ n = m
    BY <1>3, <1>5
  <2> QED BY <1>6, <1>7, <2>1, <2>2
<1>10. Marks'
  <2>1. ASSUME NEW line, NEW subject
        PROVE  UseAsserted(line, subject)' <=>
                  \E n \in (Accepted("use") \ PendingUse)' : subject \in n.names /\ Covers(n, line)'
    BY <1>3, <1>5, <1>7, <1>8 DEF Marks
  <2> QED BY <1>9, <2>1 DEF Marks
<1>11. Asked'
  BY <1>1, AskedIdle DEF Asked
<1> QED BY <1>3, <1>4, <1>10, <1>11

LEMMA UsedCounts ==
    ASSUME ReportInv, NEW m, MarkUseAsserted(m)
    PROVE  Accounts'
<1> USE DEF ReportInv, Accounts
<1>1. /\ phase = "use" /\ stack = << >> /\ m \in work /\ m.form = "ok" /\ work' = work \ {m}
      /\ UNCHANGED <<pkg, phase, asked, stack, mu, built, suppressedFuncs, suppressedLines, reported>>
  BY DEF MarkUseAsserted
<1>2. m \notin Rejected
  BY <1>1 DEF Rejected
<1>3. /\ PhaseInv' /\ m \in MarkersOf("use") /\ RunOwes' = RunOwes
      /\ PendingUse' = PendingUse \ {m} /\ m \in PendingUse /\ PendingSuppress' = PendingSuppress
  BY <1>1, <1>2, MarkerLookedAt
<1>4. Ledger' /\ Book'
  BY <1>1, <1>3, RunIdles
<1>5. /\ Accepted("suppress")' = Accepted("suppress") /\ Accepted("use")' = Accepted("use")
      /\ m \in Accepted("use")
  BY <1>1, <1>3 DEF Accepted, MarkersOf
<1>6. ASSUME NEW line, NEW subject
      PROVE  UseAsserted(line, subject)' <=>
                UseAsserted(line, subject) \/ (subject \in m.names /\ Covers(m, line))
  <2>1. CASE m.fn \in Funcs
    <3>1. usedFuncs' = usedFuncs \cup ({m.fn} \X m.names) /\ usedLines' = usedLines
      BY <2>1 DEF MarkUseAsserted
    <3>2. \A h : <<h, subject>> \in usedFuncs' <=>
                    <<h, subject>> \in usedFuncs \/ (h = m.fn /\ subject \in m.names)
      BY <3>1
    <3> QED BY <2>1, <3>1, <3>2 DEF UseAsserted, Covers
  <2>2. CASE m.fn \notin Funcs
    <3>1. /\ usedLines' = usedLines \cup (resolveSuppressLine(m.line) \X m.names)
          /\ usedFuncs' = usedFuncs
      BY <2>2 DEF MarkUseAsserted
    <3>2. <<line, subject>> \in usedLines' <=>
             <<line, subject>> \in usedLines \/ (line \in resolveSuppressLine(m.line) /\ subject \in m.names)
      BY <3>1
    <3> QED BY <2>2, <3>1, <3>2, CoversLine DEF UseAsserted
  <2> QED BY <2>1, <2>2
<1>7. \A n, line : Covers(n, line)' <=> Covers(n, line)
  BY DEF Covers
<1>8. \A line : InSuppressed(line)' <=> InSuppressed(line)
  BY <1>1 DEF InSuppressed
<1>9. ASSUME NEW line, NEW subject
      PROVE  UseAsserted(line, subject)' <=>
                \E n \in (Accepted("use") \ PendingUse)' : subject \in n.names /\ Covers(n, line)'
  <2>1. UseAsserted(line, subject) <=>
           \E n \in Accepted("use") \ PendingUse : subject \in n.names /\ Covers(n, line)
    BY DEF Marks
  <2>2. \A n : n \in (Accepted("use") \ PendingUse)' <=> n \in Accepted("use") \ PendingUse \/ n = m
    BY <1>3, <1>5
  <2> QED BY <1>6, <1>7, <2>1, <2>2
<1>10. Marks'
  <2>1. ASSUME NEW line
        PROVE  InSuppressed(line)' <=>
                  \E n \in (Accepted("suppress") \ PendingSuppress)' : Covers(n, line)'
    BY <1>3, <1>5, <1>7, <1>8 DEF Marks
  <2> QED BY <1>9, <2>1 DEF Marks
<1>11. Asked'
  BY <1>1, AskedIdle DEF Asked
<1> QED BY <1>3, <1>4, <1>10, <1>11

LEMMA RejectCounts ==
    ASSUME ReportInv, NEW m, RejectMarker(m)
    PROVE  Accounts'
<1> USE DEF ReportInv, Accounts
<1>1. /\ phase \in {"suppress", "use"} /\ stack = << >> /\ m \in work /\ m.form # "ok"
      /\ work' = work \ {m}
      /\ stack' = IF m.form = "scoped" THEN << >> ELSE <<Reporting(MarkerReport(m))>>
      /\ UNCHANGED <<pkg, phase, asked, mu, built, marks, reported>>
  BY DEF RejectMarker
<1>2. /\ PhaseInv' /\ m \in MarkersOf(phase)
      /\ RunOwes' = RunOwes \ (IF m \in Rejected THEN {MarkerReport(m)} ELSE {})
      /\ m \in Rejected => MarkerReport(m) \in RunOwes
  BY <1>1, MarkerLookedAt
<1>3. m \in MarkersOf("suppress") \cup MarkersOf("use")
  BY <1>1, <1>2
<1>4. Marks'
  <2>1. /\ PendingSuppress' \in {PendingSuppress, PendingSuppress \ {m}}
        /\ PendingUse' \in {PendingUse, PendingUse \ {m}}
    BY <1>1, MarkerLookedAt
  <2>2. m \notin Accepted("suppress") /\ m \notin Accepted("use")
    BY <1>1 DEF Accepted
  <2>3. Accepted("suppress")' = Accepted("suppress") /\ Accepted("use")' = Accepted("use")
    BY <1>1 DEF Accepted, MarkersOf
  <2>4. /\ (Accepted("suppress") \ PendingSuppress)' = Accepted("suppress") \ PendingSuppress
        /\ (Accepted("use") \ PendingUse)' = Accepted("use") \ PendingUse
    BY <2>1, <2>2, <2>3
  <2> QED BY <1>1, <2>4, MarksKept
<1>5. Asked'
  BY <1>1, AskedIdle DEF Asked
<1>6. CASE m.form = "scoped"
  <2>1. m \notin Rejected
    BY <1>6 DEF Rejected
  <2> QED BY <1>1, <1>2, <1>4, <1>5, <1>6, <2>1, RunIdles
<1>7. CASE m.form # "scoped"
  <2> DEFINE c == Reporting(MarkerReport(m))
  <2>1. m \in Rejected
    BY <1>1, <1>3, <1>7 DEF Rejected
  <2>2. MarkerReport(m) \in Diagnostics /\ MarkerReport(m) \in Due /\ MarkerReport(m).category = ""
    BY <1>3, <2>1, RunReports, EarlyCategories DEF Due
  <2>3. c \in SoundCalls' /\ ~InBuild(c) /\ Owes(c) = {MarkerReport(m)}
    BY <1>1, <2>2, ReportSound
  <2> HIDE DEF c
  <2>4. stack' = <<c>> /\ Owes(c) \cap RunOwes' = {} /\ RunOwes' \cup Owes(c) = RunOwes
    BY <1>1, <1>2, <1>7, <2>1, <2>3 DEF c
  <2> QED BY <1>1, <1>2, <1>4, <1>5, <2>3, <2>4, RunStarts
<1> QED BY <1>6, <1>7

LEMMA FindingCounts ==
    ASSUME ReportInv, NEW d, ReportFinding(d)
    PROVE  Accounts'
<1> USE DEF ReportInv, Accounts
<1>1. /\ phase = "checks" /\ stack = << >> /\ d \in work /\ work' = work \ {d}
      /\ stack' = <<Reporting(FindingReport(d))>>
      /\ UNCHANGED <<pkg, phase, asked, mu, built, marks, reported>>
  BY DEF ReportFinding
<1>2. /\ PhaseInv' /\ work \subseteq pkg.findings
      /\ PendingFindings = work /\ PendingFindings' = work \ {d}
      /\ PendingSuppress = {} /\ PendingSuppress' = {} /\ PendingUse = {} /\ PendingUse' = {}
  BY <1>1 DEF PhaseInv, PendingFindings, PendingSuppress, PendingUse
<1>3. RunOwes = {FindingReport(e) : e \in work} /\ RunOwes' = {FindingReport(e) : e \in work \ {d}}
  <2>1. \A e : FindingReport(e)' = FindingReport(e)
    BY DEF FindingReport, Diagnostic
  <2> QED BY <1>1, <1>2, <2>1 DEF RunOwes
<1>4. \A e \in work : FindingReport(e) = FindingReport(d) => e = d
  BY <1>1, <1>2, FindingsApart DEF PassInv, LockInv
<1> DEFINE c == Reporting(FindingReport(d))
<1>5. FindingReport(d) \in Diagnostics /\ FindingReport(d) \in Due
  <2>1. d \in pkg.findings
    BY <1>1, <1>2
  <2>2. FindingReport(d) \in {FindingReport(e) : e \in pkg.findings}
    BY <2>1
  <2> QED BY <2>1, <2>2, RunReports DEF Due
<1>6. c \in SoundCalls' /\ ~InBuild(c) /\ Owes(c) = {FindingReport(d)}
  BY <1>1, <1>5, ReportSound DEF Early
<1>7. Marks'
  BY <1>1, <1>2, MarksMove
<1>8. Asked'
  BY <1>1, AskedIdle DEF Asked
<1> HIDE DEF c
<1>9. stack' = <<c>> /\ Owes(c) \cap RunOwes' = {} /\ RunOwes' \cup Owes(c) = RunOwes /\ RunOwes' \subseteq RunOwes
  BY <1>1, <1>3, <1>4, <1>6 DEF c
<1> QED BY <1>1, <1>2, <1>6, <1>7, <1>8, <1>9, RunStarts

-----------------------------------------------------------------------------
(* The accounts are kept, and a finished pass has settled them.            *)

LEMMA InitReport == Init => ReportInv
<1> SUFFICES ASSUME Init PROVE ReportInv
  OBVIOUS
<1>1. /\ pkg \in Packages /\ phase = "config" /\ work = {} /\ asked = 0 /\ stack = << >>
      /\ built = {} /\ reported = << >>
      /\ suppressedFuncs = {} /\ suppressedLines = {} /\ usedFuncs = {} /\ usedLines = {}
  BY DEF Init
<1>2. PhaseInv
  BY <1>1 DEF PhaseInv
<1>3. Len(stack) = 0 /\ DOMAIN reported = {}
  BY <1>1
<1>4. Reported = {}
  BY <1>3 DEF Reported
<1>5. Book
  <2>1. reported \in Seq(Diagnostics)
    BY <1>1, EmptySeq
  <2> QED BY <1>3, <1>4, <2>1 DEF Book, ReportedOnce
<1>6. Marks
  <2>1. \A line : ~InSuppressed(line)
    BY <1>1 DEF InSuppressed
  <2>2. \A line, subject : ~UseAsserted(line, subject)
    BY <1>1 DEF UseAsserted
  <2>3. Accepted("suppress") \ PendingSuppress = {} /\ Accepted("use") \ PendingUse = {}
    BY <1>1 DEF Accepted, PendingSuppress, PendingUse
  <2> QED BY <2>1, <2>2, <2>3 DEF Marks
<1>7. Asked
  BY <1>1 DEF Asked, Exports
<1>8. Due \subseteq Rest
  <2>1. Unbuilt = Sets
    BY <1>1, <1>3 DEF Unbuilt, IsBuilding
  <2>2. /\ PendingSuppress = MarkersOf("suppress") /\ PendingUse = MarkersOf("use")
        /\ PendingFindings = pkg.findings
    BY <1>1 DEF PendingSuppress, PendingUse, PendingFindings
  <2>3. Rejected \cap (PendingSuppress \cup PendingUse) = Rejected
    BY <2>2 DEF Rejected
  <2> QED BY <1>1, <2>1, <2>2, <2>3 DEF Due, Rest, RunOwes, SetsOwe
<1>9. Ledger
  BY <1>3, <1>8 DEF Ledger, Deserving
<1> QED BY <1>2, <1>5, <1>6, <1>7, <1>9, InitPass DEF ReportInv, Accounts

LEMMA IdleCounts ==
    ASSUME ReportInv, UNCHANGED vars
    PROVE  Accounts'
<1> USE DEF ReportInv, Accounts
<1>1. UNCHANGED <<pkg, phase, work, asked, stack, built, marks, reported>>
  BY DEF vars
<1>2. Unbuilt' = Unbuilt
  BY <1>1 DEF Unbuilt, IsBuilding
<1>3. SetsOwe' = SetsOwe /\ RunOwes' = RunOwes
  BY <1>1, <1>2, SetsOweKept, RunOwesKept
<1>4. Book' /\ Reported' = Reported
  BY <1>1, <1>3, BookKept
<1>5. Rest' = Rest
  BY <1>3, <1>4 DEF Rest
<1>6. Ledger'
  <2>1. \A c \in SoundCalls : c \in SoundCalls'
    BY <1>1, SoundKept DEF SoundCalls
  <2>2. \A c : Owes(c)' = Owes(c)
    BY DEF Owes
  <2> QED BY <1>1, <1>5, <2>1, <2>2, DeservingConstant DEF Ledger
<1>7. Asked'
  BY <1>1 DEF Asked
<1> QED BY <1>1, <1>4, <1>6, <1>7, PhaseKept, MarksKept, AcceptedConstant

LEMMA NextReport == ReportInv /\ [Next]_vars => ReportInv'
<1> SUFFICES ASSUME ReportInv, [Next]_vars PROVE ReportInv'
  OBVIOUS
<1>1. PassInv'
  BY NextPass DEF ReportInv
<1>2. Accounts'
  <2>1. CASE ReportConfigError \/ AskExport \/ NextPhase
    BY <2>1, ConfigErrorCounts, ExportCounts, NextPhaseCounts
  <2>2. CASE \E m \in pkg.markers : MarkSuppressed(m) \/ MarkUseAsserted(m) \/ RejectMarker(m)
    BY <2>2, SuppressedCounts, UsedCounts, RejectCounts
  <2>3. CASE \E s \in Sets : AskInCheck(s) \/ BuildAsks(s)
    BY <2>3, AskCounts, AsksCounts
  <2>4. CASE \E d \in pkg.findings : ReportFinding(d)
    BY <2>4, FindingCounts
  <2>5. CASE GetCached \/ GetStartsBuild \/ Publish
    BY <2>5, CachedCounts, StartsBuildCounts, PublishCounts
  <2>6. CASE stack # << >> /\ \E d \in Top.todo : BuildReportsOne(d)
    BY <2>6, ReportsOneCounts
  <2>7. CASE \/ DropByNarrowScope \/ PassNarrowScope \/ DischargedFilter
             \/ SuppressFilter \/ UseFilter \/ PassReport
    BY <2>7, NarrowCounts, BarrierCounts, SuppressCounts, UseCounts, PassReportCounts
  <2>8. CASE UNCHANGED vars
    BY <2>8, IdleCounts
  <2>9. Finished => UNCHANGED vars
    BY DEF Finished
  <2> QED BY <2>1, <2>2, <2>3, <2>4, <2>5, <2>6, <2>7, <2>8, <2>9 DEF Next
<1> QED BY <1>1, <1>2 DEF ReportInv

\* However the getters nest, in whatever order sets are asked for and markers
\* read, no diagnostic is reported twice: a set is built once.
THEOREM NothingIsReportedTwice == Spec => []ReportedOnce
<1>1. ReportInv => ReportedOnce
  BY DEF ReportInv, Accounts, Book
<1> QED BY <1>1, InitReport, NextReport, PTL DEF Spec

-----------------------------------------------------------------------------
(* The set only vowReport asks for.                                        *)

\* A report in a call of a function that the narrow scope let through: past the
\* discharged filter, or waiting for the getter it called.
Through(c) == c.op = "report" /\ c.at \in {"suppress", "use", "emit"} /\ c.diag.call \in Funcs
Waits(c) == c.op = "report" /\ c.at = "barrier"
Asking(c) == c.op = "get" /\ c.set = "discharged"

\* As long as the set of discharged functions is not built.
Barred ==
    /\ \A i \in 1 .. Len(stack) : ~Through(stack[i])
    /\ \A i \in 1 .. Len(stack) : Waits(stack[i]) => i < Len(stack) /\ Asking(stack[i + 1])
    /\ \A d \in Reported : d.call \notin Funcs

BarrierInv == "discharged" \in built \/ Barred

\* runFunc calls c, or nothing.
LEMMA BarredFirst ==
    ASSUME Barred, NEW c, stack' = << >> \/ stack' = <<c>>, ~Through(c), ~Waits(c), Reported' = Reported
    PROVE  Barred'
<1>1. CASE stack' = << >>
  <2>1. Len(stack') = 0
    BY <1>1
  <2> QED BY <2>1 DEF Barred
<1>2. CASE stack' = <<c>>
  <2>1. Len(stack') = 1 /\ stack'[1] = c
    BY <1>2
  <2>2. \A i \in 1 .. Len(stack') : stack'[i] = c
    BY <2>1
  <2> QED BY <2>2 DEF Barred, Through, Waits
<1> QED BY <1>1, <1>2

\* A return, but the one of the getter a report waits for.
LEMMA BarredPops ==
    ASSUME LockInv, Barred, stack # << >>, Return, ~Asking(Top),
           \A d \in Reported' : d \in Reported \/ d.call \notin Funcs
    PROVE  Barred'
<1>1. Len(stack') = Len(stack) - 1 /\ \A i \in 1 .. Len(stack') : stack'[i] = stack[i]
  BY ReturnFacts DEF LockInv, Return, Lower
<1>2. Len(stack) \in Nat \ {0} /\ Top = stack[Len(stack)]
  BY TopFacts DEF Top
<1>3. \A i \in 1 .. Len(stack') : ~Through(stack'[i])
  BY <1>1, <1>2 DEF Barred
<1>4. ASSUME NEW i \in 1 .. Len(stack'), Waits(stack'[i])
      PROVE  i < Len(stack') /\ Asking(stack'[i + 1])
  <2>1. i \in 1 .. Len(stack) /\ stack'[i] = stack[i]
    BY <1>1, <1>2
  <2>2. i < Len(stack) /\ Asking(stack[i + 1])
    BY <1>4, <2>1 DEF Barred
  <2>3. i + 1 # Len(stack)
    BY <1>2, <2>2
  <2>4. i + 1 \in 1 .. Len(stack')
    BY <1>1, <1>2, <2>1, <2>2, <2>3
  <2> QED BY <1>1, <1>2, <2>2, <2>4
<1>5. \A d \in Reported' : d.call \notin Funcs
  BY DEF Barred
<1> QED BY <1>3, <1>4, <1>5 DEF Barred, Through, Waits, Asking

\* The innermost call goes on, and asks for what it asked for.
LEMMA BarredGoesOn ==
    ASSUME LockInv, Barred, stack # << >>, NEW f \in Frames, Continue(f, << >>),
           ~Through(f), ~Waits(f), Asking(Top) => Asking(f), Reported' = Reported
    PROVE  Barred'
<1>1. /\ Len(stack') = Len(stack) /\ stack'[Len(stack)] = f
      /\ \A i \in 1 .. (Len(stack) - 1) : stack'[i] = stack[i]
  BY ContinueFacts DEF LockInv, Continue, Lower
<1>2. Len(stack) \in Nat \ {0} /\ Top = stack[Len(stack)]
  BY TopFacts DEF Top
<1>3. \A i \in 1 .. Len(stack') : i = Len(stack) \/ i \in 1 .. (Len(stack) - 1)
  BY <1>1, <1>2
<1>4. \A i \in 1 .. Len(stack') : ~Through(stack'[i])
  BY <1>1, <1>2, <1>3 DEF Barred
<1>5. ASSUME NEW i \in 1 .. Len(stack'), Waits(stack'[i])
      PROVE  i < Len(stack') /\ Asking(stack'[i + 1])
  <2>1. i \in 1 .. (Len(stack) - 1) /\ stack'[i] = stack[i]
    BY <1>1, <1>3, <1>5
  <2>2. Asking(stack[i + 1])
    BY <1>2, <1>5, <2>1 DEF Barred
  <2>3. CASE i + 1 = Len(stack)
    BY <1>1, <1>2, <2>1, <2>2, <2>3
  <2>4. CASE i + 1 # Len(stack)
    <3>1. i + 1 \in 1 .. (Len(stack) - 1)
      BY <1>2, <2>1, <2>4
    <3> QED BY <1>1, <1>2, <2>1, <2>2, <3>1
  <2> QED BY <2>3, <2>4
<1> QED BY <1>4, <1>5 DEF Barred, Through, Waits, Asking

\* The innermost call goes on and calls g.
LEMMA BarredPushes ==
    ASSUME LockInv, Barred, stack # << >>, NEW f \in Frames, NEW g \in Frames, Continue(f, <<g>>),
           ~Through(f), Waits(f) => Asking(g), Asking(Top) => Asking(f), ~Through(g), ~Waits(g),
           Reported' = Reported
    PROVE  Barred'
<1>1. /\ Len(stack') = Len(stack) + 1
      /\ stack'[Len(stack)] = f /\ stack'[Len(stack) + 1] = g
      /\ \A i \in 1 .. (Len(stack) - 1) : stack'[i] = stack[i]
  BY PushFacts DEF LockInv
<1>2. Len(stack) \in Nat \ {0} /\ Top = stack[Len(stack)]
  BY TopFacts DEF Top
<1>3. \A i \in 1 .. Len(stack') : i = Len(stack) + 1 \/ i = Len(stack) \/ i \in 1 .. (Len(stack) - 1)
  BY <1>1, <1>2
<1>4. \A i \in 1 .. Len(stack') : ~Through(stack'[i])
  BY <1>1, <1>2, <1>3 DEF Barred
<1>5. ASSUME NEW i \in 1 .. Len(stack'), Waits(stack'[i])
      PROVE  i < Len(stack') /\ Asking(stack'[i + 1])
  <2>1. i # Len(stack) + 1
    BY <1>1, <1>5
  <2>2. CASE i = Len(stack)
    BY <1>1, <1>2, <1>5, <2>2
  <2>3. CASE i \in 1 .. (Len(stack) - 1)
    <3>1. Asking(stack[i + 1])
      BY <1>1, <1>2, <1>5, <2>3 DEF Barred
    <3>2. CASE i + 1 = Len(stack)
      BY <1>1, <1>2, <2>3, <3>1, <3>2
    <3>3. CASE i + 1 # Len(stack)
      <4>1. i + 1 \in 1 .. (Len(stack) - 1)
        BY <1>2, <2>3, <3>3
      <4> QED BY <1>1, <1>2, <2>3, <3>1, <4>1
    <3> QED BY <3>2, <3>3
  <2> QED BY <1>3, <2>1, <2>2, <2>3
<1> QED BY <1>4, <1>5 DEF Barred, Through, Waits, Asking

\* A new call is neither through nor waiting.
LEMMA NewCalls ==
    /\ \A s : ~Through(Getting(s)) /\ ~Waits(Getting(s))
    /\ \A d : ~Through(Reporting(d)) /\ ~Waits(Reporting(d))
    /\ Asking(Getting("discharged"))
BY DEF Getting, Reporting, Through, Waits, Asking

\* The steps of runFunc.
LEMMA RunIsBarred ==
    ASSUME Barred, stack = << >>,
           \/ ReportConfigError \/ AskExport \/ NextPhase
           \/ \E m \in pkg.markers : MarkSuppressed(m) \/ MarkUseAsserted(m) \/ RejectMarker(m)
           \/ \E s \in Sets : AskInCheck(s)
           \/ \E d \in pkg.findings : ReportFinding(d)
    PROVE  Barred'
<1>1. reported' = reported
  BY DEF ReportConfigError, AskExport, NextPhase, MarkSuppressed, MarkUseAsserted, RejectMarker,
         AskInCheck, ReportFinding
<1>2. Reported' = Reported
  BY <1>1 DEF Reported
<1>3. \/ stack' = << >>
      \/ \E s : stack' = <<Getting(s)>>
      \/ \E d : stack' = <<Reporting(d)>>
  BY DEF ReportConfigError, AskExport, NextPhase, MarkSuppressed, MarkUseAsserted, RejectMarker,
         AskInCheck, ReportFinding
<1>4. CASE stack' = << >>
  BY <1>2, <1>4, NewCalls, BarredFirst
<1>5. CASE \E s : stack' = <<Getting(s)>>
  BY <1>2, <1>5, NewCalls, BarredFirst
<1>6. CASE \E d : stack' = <<Reporting(d)>>
  BY <1>2, <1>6, NewCalls, BarredFirst
<1> QED BY <1>3, <1>4, <1>5, <1>6

\* The steps of a getter, until the one of the discharged functions publishes.
LEMMA GetterIsBarred ==
    ASSUME LockInv, Barred, "discharged" \notin built, "discharged" \notin built'
    PROVE  /\ GetCached \/ GetStartsBuild \/ Publish => Barred'
           /\ \A s \in Sets : BuildAsks(s) => Barred'
           /\ \A d \in Top.todo : BuildReportsOne(d) => Barred'
<1>0. reported' = reported => Reported' = Reported
  BY DEF Reported
<1>1. ASSUME GetCached PROVE Barred'
  <2>1. stack # << >> /\ Return /\ ~Asking(Top) /\ Reported' = Reported
    BY <1>0, <1>1 DEF GetCached, IsGetting, Asking
  <2> QED BY <2>1, BarredPops
<1>2. ASSUME Publish PROVE Barred'
  <2>1. stack # << >> /\ Return /\ ~Asking(Top) /\ Reported' = Reported
    BY <1>0, <1>2 DEF Publish, IsGetting, Asking
  <2> QED BY <2>1, BarredPops
<1>3. ASSUME GetStartsBuild PROVE Barred'
  <2> DEFINE f == [Top EXCEPT !.at = "build"]
  <2>1. stack # << >> /\ Top.op = "get" /\ Continue(f, << >>) /\ Reported' = Reported
    BY <1>0, <1>3 DEF GetStartsBuild, IsGetting
  <2>2. f \in Frames /\ f.op = "get" /\ f.set = Top.set
    BY <2>1, TopFacts, FrameBuilds
  <2> HIDE DEF f
  <2>3. ~Through(f) /\ ~Waits(f) /\ (Asking(Top) => Asking(f))
    BY <2>2 DEF Through, Waits, Asking
  <2> QED BY <2>1, <2>2, <2>3, BarredGoesOn
<1>4. ASSUME NEW s \in Sets, BuildAsks(s) PROVE Barred'
  <2> DEFINE f == [Top EXCEPT !.reads = @ \ {s}]
  <2>1. /\ stack # << >> /\ Top.op = "get" /\ s \in Top.reads
        /\ Continue(f, <<Getting(s)>>) /\ Reported' = Reported
    BY <1>0, <1>4 DEF BuildAsks, IsGetting
  <2>2. f \in Frames /\ f.op = "get" /\ f.set = Top.set
    BY <2>1, TopFacts, FrameReads
  <2> HIDE DEF f
  <2>3. ~Through(f) /\ ~Waits(f) /\ (Asking(Top) => Asking(f))
    BY <2>2 DEF Through, Waits, Asking
  <2> QED BY <2>1, <2>2, <2>3, NewCalls, GettingOK, BarredPushes
<1>5. ASSUME NEW d \in Top.todo, BuildReportsOne(d) PROVE Barred'
  <2> DEFINE f == [Top EXCEPT !.todo = @ \ {d}]
  <2>1. /\ stack # << >> /\ Top.op = "get"
        /\ Continue(f, <<Reporting(d)>>) /\ Reported' = Reported
    BY <1>0, <1>5 DEF BuildReportsOne, IsGetting
  <2>2. f \in Frames /\ f.op = "get" /\ f.set = Top.set
    BY <2>1, TopFacts, FrameReports
  <2> HIDE DEF f
  <2>3. ~Through(f) /\ ~Waits(f) /\ (Asking(Top) => Asking(f))
    BY <2>2 DEF Through, Waits, Asking
  <2>4. Reporting(d) \in Frames
    BY <2>1, TopFacts, FrameFacts, ReportingOK
  <2> QED BY <2>1, <2>2, <2>3, <2>4, NewCalls, BarredPushes
<1> QED BY <1>1, <1>2, <1>3, <1>4, <1>5

\* A report that goes on past the filters, if it is in no call of a function.
LEMMA FilterIsBarred ==
    ASSUME LockInv, Barred, stack # << >>, Top.op = "report", Top.diag.call \notin Funcs,
           NEW x \in {"suppress", "use", "emit"}, Continue([Top EXCEPT !.at = x], << >>),
           Reported' = Reported
    PROVE  Barred'
<1> DEFINE f == [Top EXCEPT !.at = x]
<1>1. f \in Frames /\ f.op = "report" /\ f.at = x /\ f.diag = Top.diag
  BY TopFacts, FrameFilters
<1>2. Continue(f, << >>)
  OBVIOUS
<1> HIDE DEF f
<1>3. ~Through(f) /\ ~Waits(f) /\ ~Asking(Top)
  BY <1>1 DEF Through, Waits, Asking
<1> QED BY <1>1, <1>2, <1>3, BarredGoesOn

\* The steps of vowReport.  One in a call of a function stops at the barrier.
LEMMA ReportIsBarred ==
    ASSUME LockInv, reported \in Seq(Diagnostics), Barred,
           \/ DropByNarrowScope \/ PassNarrowScope \/ DischargedFilter
           \/ SuppressFilter \/ UseFilter \/ PassReport
    PROVE  Barred'
<1> USE DEF IsReporting, Filtered
<1>0. stack # << >> /\ Top.op = "report" /\ ~Asking(Top)
  BY DEF DropByNarrowScope, PassNarrowScope, DischargedFilter, SuppressFilter, UseFilter, PassReport,
         Asking
<1>a. ~Through(Top) /\ ~Waits(Top)
  BY <1>0, TopFacts DEF Barred, Top
<1>b. Top.at \in {"suppress", "use", "emit"} => Top.diag.call \notin Funcs
  BY <1>0, <1>a DEF Through
<1>c. reported' = reported => Reported' = Reported
  BY DEF Reported
<1>1. CASE DropByNarrowScope
  <2>1. Return /\ Reported' = Reported
    BY <1>1, <1>c DEF DropByNarrowScope
  <2> QED BY <1>0, <2>1, BarredPops
<1>2. CASE PassNarrowScope
  <2>0. Reported' = Reported
    BY <1>2, <1>c DEF PassNarrowScope
  <2>1. CASE Top.diag.call \notin Funcs
    <3>1. Continue([Top EXCEPT !.at = "suppress"], << >>)
      BY <1>2, <2>1 DEF PassNarrowScope
    <3> QED BY <1>0, <2>0, <2>1, <3>1, FilterIsBarred
  <2>2. CASE Top.diag.call \in Funcs
    <3> DEFINE f == [Top EXCEPT !.at = "barrier"]
    <3>1. Continue(f, <<Getting("discharged")>>)
      BY <1>2, <2>2 DEF PassNarrowScope
    <3>2. f \in Frames /\ f.op = "report" /\ f.at = "barrier"
      BY <1>0, TopFacts, FrameFilters
    <3>3. Getting("discharged") \in Frames
      BY GettingOK DEF Sets
    <3> HIDE DEF f
    <3>4. ~Through(f)
      BY <3>2 DEF Through
    <3> QED BY <1>0, <2>0, <3>1, <3>2, <3>3, <3>4, NewCalls, BarredPushes
  <2> QED BY <2>1, <2>2
<1>3. CASE DischargedFilter
  BY <1>3, <1>a DEF DischargedFilter, Waits
<1>4. CASE SuppressFilter
  <2>1. Reported' = Reported /\ Top.diag.call \notin Funcs
    BY <1>4, <1>b, <1>c DEF SuppressFilter
  <2>2. Return \/ Continue([Top EXCEPT !.at = "use"], << >>)
    BY <1>4 DEF SuppressFilter
  <2> QED BY <1>0, <2>1, <2>2, BarredPops, FilterIsBarred
<1>5. CASE UseFilter
  <2>1. Reported' = Reported /\ Top.diag.call \notin Funcs
    BY <1>5, <1>b, <1>c DEF UseFilter
  <2>2. Return \/ Continue([Top EXCEPT !.at = "emit"], << >>)
    BY <1>5 DEF UseFilter
  <2> QED BY <1>0, <2>1, <2>2, BarredPops, FilterIsBarred
<1>6. CASE PassReport
  <2>1. Return /\ Top.diag.call \notin Funcs /\ reported' = Append(reported, Top.diag)
    BY <1>6, <1>b DEF PassReport
  <2>2. Top.diag \in Diagnostics
    BY <1>0, TopFacts DEF Frames
  <2>3. ASSUME NEW d \in Reported' PROVE d \in Reported \/ d.call \notin Funcs
    <3>1. PICK i \in DOMAIN reported' : d = reported'[i]
      BY <2>3 DEF Reported
    <3>2. (i \in DOMAIN reported /\ reported'[i] = reported[i]) \/ reported'[i] = Top.diag
      BY <2>1, <2>2, <3>1, AppendProperties, LenProperties
    <3> QED BY <2>1, <3>1, <3>2 DEF Reported
  <2> QED BY <1>0, <2>1, <2>3, BarredPops
<1> QED BY <1>1, <1>2, <1>3, <1>4, <1>5, <1>6

LEMMA InitBarrier == Init => BarrierInv
<1> SUFFICES ASSUME Init PROVE Barred
  BY DEF BarrierInv
<1>1. stack = << >> /\ reported = << >>
  BY DEF Init
<1>2. Len(stack) = 0 /\ Reported = {}
  BY <1>1 DEF Reported
<1> QED BY <1>2 DEF Barred

\* No report in a call of a function is made before the set is built.
LEMMA NextBarrier == ReportInv /\ BarrierInv /\ [Next]_vars => BarrierInv'
<1> SUFFICES ASSUME ReportInv, BarrierInv, [Next]_vars, "discharged" \notin built' PROVE Barred'
  BY DEF BarrierInv
<1>1. built \subseteq built'
  BY DEF Next, ReportConfigError, AskExport, NextPhase, MarkSuppressed, MarkUseAsserted,
         RejectMarker, AskInCheck, BuildAsks, ReportFinding, GetCached, GetStartsBuild, Publish,
         BuildReportsOne, DropByNarrowScope, PassNarrowScope, DischargedFilter, SuppressFilter,
         UseFilter, PassReport, Finished, Filtered, vars
<1>2. Barred /\ "discharged" \notin built
  BY <1>1 DEF BarrierInv
<1>3. LockInv /\ reported \in Seq(Diagnostics)
  BY DEF ReportInv, PassInv, Accounts, Book
<1>4. CASE \/ ReportConfigError \/ AskExport \/ NextPhase
           \/ \E m \in pkg.markers : MarkSuppressed(m) \/ MarkUseAsserted(m) \/ RejectMarker(m)
           \/ \E s \in Sets : AskInCheck(s)
           \/ \E d \in pkg.findings : ReportFinding(d)
  <2>1. stack = << >>
    BY <1>4 DEF ReportConfigError, AskExport, NextPhase, MarkSuppressed, MarkUseAsserted,
                RejectMarker, AskInCheck, ReportFinding
  <2> QED BY <1>2, <1>4, <2>1, RunIsBarred
<1>5. CASE \/ GetCached \/ GetStartsBuild \/ Publish
           \/ \E s \in Sets : BuildAsks(s)
           \/ \E d \in Top.todo : BuildReportsOne(d)
  BY <1>2, <1>3, <1>5, GetterIsBarred
<1>6. CASE \/ DropByNarrowScope \/ PassNarrowScope \/ DischargedFilter
           \/ SuppressFilter \/ UseFilter \/ PassReport
  BY <1>2, <1>3, <1>6, ReportIsBarred
<1>7. CASE UNCHANGED vars
  BY <1>2, <1>7 DEF vars, Barred, Reported
<1>8. Finished => UNCHANGED vars
  BY DEF Finished
<1> QED BY <1>4, <1>5, <1>6, <1>7, <1>8 DEF Next

-----------------------------------------------------------------------------
(* A finished pass.                                                        *)

\* When the pass is done, nobody owes anything but the set of discharged
\* functions, which is built only when a report in a call asks for it.
LEMMA DoneOwesNothing ==
    ASSUME ReportInv, phase = "done"
    PROVE  /\ SetsOwe = IF "discharged" \in built THEN {} ELSE DischargedReports
           /\ Deserving \subseteq Reported \cup SetsOwe
<1> USE DEF ReportInv, Accounts
<1>1. stack = << >> /\ AlwaysAsked \subseteq built /\ asked = 5
  BY DEF Asked, Exports
<1>2. \A i \in 1 .. 5 : Exports[i] \in built
  BY <1>1 DEF Asked
<1>3. {"nilDecl", "fieldNil", "logical", "transducers"} \subseteq built
  <2>1. Exports[1] \in built /\ Exports[2] \in built /\ Exports[3] \in built /\ Exports[4] \in built
    BY <1>2
  <2> QED BY <2>1 DEF Exports
<1>4. \A s : s \in Unbuilt <=> s \in Sets \ built
  <2>1. Len(stack) = 0
    BY <1>1
  <2> QED BY <2>1 DEF Unbuilt, IsBuilding
<1>5. \A s : s \in Unbuilt <=> s = "discharged" /\ "discharged" \notin built
  BY <1>1, <1>3, <1>4 DEF Sets, AlwaysAsked
<1>6. \A d : d \in SetsOwe <=> "discharged" \notin built /\ d \in BuildReports("discharged")
  BY <1>5, OwedBySets
<1>7. BuildReports("discharged") = DischargedReports
  BY DEF BuildReports
<1>8. RunOwes = {}
  BY DEF RunOwes, PendingSuppress, PendingUse, PendingFindings
<1>9. Deserving \subseteq Rest
  BY <1>1 DEF Ledger
<1> QED BY <1>6, <1>7, <1>8, <1>9 DEF Rest

\* Everything the text calls for is a certain report or a rejected discharged
\* comment's.
LEMMA CertainOrDischarged ==
    ASSUME pkg \in Packages
    PROVE  \A d : /\ d \in Certain <=> d \in Deserving /\ d \notin DischargedReports
                  /\ d \in DischargedReports /\ Deserved(d) => d \in Deserving
<1> DEFINE C == (IF pkg.configError THEN {ConfigReport} ELSE {})
                 \cup {MarkerReport(m) : m \in Rejected}
                 \cup {FindingReport(d) : d \in pkg.findings}
           B == UNION {BuildReports(s) : s \in Sets}
           O == UNION {BuildReports(s) : s \in Sets \ {"discharged"}}
<1>1. Due = C \cup B
  BY DEF Due
<1>2. Certain = {d \in C \cup O : Deserved(d)}
  BY DEF Certain, Rejected
<1>3. "discharged" \in Sets /\ BuildReports("discharged") = DischargedReports
  BY DEF Sets, BuildReports
<1>4. \A d : d \in B <=> d \in O \/ d \in DischargedReports
  BY <1>3
<1>5. \A d \in O : d \notin DischargedReports
  <2>1. ASSUME NEW s \in Sets \ {"discharged"}, NEW d \in BuildReports(s), d \in DischargedReports
        PROVE  FALSE
    BY <1>3, <2>1, BuildersApart
  <2> QED BY <2>1
<1>6. \A d \in C : d \notin DischargedReports
  BY <1>3, RunApart
<1> HIDE DEF C, B, O
<1> QED BY <1>1, <1>2, <1>4, <1>5, <1>6 DEF Deserving

\* For every package, a finished pass has reported what the package's text calls
\* for: no marker is read too late, none silences a parser error, every set that
\* reports is built, and the set of discharged functions, which only vowReport
\* asks for, is built before a report in a call of a function is let through.
THEOREM FinishedPassIsExact == Spec => []ReportIsExact
<1>1. ReportInv /\ BarrierInv => ReportIsExact
  <2> SUFFICES ASSUME ReportInv, BarrierInv, phase = "done"
               PROVE  /\ Reported = Certain \cup
                            {d \in DischargedReports : "discharged" \in built /\ Deserved(d)}
                      /\ (\E d \in Certain : d.call \in Funcs) => "discharged" \in built
    BY DEF ReportIsExact, Reported
  <2>1. Reported \subseteq Deserving /\ Reported \cap SetsOwe = {} /\ pkg \in Packages
    BY DEF ReportInv, Accounts, Book, PassInv, LockInv
  <2>2. \A d \in Deserving : Deserved(d)
    BY DEF Deserving
  <2>3. CASE "discharged" \in built
    BY <2>1, <2>2, <2>3, DoneOwesNothing, CertainOrDischarged
  <2>4. CASE "discharged" \notin built
    <3>1. \A d \in Reported : d.call \notin Funcs
      BY <2>4 DEF BarrierInv, Barred
    <3>2. \A d : d \in Reported <=> d \in Certain
      BY <2>1, <2>4, DoneOwesNothing, CertainOrDischarged
    <3> QED BY <2>4, <3>1, <3>2
  <2> QED BY <2>3, <2>4
<1> QED BY <1>1, InitReport, NextReport, InitBarrier, NextBarrier, PTL DEF Spec
=============================================================================
