------------------------ MODULE ConfigResolverProofs ------------------------
(***************************************************************************)
(* Proofs about config.Resolver for every directory tree, every number of  *)
(* goroutines and every interleaving.                                      *)
(***************************************************************************)
EXTENDS ConfigResolver, SequenceTheorems, TLAPS

-----------------------------------------------------------------------------
(* Ancestors and the config in effect.                                     *)

\* A directory is above itself, and what is above a directory is closed
\* under Parent.
LEMMA AncestorsClosed ==
    ASSUME NEW d \in Dirs
    PROVE  d \in Ancestors(d) /\ UpwardClosed(Ancestors(d)) /\ Ancestors(d) \subseteq Dirs
BY TreeAssumption DEF Ancestors, UpwardClosed

\* The ancestors of a directory are itself and those of its parent.
LEMMA AncestorsOfParent ==
    ASSUME NEW d \in Dirs
    PROVE  Ancestors(d) = {d} \cup Ancestors(Parent[d])
<1>1. Parent[d] \in Dirs
  BY TreeAssumption
<1>2. {d} \cup Ancestors(Parent[d]) \subseteq Ancestors(d)
  BY <1>1 DEF Ancestors, UpwardClosed
<1>3. UpwardClosed({d} \cup Ancestors(Parent[d]))
  BY <1>1, AncestorsClosed DEF UpwardClosed
<1>4. {d} \cup Ancestors(Parent[d]) \in SUBSET Dirs
  BY <1>1, AncestorsClosed
<1>5. Ancestors(d) \subseteq {d} \cup Ancestors(Parent[d])
  BY <1>3, <1>4 DEF Ancestors
<1> QED BY <1>2, <1>5

\* A directory without a file takes its parent's verdict.
LEMMA InheritVerdict ==
    ASSUME NEW d \in Dirs, NEW v, ~Stops(d), Governs(v, Parent[d])
    PROVE  Governs(v, d)
BY AncestorsOfParent DEF Governs

\* A config governs its own directory.
LEMMA OwnVerdict ==
    ASSUME NEW d \in Dirs, Content[d] \in Configs
    PROVE  Governs(Content[d], d)
BY AncestorsClosed DEF Governs

\* At the root there is nothing above to inherit from.
LEMMA RootVerdict ==
    ASSUME NEW d \in Dirs, Parent[d] = d, ~Stops(d)
    PROVE  Governs(Nil, d)
<1>1. UpwardClosed({d}) /\ {d} \in SUBSET Dirs
  BY DEF UpwardClosed
<1>2. Ancestors(d) \subseteq {d}
  BY <1>1 DEF Ancestors
<1> QED BY <1>2 DEF Governs

-----------------------------------------------------------------------------
(* The inductive invariant.                                                *)

\* The unreturned calls climb the tree past directories without a file, and a
\* verdict that is being stored is right for the directory it is stored at.
WalkOK(s, label, v) ==
    /\ \A i \in 1 .. Len(s) : i < Len(s) => ~Stops(s[i]) /\ s[i + 1] = Parent[s[i]]
    /\ label = "store" => Governs(v, s[Len(s)]) /\ v \in Verdicts

WalkInv == \A w \in Workers : WalkOK(walk[w], pc[w], verdict[w])

IInv == TypeOK /\ WalkInv /\ CacheCorrect

\* A nonempty walk.
LEMMA HereType ==
    ASSUME TypeOK, NEW w \in Workers, pc[w] # "idle"
    PROVE  /\ Here(w) \in Dirs
           /\ walk[w] \in Seq(Dirs)
           /\ Len(walk[w]) \in Nat \ {0}
BY DEF TypeOK, Here

\* All of a walk but its last directory.
LEMMA ButLast ==
    ASSUME NEW t \in Seq(Dirs), Len(t) \in Nat \ {0}
    PROVE  /\ SubSeq(t, 1, Len(t) - 1) \in Seq(Dirs)
           /\ Len(SubSeq(t, 1, Len(t) - 1)) = Len(t) - 1
           /\ \A i \in 1 .. (Len(t) - 1) : SubSeq(t, 1, Len(t) - 1)[i] = t[i]
           /\ SubSeq(t, 1, Len(t) - 1) = << >> <=> Len(t) = 1
<1> DEFINE s == SubSeq(t, 1, Len(t) - 1)
<1>1. 1 \in 1 .. Len(t) + 1 /\ Len(t) - 1 \in 0 .. Len(t)
  OBVIOUS
<1>2. /\ s \in Seq(Dirs)
      /\ Len(s) = IF 1 <= Len(t) - 1 THEN (Len(t) - 1) - 1 + 1 ELSE 0
      /\ \A i \in 1 .. (Len(t) - 1) - 1 + 1 : s[i] = t[1 + i - 1]
  BY <1>1, SubSeqProperties
<1> HIDE DEF s
<1>3. Len(s) = Len(t) - 1 /\ \A i \in 1 .. (Len(t) - 1) : s[i] = t[i]
  <2> DEFINE n == Len(t)
  <2>1. Len(s) = n - 1
    <3>1. n \in Nat \ {0} /\ Len(s) = IF 1 <= n - 1 THEN (n - 1) - 1 + 1 ELSE 0
      BY <1>2
    <3> HIDE DEF n
    <3> QED BY <3>1
  <2>2. ASSUME NEW i \in 1 .. (Len(t) - 1) PROVE s[i] = t[i]
    <3>1. i \in 1 .. (Len(t) - 1) - 1 + 1 /\ 1 + i - 1 = i
      OBVIOUS
    <3> QED BY <1>2, <3>1
  <2> QED BY <2>1, <2>2
<1>4. s = << >> <=> Len(s) = 0
  BY <1>2, EmptySeq
<1> QED BY <1>2, <1>3, <1>4 DEF s

\* Leaving a call with a verdict that is right for its directory leaves one
\* that is right for the caller's.
LEMMA LeaveGoverned ==
    ASSUME IInv, NEW w \in Workers, pc[w] # "idle",
           NEW v, Governs(v, Here(w)), NEW s,
           s = SubSeq(walk[w], 1, Len(walk[w]) - 1)
    PROVE  /\ s \in Seq(Dirs)
           /\ s = << >> <=> Len(walk[w]) = 1
           /\ \A i \in 1 .. Len(s) : s[i] = walk[w][i]
           /\ Len(s) = Len(walk[w]) - 1
           /\ s # << >> => Governs(v, s[Len(s)])
<1> DEFINE n == Len(walk[w])
<1>1. walk[w] \in Seq(Dirs) /\ n \in Nat \ {0}
  BY HereType DEF IInv
<1>2. /\ s \in Seq(Dirs) /\ Len(s) = n - 1
      /\ \A i \in 1 .. Len(s) : s[i] = walk[w][i]
      /\ s = << >> <=> n = 1
  BY <1>1, ButLast
<1>3. ASSUME s # << >> PROVE Governs(v, s[Len(s)])
  <2>1. n - 1 \in 1 .. n /\ n - 1 < n /\ (n - 1) + 1 = n
    BY <1>1, <1>2, <1>3
  <2>2. ~Stops(walk[w][n - 1]) /\ Here(w) = Parent[walk[w][n - 1]]
    BY <2>1 DEF IInv, WalkInv, WalkOK, Here
  <2>3. walk[w][n - 1] \in Dirs
    BY <1>1, <2>1
  <2>4. s[Len(s)] = walk[w][n - 1]
    BY <1>1, <1>2, <1>3
  <2> QED BY <2>2, <2>3, <2>4, InheritVerdict
<1> QED BY <1>2, <1>3

\* The initial cache is empty.
LEMMA InitIInv == Init => IInv
<1> SUFFICES ASSUME Init PROVE IInv
  OBVIOUS
<1>1. TypeOK
  BY BoundAssumption DEF Init, TypeOK, Verdicts
<1>2. WalkInv /\ CacheCorrect
  BY DEF Init, WalkInv, WalkOK, CacheCorrect
<1> QED BY <1>1, <1>2 DEF IInv

Labels == {"idle", "lookup", "stat", "read", "store"}

\* A goroutine's step that leaves it with a good walk preserves the invariant:
\* the others do not notice.
LEMMA OneWorker ==
    ASSUME IInv, NEW w \in Workers, NEW s \in Seq(Dirs), NEW label \in Labels,
           NEW v \in Verdicts \cup {Error},
           walk' = [walk EXCEPT ![w] = s],
           pc' = [pc EXCEPT ![w] = label],
           verdict' = [verdict EXCEPT ![w] = v],
           label = "idle" <=> s = << >>,
           WalkOK(s, label, v),
           faults' \in 0 .. MaxFaults,
           cache' \in [Dirs -> Verdicts \cup {Miss}],
           CacheCorrect'
    PROVE  IInv'
<1>1. /\ walk'[w] = s /\ pc'[w] = label /\ verdict'[w] = v
      /\ \A u \in Workers : u # w =>
            walk'[u] = walk[u] /\ pc'[u] = pc[u] /\ verdict'[u] = verdict[u]
  BY DEF IInv, TypeOK
<1>2. TypeOK'
  BY <1>1 DEF IInv, TypeOK, Labels
<1>3. WalkInv'
  BY <1>1 DEF IInv, WalkInv
<1> QED BY <1>2, <1>3 DEF IInv

\* A step that leaves the cache alone keeps it correct.
LEMMA CacheKept ==
    ASSUME IInv, cache' = cache
    PROVE  cache' \in [Dirs -> Verdicts \cup {Miss}] /\ CacheCorrect'
BY DEF IInv, TypeOK, CacheCorrect

\* An error return.
LEMMA FailIInv ==
    ASSUME IInv, NEW w \in Workers, Fail(w), cache' = cache, faults' \in 0 .. MaxFaults
    PROVE  IInv'
<1>1. /\ walk' = [walk EXCEPT ![w] = << >>]
      /\ pc' = [pc EXCEPT ![w] = "idle"]
      /\ verdict' = [verdict EXCEPT ![w] = Error]
  BY DEF Fail, Goto
<1>2. WalkOK(<< >>, "idle", Error) /\ << >> \in Seq(Dirs)
  BY DEF WalkOK
<1> QED BY <1>1, <1>2, CacheKept, OneWorker DEF Labels

\* Leaving the innermost call with a verdict that is right for its directory.
LEMMA LeaveIInv ==
    ASSUME IInv, NEW w \in Workers, pc[w] # "idle",
           NEW v \in Verdicts, Governs(v, Here(w)),
           verdict' = [verdict EXCEPT ![w] = v], LeaveCall(w),
           Goto(w, IF Len(walk[w]) = 1 THEN "idle" ELSE "store"),
           faults' = faults,
           cache' \in [Dirs -> Verdicts \cup {Miss}], CacheCorrect'
    PROVE  IInv'
<1> DEFINE s == SubSeq(walk[w], 1, Len(walk[w]) - 1)
           label == IF Len(walk[w]) = 1 THEN "idle" ELSE "store"
<1>1. walk' = [walk EXCEPT ![w] = s] /\ pc' = [pc EXCEPT ![w] = label]
  BY DEF LeaveCall, Goto
<1>2. /\ s \in Seq(Dirs)
      /\ s = << >> <=> Len(walk[w]) = 1
      /\ \A i \in 1 .. Len(s) : s[i] = walk[w][i]
      /\ Len(s) = Len(walk[w]) - 1
      /\ s # << >> => Governs(v, s[Len(s)])
  BY LeaveGoverned
<1>3. Len(walk[w]) \in Nat \ {0} /\ WalkOK(walk[w], pc[w], verdict[w])
  BY HereType DEF IInv, WalkInv
<1> HIDE DEF s
<1>4. WalkOK(s, label, v)
  <2>1. ASSUME NEW i \in 1 .. Len(s), i < Len(s)
        PROVE  ~Stops(s[i]) /\ s[i + 1] = Parent[s[i]]
    <3>1. i \in 1 .. Len(walk[w]) /\ i < Len(walk[w]) /\ i + 1 \in 1 .. Len(s)
      BY <1>2, <1>3, <2>1
    <3>2. s[i] = walk[w][i] /\ s[i + 1] = walk[w][i + 1]
      BY <1>2, <3>1
    <3> QED BY <1>3, <3>1, <3>2 DEF WalkOK
  <2>2. label = "store" => Governs(v, s[Len(s)]) /\ v \in Verdicts
    BY <1>2
  <2> QED BY <2>1, <2>2 DEF WalkOK
<1>5. label \in Labels /\ (label = "idle" <=> s = << >>)
  BY <1>2 DEF Labels
<1>6. faults' \in 0 .. MaxFaults
  BY DEF IInv, TypeOK
<1> HIDE DEF label
<1> QED BY <1>1, <1>2, <1>4, <1>5, <1>6, OneWorker

\* Every step of every goroutine preserves the invariant.
LEMMA NextIInv == IInv /\ [Next]_vars => IInv'
<1> SUFFICES ASSUME IInv, [Next]_vars PROVE IInv'
  OBVIOUS
<1>1. ASSUME NEW w \in Workers, NEW dir \in Dirs, Call(w, dir)
      PROVE  IInv'
  <2>1. /\ walk' = [walk EXCEPT ![w] = <<dir>>]
        /\ pc' = [pc EXCEPT ![w] = "lookup"]
        /\ verdict' = [verdict EXCEPT ![w] = verdict[w]]
        /\ cache' = cache /\ faults' \in 0 .. MaxFaults
        /\ verdict[w] \in Verdicts \cup {Error}
    BY <1>1 DEF Call, Goto, IInv, TypeOK
  <2>2. WalkOK(<<dir>>, "lookup", verdict[w]) /\ <<dir>> \in Seq(Dirs) /\ <<dir>> # << >>
    BY DEF WalkOK
  <2> QED BY <2>1, <2>2, CacheKept, OneWorker DEF Labels
<1>2. ASSUME NEW w \in Workers, LookupHit(w)
      PROVE  IInv'
  <2>1. pc[w] = "lookup" /\ Here(w) \in Dirs /\ cache' = cache /\ faults' = faults
    BY <1>2, HereType DEF LookupHit, IInv
  <2>2. Governs(cache[Here(w)], Here(w)) /\ cache[Here(w)] \in Verdicts
    BY <1>2, <2>1 DEF LookupHit, IInv, CacheCorrect, TypeOK
  <2> QED BY <1>2, <2>1, <2>2, CacheKept, LeaveIInv DEF LookupHit
<1>3. ASSUME NEW w \in Workers, LookupMiss(w) \/ StatFile(w)
      PROVE  IInv'
  <2> DEFINE label == IF LookupMiss(w) THEN "stat" ELSE "read"
  <2>1. /\ walk' = [walk EXCEPT ![w] = walk[w]]
        /\ pc' = [pc EXCEPT ![w] = label]
        /\ verdict' = [verdict EXCEPT ![w] = verdict[w]]
        /\ cache' = cache /\ faults' = faults /\ pc[w] # "idle"
    BY <1>3 DEF LookupMiss, StatFile, Goto, IInv, TypeOK
  <2>2. /\ walk[w] \in Seq(Dirs) /\ verdict[w] \in Verdicts \cup {Error}
        /\ faults' \in 0 .. MaxFaults /\ walk[w] # << >>
        /\ label \in Labels \ {"idle", "store"}
    BY <2>1 DEF IInv, TypeOK, Labels
  <2> HIDE DEF label
  <2>3. WalkOK(walk[w], label, verdict[w])
    BY <2>2 DEF IInv, WalkInv, WalkOK
  <2> QED BY <2>1, <2>2, <2>3, CacheKept, OneWorker
<1>4. ASSUME NEW w \in Workers, StatNoFile(w)
      PROVE  IInv'
  <2> DEFINE here == Here(w)
  <2>1. /\ pc[w] = "stat" /\ ~Stops(here) /\ cache' = cache /\ faults' \in 0 .. MaxFaults
    BY <1>4 DEF StatNoFile, Stops, IInv, TypeOK
  <2>2. /\ here \in Dirs /\ walk[w] \in Seq(Dirs) /\ Len(walk[w]) \in Nat \ {0}
        /\ walk[w] # << >> /\ here = walk[w][Len(walk[w])]
        /\ WalkOK(walk[w], pc[w], verdict[w])
    BY <2>1, HereType DEF IInv, WalkInv, Here
  <2>3. CASE Parent[here] = here
    <3>1. /\ walk' = [walk EXCEPT ![w] = walk[w]]
          /\ pc' = [pc EXCEPT ![w] = "store"]
          /\ verdict' = [verdict EXCEPT ![w] = Nil]
      BY <1>4, <2>3 DEF StatNoFile, Goto, IInv, TypeOK
    <3>2. Governs(Nil, here)
      BY <2>1, <2>2, <2>3, RootVerdict
    <3>3. WalkOK(walk[w], "store", Nil)
      BY <2>2, <3>2 DEF WalkOK, Verdicts
    <3> QED BY <2>1, <2>2, <3>1, <3>3, CacheKept, OneWorker DEF Labels, Verdicts
  <2>4. CASE Parent[here] # here
    <3> DEFINE s == Append(walk[w], Parent[here])
    <3>1. /\ walk' = [walk EXCEPT ![w] = s]
          /\ pc' = [pc EXCEPT ![w] = "lookup"]
          /\ verdict' = [verdict EXCEPT ![w] = verdict[w]]
          /\ verdict[w] \in Verdicts \cup {Error}
      BY <1>4, <2>4 DEF StatNoFile, Goto, IInv, TypeOK
    <3>2. Parent[here] \in Dirs
      BY <2>2, TreeAssumption
    <3>3. /\ s \in Seq(Dirs) /\ s # << >> /\ Len(s) = Len(walk[w]) + 1
          /\ s[Len(walk[w]) + 1] = Parent[here]
          /\ \A i \in 1 .. Len(walk[w]) : s[i] = walk[w][i]
      BY <2>2, <3>2
    <3> HIDE DEF s
    <3>4. ASSUME NEW i \in 1 .. Len(s), i < Len(s)
          PROVE  ~Stops(s[i]) /\ s[i + 1] = Parent[s[i]]
      <4>1. CASE i = Len(walk[w])
        BY <2>1, <2>2, <3>3, <4>1
      <4>2. CASE i # Len(walk[w])
        <5>1. i \in 1 .. Len(walk[w]) /\ i + 1 \in 1 .. Len(walk[w]) /\ i < Len(walk[w])
          BY <2>2, <3>3, <3>4, <4>2
        <5> QED BY <2>2, <3>3, <5>1 DEF WalkOK
      <4> QED BY <4>1, <4>2
    <3>5. WalkOK(s, "lookup", verdict[w])
      BY <3>4 DEF WalkOK
    <3> QED BY <2>1, <3>1, <3>3, <3>5, CacheKept, OneWorker DEF Labels
  <2> QED BY <2>3, <2>4
<1>5. ASSUME NEW w \in Workers, StatDenied(w) \/ ReadBroken(w) \/ Fault(w)
      PROVE  IInv'
  <2>1. Fail(w) /\ cache' = cache /\ faults' \in 0 .. MaxFaults
    BY <1>5, BoundAssumption DEF StatDenied, ReadBroken, Fault, IInv, TypeOK
  <2> QED BY <2>1, FailIInv
<1>6. ASSUME NEW w \in Workers, ReadConfig(w)
      PROVE  IInv'
  <2>1. /\ walk' = [walk EXCEPT ![w] = walk[w]]
        /\ pc' = [pc EXCEPT ![w] = "store"]
        /\ verdict' = [verdict EXCEPT ![w] = Content[Here(w)]]
        /\ cache' = cache /\ faults' \in 0 .. MaxFaults
        /\ pc[w] = "read" /\ Content[Here(w)] \in Configs
    BY <1>6 DEF ReadConfig, Goto, IInv, TypeOK
  <2>2. /\ Here(w) \in Dirs /\ walk[w] \in Seq(Dirs) /\ walk[w] # << >>
        /\ Here(w) = walk[w][Len(walk[w])]
        /\ WalkOK(walk[w], pc[w], verdict[w])
    BY <2>1, HereType DEF IInv, WalkInv, Here
  <2>3. WalkOK(walk[w], "store", Content[Here(w)])
    BY <2>1, <2>2, OwnVerdict DEF WalkOK, Verdicts
  <2> QED BY <2>1, <2>2, <2>3, CacheKept, OneWorker DEF Labels, Verdicts
<1>7. ASSUME NEW w \in Workers, Store(w)
      PROVE  IInv'
  <2>1. /\ pc[w] = "store" /\ Here(w) \in Dirs
        /\ Governs(verdict[w], Here(w)) /\ verdict[w] \in Verdicts
    BY <1>7, HereType DEF Store, IInv, WalkInv, WalkOK, Here
  <2>2. cache' = [cache EXCEPT ![Here(w)] = verdict[w]]
    BY <1>7 DEF Store
  <2>3. cache' \in [Dirs -> Verdicts \cup {Miss}]
    BY <2>1, <2>2 DEF IInv, TypeOK
  <2>4. CacheCorrect'
    BY <2>1, <2>2 DEF IInv, TypeOK, CacheCorrect
  <2>5. verdict' = [verdict EXCEPT ![w] = verdict[w]] /\ faults' = faults
    BY <1>7 DEF Store, IInv, TypeOK
  <2> QED BY <1>7, <2>1, <2>3, <2>4, <2>5, LeaveIInv DEF Store
<1>8. CASE UNCHANGED vars
  BY <1>8 DEF vars, IInv, TypeOK, WalkInv, CacheCorrect
<1> QED BY <1>1, <1>2, <1>3, <1>4, <1>5, <1>6, <1>7, <1>8 DEF Next, Step

-----------------------------------------------------------------------------
(* The theorems.                                                           *)

\* The unlocked walk between lookup and store is harmless: whatever the
\* goroutines interleave, every cache entry is the nearest vow.yaml's config.
THEOREM CacheIsCorrect == Spec => []CacheCorrect
<1>1. IInv => CacheCorrect
  BY DEF IInv
<1> QED BY <1>1, InitIInv, NextIInv, PTL DEF Spec

\* A call that returns without an error returns the config in effect for the
\* directory it was called with.
THEOREM AnswersAreCorrect == Spec => AnswersCorrect
<1>1. ASSUME IInv, [Next]_vars
      PROVE  [\A w \in Workers :
                (walk[w] # << >> /\ walk'[w] = << >> /\ verdict'[w] # Error)
                   => Governs(verdict'[w], walk[w][1])]_vars
  <2> SUFFICES ASSUME NEW w \in Workers,
                      walk[w] # << >>, walk'[w] = << >>, verdict'[w] # Error,
                      Next
               PROVE  Governs(verdict'[w], walk[w][1])
    BY <1>1
  <2> USE <1>1 DEF IInv
  <2>1. PICK u \in Workers : Step(u) \/ \E dir \in Dirs : Call(u, dir)
    BY DEF Next
  <2>2. u = w
    BY <2>1 DEF Step, Call, LookupHit, LookupMiss, StatFile, StatNoFile, StatDenied,
                ReadConfig, ReadBroken, Fault, Store, Fail, LeaveCall, TypeOK
  <2>3. walk[w] \in Seq(Dirs) /\ pc[w] # "idle" /\ Len(walk[w]) \in Nat \ {0}
    BY DEF TypeOK
  <2>4. LookupHit(w) \/ Store(w)
    <3>1. ~Fail(w)
      BY DEF Fail, TypeOK
    <3>2. ~\E dir \in Dirs : Call(w, dir)
      BY <2>3 DEF Call
    <3>3. walk' # walk
      OBVIOUS
    <3>4. ~StatNoFile(w)
      BY <2>3, TreeAssumption DEF StatNoFile, TypeOK, Here
    <3> QED BY <2>1, <2>2, <3>1, <3>2, <3>3, <3>4
            DEF Step, LookupMiss, StatFile, StatDenied, ReadConfig, ReadBroken, Fault
  <2>5. Len(walk[w]) = 1 /\ Here(w) = walk[w][1]
    <3>1. walk'[w] = SubSeq(walk[w], 1, Len(walk[w]) - 1)
      BY <2>4 DEF LookupHit, Store, LeaveCall, TypeOK
    <3> QED BY <2>3, <3>1, ButLast DEF Here
  <2>6. Here(w) \in Dirs
    BY <2>3, HereType
  <2>7. CASE LookupHit(w)
    BY <2>5, <2>6, <2>7 DEF LookupHit, CacheCorrect, TypeOK
  <2>8. CASE Store(w)
    BY <2>5, <2>8 DEF Store, WalkInv, WalkOK, Here
  <2> QED BY <2>4, <2>7, <2>8
<1> QED BY <1>1, InitIInv, NextIInv, PTL DEF Spec, AnswersCorrect

-----------------------------------------------------------------------------
(* Errors.                                                                 *)

\* What is in effect for a directory without a file is in effect for its parent.
LEMMA PassVerdictUp ==
    ASSUME NEW d \in Dirs, NEW v, ~Stops(d), Governs(v, d)
    PROVE  Governs(v, Parent[d])
<1>1. Ancestors(d) = {d} \cup Ancestors(Parent[d])
  BY AncestorsOfParent
<1>2. \A e \in Dirs : Content[e] \in Configs => Stops(e)
  BY ContentAssumption DEF Stops
<1>3. CASE v \in Configs /\ v # Nil
  <2>1. PICK e \in Ancestors(d) : /\ Content[e] = v
                                  /\ \A f \in Ancestors(d) : Stops(f) => f \in Ancestors(e)
    BY <1>3 DEF Governs
  <2>2. e \in Dirs /\ e # d
    BY <1>2, <1>3, <2>1 DEF Ancestors
  <2> QED BY <1>1, <1>3, <2>1, <2>2 DEF Governs
<1>4. CASE v = Nil
  BY <1>1, <1>4, ContentAssumption DEF Governs
<1> QED BY <1>3, <1>4 DEF Governs

\* Nothing is in effect for a directory whose own file is unusable.
LEMMA UnusableFile ==
    ASSUME NEW d \in Dirs, Content[d] \in {"broken", "denied"}, NEW v
    PROVE  ~Governs(v, d)
<1>1. Stops(d) /\ Content[d] \notin Configs /\ d \in Ancestors(d)
  BY ContentAssumption, AncestorsClosed DEF Stops
<1>2. ASSUME v \in Configs, NEW e \in Ancestors(d), Content[e] = v,
             \A f \in Ancestors(d) : Stops(f) => f \in Ancestors(e)
      PROVE  FALSE
  <2>1. e \in Dirs /\ d \in Ancestors(e)
    BY <1>1, <1>2 DEF Ancestors
  <2>2. e = d
    BY <2>1, UpwardAssumption
  <2> QED BY <1>1, <1>2, <2>2
<1> QED BY <1>1, <1>2 DEF Governs

\* A walk climbs without losing sight of the file it is looking for: what is in
\* effect where it began is in effect wherever it has come.
Climbs(s) == \A i \in 1 .. Len(s) : \A v \in Verdicts : Governs(v, s[1]) => Governs(v, s[i])

ClimbInv == \A w \in Workers : Climbs(walk[w])

LEMMA NextClimb == IInv /\ ClimbInv /\ [Next]_vars => ClimbInv'
<1> SUFFICES ASSUME IInv, ClimbInv, [Next]_vars, NEW u \in Workers PROVE Climbs(walk'[u])
  BY DEF ClimbInv
<1>1. CASE walk'[u] = walk[u]
  BY <1>1 DEF ClimbInv
<1>2. CASE walk'[u] = << >>
  BY <1>2 DEF Climbs
<1>3. ASSUME NEW dir \in Dirs, walk'[u] = <<dir>> PROVE Climbs(walk'[u])
  BY <1>3 DEF Climbs
<1>4. ASSUME LeaveCall(u), pc[u] # "idle" PROVE Climbs(walk'[u])
  <2>1. /\ walk[u] \in Seq(Dirs) /\ Len(walk[u]) \in Nat \ {0} /\ Climbs(walk[u])
        /\ walk'[u] = SubSeq(walk[u], 1, Len(walk[u]) - 1)
    BY <1>4, HereType DEF IInv, TypeOK, LeaveCall, ClimbInv
  <2> DEFINE s == walk'[u]
  <2>2. Len(s) = Len(walk[u]) - 1 /\ \A i \in 1 .. (Len(walk[u]) - 1) : s[i] = walk[u][i]
    BY <2>1, ButLast
  <2> HIDE DEF s
  <2>3. ASSUME NEW i \in 1 .. Len(s), NEW v \in Verdicts, Governs(v, s[1]) PROVE Governs(v, s[i])
    <3>1. /\ i \in 1 .. (Len(walk[u]) - 1) /\ 1 \in 1 .. (Len(walk[u]) - 1)
          /\ i \in 1 .. Len(walk[u])
      BY <2>1, <2>2
    <3>2. s[i] = walk[u][i] /\ s[1] = walk[u][1]
      BY <2>2, <3>1
    <3> QED BY <2>1, <2>3, <3>1, <3>2 DEF Climbs
  <2>4. Climbs(s)
    BY <2>3 DEF Climbs
  <2> QED BY <2>4 DEF s
<1>5. ASSUME StatNoFile(u), Parent[Here(u)] # Here(u) PROVE Climbs(walk'[u])
  <2>1. /\ pc[u] # "idle" /\ ~Stops(Here(u)) /\ Here(u) = walk[u][Len(walk[u])]
        /\ walk'[u] = Append(walk[u], Parent[Here(u)])
    BY <1>5 DEF StatNoFile, Stops, Here, IInv, TypeOK
  <2>2. /\ walk[u] \in Seq(Dirs) /\ Len(walk[u]) \in Nat \ {0} /\ Climbs(walk[u]) /\ Here(u) \in Dirs
    BY <2>1, HereType DEF IInv, ClimbInv
  <2>3. Parent[Here(u)] \in Dirs
    BY <2>2, TreeAssumption
  <2> DEFINE s == Append(walk[u], Parent[Here(u)])
             n == Len(walk[u])
  <2>4. /\ Len(s) = n + 1 /\ s[n + 1] = Parent[Here(u)] /\ s[1] = walk[u][1]
        /\ \A i \in 1 .. n : s[i] = walk[u][i]
    BY <2>2, <2>3
  <2> HIDE DEF s
  <2>5. ASSUME NEW i \in 1 .. Len(s), NEW v \in Verdicts, Governs(v, s[1]) PROVE Governs(v, s[i])
    <3>1. CASE i = n + 1
      <4>1. n \in 1 .. Len(walk[u])
        BY <2>2
      <4>2. Governs(v, Here(u))
        BY <2>1, <2>2, <2>4, <2>5, <4>1 DEF Climbs
      <4>3. Governs(v, Parent[Here(u)])
        BY <2>1, <2>2, <4>2, PassVerdictUp
      <4> QED BY <2>4, <3>1, <4>3
    <3>2. CASE i # n + 1
      <4>1. i \in 1 .. n
        BY <2>2, <2>4, <3>2
      <4> QED BY <2>2, <2>4, <2>5, <4>1 DEF Climbs
    <3> QED BY <3>1, <3>2
  <2>6. Climbs(s)
    BY <2>5 DEF Climbs
  <2> QED BY <2>1, <2>6 DEF s
<1>6. ASSUME NEW w \in Workers, w # u, Step(w) \/ \E dir \in Dirs : Call(w, dir) PROVE walk'[u] = walk[u]
  BY <1>6 DEF Step, Call, LookupHit, LookupMiss, StatFile, StatNoFile, StatDenied,
              ReadConfig, ReadBroken, Fault, Store, Fail, LeaveCall, IInv, TypeOK
<1>7. ASSUME Step(u) PROVE Climbs(walk'[u])
  <2>1. CASE LookupHit(u)
    BY <1>4, <2>1 DEF LookupHit
  <2>2. CASE Store(u)
    BY <1>4, <2>2 DEF Store
  <2>3. CASE LookupMiss(u) \/ StatFile(u) \/ ReadConfig(u)
    BY <1>1, <2>3 DEF LookupMiss, StatFile, ReadConfig
  <2>4. CASE StatDenied(u) \/ ReadBroken(u) \/ Fault(u)
    BY <1>2, <2>4 DEF StatDenied, ReadBroken, Fault, Fail, IInv, TypeOK
  <2>5. CASE StatNoFile(u)
    BY <1>1, <1>5, <2>5 DEF StatNoFile
  <2> QED BY <1>7, <2>1, <2>2, <2>3, <2>4, <2>5 DEF Step
<1>8. ASSUME NEW dir \in Dirs, Call(u, dir) PROVE Climbs(walk'[u])
  <2>1. walk'[u] = <<dir>>
    BY <1>8 DEF Call, IInv, TypeOK
  <2> QED BY <1>3, <2>1
<1>9. CASE UNCHANGED vars
  BY <1>1, <1>9 DEF vars
<1> QED BY <1>1, <1>6, <1>7, <1>8, <1>9 DEF Next

\* A call fails only because of the filesystem, or because the nearest vow.yaml
\* above the directory asked for is unusable: a broken file elsewhere, met by
\* another goroutine or further up, never surfaces.
THEOREM ErrorsAreJustified == Spec => ErrorsJustified
<1>1. Init => ClimbInv
  BY DEF Init, ClimbInv, Climbs
<1>2. ASSUME IInv, ClimbInv, [Next]_vars
      PROVE  [\A w \in Workers :
                (walk[w] # << >> /\ walk'[w] = << >> /\ verdict'[w] = Error)
                   => faults' # faults \/ ~\E v \in Verdicts : Governs(v, walk[w][1])]_vars
  <2> SUFFICES ASSUME NEW w \in Workers,
                      walk[w] # << >>, walk'[w] = << >>, verdict'[w] = Error, faults' = faults,
                      Next, NEW v \in Verdicts, Governs(v, walk[w][1])
               PROVE  FALSE
    BY <1>2
  <2> USE <1>2 DEF IInv
  <2>1. PICK u \in Workers : Step(u) \/ \E dir \in Dirs : Call(u, dir)
    BY DEF Next
  <2>2. u = w
    BY <2>1 DEF Step, Call, LookupHit, LookupMiss, StatFile, StatNoFile, StatDenied,
                ReadConfig, ReadBroken, Fault, Store, Fail, LeaveCall, TypeOK
  <2>3. /\ walk[w] \in Seq(Dirs) /\ pc[w] # "idle" /\ Len(walk[w]) \in Nat \ {0}
        /\ Here(w) \in Dirs /\ Here(w) = walk[w][Len(walk[w])]
    BY HereType DEF TypeOK, Here
  <2>4. StatDenied(w) \/ ReadBroken(w)
    <3>1. ~\E dir \in Dirs : Call(w, dir)
      BY <2>3 DEF Call
    <3>2. walk' # walk
      OBVIOUS
    <3>3. ~StatNoFile(w)
      BY <2>3, TreeAssumption DEF StatNoFile, TypeOK, Here
    <3>4. ~Fault(w)
      BY DEF Fault, TypeOK
    <3>5. ~LookupHit(w)
      BY <2>3, ContentAssumption DEF LookupHit, TypeOK, Verdicts
    <3>6. ~Store(w)
      BY <2>3, ContentAssumption DEF Store, WalkInv, WalkOK, TypeOK, Verdicts
    <3> QED BY <2>1, <2>2, <3>1, <3>2, <3>3, <3>4, <3>5, <3>6 DEF Step, LookupMiss, StatFile, ReadConfig
  <2>5. Content[Here(w)] \in {"broken", "denied"}
    BY <2>4 DEF StatDenied, ReadBroken
  <2>6. Governs(v, Here(w))
    BY <2>3 DEF ClimbInv, Climbs
  <2> QED BY <2>3, <2>5, <2>6, UnusableFile
<1> QED BY <1>1, <1>2, InitIInv, NextIInv, NextClimb, PTL DEF Spec, ErrorsJustified
=============================================================================
