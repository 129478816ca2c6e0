--------------------------- MODULE ConfigResolver ---------------------------
(***************************************************************************)
(* config.Resolver: the cached walk from a package directory to the        *)
(* nearest vow.yaml, called by several goroutines at once.  lookup and     *)
(* store hold the lock for one step each; the walk between them does not,  *)
(* so the walks interleave.                                                *)
(***************************************************************************)
EXTENDS Naturals, Sequences

CONSTANTS
    Dirs,       \* cleaned absolute directories
    Root,       \* the filesystem root
    Parent,     \* [Dirs -> Dirs], filepath.Dir; Root is its own parent
    Configs,    \* parsed vow.yaml contents
    Content,    \* [Dirs -> Entries], what is at <dir>/vow.yaml
    Nil,        \* the nil *Config: no vow.yaml up to the root
    Miss,       \* an absent cache entry
    Error,      \* a returned error
    Workers,    \* calling goroutines
    MaxFaults   \* bound: stat and read failures that go away on a retry

\* What Stat and ReadFile find: nothing, a directory of that name, a file that
\* does not parse, a path that cannot be examined, or a config.
Entries == {"absent", "directory", "broken", "denied"} \cup Configs

ASSUME TreeAssumption ==
    /\ Root \in Dirs
    /\ Parent \in [Dirs -> Dirs]
    /\ Parent[Root] = Root

\* The directory and its ancestors.
UpwardClosed(S) == \A d \in S : Parent[d] \in S
Ancestors(d) == {e \in Dirs : \A S \in SUBSET Dirs : d \in S /\ UpwardClosed(S) => e \in S}

\* filepath.Dir shortens a path until it is the root: going up never comes back.
ASSUME UpwardAssumption ==
    \A d, e \in Dirs : d \in Ancestors(e) /\ e \in Ancestors(d) => d = e

ASSUME ContentAssumption ==
    /\ Content \in [Dirs -> Entries]
    /\ Configs \cap {"absent", "directory", "broken", "denied"} = {}
    /\ Nil \notin Configs
    /\ Miss \notin Configs \cup {Nil}
    /\ Error \notin Configs \cup {Nil, Miss}

ASSUME BoundAssumption == MaxFaults \in Nat

Verdicts == Configs \cup {Nil}

VARIABLES
    cache,    \* Resolver.cache
    pc,       \* [Workers -> where the goroutine is in its current resolve call]
    walk,     \* [Workers -> directories of the unreturned resolve calls]
    verdict,  \* [Workers -> the value the innermost call returned or stores]
    faults    \* transient failures so far

vars == <<cache, pc, walk, verdict, faults>>

Init ==
    /\ cache = [d \in Dirs |-> Miss]
    /\ pc = [w \in Workers |-> "idle"]
    /\ walk = [w \in Workers |-> << >>]
    /\ verdict = [w \in Workers |-> Nil]
    /\ faults = 0

Here(w) == walk[w][Len(walk[w])]

Goto(w, label) == pc' = [pc EXCEPT ![w] = label]

\* Leave the innermost resolve call.
LeaveCall(w) == walk' = [walk EXCEPT ![w] = SubSeq(@, 1, Len(@) - 1)]

\* An error leaves every call of the walk without storing anything.
Fail(w) ==
    /\ verdict' = [verdict EXCEPT ![w] = Error]
    /\ walk' = [walk EXCEPT ![w] = << >>]
    /\ Goto(w, "idle")

-----------------------------------------------------------------------------
\* Resolve(dir)
Call(w, dir) ==
    /\ pc[w] = "idle"
    /\ walk' = [walk EXCEPT ![w] = <<dir>>]
    /\ Goto(w, "lookup")
    /\ UNCHANGED <<cache, verdict, faults>>

LookupHit(w) ==
    /\ pc[w] = "lookup"
    /\ cache[Here(w)] # Miss
    /\ verdict' = [verdict EXCEPT ![w] = cache[Here(w)]]
    /\ LeaveCall(w)
    /\ Goto(w, IF Len(walk[w]) = 1 THEN "idle" ELSE "store")
    /\ UNCHANGED <<cache, faults>>

\* Defect: a miss looks the same directory up again.
LookupMissRetry(w) ==
    /\ pc[w] = "lookup"
    /\ cache[Here(w)] = Miss
    /\ Goto(w, "lookup")
    /\ UNCHANGED <<cache, walk, verdict, faults>>

LookupMiss(w) ==
    /\ pc[w] = "lookup"
    /\ cache[Here(w)] = Miss
    /\ Goto(w, "stat")
    /\ UNCHANGED <<cache, walk, verdict, faults>>

StatFile(w) ==
    /\ pc[w] = "stat"
    /\ Content[Here(w)] \in Configs \cup {"broken"}
    /\ Goto(w, "read")
    /\ UNCHANGED <<cache, walk, verdict, faults>>

\* Defect: an entry that cannot be examined counts as absent.
StatNoFileOrDenied(w) ==
    /\ pc[w] = "stat"
    /\ Content[Here(w)] \in {"absent", "directory", "denied"}
    /\ IF Parent[Here(w)] = Here(w)
       THEN /\ verdict' = [verdict EXCEPT ![w] = Nil]
            /\ Goto(w, "store")
            /\ UNCHANGED walk
       ELSE /\ walk' = [walk EXCEPT ![w] = Append(@, Parent[Here(w)])]
            /\ Goto(w, "lookup")
            /\ UNCHANGED verdict
    /\ UNCHANGED <<cache, faults>>

\* Nothing here, or a directory: go on with the parent.
StatNoFile(w) ==
    /\ pc[w] = "stat"
    /\ Content[Here(w)] \in {"absent", "directory"}
    /\ IF Parent[Here(w)] = Here(w)
       THEN /\ verdict' = [verdict EXCEPT ![w] = Nil]
            /\ Goto(w, "store")
            /\ UNCHANGED walk
       ELSE /\ walk' = [walk EXCEPT ![w] = Append(@, Parent[Here(w)])]
            /\ Goto(w, "lookup")
            /\ UNCHANGED verdict
    /\ UNCHANGED <<cache, faults>>

\* Defect: a directory called vow.yaml is not told apart from a file.
StatDeniedOrDirectory(w) ==
    /\ pc[w] = "stat"
    /\ Content[Here(w)] \in {"denied", "directory"}
    /\ Fail(w)
    /\ UNCHANGED <<cache, faults>>

StatDenied(w) ==
    /\ pc[w] = "stat"
    /\ Content[Here(w)] = "denied"
    /\ Fail(w)
    /\ UNCHANGED <<cache, faults>>

ReadConfig(w) ==
    /\ pc[w] = "read"
    /\ Content[Here(w)] \in Configs
    /\ verdict' = [verdict EXCEPT ![w] = Content[Here(w)]]
    /\ Goto(w, "store")
    /\ UNCHANGED <<cache, walk, faults>>

ReadBroken(w) ==
    /\ pc[w] = "read"
    /\ Content[Here(w)] = "broken"
    /\ Fail(w)
    /\ UNCHANGED <<cache, faults>>

\* Defect: a failed walk is remembered as "no config".
FaultCachesNil(w) ==
    /\ pc[w] \in {"stat", "read"}
    /\ faults < MaxFaults
    /\ faults' = faults + 1
    /\ Fail(w)
    /\ cache' = [cache EXCEPT ![Here(w)] = Nil]

\* A stat or a read fails for a reason that is gone on the next call.
Fault(w) ==
    /\ pc[w] \in {"stat", "read"}
    /\ faults < MaxFaults
    /\ faults' = faults + 1
    /\ Fail(w)
    /\ UNCHANGED cache

\* Store the verdict for the innermost directory and return it to the call
\* below, which stores it too.
Store(w) ==
    /\ pc[w] = "store"
    /\ cache' = [cache EXCEPT ![Here(w)] = verdict[w]]
    /\ LeaveCall(w)
    /\ Goto(w, IF Len(walk[w]) = 1 THEN "idle" ELSE "store")
    /\ UNCHANGED <<verdict, faults>>

Step(w) ==
    \/ LookupHit(w) \/ LookupMiss(w)
    \/ StatFile(w) \/ StatNoFile(w) \/ StatDenied(w)
    \/ ReadConfig(w) \/ ReadBroken(w) \/ Fault(w)
    \/ Store(w)

Next == \E w \in Workers : Step(w) \/ \E dir \in Dirs : Call(w, dir)

Spec == Init /\ [][Next]_vars

\* Goroutines are scheduled fairly; nothing obliges a caller to call.
FairSpec == Spec /\ \A w \in Workers : WF_vars(Step(w))

-----------------------------------------------------------------------------
TypeOK ==
    /\ cache \in [Dirs -> Verdicts \cup {Miss}]
    /\ pc \in [Workers -> {"idle", "lookup", "stat", "read", "store"}]
    /\ walk \in [Workers -> Seq(Dirs)]
    /\ verdict \in [Workers -> Verdicts \cup {Error}]
    /\ faults \in 0 .. MaxFaults
    /\ \A w \in Workers : pc[w] = "idle" <=> walk[w] = << >>

\* Where the walk stops: a file, or an entry that cannot be examined.
Stops(d) == Content[d] \notin {"absent", "directory"}

\* v is the config of the nearest vow.yaml above d, or Nil when there is none.
Governs(v, d) ==
    \/ /\ v \in Configs
       /\ \E e \in Ancestors(d) :
             /\ Content[e] = v
             /\ \A f \in Ancestors(d) : Stops(f) => f \in Ancestors(e)
    \/ v = Nil /\ \A e \in Ancestors(d) : ~Stops(e)

\* Whatever the interleaving and whichever walks failed, a cache entry is the
\* config of the nearest vow.yaml, so the tolerated double store is idempotent.
CacheCorrect == \A d \in Dirs : cache[d] # Miss => Governs(cache[d], d)

\* A call that returns a config or nil returns the one in effect for the
\* directory it was called with.  (A step that empties the walk returns.)
AnswersCorrect ==
    [][\A w \in Workers :
          (walk[w] # << >> /\ walk'[w] = << >> /\ verdict'[w] # Error)
             => Governs(verdict'[w], walk[w][1])]_vars

\* An error is never blamed on a directory whose nearest vow.yaml is good,
\* unless the filesystem failed: a broken file elsewhere stays invisible.
ErrorsJustified ==
    [][\A w \in Workers :
          (walk[w] # << >> /\ walk'[w] = << >> /\ verdict'[w] = Error)
             => faults' # faults \/ ~\E v \in Verdicts : Governs(v, walk[w][1])]_vars

\* Every call returns.
CallsReturn == \A w \in Workers : pc[w] # "idle" ~> pc[w] = "idle"
=============================================================================
