---------------------------- MODULE JobSchedule ----------------------------
(***************************************************************************)
(* What internal/driver's Run promises about scheduling, with no stack, no *)
(* counter and no memo: every job some root needs completes exactly once,  *)
(* after the jobs it depends on; it is skipped when one of those failed,   *)
(* and otherwise fails at the analyzer's whim.                             *)
(***************************************************************************)
EXTENDS Naturals, Sequences

CONSTANTS
    Job,        \* (analyzer, package) pairs
    DepsOf,     \* [Job -> SUBSET Job]
    Needed      \* SUBSET Job: the roots and all they depend on

VARIABLES
    done,       \* sequence of completed jobs
    failed,     \* the completed jobs that recorded an error
    skipped     \* those that recorded the failure of a dependency

vars == <<done, failed, skipped>>

Finished == {done[i] : i \in DOMAIN done}

Init == done = << >> /\ failed = {} /\ skipped = {}

Complete(j) ==
    /\ j \notin Finished
    /\ DepsOf[j] \subseteq Finished
    /\ done' = Append(done, j)
    /\ j \in Needed
    /\ IF DepsOf[j] \cap failed = {}
       THEN failed' \in {failed, failed \cup {j}} /\ UNCHANGED skipped
       ELSE failed' = failed \cup {j} /\ skipped' = skipped \cup {j}

Next == \E j \in Job : Complete(j)

Spec == Init /\ [][Next]_vars

FairSpec == Spec /\ WF_vars(Next)
=============================================================================
