----------------------------- MODULE AtomicTask -----------------------------
(***************************************************************************)
(* What hpssix-builder promises, without databases, files or calls: a task *)
(* is written as a whole before any of it can be seen in the index, the    *)
(* index changes once and in one step, and only a task that was written is *)
(* told of.  Two things the promise leaves open, since nobody looks at the *)
(* result of BEGIN or END: what is told may be lost, and a task may be     *)
(* bare, without a transaction, and change the index as it goes.           *)
(***************************************************************************)
VARIABLES
    reset,   \* whether the task is to empty the index, --init
    target,  \* what the task makes of the index
    index,   \* the index as others see it
    phase,   \* how far the task is
    told,    \* whether the daemon has been told the counts
    bare     \* whether the task has no transaction

vars == <<reset, target, index, phase, told, bare>>

Init == phase = "running" /\ told = FALSE /\ bare = FALSE

(* No transaction is begun,                                                 *)
Bare ==
    /\ phase = "running" /\ ~reset
    /\ bare' = TRUE
    /\ UNCHANGED <<reset, target, index, phase, told>>

(* and parts of the task are in the index while it runs.                    *)
Leak ==
    /\ phase = "running" /\ bare
    /\ UNCHANGED <<reset, target, phase, told, bare>>

(* Tables and work list are complete, and nothing is committed, or all of   *)
(* it was.                                                                  *)
Write ==
    /\ phase = "running" /\ ~reset
    /\ bare => index = target
    /\ phase' = "written"
    /\ UNCHANGED <<reset, target, index, told, bare>>

Commit ==
    /\ phase = "written" \/ (phase = "running" /\ reset)
    /\ index' = target
    /\ phase' = "committed"
    /\ UNCHANGED <<reset, target, told, bare>>

Lose ==
    /\ phase = "written"
    /\ phase' = "lost"
    /\ UNCHANGED <<reset, target, index, told, bare>>

Fail ==
    /\ phase = "running"
    /\ phase' = "failed"
    /\ UNCHANGED <<reset, target, index, told, bare>>

Tell ==
    /\ phase \in {"committed", "lost"} /\ ~reset
    /\ told' = TRUE
    /\ UNCHANGED <<reset, target, index, phase, bare>>

Next == Bare \/ Leak \/ Write \/ Commit \/ Lose \/ Fail \/ Tell

Spec == Init /\ [][Next]_vars
=============================================================================
