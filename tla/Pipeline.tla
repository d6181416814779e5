------------------------------ MODULE Pipeline ------------------------------
(***************************************************************************)
(* What the three daemons promise together, without processes, calls or    *)
(* time: a task is built, then extracted, then recorded, and what is done  *)
(* stays done.  Builder and extractor may go through a task again.         *)
(***************************************************************************)
CONSTANT Task

VARIABLES
    built,      \* the tasks the builder is through with
    extracted,  \* the tasks the extractor is through with
    recorded    \* the tasks in the master database

vars == <<built, extracted, recorded>>

Init == built = {} /\ extracted = {} /\ recorded = {}

Build(t) ==
    /\ built' = built \cup {t}
    /\ UNCHANGED <<extracted, recorded>>

Extract(t) ==
    /\ t \in built
    /\ extracted' = extracted \cup {t}
    /\ UNCHANGED <<built, recorded>>

Record(t) ==
    /\ t \in extracted
    /\ recorded' = recorded \cup {t}
    /\ UNCHANGED <<built, extracted>>

Next == \E t \in Task : Build(t) \/ Extract(t) \/ Record(t)

Spec == Init /\ [][Next]_vars
=============================================================================
