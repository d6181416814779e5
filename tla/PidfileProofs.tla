--------------------------- MODULE PidfileProofs ----------------------------
(* Proofs about Pidfile: whoever is past the lock holds it, and the file    *)
(* of a running daemon has its number.                                      *)
EXTENDS Pidfile, TLAPS

LEMMA NotAPid == NoPid \notin Pid /\ Absent \notin Pid
  BY PidAssumption DEF NoPid, Absent

LEMMA TypeInit == Init => TypeOK
  BY DEF Init, TypeOK

LEMMA TypeStep == TypeOK /\ [Next]_vars => TypeOK'
<1> SUFFICES ASSUME TypeOK, [Next]_vars PROVE TypeOK'
  OBVIOUS
<1> USE NotAPid DEF TypeOK, Goto
<1>1. ASSUME NEW p \in Pid, Main(p) PROVE TypeOK'
  BY <1>1 DEF Main
<1>2. ASSUME NEW p \in Pid, Open(p) PROVE TypeOK'
  BY <1>2 DEF Open
<1>3. ASSUME NEW p \in Pid, Lock(p) PROVE TypeOK'
  BY <1>3 DEF Lock
<1>4. ASSUME NEW p \in Pid, Truncate(p) PROVE TypeOK'
  BY <1>4 DEF Truncate
<1>5. ASSUME NEW p \in Pid, Write(p) PROVE TypeOK'
  BY <1>5 DEF Write
<1>6. ASSUME NEW p \in Pid, End(p) PROVE TypeOK'
  BY <1>6 DEF End, Unlock
<1>7. CASE UNCHANGED vars
  BY <1>7 DEF vars
<1>8. QED BY <1>1, <1>2, <1>3, <1>4, <1>5, <1>6, <1>7 DEF Next

(* Locks are held by processes of their kind that are still there.          *)
THEOREM TypeCorrect == Spec => []TypeOK
  BY TypeInit, TypeStep, PTL DEF Spec

-----------------------------------------------------------------------------
Holds ==
    \A p \in Pid :
        \/ pc[p] \in {"truncate", "write"}
        \/ pc[p] = "run" /\ mode[p] # "orphan"
        => lock[kind[p]] = p

IInv == Holds /\ FileNamesDaemon

LEMMA IInvInit == Init => IInv
  BY DEF Init, IInv, Holds, FileNamesDaemon

LEMMA IInvStep == TypeOK /\ IInv /\ [Next]_vars => IInv'
<1> SUFFICES ASSUME TypeOK, IInv, [Next]_vars PROVE IInv'
  OBVIOUS
<1> USE NotAPid DEF TypeOK, IInv, Holds, FileNamesDaemon, Goto
<1>1. ASSUME NEW p \in Pid, Main(p) PROVE IInv'
  BY <1>1 DEF Main
<1>2. ASSUME NEW p \in Pid, Open(p) PROVE IInv'
  BY <1>2 DEF Open
<1>3. ASSUME NEW p \in Pid, Lock(p) PROVE IInv'
  BY <1>3 DEF Lock
<1>4. ASSUME NEW p \in Pid, Truncate(p) PROVE IInv'
  BY <1>4 DEF Truncate
<1>5. ASSUME NEW p \in Pid, Write(p) PROVE IInv'
  BY <1>5 DEF Write
<1>6. ASSUME NEW p \in Pid, End(p) PROVE IInv'
  BY <1>6 DEF End, Unlock
<1>7. CASE UNCHANGED vars
  BY <1>7 DEF vars
<1>8. QED BY <1>1, <1>2, <1>3, <1>4, <1>5, <1>6, <1>7 DEF Next

LEMMA IInvAlways == Spec => [](TypeOK /\ IInv)
<1>1. Init => TypeOK /\ IInv
  BY TypeInit, IInvInit
<1>2. TypeOK /\ IInv /\ [Next]_vars => TypeOK' /\ IInv'
  BY TypeStep, IInvStep
<1>3. QED BY <1>1, <1>2, PTL DEF Spec

(* The pid file of hpssixd names the daemon of its kind that runs, for any  *)
(* number of starts.                                                        *)
THEOREM FileAlwaysNamesDaemon == Spec => []FileNamesDaemon
<1>1. IInv => FileNamesDaemon
  BY DEF IInv
<1>2. QED BY <1>1, IInvAlways, PTL

(* There is one daemon of a kind, on which the model of the daemons rests.  *)
OneOfAKind ==
    \A p, q \in Pid :
        (pc[p] = "run" /\ pc[q] = "run" /\ kind[p] = kind[q]) =>
            p = q \/ mode[p] = "orphan" \/ mode[q] = "orphan"

(* No two daemons of a kind run at once, but for children of init.          *)
THEOREM OneRuns == Spec => []OneOfAKind
<1>1. IInv => OneOfAKind
  BY DEF IInv, FileNamesDaemon, OneOfAKind
<1>2. QED BY <1>1, IInvAlways, PTL
=============================================================================
