------------------------------ MODULE Pidfile -------------------------------
(***************************************************************************)
(* How hpssixd starts: options and configuration, daemonization, and the   *)
(* pid file that keeps a second daemon of the same kind from running.  The *)
(* other modules rely on there being one scanner, one builder and one      *)
(* extractor.                                                              *)
(***************************************************************************)
EXTENDS Integers, FiniteSets

CONSTANTS
    Pid,      \* processes, each used once
    Kind      \* builder, extractor, scanner

NoPid  == 0   \* an empty file
Absent == -1  \* no file
ASSUME PidAssumption == Pid \subseteq Nat \ {0}

(* -f or -d; neither; neither, and the parent is init; -t.                  *)
Mode == {"foreground", "sysv", "orphan", "systemd"}

VARIABLES
    pc,     \* where each process is
    kind,   \* data.name
    mode,   \* the options, and what getppid() says
    lock,   \* who holds the lock on each pid file
    file    \* what each pid file has in it

vars == <<pc, kind, mode, lock, file>>

Init ==
    /\ pc = [p \in Pid |-> "new"]
    /\ kind \in [Pid -> Kind] /\ mode \in [Pid -> Mode]
    /\ lock = [k \in Kind |-> NoPid]
    /\ file = [k \in Kind |-> Absent]

Goto(p, to) == pc' = [pc EXCEPT ![p] = to]

(* The locks of a process go with it.                                       *)
Unlock(p) == lock' = [k \in Kind |-> IF lock[k] = p THEN NoPid ELSE lock[k]]

-----------------------------------------------------------------------------
(* main, and hpssixd_daemonize: systemd is not supported, and a child of    *)
(* init is taken for a daemon that needs no setup.                          *)
Main(p) ==
    /\ pc[p] = "new"
    /\ \/ mode[p] \in {"foreground", "sysv"} /\ Goto(p, "open")
       \/ mode[p] = "orphan" /\ Goto(p, "run")
       \/ Goto(p, "gone")
    /\ UNCHANGED <<kind, mode, lock, file>>

(* Mutant: the file is opened for writing, which empties it.                *)
OpenEmpties(p) ==
    /\ pc[p] = "open"
    /\ Goto(p, "lock")
    /\ file' = [file EXCEPT ![kind[p]] = NoPid]
    /\ UNCHANGED <<kind, mode, lock>>

(* hpssixd_setup_pidfile: fopen with "a+" leaves what is in the file.       *)
Open(p) ==
    /\ pc[p] = "open"
    /\ Goto(p, "lock")
    /\ file' = [file EXCEPT ![kind[p]] = IF @ = Absent THEN NoPid ELSE @]
    /\ UNCHANGED <<kind, mode, lock>>

(* lockf with F_TLOCK.                                                      *)
Lock(p) ==
    /\ pc[p] = "lock"
    /\ \/ /\ lock[kind[p]] = NoPid
          /\ lock' = [lock EXCEPT ![kind[p]] = p]
          /\ Goto(p, "truncate")
       \/ /\ lock[kind[p]] # NoPid
          /\ Goto(p, "gone")
          /\ UNCHANGED lock
    /\ UNCHANGED <<kind, mode, file>>

Truncate(p) ==
    /\ pc[p] = "truncate"
    /\ file' = [file EXCEPT ![kind[p]] = NoPid]
    /\ Goto(p, "write")
    /\ UNCHANGED <<kind, mode, lock>>

(* fprintf and fflush; the daemon's function is called.                     *)
Write(p) ==
    /\ pc[p] = "write"
    /\ file' = [file EXCEPT ![kind[p]] = p]
    /\ Goto(p, "run")
    /\ UNCHANGED <<kind, mode, lock>>

(* Mutant: the pid file is its own lock.                                    *)
EndKeepsLock(p) ==
    /\ pc[p] # "gone"
    /\ Goto(p, "gone")
    /\ UNCHANGED <<kind, mode, lock, file>>

(* A call of the setup fails, or the process is killed, wherever it is.     *)
End(p) ==
    /\ pc[p] # "gone"
    /\ Goto(p, "gone")
    /\ Unlock(p)
    /\ UNCHANGED <<kind, mode, file>>

-----------------------------------------------------------------------------
Next ==
    \E p \in Pid : \/ Main(p) \/ Open(p) \/ Lock(p) \/ Truncate(p) \/ Write(p)
                   \/ End(p)

Spec == Init /\ [][Next]_vars

-----------------------------------------------------------------------------
(* Type invariant: a lock is held by a process of its kind that has taken   *)
(* it and is still there.                                                   *)
TypeOK ==
    /\ pc \in [Pid -> {"new", "open", "lock", "truncate", "write", "run", "gone"}]
    /\ kind \in [Pid -> Kind] /\ mode \in [Pid -> Mode]
    /\ lock \in [Kind -> Pid \cup {NoPid}]
    /\ file \in [Kind -> Pid \cup {NoPid, Absent}]
    /\ \A k \in Kind : lock[k] # NoPid =>
          /\ kind[lock[k]] = k
          /\ pc[lock[k]] \in {"truncate", "write", "run"}

(* The pid file names the daemon that runs: other starts, however many at   *)
(* once, which fail or are killed anywhere, neither run beside it nor take  *)
(* its number away.  Left out are daemons that have init for a parent.      *)
FileNamesDaemon ==
    \A p \in Pid : (pc[p] = "run" /\ mode[p] # "orphan") => file[kind[p]] = p
=============================================================================
