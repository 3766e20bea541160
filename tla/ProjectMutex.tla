---------------------------- MODULE ProjectMutex ----------------------------
(***************************************************************************)
(* What the cross-process project lock promises to the code that mutates   *)
(* a project's memory: a task enters its locked operation only when nobody *)
(* holds the lock; a held lock becomes free only because its holder leaves *)
(* the operation, or after the holder's process has died; and a task whose *)
(* release fails leaves the lock held.  ProjectLock, the directory         *)
(* protocol of memory/project-lock.ts, implements this module.             *)
(***************************************************************************)
CONSTANTS Task,    \* lock-using asynchronous tasks
          Pid,     \* operating-system processes
          PidOf,   \* the process a task runs in
          None     \* "nobody"

VARIABLES holder,  \* the task that holds the lock, or None
          inside,  \* the tasks that run their operation or leave it
          alive    \* the processes still running

mutexVars == <<holder, inside, alive>>

Init ==
    /\ holder = None
    /\ inside = {}
    /\ alive = Pid

Enter(t) ==
    /\ holder = None
    /\ PidOf[t] \in alive
    /\ holder' = t
    /\ inside' = inside \cup {t}
    /\ UNCHANGED alive

Exit(t) ==
    /\ t \in inside
    /\ holder = t
    /\ holder' = None
    /\ inside' = inside \ {t}
    /\ UNCHANGED alive

\* The operation is over but the lock could not be released.
Abandon(t) ==
    /\ t \in inside
    /\ inside' = inside \ {t}
    /\ UNCHANGED <<holder, alive>>

\* A survivor frees the lock of a process that is gone.
Recover ==
    /\ holder # None
    /\ PidOf[holder] \notin alive
    /\ holder' = None
    /\ UNCHANGED <<inside, alive>>

Crash(p) ==
    /\ p \in alive
    /\ alive' = alive \ {p}
    /\ inside' = {t \in inside : PidOf[t] # p}
    /\ UNCHANGED holder

Next ==
    \/ \E t \in Task : Enter(t) \/ Exit(t) \/ Abandon(t)
    \/ Recover
    \/ \E p \in Pid : Crash(p)

Spec == Init /\ [][Next]_mutexVars
=============================================================================
