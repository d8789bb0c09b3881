---------------------------- MODULE MCProcesses ----------------------------
(* Processes seen as one session for each terminal.                        *)
EXTENDS Processes, Sequences

\* The processes from the base shell up to p, by at most n parent pointers.
Line[n \in 0 .. PROCESS_COUNT] ==
    [p \in Pid |-> IF n = 0 \/ parent_pid[p] = p
                     THEN <<p>>
                     ELSE Append(Line[n - 1][parent_pid[p]], p)]

SessionOf(i) ==
    IF shell_flag[i] = -1 THEN <<>> ELSE Line[PROCESS_COUNT][running_process[i]]

Abstract == INSTANCE Sessions WITH
    Process <- Pid,
    Terminal <- Terminal,
    Console <- 0,
    Depth <- MAX_PROC_PER_TERM + 1,
    Nobody <- None,
    session <- [i \in Terminal |-> SessionOf(i)],
    screen <- t_visible,
    on_cpu <- IF Booted THEN cpu ELSE None

\* Used in an orderly way, the process table implements the sessions: what runs is
\* the top of the visible terminal's own chain, and no step disturbs another chain.
RefinesSessions == Abstract!SessionSpec

\* After a refused launch halt can take a terminal's process_ct below zero, without
\* end: the run of every use looks no further than one below.
CountBound == \A i \in Terminal : process_ct[i] >= -1
=============================================================================
