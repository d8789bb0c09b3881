------------------------------ MODULE Sessions ------------------------------
(***************************************************************************)
(* What the process table promises its users: every terminal has a session *)
(* of its own, a stack of processes in which each waits for the one above  *)
(* it, and the CPU runs the top of the session on the screen.  Processes   *)
(* are never shared, a hidden session does not move, and a session that    *)
(* was opened never ends: its bottom is replaced when it exits.            *)
(***************************************************************************)
EXTENDS Sequences, Integers

CONSTANTS Process, Terminal, Console, Depth, Nobody

VARIABLES
    session,    \* of a terminal: its processes, the foreground one last
    screen,     \* the terminal on the screen
    on_cpu      \* the process that runs

sessionVars == <<session, screen, on_cpu>>

Live == UNION {{session[i][n] : n \in 1 .. Len(session[i])} : i \in Terminal}
Top(s) == s[Len(s)]

SessionInit ==
    /\ session = [i \in Terminal |-> <<>>]
    /\ screen = Console
    /\ on_cpu = Nobody

\* Session i, the one on the screen from now on, becomes s.
Become(i, s) ==
    /\ session' = [session EXCEPT ![i] = s]
    /\ screen' = i
    /\ on_cpu' = Top(s)

Open(i) ==
    /\ session[i] = <<>>
    /\ on_cpu = Nobody => i = Console
    /\ \E p \in Process \ Live : Become(i, <<p>>)

Run ==
    /\ Len(session[screen]) \in 1 .. Depth - 1
    /\ \E p \in Process \ Live : Become(screen, Append(session[screen], p))

Exit ==
    /\ Len(session[screen]) > 1
    /\ Become(screen, SubSeq(session[screen], 1, Len(session[screen]) - 1))

Restart ==
    /\ Len(session[screen]) = 1
    /\ \E p \in (Process \ Live) \union {on_cpu} : Become(screen, <<p>>)

Show(i) ==
    /\ session[i] # <<>>
    /\ Become(i, session[i])

SessionNext ==
    \/ Run \/ Exit \/ Restart
    \/ \E i \in Terminal : Open(i) \/ Show(i)

SessionSpec == SessionInit /\ [][SessionNext]_sessionVars
=============================================================================
