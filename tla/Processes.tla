----------------------------- MODULE Processes -----------------------------
(***************************************************************************)
(* The process table of the kernel, the three terminals that share it, and *)
(* the part of the CPU that decides whose program runs: the program page,  *)
(* the kernel stack named by the TSS, and the stack that is in use.        *)
(*                                                                         *)
(* A step is a whole kernel activation: interrupt gates keep interrupts    *)
(* off, so system calls, exceptions and the keyboard interrupt follow one  *)
(* another.  Every process has one kernel stack, below the 8 MB mark, with *)
(* its PCB at the bottom; a stack pointer (esp, cur_esp, tss.esp0) is here *)
(* the pid of the process whose stack it points into.                      *)
(***************************************************************************)
EXTENDS Integers, FiniteSets

CONSTANTS
    PROCESS_COUNT,      \* slots of the process table (6)
    TERMINAL_COUNT,     \* terminals (3)
    MAX_PROC_PER_TERM   \* the number execute compares process_ct with (3)

ASSUME CountsAssumption ==
    /\ PROCESS_COUNT \in Nat \ {0}
    /\ TERMINAL_COUNT \in Nat \ {0}
    /\ TERMINAL_COUNT <= PROCESS_COUNT   \* keyboard.c calls get_pcb(terminal_3)
    /\ MAX_PROC_PER_TERM \in Nat

Pid == 0 .. PROCESS_COUNT - 1
Terminal == 0 .. TERMINAL_COUNT - 1
None == -1      \* running_process of a terminal without program; no page; no stack

VARIABLES
    process_status,     \* of a slot: -1 free, 1 in use
    t_visible,          \* the terminal on the screen
    running_process,    \* t[i].running_process: its foreground process
    shell_flag,         \* t[i].shell_flag: 0 once its base shell was started, else -1
    process_ct,         \* t[i].process_ct
    parent_pid,         \* pcb->parent_pid (and pcb->esp0, the top of the parent's stack)
    saved_esp,          \* pcb->esp: the stack on which execute created the process
    cur_esp,            \* pcb->cur_esp: the stack saved when its terminal was hidden
    program_page,       \* pid whose image page_dir[PROGRAM_IDX] maps
    tss_esp0,           \* pid whose kernel stack tss.esp0 names
    cpu,                \* pid whose kernel stack the CPU runs on or last returned from
    home                \* auxiliary: the terminal in which the process was created

tables == <<process_status, running_process, shell_flag, process_ct, parent_pid, home>>
vars == <<tables, t_visible, saved_esp, cur_esp, program_page, tss_esp0, cpu>>

Init ==
    /\ process_status = [p \in Pid |-> -1]
    /\ t_visible = 0
    /\ running_process = [i \in Terminal |-> None]
    /\ shell_flag = [i \in Terminal |-> -1]
    /\ process_ct = [i \in Terminal |-> 0]
    /\ parent_pid = [p \in Pid |-> 0]
    /\ saved_esp = [p \in Pid |-> None]
    /\ cur_esp = [p \in Pid |-> None]
    /\ program_page = None
    /\ tss_esp0 = 0         \* 0x800000, the top of the stack area of process 0,
    /\ cpu = 0              \* is also where boot.S starts
    /\ home = [p \in Pid |-> 0]

-----------------------------------------------------------------------------
(* Parts of execute, halt and the terminal switch.                         *)

\* Before entry() executes the first shell no program is mapped.
Booted == program_page # None

Current == running_process[t_visible]

\* Mutated forms of the three definitions that follow: the search takes a slot in
\* use, the limit is not checked, no process is a base shell, the parent is the
\* process whose pid is the terminal's number.
TakesUsedSlot(status, p) == \A q \in 0 .. p - 1 : status[q] # -1
NoLimit(ct) == TRUE
NoBaseShell(p, i) == running_process[i]
ParentIsTerminal(p, i) == IF shell_flag[i] = -1 THEN p ELSE i

\* The slot that the search at the head of execute stops at.
FirstFree(status, p) ==
    /\ status[p] = -1
    /\ \A q \in 0 .. p - 1 : status[q] # -1

\* The limit on the processes of a terminal.
HasRoom(ct) == ct <= MAX_PROC_PER_TERM

\* The parent that execute records: a base shell is its own parent.
ParentOf(p, i) == IF shell_flag[i] = -1 THEN p ELSE running_process[i]

\* execute from the point where nothing can fail any more, for slot p in
\* terminal i, which is visible, on kernel stack s.
StartProcess(p, i, s, parent) ==
    /\ t_visible' = i
    /\ running_process' = [running_process EXCEPT ![i] = p]
    /\ shell_flag' = [shell_flag EXCEPT ![i] = 0]
    /\ parent_pid' = [parent_pid EXCEPT ![p] = parent]
    /\ saved_esp' = [saved_esp EXCEPT ![p] = s]
    /\ home' = [home EXCEPT ![p] = i]
    /\ program_page' = p
    /\ tss_esp0' = p
    /\ cpu' = p

\* The stacks on which a keyboard interrupt can arrive: that of the TSS when it
\* interrupts user code, the one in use when it interrupts terminal_read or
\* rtc_read, which wait with interrupts enabled.
InterruptStack == {tss_esp0, cpu}

\* Mutated forms of HideProcess: nothing is stored, or in the PCB whose number is
\* that of the terminal.
HideNothing(s) == cur_esp
HideTerminal(s) == [cur_esp EXCEPT ![t_visible] = s]

\* switch_display stores the stack in the PCB of the process it hides.
HideProcess(s) == [cur_esp EXCEPT ![Current] = s]

\* Alt+F2 and Alt+F3 on a terminal k without a shell: switch_display as above
\* unless k is on the screen already, then the handler stores the stack once
\* more, in the PCB whose number is that of the terminal.
SaveForLaunch(k, s) ==
    [(IF k = t_visible THEN cur_esp ELSE HideProcess(s)) EXCEPT ![k] = s]

-----------------------------------------------------------------------------
(* Actions.                                                                *)

\* entry() executes the first shell on the boot stack, interrupts off.
Boot ==
    /\ ~Booted
    /\ HasRoom(process_ct[t_visible])
    /\ \E p \in Pid :
         /\ FirstFree(process_status, p)
         /\ StartProcess(p, t_visible, cpu, ParentOf(p, t_visible))
         /\ process_status' = [process_status EXCEPT ![p] = 1]
    /\ process_ct' = [process_ct EXCEPT ![t_visible] = @ + 1]
    /\ cur_esp' = [cur_esp EXCEPT ![0] = cpu]

\* System call execute with a valid program.  (A refused call changes nothing.)
Execute ==
    /\ Booted
    /\ HasRoom(process_ct[t_visible])
    /\ \E p \in Pid :
         /\ FirstFree(process_status, p)
         /\ StartProcess(p, t_visible, tss_esp0, ParentOf(p, t_visible))
         /\ process_status' = [process_status EXCEPT ![p] = 1]
    /\ process_ct' = [process_ct EXCEPT ![t_visible] = @ + 1]
    /\ UNCHANGED cur_esp

\* System call halt, or an exception, of a process with a parent: the CPU
\* returns from the parent's execute.
HaltToParent ==
    LET q == Current
        parent == parent_pid[q]
    IN  /\ Booted
        /\ parent # q
        /\ process_status' = [process_status EXCEPT ![q] = -1]
        /\ running_process' = [running_process EXCEPT ![t_visible] = parent]
        /\ process_ct' = [process_ct EXCEPT ![t_visible] = @ - 1]
        /\ program_page' = parent
        /\ tss_esp0' = parent
        /\ cpu' = saved_esp[q]
        /\ UNCHANGED <<t_visible, shell_flag, parent_pid, saved_esp, cur_esp, home>>

\* halt of a base shell executes a new one in the lowest slot, perhaps another
\* one.  Its two checks pass (theorem RelaunchAlwaysPossible).
HaltBaseShell ==
    LET q == Current
        freed == [process_status EXCEPT ![q] = -1]
    IN  /\ Booted
        /\ parent_pid[q] = q
        /\ HasRoom(process_ct[t_visible] - 1)
        /\ \E p \in Pid :
             /\ FirstFree(freed, p)
             /\ StartProcess(p, t_visible, tss_esp0, p)
             /\ process_status' = [freed EXCEPT ![p] = 1]
        /\ UNCHANGED <<process_ct, cur_esp>>

\* Whether Alt+Fk has to launch a shell, which it never does in terminal 0, and a
\* mutated form that forgets terminal 2.
NeedsSecondShell(k) == k = 1 /\ shell_flag[k] = -1
NeedsShell(k) == k # 0 /\ shell_flag[k] = -1

\* Alt+Fk for a terminal that has a shell, or for terminal 0.
SwitchDisplay(k) ==
    /\ Booted
    /\ k # t_visible
    /\ ~NeedsShell(k)
    /\ \E s \in InterruptStack :
         /\ cur_esp' = HideProcess(s)
         /\ IF shell_flag[t_visible] = 0 /\ shell_flag[k] = 0
              THEN /\ program_page' = running_process[k]
                   /\ tss_esp0' = running_process[k]
                   /\ cpu' = cur_esp'[running_process[k]]
              ELSE /\ cpu' = s
                   /\ UNCHANGED <<program_page, tss_esp0>>
    /\ t_visible' = k
    /\ UNCHANGED <<tables, saved_esp>>

\* Alt+F2 or Alt+F3 for a terminal without a shell.
LaunchShell(k) ==
    /\ Booted /\ NeedsShell(k)
    /\ HasRoom(process_ct[k])
    /\ \E p \in Pid, s \in InterruptStack :
         /\ FirstFree(process_status, p)
         /\ StartProcess(p, k, s, p)
         /\ process_status' = [process_status EXCEPT ![p] = 1]
         /\ cur_esp' = SaveForLaunch(k, s)
    /\ process_ct' = [process_ct EXCEPT ![k] = @ + 1]

\* The same when execute fails: the handler returns to the program that it
\* interrupted, with another terminal visible and running_process = k.
LaunchRefused(k) ==
    /\ Booted /\ NeedsShell(k)
    /\ ~(HasRoom(process_ct[k]) /\ \E p \in Pid : FirstFree(process_status, p))
    /\ \E s \in InterruptStack :
         /\ cur_esp' = SaveForLaunch(k, s)
         /\ cpu' = s
    /\ t_visible' = k
    /\ running_process' = [running_process EXCEPT ![k] = k]
    /\ UNCHANGED <<process_status, shell_flag, process_ct, parent_pid, home,
                   saved_esp, program_page, tss_esp0>>

UserStep == Execute \/ HaltToParent \/ HaltBaseShell

Next ==
    \/ Boot
    \/ UserStep
    \/ \E k \in Terminal : SwitchDisplay(k) \/ LaunchShell(k) \/ LaunchRefused(k)

Spec == Init /\ [][Next]_vars

(***************************************************************************)
(* Orderly use.  Two launches of a terminal do harm: one that finds no     *)
(* free slot, and one whose number k is also the pid of the foreground     *)
(* process of a third terminal, as its saved stack is then overwritten.    *)
(* OrderlySpec is the same system used without them.                       *)
(***************************************************************************)
HarmlessLaunch(k) ==
    \A i \in Terminal \ {t_visible, k} :
        shell_flag[i] = 0 => running_process[i] # k

OrderlyLaunch(k) == HarmlessLaunch(k) /\ LaunchShell(k)

OrderlyNext ==
    \/ Boot
    \/ UserStep
    \/ \E k \in Terminal : SwitchDisplay(k) \/ OrderlyLaunch(k)

OrderlySpec == Init /\ [][OrderlyNext]_vars

-----------------------------------------------------------------------------
(* Properties of every use.                                                *)

\* The values the variables range over.
TypeOK ==
    /\ process_status \in [Pid -> {-1, 1}]
    /\ t_visible \in Terminal
    /\ running_process \in [Terminal -> Pid \union {None}]
    /\ shell_flag \in [Terminal -> {-1, 0}]
    /\ process_ct \in [Terminal -> Int]
    /\ parent_pid \in [Pid -> Pid]
    /\ saved_esp \in [Pid -> Pid \union {None}]
    /\ cur_esp \in [Pid -> Pid \union {None}]
    /\ program_page \in Pid \union {None}
    /\ tss_esp0 \in Pid
    /\ cpu \in Pid \union {None}
    /\ home \in [Pid -> Terminal]

\* Whichever terminal the keyboard brings to the screen, get_pcb is never asked
\* for the PCB of running_process = -1 once the first shell runs.
ForegroundExists == Booted => Current # None

\* When a base shell halts, the execute that restarts it passes its own two
\* checks, whatever happened before: halt has no code for the case that it
\* returns (system_calls.c:210-214).
RelaunchNeverRefused ==
    (Booted /\ parent_pid[Current] = Current) =>
        /\ process_ct[t_visible] - 1 <= MAX_PROC_PER_TERM
        /\ \E p \in Pid : FirstFree([process_status EXCEPT ![Current] = -1], p)

\* The program page maps the process that runs in the visible terminal ("Maps the
\* program that is currently running to the correct process", paging.c:45-46).
MapsForeground == Booted => program_page = Current

-----------------------------------------------------------------------------
(* Properties of orderly use.                                              *)

\* The program whose image is mapped, the kernel stack in the TSS and the stack
\* the CPU runs on all belong to the foreground process of the visible terminal.
CpuRunsForeground ==
    Booted => /\ program_page = Current
              /\ tss_esp0 = Current
              /\ cpu = Current

\* What switch_display restores when it brings a hidden terminal back is the
\* stack of that terminal's own foreground process.
HiddenResumable ==
    \A i \in Terminal :
        i # t_visible /\ shell_flag[i] = 0 =>
            cur_esp[running_process[i]] = running_process[i]

InUse == {p \in Pid : process_status[p] = 1}
IsBase(p) == parent_pid[p] = p

\* The processes of a terminal form one chain: its foreground process is in use
\* and belongs to it; without a shell it has no process; parents are in use and in
\* the same terminal; the foreground process has no child, the others have one; and
\* there is one base shell.
ForegroundInUse ==
    \A i \in Terminal : shell_flag[i] = 0 =>
        running_process[i] \in InUse /\ home[running_process[i]] = i
NoShellNoProcess == \A p \in InUse : shell_flag[home[p]] = 0
ParentInUse == \A p \in InUse : parent_pid[p] \in InUse /\ home[parent_pid[p]] = home[p]
ForegroundChildless ==
    \A p \in InUse : ~IsBase(p) => parent_pid[p] # running_process[home[p]]
OneChild ==
    \A p, q \in InUse :
        ~IsBase(p) /\ ~IsBase(q) /\ parent_pid[p] = parent_pid[q] => p = q
OneBaseShell == \A p, q \in InUse : IsBase(p) /\ IsBase(q) /\ home[p] = home[q] => p = q
OthersHaveChild ==
    \A p \in InUse : \/ p = running_process[home[p]]
                     \/ \E q \in InUse : ~IsBase(q) /\ parent_pid[q] = p

OneChainPerTerminal ==
    /\ ForegroundInUse /\ NoShellNoProcess /\ ParentInUse /\ ForegroundChildless
    /\ OneChild /\ OneBaseShell /\ OthersHaveChild

\* process_ct counts the processes of the terminal.
CountsProcesses ==
    \A i \in Terminal : process_ct[i] = Cardinality({p \in InUse : home[p] = i})

\* halt returns on the stack of the parent, inside the execute that the parent called.
ReturnsToParent ==
    \A p \in InUse : ~IsBase(p) => saved_esp[p] = parent_pid[p]

\* The process whose slot a step frees is the one the CPU was running.
OnlySelfHalts ==
    [][\A p \in Pid : process_status[p] = 1 /\ process_status'[p] = -1 => p = cpu]_vars
=============================================================================
