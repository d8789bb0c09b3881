-------------------------- MODULE ProcessesProofs --------------------------
(***************************************************************************)
(* Proofs about module Processes, for every number of slots and terminals. *)
(* Part 1 holds in every use of the system, part 2 in orderly use.         *)
(***************************************************************************)
EXTENDS Processes, Inductions, FiniteSetTheorems, TLAPS

\* The search of execute, which takes the lowest free slot, finds one if there is any.
LEMMA FirstFreeExists ==
  ASSUME NEW status \in [Pid -> {-1, 1}], NEW f \in Pid, status[f] = -1
  PROVE  \E p \in Pid : FirstFree(status, p)
<1> DEFINE F == {q \in Pid : status[q] = -1}
<1>1. F \in SUBSET Nat /\ F # {}
  BY CountsAssumption DEF Pid
<1> HIDE DEF F
<1>2. PICK p \in F : \A q \in F : p <= q
  BY <1>1, LeastElement
<1>3. p \in Pid /\ status[p] = -1
  BY <1>2 DEF F
<1>4. ASSUME NEW q \in 0 .. p - 1
      PROVE  status[q] # -1
  <2>1. q \in Pid /\ ~(p <= q)
    BY <1>3, <1>4, CountsAssumption DEF Pid
  <2> QED
    BY <1>2, <2>1 DEF F
<1> QED
  BY <1>3, <1>4 DEF FirstFree

-----------------------------------------------------------------------------
(* Part 1.  Every use of the system.                                       *)

\* A terminal without shell does not count processes and the limit of execute
\* is exceeded by at most one; what is shown has a process.
BaseInv ==
    /\ TypeOK
    /\ ~Booted => t_visible = 0
    /\ Booted => shell_flag[0] = 0 /\ Current \in Pid
    /\ \A i \in Terminal : shell_flag[i] = 0 => running_process[i] \in Pid
    /\ \A i \in Terminal : process_ct[i] <= MAX_PROC_PER_TERM + 1

\* Slot 0 and terminal 0 exist.
LEMMA ZeroIsMember == 0 \in Pid /\ 0 \in Terminal
  BY CountsAssumption DEF Pid, Terminal

\* running_process = -1 is not a process.
LEMMA NoneIsNoPid == None \notin Pid
  BY CountsAssumption DEF Pid, None

\* The process table is finite.
LEMMA FinitePid == IsFiniteSet(Pid)
<1>1. 0 \in Int /\ PROCESS_COUNT - 1 \in Int
  BY CountsAssumption
<1> QED
  BY <1>1, FS_Interval DEF Pid

\* Every terminal number is also a pid: get_pcb(terminal_3) is a PCB.
LEMMA TerminalIsPid == Terminal \subseteq Pid
  BY CountsAssumption DEF Pid, Terminal

\* The start.
LEMMA InitBaseInv == Init => BaseInv
<1> SUFFICES ASSUME Init PROVE BaseInv
  OBVIOUS
<1> USE ZeroIsMember DEF Init
<1>1. TypeOK
  BY DEF TypeOK, None
<1>2. ~Booted
  BY DEF Booted
<1>3. \A i \in Terminal : shell_flag[i] = -1 /\ process_ct[i] = 0
  OBVIOUS
<1> QED
  BY <1>1, <1>2, <1>3, CountsAssumption DEF BaseInv

\* What StartProcess does to the typed variables it sets.
LEMMA StartProcessType ==
  ASSUME TypeOK, NEW p \in Pid, NEW i \in Terminal, NEW s \in Pid \union {None},
         NEW parent \in Pid, StartProcess(p, i, s, parent)
  PROVE  /\ t_visible' \in Terminal
         /\ running_process' \in [Terminal -> Pid \union {None}]
         /\ shell_flag' \in [Terminal -> {-1, 0}]
         /\ parent_pid' \in [Pid -> Pid]
         /\ saved_esp' \in [Pid -> Pid \union {None}]
         /\ program_page' \in Pid
         /\ tss_esp0' \in Pid
         /\ cpu' \in Pid
         /\ home' \in [Pid -> Terminal]
         /\ Current' = p
         /\ Booted'
         /\ shell_flag'[i] = 0
         /\ \A j \in Terminal \ {i} : /\ shell_flag'[j] = shell_flag[j]
                                      /\ running_process'[j] = running_process[j]
         /\ running_process'[i] = p
  BY NoneIsNoPid DEF TypeOK, StartProcess, Current, Booted

\* Every step keeps BaseInv, orderly or not.
LEMMA NextBaseInv == BaseInv /\ [Next]_vars => BaseInv'
<1> SUFFICES ASSUME BaseInv, [Next]_vars PROVE BaseInv'
  OBVIOUS
<1> USE ZeroIsMember, NoneIsNoPid, CountsAssumption
<1>t. TypeOK /\ t_visible \in Terminal /\ tss_esp0 \in Pid
  BY DEF BaseInv, TypeOK
<1>c. \A i \in Terminal : process_ct[i] \in Int
  BY <1>t DEF TypeOK
<1>1. CASE Boot
  <2>1. PICK p \in Pid :
          /\ StartProcess(p, t_visible, cpu, ParentOf(p, t_visible))
          /\ process_status' = [process_status EXCEPT ![p] = 1]
    BY <1>1 DEF Boot
  <2>2. t_visible = 0 /\ ~Booted
    BY <1>1 DEF Boot, BaseInv
  <2>3. ParentOf(p, t_visible) \in Pid
    BY <1>t DEF BaseInv, TypeOK, ParentOf
  <2>4. cur_esp' \in [Pid -> Pid \union {None}] /\ process_status' \in [Pid -> {-1, 1}]
    BY <1>1, <1>t, <2>1 DEF Boot, TypeOK
  <2>5. /\ process_ct' \in [Terminal -> Int]
        /\ \A i \in Terminal : process_ct'[i] <= MAX_PROC_PER_TERM + 1
    BY <1>1, <1>t, <1>c DEF Boot, TypeOK, BaseInv, HasRoom
  <2>6. cpu \in Pid \union {None}
    BY <1>t DEF TypeOK
  <2> HIDE DEF ParentOf
  <2>7. /\ TypeOK'
        /\ Current' = p /\ Booted' /\ shell_flag'[0] = 0
        /\ \A j \in Terminal \ {0} : /\ shell_flag'[j] = shell_flag[j]
                                     /\ running_process'[j] = running_process[j]
        /\ running_process'[0] = p
    BY <1>t, <2>1, <2>2, <2>3, <2>4, <2>5, <2>6, StartProcessType DEF TypeOK
  <2> QED
    BY <2>5, <2>7 DEF BaseInv
<1>2. CASE Execute
  <2>1. PICK p \in Pid :
          /\ StartProcess(p, t_visible, tss_esp0, ParentOf(p, t_visible))
          /\ process_status' = [process_status EXCEPT ![p] = 1]
    BY <1>2 DEF Execute
  <2>2. Booted /\ Current \in Pid /\ shell_flag[0] = 0
    BY <1>2 DEF Execute, BaseInv
  <2>3. ParentOf(p, t_visible) \in Pid
    BY <2>2 DEF ParentOf, Current
  <2>4. cur_esp' \in [Pid -> Pid \union {None}] /\ process_status' \in [Pid -> {-1, 1}]
    BY <1>2, <1>t, <2>1 DEF Execute, TypeOK
  <2>5. /\ process_ct' \in [Terminal -> Int]
        /\ \A i \in Terminal : process_ct'[i] <= MAX_PROC_PER_TERM + 1
    BY <1>2, <1>t, <1>c DEF Execute, TypeOK, BaseInv, HasRoom
  <2>7. /\ TypeOK'
        /\ Current' = p /\ Booted' /\ shell_flag'[t_visible] = 0
        /\ \A j \in Terminal \ {t_visible} : /\ shell_flag'[j] = shell_flag[j]
                                             /\ running_process'[j] = running_process[j]
        /\ running_process'[t_visible] = p
    BY <1>t, <2>1, <2>3, <2>4, <2>5, StartProcessType DEF TypeOK
  <2> QED
    BY <2>2, <2>5, <2>7 DEF BaseInv
<1>3. CASE HaltToParent
  <2> DEFINE q == Current
             parent == parent_pid[q]
  <2>1. Booted /\ q \in Pid /\ shell_flag[0] = 0
    BY <1>3 DEF HaltToParent, BaseInv
  <2>2. parent \in Pid /\ saved_esp[q] \in Pid \union {None}
    BY <1>t, <2>1 DEF TypeOK
  <2>3. /\ process_status' = [process_status EXCEPT ![q] = -1]
        /\ running_process' = [running_process EXCEPT ![t_visible] = parent]
        /\ process_ct' = [process_ct EXCEPT ![t_visible] = process_ct[t_visible] - 1]
        /\ program_page' = parent
        /\ tss_esp0' = parent
        /\ cpu' = saved_esp[q]
        /\ UNCHANGED <<t_visible, shell_flag, parent_pid, saved_esp, cur_esp, home>>
    BY <1>3 DEF HaltToParent
  <2> HIDE DEF q, parent
  <2>4. TypeOK'
    BY <1>t, <1>c, <2>1, <2>2, <2>3 DEF TypeOK
  <2>5. Booted' /\ Current' = parent
    BY <1>t, <2>2, <2>3 DEF Booted, Current, TypeOK
  <2>6. \A i \in Terminal : process_ct'[i] <= MAX_PROC_PER_TERM + 1
    BY <1>t, <1>c, <2>3 DEF TypeOK, BaseInv
  <2>7. \A i \in Terminal : shell_flag'[i] = 0 => running_process'[i] \in Pid
    BY <1>t, <2>2, <2>3 DEF TypeOK, BaseInv
  <2> QED
    BY <2>1, <2>2, <2>3, <2>4, <2>5, <2>6, <2>7 DEF BaseInv
<1>4. CASE HaltBaseShell
  <2> DEFINE freed == [process_status EXCEPT ![Current] = -1]
  <2>1. PICK p \in Pid : /\ StartProcess(p, t_visible, tss_esp0, p)
                         /\ process_status' = [freed EXCEPT ![p] = 1]
    BY <1>4 DEF HaltBaseShell
  <2>2. Booted /\ shell_flag[0] = 0 /\ UNCHANGED <<process_ct, cur_esp>>
    BY <1>4 DEF HaltBaseShell, BaseInv
  <2>4. process_status' \in [Pid -> {-1, 1}]
    BY <1>t, <2>1 DEF TypeOK
  <2> HIDE DEF freed
  <2>7. /\ TypeOK'
        /\ Current' = p /\ Booted' /\ shell_flag'[t_visible] = 0
        /\ \A j \in Terminal \ {t_visible} : /\ shell_flag'[j] = shell_flag[j]
                                             /\ running_process'[j] = running_process[j]
        /\ running_process'[t_visible] = p
    BY <1>t, <2>1, <2>2, <2>4, StartProcessType DEF TypeOK
  <2> QED
    BY <2>2, <2>7 DEF BaseInv
<1>5. ASSUME NEW k \in Terminal, SwitchDisplay(k)
      PROVE  BaseInv'
  <2>1. PICK s \in InterruptStack :
          /\ cur_esp' = HideProcess(s)
          /\ IF shell_flag[t_visible] = 0 /\ shell_flag[k] = 0
              THEN /\ program_page' = running_process[k]
                   /\ tss_esp0' = running_process[k]
                   /\ cpu' = cur_esp'[running_process[k]]
              ELSE /\ cpu' = s
                   /\ UNCHANGED <<program_page, tss_esp0>>
    BY <1>5 DEF SwitchDisplay, NeedsShell
  <2>2. /\ Booted /\ t_visible' = k /\ UNCHANGED <<tables, saved_esp>>
        /\ shell_flag[0] = 0 /\ Current \in Pid
    BY <1>5 DEF SwitchDisplay, NeedsShell, BaseInv
  <2>3. shell_flag[k] = 0 /\ running_process[k] \in Pid
    BY <1>5, <1>t, <2>2 DEF SwitchDisplay, NeedsShell, BaseInv, TypeOK
  <2>4. s \in Pid \union {None} /\ cur_esp' \in [Pid -> Pid \union {None}]
    BY <1>t, <2>1, <2>2 DEF InterruptStack, HideProcess, TypeOK
  <2>5. cpu' \in Pid \union {None} /\ tss_esp0' \in Pid /\ program_page' \in Pid
    BY <1>t, <2>1, <2>2, <2>3, <2>4 DEF TypeOK, Booted
  <2>6. TypeOK' /\ Booted' /\ Current' \in Pid
    BY <1>t, <2>2, <2>3, <2>4, <2>5 DEF TypeOK, Booted, Current, tables
  <2> QED
    BY <2>2, <2>6 DEF BaseInv, tables
<1>6. ASSUME NEW k \in Terminal, LaunchShell(k)
      PROVE  BaseInv'
  <2>1. PICK p \in Pid, s \in InterruptStack :
          /\ StartProcess(p, k, s, p)
          /\ process_status' = [process_status EXCEPT ![p] = 1]
          /\ cur_esp' = SaveForLaunch(k, s)
    BY <1>6 DEF LaunchShell
  <2>2. Booted /\ shell_flag[0] = 0 /\ k # 0
    BY <1>6 DEF LaunchShell, NeedsShell, BaseInv
  <2>3. s \in Pid \union {None}
    BY <1>t, <2>1 DEF InterruptStack, TypeOK
  <2>4. cur_esp' \in [Pid -> Pid \union {None}] /\ process_status' \in [Pid -> {-1, 1}]
    BY <1>t, <2>1, <2>3 DEF TypeOK, SaveForLaunch, HideProcess
  <2>5. /\ process_ct' \in [Terminal -> Int]
        /\ \A i \in Terminal : process_ct'[i] <= MAX_PROC_PER_TERM + 1
    BY <1>6, <1>t, <1>c DEF LaunchShell, TypeOK, BaseInv, HasRoom
  <2>7. /\ TypeOK'
        /\ Current' = p /\ Booted' /\ shell_flag'[k] = 0
        /\ \A j \in Terminal \ {k} : /\ shell_flag'[j] = shell_flag[j]
                                     /\ running_process'[j] = running_process[j]
        /\ running_process'[k] = p
    BY <1>t, <2>1, <2>3, <2>4, <2>5, StartProcessType DEF TypeOK
  <2> QED
    BY <2>2, <2>5, <2>7 DEF BaseInv
<1>7. ASSUME NEW k \in Terminal, LaunchRefused(k)
      PROVE  BaseInv'
  <2>1. PICK s \in InterruptStack : cur_esp' = SaveForLaunch(k, s) /\ cpu' = s
    BY <1>7 DEF LaunchRefused
  <2>2. /\ Booted /\ shell_flag[0] = 0 /\ shell_flag[k] = -1
        /\ t_visible' = k
        /\ running_process' = [running_process EXCEPT ![k] = k]
        /\ UNCHANGED <<process_status, shell_flag, process_ct, parent_pid, home,
                       saved_esp, program_page, tss_esp0>>
    BY <1>7 DEF LaunchRefused, NeedsShell, BaseInv
  <2>3. s \in Pid \union {None} /\ k \in Pid
    BY <1>t, <2>1, TerminalIsPid DEF InterruptStack, TypeOK
  <2>4. cur_esp' \in [Pid -> Pid \union {None}]
    BY <1>t, <2>1, <2>3 DEF TypeOK, SaveForLaunch, HideProcess
  <2>5. TypeOK' /\ Booted' /\ Current' = k
    BY <1>t, <2>1, <2>2, <2>3, <2>4 DEF TypeOK, Booted, Current
  <2>6. \A i \in Terminal : shell_flag'[i] = 0 => running_process'[i] \in Pid
    BY <1>t, <2>2, <2>3 DEF TypeOK, BaseInv
  <2> QED
    BY <2>2, <2>3, <2>5, <2>6 DEF BaseInv
<1>8. CASE UNCHANGED vars
  BY <1>8 DEF vars, tables, BaseInv, TypeOK, Booted, Current
<1> QED
  BY <1>1, <1>2, <1>3, <1>4, <1>5, <1>6, <1>7, <1>8 DEF Next, UserStep

\* The variables keep their types in every use.
THEOREM TypeCorrect == Spec => []TypeOK
<1>1. BaseInv => TypeOK
  BY DEF BaseInv
<1> QED
  BY <1>1, InitBaseInv, NextBaseInv, PTL DEF Spec

\* Every kernel entry after boot finds a foreground process.
THEOREM ForegroundAlwaysExists == Spec => []ForegroundExists
<1>1. BaseInv => ForegroundExists
  BY NoneIsNoPid DEF BaseInv, ForegroundExists
<1> QED
  BY <1>1, InitBaseInv, NextBaseInv, PTL DEF Spec

\* The restart of a base shell in halt cannot fail, so the code after it is not
\* reached.
THEOREM RelaunchAlwaysPossible == Spec => []RelaunchNeverRefused
<1>1. ASSUME BaseInv PROVE RelaunchNeverRefused
  <2> SUFFICES ASSUME Booted
               PROVE  /\ process_ct[t_visible] - 1 <= MAX_PROC_PER_TERM
                      /\ \E p \in Pid : FirstFree([process_status EXCEPT ![Current] = -1], p)
    BY DEF RelaunchNeverRefused
  <2> DEFINE freed == [process_status EXCEPT ![Current] = -1]
  <2>1. Current \in Pid
    BY <1>1 DEF BaseInv
  <2>2. freed \in [Pid -> {-1, 1}] /\ freed[Current] = -1
    BY <1>1, <2>1 DEF BaseInv, TypeOK
  <2>3. \E p \in Pid : FirstFree(freed, p)
    BY <2>1, <2>2, FirstFreeExists
  <2>4. process_ct[t_visible] \in Int /\ process_ct[t_visible] <= MAX_PROC_PER_TERM + 1
    BY <1>1 DEF BaseInv, TypeOK
  <2> QED
    BY <2>3, <2>4, CountsAssumption
<1> QED
  BY <1>1, InitBaseInv, NextBaseInv, PTL DEF Spec

-----------------------------------------------------------------------------
(* Part 2.  Orderly use.                                                   *)

CpuInv ==
    /\ ~Booted => \A i \in Terminal : shell_flag[i] = -1
    /\ Booted => shell_flag[t_visible] = 0
    /\ CpuRunsForeground

TableInv == OneChainPerTerminal /\ ReturnsToParent /\ CountsProcesses

OrderlyInv == BaseInv /\ CpuInv /\ HiddenResumable /\ TableInv

\* The processes of a terminal are finitely many.
LEMMA FiniteHome ==
  ASSUME NEW j \in Terminal
  PROVE  IsFiniteSet({q \in InUse : home[q] = j})
<1>1. {q \in InUse : home[q] = j} \in SUBSET Pid
  BY DEF InUse
<1> QED
  BY <1>1, FinitePid, FS_Subset

(***************************************************************************)
(* The slot p, free before, becomes a process of terminal i: a base shell  *)
(* when i had no shell, else a child of its foreground process.            *)
(***************************************************************************)
LEMMA AddProcess ==
  ASSUME TypeOK, TableInv, NEW p \in Pid, NEW i \in Terminal, NEW s,
         process_status[p] = -1,
         StartProcess(p, i, s, ParentOf(p, i)),
         process_status' = [process_status EXCEPT ![p] = 1],
         process_ct' = [process_ct EXCEPT ![i] = process_ct[i] + 1],
         shell_flag[i] = 0 => s = running_process[i]
  PROVE  TableInv'
<1> DEFINE parent == ParentOf(p, i)
<1>1. p \notin InUse /\ InUse' = InUse \union {p}
  BY DEF InUse, TypeOK
<1>2. \A q \in InUse : /\ parent_pid'[q] = parent_pid[q]
                       /\ home'[q] = home[q]
                       /\ saved_esp'[q] = saved_esp[q]
                       /\ q \in Pid /\ home[q] \in Terminal
  BY <1>1 DEF InUse, TypeOK, StartProcess
<1>3. parent_pid'[p] = parent /\ home'[p] = i /\ saved_esp'[p] = s
  BY DEF TypeOK, StartProcess
<1>4. /\ running_process'[i] = p /\ shell_flag'[i] = 0
      /\ \A j \in Terminal \ {i} : /\ running_process'[j] = running_process[j]
                                   /\ shell_flag'[j] = shell_flag[j]
  BY DEF TypeOK, StartProcess
<1>5. \/ shell_flag[i] = -1 /\ parent = p
      \/ /\ shell_flag[i] = 0 /\ parent = running_process[i]
         /\ parent \in InUse /\ home[parent] = i
  BY DEF TypeOK, TableInv, OneChainPerTerminal, ForegroundInUse, ParentOf
<1> HIDE DEF parent
<1>a. /\ ForegroundInUse /\ NoShellNoProcess /\ ParentInUse /\ ForegroundChildless
      /\ OneChild /\ OneBaseShell /\ OthersHaveChild /\ ReturnsToParent
  BY DEF TableInv, OneChainPerTerminal
<1>6. ForegroundInUse'
  BY <1>1, <1>2, <1>3, <1>4, <1>a DEF ForegroundInUse
<1>7. NoShellNoProcess'
  BY <1>1, <1>2, <1>3, <1>4, <1>a DEF NoShellNoProcess
<1>8. ParentInUse'
  BY <1>1, <1>2, <1>3, <1>5, <1>a DEF ParentInUse
<1>9. ForegroundChildless'
  BY <1>1, <1>2, <1>3, <1>4, <1>5, <1>a DEF ForegroundChildless, ParentInUse, IsBase
<1>10. OneChild'
  <2>1. ASSUME NEW q \in InUse, ~IsBase(q), parent_pid[q] = parent
        PROVE  parent = p
    BY <1>2, <1>5, <2>1, <1>a DEF ForegroundChildless, ParentInUse
  <2>2. \A q \in InUse : parent_pid[q] # p
    BY <1>1, <1>a DEF ParentInUse
  <2> QED
    BY <1>1, <1>2, <1>3, <2>1, <2>2, <1>a DEF OneChild, IsBase
<1>11. OneBaseShell'
  BY <1>1, <1>2, <1>3, <1>5, <1>a DEF OneBaseShell, NoShellNoProcess, IsBase
<1>12. OthersHaveChild'
  <2>1. ASSUME NEW q \in InUse
        PROVE  \/ q = running_process'[home'[q]]
               \/ \E r \in InUse' : ~IsBase(r)' /\ parent_pid'[r] = q
    <3>1. CASE \E r \in InUse : ~IsBase(r) /\ parent_pid[r] = q
      BY <1>1, <1>2, <3>1 DEF IsBase
    <3>2. CASE q = running_process[home[q]] /\ home[q] # i
      BY <1>2, <1>4, <3>2
    <3>3. CASE q = running_process[home[q]] /\ home[q] = i
      <4>1. shell_flag[i] = 0
        BY <3>3, <2>1, <1>a DEF NoShellNoProcess
      <4>2. parent = q /\ p # q
        BY <1>1, <1>5, <3>3, <4>1, <2>1
      <4> QED
        BY <1>1, <1>3, <4>2 DEF IsBase
    <3> QED
      BY <2>1, <3>1, <3>2, <3>3, <1>a DEF OthersHaveChild
  <2>2. p = running_process'[home'[p]]
    BY <1>3, <1>4
  <2> QED
    BY <1>1, <2>1, <2>2 DEF OthersHaveChild
<1>13. ReturnsToParent'
  BY <1>1, <1>2, <1>3, <1>5, <1>a DEF ReturnsToParent, IsBase
<1>14. CountsProcesses'
  <2>1. SUFFICES ASSUME NEW j \in Terminal
                 PROVE  process_ct'[j] = Cardinality({q \in InUse' : home'[q] = j})
    BY DEF CountsProcesses
  <2> DEFINE H == {q \in InUse : home[q] = j}
             G == {q \in InUse' : home'[q] = j}
  <2>2. process_ct[j] = Cardinality(H)
    BY DEF TableInv, CountsProcesses
  <2>3. IsFiniteSet(H)
    <3>1. H \in SUBSET Pid
      BY DEF InUse
    <3> QED
      BY <3>1, FinitePid, FS_Subset
  <2>4. G = IF j = i THEN H \union {p} ELSE H
    BY <1>1, <1>2, <1>3
  <2>5. p \notin H
    BY <1>1
  <2> HIDE DEF H, G
  <2>6. Cardinality(H \union {p}) = Cardinality(H) + 1
    BY <2>3, <2>5, FS_AddElement
  <2>7. process_ct'[j] = IF j = i THEN process_ct[j] + 1 ELSE process_ct[j]
    BY DEF TypeOK
  <2> QED
    BY <2>2, <2>4, <2>6, <2>7 DEF G
<1> QED
  BY <1>6, <1>7, <1>8, <1>9, <1>10, <1>11, <1>12, <1>13, <1>14
  DEF TableInv, OneChainPerTerminal

(***************************************************************************)
(* halt of a child takes the foreground process off its chain.             *)
(***************************************************************************)
LEMMA RemoveForeground ==
  ASSUME OrderlyInv, HaltToParent
  PROVE  TableInv'
<1> DEFINE q == Current
           parent == parent_pid[q]
           v == t_visible
<1>0. TypeOK /\ v \in Terminal /\ TableInv /\ Booted /\ shell_flag[v] = 0
  BY DEF OrderlyInv, BaseInv, TypeOK, CpuInv, HaltToParent
<1>a. /\ ForegroundInUse /\ NoShellNoProcess /\ ParentInUse /\ ForegroundChildless
      /\ OneChild /\ OneBaseShell /\ OthersHaveChild /\ ReturnsToParent
  BY <1>0 DEF TableInv, OneChainPerTerminal
<1>1. q \in InUse /\ home[q] = v /\ running_process[v] = q
  BY <1>0, <1>a DEF ForegroundInUse, Current
<1>2. parent # q /\ parent \in InUse /\ home[parent] = v
  BY <1>1, <1>a DEF ParentInUse, HaltToParent
<1>3. InUse' = InUse \ {q}
  BY <1>0 DEF InUse, TypeOK, HaltToParent
<1>4. /\ UNCHANGED <<shell_flag, parent_pid, saved_esp, home>>
      /\ running_process'[v] = parent
      /\ \A j \in Terminal \ {v} : running_process'[j] = running_process[j]
      /\ process_ct' = [process_ct EXCEPT ![v] = process_ct[v] - 1]
  BY <1>0 DEF HaltToParent, TypeOK
<1>5. \A r \in InUse : r \in Pid /\ home[r] \in Terminal
  BY <1>0 DEF InUse, TypeOK
<1>6. \A r \in InUse : ~IsBase(r) => parent_pid[r] # q
  BY <1>1, <1>a DEF ForegroundChildless, ParentInUse
<1>7. \A r \in InUse : parent_pid[r] = q => r = q
  BY <1>6 DEF IsBase
<1> HIDE DEF q, parent, v
<1>8. ForegroundInUse'
  <2>1. ASSUME NEW j \in Terminal \ {v}, shell_flag[j] = 0
        PROVE  running_process[j] # q
    BY <1>1, <2>1, <1>a DEF ForegroundInUse
  <2> QED
    BY <1>1, <1>2, <1>3, <1>4, <2>1, <1>a DEF ForegroundInUse
<1>9. NoShellNoProcess'
  BY <1>3, <1>4, <1>a DEF NoShellNoProcess
<1>10. ParentInUse'
  BY <1>3, <1>4, <1>7, <1>a DEF ParentInUse
<1>11. ForegroundChildless'
  <2>1. ASSUME NEW r \in InUse', ~IsBase(r)'
        PROVE  parent_pid[r] # running_process'[home[r]]
    <3>1. r \in InUse /\ r # q /\ ~IsBase(r)
      BY <1>3, <1>4, <2>1 DEF IsBase
    <3>2. CASE home[r] = v
      \* its parent would have two children, q and r
      <4>1. ~IsBase(q) /\ parent_pid[q] = parent
        BY <1>2 DEF IsBase, parent
      <4>2. parent_pid[r] # parent
        BY <1>1, <3>1, <4>1, <1>a DEF OneChild
      <4> QED
        BY <1>4, <3>2, <4>2
    <3>3. CASE home[r] # v
      BY <1>4, <1>5, <3>1, <3>3, <1>a DEF ForegroundChildless
    <3> QED
      BY <3>2, <3>3
  <2> QED
    BY <1>4, <2>1 DEF ForegroundChildless
<1>12. OneChild' /\ OneBaseShell'
  BY <1>3, <1>4, <1>a DEF OneChild, OneBaseShell, IsBase
<1>13. OthersHaveChild'
  <2>1. ASSUME NEW r \in InUse'
        PROVE  \/ r = running_process'[home[r]]
               \/ \E c \in InUse' : ~IsBase(c) /\ parent_pid[c] = r
    <3>1. r \in InUse /\ r # q
      BY <1>3, <2>1
    <3>2. CASE r = running_process[home[r]]
      <4>1. home[r] # v
        BY <1>1, <3>1, <3>2
      <4> QED
        BY <1>4, <1>5, <3>1, <3>2, <4>1
    <3>3. CASE \E c \in InUse : ~IsBase(c) /\ parent_pid[c] = r
      <4>1. PICK c \in InUse : ~IsBase(c) /\ parent_pid[c] = r
        BY <3>3
      <4>2. CASE c = q
        BY <1>2, <1>4, <4>1, <4>2 DEF parent
      <4>3. CASE c # q
        BY <1>3, <4>1, <4>3
      <4> QED
        BY <4>2, <4>3
    <3> QED
      BY <3>1, <3>2, <3>3, <1>a DEF OthersHaveChild
  <2> QED
    BY <1>4, <2>1 DEF OthersHaveChild, IsBase
<1>14. ReturnsToParent'
  BY <1>3, <1>4, <1>a DEF ReturnsToParent, IsBase
<1>15. CountsProcesses'
  <2>1. SUFFICES ASSUME NEW j \in Terminal
                 PROVE  process_ct'[j] = Cardinality({r \in InUse' : home'[r] = j})
    BY DEF CountsProcesses
  <2> DEFINE H == {r \in InUse : home[r] = j}
             G == {r \in InUse' : home'[r] = j}
  <2>2. process_ct[j] = Cardinality(H) /\ process_ct \in [Terminal -> Int]
    BY <1>0 DEF TableInv, CountsProcesses, TypeOK
  <2>3. IsFiniteSet(H)
    BY FiniteHome
  <2>4. G = IF j = v THEN H \ {q} ELSE H
    BY <1>1, <1>3, <1>4
  <2>5. j = v => q \in H
    BY <1>1
  <2> HIDE DEF H, G
  <2>6. j = v => Cardinality(H \ {q}) = Cardinality(H) - 1
    BY <2>3, <2>5, FS_RemoveElement
  <2>7. process_ct'[j] = IF j = v THEN process_ct[j] - 1 ELSE process_ct[j]
    BY <1>4, <2>2
  <2> QED
    BY <2>2, <2>4, <2>6, <2>7 DEF G
<1> QED
  BY <1>8, <1>9, <1>10, <1>11, <1>12, <1>13, <1>14, <1>15
  DEF TableInv, OneChainPerTerminal

(***************************************************************************)
(* halt of a base shell, the only process of its terminal, puts another    *)
(* base shell in its place.                                                *)
(***************************************************************************)
LEMMA ReplaceBaseShell ==
  ASSUME OrderlyInv, HaltBaseShell
  PROVE  TableInv'
<1> DEFINE q == Current
           v == t_visible
           freed == [process_status EXCEPT ![q] = -1]
<1>0. TypeOK /\ v \in Terminal /\ TableInv /\ Booted /\ shell_flag[v] = 0
  BY DEF OrderlyInv, BaseInv, TypeOK, CpuInv, HaltBaseShell
<1>a. /\ ForegroundInUse /\ NoShellNoProcess /\ ParentInUse /\ ForegroundChildless
      /\ OneChild /\ OneBaseShell /\ OthersHaveChild /\ ReturnsToParent
  BY <1>0 DEF TableInv, OneChainPerTerminal
<1>1. q \in InUse /\ home[q] = v /\ running_process[v] = q /\ parent_pid[q] = q
  BY <1>0, <1>a DEF ForegroundInUse, Current, HaltBaseShell
<1>2. PICK p \in Pid : /\ FirstFree(freed, p)
                       /\ StartProcess(p, v, tss_esp0, p)
                       /\ process_status' = [freed EXCEPT ![p] = 1]
  BY DEF HaltBaseShell
<1> DEFINE rest == InUse \ {q}
<1>3. p \notin rest /\ InUse' = rest \union {p}
  BY <1>0, <1>1, <1>2 DEF InUse, TypeOK, FirstFree
<1>4. \A r \in rest : /\ parent_pid'[r] = parent_pid[r]
                      /\ home'[r] = home[r]
                      /\ saved_esp'[r] = saved_esp[r]
                      /\ r \in InUse /\ r \in Pid /\ home[r] \in Terminal /\ r # q
  BY <1>0, <1>2, <1>3 DEF InUse, TypeOK, StartProcess
<1>5. /\ parent_pid'[p] = p /\ home'[p] = v
      /\ running_process'[v] = p /\ shell_flag'[v] = 0
      /\ \A j \in Terminal \ {v} : /\ running_process'[j] = running_process[j]
                                   /\ shell_flag'[j] = shell_flag[j]
      /\ process_ct' = process_ct
  BY <1>0, <1>2 DEF StartProcess, TypeOK, HaltBaseShell
<1>6. \A r \in rest : parent_pid[r] # q /\ parent_pid[r] \in rest
  BY <1>1, <1>4, <1>a DEF ForegroundChildless, ParentInUse, IsBase
<1> HIDE DEF q, v, freed
<1>7. ForegroundInUse'
  <2>1. ASSUME NEW j \in Terminal \ {v}, shell_flag[j] = 0
        PROVE  running_process[j] \in rest
    BY <1>1, <2>1, <1>a DEF ForegroundInUse
  <2> QED
    BY <1>3, <1>4, <1>5, <2>1, <1>a DEF ForegroundInUse
<1>8. NoShellNoProcess'
  BY <1>3, <1>4, <1>5, <1>a DEF NoShellNoProcess
<1>9. ParentInUse'
  BY <1>3, <1>4, <1>5, <1>6, <1>a DEF ParentInUse
<1>10. ForegroundChildless'
  BY <1>3, <1>4, <1>5, <1>6, <1>a DEF ForegroundChildless, IsBase
<1>11. OneChild'
  BY <1>3, <1>4, <1>5, <1>6, <1>a DEF OneChild, IsBase
<1>12. OneBaseShell'
  <2>1. ASSUME NEW r \in rest, IsBase(r)
        PROVE  home[r] # v
    BY <1>1, <1>4, <2>1, <1>a DEF OneBaseShell, IsBase
  <2> QED
    BY <1>3, <1>4, <1>5, <2>1, <1>a DEF OneBaseShell, IsBase
<1>13. OthersHaveChild'
  <2>1. ASSUME NEW r \in rest
        PROVE  \/ r = running_process'[home'[r]]
               \/ \E c \in InUse' : ~IsBase(c)' /\ parent_pid'[c] = r
    <3>1. CASE r = running_process[home[r]]
      BY <1>1, <1>4, <1>5, <3>1
    <3>2. CASE \E c \in InUse : ~IsBase(c) /\ parent_pid[c] = r
      <4>1. PICK c \in InUse : ~IsBase(c) /\ parent_pid[c] = r
        BY <3>2
      <4>2. c \in rest
        BY <1>1, <4>1 DEF IsBase
      <4> QED
        BY <1>3, <1>4, <4>1, <4>2 DEF IsBase
    <3> QED
      BY <1>4, <3>1, <3>2, <1>a DEF OthersHaveChild
  <2> QED
    BY <1>3, <1>5, <2>1 DEF OthersHaveChild
<1>14. ReturnsToParent'
  BY <1>3, <1>4, <1>5, <1>a DEF ReturnsToParent, IsBase
<1>15. CountsProcesses'
  <2>1. SUFFICES ASSUME NEW j \in Terminal
                 PROVE  process_ct'[j] = Cardinality({r \in InUse' : home'[r] = j})
    BY DEF CountsProcesses
  <2> DEFINE H == {r \in InUse : home[r] = j}
             G == {r \in InUse' : home'[r] = j}
  <2>2. process_ct[j] = Cardinality(H)
    BY <1>0 DEF TableInv, CountsProcesses
  <2>3. IsFiniteSet(H) /\ IsFiniteSet(H \ {q})
    BY FiniteHome, FS_RemoveElement
  <2>4. G = IF j = v THEN (H \ {q}) \union {p} ELSE H
    BY <1>1, <1>3, <1>4, <1>5
  <2>5. j = v => q \in H
    BY <1>1
  <2>6. p \notin H \ {q}
    BY <1>3
  <2>7. Cardinality(H) \in Nat
    BY <2>3, FS_CardinalityType
  <2> HIDE DEF H, G
  <2>8. j = v => Cardinality(H \ {q}) = Cardinality(H) - 1
    BY <2>3, <2>5, FS_RemoveElement
  <2>9. Cardinality((H \ {q}) \union {p}) = Cardinality(H \ {q}) + 1
    BY <2>3, <2>6, FS_AddElement
  <2>10. Cardinality(G) = Cardinality(H)
    BY <2>4, <2>7, <2>8, <2>9
  <2>11. process_ct'[j] = Cardinality(G)
    BY <1>5, <2>2, <2>10
  <2> QED
    BY <2>11 DEF G
<1> QED
  BY <1>7, <1>8, <1>9, <1>10, <1>11, <1>12, <1>13, <1>14, <1>15
  DEF TableInv, OneChainPerTerminal

\* The CPU runs the foreground process, so every stack is that process's own.
LEMMA EntryStack ==
  ASSUME OrderlyInv, Booted
  PROVE  /\ shell_flag[t_visible] = 0
         /\ Current \in InUse /\ home[Current] = t_visible
         /\ tss_esp0 = Current /\ cpu = Current /\ program_page = Current
         /\ \A s \in InterruptStack : s = Current
  BY DEF OrderlyInv, BaseInv, TypeOK, CpuInv, CpuRunsForeground, TableInv,
         OneChainPerTerminal, ForegroundInUse, InterruptStack, Current

\* The start satisfies the invariant of orderly use, too.
LEMMA InitOrderlyInv == Init => OrderlyInv
<1> SUFFICES ASSUME Init PROVE OrderlyInv
  OBVIOUS
<1>1. BaseInv
  BY InitBaseInv
<1>2. InUse = {} /\ ~Booted /\ \A i \in Terminal : shell_flag[i] = -1 /\ process_ct[i] = 0
  BY DEF Init, InUse, Booted
<1>3. CpuInv /\ HiddenResumable
  BY <1>2 DEF CpuInv, CpuRunsForeground, HiddenResumable
<1>4. OneChainPerTerminal /\ ReturnsToParent
  BY <1>2 DEF OneChainPerTerminal, ForegroundInUse, NoShellNoProcess, ParentInUse,
              ForegroundChildless, OneChild, OneBaseShell, OthersHaveChild, ReturnsToParent
<1>5. CountsProcesses
  BY <1>2, FS_EmptySet DEF CountsProcesses
<1> QED
  BY <1>1, <1>3, <1>4, <1>5 DEF OrderlyInv, TableInv

\* What StartProcess makes of the CPU and of the hidden terminals.
LEMMA StartedRuns ==
  ASSUME OrderlyInv, NEW p \in Pid, NEW i \in Terminal, NEW s, NEW parent \in Pid,
         StartProcess(p, i, s, parent), BaseInv',
         \A j \in Terminal \ {i} : shell_flag[j] = 0 =>
             cur_esp'[running_process[j]] = running_process[j]
  PROVE  CpuInv' /\ HiddenResumable'
<1>1. TypeOK
  BY DEF OrderlyInv, BaseInv
<1>2. Current' = p /\ program_page' = p /\ tss_esp0' = p /\ cpu' = p /\ Booted'
  BY <1>1, NoneIsNoPid DEF StartProcess, Current, Booted, TypeOK
<1>3. /\ t_visible' = i /\ shell_flag'[i] = 0
      /\ \A j \in Terminal \ {i} : /\ running_process'[j] = running_process[j]
                                   /\ shell_flag'[j] = shell_flag[j]
  BY <1>1 DEF StartProcess, TypeOK
<1>4. CpuInv'
  BY <1>2, <1>3 DEF CpuInv, CpuRunsForeground
<1>5. HiddenResumable'
  BY <1>3 DEF HiddenResumable
<1> QED
  BY <1>4, <1>5

\* Every step of orderly use keeps its invariant.
LEMMA NextOrderlyInv == OrderlyInv /\ [OrderlyNext]_vars => OrderlyInv'
<1> SUFFICES ASSUME OrderlyInv, [OrderlyNext]_vars PROVE OrderlyInv'
  OBVIOUS
<1>t. TypeOK /\ TableInv /\ t_visible \in Terminal /\ tss_esp0 \in Pid
  BY DEF OrderlyInv, BaseInv, TypeOK
<1>b. BaseInv'
  BY NextBaseInv DEF OrderlyInv, OrderlyNext, OrderlyLaunch, Next
<1>1. CASE Boot
  <2>1. PICK p \in Pid :
          /\ FirstFree(process_status, p)
          /\ StartProcess(p, t_visible, cpu, ParentOf(p, t_visible))
          /\ process_status' = [process_status EXCEPT ![p] = 1]
    BY <1>1 DEF Boot
  <2>2. /\ \A i \in Terminal : shell_flag[i] = -1
        /\ process_ct' = [process_ct EXCEPT ![t_visible] = process_ct[t_visible] + 1]
    BY <1>1 DEF Boot, OrderlyInv, CpuInv
  <2>3. ParentOf(p, t_visible) = p /\ process_status[p] = -1
    BY <2>1, <2>2, <1>t DEF ParentOf, FirstFree
  <2>4. CpuInv' /\ HiddenResumable'
    BY <2>1, <2>2, <2>3, <1>b, <1>t, StartedRuns
  <2>5. TableInv'
    <3>1. StartProcess(p, t_visible, cpu, ParentOf(p, t_visible)) /\ shell_flag[t_visible] # 0
      BY <2>1, <2>2, <1>t
    <3> QED
      BY <3>1, <2>1, <2>2, <2>3, <1>t, AddProcess
  <2> QED
    BY <1>b, <2>4, <2>5 DEF OrderlyInv
<1>2. CASE Execute
  <2>1. PICK p \in Pid :
          /\ FirstFree(process_status, p)
          /\ StartProcess(p, t_visible, tss_esp0, ParentOf(p, t_visible))
          /\ process_status' = [process_status EXCEPT ![p] = 1]
    BY <1>2 DEF Execute
  <2>2. /\ Booted /\ cur_esp' = cur_esp
        /\ process_ct' = [process_ct EXCEPT ![t_visible] = process_ct[t_visible] + 1]
    BY <1>2 DEF Execute
  <2>3. process_status[p] = -1 /\ tss_esp0 = running_process[t_visible]
    BY <2>1, <2>2, EntryStack DEF FirstFree, Current
  <2>4. ParentOf(p, t_visible) \in Pid
    BY <2>3, <1>t DEF ParentOf
  <2>5. CpuInv' /\ HiddenResumable'
    BY <2>1, <2>2, <2>4, <1>b, <1>t, StartedRuns DEF OrderlyInv, HiddenResumable
  <2>6. TableInv'
    BY <2>1, <2>2, <2>3, <1>t, AddProcess
  <2> QED
    BY <1>b, <2>5, <2>6 DEF OrderlyInv
<1>3. CASE HaltToParent
  <2>1. TableInv'
    BY <1>3, RemoveForeground
  <2>2. Booted /\ Current \in InUse /\ ~IsBase(Current)
    BY <1>3, EntryStack DEF HaltToParent, IsBase
  <2>3. saved_esp[Current] = parent_pid[Current] /\ parent_pid[Current] \in Pid
    BY <2>2, <1>t DEF TableInv, ReturnsToParent, InUse, TypeOK
  <2>4. /\ t_visible' = t_visible /\ shell_flag' = shell_flag /\ cur_esp' = cur_esp
        /\ running_process' = [running_process EXCEPT ![t_visible] = parent_pid[Current]]
        /\ program_page' = parent_pid[Current]
        /\ tss_esp0' = parent_pid[Current]
        /\ cpu' = saved_esp[Current]
    BY <1>3 DEF HaltToParent
  <2>5. CpuInv'
    BY <2>2, <2>3, <2>4, <1>t, EntryStack, NoneIsNoPid
    DEF CpuInv, CpuRunsForeground, Current, Booted, TypeOK
  <2>6. HiddenResumable'
    BY <2>4, <1>t DEF OrderlyInv, HiddenResumable, TypeOK
  <2> QED
    BY <1>b, <2>1, <2>5, <2>6 DEF OrderlyInv
<1>4. CASE HaltBaseShell
  <2>1. PICK p \in Pid : StartProcess(p, t_visible, tss_esp0, p)
    BY <1>4 DEF HaltBaseShell
  <2>2. cur_esp' = cur_esp
    BY <1>4 DEF HaltBaseShell
  <2>3. CpuInv' /\ HiddenResumable'
    BY <2>1, <2>2, <1>b, <1>t, StartedRuns DEF OrderlyInv, HiddenResumable
  <2>4. TableInv'
    BY <1>4, ReplaceBaseShell
  <2> QED
    BY <1>b, <2>3, <2>4 DEF OrderlyInv
<1>5. ASSUME NEW k \in Terminal, SwitchDisplay(k)
      PROVE  OrderlyInv'
  <2>1. PICK s \in InterruptStack :
          /\ cur_esp' = HideProcess(s)
          /\ IF shell_flag[t_visible] = 0 /\ shell_flag[k] = 0
              THEN /\ program_page' = running_process[k]
                   /\ tss_esp0' = running_process[k]
                   /\ cpu' = cur_esp'[running_process[k]]
              ELSE /\ cpu' = s
                   /\ UNCHANGED <<program_page, tss_esp0>>
    BY <1>5 DEF SwitchDisplay, NeedsShell
  <2>2. Booted /\ k # t_visible /\ t_visible' = k /\ UNCHANGED <<tables, saved_esp>>
    BY <1>5 DEF SwitchDisplay, NeedsShell
  <2>3. /\ s = Current /\ shell_flag[t_visible] = 0
        /\ Current \in InUse /\ home[Current] = t_visible
    BY <2>1, <2>2, EntryStack
  <2>4. shell_flag[k] = 0
    BY <1>5, <2>2, <1>t DEF SwitchDisplay, NeedsShell, OrderlyInv, BaseInv, TypeOK
  <2>5. \A i \in Terminal \ {t_visible} : shell_flag[i] = 0 =>
          /\ running_process[i] \in Pid
          /\ running_process[i] # Current
          /\ cur_esp[running_process[i]] = running_process[i]
    BY <2>3, <1>t DEF OrderlyInv, HiddenResumable, TableInv, OneChainPerTerminal,
                      ForegroundInUse, InUse
  <2>6. /\ cur_esp'[Current] = Current
        /\ \A i \in Terminal \ {t_visible} : shell_flag[i] = 0 =>
             cur_esp'[running_process[i]] = running_process[i]
    BY <2>1, <2>3, <2>5, <1>t DEF HideProcess, InUse, TypeOK
  <2>7. HiddenResumable'
    BY <2>2, <2>6 DEF HiddenResumable, tables, Current
  <2>8. CpuInv'
    BY <2>1, <2>2, <2>3, <2>4, <2>5, <2>6, NoneIsNoPid
    DEF CpuInv, CpuRunsForeground, Current, Booted, tables
  <2>9. TableInv'
    BY <2>2, <1>t DEF TableInv, OneChainPerTerminal, ForegroundInUse, NoShellNoProcess,
         ParentInUse, ForegroundChildless, OneChild, OneBaseShell, OthersHaveChild,
         ReturnsToParent, CountsProcesses, InUse, IsBase, tables
  <2> QED
    BY <1>b, <2>7, <2>8, <2>9 DEF OrderlyInv
<1>6. ASSUME NEW k \in Terminal, OrderlyLaunch(k)
      PROVE  OrderlyInv'
  <2>1. PICK p \in Pid, s \in InterruptStack :
          /\ FirstFree(process_status, p)
          /\ StartProcess(p, k, s, p)
          /\ process_status' = [process_status EXCEPT ![p] = 1]
          /\ cur_esp' = SaveForLaunch(k, s)
    BY <1>6 DEF OrderlyLaunch, LaunchShell
  <2>2. /\ Booted /\ shell_flag[k] = -1 /\ HarmlessLaunch(k)
        /\ process_ct' = [process_ct EXCEPT ![k] = process_ct[k] + 1]
    BY <1>6 DEF OrderlyLaunch, LaunchShell, NeedsShell
  <2>3. /\ s = Current /\ shell_flag[t_visible] = 0
        /\ Current \in InUse /\ home[Current] = t_visible
    BY <2>1, <2>2, EntryStack
  <2>4. k # t_visible /\ k \in Pid /\ Current = running_process[t_visible]
    BY <2>2, <2>3, TerminalIsPid DEF Current
  <2>5. cur_esp' = [[cur_esp EXCEPT ![Current] = Current] EXCEPT ![k] = Current]
    BY <2>1, <2>3, <2>4 DEF SaveForLaunch, HideProcess
  <2>6. \A i \in Terminal \ {t_visible, k} : shell_flag[i] = 0 =>
          /\ running_process[i] \in Pid
          /\ running_process[i] # Current /\ running_process[i] # k
          /\ cur_esp[running_process[i]] = running_process[i]
    BY <2>2, <2>3, <1>t DEF OrderlyInv, HiddenResumable, TableInv, OneChainPerTerminal,
                            ForegroundInUse, InUse, HarmlessLaunch
  <2>7. Current \in Pid
    BY <2>3 DEF InUse
  <2>8. \A i \in Terminal \ {k} : shell_flag[i] = 0 =>
          cur_esp'[running_process[i]] = running_process[i]
    BY <2>4, <2>5, <2>6, <2>7, <1>t DEF TypeOK
  <2>9. CpuInv' /\ HiddenResumable'
    BY <2>1, <2>8, <1>b, <1>t, StartedRuns
  <2>10. ParentOf(p, k) = p /\ process_status[p] = -1
    BY <2>1, <2>2 DEF ParentOf, FirstFree
  <2>11. TableInv'
    <3>1. StartProcess(p, k, s, ParentOf(p, k)) /\ shell_flag[k] # 0
      BY <2>1, <2>2, <2>10
    <3> QED
      BY <3>1, <2>1, <2>2, <2>10, <1>t, AddProcess
  <2> QED
    BY <1>b, <2>9, <2>11 DEF OrderlyInv
<1>7. CASE UNCHANGED vars
  BY <1>7 DEF vars, tables, OrderlyInv, BaseInv, TypeOK, CpuInv, HiddenResumable, TableInv,
       OneChainPerTerminal, ForegroundInUse, NoShellNoProcess, ParentInUse,
       ForegroundChildless, OneChild, OneBaseShell, OthersHaveChild, ReturnsToParent,
       CountsProcesses, CpuRunsForeground, Booted, Current, InUse, IsBase
<1> QED
  BY <1>1, <1>2, <1>3, <1>4, <1>5, <1>6, <1>7 DEF OrderlyNext, UserStep

\* In orderly use the CPU, the page and the TSS follow the foreground process.
THEOREM OrderlyCpuRunsForeground == OrderlySpec => []CpuRunsForeground
<1>1. OrderlyInv => CpuRunsForeground
  BY DEF OrderlyInv, CpuInv
<1> QED
  BY <1>1, InitOrderlyInv, NextOrderlyInv, PTL DEF OrderlySpec

\* In orderly use a hidden terminal comes back on its own stack.
THEOREM OrderlyHiddenResumable == OrderlySpec => []HiddenResumable
<1>1. OrderlyInv => HiddenResumable
  BY DEF OrderlyInv
<1> QED
  BY <1>1, InitOrderlyInv, NextOrderlyInv, PTL DEF OrderlySpec

\* In orderly use the table is one chain for each terminal, its foreground process at the end.
THEOREM OrderlyTable == OrderlySpec => []OneChainPerTerminal
<1>1. OrderlyInv => OneChainPerTerminal
  BY DEF OrderlyInv, TableInv
<1> QED
  BY <1>1, InitOrderlyInv, NextOrderlyInv, PTL DEF OrderlySpec

\* In orderly use process_ct counts the processes of a terminal, so its limit is about them.
THEOREM OrderlyCounts == OrderlySpec => []CountsProcesses
<1>1. OrderlyInv => CountsProcesses
  BY DEF OrderlyInv, TableInv
<1> QED
  BY <1>1, InitOrderlyInv, NextOrderlyInv, PTL DEF OrderlySpec

\* In orderly use halt returns on the stack of the parent, into the execute it called.
THEOREM OrderlyReturns == OrderlySpec => []ReturnsToParent
<1>1. OrderlyInv => ReturnsToParent
  BY DEF OrderlyInv, TableInv
<1> QED
  BY <1>1, InitOrderlyInv, NextOrderlyInv, PTL DEF OrderlySpec

\* In orderly use a step frees no slot but that of the process the CPU ran.
THEOREM OrderlyOnlySelfHalts == OrderlySpec => OnlySelfHalts
<1>1. ASSUME OrderlyInv, [OrderlyNext]_vars
      PROVE  [\A p \in Pid : process_status[p] = 1 /\ process_status'[p] = -1 => p = cpu]_vars
  <2> SUFFICES ASSUME OrderlyNext, NEW p \in Pid,
                      process_status[p] = 1, process_status'[p] = -1
               PROVE  p = cpu
    BY <1>1
  <2>t. process_status \in [Pid -> {-1, 1}]
    BY <1>1 DEF OrderlyInv, BaseInv, TypeOK
  <2>1. CASE HaltToParent \/ HaltBaseShell
    <3>1. Booted /\ p = Current
      BY <2>1, <2>t DEF HaltToParent, HaltBaseShell
    <3> QED
      BY <3>1, <1>1, EntryStack
  <2>2. CASE Boot \/ Execute \/ \E k \in Terminal : SwitchDisplay(k) \/ OrderlyLaunch(k)
    BY <2>2, <2>t DEF Boot, Execute, SwitchDisplay, OrderlyLaunch, LaunchShell, tables
  <2> QED
    BY <2>1, <2>2 DEF OrderlyNext, UserStep
<1> QED
  BY <1>1, InitOrderlyInv, NextOrderlyInv, PTL DEF OrderlySpec, OnlySelfHalts
=============================================================================
