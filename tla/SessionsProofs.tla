--------------------------- MODULE SessionsProofs ---------------------------
(***************************************************************************)
(* In orderly use the process table implements module Sessions, for every  *)
(* number of slots and terminals.  The processes of a terminal, read off   *)
(* the parent pointers from its foreground process down, are a stack: each *)
(* step pushes on the stack of the terminal that it shows, pops it,        *)
(* replaces its only element or leaves it, and no other stack changes.     *)
(***************************************************************************)
EXTENDS MCProcesses, ProcessesProofs, SequenceTheorems

Members(s) == {s[k] : k \in 1 .. Len(s)}
OfTerminal(i) == {p \in InUse : home[p] = i}

\* s is the stack of terminal i, its foreground process last.
IsStack(i, s) ==
    /\ s = <<>> <=> shell_flag[i] = -1
    /\ s # <<>> => s[Len(s)] = running_process[i] /\ IsBase(s[1])
    /\ \A k \in 2 .. Len(s) : parent_pid[s[k]] = s[k - 1]
    /\ \A k, m \in 1 .. Len(s) : s[k] = s[m] => k = m
    /\ Members(s) = OfTerminal(i)

\* What OneChainPerTerminal leaves open: every process of the terminal is on the
\* way from its foreground process to its base shell.
Stacked == \A i \in Terminal : SessionOf(i) \in Seq(Pid) /\ IsStack(i, SessionOf(i))

-----------------------------------------------------------------------------
(* Reading the parent pointers.                                            *)

\* Line is the function its definition describes.
LEMMA LineUnfolds ==
  ASSUME TypeOK
  PROVE  Line = [n \in 0 .. PROCESS_COUNT |->
                   [p \in Pid |-> IF n = 0 \/ parent_pid[p] = p
                                    THEN <<p>>
                                    ELSE Append(Line[n - 1][parent_pid[p]], p)]]
<1> DEFINE D == 0 .. PROCESS_COUNT
           R == [Pid -> Seq(Pid)]
           Body(f, n) == [p \in Pid |-> IF n = 0 \/ parent_pid[p] = p
                                          THEN <<p>>
                                          ELSE Append(f[n - 1][parent_pid[p]], p)]
           rank == [n \in D |-> n]
           Step == [f \in [D -> R] |-> [n \in D |-> Body(f, n)]]
<1>p. parent_pid \in [Pid -> Pid]
  BY DEF TypeOK
<1>1. R # {}
  <2>1. [p \in Pid |-> <<>>] \in R
    BY EmptySeq
  <2> QED
    BY <2>1
<1>2. rank \in [D -> Nat]
  BY CountsAssumption
<1>3. ASSUME NEW f \in [D -> R], NEW n \in D
      PROVE  Body(f, n) \in R
  <2> SUFFICES ASSUME NEW p \in Pid
               PROVE  (IF n = 0 \/ parent_pid[p] = p
                         THEN <<p>>
                         ELSE Append(f[n - 1][parent_pid[p]], p)) \in Seq(Pid)
    OBVIOUS
  <2>1. CASE n # 0
    <3>1. n - 1 \in D /\ parent_pid[p] \in Pid
      BY <1>p, <2>1, CountsAssumption
    <3>2. f[n - 1] \in R
      BY <3>1
    <3>3. f[n - 1][parent_pid[p]] \in Seq(Pid)
      BY <3>1, <3>2
    <3>4. Append(f[n - 1][parent_pid[p]], p) \in Seq(Pid)
      BY <3>3
    <3> QED
      BY <3>4
  <2> QED
    BY <2>1
<1>4. Step \in [[D -> R] -> [D -> R]]
  <2> HIDE DEF D, R, Body
  <2> QED
    BY <1>3
<1>5. LooksDown(D, R, rank, Step)
  <2> SUFFICES ASSUME NEW f \in [D -> R], NEW g \in [D -> R], NEW n \in D,
                      \A m \in D : rank[m] < rank[n] => f[m] = g[m]
               PROVE  Step[f][n] = Step[g][n]
    BY DEF LooksDown
  <2>1. n # 0 => f[n - 1] = g[n - 1]
    BY CountsAssumption
  <2>2. Body(f, n) = Body(g, n)
    BY <2>1
  <2> QED
    BY <2>2
<1> DEFINE IsLine(f) == f = [n \in D |-> Body(f, n)]
<1>6. IsDefined(D, R, Step)
  <2> HIDE DEF D, R, rank, Step
  <2> QED
    BY <1>1, <1>2, <1>4, <1>5, RecursionExists
<1>7. \E f : IsLine(f)
  <2> HIDE DEF D, R, rank, Body
  <2> QED
    BY <1>6 DEF IsDefined
<1>8. Line = CHOOSE f : IsLine(f)
  BY DEF Line
<1> HIDE DEF IsLine
<1>9. IsLine(Line)
  BY <1>7, <1>8
<1> QED
  BY <1>9 DEF IsLine

\* One step up the line.
LEMMA LineValue ==
  ASSUME TypeOK, NEW n \in 0 .. PROCESS_COUNT, NEW p \in Pid
  PROVE  Line[n][p] = IF n = 0 \/ parent_pid[p] = p
                        THEN <<p>>
                        ELSE Append(Line[n - 1][parent_pid[p]], p)
<1> DEFINE Up(m) == [q \in Pid |-> IF m = 0 \/ parent_pid[q] = q
                                     THEN <<q>>
                                     ELSE Append(Line[m - 1][parent_pid[q]], q)]
<1>1. Line = [m \in 0 .. PROCESS_COUNT |-> Up(m)]
  BY LineUnfolds
<1> HIDE DEF Up
<1>2. Line[n] = Up(n)
  BY <1>1
<1> QED
  BY <1>2 DEF Up

-----------------------------------------------------------------------------
(* Stacks.                                                                 *)

\* A stack has as many elements as the terminal has processes: no more than the
\* table, and what process_ct says.
LEMMA StackLength ==
  ASSUME NEW i \in Terminal, NEW s \in Seq(Pid), IsStack(i, s)
  PROVE  /\ Len(s) = Cardinality(OfTerminal(i))
         /\ Len(s) <= PROCESS_COUNT
<1>1. Len(s) \in Nat /\ s \in [1 .. Len(s) -> Pid]
  BY LenProperties
<1>2. s \in [1 .. Len(s) -> Members(s)]
  BY <1>1 DEF Members
<1>3. IsFiniteSet(1 .. Len(s)) /\ Cardinality(1 .. Len(s)) = Len(s)
  BY <1>1, FS_Interval
<1>4. s \in Bijection(1 .. Len(s), Members(s))
  BY <1>2 DEF IsStack, Members, Bijection, Injection, Surjection, IsInjective
<1>5. Cardinality(Members(s)) = Len(s)
  BY <1>3, <1>4, FS_Bijection DEF ExistsBijection
<1>6. Members(s) \in SUBSET Pid
  BY DEF IsStack, OfTerminal, InUse
<1>7. IsFiniteSet(Pid) /\ Cardinality(Pid) = PROCESS_COUNT
  BY CountsAssumption, FS_Interval DEF Pid
<1>8. Cardinality(Members(s)) <= PROCESS_COUNT
  BY <1>6, <1>7, FS_Subset
<1> QED
  BY <1>5, <1>8 DEF IsStack

\* The parent pointers from an element of a stack lead down the stack.
LEMMA LineIsPrefix ==
  ASSUME TypeOK, NEW i \in Terminal, NEW s \in Seq(Pid), IsStack(i, s)
  PROVE  \A k \in 1 .. Len(s) : \A n \in 0 .. PROCESS_COUNT :
           n >= k - 1 => Line[n][s[k]] = SubSeq(s, 1, k)
<1> DEFINE Right(k) == k \in 1 .. Len(s) =>
                         \A n \in 0 .. PROCESS_COUNT :
                           n >= k - 1 => Line[n][s[k]] = SubSeq(s, 1, k)
           S == {k \in Nat : Right(k)}
<1>0. Len(s) \in Nat /\ \A k \in 1 .. Len(s) : s[k] \in Pid
  BY LenProperties
<1>1. ASSUME NEW k \in Nat, \A m \in Nat : m < k => m \in S
      PROVE  k \in S
  <2> SUFFICES ASSUME k \in 1 .. Len(s), NEW n \in 0 .. PROCESS_COUNT, n >= k - 1
               PROVE  Line[n][s[k]] = SubSeq(s, 1, k)
    OBVIOUS
  <2>0. s[k] \in Pid /\ s # <<>>
    BY <1>0
  <2>1. CASE k = 1
    <3>1. parent_pid[s[k]] = s[k]
      BY <2>0, <2>1 DEF IsStack, IsBase
    <3>2. Line[n][s[k]] = <<s[k]>>
      BY <2>0, <3>1, LineValue
    <3>3. SubSeq(s, 1, 1) = SubSeq(s, 1, 0) \o <<s[1]>> /\ SubSeq(s, 1, 0) = <<>>
      BY <1>0, <2>1, SubSeqRecursiveSecond, SubSeqEmpty
    <3>4. <<s[1]>> \in Seq(Pid)
      BY <2>0, <2>1
    <3> QED
      BY <2>1, <3>2, <3>3, <3>4, ConcatEmptySeq
  <2>2. CASE k # 1
    <3>1. k - 1 \in 1 .. Len(s) /\ k \in 2 .. Len(s) /\ k - 1 \in Nat /\ k - 1 < k
      BY <1>0, <2>2
    <3>2. parent_pid[s[k]] = s[k - 1] /\ s[k - 1] # s[k] /\ s[k - 1] \in Pid
      BY <1>0, <3>1 DEF IsStack
    <3>3. n # 0 /\ n - 1 \in 0 .. PROCESS_COUNT /\ n - 1 >= (k - 1) - 1
      BY <3>1, CountsAssumption
    <3>4. Line[n][s[k]] = Append(Line[n - 1][s[k - 1]], s[k])
      BY <2>0, <3>2, <3>3, LineValue
    <3>5. Line[n - 1][s[k - 1]] = SubSeq(s, 1, k - 1)
      <4>1. k - 1 \in S
        BY <1>1, <3>1
      <4>2. Right(k - 1)
        BY <4>1
      <4> QED
        BY <3>1, <3>3, <4>2
    <3>6. SubSeq(s, 1, k) = SubSeq(s, 1, k - 1) \o <<s[k]>>
      BY <3>1, SubSeqRecursiveSecond
    <3>7. SubSeq(s, 1, k - 1) \in Seq(Pid)
      BY <1>0, <3>1, SubSeqProperties
    <3>8. Append(SubSeq(s, 1, k - 1), s[k]) = SubSeq(s, 1, k - 1) \o <<s[k]>>
      BY <2>0, <3>7, AppendIsConcat
    <3> QED
      BY <3>4, <3>5, <3>6, <3>8
  <2> QED
    BY <2>1, <2>2
<1>2. S = Nat
  <2>1. S \in SUBSET Nat
    OBVIOUS
  <2> HIDE DEF S
  <2> QED
    BY <1>1, <2>1, AllNaturals
<1> QED
  BY <1>0, <1>2

\* A terminal has at most one stack, the session that the mapping reads.
OneStack == \A i \in Terminal : \A s \in Seq(Pid) : IsStack(i, s) => SessionOf(i) = s

\* The mapping reads the stack.
LEMMA StackIsSession == TypeOK => OneStack
<1> SUFFICES ASSUME TypeOK, NEW i \in Terminal, NEW s \in Seq(Pid), IsStack(i, s)
             PROVE  SessionOf(i) = s
  BY DEF OneStack
<1>1. CASE shell_flag[i] = -1
  BY <1>1 DEF IsStack, SessionOf
<1>2. CASE shell_flag[i] # -1
  <2>1. s # <<>> /\ s[Len(s)] = running_process[i]
    BY <1>2 DEF IsStack
  <2>2. Len(s) \in 1 .. Len(s) /\ Len(s) \in Nat
    BY <2>1, EmptySeq, LenProperties
  <2>3. PROCESS_COUNT \in 0 .. PROCESS_COUNT /\ PROCESS_COUNT >= Len(s) - 1
    BY <2>2, StackLength, CountsAssumption
  <2>4. Line[PROCESS_COUNT][s[Len(s)]] = SubSeq(s, 1, Len(s))
    BY <2>2, <2>3, LineIsPrefix
  <2> QED
    BY <1>2, <2>1, <2>4, SubSeqFull DEF SessionOf
<1> QED
  BY <1>1, <1>2

\* The same after a step.
LEMMA StackIsSessionNext == TypeOK' => OneStack'
  BY StackIsSession, PTL

(***************************************************************************)
(* What a step does to the stacks.  st is what they were before.           *)
(***************************************************************************)
AreStacks(st) ==
    /\ st \in [Terminal -> Seq(Pid)]
    /\ \A i \in Terminal : st[i] = SessionOf(i) /\ IsStack(i, st[i])

\* The stacks of the terminals but i are those in st.
OtherStacks(st, i) == \A j \in Terminal \ {i} : IsStack(j, st[j])

\* Once the stacks after a step are known, so is the step of the sessions: the
\* terminal on the screen has stack s, and the CPU runs its top.
LEMMA StacksBecome ==
  ASSUME NEW st, AreStacks(st), TypeOK', NEW i \in Terminal, NEW s \in Seq(Pid), s # <<>>,
         IsStack(i, s)', OtherStacks(st, i)',
         t_visible' = i, Booted', CpuRunsForeground'
  PROVE  Stacked' /\ Abstract!Become(i, s)
<1>1. SessionOf(i)' = s /\ \A j \in Terminal \ {i} : SessionOf(j)' = st[j]
  BY StackIsSessionNext DEF AreStacks, OneStack, OtherStacks
<1>2. Stacked'
  BY <1>1 DEF Stacked, AreStacks, OtherStacks
<1>3. [j \in Terminal |-> SessionOf(j)]' = [[j \in Terminal |-> SessionOf(j)] EXCEPT ![i] = s]
  BY <1>1 DEF AreStacks
<1>4. cpu' = s[Len(s)]
  BY DEF IsStack, CpuRunsForeground, Current
<1> QED
  BY <1>2, <1>3, <1>4 DEF Abstract!Become, Abstract!Top

\* A step leaves the stack of a terminal whose processes it leaves.
LEMMA StackKept ==
  ASSUME NEW j \in Terminal, NEW s \in Seq(Pid), IsStack(j, s),
         shell_flag'[j] = shell_flag[j], running_process'[j] = running_process[j],
         OfTerminal(j)' = OfTerminal(j),
         \A p \in OfTerminal(j) : parent_pid'[p] = parent_pid[p]
  PROVE  IsStack(j, s)'
<1>1. \A k \in 1 .. Len(s) : parent_pid'[s[k]] = parent_pid[s[k]]
  BY DEF IsStack, Members
<1>2. Len(s) \in Nat /\ (s # <<>> => 1 \in 1 .. Len(s))
  BY EmptySeq, LenProperties
<1>3. s # <<>> => IsBase(s[1])'
  BY <1>1, <1>2 DEF IsStack, IsBase
<1>4. \A k \in 2 .. Len(s) : parent_pid'[s[k]] = s[k - 1]
  BY <1>1, <1>2 DEF IsStack
<1> QED
  BY <1>3, <1>4 DEF IsStack

\* The start of a process in terminal i leaves the stacks of the others.
LEMMA OthersKept ==
  ASSUME TypeOK, NEW st, AreStacks(st), NEW p \in Pid, NEW i \in Terminal, NEW s0, NEW parent,
         StartProcess(p, i, s0, parent),
         NEW gone, InUse' = (InUse \ gone) \union {p},
         p \notin InUse \ gone, gone \subseteq OfTerminal(i)
  PROVE  OtherStacks(st, i)'
<1> SUFFICES ASSUME NEW j \in Terminal \ {i} PROVE IsStack(j, st[j])'
  BY DEF OtherStacks
<1>1. shell_flag'[j] = shell_flag[j] /\ running_process'[j] = running_process[j]
  BY DEF StartProcess, TypeOK
<1>2. home'[p] = i /\ \A q \in Pid \ {p} : home'[q] = home[q] /\ parent_pid'[q] = parent_pid[q]
  BY DEF StartProcess, TypeOK
<1>3. InUse \subseteq Pid /\ InUse' \subseteq Pid
  BY DEF InUse
<1>4. OfTerminal(j)' = OfTerminal(j) /\ p \notin OfTerminal(j)
  BY <1>2, <1>3 DEF OfTerminal
<1>5. \A q \in OfTerminal(j) : parent_pid'[q] = parent_pid[q]
  BY <1>2, <1>3, <1>4 DEF OfTerminal
<1>6. st[j] \in Seq(Pid) /\ IsStack(j, st[j])
  BY DEF AreStacks
<1> QED
  BY <1>1, <1>4, <1>5, <1>6, StackKept

\* The same when no process ends.
LEMMA NoneGoneKept ==
  ASSUME TypeOK, NEW st, AreStacks(st), NEW p \in Pid, NEW i \in Terminal, NEW s0, NEW parent,
         StartProcess(p, i, s0, parent), InUse' = InUse \union {p}, p \notin InUse
  PROVE  OtherStacks(st, i)'
<1>1. PICK gone : gone = {}
  OBVIOUS
<1>2. InUse' = (InUse \ gone) \union {p} /\ p \notin InUse \ gone /\ gone \subseteq OfTerminal(i)
  BY <1>1
<1> QED
  BY <1>2, OthersKept

\* A new process is pushed on the stack of its terminal.
LEMMA StackPushed ==
  ASSUME TypeOK, NEW st, AreStacks(st), NEW p \in Pid, NEW i \in Terminal, NEW s0,
         process_status[p] = -1, process_status' = [process_status EXCEPT ![p] = 1],
         StartProcess(p, i, s0, ParentOf(p, i))
  PROVE  IsStack(i, Append(st[i], p))'
<1> DEFINE s == st[i]
           t == Append(s, p)
<1>1. s \in Seq(Pid) /\ IsStack(i, s)
  BY DEF AreStacks
<1>2. Len(s) \in Nat /\ \A k \in 1 .. Len(s) : s[k] \in Pid
  BY <1>1, LenProperties
<1>3. /\ t \in Seq(Pid) /\ t # <<>> /\ Len(t) = Len(s) + 1
      /\ \A k \in 1 .. Len(s) : t[k] = s[k]
      /\ t[Len(s) + 1] = p
  BY <1>1, AppendProperties
<1>4. InUse' = InUse \union {p} /\ p \notin InUse
  BY DEF InUse, TypeOK
<1>5. /\ parent_pid' = [parent_pid EXCEPT ![p] = ParentOf(p, i)]
      /\ home' = [home EXCEPT ![p] = i]
      /\ running_process'[i] = p /\ shell_flag'[i] = 0
  BY DEF StartProcess, TypeOK
<1>6. OfTerminal(i)' = OfTerminal(i) \union {p} /\ p \notin OfTerminal(i)
  BY <1>4, <1>5 DEF OfTerminal, TypeOK, InUse
<1>7. \A k \in 1 .. Len(s) : s[k] # p /\ parent_pid'[s[k]] = parent_pid[s[k]]
  BY <1>1, <1>2, <1>5, <1>6 DEF IsStack, Members, TypeOK
<1>8. parent_pid'[p] = ParentOf(p, i)
  BY <1>5 DEF TypeOK
<1> HIDE DEF t
<1>9. Members(t) = Members(s) \union {p}
  BY <1>2, <1>3 DEF Members
<1>10. \A k, m \in 1 .. Len(t) : t[k] = t[m] => k = m
  <2>1. \A k, m \in 1 .. Len(s) : t[k] = t[m] => k = m
    BY <1>1, <1>3 DEF IsStack
  <2>2. \A k \in 1 .. Len(s) : t[k] # t[Len(s) + 1]
    BY <1>3, <1>7
  <2>3. \A k \in 1 .. Len(t) : k \in 1 .. Len(s) \/ k = Len(s) + 1
    BY <1>2, <1>3
  <2> QED
    BY <2>1, <2>2, <2>3
<1>11. \A k \in 2 .. Len(t) : parent_pid'[t[k]] = t[k - 1]
  <2> SUFFICES ASSUME NEW k \in 2 .. Len(t) PROVE parent_pid'[t[k]] = t[k - 1]
    OBVIOUS
  <2>1. CASE k = Len(s) + 1
    <3>1. s # <<>>
      BY <1>2, <2>1, EmptySeq
    <3>2. ParentOf(p, i) = s[Len(s)]
      BY <1>1, <3>1 DEF IsStack, ParentOf
    <3>3. k - 1 = Len(s) /\ k - 1 \in 1 .. Len(s)
      BY <1>2, <2>1
    <3> QED
      BY <1>3, <1>8, <2>1, <3>2, <3>3
  <2>2. CASE k # Len(s) + 1
    <3>1. k \in 2 .. Len(s) /\ k \in 1 .. Len(s) /\ k - 1 \in 1 .. Len(s)
      BY <1>2, <1>3, <2>2
    <3> QED
      BY <1>1, <1>3, <1>7, <3>1 DEF IsStack
  <2> QED
    BY <2>1, <2>2
<1>12. IsBase(t[1])'
  <2>1. CASE s = <<>>
    BY <1>1, <1>3, <1>8, <2>1 DEF IsStack, IsBase, ParentOf
  <2>2. CASE s # <<>>
    <3>1. 1 \in 1 .. Len(s)
      BY <1>1, <2>2, EmptySeq
    <3> QED
      BY <1>1, <1>3, <1>7, <2>2, <3>1 DEF IsStack, IsBase
  <2> QED
    BY <2>1, <2>2
<1>13. Members(t) = OfTerminal(i)'
  BY <1>1, <1>6, <1>9 DEF IsStack
<1> QED
  BY <1>3, <1>5, <1>10, <1>11, <1>12, <1>13 DEF IsStack, t

\* halt of a child pops the stack of the visible terminal.
LEMMA StackPopped ==
  ASSUME OrderlyInv, NEW st, AreStacks(st), HaltToParent, NEW v \in Terminal, v = t_visible
  PROVE  Len(st[v]) > 1 /\ IsStack(v, SubSeq(st[v], 1, Len(st[v]) - 1))'
<1>0. TypeOK /\ Booted
  BY DEF OrderlyInv, BaseInv, HaltToParent
<1>a. PICK s \in Seq(Pid) : s = st[v] /\ IsStack(v, s)
  BY DEF AreStacks
<1>b. PICK q \in Pid : q = Current
  BY <1>0, EntryStack DEF InUse
<1>l. Len(s) \in Nat
  BY LenProperties
<1>2. \A k \in 1 .. Len(s) : s[k] \in Pid
  BY LenProperties
<1>3. shell_flag[v] = 0 /\ q = running_process[v] /\ parent_pid[q] # q
  BY <1>0, <1>b, EntryStack DEF Current, HaltToParent
<1>4. s # <<>> /\ s[Len(s)] = q
  BY <1>a, <1>3 DEF IsStack
<1>5. Len(s) > 1
  <2>1. Len(s) # 1
    BY <1>a, <1>3, <1>4 DEF IsStack, IsBase
  <2>2. Len(s) # 0
    BY <1>4, EmptySeq
  <2> QED
    <3>1. \A n \in Nat : n # 0 /\ n # 1 => n > 1
      OBVIOUS
    <3> QED
      BY <1>l, <2>1, <2>2, <3>1, Zenon
<1>6. PICK t \in Seq(Pid) : t = SubSeq(s, 1, Len(s) - 1)
  <2>1. 1 \in Int /\ Len(s) - 1 \in Int /\ \A k \in 1 .. Len(s) - 1 : s[k] \in Pid
    BY <1>l, <1>2
  <2>2. SubSeq(s, 1, Len(s) - 1) \in Seq(Pid)
    BY <2>1, SubSeqProperties
  <2> QED
    BY <2>2, Zenon
<1>7. /\ Len(t) = Len(s) - 1
      /\ \A k \in 1 .. Len(s) - 1 : t[k] = s[k]
  BY <1>l, <1>2, <1>5, <1>6, SubSeqProperties
<1>8. /\ InUse' = InUse \ {q} /\ UNCHANGED <<shell_flag, parent_pid, home>>
      /\ running_process'[v] = parent_pid[q]
  BY <1>0, <1>b DEF HaltToParent, InUse, TypeOK
<1>9. t # <<>> /\ Len(t) \in Nat /\ 1 \in 1 .. Len(s) - 1
  BY <1>l, <1>5, <1>7, EmptySeq
<1>10. t[Len(t)] = running_process'[v]
  <2>1. Len(t) \in 1 .. Len(s) - 1 /\ Len(s) \in 2 .. Len(s)
    BY <1>l, <1>5, <1>7
  <2>2. t[Len(t)] = s[Len(s) - 1]
    BY <1>7, <2>1
  <2> QED
    BY <1>a, <1>4, <1>8, <2>1, <2>2 DEF IsStack
<1>11. parent_pid'[t[1]] = t[1]
  BY <1>a, <1>4, <1>7, <1>8, <1>9 DEF IsStack, IsBase
<1>12. \A k \in 2 .. Len(t) : parent_pid'[t[k]] = t[k - 1]
  <2> SUFFICES ASSUME NEW k \in 2 .. Len(t) PROVE parent_pid'[t[k]] = t[k - 1]
    OBVIOUS
  <2>1. k \in 2 .. Len(s) /\ k \in 1 .. Len(s) - 1 /\ k - 1 \in 1 .. Len(s) - 1
    BY <1>l, <1>7
  <2>2. t[k] = s[k] /\ t[k - 1] = s[k - 1]
    BY <1>7, <2>1
  <2> QED
    BY <1>a, <1>8, <2>1, <2>2 DEF IsStack
<1>13. \A k, m \in 1 .. Len(t) : t[k] = t[m] => k = m
  BY <1>a, <1>l, <1>7 DEF IsStack
<1>14. Members(t) = OfTerminal(v)'
  <2>1. \A k \in 1 .. Len(s) : s[k] # q <=> k \in 1 .. Len(s) - 1
    BY <1>a, <1>l, <1>4, <1>5 DEF IsStack
  <2>2. Members(t) = {s[k] : k \in 1 .. Len(s) - 1}
    BY <1>7 DEF Members
  <2>3. Members(t) = Members(s) \ {q}
    <3>1. 1 .. Len(s) - 1 \subseteq 1 .. Len(s)
      BY <1>l
    <3> QED
      BY <2>1, <2>2, <3>1 DEF Members
  <2>4. OfTerminal(v)' = OfTerminal(v) \ {q}
    BY <1>8 DEF OfTerminal
  <2> QED
    BY <1>a, <2>3, <2>4 DEF IsStack
<1>15. IsStack(v, t)'
  BY <1>3, <1>8, <1>9, <1>10, <1>11, <1>12, <1>13, <1>14 DEF IsStack, IsBase
<1> QED
  BY <1>a, <1>5, <1>6, <1>15

\* halt of a base shell replaces the only element of the stack.
LEMMA StackReplaced ==
  ASSUME OrderlyInv, NEW st, AreStacks(st), NEW v \in Terminal, v = t_visible, Booted, IsBase(Current),
         NEW p \in Pid, FirstFree([process_status EXCEPT ![Current] = -1], p),
         process_status' = [[process_status EXCEPT ![Current] = -1] EXCEPT ![p] = 1],
         StartProcess(p, v, tss_esp0, p)
  PROVE  /\ st[v] = <<Current>>
         /\ IsStack(v, <<p>>)'
         /\ OtherStacks(st, v)'
<1>0. TypeOK
  BY DEF OrderlyInv, BaseInv
<1>a. PICK s \in Seq(Pid) : s = st[v] /\ IsStack(v, s)
  BY DEF AreStacks
<1>b. PICK q \in Pid : q = Current
  BY EntryStack DEF InUse
<1>l. Len(s) \in Nat /\ \A k \in 1 .. Len(s) : s[k] \in Pid
  BY LenProperties
<1>1. shell_flag[v] = 0 /\ q = running_process[v] /\ parent_pid[q] = q /\ home[q] = v /\ q \in InUse
  BY <1>b, EntryStack DEF Current, IsBase
<1>2. s # <<>> /\ s[Len(s)] = q
  BY <1>a, <1>1 DEF IsStack
<1>3. Len(s) = 1
  <2>1. Len(s) # 0
    BY <1>2, EmptySeq
  <2>2. ~(Len(s) > 1)
    <3> SUFFICES ASSUME Len(s) > 1 PROVE FALSE
      OBVIOUS
    <3>1. Len(s) \in 2 .. Len(s) /\ Len(s) - 1 \in 1 .. Len(s) /\ Len(s) \in 1 .. Len(s)
      BY <1>l
    <3>2. s[Len(s) - 1] = s[Len(s)]
      BY <1>a, <1>1, <1>2, <3>1 DEF IsStack
    <3>3. Len(s) - 1 = Len(s)
      BY <1>a, <3>1, <3>2 DEF IsStack
    <3> QED
      BY <1>l, <3>3
  <2>3. \A n \in Nat : n # 0 /\ ~(n > 1) => n = 1
    OBVIOUS
  <2> QED
    BY <1>l, <2>1, <2>2, <2>3, Zenon
<1>4. s = <<q>>
  <2>1. <<q>> \in Seq(Pid) /\ Len(<<q>>) = 1 /\ <<q>>[1] = q
    OBVIOUS
  <2> QED
    BY <1>2, <1>3, <2>1, SeqEqual
<1>5. OfTerminal(v) = {q}
  <2>1. Members(s) = {q}
    BY <1>2, <1>3 DEF Members
  <2> QED
    BY <1>a, <2>1 DEF IsStack
<1>6. InUse' = (InUse \ {q}) \union {p} /\ p \notin InUse \ {q}
  BY <1>0, <1>b DEF InUse, TypeOK, FirstFree
<1>7. /\ parent_pid'[p] = p /\ home'[p] = v
      /\ \A r \in Pid \ {p} : home'[r] = home[r]
      /\ running_process'[v] = p /\ shell_flag'[v] = 0
  BY <1>0 DEF StartProcess, TypeOK
<1>8. OfTerminal(v)' = {p}
  BY <1>5, <1>6, <1>7 DEF OfTerminal, InUse
<1>9. IsStack(v, <<p>>)'
  <2>1. Len(<<p>>) = 1 /\ <<p>>[1] = p /\ <<p>> # <<>> /\ Members(<<p>>) = {p}
    BY DEF Members
  <2>2. 1 .. 1 = {1} /\ 2 .. 1 = {}
    OBVIOUS
  <2> QED
    BY <1>7, <1>8, <2>1, <2>2 DEF IsStack, IsBase
<1>10. OtherStacks(st, v)'
  <2>1. {q} \subseteq OfTerminal(v)
    BY <1>5
  <2> QED
    BY <1>0, <1>6, <2>1, OthersKept
<1> QED
  BY <1>a, <1>b, <1>4, <1>9, <1>10

-----------------------------------------------------------------------------
(* Steps.                                                                  *)

\* The processes of the sessions are the slots in use.
LEMMA LiveInUse ==
  ASSUME TypeOK, NEW st, AreStacks(st)
  PROVE  Abstract!Live = InUse
<1>1. Abstract!Live = UNION {Members(st[i]) : i \in Terminal}
  BY DEF Abstract!Live, AreStacks, Members
<1>2. \A i \in Terminal : Members(st[i]) = OfTerminal(i)
  BY DEF AreStacks, IsStack
<1>3. \A p \in InUse : home[p] \in Terminal
  BY DEF TypeOK, InUse
<1> QED
  BY <1>1, <1>2, <1>3 DEF OfTerminal

\* What Stacked says of a state, with names for the stacks.
LEMMA NameStacks ==
  ASSUME Stacked
  PROVE  \E st : AreStacks(st)
<1>1. AreStacks([i \in Terminal |-> SessionOf(i)])
  BY DEF Stacked, AreStacks
<1> QED
  BY <1>1

\* A launch opens the session of a terminal that has none; so does boot, in terminal 0.
LEMMA OpenStep ==
  ASSUME OrderlyInv, OrderlyInv', Stacked, NEW p \in Pid, NEW i \in Terminal, NEW s0,
         process_status[p] = -1, process_status' = [process_status EXCEPT ![p] = 1],
         StartProcess(p, i, s0, p), shell_flag[i] = -1, Booted \/ i = 0
  PROVE  Stacked' /\ Abstract!Open(i)
<1>1. PICK st : AreStacks(st)
  BY NameStacks
<1>0. TypeOK /\ TypeOK' /\ CpuRunsForeground'
  BY DEF OrderlyInv, BaseInv, CpuInv
<1>2. st[i] = <<>> /\ SessionOf(i) = <<>> /\ ParentOf(p, i) = p
  BY <1>1 DEF AreStacks, IsStack, ParentOf
<1>3. InUse' = InUse \union {p} /\ p \notin InUse
  BY <1>0 DEF InUse, TypeOK
<1>4. OtherStacks(st, i)'
  BY <1>0, <1>1, <1>3, NoneGoneKept
<1>5. IsStack(i, <<p>>)'
  <2>1. IsStack(i, Append(st[i], p))'
    BY <1>0, <1>1, <1>2, StackPushed
  <2>2. Append(st[i], p) = <<p>>
    BY <1>2
  <2> QED
    BY <2>1, <2>2
<1>6. t_visible' = i /\ Booted' /\ <<p>> \in Seq(Pid) /\ <<p>> # <<>>
  BY NoneIsNoPid DEF StartProcess, Booted
<1>7. Stacked' /\ Abstract!Become(i, <<p>>)
  BY <1>0, <1>1, <1>4, <1>5, <1>6, StacksBecome
<1>8. p \in Pid \ Abstract!Live
  BY <1>0, <1>1, <1>3, LiveInUse
<1>9. Booted => cpu # None
  BY EntryStack, NoneIsNoPid DEF InUse
<1> QED
  BY <1>2, <1>7, <1>8, <1>9 DEF Abstract!Open

\* execute pushes on the visible session.  HasRoom compares process_ct, which is
\* the length of the stack.
LEMMA RunStep ==
  ASSUME OrderlyInv, OrderlyInv', Stacked, Execute
  PROVE  Stacked' /\ Abstract!Run
<1>0. /\ TypeOK /\ TypeOK' /\ CpuRunsForeground' /\ Booted /\ t_visible \in Terminal
      /\ CountsProcesses
  BY DEF OrderlyInv, BaseInv, CpuInv, TableInv, TypeOK, Execute
<1>1. PICK st : AreStacks(st)
  BY NameStacks
<1>2. PICK v \in Terminal : v = t_visible
  BY <1>0
<1>3. PICK p \in Pid :
        /\ FirstFree(process_status, p)
        /\ StartProcess(p, v, tss_esp0, ParentOf(p, v))
        /\ process_status' = [process_status EXCEPT ![p] = 1]
  BY <1>2 DEF Execute
<1>4. process_status[p] = -1 /\ shell_flag[v] = 0
  BY <1>0, <1>2, <1>3, EntryStack DEF FirstFree
<1>s. st[v] \in Seq(Pid) /\ st[v] = SessionOf(v) /\ IsStack(v, st[v])
  BY <1>1 DEF AreStacks
<1>5. PICK s \in Seq(Pid) : s = st[v] /\ IsStack(v, s) /\ s = SessionOf(v) /\ s # <<>>
  <2>1. st[v] # <<>>
    BY <1>s, <1>4 DEF IsStack
  <2> QED
    BY <1>s, <2>1, Zenon
<1>6. Append(s, p) \in Seq(Pid) /\ Append(s, p) # <<>>
  BY AppendProperties
<1>7. InUse' = InUse \union {p} /\ p \notin InUse
  <2>1. process_status \in [Pid -> {-1, 1}]
    BY <1>0 DEF TypeOK
  <2>2. process_status' = [process_status EXCEPT ![p] = 1] /\ process_status[p] = -1
    BY <1>3, <1>4
  <2> QED
    BY <2>1, <2>2 DEF InUse
<1>8. OtherStacks(st, v)'
  BY <1>0, <1>1, <1>3, <1>7, NoneGoneKept
<1>9. IsStack(v, Append(s, p))'
  BY <1>0, <1>1, <1>3, <1>4, <1>5, StackPushed
<1>10. t_visible' = v /\ Booted'
  BY <1>3, NoneIsNoPid DEF StartProcess, Booted
<1>11. Stacked' /\ Abstract!Become(v, Append(s, p))
  BY <1>0, <1>1, <1>6, <1>8, <1>9, <1>10, StacksBecome
<1>12. p \in Pid \ Abstract!Live
  BY <1>0, <1>1, <1>7, LiveInUse
<1>13. Len(s) \in 1 .. (MAX_PROC_PER_TERM + 1) - 1
  <2>1. Len(s) = process_ct[v]
    BY <1>0, <1>5, StackLength DEF CountsProcesses, OfTerminal
  <2>2. process_ct[v] <= MAX_PROC_PER_TERM
    BY <1>2 DEF Execute, HasRoom
  <2>3. Len(s) \in Nat /\ Len(s) # 0
    BY <1>5, EmptySeq, LenProperties
  <2> QED
    BY <2>1, <2>2, <2>3, CountsAssumption
<1>14. Abstract!Run
  BY <1>2, <1>5, <1>11, <1>12, <1>13 DEF Abstract!Run
<1> QED
  BY <1>11, <1>14

\* halt of a child pops the visible session.
LEMMA ExitStep ==
  ASSUME OrderlyInv, OrderlyInv', Stacked, HaltToParent
  PROVE  Stacked' /\ Abstract!Exit
<1>0. TypeOK /\ TypeOK' /\ CpuRunsForeground' /\ Booted /\ t_visible \in Terminal
  BY DEF OrderlyInv, BaseInv, CpuInv, TypeOK, HaltToParent
<1>1. PICK st : AreStacks(st)
  BY NameStacks
<1>2. PICK v \in Terminal : v = t_visible
  BY <1>0
<1>3. PICK s \in Seq(Pid) : s = st[v] /\ IsStack(v, s) /\ s = SessionOf(v)
  BY <1>1 DEF AreStacks
<1>4. Len(s) > 1 /\ IsStack(v, SubSeq(s, 1, Len(s) - 1))'
  BY <1>1, <1>2, <1>3, StackPopped
<1>5. SubSeq(s, 1, Len(s) - 1) \in Seq(Pid) /\ SubSeq(s, 1, Len(s) - 1) # <<>>
  <2>1. Len(s) \in Nat /\ \A k \in 1 .. Len(s) : s[k] \in Pid
    BY LenProperties
  <2>2. 1 \in Int /\ Len(s) - 1 \in Int /\ \A k \in 1 .. Len(s) - 1 : s[k] \in Pid
    BY <2>1
  <2>3. /\ SubSeq(s, 1, Len(s) - 1) \in Seq(Pid)
        /\ Len(SubSeq(s, 1, Len(s) - 1)) = IF 1 <= Len(s) - 1 THEN Len(s) - 1 - 1 + 1 ELSE 0
    BY <2>2, SubSeqProperties
  <2>4. Len(SubSeq(s, 1, Len(s) - 1)) # 0
    BY <1>4, <2>1, <2>3
  <2> QED
    BY <2>3, <2>4, EmptySeq
<1>6. PICK q \in Pid : q = Current
  BY <1>0, EntryStack DEF InUse
<1>7. /\ InUse' = InUse \ {q}
      /\ UNCHANGED <<t_visible, shell_flag, parent_pid, home>>
      /\ \A j \in Terminal \ {v} : running_process'[j] = running_process[j]
      /\ home[q] = v
  BY <1>0, <1>2, <1>6, EntryStack DEF HaltToParent, InUse, TypeOK
<1>8. OtherStacks(st, v)'
  <2> SUFFICES ASSUME NEW j \in Terminal \ {v} PROVE IsStack(j, st[j])'
    BY DEF OtherStacks
  <2>1. OfTerminal(j)' = OfTerminal(j)
    BY <1>7 DEF OfTerminal
  <2>2. st[j] \in Seq(Pid) /\ IsStack(j, st[j])
    BY <1>1 DEF AreStacks
  <2> QED
    BY <1>7, <2>1, <2>2, StackKept
<1>9. t_visible' = v /\ Booted'
  BY <1>0, <1>2, <1>7, <1>6, NoneIsNoPid DEF HaltToParent, Booted, TypeOK
<1>10. Stacked' /\ Abstract!Become(v, SubSeq(s, 1, Len(s) - 1))
  BY <1>0, <1>1, <1>4, <1>5, <1>8, <1>9, StacksBecome
<1> QED
  BY <1>2, <1>3, <1>4, <1>10 DEF Abstract!Exit

\* halt of a base shell starts the session again.
LEMMA RestartStep ==
  ASSUME OrderlyInv, OrderlyInv', Stacked, HaltBaseShell
  PROVE  Stacked' /\ Abstract!Restart
<1>0. TypeOK /\ TypeOK' /\ CpuRunsForeground' /\ Booted /\ t_visible \in Terminal
  BY DEF OrderlyInv, BaseInv, CpuInv, TypeOK, HaltBaseShell
<1>1. PICK st : AreStacks(st)
  BY NameStacks
<1>2. PICK v \in Terminal : v = t_visible
  BY <1>0
<1>3. PICK p \in Pid :
        /\ FirstFree([process_status EXCEPT ![Current] = -1], p)
        /\ StartProcess(p, v, tss_esp0, p)
        /\ process_status' = [[process_status EXCEPT ![Current] = -1] EXCEPT ![p] = 1]
  BY <1>2 DEF HaltBaseShell
<1>4. IsBase(Current)
  BY DEF HaltBaseShell, IsBase
<1>5. st[v] = <<Current>> /\ IsStack(v, <<p>>)' /\ OtherStacks(st, v)'
  BY <1>0, <1>1, <1>2, <1>3, <1>4, StackReplaced
<1>6. t_visible' = v /\ Booted' /\ <<p>> \in Seq(Pid) /\ <<p>> # <<>>
  BY <1>3, NoneIsNoPid DEF StartProcess, Booted
<1>7. Stacked' /\ Abstract!Become(v, <<p>>)
  BY <1>0, <1>1, <1>5, <1>6, StacksBecome
<1>8. SessionOf(v) = <<Current>> /\ Len(<<Current>>) = 1
  BY <1>1, <1>5 DEF AreStacks
<1>9. p \in (Pid \ Abstract!Live) \union {Current} /\ cpu = Current
  <2>1. p = Current \/ process_status[p] = -1
    BY <1>0, <1>3 DEF FirstFree, TypeOK
  <2> QED
    BY <1>0, <1>1, <2>1, LiveInUse, EntryStack DEF InUse
<1> QED
  BY <1>0, <1>2, <1>7, <1>8, <1>9 DEF Abstract!Restart

\* switch_display shows another session; every stack stays.
LEMMA ShowStep ==
  ASSUME OrderlyInv, OrderlyInv', Stacked, NEW k \in Terminal, SwitchDisplay(k)
  PROVE  Stacked' /\ Abstract!Show(k)
<1>0. TypeOK /\ TypeOK' /\ CpuRunsForeground' /\ Booted
  BY DEF OrderlyInv, BaseInv, CpuInv, SwitchDisplay
<1>1. PICK st : AreStacks(st)
  BY NameStacks
<1>2. t_visible' = k /\ UNCHANGED tables
  BY DEF SwitchDisplay
<1>3. shell_flag[k] = 0
  BY <1>0 DEF SwitchDisplay, NeedsShell, OrderlyInv, BaseInv, TypeOK
<1>4. \A j \in Terminal : IsStack(j, st[j])'
  <2> SUFFICES ASSUME NEW j \in Terminal PROVE IsStack(j, st[j])'
    OBVIOUS
  <2>1. OfTerminal(j)' = OfTerminal(j)
    BY <1>2 DEF OfTerminal, InUse, tables
  <2>2. st[j] \in Seq(Pid) /\ IsStack(j, st[j])
    BY <1>1 DEF AreStacks
  <2> QED
    BY <1>2, <2>1, <2>2, StackKept DEF tables
<1>5. OtherStacks(st, k)' /\ IsStack(k, st[k])'
  BY <1>4 DEF OtherStacks
<1>6. st[k] \in Seq(Pid) /\ st[k] # <<>> /\ SessionOf(k) = st[k]
  BY <1>1, <1>3 DEF AreStacks, IsStack
<1>7. Booted'
  BY <1>2, <1>3 DEF OrderlyInv, CpuInv, tables
<1>8. Stacked' /\ Abstract!Become(k, st[k])
  BY <1>0, <1>1, <1>2, <1>5, <1>6, <1>7, StacksBecome
<1> QED
  BY <1>6, <1>8 DEF Abstract!Show

-----------------------------------------------------------------------------
(* The refinement.                                                         *)

\* At the start there is no session.
LEMMA InitSessions ==
  ASSUME Init
  PROVE  Stacked /\ Abstract!SessionInit
<1>1. \A i \in Terminal : SessionOf(i) = <<>> /\ OfTerminal(i) = {} /\ shell_flag[i] = -1
  BY DEF Init, SessionOf, OfTerminal, InUse
<1>2. \A i \in Terminal : IsStack(i, <<>>)
  <2>1. Len(<<>>) = 0 /\ 1 .. 0 = {} /\ 2 .. 0 = {} /\ Members(<<>>) = {}
    BY DEF Members
  <2> QED
    BY <1>1, <2>1 DEF IsStack
<1>3. Stacked
  BY <1>1, <1>2, EmptySeq DEF Stacked
<1>4. ~Booted
  BY DEF Init, Booted
<1> QED
  BY <1>1, <1>3, <1>4 DEF Abstract!SessionInit, Init

\* Every step is a step of the sessions, or leaves them.
LEMMA NextSessions ==
  ASSUME OrderlyInv, OrderlyInv', Stacked, [OrderlyNext]_vars
  PROVE  Stacked' /\ [Abstract!SessionNext]_Abstract!sessionVars
<1>1. CASE Boot
  <2>0. t_visible \in Terminal
    BY DEF OrderlyInv, BaseInv, TypeOK
  <2>1. t_visible = 0 /\ \A i \in Terminal : shell_flag[i] = -1
    BY <1>1 DEF Boot, OrderlyInv, BaseInv, CpuInv
  <2>2. PICK p \in Pid :
          /\ FirstFree(process_status, p)
          /\ StartProcess(p, 0, cpu, ParentOf(p, 0))
          /\ process_status' = [process_status EXCEPT ![p] = 1]
    BY <1>1, <2>1 DEF Boot
  <2>3. StartProcess(p, 0, cpu, p) /\ process_status[p] = -1
    BY <2>0, <2>1, <2>2 DEF ParentOf, FirstFree
  <2>4. Stacked' /\ Abstract!Open(0)
    BY <2>0, <2>1, <2>2, <2>3, OpenStep
  <2> QED
    BY <2>0, <2>1, <2>4 DEF Abstract!SessionNext
<1>2. CASE Execute
  BY <1>2, RunStep DEF Abstract!SessionNext
<1>3. CASE HaltToParent
  BY <1>3, ExitStep DEF Abstract!SessionNext
<1>4. CASE HaltBaseShell
  BY <1>4, RestartStep DEF Abstract!SessionNext
<1>5. ASSUME NEW k \in Terminal, SwitchDisplay(k)
      PROVE  Stacked' /\ Abstract!SessionNext
  BY <1>5, ShowStep DEF Abstract!SessionNext
<1>6. ASSUME NEW k \in Terminal, OrderlyLaunch(k)
      PROVE  Stacked' /\ Abstract!SessionNext
  <2>1. PICK p \in Pid, s0 \in InterruptStack :
          /\ FirstFree(process_status, p)
          /\ StartProcess(p, k, s0, p)
          /\ process_status' = [process_status EXCEPT ![p] = 1]
    BY <1>6 DEF OrderlyLaunch, LaunchShell
  <2>2. shell_flag[k] = -1 /\ Booted /\ process_status[p] = -1
    BY <1>6, <2>1 DEF OrderlyLaunch, LaunchShell, NeedsShell, FirstFree
  <2>3. Stacked' /\ Abstract!Open(k)
    BY <2>1, <2>2, OpenStep
  <2> QED
    BY <2>3 DEF Abstract!SessionNext
<1>7. CASE UNCHANGED vars
  <2>1. PICK st : AreStacks(st)
    BY NameStacks
  <2>2. TypeOK'
    BY DEF OrderlyInv, BaseInv
  <2>3. \A j \in Terminal : IsStack(j, st[j])'
    BY <1>7, <2>1 DEF AreStacks, IsStack, IsBase, OfTerminal, InUse, vars, tables
  <2>4. \A j \in Terminal : SessionOf(j)' = st[j]
    BY <2>1, <2>2, <2>3, StackIsSessionNext DEF OneStack, AreStacks
  <2>5. Stacked'
    BY <2>1, <2>3, <2>4 DEF Stacked, AreStacks
  <2>6. UNCHANGED Abstract!sessionVars
    BY <1>7, <2>1, <2>4 DEF Abstract!sessionVars, AreStacks, Booted, vars
  <2> QED
    BY <2>5, <2>6
<1> QED
  BY <1>1, <1>2, <1>3, <1>4, <1>5, <1>6, <1>7 DEF OrderlyNext, UserStep

\* In orderly use the table implements the sessions: each terminal has a stack of
\* processes of its own, what runs is the top of the visible one, and a step pushes,
\* pops or replaces there and touches no other.
THEOREM OrderlyRefinesSessions == OrderlySpec => RefinesSessions
<1>1. Init => OrderlyInv /\ Stacked /\ Abstract!SessionInit
  BY InitOrderlyInv, InitSessions
<1>2. OrderlyInv /\ Stacked /\ [OrderlyNext]_vars =>
        OrderlyInv' /\ Stacked' /\ [Abstract!SessionNext]_Abstract!sessionVars
  BY NextOrderlyInv, NextSessions
<1> QED
  BY <1>1, <1>2, PTL DEF OrderlySpec, RefinesSessions, Abstract!SessionSpec
=============================================================================
