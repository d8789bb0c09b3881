---------------------------- MODULE FilesProofs ----------------------------
(***************************************************************************)
(* Proofs about module Files, for every image, number of descriptors, of   *)
(* slots and of terminals.  Files runs Processes in its orderly use, so    *)
(* the invariant of that one is at hand.                                   *)
(***************************************************************************)
EXTENDS MCFiles, LibraryProofs, ProcessesProofs

\* A table whose positions lie within their files; 0 and 1 are standard input and output.
Standard == {"closed", "std_in", "std_out"}
Sound(table) ==
    /\ table \in [Fd -> Descriptor]
    /\ \A fd \in Fd : table[fd].fops = "fops_file" =>
          /\ table[fd].inode \in Inode
          /\ table[fd].file_pos <= inode_arr[table[fd].inode].length
    /\ \A fd \in Fd : fd < FD_START => table[fd].fops \in Standard

\* The inductive invariant.
FilesInv ==
    /\ OrderlyInv
    /\ FilesTypeOK
    /\ \A p \in Pid : Sound(fd_table[p])
    /\ FreeSlotsClosed
    /\ ListsEachOnce

-----------------------------------------------------------------------------
(* The calls, on one table.                                                *)

LEMMA StandardFds == 0 \in Fd /\ 1 \in Fd /\ Fd \subseteq Nat
  BY FilesAssumption DEF Fd, FD_START

\* open takes a closed descriptor of the program's own and leaves it at position 0.
LEMMA OpenTakesFree ==
  ASSUME NEW table, Sound(table), NEW fname, open(table, fname).ret # -1
  PROVE  \E fd \in Fd, d \in Descriptor :
            /\ open(table, fname).ret = fd
            /\ open(table, fname).table = [table EXCEPT ![fd] = d]
            /\ fd \in Free(table)
            /\ d.file_pos = 0
            /\ d.fops = "fops_file" => d.inode \in Inode
<1> DEFINE entry == read_dentry_by_name(fname)
           fd == CHOOSE f \in Free(table) : \A g \in Free(table) : f <= g
<1>1. /\ entry # NotFound /\ Free(table) # {}
      /\ open(table, fname) = [ret |-> fd, table |-> [table EXCEPT ![fd] = Opened(entry)]]
  BY DEF open
<1>2. PICK k \in 1 .. Len(dir_entries) : entry = dir_entries[k]
  <2> DEFINE Matches == {k \in 1 .. Len(dir_entries) :
                            SamePrefix(fname, dir_entries[k].file_name, Compared(fname))}
  <2>1. Matches # {} /\ entry = dir_entries[CHOOSE k \in Matches : \A j \in Matches : k <= j]
    BY <1>1 DEF read_dentry_by_name
  <2>2. Matches \in SUBSET Nat
    BY ImageAssumption
  <2>3. \E k \in Matches : \A j \in Matches : k <= j
    BY <2>1, <2>2, LeastElement
  <2> QED
    BY <2>1, <2>3
<1>3. fd \in Free(table)
  <2>1. Free(table) \in SUBSET Nat
    BY FilesAssumption DEF Free, FD_START
  <2>2. \E f \in Free(table) : \A g \in Free(table) : f <= g
    BY <1>1, <2>1, LeastElement
  <2> QED
    BY <2>2
<1>4. fd \in Fd
  BY <1>3, FilesAssumption DEF Free, Fd, FD_START
<1>5. /\ Opened(entry) \in Descriptor
      /\ Opened(entry).file_pos = 0
      /\ Opened(entry).fops = "fops_file" => Opened(entry).inode \in Inode
  BY <1>2, ImageAssumption DEF Opened, Desc, Descriptor
<1>6. open(table, fname).ret = fd /\ open(table, fname).table = [table EXCEPT ![fd] = Opened(entry)]
  BY <1>1
<1> HIDE DEF entry, fd, open
<1> QED
  BY <1>3, <1>4, <1>5, <1>6

\* A table stays sound when one descriptor is set to a sound one.
LEMMA SetSound ==
  ASSUME NEW table, Sound(table), NEW fd \in Fd, NEW d \in Descriptor,
         d.fops = "fops_file" =>
            d.inode \in Inode /\ d.file_pos <= inode_arr[d.inode].length,
         fd >= FD_START \/ d.fops \in Standard
  PROVE  Sound([table EXCEPT ![fd] = d])
  BY FilesAssumption DEF Sound, Fd, FD_START

LEMMA OpenSound ==
  ASSUME NEW table, Sound(table), NEW fname, open(table, fname).ret # -1
  PROVE  Sound(open(table, fname).table)
<1>1. PICK fd \in Fd, d \in Descriptor :
        /\ open(table, fname).table = [table EXCEPT ![fd] = d]
        /\ fd \in Free(table)
        /\ d.file_pos = 0
        /\ d.fops = "fops_file" => d.inode \in Inode
  BY OpenTakesFree
<1>2. fd >= FD_START /\ \A i \in Inode : inode_arr[i].length \in Nat
  BY <1>1, FilesAssumption, ImageAssumption DEF Free, FD_START
<1> HIDE DEF open
<1> QED
  BY <1>1, <1>2, SetSound

LEMMA ClosedSound == Closed \in Descriptor /\ Closed.fops = "closed" /\ "closed" \in Standard
  BY DEF Closed, Desc, Descriptor, Standard

LEMMA CloseSound ==
  ASSUME NEW table, Sound(table), NEW fd, close(table, fd).ret # -1
  PROVE  /\ fd \in Fd /\ close(table, fd).table = [table EXCEPT ![fd] = Closed]
         /\ Sound(close(table, fd).table)
<1>1. fd \in Fd /\ close(table, fd).table = [table EXCEPT ![fd] = Closed]
  BY FilesAssumption DEF close, Fd, FD_START
<1> QED
  BY <1>1, ClosedSound, SetSound

\* file_read moves a position to the end of the file at most.
LEMMA ReadSound ==
  ASSUME NEW table, Sound(table), NEW fd \in Fd, table[fd].fops = "fops_file", NEW n \in Nat
  PROVE  Sound([table EXCEPT ![fd] = file_read(table[fd], n)])
<1> DEFINE d == table[fd]
           size == inode_arr[d.inode].length
           r == read_data(d.inode, d.file_pos, n)
<1>1. /\ d \in Descriptor /\ d.inode \in Inode /\ d.file_pos \in Nat
      /\ size \in Nat /\ d.file_pos <= size /\ fd >= FD_START
  BY ImageAssumption, FilesAssumption DEF Sound, Descriptor, Standard, Fd, FD_START
<1>2. d.file_pos + r.ret \in Nat /\ d.file_pos + r.ret <= size
  <2>1. r.ret \in {0, Amount(d.inode, d.file_pos, n)}
    <3>1. AnswersPart(r, d.inode, d.file_pos, Amount(d.inode, d.file_pos, n))
      <4> DEFINE i == d.inode
                 pos == d.file_pos
      <4> HIDE DEF i, pos
      <4>1. i \in Inode /\ pos \in Nat
        BY <1>1 DEF i, pos
      <4>2. AnswersPart(read_data(i, pos, n), i, pos, Amount(i, pos, n))
        BY <4>1, ReadsExactly
      <4> QED
        BY <4>2 DEF i, pos
    <3> QED
      BY <3>1 DEF AnswersPart
  <2> HIDE DEF d, r
  <2> QED
    BY <1>1, <2>1 DEF Amount, Smaller
<1>3. file_read(d, n) = [d EXCEPT !.file_pos = d.file_pos + r.ret]
  BY DEF file_read
<1> HIDE DEF r
<1>4. /\ file_read(d, n) \in Descriptor
      /\ file_read(d, n).inode = d.inode
      /\ file_read(d, n).file_pos = d.file_pos + r.ret
  BY <1>1, <1>2, <1>3 DEF Descriptor
<1> QED
  BY <1>1, <1>2, <1>4, SetSound

\* halt leaves no directory open; its descriptors 0 and 1 are no directories.
LEMMA HaltLeavesNoDirectory ==
  ASSUME NEW table, Sound(table)
  PROVE  \A fd \in Fd : CloseAll(table)[fd].fops # "fops_dir"
  BY ClosedSound, FilesAssumption DEF CloseAll, Sound, Standard, Fd, FD_START

\* What a process starts with, and what it leaves.
LEMMA PcbInitSound ==
  ASSUME NEW table, Sound(table)
  PROVE  /\ Sound(pcb_init(table))
         /\ \A fd \in Fd : fd >= FD_START => pcb_init(table)[fd] = table[fd]
         /\ \A fd \in Fd : pcb_init(table)[fd].fops = "fops_dir" => pcb_init(table)[fd] = table[fd]
<1>1. /\ Desc("std_in", 0) \in Descriptor /\ Desc("std_in", 0).fops = "std_in"
      /\ Desc("std_out", 0) \in Descriptor /\ Desc("std_out", 0).fops = "std_out"
      /\ {"std_in", "std_out"} \subseteq Standard
  BY DEF Desc, Descriptor, Standard
<1>2. Sound([table EXCEPT ![0] = Desc("std_in", 0)])
  BY <1>1, StandardFds, SetSound
<1>3. Sound(pcb_init(table))
  BY <1>1, <1>2, StandardFds, SetSound DEF pcb_init
<1> QED
  BY <1>1, <1>3, StandardFds DEF pcb_init, Sound, FD_START

LEMMA CloseAllSound ==
  ASSUME NEW table, Sound(table)
  PROVE  /\ Sound(CloseAll(table))
         /\ \A fd \in Fd : fd >= FD_START => CloseAll(table)[fd] = Closed
         /\ \A fd \in Fd : CloseAll(table)[fd].fops = "fops_dir" => CloseAll(table)[fd] = table[fd]
<1>1. \A fd \in Fd : CloseAll(table)[fd] = Closed \/ CloseAll(table)[fd] = table[fd]
  BY DEF CloseAll
<1>2. CloseAll(table) \in [Fd -> Descriptor]
  BY <1>1, ClosedSound DEF CloseAll, Sound
<1> QED
  BY <1>1, <1>2, ClosedSound DEF CloseAll, Sound

-----------------------------------------------------------------------------
(* What the steps of Processes do to the slots.                            *)

\* Files takes the steps of Processes in its orderly use, and no other.
LEMMA StepIsOrderly == [FilesNext]_allVars => [OrderlyNext]_vars
  BY DEF FilesNext, FileStep, StartStep, HaltStep, SwitchStep, OrderlyNext, UserStep, allVars

\* A process starts in a slot that was free, and is then the foreground process.
LEMMA StartTakesFree ==
  ASSUME OrderlyInv, Boot \/ Execute \/ \E k \in Terminal : OrderlyLaunch(k)
  PROVE  /\ Current' \in Pid /\ Current' \notin InUse
         /\ InUse' = InUse \union {Current'}
<1>t. TypeOK
  BY DEF OrderlyInv, BaseInv
<1>1. PICK p \in Pid, i \in Terminal :
        /\ FirstFree(process_status, p)
        /\ \E s, parent : StartProcess(p, i, s, parent)
        /\ process_status' = [process_status EXCEPT ![p] = 1]
  <2>1. CASE Boot \/ Execute
    BY <2>1, <1>t DEF Boot, Execute, TypeOK
  <2>2. CASE \E k \in Terminal : OrderlyLaunch(k)
    BY <2>2 DEF OrderlyLaunch, LaunchShell
  <2> QED
    BY <2>1, <2>2
<1>2. Current' = p
  BY <1>1, <1>t DEF StartProcess, Current, TypeOK
<1> QED
  BY <1>1, <1>2, <1>t DEF FirstFree, InUse, TypeOK

LEMMA HaltFrees ==
  ASSUME OrderlyInv, HaltToParent
  PROVE  Current \in InUse /\ cpu = Current /\ InUse' = InUse \ {Current}
<1>1. Booted /\ process_status' = [process_status EXCEPT ![Current] = -1]
  BY DEF HaltToParent
<1>2. Current \in InUse /\ cpu = Current
  BY <1>1, EntryStack
<1>3. process_status \in [Pid -> {-1, 1}]
  BY DEF OrderlyInv, BaseInv, TypeOK
<1> QED
  BY <1>1, <1>2, <1>3 DEF InUse

LEMMA RelaunchTakesFree ==
  ASSUME OrderlyInv, HaltBaseShell
  PROVE  /\ Current \in InUse /\ cpu = Current
         /\ Current' \in Pid /\ (Current' = Current \/ Current' \notin InUse)
         /\ InUse' = (InUse \ {Current}) \union {Current'}
<1>t. TypeOK
  BY DEF OrderlyInv, BaseInv
<1>1. Booted
  BY DEF HaltBaseShell
<1>2. Current \in InUse /\ Current \in Pid /\ cpu = Current
  BY <1>1, EntryStack DEF InUse
<1>3. PICK p \in Pid :
        /\ FirstFree([process_status EXCEPT ![Current] = -1], p)
        /\ StartProcess(p, t_visible, tss_esp0, p)
        /\ process_status' = [[process_status EXCEPT ![Current] = -1] EXCEPT ![p] = 1]
  BY DEF HaltBaseShell
<1>4. Current' = p
  BY <1>3, <1>t DEF StartProcess, Current, TypeOK
<1>5. p = Current \/ p \notin InUse
  BY <1>2, <1>3, <1>t DEF FirstFree, InUse, TypeOK
<1>6. InUse' = (InUse \ {Current}) \union {p}
  BY <1>2, <1>3, <1>t DEF InUse, TypeOK
<1> QED
  BY <1>2, <1>4, <1>5, <1>6

-----------------------------------------------------------------------------
(* The invariant.                                                          *)

LEMMA InitFilesInv == FilesInit => FilesInv
<1> SUFFICES ASSUME FilesInit PROVE FilesInv
  OBVIOUS
<1>1. OrderlyInv
  BY InitOrderlyInv DEF FilesInit
<1>2. FilesTypeOK
  BY ClosedSound, ImageAssumption DEF FilesInit, FilesTypeOK, View, Fresh
<1>3. \A p \in Pid : Sound(fd_table[p])
  BY ClosedSound DEF FilesInit, Sound
<1>4. FreeSlotsClosed /\ ListsEachOnce
  BY ClosedSound DEF FilesInit, FreeSlotsClosed, ListsEachOnce
<1> QED
  BY <1>1, <1>2, <1>3, <1>4 DEF FilesInv

\* A call changes at most the caller's own table.
LEMMA CallSetsOwnTable ==
  ASSUME FilesInv, FileStep
  PROVE  /\ Current \in InUse /\ cpu = Current
         /\ \E table : Sound(table) /\ fd_table' = [fd_table EXCEPT ![Current] = table]
<1>1. Current \in InUse /\ Current \in Pid /\ cpu = Current
  BY EntryStack DEF FilesInv, FileStep, InUse
<1>2. Sound(fd_table[Current]) /\ MyTable = fd_table[Current]
  BY <1>1 DEF FilesInv, MyTable
<1>3. ASSUME NEW fname \in Name, Open(fname)
      PROVE  \E table : Sound(table) /\ fd_table' = [fd_table EXCEPT ![Current] = table]
  BY <1>2, <1>3, OpenSound DEF Open, SetTable
<1>4. ASSUME NEW fd \in Fd, Close(fd)
      PROVE  \E table : Sound(table) /\ fd_table' = [fd_table EXCEPT ![Current] = table]
  BY <1>2, <1>4, CloseSound DEF Close, SetTable
<1>5. ASSUME NEW fd \in Fd, ReadDir(fd)
      PROVE  \E table : Sound(table) /\ fd_table' = [fd_table EXCEPT ![Current] = table]
  <2>1. fd_table' = [fd_table EXCEPT ![Current] = fd_table[Current]]
    BY <1>1, <1>5 DEF ReadDir, FilesInv, FilesTypeOK
  <2> QED
    BY <1>2, <2>1
<1>6. ASSUME NEW fd \in Fd, NEW n \in Chunk, ReadFile(fd, n)
      PROVE  \E table : Sound(table) /\ fd_table' = [fd_table EXCEPT ![Current] = table]
  <2>1. /\ fd_table[Current][fd].fops = "fops_file" /\ n \in Nat
        /\ fd_table' = [fd_table EXCEPT ![Current] =
                          [fd_table[Current] EXCEPT ![fd] = file_read(fd_table[Current][fd], n)]]
    BY <1>2, <1>6, FilesAssumption DEF ReadFile, SetTable
  <2>2. Sound([fd_table[Current] EXCEPT ![fd] = file_read(fd_table[Current][fd], n)])
    BY <1>2, <2>1, ReadSound
  <2> QED
    BY <2>1, <2>2
<1> QED
  BY <1>1, <1>3, <1>4, <1>5, <1>6 DEF FileStep

\* Every table stays sound, and the slots that are free closed.
LEMMA NextTables ==
  ASSUME FilesInv, [FilesNext]_allVars
  PROVE  /\ fd_table' \in [Pid -> [Fd -> Descriptor]]
         /\ \A p \in Pid : Sound(fd_table'[p])
         /\ FreeSlotsClosed'
<1>t. /\ fd_table \in [Pid -> [Fd -> Descriptor]] /\ \A p \in Pid : Sound(fd_table[p])
      /\ OrderlyInv /\ FreeSlotsClosed
  BY DEF FilesInv, FilesTypeOK
<1>1. CASE FileStep
  <2>1. PICK table : Sound(table) /\ fd_table' = [fd_table EXCEPT ![Current] = table]
    BY <1>1, CallSetsOwnTable
  <2>2. Current \in InUse /\ Current \in Pid /\ UNCHANGED vars
    BY <1>1, CallSetsOwnTable DEF FileStep, InUse
  <2>3. \A p \in Pid : Sound(fd_table'[p])
    BY <1>t, <2>1
  <2>4. fd_table' \in [Pid -> [Fd -> Descriptor]]
    BY <1>t, <2>1 DEF Sound
  <2>5. InUse' = InUse
    BY <2>2 DEF vars, tables, InUse
  <2>6. FreeSlotsClosed'
    BY <1>t, <2>1, <2>2, <2>5 DEF FreeSlotsClosed
  <2> QED
    BY <2>3, <2>4, <2>6
<1>2. CASE StartStep
  <2>1. /\ Current' \in Pid /\ Current' \notin InUse /\ InUse' = InUse \union {Current'}
        /\ fd_table' = [fd_table EXCEPT ![Current'] = pcb_init(fd_table[Current'])]
    BY <1>2, <1>t, StartTakesFree DEF StartStep
  <2>2. Sound(pcb_init(fd_table[Current']))
    BY <1>t, <2>1, PcbInitSound
  <2>3. \A p \in Pid : Sound(fd_table'[p])
    BY <1>t, <2>1, <2>2
  <2>4. fd_table' \in [Pid -> [Fd -> Descriptor]]
    BY <1>t, <2>1, <2>2 DEF Sound
  <2>5. FreeSlotsClosed'
    BY <1>t, <2>1 DEF FreeSlotsClosed
  <2> QED
    BY <2>3, <2>4, <2>5
<1>3. CASE HaltStep /\ HaltToParent /\ fd_table' = [fd_table EXCEPT ![Current] = CloseAll(@)]
  <2>1. /\ Current \in Pid /\ InUse' = InUse \ {Current}
        /\ fd_table' = [fd_table EXCEPT ![Current] = CloseAll(fd_table[Current])]
    BY <1>3, <1>t, HaltFrees DEF InUse
  <2>2. /\ Sound(CloseAll(fd_table[Current]))
        /\ \A fd \in Fd : fd >= FD_START => CloseAll(fd_table[Current])[fd] = Closed
    BY <1>t, <2>1, CloseAllSound
  <2>3. \A p \in Pid : Sound(fd_table'[p])
    BY <1>t, <2>1, <2>2
  <2>4. fd_table' \in [Pid -> [Fd -> Descriptor]]
    BY <1>t, <2>1, <2>2 DEF Sound
  <2>5. FreeSlotsClosed'
    BY <1>t, <2>1, <2>2 DEF FreeSlotsClosed
  <2> QED
    BY <2>3, <2>4, <2>5
<1>4. CASE /\ HaltBaseShell
           /\ fd_table' = [[fd_table EXCEPT ![Current] = CloseAll(@)] EXCEPT ![Current'] = pcb_init(@)]
  <2> DEFINE closed == [fd_table EXCEPT ![Current] = CloseAll(fd_table[Current])]
  <2>1. /\ Current \in Pid /\ Current' \in Pid
        /\ Current' = Current \/ Current' \notin InUse
        /\ InUse' = (InUse \ {Current}) \union {Current'}
    BY <1>4, <1>t, RelaunchTakesFree DEF InUse
  <2>2. fd_table' = [closed EXCEPT ![Current'] = pcb_init(closed[Current'])]
    BY <1>4
  <2>3. /\ Sound(CloseAll(fd_table[Current]))
        /\ \A fd \in Fd : fd >= FD_START => CloseAll(fd_table[Current])[fd] = Closed
    BY <1>t, <2>1, CloseAllSound
  <2>4. \A p \in Pid : Sound(closed[p])
    BY <1>t, <2>1, <2>3
  <2>5. DOMAIN closed = Pid /\ closed = [p \in Pid |-> closed[p]]
    BY <1>t
  <2>6. /\ closed[Current] = CloseAll(fd_table[Current])
        /\ \A p \in Pid \ {Current} : closed[p] = fd_table[p]
    BY <1>t, <2>1
  <2> HIDE DEF closed
  <2>7. Sound(pcb_init(closed[Current']))
    BY <2>1, <2>4, PcbInitSound
  <2>8. \A p \in Pid : Sound(fd_table'[p])
    BY <2>1, <2>2, <2>4, <2>5, <2>7
  <2>9. fd_table' \in [Pid -> [Fd -> Descriptor]]
    BY <2>1, <2>2, <2>4, <2>5, <2>7 DEF Sound
  <2>10. \A p \in Pid \ InUse' : fd_table'[p] = closed[p]
    BY <2>1, <2>2, <2>5
  <2>11. FreeSlotsClosed'
    BY <1>t, <2>1, <2>3, <2>6, <2>10 DEF FreeSlotsClosed
  <2> QED
    BY <2>8, <2>9, <2>11
<1>5. CASE SwitchStep \/ UNCHANGED allVars
  <2>1. fd_table' = fd_table /\ InUse' = InUse
    BY <1>5 DEF SwitchStep, SwitchDisplay, fileVars, allVars, vars, tables, InUse
  <2> QED
    BY <1>t, <2>1 DEF FreeSlotsClosed
<1> QED
  BY <1>1, <1>2, <1>3, <1>4, <1>5 DEF FilesNext, HaltStep

-----------------------------------------------------------------------------
(* The listings.                                                           *)

\* Views have their type after a call that disturbs other listings, and after one that
\* only sets its own.
LEMMA ViewsTyped ==
  ASSUME FilesTypeOK, NEW fd \in Fd, NEW v \in View, Current \in Pid,
         DisturbOthers(fd, v) \/ SeeOnly(fd, v)
  PROVE  view' \in [Pid -> [Fd -> View]]
<1>1. \A p \in Pid, f \in Fd : view[p][f] \in View
  BY DEF FilesTypeOK
<1>2. \A w \in View : [w EXCEPT !.quiet = FALSE] \in View
  BY DEF View
<1>3. CASE DisturbOthers(fd, v)
  BY <1>1, <1>2, <1>3 DEF DisturbOthers
<1>4. CASE SeeOnly(fd, v)
  BY <1>4 DEF SeeOnly, FilesTypeOK
<1> QED
  BY <1>3, <1>4

\* dir_open and dir_read keep ListsEachOnce when what they leave agrees with dir_offset:
\* the other listings count as disturbed.
LEMMA DisturbKeepsListings ==
  ASSUME FilesTypeOK, NEW fd \in Fd, NEW v \in View, Current \in Pid,
         DisturbOthers(fd, v), v.quiet => v.given = dir_offset',
         \A p \in Pid, f \in Fd : p # Current \/ f # fd => fd_table'[p][f] = fd_table[p][f]
  PROVE  ListsEachOnce'
<1> SUFFICES ASSUME NEW p \in Pid, NEW f \in Fd,
                    fd_table'[p][f].fops = "fops_dir", view'[p][f].quiet
             PROVE  view'[p][f].given = dir_offset'
  BY DEF ListsEachOnce
<1>1. CASE p = Current /\ f = fd
  BY <1>1 DEF DisturbOthers
<1>2. CASE ~(p = Current /\ f = fd)
  <2>1. fd_table[p][f].fops = "fops_dir"
    BY <1>2
  <2>2. view'[p][f] = [view[p][f] EXCEPT !.quiet = FALSE] /\ view[p][f] \in View
    BY <1>2, <2>1 DEF DisturbOthers, FilesTypeOK
  <2> QED
    BY <2>2 DEF View
<1> QED
  BY <1>1, <1>2

\* So do the calls that touch no directory.
LEMMA OthersKeepListings ==
  ASSUME FilesTypeOK, ListsEachOnce, NEW q \in Pid, NEW fd \in Fd, NEW v, dir_offset' = dir_offset,
         view' = [view EXCEPT ![q][fd] = v], fd_table'[q][fd].fops # "fops_dir",
         \A p \in Pid, f \in Fd : p # q \/ f # fd => fd_table'[p][f] = fd_table[p][f]
  PROVE  ListsEachOnce'
<1> SUFFICES ASSUME NEW p \in Pid, NEW f \in Fd,
                    fd_table'[p][f].fops = "fops_dir", view'[p][f].quiet
             PROVE  view'[p][f].given = dir_offset'
  BY DEF ListsEachOnce
<1>1. p # q \/ f # fd
  OBVIOUS
<1>2. view'[p][f] = view[p][f]
  BY <1>1 DEF FilesTypeOK
<1> QED
  BY <1>1, <1>2 DEF ListsEachOnce

LEMMA CallKeepsListings ==
  ASSUME FilesInv, FileStep
  PROVE  view' \in [Pid -> [Fd -> View]] /\ dir_offset' \in 0 .. num_of_dirE /\ ListsEachOnce'
<1>i. num_of_dirE \in Nat
  BY ImageAssumption
<1>t. FilesTypeOK /\ ListsEachOnce /\ Current \in Pid /\ Sound(fd_table[Current])
  BY CallSetsOwnTable DEF FilesInv, InUse
<1>u. fd_table' \in [Pid -> [Fd -> Descriptor]]
  BY NextTables DEF FilesNext
<1>v. Fresh \in View /\ Fresh.given = 0
  BY <1>i DEF Fresh, View
<1>1. ASSUME NEW fname \in Name, Open(fname)
      PROVE  view' \in [Pid -> [Fd -> View]] /\ dir_offset' \in 0 .. num_of_dirE /\ ListsEachOnce'
  <2>1. PICK fd \in Fd, d \in Descriptor :
          /\ open(fd_table[Current], fname).ret = fd
          /\ open(fd_table[Current], fname).table = [fd_table[Current] EXCEPT ![fd] = d]
    <3>1. open(fd_table[Current], fname).ret # -1
      BY <1>1 DEF Open, MyTable
    <3>2. Sound(fd_table[Current])
      BY <1>t
    <3> HIDE DEF open
    <3> DEFINE mine == fd_table[Current]
    <3>3. Sound(mine) /\ open(mine, fname).ret # -1
      BY <3>1, <3>2
    <3> HIDE DEF mine
    <3>4. \E fd \in Fd, d \in Descriptor :
            /\ open(mine, fname).ret = fd
            /\ open(mine, fname).table = [mine EXCEPT ![fd] = d]
            /\ fd \in Free(mine)
            /\ d.file_pos = 0
            /\ d.fops = "fops_file" => d.inode \in Inode
      BY <3>3, OpenTakesFree
    <3> QED
      BY <3>4 DEF mine
  <2> HIDE DEF open
  <2>2. [fd_table[Current] EXCEPT ![fd] = d][fd] = d
    BY <1>t DEF Sound
  <2>3. /\ fd_table' = [fd_table EXCEPT ![Current] = [fd_table[Current] EXCEPT ![fd] = d]]
        /\ IF d.fops = "fops_dir"
             THEN dir_offset' = 0 /\ DisturbOthers(fd, Fresh)
             ELSE dir_offset' = dir_offset /\ SeeOnly(fd, Fresh)
    BY <1>1, <2>1, <2>2 DEF Open, SetTable, MyTable
  <2>4. /\ \A p \in Pid, f \in Fd : p # Current \/ f # fd => fd_table'[p][f] = fd_table[p][f]
        /\ fd_table'[Current][fd] = d
    BY <1>t, <2>3 DEF FilesTypeOK, Sound
  <2>5. view' \in [Pid -> [Fd -> View]] /\ dir_offset' \in 0 .. num_of_dirE
    BY <1>i, <1>t, <1>v, <2>3, ViewsTyped DEF FilesTypeOK
  <2>6. CASE d.fops = "fops_dir"
    BY <1>t, <1>v, <2>3, <2>4, <2>5, <2>6, DisturbKeepsListings
  <2>7. CASE d.fops # "fops_dir"
    <3>1. view' = [view EXCEPT ![Current][fd] = Fresh] /\ dir_offset' = dir_offset
      BY <2>3, <2>7 DEF SeeOnly
    <3>2. fd_table'[Current][fd].fops # "fops_dir"
      BY <2>4, <2>7
    <3>3. ListsEachOnce'
      BY <1>t, <2>4, <3>1, <3>2, OthersKeepListings
    <3> QED
      BY <2>5, <3>3
  <2> QED
    BY <2>5, <2>6, <2>7
<1>2. ASSUME NEW fd \in Fd, Close(fd)
      PROVE  view' \in [Pid -> [Fd -> View]] /\ dir_offset' \in 0 .. num_of_dirE /\ ListsEachOnce'
  <2>1. /\ fd_table' = [fd_table EXCEPT ![Current] = [fd_table[Current] EXCEPT ![fd] = Closed]]
        /\ SeeOnly(fd, Fresh) /\ dir_offset' = dir_offset
    BY <1>2, <1>t, CloseSound DEF Close, SetTable, MyTable
  <2>2. /\ \A p \in Pid, f \in Fd : p # Current \/ f # fd => fd_table'[p][f] = fd_table[p][f]
        /\ fd_table'[Current][fd].fops # "fops_dir"
    BY <1>t, <2>1, ClosedSound DEF FilesTypeOK, Sound
  <2> QED
    <3>1. view' = [view EXCEPT ![Current][fd] = Fresh]
      BY <2>1 DEF SeeOnly
    <3>2. ListsEachOnce'
      BY <1>t, <2>1, <2>2, <3>1, OthersKeepListings
    <3>3. view' \in [Pid -> [Fd -> View]]
      BY <1>t, <2>1, <1>v, ViewsTyped
    <3> QED
      BY <1>t, <2>1, <3>2, <3>3 DEF FilesTypeOK
<1>3. ASSUME NEW fd \in Fd, NEW n \in Chunk, ReadFile(fd, n)
      PROVE  view' \in [Pid -> [Fd -> View]] /\ dir_offset' \in 0 .. num_of_dirE /\ ListsEachOnce'
  <2> DEFINE d == fd_table[Current][fd]
             v == [Fresh EXCEPT !.ended =
                     n \in 1 .. BLOCK - 1 /\ read_data(d.inode, d.file_pos, n).ret = 0]
  <2>1. /\ d.fops = "fops_file" /\ SeeOnly(fd, v) /\ dir_offset' = dir_offset
        /\ fd_table' = [fd_table EXCEPT ![Current] = [fd_table[Current] EXCEPT ![fd] = file_read(d, n)]]
    BY <1>3 DEF ReadFile, SetTable, MyTable
  <2>2. v \in View
    BY <1>v DEF View
  <2>3. file_read(d, n).fops = d.fops
    BY <1>t DEF file_read, FilesTypeOK, Descriptor
  <2> HIDE DEF v
  <2>4. /\ \A p \in Pid, f \in Fd : p # Current \/ f # fd => fd_table'[p][f] = fd_table[p][f]
        /\ fd_table'[Current][fd].fops # "fops_dir"
    BY <1>t, <2>1, <2>3 DEF FilesTypeOK, Sound
  <2> QED
    <3>1. view' = [view EXCEPT ![Current][fd] = v]
      BY <2>1 DEF SeeOnly
    <3>2. ListsEachOnce'
      BY <1>t, <2>1, <2>4, <3>1, OthersKeepListings
    <3>3. view' \in [Pid -> [Fd -> View]]
      BY <1>t, <2>1, <2>2, ViewsTyped
    <3> QED
      BY <1>t, <2>1, <3>2, <3>3 DEF FilesTypeOK
<1>4. ASSUME NEW fd \in Fd, ReadDir(fd)
      PROVE  view' \in [Pid -> [Fd -> View]] /\ dir_offset' \in 0 .. num_of_dirE /\ ListsEachOnce'
  <2> DEFINE old == view[Current][fd]
             next == IF dir_offset < num_of_dirE
                       THEN [old EXCEPT !.given = Smaller(@ + 1, num_of_dirE + 1)]
                       ELSE Fresh
  <2>1. /\ fd_table[Current][fd].fops = "fops_dir" /\ dir_offset' = NextOffset
        /\ DisturbOthers(fd, next) /\ fd_table' = fd_table
    BY <1>4 DEF ReadDir, MyTable
  <2>2. old \in View
    BY <1>t DEF FilesTypeOK
  <2>3. dir_offset \in 0 .. num_of_dirE /\ (old.quiet => old.given = dir_offset)
    BY <1>t, <2>1 DEF FilesTypeOK, ListsEachOnce
  <2> HIDE DEF old
  <2>4. /\ next \in View /\ dir_offset' \in 0 .. num_of_dirE
        /\ next.quiet => next.given = dir_offset'
    <3>1. CASE dir_offset < num_of_dirE
      <4>1. dir_offset' = dir_offset + 1
        BY <2>1, <3>1 DEF NextOffset
      <4>2. /\ next = [old EXCEPT !.given = Smaller(old.given + 1, num_of_dirE + 1)]
            /\ old.given \in 0 .. num_of_dirE + 1
        BY <2>2, <3>1 DEF View
      <4>3. /\ Smaller(old.given + 1, num_of_dirE + 1) \in 0 .. num_of_dirE + 1
            /\ old.given = dir_offset => Smaller(old.given + 1, num_of_dirE + 1) = dir_offset + 1
        BY <1>i, <2>3, <3>1, <4>2 DEF Smaller
      <4>4. /\ next \in View /\ next.quiet = old.quiet
            /\ next.given = Smaller(old.given + 1, num_of_dirE + 1)
        BY <2>2, <4>2, <4>3 DEF View
      <4> QED
        BY <1>i, <2>3, <3>1, <4>1, <4>3, <4>4
    <3>2. CASE ~(dir_offset < num_of_dirE)
      BY <1>i, <1>v, <2>1, <3>2 DEF NextOffset
    <3> QED
      BY <3>1, <3>2
  <2> HIDE DEF next
  <2>5. view' \in [Pid -> [Fd -> View]]
    BY <1>t, <2>1, <2>4, ViewsTyped
  <2>6. ListsEachOnce'
    BY <1>t, <2>1, <2>4, DisturbKeepsListings
  <2> QED
    BY <2>4, <2>5, <2>6
<1> QED
  BY <1>1, <1>2, <1>3, <1>4 DEF FileStep

\* So do the steps of Processes: they open no directory, and halt closes them.
LEMMA SwitchKeepsListings ==
  ASSUME FilesInv, StartStep \/ HaltStep \/ SwitchStep \/ UNCHANGED allVars
  PROVE  view' \in [Pid -> [Fd -> View]] /\ dir_offset' \in 0 .. num_of_dirE /\ ListsEachOnce'
<1>t. FilesTypeOK /\ ListsEachOnce /\ OrderlyInv /\ \A p \in Pid : Sound(fd_table[p])
  BY DEF FilesInv
<1>v. [fd \in Fd |-> Fresh] \in [Fd -> View]
  BY ImageAssumption DEF Fresh, View
<1>1. dir_offset' = dir_offset
  BY DEF StartStep, HaltStep, SwitchStep, fileVars, allVars
<1>2. /\ view' \in [Pid -> [Fd -> View]]
      /\ \A p \in Pid, f \in Fd :
           fd_table'[p][f].fops = "fops_dir" =>
             fd_table[p][f].fops = "fops_dir" /\ view'[p][f] = view[p][f]
  <2>1. CASE StartStep
    <3>1. /\ Current' \in Pid /\ view' = view
          /\ fd_table' = [fd_table EXCEPT ![Current'] = pcb_init(fd_table[Current'])]
      BY <2>1, <1>t, StartTakesFree DEF StartStep
    <3>2. \A f \in Fd : pcb_init(fd_table[Current'])[f].fops = "fops_dir" =>
            pcb_init(fd_table[Current'])[f] = fd_table[Current'][f]
      BY <1>t, <3>1, PcbInitSound
    <3> QED
      BY <1>t, <3>1, <3>2 DEF FilesTypeOK
  <2>2. CASE HaltStep /\ HaltToParent /\ fd_table' = [fd_table EXCEPT ![Current] = CloseAll(@)]
    <3>1. /\ Current \in Pid /\ view' = [view EXCEPT ![Current] = [fd \in Fd |-> Fresh]]
          /\ fd_table' = [fd_table EXCEPT ![Current] = CloseAll(fd_table[Current])]
      BY <2>2, <1>t, HaltFrees DEF HaltStep, InUse
    <3>2. \A f \in Fd : CloseAll(fd_table[Current])[f].fops # "fops_dir"
      BY <1>t, <3>1, HaltLeavesNoDirectory
    <3> QED
      BY <1>t, <1>v, <3>1, <3>2 DEF FilesTypeOK
  <2>3. CASE /\ HaltStep /\ HaltBaseShell
             /\ fd_table' = [[fd_table EXCEPT ![Current] = CloseAll(@)] EXCEPT ![Current'] = pcb_init(@)]
    <3> DEFINE closed == [fd_table EXCEPT ![Current] = CloseAll(fd_table[Current])]
    <3>1. /\ Current \in Pid /\ Current' \in Pid
          /\ view' = [view EXCEPT ![Current] = [fd \in Fd |-> Fresh]]
          /\ fd_table' = [closed EXCEPT ![Current'] = pcb_init(closed[Current'])]
      BY <2>3, <1>t, RelaunchTakesFree DEF HaltStep, InUse
    <3>2. \A f \in Fd : CloseAll(fd_table[Current])[f].fops # "fops_dir"
      BY <1>t, <3>1, HaltLeavesNoDirectory
    <3>3. \A p \in Pid : Sound(closed[p])
      BY <1>t, <3>1, CloseAllSound DEF FilesTypeOK
    <3>4. \A f \in Fd : pcb_init(closed[Current'])[f].fops = "fops_dir" =>
            pcb_init(closed[Current'])[f] = closed[Current'][f]
      BY <3>1, <3>3, PcbInitSound
    <3>5. /\ closed[Current] = CloseAll(fd_table[Current]) /\ DOMAIN closed = Pid
          /\ \A p \in Pid \ {Current} : closed[p] = fd_table[p]
      BY <1>t, <3>1 DEF FilesTypeOK
    <3> HIDE DEF closed
    <3>6. \A p \in Pid, f \in Fd : fd_table'[p][f].fops = "fops_dir" =>
            closed[p][f].fops = "fops_dir"
      BY <3>1, <3>4, <3>5
    <3>7. \A p \in Pid, f \in Fd : fd_table'[p][f].fops = "fops_dir" =>
            p # Current /\ fd_table[p][f].fops = "fops_dir"
      BY <3>2, <3>5, <3>6
    <3> QED
      BY <1>t, <1>v, <3>1, <3>7 DEF FilesTypeOK
  <2>4. CASE SwitchStep \/ UNCHANGED allVars
    BY <2>4, <1>t DEF SwitchStep, fileVars, allVars, FilesTypeOK
  <2> QED
    BY <2>1, <2>2, <2>3, <2>4 DEF HaltStep
<1>3. ListsEachOnce'
  BY <1>t, <1>1, <1>2 DEF ListsEachOnce
<1> QED
  BY <1>t, <1>1, <1>2, <1>3 DEF FilesTypeOK

LEMMA NextFilesInv == FilesInv /\ [FilesNext]_allVars => FilesInv'
<1> SUFFICES ASSUME FilesInv, [FilesNext]_allVars PROVE FilesInv'
  OBVIOUS
<1>1. OrderlyInv'
  BY StepIsOrderly, NextOrderlyInv DEF FilesInv
<1>2. /\ fd_table' \in [Pid -> [Fd -> Descriptor]]
      /\ \A p \in Pid : Sound(fd_table'[p])
      /\ FreeSlotsClosed'
  BY NextTables
<1>3. view' \in [Pid -> [Fd -> View]] /\ dir_offset' \in 0 .. num_of_dirE /\ ListsEachOnce'
  BY CallKeepsListings, SwitchKeepsListings DEF FilesNext
<1> QED
  BY <1>1, <1>2, <1>3 DEF FilesInv, FilesTypeOK, Sound

-----------------------------------------------------------------------------
(* The ends that programs see.                                             *)

\* A descriptor whose last read told its program that the file ended is one of a file,
\* and stands at its end.
Ends(table, seen) ==
    \A fd \in Fd :
        seen[fd].ended => /\ table[fd].fops = "fops_file"
                          /\ table[fd].file_pos = inode_arr[table[fd].inode].length
EndsAtEnd == \A p \in Pid : Ends(fd_table[p], view[p])

\* What one call leaves of its own descriptor decides.
LEMMA CallKeepsOtherEnds ==
  ASSUME FilesTypeOK, EndsAtEnd, Current \in Pid, NEW fd \in Fd, NEW v \in View,
         DisturbOthers(fd, v) \/ SeeOnly(fd, v),
         \A p \in Pid, f \in Fd : p # Current \/ f # fd => fd_table'[p][f] = fd_table[p][f],
         v.ended => /\ fd_table'[Current][fd].fops = "fops_file"
                    /\ fd_table'[Current][fd].file_pos =
                         inode_arr[fd_table'[Current][fd].inode].length
  PROVE  EndsAtEnd'
<1> SUFFICES ASSUME NEW p \in Pid, NEW f \in Fd, view'[p][f].ended
             PROVE  /\ fd_table'[p][f].fops = "fops_file"
                    /\ fd_table'[p][f].file_pos = inode_arr[fd_table'[p][f].inode].length
  BY DEF EndsAtEnd, Ends
<1>1. CASE p = Current /\ f = fd
  <2>1. view'[p][f] = v
    BY <1>1 DEF DisturbOthers, SeeOnly, FilesTypeOK
  <2> QED
    BY <1>1, <2>1
<1>2. CASE ~(p = Current /\ f = fd)
  <2>1. view[p][f] \in View
    BY DEF FilesTypeOK
  <2>2. view'[p][f].ended = view[p][f].ended
    <3>1. CASE DisturbOthers(fd, v)
      <4>1. \/ view'[p][f] = view[p][f]
            \/ view'[p][f] = [view[p][f] EXCEPT !.quiet = FALSE]
        BY <1>2, <3>1 DEF DisturbOthers
      <4>2. \A w \in View : [w EXCEPT !.quiet = FALSE].ended = w.ended
        BY DEF View
      <4> QED
        BY <2>1, <4>1, <4>2, Zenon
    <3>2. CASE SeeOnly(fd, v)
      BY <1>2, <3>2 DEF SeeOnly, FilesTypeOK
    <3> QED
      BY <3>1, <3>2
  <2> QED
    BY <1>2, <2>2 DEF EndsAtEnd, Ends
<1> QED
  BY <1>1, <1>2

\* A read of some bytes, less than a block, returns 0 only where none are left.
LEMMA NothingReadAtEnd ==
  ASSUME NEW inode \in Inode, NEW pos \in Nat, pos <= inode_arr[inode].length,
         NEW n \in 1 .. BLOCK - 1, read_data(inode, pos, n).ret = 0
  PROVE  pos = inode_arr[inode].length
<1> DEFINE r == read_data(inode, pos, n)
           amount == Amount(inode, pos, n)
<1>1. BLOCK \in Nat /\ inode_arr[inode].length \in Nat /\ n \in Nat
  BY ImageAssumption
<1>2. AnswersPart(r, inode, pos, amount)
  BY <1>1, ReadsExactly
<1> HIDE DEF amount
<1>3. amount < BLOCK => r.ret = amount
  BY <1>2 DEF AnswersPart
<1> QED
  BY <1>1, <1>3 DEF amount, Amount, Smaller

LEMMA CallKeepsEnds ==
  ASSUME FilesInv, EndsAtEnd, FileStep
  PROVE  EndsAtEnd'
<1>t. /\ FilesTypeOK /\ EndsAtEnd /\ Current \in Pid
      /\ Sound(fd_table[Current]) /\ MyTable = fd_table[Current]
  BY CallSetsOwnTable DEF FilesInv, InUse, MyTable
<1>v. Fresh \in View /\ Fresh.ended = FALSE
  BY ImageAssumption DEF Fresh, View
<1> DEFINE Only(fd) == \A p \in Pid, f \in Fd :
                          p # Current \/ f # fd => fd_table'[p][f] = fd_table[p][f]
<1>1. ASSUME NEW fname \in Name, Open(fname)
      PROVE  EndsAtEnd'
  <2>1. PICK fd \in Fd, d \in Descriptor :
          /\ open(fd_table[Current], fname).ret = fd
          /\ open(fd_table[Current], fname).table = [fd_table[Current] EXCEPT ![fd] = d]
    <3> HIDE DEF open
    <3> DEFINE mine == fd_table[Current]
    <3>1. Sound(mine) /\ open(mine, fname).ret # -1
      BY <1>1, <1>t DEF Open
    <3> HIDE DEF mine
    <3>2. \E fd \in Fd, d \in Descriptor :
            /\ open(mine, fname).ret = fd
            /\ open(mine, fname).table = [mine EXCEPT ![fd] = d]
            /\ fd \in Free(mine)
            /\ d.file_pos = 0
            /\ d.fops = "fops_file" => d.inode \in Inode
      BY <3>1, OpenTakesFree
    <3> QED
      BY <3>2 DEF mine
  <2> HIDE DEF open
  <2>2. fd_table' = [fd_table EXCEPT ![Current] = [fd_table[Current] EXCEPT ![fd] = d]]
    BY <1>1, <1>t, <2>1 DEF Open, SetTable
  <2>3. Only(fd)
    BY <1>t, <2>2 DEF FilesTypeOK
  <2>4. DisturbOthers(fd, Fresh) \/ SeeOnly(fd, Fresh)
    BY <1>1, <1>t, <2>1 DEF Open
  <2> QED
    BY <1>t, <1>v, <2>3, <2>4, CallKeepsOtherEnds
<1>2. ASSUME NEW fd \in Fd, Close(fd)
      PROVE  EndsAtEnd'
  <2>1. /\ fd_table' = [fd_table EXCEPT ![Current] = [fd_table[Current] EXCEPT ![fd] = Closed]]
        /\ SeeOnly(fd, Fresh)
    BY <1>2, <1>t, CloseSound DEF Close, SetTable
  <2>2. Only(fd)
    BY <1>t, <2>1 DEF FilesTypeOK
  <2> QED
    BY <1>t, <1>v, <2>1, <2>2, CallKeepsOtherEnds
<1>3. ASSUME NEW fd \in Fd, NEW n \in Chunk, ReadFile(fd, n)
      PROVE  EndsAtEnd'
  <2> DEFINE d == fd_table[Current][fd]
             r == read_data(d.inode, d.file_pos, n)
             v == [Fresh EXCEPT !.ended = n \in 1 .. BLOCK - 1 /\ r.ret = 0]
  <2>1. /\ d.fops = "fops_file" /\ SeeOnly(fd, v)
        /\ fd_table' = [fd_table EXCEPT ![Current] = [fd_table[Current] EXCEPT ![fd] = file_read(d, n)]]
    BY <1>3, <1>t DEF ReadFile, SetTable
  <2>2. /\ d \in Descriptor /\ d.inode \in Inode /\ d.file_pos \in Nat
        /\ d.file_pos <= inode_arr[d.inode].length
    BY <1>t, <2>1 DEF Sound, Descriptor
  <2>3. file_read(d, n) = [d EXCEPT !.file_pos = d.file_pos + r.ret]
    BY DEF file_read
  <2>4. v \in View /\ v.ended = (n \in 1 .. BLOCK - 1 /\ r.ret = 0)
    BY <1>v DEF View, Fresh
  <2>5. n \in 1 .. BLOCK - 1 /\ r.ret = 0 => d.file_pos = inode_arr[d.inode].length
    <3> DEFINE i == d.inode
               pos == d.file_pos
    <3>1. i \in Inode /\ pos \in Nat /\ pos <= inode_arr[i].length
      BY <2>2
    <3> HIDE DEF i, pos
    <3>2. n \in 1 .. BLOCK - 1 /\ read_data(i, pos, n).ret = 0 => pos = inode_arr[i].length
      BY <3>1, NothingReadAtEnd
    <3> QED
      BY <3>2 DEF i, pos
  <2>6. fd_table'[Current][fd] = file_read(d, n)
    BY <1>t, <2>1 DEF FilesTypeOK
  <2>7. Only(fd)
    BY <1>t, <2>1 DEF FilesTypeOK
  <2> HIDE DEF d, r, v
  <2>8. v.ended => /\ fd_table'[Current][fd].fops = "fops_file"
                   /\ fd_table'[Current][fd].file_pos =
                         inode_arr[fd_table'[Current][fd].inode].length
    <3> SUFFICES ASSUME v.ended
                 PROVE  /\ fd_table'[Current][fd].fops = "fops_file"
                        /\ fd_table'[Current][fd].file_pos =
                              inode_arr[fd_table'[Current][fd].inode].length
      OBVIOUS
    <3>1. r.ret = 0 /\ d.file_pos = inode_arr[d.inode].length
      BY <2>4, <2>5
    <3>2. file_read(d, n) = d
      BY <2>2, <2>3, <3>1 DEF Descriptor
    <3> QED
      BY <2>1, <2>6, <3>1, <3>2
  <2> QED
    BY <1>t, <2>1, <2>4, <2>7, <2>8, CallKeepsOtherEnds
<1>4. ASSUME NEW fd \in Fd, ReadDir(fd)
      PROVE  EndsAtEnd'
  <2> DEFINE old == view[Current][fd]
             next == IF dir_offset < num_of_dirE
                       THEN [old EXCEPT !.given = Smaller(@ + 1, num_of_dirE + 1)]
                       ELSE Fresh
  <2>1. /\ fd_table[Current][fd].fops = "fops_dir" /\ fd_table' = fd_table
        /\ DisturbOthers(fd, next)
    BY <1>4, <1>t DEF ReadDir
  <2>2. old \in View /\ ~old.ended
    BY <1>t, <2>1 DEF FilesTypeOK, EndsAtEnd, Ends
  <2> HIDE DEF old
  <2>3. num_of_dirE \in Nat /\ old.given \in 0 .. num_of_dirE + 1
    BY <2>2, ImageAssumption DEF View
  <2>4. Smaller(old.given + 1, num_of_dirE + 1) \in 0 .. num_of_dirE + 1
    BY <2>3 DEF Smaller
  <2>5. next \in View /\ ~next.ended
    BY <1>v, <2>2, <2>4 DEF View
  <2> HIDE DEF next
  <2> QED
    BY <1>t, <2>1, <2>5, CallKeepsOtherEnds
<1> QED
  BY <1>1, <1>2, <1>3, <1>4 DEF FileStep

\* pcb_init and halt disturb no descriptor of a file that stays one.
LEMMA StepsKeepEnds ==
  ASSUME FilesInv, EndsAtEnd, StartStep \/ HaltStep \/ SwitchStep \/ UNCHANGED allVars
  PROVE  EndsAtEnd'
<1>t. FilesTypeOK /\ EndsAtEnd /\ OrderlyInv /\ \A p \in Pid : Sound(fd_table[p])
  BY DEF FilesInv
<1>v. Fresh.ended = FALSE
  BY DEF Fresh
<1>p. ASSUME NEW table, Sound(table), NEW seen, Ends(table, seen)
      PROVE  Ends(pcb_init(table), seen)
  <2>1. \A fd \in Fd : fd >= FD_START => pcb_init(table)[fd] = table[fd]
    BY <1>p, PcbInitSound
  <2>2. \A fd \in Fd : fd >= FD_START \/ fd < FD_START
    BY FilesAssumption DEF Fd, FD_START
  <2>3. \A fd \in Fd : fd < FD_START => ~seen[fd].ended
    BY <1>p DEF Sound, Ends, Standard
  <2> QED
    BY <1>p, <2>1, <2>2, <2>3 DEF Ends
<1>1. CASE StartStep
  <2>1. /\ Current' \in Pid /\ view' = view
        /\ fd_table' = [fd_table EXCEPT ![Current'] = pcb_init(fd_table[Current'])]
    BY <1>1, <1>t, StartTakesFree DEF StartStep
  <2>2. Ends(pcb_init(fd_table[Current']), view[Current'])
    BY <1>t, <1>p, <2>1 DEF EndsAtEnd
  <2> QED
    BY <1>t, <2>1, <2>2 DEF EndsAtEnd, FilesTypeOK
<1>2. CASE HaltStep /\ HaltToParent /\ fd_table' = [fd_table EXCEPT ![Current] = CloseAll(@)]
  <2>1. /\ Current \in Pid /\ view' = [view EXCEPT ![Current] = [fd \in Fd |-> Fresh]]
        /\ fd_table' = [fd_table EXCEPT ![Current] = CloseAll(fd_table[Current])]
    BY <1>2, <1>t, HaltFrees DEF HaltStep, InUse
  <2>2. \A p \in Pid : p # Current => fd_table'[p] = fd_table[p] /\ view'[p] = view[p]
    BY <1>t, <2>1 DEF FilesTypeOK
  <2>3. \A fd \in Fd : ~view'[Current][fd].ended
    BY <1>t, <1>v, <2>1 DEF FilesTypeOK
  <2> QED
    BY <1>t, <2>2, <2>3 DEF EndsAtEnd, Ends
<1>3. CASE /\ HaltStep /\ HaltBaseShell
           /\ fd_table' = [[fd_table EXCEPT ![Current] = CloseAll(@)] EXCEPT ![Current'] = pcb_init(@)]
  <2> DEFINE closed == [fd_table EXCEPT ![Current] = CloseAll(fd_table[Current])]
  <2>1. /\ Current \in Pid /\ Current' \in Pid
        /\ view' = [view EXCEPT ![Current] = [fd \in Fd |-> Fresh]]
        /\ fd_table' = [closed EXCEPT ![Current'] = pcb_init(closed[Current'])]
    BY <1>3, <1>t, RelaunchTakesFree DEF HaltStep, InUse
  <2>2. /\ DOMAIN closed = Pid
        /\ \A p \in Pid \ {Current} : closed[p] = fd_table[p]
    BY <1>t, <2>1 DEF FilesTypeOK
  <2> HIDE DEF closed
  <2>3. \A fd \in Fd : ~view'[Current][fd].ended
    BY <1>t, <1>v, <2>1 DEF FilesTypeOK
  <2>4. ASSUME NEW p \in Pid \ {Current} PROVE Ends(fd_table'[p], view'[p])
    <3>1. view'[p] = view[p]
      BY <1>t, <2>1 DEF FilesTypeOK
    <3>2. fd_table'[p] = fd_table[p] \/ fd_table'[p] = pcb_init(fd_table[p])
      BY <2>1, <2>2
    <3>3. Sound(fd_table[p]) /\ Ends(fd_table[p], view[p])
      BY <1>t DEF EndsAtEnd
    <3> QED
      BY <1>p, <3>1, <3>2, <3>3
  <2>5. Ends(fd_table'[Current], view'[Current])
    BY <2>3 DEF Ends
  <2>6. \A p \in Pid : Ends(fd_table'[p], view'[p])
    BY <2>4, <2>5
  <2> QED
    BY <2>6 DEF EndsAtEnd, Ends
<1>4. CASE SwitchStep \/ UNCHANGED allVars
  BY <1>4, <1>t DEF SwitchStep, fileVars, allVars, EndsAtEnd, Ends
<1> QED
  BY <1>1, <1>2, <1>3, <1>4 DEF HaltStep

-----------------------------------------------------------------------------
(* The theorems.                                                           *)

LEMMA FilesInvariant == FilesSpec => []FilesInv
  BY InitFilesInv, NextFilesInv, PTL DEF FilesSpec

\* The descriptor tables run on the process table as it is used in an orderly way: what
\* is proved of OrderlySpec holds of the system with files.
THEOREM FilesRunOrderly == FilesSpec => OrderlySpec
<1>1. FilesInit => Init
  BY DEF FilesInit
<1> QED
  BY <1>1, StepIsOrderly, PTL DEF FilesSpec, OrderlySpec

\* Descriptors, the directory offset and what the programs saw keep their types.
THEOREM FilesTypeCorrect == FilesSpec => []FilesTypeOK
<1>1. FilesInv => FilesTypeOK
  BY DEF FilesInv
<1> QED
  BY <1>1, FilesInvariant, PTL

\* execute never starts a program with a descriptor that an earlier one left open.
THEOREM NothingInherited == FilesSpec => []FreeSlotsClosed
<1>1. FilesInv => FreeSlotsClosed
  BY DEF FilesInv
<1> QED
  BY <1>1, FilesInvariant, PTL

\* No position passes the end of its file.
THEOREM PositionsStayInside == FilesSpec => []PositionWithinFile
<1>1. FilesInv => PositionWithinFile
  BY DEF FilesInv, Sound, PositionWithinFile
<1> QED
  BY <1>1, FilesInvariant, PTL

\* A program that is told that its file ended has read it to its end: the position is the
\* file's length, until the program reads on or the descriptor is used for something else.
THEOREM EndsAreReal == FilesSpec => []EndOnlyAtEnd
<1>1. FilesInit => EndsAtEnd
  BY DEF FilesInit, Fresh, EndsAtEnd, Ends
<1>2. FilesInv /\ EndsAtEnd /\ [FilesNext]_allVars => EndsAtEnd'
  BY CallKeepsEnds, StepsKeepEnds DEF FilesNext
<1>3. EndsAtEnd => EndOnlyAtEnd
  BY DEF EndsAtEnd, Ends, EndOnlyAtEnd
<1> QED
  BY <1>1, <1>2, <1>3, FilesInvariant, PTL DEF FilesSpec

\* An undisturbed listing gives each entry once.
THEOREM ListingsComplete == FilesSpec => []ListsEachOnce
<1>1. FilesInv => ListsEachOnce
  BY DEF FilesInv
<1> QED
  BY <1>1, FilesInvariant, PTL

\* No call reaches the descriptors of another process.
THEOREM DescriptorsPrivate == FilesSpec => OnlyOwnDescriptors
<1>1. ASSUME FilesInv, [FilesNext]_allVars
      PROVE  [\A p \in InUse : fd_table'[p] # fd_table[p] => p = cpu]_allVars
  <2> SUFFICES ASSUME FilesNext, NEW p \in InUse, fd_table'[p] # fd_table[p]
               PROVE  p = cpu
    BY <1>1
  <2>t. fd_table \in [Pid -> [Fd -> Descriptor]] /\ OrderlyInv /\ p \in Pid
    BY <1>1 DEF FilesInv, FilesTypeOK, InUse
  <2>1. CASE FileStep
    BY <1>1, <2>1, <2>t, CallSetsOwnTable
  <2>2. CASE StartStep
    BY <2>2, <2>t, StartTakesFree DEF StartStep
  <2>3. CASE HaltStep /\ HaltToParent /\ fd_table' = [fd_table EXCEPT ![Current] = CloseAll(@)]
    BY <2>3, <2>t, HaltFrees
  <2>4. CASE /\ HaltBaseShell
             /\ fd_table' = [[fd_table EXCEPT ![Current] = CloseAll(@)] EXCEPT ![Current'] = pcb_init(@)]
    BY <2>4, <2>t, RelaunchTakesFree
  <2>5. CASE SwitchStep
    BY <2>5 DEF SwitchStep, fileVars
  <2> QED
    BY <2>1, <2>2, <2>3, <2>4, <2>5 DEF FilesNext, HaltStep
<1> QED
  BY <1>1, FilesInvariant, PTL DEF FilesSpec, OnlyOwnDescriptors

-----------------------------------------------------------------------------
(* The pure parts, as the runs check them.                                 *)

\* What ReadsExactly says of every image and every part of a file, for the parts that a
\* run takes: read_data gives what the file has there, and the number of bytes.
THEOREM PartsAreCopied == FilesSpec => []CopiesExactly
<1>1. ASSUME NEW inode \in Inode, NEW offset \in Nat, NEW length \in Nat
      PROVE  /\ read_data(inode, offset, length).bytes =
                  SubSeq(Content(inode), offset + 1, Smaller(offset + length, Len(Content(inode))))
             /\ length < BLOCK =>
                  read_data(inode, offset, length).ret =
                  Len(SubSeq(Content(inode), offset + 1,
                             Smaller(offset + length, Len(Content(inode)))))
  <2> DEFINE r == read_data(inode, offset, length)
             size == inode_arr[inode].length
             content == Content(inode)
             amount == Amount(inode, offset, length)
             last == Smaller(offset + length, size)
             part == SubSeq(content, offset + 1, last)
  <2>1. size \in Nat /\ BLOCK \in Nat
    BY ImageAssumption
  <2>2. /\ Len(content) = size /\ DOMAIN content = 1 .. size
        /\ \A k \in 1 .. size : content[k] = FileByte(inode, k - 1)
    BY <2>1 DEF Content, FileByte
  <2> HIDE DEF content
  <2>3. AnswersPart(r, inode, offset, amount)
    BY ReadsExactly
  <2>4. /\ last \in Nat /\ last <= size /\ offset + 1 \in Nat
        /\ amount \in Nat /\ amount <= length
        /\ amount = IF offset + 1 <= last THEN last - (offset + 1) + 1 ELSE 0
        /\ \A k \in 1 .. amount : offset + k \in 1 .. size
    BY <2>1 DEF Smaller, Amount
  <2> HIDE DEF last, amount, size
  <2>5. \A k \in (offset + 1) .. last : content[k] \in {content[j] : j \in 1 .. size}
    BY <2>1, <2>4
  <2>6. /\ part \in Seq({content[j] : j \in 1 .. size})
        /\ Len(part) = IF offset + 1 <= last THEN last - (offset + 1) + 1 ELSE 0
        /\ \A k \in 1 .. last - (offset + 1) + 1 : part[k] = content[(offset + 1) + k - 1]
    <3> DEFINE S == {content[j] : j \in 1 .. size}
               first == offset + 1
    <3>1. first \in Int /\ last \in Int /\ \A k \in first .. last : content[k] \in S
      BY <2>4, <2>5
    <3> HIDE DEF S, first
    <3>2. /\ SubSeq(content, first, last) \in Seq(S)
          /\ Len(SubSeq(content, first, last)) = IF first <= last THEN last - first + 1 ELSE 0
          /\ \A k \in 1 .. last - first + 1 :
               SubSeq(content, first, last)[k] = content[first + k - 1]
      BY <3>1, SubSeqProperties
    <3> QED
      BY <3>2, Zenon DEF S, first
  <2> HIDE DEF part
  <2>7. Len(part) = amount
    BY <2>4, <2>6
  <2>8. ASSUME NEW k \in 1 .. amount PROVE part[k] = r.bytes[k]
    <3>1. part[k] = content[(offset + 1) + k - 1]
      BY <2>4, <2>6
    <3>2. (offset + 1) + k - 1 = offset + k
      BY <2>4
    <3>3. content[offset + k] = FileByte(inode, offset + k - 1)
      BY <2>2, <2>4
    <3>4. r.bytes[k] = FileByte(inode, offset + (k - 1)) /\ offset + k - 1 = offset + (k - 1)
      BY <2>3, <2>4 DEF AnswersPart
    <3> QED
      BY <3>1, <3>2, <3>3, <3>4
  <2>9. r.bytes \in Seq(Byte) /\ Len(r.bytes) = amount
    BY <2>3 DEF AnswersPart
  <2> HIDE DEF r
  <2>10. r.bytes = part
    BY <2>6, <2>7, <2>8, <2>9, SeqEqual
  <2>11. length < BLOCK => r.ret = amount
    BY <2>1, <2>3, <2>4 DEF AnswersPart
  <2>12. Len(part) = amount /\ part = SubSeq(content, offset + 1, Smaller(offset + length, Len(content)))
    BY <2>2, <2>7 DEF part, last
  <2> DEFINE given == SubSeq(content, offset + 1, Smaller(offset + length, Len(content)))
  <2>13. r.bytes = given /\ (length < BLOCK => r.ret = Len(given))
    BY <2>10, <2>11, <2>12
  <2> QED
    BY <2>13, Zenon DEF r, content
<1>2. \A offset \in 0 .. 7 : offset \in Nat
  OBVIOUS
<1>3. CopiesExactly
  BY <1>1, <1>2, Zenon DEF CopiesExactly, AtBoot
<1> QED
  BY <1>3, PTL

\* So for the names: what SearchFindsName says of every name, for those a run tries.
THEOREM NamesAreFound == FilesSpec => []FindsExactName
<1> DEFINE Letters == {"a", "b", "c", "r", "t", "."}
           Exactly(text) ==
             LET found == read_dentry_by_name(CString(text))
                 named == {k \in 1 .. num_of_dirE : NameOf(dir_entries[k]) = text}
             IN  IF named = {} THEN found = NotFound ELSE found # NotFound /\ NameOf(found) = text
<1>1. ASSUME NEW text \in Upto(Letters, 4) \ {<<>>}
      PROVE  Exactly(text)
  <2>1. PICK n \in 0 .. 4 : text \in [1 .. n -> Letters]
    BY DEF Upto
  <2>2. text \in Seq(Letters) /\ Len(text) = n /\ text # <<>>
    BY <2>1
  <2>3. \A k \in 1 .. Len(text) : text[k] # NUL
    BY <2>1, <2>2 DEF NUL
  <2> DEFINE found == read_dentry_by_name(CString(text))
             named == {k \in 1 .. num_of_dirE : NameOf(dir_entries[k]) = text}
  <2> HIDE DEF Letters
  <2>4. \/ /\ found = NotFound
           /\ \A k \in 1 .. num_of_dirE : NameIn(k) # text
        \/ \E k \in 1 .. num_of_dirE :
             /\ found = dir_entries[k]
             /\ NameIn(k) = text
             /\ \A j \in 1 .. k - 1 : NameIn(j) # text
    BY <2>2, <2>3, SearchFindsName
  <2>5. \A k \in 1 .. num_of_dirE : NameOf(dir_entries[k]) = NameIn(k)
    BY DEF NameOf, NameIn
  <2>6. \A k \in 1 .. num_of_dirE : dir_entries[k] # NotFound
    <3> SUFFICES ASSUME NEW k \in 1 .. num_of_dirE PROVE dir_entries[k] # NotFound
      OBVIOUS
    <3>1. dir_entries[k].file_type \in {0, 1, 2}
      BY ImageAssumption DEF RTC_FTYPE, DIR_FTYPE, FILE_FTYPE
    <3> QED
      BY <3>1 DEF NotFound
  <2> HIDE DEF found
  <2>7. CASE \A k \in 1 .. num_of_dirE : NameIn(k) # text
    <3>1. named = {} /\ found = NotFound
      BY <2>4, <2>5, <2>7
    <3> QED
      BY <3>1, Zenon DEF found
  <2>8. CASE \E k \in 1 .. num_of_dirE : found = dir_entries[k] /\ NameIn(k) = text
    <3>1. named # {} /\ found # NotFound /\ NameOf(found) = text
      BY <2>5, <2>6, <2>8
    <3> QED
      BY <3>1, Zenon DEF found
  <2> QED
    BY <2>4, <2>7, <2>8
<1>2. FindsExactName
  BY <1>1, Zenon DEF FindsExactName, AtBoot
<1> QED
  BY <1>2, PTL

\* And the runs' memories are moved and filled, by MemoryFunctions.
THEOREM MemoriesAreMoved == FilesSpec => []MovesMemory
<1> DEFINE A == 0 .. 15
           m == [address \in A |-> address + 300]
<1>1. A \in SUBSET Int /\ m \in [A -> Nat]
  OBVIOUS
<1>2. ASSUME NEW dest \in 0 .. 7, NEW src \in 0 .. 7, NEW n \in 0 .. 8
      PROVE  /\ memmove(m, dest, src, n) = Moved(m, dest, src, n)
             /\ dest <= src \/ src + n <= dest =>
                    memcpy(m, dest, src, n) = Moved(m, dest, src, n)
             /\ memset(m, dest, 256 + src, n) = Filled(m, dest, src, n)
  <2> DEFINE c == 256 + src
  <2>1. dest \in Nat /\ src \in Nat /\ n \in Nat /\ c \in Nat /\ c % 256 = src
    OBVIOUS
  <2>2. Region(src, n) \subseteq A
    BY DEF Region
  <2> HIDE DEF A, m, c
  <2>3. /\ memmove(m, dest, src, n) = Moved(m, dest, src, n)
        /\ dest <= src \/ src + n <= dest => memcpy(m, dest, src, n) = Moved(m, dest, src, n)
        /\ memset(m, dest, c, n) = Filled(m, dest, c % 256, n)
    BY <1>1, <2>1, <2>2, MemoryFunctions
  <2> QED
    BY <2>1, <2>3 DEF c
<1>3. MovesMemory
  BY <1>2, Zenon DEF MovesMemory, AtBoot, A, m
<1> QED
  BY <1>3, PTL

\* And for the argument of a command, by ArgumentRoundTrip.
THEOREM ArgumentsComeBack == FilesSpec => []ArgumentComesBack
<1> DEFINE C == {"a", SPACE, "x", NUL}
           field(old) == [k \in 1 .. 4 |-> IF k <= Len(old) THEN old[k] ELSE NUL]
           buf == [k \in 1 .. 4 |-> "x"]
           r(old, a, nbytes) == getargs(strcpy(field(old), CString(a)), buf, nbytes)
<1>1. ASSUME NEW a \in Argument
      PROVE  /\ a \in Seq(C) /\ Len(a) \in 0 .. 2
             /\ \A k \in 1 .. Len(a) : a[k] # NUL
  <2>1. PICK n \in 0 .. 2 : a \in [1 .. n -> {"a", SPACE}]
    BY DEF Argument, Upto
  <2>2. a \in [1 .. n -> C]
    BY <2>1
  <2>3. a \in Seq(C) /\ Len(a) = n
    <3> HIDE DEF C
    <3> QED
      BY <2>2
  <2> QED
    BY <2>1, <2>3 DEF SPACE, NUL
<1>2. ASSUME NEW old \in Argument
      PROVE  field(old) \in Seq(C) /\ Len(field(old)) = 4
  <2>1. Len(old) \in 0 .. 2 /\ \A k \in 1 .. Len(old) : old[k] \in C
    BY <1>1, ElementOfSeq
  <2>2. NUL \in C
    OBVIOUS
  <2> HIDE DEF C
  <2>3. field(old) \in [1 .. 4 -> C]
    BY <2>1, <2>2
  <2> QED
    BY <2>3
<1>3. buf \in Seq(C) /\ Len(buf) = 4 /\ NUL \in C
  <2>1. "x" \in C /\ NUL \in C
    OBVIOUS
  <2> HIDE DEF C
  <2>2. buf \in [1 .. 4 -> C]
    BY <2>1
  <2> QED
    BY <2>1, <2>2
<1>4. ASSUME NEW old \in Argument, NEW a \in Argument, NEW nbytes \in -1 .. 4
      PROVE  IF Len(a) < nbytes THEN r(old, a, nbytes).ret = 0 /\ Text(r(old, a, nbytes).buf) = a
             ELSE r(old, a, nbytes).ret = -1 /\ r(old, a, nbytes).buf = buf
  <2>1. /\ a \in Seq(C) /\ Len(a) \in 0 .. 2 /\ \A k \in 1 .. Len(a) : a[k] # NUL
        /\ field(old) \in Seq(C) /\ Len(field(old)) = 4
    BY <1>1, <1>2
  <2> DEFINE f == field(old)
  <2>2. nbytes \in Int /\ nbytes <= Len(buf) /\ Len(a) < Len(f) /\ f \in Seq(C)
    BY <1>3, <2>1
  <2> HIDE DEF C, buf, f
  <2>3. NUL \in C /\ a \in Seq(C) /\ buf \in Seq(C)
    BY <1>3, <2>1
  <2>4. \A k \in 1 .. Len(a) : a[k] # NUL
    BY <2>1
  <2>5. IF Len(a) < nbytes
          THEN /\ getargs(strcpy(f, CString(a)), buf, nbytes).ret = 0
               /\ Text(getargs(strcpy(f, CString(a)), buf, nbytes).buf) = a
          ELSE /\ getargs(strcpy(f, CString(a)), buf, nbytes).ret = -1
               /\ getargs(strcpy(f, CString(a)), buf, nbytes).buf = buf
    BY <2>2, <2>3, <2>4, ArgumentRoundTrip
  <2> QED
    BY <2>5, Zenon DEF f
<1>5. ArgumentComesBack
  BY <1>4, Zenon DEF ArgumentComesBack, AtBoot
<1> QED
  BY <1>5, PTL

\* And for commands, by CommandTakenApart, where the name that needs an argument is the one of
\* the run, arguments of two characters fit into their buffer, and the indices are bytes that
\* can count what is typed (CMD_MAX_LEN is 32).
THEOREM CommandsTakenApart ==
  ASSUME Grep = <<"g">>, CMD_MAX_LEN \in 2 .. 249, MAX_KBUFF_LEN \in Nat
  PROVE  FilesSpec => []TakenApartAsTyped
<1> DEFINE C == {"a", "g", "x", NUL, SPACE, NEWLINE}
           TooMuch(w, gap, a) ==
             Len(w) > CMD_MAX_LEN \/ Len(w) + gap + Len(a) > MAX_KBUFF_LEN
           As(w, gap, a, junk, end) ==
             LET parsed == Parse(CString(w \o Gap(gap) \o a \o end), junk)
                 typed == gap > 0 \/ a = <<>>
             IN  typed =>
                   IF TooMuch(w, gap, a) \/ (a = <<>> /\ w[1] = "g")
                   THEN parsed = Refused
                   ELSE parsed.ok /\ Text(parsed.argb) = a /\ Text(parsed.exec) = w
<1>c. Marks \subseteq C /\ NUL \in C
  BY DEF Marks
<1>1. ASSUME NEW w \in Word, NEW gap \in 0 .. 2, NEW a \in Argument,
             NEW junk \in Junk({"x", NUL}), NEW end \in {<<>>, <<NEWLINE>>}
      PROVE  As(w, gap, a, junk, end)
  <2> SUFFICES ASSUME gap > 0 \/ a = <<>>
               PROVE  As(w, gap, a, junk, end)
    OBVIOUS
  <2> DEFINE c == Typed(0, w, gap, a, end)
             m1 == Len(w)
             m2 == m1 + gap
             m3 == m2 + Len(a)
             exec == NameCopied(c, 0, m1, junk)
             parsed == Parse(c, junk)
  <2>w. /\ w \in Seq(C) /\ w # <<>> /\ Len(w) \in Nat /\ Len(w) # 0 /\ Len(w) <= CMD_MAX_LEN + 1
        /\ \A k \in 1 .. Len(w) : w[k] \notin {SPACE, NUL, NEWLINE}
    <3>1. PICK n \in 0 .. CMD_MAX_LEN + 1 : w \in [1 .. n -> {"a", "g"}] /\ w # <<>>
      BY DEF Word, Upto
    <3>2. w \in [1 .. n -> C] /\ \A k \in 1 .. n : w[k] \notin {SPACE, NUL, NEWLINE}
      BY <3>1 DEF SPACE, NUL, NEWLINE
    <3> HIDE DEF C
    <3>3. w \in Seq(C) /\ Len(w) = n /\ n \in Nat
      BY <3>2
    <3>4. Len(w) # 0
      BY <3>1, <3>3, EmptySeq
    <3> QED
      BY <3>1, <3>2, <3>3, <3>4
  <2>a. /\ a \in Seq(C) /\ Len(a) \in 0 .. 2
        /\ \A k \in 1 .. Len(a) : a[k] \notin {NUL, NEWLINE}
        /\ a = <<>> \/ (gap > 0 /\ a[1] # SPACE)
        /\ (a = <<>>) = (Len(a) = 0)
    <3>1. PICK n \in 0 .. 2 : a \in [1 .. n -> {"a", SPACE}] /\ (a = <<>> \/ a[1] # SPACE)
      BY DEF Argument, Upto
    <3>2. a \in [1 .. n -> C] /\ \A k \in 1 .. n : a[k] \notin {NUL, NEWLINE}
      BY <3>1 DEF SPACE, NUL, NEWLINE
    <3> HIDE DEF C
    <3>3. a \in Seq(C) /\ Len(a) = n
      BY <3>2
    <3>4. (a = <<>>) = (Len(a) = 0)
      BY <3>3, EmptySeq
    <3> QED
      BY <3>1, <3>2, <3>3, <3>4
  <2>j. junk \in [1 .. CMD_MAX_LEN + 1 -> C]
    BY DEF Junk
  <2> HIDE DEF C
  <2>1. /\ c \in Seq(C)
        /\ Layout(c, 0, m1, m2, m3)
        /\ SubSeq(c, 0 + 1, m1) = w
        /\ SubSeq(c, m2 + 1, m3) = a
        /\ Len(c) <= m3 + 2
    <3>1. 0 \in Nat /\ gap \in Nat
      OBVIOUS
    <3>2. end \in LineEnds
      BY DEF LineEnds
    <3>3. NameLike(w) /\ ArgumentLike(a)
      BY <2>w, <2>a DEF NameLike, ArgumentLike
    <3>4. /\ Typed(0, w, gap, a, end) \in Seq(C)
          /\ Parts(Typed(0, w, gap, a, end), 0, 0 + Len(w), 0 + Len(w) + gap,
                   0 + Len(w) + gap + Len(a), w, a)
          /\ Len(Typed(0, w, gap, a, end)) <= 0 + Len(w) + gap + Len(a) + 2
      BY <1>c, <2>w, <2>a, <3>1, <3>2, <3>3, TypedLayout
    <3>5. 0 + Len(w) = m1 /\ 0 + Len(w) + gap = m2 /\ 0 + Len(w) + gap + Len(a) = m3
      BY <2>w, <2>a
    <3> HIDE DEF m1, m2, m3
    <3> QED
      BY <3>4, <3>5 DEF Parts
  <2>2. CString(w \o Gap(gap) \o a \o end) = c
    <3>1. Spaces(0) = <<>>
      BY DEF Spaces
    <3>2. <<>> \o w = w
      BY <2>w, ConcatEmptySeq
    <3>3. Gap(gap) = Spaces(gap)
      BY DEF Gap, Spaces
    <3> QED
      BY <3>1, <3>2, <3>3, Zenon DEF Typed
  <2> HIDE DEF c
  <2>n. /\ m1 \in Nat /\ m2 \in Nat /\ m3 \in Nat /\ m3 = Len(w) + gap + Len(a)
        /\ (m2 = m3) = (Len(a) = 0) /\ m3 - m2 <= CMD_MAX_LEN
        /\ m3 + 2 <= INDEX_RANGE /\ m1 - 0 = m1
    <3>1. Len(w) \in Nat /\ Len(w) <= CMD_MAX_LEN + 1 /\ Len(a) \in 0 .. 2
      BY <2>w, <2>a
    <3> DEFINE l == Len(w)
               n == Len(a)
    <3>2. l \in Nat /\ l <= CMD_MAX_LEN + 1 /\ n \in 0 .. 2
      BY <3>1
    <3> HIDE DEF l, n
    <3>3. /\ l \in Nat /\ l + gap \in Nat /\ l + gap + n \in Nat
          /\ l + gap = l + gap + n <=> n = 0
          /\ (l + gap + n) - (l + gap) <= CMD_MAX_LEN
          /\ l + gap + n + 2 <= 256 /\ l - 0 = l
      BY <3>2
    <3> QED
      BY <3>3 DEF l, n, INDEX_RANGE
  <2>3. IF \/ m1 > CMD_MAX_LEN \/ m3 > MAX_KBUFF_LEN
           \/ m2 = m3 /\ SubSeq(exec, 1, Len(Grep)) = Grep
          THEN parsed = Refused
          ELSE /\ parsed.ok
               /\ Text(parsed.argb) = SubSeq(c, m2 + 1, m3)
               /\ Text(parsed.exec) = SubSeq(c, 0 + 1, m1)
    <3>0. Len(c) <= INDEX_RANGE /\ CMD_MAX_LEN \in Nat
      <4>1. Len(c) \in Nat
        BY <2>1, LenProperties
      <4> DEFINE l == Len(c)
      <4>2. l \in Nat /\ l <= m3 + 2
        BY <2>1, <4>1
      <4> HIDE DEF l, m3
      <4>3. l <= INDEX_RANGE
        BY <2>n, <4>2 DEF INDEX_RANGE
      <4> QED
        BY <4>3 DEF l
    <3> HIDE DEF m1, m2, m3, exec
    <3>1. TakenApart(c, 0, m1, m2, m3, junk)
      BY <1>c, <2>1, <2>j, <2>n, <3>0, CommandTakenApart
    <3> QED
      BY <3>1, Zenon DEF TakenApart, exec
  <2>4. m1 <= CMD_MAX_LEN => (SubSeq(exec, 1, Len(Grep)) = Grep <=> w[1] = "g")
    <3> SUFFICES ASSUME m1 <= CMD_MAX_LEN
                 PROVE  SubSeq(exec, 1, Len(Grep)) = Grep <=> w[1] = "g"
      OBVIOUS
    <3>1. exec = [k \in 1 .. CMD_MAX_LEN + 1 |->
                    IF k <= Len(w) THEN c[0 + k] ELSE IF k = m1 + 1 THEN NUL ELSE junk[k]]
      BY <2>n DEF NameCopied, Terminator
    <3>2. SubSeq(c, 0 + 1, m1)[1] = c[0 + 1]
      <4>1. 0 \in Nat /\ m1 \in 0 .. Len(c) /\ 1 \in 1 .. m1 - 0
        BY <2>1, <2>n, <2>w DEF Layout
      <4> HIDE DEF m1
      <4>2. \A k \in 1 .. m1 - 0 : SubSeq(c, 0 + 1, m1)[k] = c[0 + k]
        BY <2>1, <4>1, PartOf
      <4> QED
        BY <4>1, <4>2
    <3>3. exec[1] = w[1]
      <4>1. 1 \in 1 .. CMD_MAX_LEN + 1 /\ 1 <= Len(w)
        BY <2>w
      <4>2. w[1] = c[0 + 1]
        BY <2>1, <3>2
      <4> QED
        BY <3>1, <4>1, <4>2
    <3>4. exec \in Seq({exec[k] : k \in 1 .. CMD_MAX_LEN + 1}) /\ Len(exec) = CMD_MAX_LEN + 1
      <4>0. CMD_MAX_LEN + 1 \in Nat
        OBVIOUS
      <4>1. exec = [k \in 1 .. CMD_MAX_LEN + 1 |-> exec[k]]
        BY <3>1
      <4> DEFINE S == {exec[k] : k \in 1 .. CMD_MAX_LEN + 1}
      <4> HIDE DEF exec
      <4>2. exec \in [1 .. CMD_MAX_LEN + 1 -> S]
        BY <4>1
      <4> HIDE DEF S
      <4>3. exec \in Seq(S) /\ Len(exec) = CMD_MAX_LEN + 1
        BY <4>0, <4>2
      <4> QED
        BY <4>3 DEF S
    <3> HIDE DEF exec
    <3>5. /\ Len(SubSeq(exec, 0 + 1, 1)) = 1 - 0
          /\ \A k \in 1 .. 1 - 0 : SubSeq(exec, 0 + 1, 1)[k] = exec[0 + k]
          /\ SubSeq(exec, 0 + 1, 1) \in Seq({exec[k] : k \in 1 .. CMD_MAX_LEN + 1})
      <4> DEFINE S == {exec[k] : k \in 1 .. CMD_MAX_LEN + 1}
      <4>1. exec \in Seq(S) /\ 0 \in Nat /\ 1 \in 0 .. Len(exec)
        BY <3>4
      <4> HIDE DEF S
      <4> QED
        BY <4>1, PartOf DEF S
    <3>6. Len(Grep) = 1 /\ 0 + 1 = 1
      OBVIOUS
    <3> DEFINE part == SubSeq(exec, 1, Len(Grep))
    <3>7. /\ part \in Seq({exec[k] : k \in 1 .. CMD_MAX_LEN + 1}) /\ Len(part) = 1
          /\ part[1] = exec[1]
      BY <3>5, <3>6
    <3> HIDE DEF part
    <3>8. part = <<exec[1]>>
      BY <3>7
    <3> QED
      BY <3>3, <3>8 DEF part
  <2>5. m1 > CMD_MAX_LEN \/ m1 <= CMD_MAX_LEN
    BY <2>n
  <2>6. IF TooMuch(w, gap, a) \/ (a = <<>> /\ w[1] = "g")
          THEN parsed = Refused
          ELSE parsed.ok /\ Text(parsed.argb) = a /\ Text(parsed.exec) = w
    <3>1. TooMuch(w, gap, a) <=> m1 > CMD_MAX_LEN \/ m3 > MAX_KBUFF_LEN
      BY <2>n
    <3>2. (m2 = m3) = (a = <<>>)
      BY <2>a, <2>n
    <3> HIDE DEF parsed, exec, m1, m2, m3, TooMuch
    <3> QED
      BY <2>1, <2>3, <2>4, <2>5, <3>1, <3>2
  <2> HIDE DEF TooMuch, parsed
  <2> QED
    BY <2>2, <2>6, Zenon DEF parsed
<1>2. TakenApartAsTyped
  BY <1>1, Zenon DEF TakenApartAsTyped, AtBoot
<1> QED
  BY <1>2, PTL

\* And for the shell, by ShellOutcome, where no two entries in use have the same name, the
\* name that needs an argument is the one of the run, the one that ends the shell is a name,
\* and what is typed fits into the buffers.
THEOREM ShellTells ==
  ASSUME Grep = <<"g">>, NEW M, Magic \in Seq(M), NameLike(Exit),
         CMD_MAX_LEN \in Nat, CMD_MAX_LEN >= 3, MAX_KBUFF_LEN \in Nat, MAX_KBUFF_LEN >= 4,
         \A j, k \in 1 .. num_of_dirE : NameIn(j) = NameIn(k) => j = k
  PROVE  FilesSpec => []ShellTellsOutcome
<1> DEFINE G == {"g"}
           Letters == {"a", "b", "c", "."}
           C == Letters \union {"x", NUL, SPACE, NEWLINE}
           junk == [k \in 1 .. CMD_MAX_LEN + 1 |-> "x"]
           Buffers == {Magic, Gap(4)}
           FileOf(k) == Content(dir_entries[k].inode)
           named(w) == {k \in 1 .. num_of_dirE : NameOf(dir_entries[k]) = w}
           noneShort(w) == \A k \in named(w) : Len(Magic) <= Len(FileOf(k))
           program(w) == \E k \in named(w) : Executable(FileOf(k))
           ended(status, raised) == IF raised THEN exception ELSE halt(status)
           Told(w, gap, end, status, raised, buffer) ==
             noneShort(w) =>
             shell(w \o Gap(gap) \o end, ended(status, raised), junk, buffer) =
             IF w = Exit /\ gap = 0 THEN "return"
             ELSE IF ~program(w) THEN "no_such_command"
             ELSE IF raised \/ status % 256 = 255 THEN "terminated_by_exception"
             ELSE IF status % 256 = 0 THEN "next_line"
             ELSE "terminated_abnormally"
<1>c. /\ Marks \subseteq C /\ "x" \in C /\ Letters \subseteq C
      /\ \A l \in Letters : l \notin {SPACE, NUL, NEWLINE} /\ l # "g"
  BY DEF Marks, SPACE, NUL, NEWLINE
<1>g. Grep \in Seq(G) /\ Len(Grep) = 1 /\ Grep[1] = "g" /\ NameLike(Grep)
  <2>1. Grep \in Seq({"g"}) /\ Len(Grep) = 1 /\ Grep[1] = "g"
    OBVIOUS
  <2>2. Grep # <<>>
    BY <2>1
  <2>3. \A k \in 1 .. 1 : Grep[k] = "g"
    BY <2>1
  <2>4. \A k \in 1 .. Len(Grep) : Grep[k] \notin {SPACE, NUL, NEWLINE}
    BY <2>1, <2>3 DEF SPACE, NUL, NEWLINE
  <2> QED
    BY <2>1, <2>2, <2>4 DEF NameLike
<1> HIDE DEF C, Letters, G
<1>j. junk \in [1 .. CMD_MAX_LEN + 1 -> C]
  BY <1>c
<1>p. ASSUME NEW inode \in Inode
      PROVE  /\ Len(Magic) <= Len(Content(inode)) <=> LongEnough(inode)
             /\ LongEnough(inode) => (Executable(Content(inode)) <=> LooksExecutable(inode))
  <2> DEFINE size == inode_arr[inode].length
             text == Content(inode)
             n == Len(Magic)
  <2>1. size \in Nat
    BY ImageAssumption
  <2>2. text = [k \in 1 .. size |-> FileByte(inode, k - 1)]
    BY DEF Content, FileByte
  <2> DEFINE B == {FileByte(inode, k - 1) : k \in 1 .. size}
  <2>3. /\ text \in Seq(B) /\ Len(text) = size
        /\ \A k \in 1 .. size : text[k] = FileByte(inode, k - 1)
    <3> HIDE DEF text, size
    <3>1. text \in [1 .. size -> B]
      BY <2>2
    <3> HIDE DEF B
    <3>2. Len(text) = size /\ text \in Seq(B)
      BY <2>1, <3>1
    <3> QED
      BY <2>2, <3>2
  <2>4. n \in Nat
    BY LenProperties
  <2>5. LongEnough(inode) <=> n <= Len(text)
    BY <2>3 DEF LongEnough
  <2>6. ASSUME LongEnough(inode)
        PROVE  Executable(text) <=> LooksExecutable(inode)
    <3> DEFINE part == SubSeq(text, 0 + 1, n)
    <3>1. n \in 0 .. Len(text) /\ 0 \in Nat /\ n <= size /\ n - 0 = n
      BY <2>1, <2>3, <2>4, <2>5, <2>6
    <3> HIDE DEF text, n, B, size
    <3>2. part \in Seq(B) /\ Len(part) = n /\ \A k \in 1 .. n : part[k] = text[0 + k]
      BY <2>3, <3>1, PartOf
    <3>3. \A k \in 1 .. n : part[k] = FileByte(inode, k - 1)
      <4>1. \A k \in 1 .. n : 0 + k = k /\ k \in 1 .. size
        BY <2>1, <2>4, <3>1
      <4> QED
        BY <2>3, <3>2, <4>1
    <3> HIDE DEF part
    <3>4. part = Magic <=> \A k \in 1 .. n : part[k] = Magic[k]
      <4>1. Magic = [k \in 1 .. n |-> Magic[k]] /\ part = [k \in 1 .. n |-> part[k]]
        BY <2>4, <3>2 DEF n
      <4> QED
        BY <4>1
    <3>5. part = SubSeq(text, 1, n)
      BY DEF part
    <3> QED
      BY <2>5, <2>6, <3>3, <3>4, <3>5 DEF Executable, LooksExecutable, n
  <2> QED
    BY <2>5, <2>6 DEF text, n
<1>q. ASSUME NEW w
      PROVE  /\ noneShort(w) => NamesNoShortFile(w)
             /\ noneShort(w) => (program(w) <=> IsProgram(w))
  <2>1. \A k \in 1 .. num_of_dirE : NameOf(dir_entries[k]) = NameIn(k)
    BY DEF NameOf, NameIn
  <2>2. \A k \in 1 .. num_of_dirE : dir_entries[k].inode \in Inode
    BY ImageAssumption
  <2>3. \A k \in 1 .. num_of_dirE :
          /\ Len(Magic) <= Len(FileOf(k)) <=> LongEnough(dir_entries[k].inode)
          /\ LongEnough(dir_entries[k].inode) =>
               (Executable(FileOf(k)) <=> LooksExecutable(dir_entries[k].inode))
    BY <1>p, <2>2
  <2>4. \A k \in 1 .. num_of_dirE : \A j \in 1 .. k - 1 : NameIn(j) # NameIn(k)
    <3> SUFFICES ASSUME NEW k \in 1 .. num_of_dirE, NEW j \in 1 .. k - 1
                 PROVE  NameIn(j) # NameIn(k)
      OBVIOUS
    <3>1. j \in 1 .. num_of_dirE /\ j # k
      BY ImageAssumption
    <3> QED
      BY <3>1
  <2>5. \A k : k \in named(w) <=> (k \in 1 .. num_of_dirE /\ NameIn(k) = w)
    BY <2>1
  <2> HIDE DEF FileOf, named
  <2>6. noneShort(w) => NamesNoShortFile(w)
    BY <2>3, <2>5 DEF NamesNoShortFile
  <2>7. noneShort(w) => (program(w) <=> IsProgram(w))
    BY <2>3, <2>4, <2>5 DEF IsProgram
  <2> QED
    BY <2>6, <2>7
<1> HIDE DEF program, noneShort
<1>1. ASSUME NEW w \in Upto(Letters, 3) \ {<<>>}, NEW gap \in 0 .. 1,
             NEW end \in {<<>>, <<NEWLINE>>}, NEW status \in {0, 1, 255, 256, 511, -1}, NEW raised \in BOOLEAN,
             NEW buffer \in Buffers
      PROVE  Told(w, gap, end, status, raised, buffer)
  <2> SUFFICES ASSUME noneShort(w)
               PROVE  Told(w, gap, end, status, raised, buffer)
    OBVIOUS
  <2> DEFINE e == ended(status, raised)
  <2>1. w \in Seq(C) /\ w # <<>> /\ Len(w) \in 1 .. 3 /\ \A k \in 1 .. Len(w) : w[k] \in Letters
    <3>1. PICK n \in 0 .. 3 : w \in [1 .. n -> Letters] /\ w # <<>>
      BY DEF Upto
    <3>2. w \in Seq(Letters) /\ Len(w) = n
      BY <3>1
    <3>3. Len(w) # 0
      BY <3>1, <3>2, EmptySeq
    <3>4. w \in Seq(C)
      BY <1>c, <3>2, SeqMonotonic
    <3> QED
      BY <3>1, <3>2, <3>3, <3>4
  <2>2. NameLike(w) /\ end \in LineEnds /\ Marks \subseteq C /\ gap \in Nat
    BY <1>c, <2>1 DEF NameLike, LineEnds
  <2>4. e \in 0 .. 256 /\ Said(e) =
          IF raised \/ status % 256 = 255 THEN "terminated_by_exception"
          ELSE IF status % 256 = 0 THEN "next_line" ELSE "terminated_abnormally"
    <3>0. status \in Int
      OBVIOUS
    <3>1. /\ halt(status) \in 0 .. 256 /\ halt(status) # 255
          /\ halt(status) = 256 <=> status % 256 = 255
          /\ halt(status) = 0 <=> status % 256 = 0
          /\ exception = 256
      BY <3>0, HaltIs
    <3>2. CASE raised
      BY <3>1, <3>2 DEF Said
    <3>3. CASE ~raised
      BY <3>1, <3>3 DEF Said
    <3> QED
      BY <3>2, <3>3
  <2>5. /\ Len(w) <= CMD_MAX_LEN /\ Len(w) + gap <= MAX_KBUFF_LEN /\ ~BeginsAsGrep(w)
        /\ Len(Grep) <= CMD_MAX_LEN /\ Len(w) + gap + 2 <= INDEX_RANGE
        /\ NamesNoShortFile(w)
    BY <1>c, <1>g, <1>q, <2>1 DEF BeginsAsGrep, INDEX_RANGE
  <2>6. Gap(gap) = Spaces(gap)
    BY DEF Gap, Spaces
  <2>7. shell(w \o Spaces(gap) \o end, e, junk, buffer) =
        IF w = Exit /\ gap = 0 THEN "return"
        ELSE IF IsProgram(w) THEN Said(e) ELSE "no_such_command"
    <3> HIDE DEF e, junk
    <3>1. AnswersName(w, gap, end, e, junk, buffer)
      BY <1>g, <1>j, <2>1, <2>2, <2>4, <2>5, ShellOfName
    <3> QED
      BY <3>1, Zenon DEF AnswersName
  <2> HIDE DEF e, junk
  <2>9. shell(w \o Gap(gap) \o end, e, junk, buffer) =
        IF w = Exit /\ gap = 0 THEN "return"
        ELSE IF ~program(w) THEN "no_such_command"
        ELSE IF raised \/ status % 256 = 255 THEN "terminated_by_exception"
        ELSE IF status % 256 = 0 THEN "next_line"
        ELSE "terminated_abnormally"
    BY <1>q, <2>4, <2>6, <2>7
  <2> QED
    BY <2>9, Zenon DEF e
<1>2. ShellTellsOutcome
  BY <1>1, Zenon DEF ShellTellsOutcome, AtBoot, program, noneShort, Letters
<1> QED
  BY <1>2, PTL

-----------------------------------------------------------------------------
(* syserr.                                                                 *)

\* What open makes of a table, if it finds the entry.
Uses(table, r) ==
    /\ r.table \in [Fd -> Descriptor]
    /\ r.ret = -1 <=> Free(table) = {}
    /\ Free(table) = {} => r.table = table
    /\ Free(table) # {} => \E fd \in Free(table) : Free(r.table) = Free(table) \ {fd}

LEMMA OpenUses ==
  ASSUME NEW table \in [Fd -> Descriptor], NEW fname, strlen(fname) # 0,
         NEW k \in 1 .. Len(dir_entries), read_dentry_by_name(fname) = dir_entries[k]
  PROVE  Uses(table, open(table, fname))
<1> DEFINE entry == dir_entries[k]
           fd == CHOOSE f \in Free(table) : \A g \in Free(table) : f <= g
<1>1. /\ entry # NotFound /\ Opened(entry) \in Descriptor
      /\ Opened(entry).fops # "closed"
  <2>1. entry.file_type \in {0, 1, 2} /\ entry.inode \in Inode
    BY ImageAssumption DEF RTC_FTYPE, DIR_FTYPE, FILE_FTYPE
  <2> QED
    BY <2>1 DEF NotFound, Opened, Desc, Descriptor
<1>2. open(table, fname) = IF Free(table) = {} THEN [ret |-> -1, table |-> table]
                           ELSE [ret |-> fd, table |-> [table EXCEPT ![fd] = Opened(entry)]]
  BY <1>1 DEF open
<1>3. CASE Free(table) = {}
  BY <1>2, <1>3 DEF Uses
<1>4. CASE Free(table) # {}
  <2>1. Free(table) \in SUBSET Nat
    BY FilesAssumption DEF Free, FD_START
  <2>2. \E f \in Free(table) : \A g \in Free(table) : f <= g
    BY <1>4, <2>1, LeastElement
  <2>3. fd \in Free(table)
    BY <2>2
  <2> HIDE DEF fd, entry
  <2>4. fd \in Fd /\ fd # -1 /\ fd \in Nat
    BY <2>1, <2>3, FilesAssumption DEF Free, Fd, FD_START
  <2> DEFINE new == [table EXCEPT ![fd] = Opened(entry)]
  <2>5. new \in [Fd -> Descriptor]
    BY <1>1, <2>4
  <2>6. Free(new) = Free(table) \ {fd}
    <3>1. \A f \in FD_START .. FD_MAX - 1 : f \in Fd
      BY FilesAssumption DEF Fd, FD_START
    <3>2. \A f \in Fd : new[f] = IF f = fd THEN Opened(entry) ELSE table[f]
      BY <2>4
    <3> HIDE DEF new
    <3> QED
      BY <1>1, <2>3, <3>1, <3>2 DEF Free
  <2> HIDE DEF new
  <2>7. open(table, fname).ret = fd /\ open(table, fname).table = new
    BY <1>2, <1>4 DEF new
  <2> QED
    BY <1>4, <2>3, <2>4, <2>5, <2>6, <2>7 DEF Uses
<1> QED
  BY <1>3, <1>4

\* The calls of err_open_lots.
FailsEq(f, dot) ==
    f = [at \in Opening |->
          IF at.left = 0 THEN 0
          ELSE LET r == open(at.table, dot)
               IN  (IF r.ret = -1 THEN 1 ELSE 0) + f[[left |-> at.left - 1, table |-> r.table]]]

\* Of the calls that are left, as many fail as there are more than free descriptors.
LEMMA OpenLotsPasses ==
  ASSUME NEW table \in [Fd -> Descriptor], Free(table) = FD_START .. FD_MAX - 1,
         NEW dot, strlen(dot) # 0,
         NEW k \in 1 .. Len(dir_entries), read_dentry_by_name(dot) = dir_entries[k]
  PROVE  err_open_lots(table, dot)
<1> DEFINE D == Opening
           calls == FD_MAX - FD_START + 1
           Free_(at) == Cardinality(Free(at.table))
           Next_(at) == [left |-> at.left - 1, table |-> open(at.table, dot).table]
           Fails(at) == IF open(at.table, dot).ret = -1 THEN 1 ELSE 0
           Result == [at \in D |-> IF at.left > Free_(at) THEN at.left - Free_(at) ELSE 0]
<1>1. D = [left : 0 .. calls, table : [Fd -> Descriptor]] /\ calls \in Nat \ {0}
  BY FilesAssumption DEF Opening, FD_START
<1> HIDE DEF D, calls
<1>2. ASSUME NEW at \in D
      PROVE  IsFiniteSet(Free(at.table)) /\ Free_(at) \in Nat
  <2>1. IsFiniteSet(FD_START .. FD_MAX - 1)
    BY FilesAssumption, FS_Interval DEF FD_START
  <2>2. Free(at.table) \in SUBSET (FD_START .. FD_MAX - 1)
    BY DEF Free
  <2>3. IsFiniteSet(Free(at.table))
    BY <2>1, <2>2, FS_Subset
  <2> QED
    BY <2>3, FS_CardinalityType
<1>3. ASSUME NEW at \in D, at.left # 0
      PROVE  /\ Next_(at) \in D
             /\ Result[at] = Fails(at) + Result[Next_(at)]
  <2> DEFINE r == open(at.table, dot)
             new == r.table
             left == at.left
             n == Cardinality(Free(at.table))
  <2>1. at.table \in [Fd -> Descriptor] /\ left \in 0 .. calls /\ left # 0
    BY <1>1, <1>3
  <2>2. Uses(at.table, r)
    BY <2>1, OpenUses
  <2>3. Next_(at) = [left |-> left - 1, table |-> new]
    OBVIOUS
  <2> HIDE DEF r, left
  <2>4. Next_(at) \in D
    <3>1. left - 1 \in 0 .. calls /\ new \in [Fd -> Descriptor]
      BY <1>1, <2>1, <2>2 DEF Uses
    <3> HIDE DEF new
    <3> QED
      BY <1>1, <2>3, <3>1
  <2>5. Free_(Next_(at)) = Cardinality(Free(new))
    BY <2>3
  <2>6. Result[Next_(at)] = IF left - 1 > Cardinality(Free(new))
                              THEN (left - 1) - Cardinality(Free(new)) ELSE 0
    BY <2>3, <2>4, <2>5
  <2>7. Result[at] = IF left > n THEN left - n ELSE 0
    BY DEF left
  <2>8. Fails(at) = IF r.ret = -1 THEN 1 ELSE 0
    BY DEF r
  <2>9. left \in Nat /\ n \in Nat
    BY <1>1, <1>2, <2>1
  <2>10. CASE Free(at.table) = {}
    <3>1. n = 0
      BY <2>10, FS_EmptySet
    <3>2. r.ret = -1 /\ new = at.table
      BY <2>2, <2>10 DEF Uses
    <3> HIDE DEF n, new, Result, Next_, Fails
    <3>3. Cardinality(Free(new)) = 0
      BY <3>1, <3>2 DEF n
    <3> QED
      BY <2>1, <2>4, <2>6, <2>7, <2>8, <2>9, <3>1, <3>2, <3>3
  <2>11. CASE Free(at.table) # {}
    <3>1. r.ret # -1 /\ \E fd \in Free(at.table) : Free(new) = Free(at.table) \ {fd}
      BY <2>2, <2>11 DEF Uses
    <3>2. PICK fd \in Free(at.table) : Free(new) = Free(at.table) \ {fd}
      BY <3>1
    <3>3. Cardinality(Free(at.table) \ {fd}) = n - 1
      BY <1>2, FS_RemoveElement
    <3>4. Cardinality(Free(new)) = n - 1
      BY <3>2, <3>3
    <3> HIDE DEF n, new, Result, Next_, Fails
    <3> QED
      BY <2>1, <2>4, <2>6, <2>7, <2>8, <2>9, <3>1, <3>4
  <2> QED
    BY <2>10, <2>11
<1>4. \A at \in D : at.left = 0 => Result[at] = 0
  BY <1>2
<1>5. \A at \in D : Result[at] = IF at.left = 0 THEN 0 ELSE Fails(at) + Result[Next_(at)]
  BY <1>3, <1>4
<1>6. Result = [at \in D |-> Result[at]]
  OBVIOUS
<1> DEFINE start == [left |-> calls, table |-> table]
<1>7. start \in D /\ Result[start] = 1
  <2>1. start \in D
    BY <1>1
  <2>2. Free_(start) = FD_MAX - FD_START
    <3>1. Cardinality(FD_START .. FD_MAX - 1) = FD_MAX - FD_START
      BY FilesAssumption, FS_Interval DEF FD_START
    <3> QED
      BY <3>1
  <2>3. start.left = calls
    OBVIOUS
  <2>4. calls > FD_MAX - FD_START /\ calls - (FD_MAX - FD_START) = 1
    BY FilesAssumption DEF calls, FD_START
  <2> HIDE DEF start
  <2> QED
    BY <2>1, <2>2, <2>3, <2>4
<1> HIDE DEF Result, start
<1>8. \E f : FailsEq(f, dot)
  <2>1. Result = [at \in D |-> IF at.left = 0 THEN 0 ELSE Fails(at) + Result[Next_(at)]]
    BY <1>5, <1>6
  <2> QED
    BY <2>1, Zenon DEF FailsEq, D
<1> DEFINE f == CHOOSE f : FailsEq(f, dot)
<1>9. f = [at \in D |-> IF at.left = 0 THEN 0 ELSE Fails(at) + f[Next_(at)]]
  <2>1. FailsEq(f, dot)
    BY <1>8, Zenon
  <2> QED
    BY <2>1, Zenon DEF FailsEq, D
<1>10. err_open_lots(table, dot) <=> f[start] = 1
  BY Zenon DEF err_open_lots, FailsEq, start, calls
<1> HIDE DEF f, Fails
<1>11. Same(D, f, Result)
  <2> DEFINE rank == [at \in D |-> at.left]
             next == [at \in D |-> IF at.left = 0 THEN at ELSE Next_(at)]
  <2>1. rank \in [D -> Nat]
    BY <1>1
  <2>2. next \in [D -> D]
    BY <1>3
  <2>3. ASSUME NEW at \in D
        PROVE  \/ f[at] = Result[at]
               \/ /\ rank[next[at]] < rank[at]
                  /\ f[next[at]] = Result[next[at]] => f[at] = Result[at]
    <3>1. CASE at.left = 0
      BY <1>4, <1>9, <3>1
    <3>2. CASE at.left # 0
      <4>1. Next_(at) \in D /\ next[at] = Next_(at)
        BY <1>3, <3>2
      <4>2. Next_(at).left < at.left
        BY <1>1
      <4> HIDE DEF Next_
      <4> QED
        BY <1>5, <1>9, <3>2, <4>1, <4>2
    <3> QED
      BY <3>1, <3>2
  <2> HIDE DEF rank, next
  <2>4. SameOrSteps(D, rank, next, f, Result)
    BY <2>3 DEF SameOrSteps
  <2> QED
    BY <2>1, <2>2, <2>4, StepsAgree
<1> QED
  BY <1>7, <1>10, <1>11 DEF Same

\* The length of a C string made of a text, whatever the text's letters are.
LEMMA StrlenOfText ==
  ASSUME NEW T, NEW text \in Seq(T), \A k \in 1 .. Len(text) : text[k] # NUL
  PROVE  strlen(CString(text)) = Len(text)
<1> DEFINE C == T \union {NUL}
<1>1. NUL \in C /\ text \in Seq(C)
  <2>1. T \subseteq C
    OBVIOUS
  <2> HIDE DEF C
  <2> QED
    BY <2>1 DEF C
<1> HIDE DEF C
<1> QED
  BY <1>1, CStringLength

\* A name that no entry in use has is not opened, and neither is no name.
LEMMA OpenNeeds ==
  ASSUME NEW table, NEW T, NEW text \in Seq(T), \A k \in 1 .. Len(text) : text[k] # NUL,
         \A k \in 1 .. num_of_dirE : NameIn(k) # text
  PROVE  open(table, CString(text)).ret = -1
<1>1. CASE text # <<>>
  <2>1. read_dentry_by_name(CString(text)) = NotFound
    BY <1>1, SearchFindsName
  <2> QED
    BY <2>1 DEF open
<1>2. CASE text = <<>>
  <2>1. strlen(CString(text)) = Len(text)
    BY StrlenOfText
  <2>2. strlen(CString(text)) = 0
    BY <1>2, <2>1
  <2> QED
    BY <2>2 DEF open
<1> QED
  BY <1>1, <1>2

\* The tests of syserr pass for every program that execute starts, whatever was opened,
\* halted and launched before, on an image that has an entry "." and none of the two names
\* that shall not be found (the image of the repository has a "." and no "helloo" or "shel").
\* A descriptor number that the test takes for too big must be: there are 8.
THEOREM SysErrTestsPass ==
  ASSUME FD_MAX <= BIG_FD, \E k \in 1 .. num_of_dirE : NameIn(k) = <<".">>,
         \A k \in 1 .. num_of_dirE : NameIn(k) # <<"a", "b", "c", "d">> /\ NameIn(k) # <<"a">>
  PROVE  FilesSpec => []SysErrPasses
<1> DEFINE dot == CString(<<".">>)
           longer == CString(<<"a", "b", "c", "d">>)
           shorter == CString(<<"a">>)
           Passes(table) == /\ err_neg_fd(table) /\ err_big_fd(table)
                            /\ err_open_lots(table, dot) /\ err_open(table, longer, shorter)
                            /\ err_unopened(table) /\ err_stdin_out(table)
                            /\ err_vidmap /\ err_syscall_num
<1>1. ASSUME FilesInv, NEW p \in Pid \ InUse
      PROVE  Passes(pcb_init(fd_table[p]))
  <2> DEFINE table == pcb_init(fd_table[p])
  <2>1. /\ table \in [Fd -> Descriptor]
        /\ \A fd \in Fd : fd >= FD_START => table[fd] = Closed
        /\ table[0].fops = "std_in" /\ table[1].fops = "std_out"
    <3>1. Sound(fd_table[p]) /\ \A fd \in Fd : fd >= FD_START => fd_table[p][fd] = Closed
      BY <1>1 DEF FilesInv, FreeSlotsClosed
    <3>2. Sound(table) /\ \A fd \in Fd : fd >= FD_START => table[fd] = fd_table[p][fd]
      BY <3>1, PcbInitSound
    <3>3. table[0].fops = "std_in" /\ table[1].fops = "std_out"
      BY <3>1, StandardFds DEF pcb_init, Sound, Desc
    <3> QED
      BY <3>1, <3>2, <3>3 DEF Sound
  <2> HIDE DEF table
  <2>2. FD_MAX \in Nat /\ 0 \in Fd /\ 1 \in Fd
    BY StandardFds, FilesAssumption
  <2>3. err_neg_fd(table) /\ err_big_fd(table)
    BY <2>2 DEF err_neg_fd, err_big_fd, err_bad_fd, NEG_FD, BIG_FD, ReadFails, WriteFails,
                HasDescriptor, Fd, close, FD_START
  <2>4. err_open_lots(table, dot)
    <3>1. Free(table) = FD_START .. FD_MAX - 1
      BY <2>1, ClosedSound, FilesAssumption DEF Free, Fd, FD_START
    <3>2. <<".">> \in Seq({"."}) /\ <<".">> # <<>> /\ \A k \in 1 .. Len(<<".">>) : <<".">>[k] # NUL
      BY DEF NUL
    <3>3. \E k \in 1 .. num_of_dirE : read_dentry_by_name(dot) = dir_entries[k]
      <4> DEFINE text == <<".">>
      <4> HIDE DEF text
      <4>1. \E k \in 1 .. num_of_dirE : NameIn(k) = text
        BY DEF text
      <4>2. text \in Seq({"."}) /\ text # <<>> /\ \A k \in 1 .. Len(text) : text[k] # NUL
        BY <3>2 DEF text
      <4>3. \E k \in 1 .. num_of_dirE : read_dentry_by_name(CString(text)) = dir_entries[k]
        BY <4>1, <4>2, SearchFindsName
      <4> QED
        BY <4>3, Zenon DEF text
    <3>4. strlen(dot) # 0
      <4> DEFINE text == <<".">>
      <4>1. text \in Seq({"."}) /\ Len(text) = 1
        OBVIOUS
      <4>2. \A k \in 1 .. Len(text) : text[k] # NUL
        BY <3>2
      <4> HIDE DEF text
      <4>3. strlen(CString(text)) # 0
        <5>1. strlen(CString(text)) = Len(text)
          BY <4>1, <4>2, StrlenOfText
        <5> QED
          BY <4>1, <5>1
      <4> QED
        BY <4>3, Zenon DEF text
    <3>5. PICK k \in 1 .. Len(dir_entries) : read_dentry_by_name(dot) = dir_entries[k]
      BY <3>3, ImageAssumption
    <3> HIDE DEF dot
    <3> QED
      BY <2>1, <3>1, <3>4, <3>5, OpenLotsPasses
  <2>5. err_open(table, longer, shorter)
    <3>1. open(table, longer).ret = -1
      <4> DEFINE text == <<"a", "b", "c", "d">>
      <4>1. text \in Seq({"a", "b", "c", "d"}) /\ \A k \in 1 .. Len(text) : text[k] # NUL
        BY DEF NUL
      <4>2. \A k \in 1 .. num_of_dirE : NameIn(k) # text
        OBVIOUS
      <4> HIDE DEF text
      <4>3. open(table, CString(text)).ret = -1
        BY <4>1, <4>2, OpenNeeds
      <4> QED
        BY <4>3, Zenon DEF text
    <3>2. open(table, shorter).ret = -1
      <4> DEFINE text == <<"a">>
      <4>1. text \in Seq({"a"}) /\ \A k \in 1 .. Len(text) : text[k] # NUL
        BY DEF NUL
      <4>2. \A k \in 1 .. num_of_dirE : NameIn(k) # text
        OBVIOUS
      <4> HIDE DEF text
      <4>3. open(table, CString(text)).ret = -1
        BY <4>1, <4>2, OpenNeeds
      <4> QED
        BY <4>3, Zenon DEF text
    <3>3. open(table, <<NUL>>).ret = -1
      <4>1. strlen(<<NUL>>) = 0
        BY DEF strlen
      <4> QED
        BY <4>1 DEF open
    <3> QED
      BY <3>1, <3>2, <3>3, Zenon DEF err_open
  <2>6. err_unopened(table)
    BY <2>1, ClosedSound, FilesAssumption
    DEF err_unopened, close, ReadFails, WriteFails, HasDescriptor, Fd, FD_START
  <2>7. err_stdin_out(table)
    BY <2>1, <2>2 DEF err_stdin_out, ReadFails, WriteFails
  <2>8. err_vidmap /\ err_syscall_num
    BY DEF err_vidmap, err_syscall_num, VidmapAccepts, Dispatches, _128_MB, _132_MB, BIG_FD, NEG_FD
  <2> QED
    BY <2>3, <2>4, <2>5, <2>6, <2>7, <2>8 DEF table
<1>2. FilesInv => SysErrPasses
  BY <1>1, Zenon DEF SysErrPasses
<1> QED
  BY <1>2, FilesInvariant, PTL

-----------------------------------------------------------------------------
(* Numbers.                                                                *)

\* The value of a digit, and the values of the first digits of a sequence.
DigitValue(c) == CHOOSE d \in 0 .. 15 : Digit[d + 1] = c
ValueEq(f, digits, radix) ==
    f = [k \in 0 .. Len(digits) |->
          IF k = 0 THEN 0 ELSE f[k - 1] * radix + (CHOOSE d \in 0 .. 15 : Digit[d + 1] = digits[k])]
Values(f, digits, radix) ==
    /\ f \in [0 .. Len(digits) -> Nat]
    /\ f[0] = 0
    /\ \A k \in 1 .. Len(digits) : f[k] = f[k - 1] * radix + DigitValue(digits[k])

\* Two digits are not the same character.
LEMMA DigitsDiffer ==
  /\ \A d \in 0 .. 15 : DigitValue(Digit[d + 1]) = d
  /\ \A d \in 0 .. 15 : Digit[d + 1] = "0" => d = 0
  /\ Digit[1] = "0" /\ "0" \in Digits
<1>1. \A d, e \in 0 .. 15 : Digit[d + 1] = Digit[e + 1] => d = e
  BY DEF Digit
<1>2. Digit[1] = "0"
  BY DEF Digit
<1>3. \A d \in 0 .. 15 : DigitValue(Digit[d + 1]) = d
  <2> TAKE d \in 0 .. 15
  <2> DEFINE c == Digit[d + 1]
  <2>1. \A e \in 0 .. 15 : Digit[e + 1] = c => e = d
    BY <1>1
  <2>2. Digit[d + 1] = c
    OBVIOUS
  <2> HIDE DEF c
  <2>3. DigitValue(c) = d
    BY <2>1, <2>2 DEF DigitValue
  <2> QED
    BY <2>3 DEF c
<1>4. \A d \in 0 .. 15 : Digit[d + 1] = "0" => d = 0
  <2>1. Digit[0 + 1] = "0" /\ 0 \in 0 .. 15
    BY <1>2
  <2> QED
    BY <1>1, <2>1
<1>5. "0" \in Digits
  BY <1>2 DEF Digits
<1> QED
  BY <1>2, <1>3, <1>4, <1>5

LEMMA DigitNat ==
  ASSUME NEW c \in Digits
  PROVE  DigitValue(c) \in 0 .. 15 /\ Digit[DigitValue(c) + 1] = c
<1>1. PICK k \in 1 .. 16 : c = Digit[k]
  BY DEF Digits
<1>2. k - 1 \in 0 .. 15 /\ (k - 1) + 1 = k
  OBVIOUS
<1>3. DigitValue(Digit[(k - 1) + 1]) = k - 1
  BY <1>2, DigitsDiffer
<1> QED
  BY <1>1, <1>2, <1>3

\* Number means what it says.
LEMMA NumberIs ==
  ASSUME NEW digits \in Seq(Digits), NEW radix \in Nat
  PROVE  \E f : Values(f, digits, radix) /\ Number(digits, radix) = f[Len(digits)]
<1> DEFINE n == Len(digits)
           D == 0 .. n
           rank == [k \in D |-> k]
           Step == [f \in [D -> Nat] |->
                     [k \in D |-> IF k = 0 THEN 0 ELSE f[k - 1] * radix + DigitValue(digits[k])]]
<1>1. n \in Nat /\ \A k \in 1 .. n : DigitValue(digits[k]) \in Nat
  <2>1. \A k \in 1 .. n : digits[k] \in Digits
    OBVIOUS
  <2> QED
    BY <2>1, DigitNat
<1> HIDE DEF n
<1>2. ASSUME NEW f \in [D -> Nat], NEW k \in D
      PROVE  (IF k = 0 THEN 0 ELSE f[k - 1] * radix + DigitValue(digits[k])) \in Nat
  <2>1. CASE k # 0
    <3>1. k - 1 \in D /\ k \in 1 .. n
      BY <1>1, <2>1
    <3>2. f[k - 1] \in Nat /\ DigitValue(digits[k]) \in Nat
      BY <1>1, <3>1
    <3> QED
      BY <3>2
  <2> QED
    BY <2>1
<1>3. Step \in [[D -> Nat] -> [D -> Nat]]
  BY <1>2
<1>4. rank \in [D -> Nat]
  BY <1>1
<1>5. LooksDown(D, Nat, rank, Step)
  <2> SUFFICES ASSUME NEW f \in [D -> Nat], NEW g \in [D -> Nat], NEW k \in D,
                      \A j \in D : rank[j] < rank[k] => f[j] = g[j]
               PROVE  Step[f][k] = Step[g][k]
    BY Zenon DEF LooksDown
  <2>1. k # 0 => k - 1 \in D /\ k - 1 < k
    BY <1>1
  <2>2. k # 0 => f[k - 1] = g[k - 1]
    BY <2>1
  <2> QED
    BY <2>2
<1>6. PICK f \in [D -> Nat] : f = Step[f]
  <2>1. Nat # {}
    OBVIOUS
  <2> HIDE DEF rank, Step, D
  <2>2. IsDefined(D, Nat, Step)
    BY <1>3, <1>4, <1>5, <2>1, RecursionExists
  <2> QED
    BY <2>2 DEF IsDefined
<1>7. ValueEq(f, digits, radix)
  BY <1>6 DEF ValueEq, DigitValue, n
<1> DEFINE v == CHOOSE g : ValueEq(g, digits, radix)
<1>8. v = [k \in D |-> IF k = 0 THEN 0 ELSE v[k - 1] * radix + DigitValue(digits[k])]
  <2>1. ValueEq(v, digits, radix)
    BY <1>7, Zenon
  <2> QED
    BY <2>1, Zenon DEF ValueEq, DigitValue, n
<1>9. Number(digits, radix) = v[n]
  BY Zenon DEF Number, ValueEq, n
<1> HIDE DEF v
<1>10. f = [k \in D |-> IF k = 0 THEN 0 ELSE f[k - 1] * radix + DigitValue(digits[k])]
  BY <1>6
<1>11. Same(D, v, f)
  <2> DEFINE next == [k \in D |-> IF k = 0 THEN 0 ELSE k - 1]
  <2>1. next \in [D -> D]
    BY <1>1
  <2>2. ASSUME NEW k \in D
        PROVE  \/ v[k] = f[k]
               \/ rank[next[k]] < rank[k] /\ (v[next[k]] = f[next[k]] => v[k] = f[k])
    <3>1. CASE k = 0
      BY <1>8, <1>10, <3>1
    <3>2. CASE k # 0
      <4>1. k - 1 \in D /\ k - 1 < k /\ next[k] = k - 1
        BY <1>1, <3>2
      <4>2. v[k - 1] = f[k - 1] => v[k] = f[k]
        BY <1>8, <1>10, <3>2
      <4> QED
        BY <4>1, <4>2
    <3> QED
      BY <3>1, <3>2
  <2> HIDE DEF next, rank
  <2>3. SameOrSteps(D, rank, next, v, f)
    BY <2>2 DEF SameOrSteps
  <2> QED
    BY <1>4, <2>1, <2>3, StepsAgree
<1>12. v[n] = f[n]
  BY <1>1, <1>11 DEF Same
<1>13. Values(f, digits, radix)
  <2>1. \A k \in 1 .. n : k \in D /\ k # 0
    BY <1>1
  <2>2. f[0] = 0 /\ \A k \in 1 .. n : f[k] = f[k - 1] * radix + DigitValue(digits[k])
    BY <1>1, <1>10, <2>1
  <2> QED
    BY <2>2 DEF Values, n
<1> QED
  BY <1>9, <1>12, <1>13 DEF n

\* Where a sequence goes on as another one does, with nothing before, so do the values.
LEMMA ValuesAgree ==
  ASSUME NEW s, NEW t, NEW radix \in Nat, NEW f, NEW g, Len(s) \in Nat, Len(t) \in Nat,
         Values(f, s, radix), Values(g, t, radix), NEW j \in Nat, j + Len(s) <= Len(t),
         g[j] = 0, \A k \in 1 .. Len(s) : t[j + k] = s[k]
  PROVE  g[j + Len(s)] = f[Len(s)]
<1> DEFINE n == Len(s)
           D == 0 .. n
           h == [k \in D |-> g[j + k]]
           rank == [k \in D |-> k]
           next == [k \in D |-> IF k = 0 THEN 0 ELSE k - 1]
<1>1. rank \in [D -> Nat] /\ next \in [D -> D]
  OBVIOUS
<1>2. ASSUME NEW k \in D
      PROVE  \/ h[k] = f[k]
             \/ rank[next[k]] < rank[k] /\ (h[next[k]] = f[next[k]] => h[k] = f[k])
  <2>1. CASE k = 0
    BY <2>1 DEF Values
  <2>2. CASE k # 0
    <3>1. k \in 1 .. n /\ j + k \in 1 .. Len(t) /\ (j + k) - 1 = j + (k - 1) /\ k - 1 \in D
      BY <2>2
    <3>2. g[j + k] = g[j + (k - 1)] * radix + DigitValue(t[j + k])
      BY <3>1 DEF Values
    <3>3. f[k] = f[k - 1] * radix + DigitValue(s[k]) /\ t[j + k] = s[k]
      BY <3>1 DEF Values
    <3>4. next[k] = k - 1 /\ rank[next[k]] < rank[k]
      BY <2>2, <3>1
    <3>5. h[k - 1] = g[j + (k - 1)] /\ h[k] = g[j + k]
      BY <3>1
    <3> HIDE DEF h, next, rank
    <3> QED
      BY <3>2, <3>3, <3>4, <3>5
  <2> QED
    BY <2>1, <2>2
<1>3. n \in D /\ h[n] = g[j + n]
  OBVIOUS
<1> HIDE DEF D, h, rank, next
<1>4. SameOrSteps(D, rank, next, h, f)
  BY <1>2 DEF SameOrSteps
<1>5. Same(D, h, f)
  BY <1>1, <1>4, StepsAgree
<1> QED
  BY <1>3, <1>5 DEF Same

LEMMA NumberOfNone ==
  ASSUME NEW radix \in Nat
  PROVE  Number(<<>>, radix) = 0
<1> DEFINE none == <<>>
<1>1. none \in Seq(Digits) /\ Len(none) = 0
  OBVIOUS
<1> HIDE DEF none
<1>2. Number(none, radix) = 0
  <2>1. PICK f : Values(f, none, radix) /\ Number(none, radix) = f[Len(none)]
    BY <1>1, NumberIs
  <2> QED
    BY <1>1, <2>1 DEF Values
<1> QED
  BY <1>2 DEF none

LEMMA NumberOfAppend ==
  ASSUME NEW s \in Seq(Digits), NEW c \in Digits, NEW radix \in Nat
  PROVE  Number(Append(s, c), radix) = Number(s, radix) * radix + DigitValue(c)
<1> DEFINE t == Append(s, c)
           n == Len(s)
<1>1. /\ t \in Seq(Digits) /\ n \in Nat /\ Len(t) = n + 1 /\ t[n + 1] = c
      /\ \A k \in 1 .. n : t[k] = s[k]
  BY AppendProperties, LenProperties
<1> HIDE DEF t
<1>2. PICK f : Values(f, s, radix) /\ Number(s, radix) = f[Len(s)]
  BY NumberIs
<1>3. PICK g : Values(g, t, radix) /\ Number(t, radix) = g[Len(t)]
  BY <1>1, NumberIs
<1>4. g[0 + Len(s)] = f[Len(s)]
  <2>1. /\ Len(t) \in Nat /\ 0 + Len(s) <= Len(t) /\ 0 \in Nat /\ g[0] = 0
        /\ \A k \in 1 .. Len(s) : t[0 + k] = s[k]
    BY <1>1, <1>3 DEF Values
  <2> QED
    BY <1>1, <1>2, <1>3, <2>1, ValuesAgree
<1>5. n + 1 \in 1 .. Len(t) /\ (n + 1) - 1 = n /\ 0 + n = n
  BY <1>1
<1>6. g[n + 1] = g[n] * radix + DigitValue(c)
  BY <1>1, <1>3, <1>5 DEF Values
<1>7. Number(t, radix) = Number(s, radix) * radix + DigitValue(c)
  BY <1>1, <1>2, <1>3, <1>4, <1>5, <1>6
<1> QED
  BY <1>7 DEF t

\* Zeroes in front change nothing.
LEMMA NumberOfPadded ==
  ASSUME NEW s \in Seq(Digits), NEW j \in Nat, NEW radix \in Nat
  PROVE  /\ [k \in 1 .. j |-> "0"] \o s \in Seq(Digits)
         /\ Len([k \in 1 .. j |-> "0"] \o s) = j + Len(s)
         /\ Number([k \in 1 .. j |-> "0"] \o s, radix) = Number(s, radix)
<1> DEFINE z == [k \in 1 .. j |-> "0"]
           t == z \o s
           n == Len(s)
<1>1. z \in Seq(Digits) /\ Len(z) = j /\ \A k \in 1 .. j : z[k] = "0"
  BY DigitsDiffer
<1> HIDE DEF z
<1>2. /\ t \in Seq(Digits) /\ n \in Nat /\ Len(t) = j + n
      /\ \A k \in 1 .. j : t[k] = "0"
      /\ \A k \in 1 .. n : t[j + k] = s[k]
  <2>1. /\ t \in Seq(Digits) /\ n \in Nat /\ Len(t) = j + n
        /\ \A i \in 1 .. Len(z) + Len(s) : t[i] = IF i <= Len(z) THEN z[i] ELSE s[i - Len(z)]
    BY <1>1, ConcatProperties, LenProperties
  <2>2. \A k \in 1 .. j : k \in 1 .. j + n /\ k <= j
    BY <2>1
  <2>3. \A k \in 1 .. n : j + k \in 1 .. j + n /\ ~(j + k <= j) /\ (j + k) - j = k
    BY <2>1
  <2> HIDE DEF t
  <2>4. \A k \in 1 .. j : t[k] = "0"
    BY <1>1, <2>1, <2>2
  <2>5. \A k \in 1 .. n : t[j + k] = s[k]
    BY <1>1, <2>1, <2>3
  <2> QED
    BY <2>1, <2>4, <2>5
<1> HIDE DEF t
<1>3. PICK f : Values(f, s, radix) /\ Number(s, radix) = f[Len(s)]
  BY NumberIs
<1>4. PICK g : Values(g, t, radix) /\ Number(t, radix) = g[Len(t)]
  BY <1>2, NumberIs
<1>5. g[j] = 0
  <2> DEFINE D == 0 .. j
             zero == [k \in D |-> 0]
             rank == [k \in D |-> k]
             next == [k \in D |-> IF k = 0 THEN 0 ELSE k - 1]
  <2>1. rank \in [D -> Nat] /\ next \in [D -> D]
    OBVIOUS
  <2>2. DigitValue("0") = 0
    <3>1. 0 \in 0 .. 15 /\ 0 + 1 = 1
      OBVIOUS
    <3>2. DigitValue(Digit[0 + 1]) = 0
      BY <3>1, DigitsDiffer
    <3> QED
      BY <3>1, <3>2, DigitsDiffer
  <2>3. ASSUME NEW k \in D
        PROVE  \/ g[k] = zero[k]
               \/ rank[next[k]] < rank[k] /\ (g[next[k]] = zero[next[k]] => g[k] = zero[k])
    <3>1. CASE k = 0
      BY <1>4, <3>1 DEF Values
    <3>2. CASE k # 0
      <4>1. k \in 1 .. j /\ k \in 1 .. Len(t) /\ k - 1 \in D /\ next[k] = k - 1
        BY <1>2, <3>2
      <4>2. g[k] = g[k - 1] * radix + 0
        BY <1>2, <1>4, <2>2, <4>1 DEF Values
      <4> QED
        BY <4>1, <4>2
    <3> QED
      BY <3>1, <3>2
  <2>4. j \in D /\ zero[j] = 0
    OBVIOUS
  <2> HIDE DEF D, zero, rank, next
  <2>5. SameOrSteps(D, rank, next, g, zero)
    BY <2>3 DEF SameOrSteps
  <2>6. Same(D, g, zero)
    BY <2>1, <2>5, StepsAgree
  <2> QED
    BY <2>4, <2>6 DEF Same
<1>6. g[j + Len(s)] = f[Len(s)]
  <2>1. /\ Len(s) \in Nat /\ Len(t) \in Nat /\ j + Len(s) <= Len(t)
        /\ \A k \in 1 .. Len(s) : t[j + k] = s[k]
    BY <1>2
  <2>2. Values(f, s, radix) /\ Values(g, t, radix)
    BY <1>3, <1>4
  <2> QED
    BY <1>5, <2>1, <2>2, ValuesAgree
<1>7. Number(t, radix) = Number(s, radix)
  BY <1>2, <1>3, <1>4, <1>6
<1> QED
  BY <1>2, <1>7 DEF t, z

\* What itoa and its parts show of a number.
Shows(w, v, radix) ==
    /\ w \in Seq(Digits) /\ Number(w, radix) = v
    /\ v # 0 => Len(w) >= 1 /\ w[1] # "0"

LEMMA BackwardsIs ==
  ASSUME NEW C, NEW s \in Seq(C)
  PROVE  Backwards(s) \in Seq(C) /\ Len(Backwards(s)) = Len(s)
<1>1. Len(s) \in Nat /\ \A k \in 1 .. Len(s) : (Len(s) + 1) - k \in 1 .. Len(s)
  BY LenProperties
<1> DEFINE n == Len(s)
<1> HIDE DEF n
<1>2. [k \in 1 .. n |-> s[(n + 1) - k]] \in [1 .. n -> C]
  BY <1>1 DEF n
<1>3. Backwards(s) \in [1 .. n -> C]
  BY <1>2 DEF Backwards, n
<1> QED
  BY <1>1, <1>3 DEF n

LEMMA BackwardsOfMore ==
  ASSUME NEW C, NEW s \in Seq(C), NEW c \in C
  PROVE  Backwards(<<c>> \o s) = Append(Backwards(s), c)
<1> DEFINE t == <<c>> \o s
           n == Len(s)
           x == Backwards(t)
           y == Append(Backwards(s), c)
<1>1. /\ t \in Seq(C) /\ n \in Nat /\ Len(t) = n + 1 /\ t[1] = c
      /\ \A k \in 1 .. n : t[k + 1] = s[k]
  <2>1. <<c>> \in Seq(C) /\ Len(<<c>>) = 1 /\ <<c>>[1] = c
    OBVIOUS
  <2>2. /\ t \in Seq(C) /\ n \in Nat /\ Len(t) = 1 + n
        /\ \A i \in 1 .. 1 + n : t[i] = IF i <= 1 THEN <<c>>[i] ELSE s[i - 1]
    BY <2>1, ConcatProperties, LenProperties
  <2> HIDE DEF t
  <2>3. \A k \in 1 .. n : k + 1 \in 1 .. 1 + n /\ ~(k + 1 <= 1) /\ (k + 1) - 1 = k
    BY <2>2
  <2>4. \A k \in 1 .. n : t[k + 1] = s[k]
    BY <2>2, <2>3
  <2> QED
    BY <2>1, <2>2, <2>4
<1> HIDE DEF t, n
<1>2. x \in Seq(C) /\ Len(x) = n + 1 /\ \A k \in 1 .. n + 1 : x[k] = t[(n + 2) - k]
  <2>1. x \in Seq(C) /\ Len(x) = n + 1
    BY <1>1, BackwardsIs
  <2>2. x = [k \in 1 .. n + 1 |-> t[(n + 2) - k]]
    <3>1. \A k \in 1 .. n + 1 : (Len(t) + 1) - k = (n + 2) - k
      BY <1>1
    <3> QED
      BY <1>1, <3>1 DEF Backwards
  <2> QED
    BY <2>1, <2>2
<1>3. y \in Seq(C) /\ Len(y) = n + 1 /\ y[n + 1] = c /\ \A k \in 1 .. n : y[k] = s[(n + 1) - k]
  <2>1. Backwards(s) \in Seq(C) /\ Len(Backwards(s)) = n
    BY BackwardsIs DEF n
  <2>2. \A k \in 1 .. n : Backwards(s)[k] = s[(n + 1) - k]
    BY DEF Backwards, n
  <2>3. y \in Seq(C) /\ Len(y) = n + 1 /\ y[n + 1] = c /\ \A k \in 1 .. n : y[k] = Backwards(s)[k]
    BY <2>1, AppendProperties
  <2> HIDE DEF y
  <2> QED
    BY <2>2, <2>3
<1> HIDE DEF x, y
<1>4. \A k \in 1 .. n + 1 : x[k] = y[k]
  <2> TAKE k \in 1 .. n + 1
  <2>1. CASE k = n + 1
    <3>1. (n + 2) - k = 1
      BY <1>1, <2>1
    <3> QED
      BY <1>1, <1>2, <1>3, <2>1, <3>1
  <2>2. CASE k # n + 1
    <3>1. k \in 1 .. n /\ (n + 1) - k \in 1 .. n /\ ((n + 1) - k) + 1 = (n + 2) - k
      BY <1>1, <2>2
    <3>2. t[((n + 1) - k) + 1] = s[(n + 1) - k]
      BY <1>1, <3>1
    <3> QED
      BY <1>2, <1>3, <3>1, <3>2
  <2> QED
    BY <2>1, <2>2
<1>5. x = y
  BY <1>1, <1>2, <1>3, <1>4, SeqEqual
<1> QED
  BY <1>5 DEF x, y, t

\* The digits that are written of a number, turned round, show it.
LEMMA WrittenShows ==
  ASSUME NEW radix \in 2 .. 16
  PROVE  \A v \in Nat : Shows(Backwards(Written(radix)[v]), v, radix)
<1> DEFINE W == Written(radix)
           S == {v \in Nat : Shows(Backwards(W[v]), v, radix)}
<1>0. /\ W \in [Nat -> Seq(Digits)] /\ W[0] = <<>>
      /\ \A v \in Nat \ {0} : W[v] = <<Digit[(v % radix) + 1]>> \o W[v \div radix]
  BY WrittenIs
<1> HIDE DEF W
<1>1. ASSUME NEW v \in Nat, \A u \in Nat : u < v => u \in S
      PROVE  v \in S
  <2>1. CASE v = 0
    <3>1. Backwards(<<>>) = <<>>
      BY DEF Backwards
    <3>2. Backwards(W[0]) = <<>>
      BY <1>0, <3>1
    <3>3. Number(Backwards(W[0]), radix) = 0
      BY <3>2, NumberOfNone
    <3>4. Backwards(W[0]) \in Seq(Digits)
      BY <1>0, BackwardsIs
    <3> QED
      BY <2>1, <3>3, <3>4 DEF Shows
  <2>2. CASE v # 0
    <3> DEFINE q == v \div radix
               d == v % radix
               c == Digit[d + 1]
               w == Backwards(W[q])
    <3>1. d \in 0 .. 15 /\ q \in Nat /\ v = q * radix + d /\ q < v
      BY <2>2, LastDigit
    <3>2. W[v] = <<c>> \o W[q]
      BY <1>0, <2>2
    <3> HIDE DEF q, d
    <3>3. c \in Digits /\ DigitValue(c) = d /\ (c = "0" => d = 0)
      <4>1. d + 1 \in 1 .. 16
        BY <3>1
      <4>2. c \in Digits
        BY <4>1 DEF Digits
      <4> QED
        BY <3>1, <4>2, DigitsDiffer
    <3> HIDE DEF c
    <3>4. W[q] \in Seq(Digits)
      BY <1>0, <3>1
    <3>5. Backwards(W[v]) = Append(w, c)
      BY <3>2, <3>3, <3>4, BackwardsOfMore
    <3>6. w \in Seq(Digits) /\ Number(w, radix) = q /\ (q # 0 => Len(w) >= 1 /\ w[1] # "0")
      BY <1>1, <3>1 DEF Shows
    <3>7. q = 0 => w = <<>>
      BY <1>0 DEF Backwards
    <3> HIDE DEF w
    <3>8. /\ Append(w, c) \in Seq(Digits) /\ Len(Append(w, c)) = Len(w) + 1 /\ Len(w) \in Nat
          /\ \A k \in 1 .. Len(w) : Append(w, c)[k] = w[k]
          /\ Append(w, c)[Len(w) + 1] = c
      BY <3>3, <3>6, AppendProperties, LenProperties
    <3>9. Number(Append(w, c), radix) = v
      <4>1. radix \in Nat
        OBVIOUS
      <4>2. Number(Append(w, c), radix) = Number(w, radix) * radix + DigitValue(c)
        BY <3>3, <3>6, <4>1, NumberOfAppend
      <4> QED
        BY <3>1, <3>3, <3>6, <4>2
    <3>10. Append(w, c)[1] # "0"
      <4>1. CASE q = 0
        <5>1. Len(w) + 1 = 1 /\ d = v
          BY <3>1, <3>7, <4>1
        <5> QED
          BY <2>2, <3>3, <3>8, <5>1
      <4>2. CASE q # 0
        <5>1. 1 \in 1 .. Len(w)
          BY <3>6, <3>8, <4>2
        <5> QED
          BY <3>6, <3>8, <4>2, <5>1
      <4> QED
        BY <4>1, <4>2
    <3>11. Len(Append(w, c)) >= 1
      BY <3>8
    <3> QED
      BY <3>5, <3>8, <3>9, <3>10, <3>11 DEF Shows
  <2> QED
    BY <2>1, <2>2
<1>2. S = Nat
  <2>1. S \in SUBSET Nat
    OBVIOUS
  <2> HIDE DEF S
  <2> QED
    BY <1>1, <2>1, AllNaturals
<1> QED
  BY <1>2 DEF W

\* Whatever the number and the radix: the characters that itoa makes of it are digits and
\* stand for the number, without leading zeroes.
THEOREM ItoaShows ==
  ASSUME NEW radix \in 2 .. 16, NEW v \in Nat
  PROVE  /\ itoa(v, radix) \in Seq(Digits)
         /\ Number(itoa(v, radix), radix) = v
         /\ v > 0 => Len(itoa(v, radix)) >= 1 /\ itoa(v, radix)[1] # "0"
<1>1. CASE v = 0
  <2> DEFINE none == <<>>
  <2>1. none \in Seq(Digits) /\ "0" \in Digits /\ DigitValue("0") = 0
    <3>1. 0 \in 0 .. 15 /\ 0 + 1 = 1
      OBVIOUS
    <3> QED
      BY <3>1, DigitsDiffer
  <2>2. itoa(v, radix) = Append(none, "0")
    BY <1>1, ItoaIs
  <2>3. Number(none, radix) = 0
    BY NumberOfNone
  <2> HIDE DEF none
  <2>4. Append(none, "0") \in Seq(Digits)
    BY <2>1, AppendProperties
  <2>5. Number(Append(none, "0"), radix) = 0
    <3>1. Number(Append(none, "0"), radix) = Number(none, radix) * radix + DigitValue("0")
      BY <2>1, NumberOfAppend
    <3> QED
      BY <2>1, <2>3, <3>1
  <2>6. ~(v > 0)
    BY <1>1
  <2> QED
    BY <1>1, <2>2, <2>4, <2>5, <2>6
<1>2. CASE v # 0
  <2>1. itoa(v, radix) = Backwards(Written(radix)[v])
    BY <1>2, ItoaIs
  <2>2. Shows(Backwards(Written(radix)[v]), v, radix)
    BY WrittenShows
  <2> QED
    BY <1>2, <2>1, <2>2 DEF Shows
<1> QED
  BY <1>1, <1>2

-----------------------------------------------------------------------------
(* printf.                                                                 *)

\* A number below 16 times b has a digit more than those below b.
Short(b, j) == \A u \in Nat : u < b => Len(Written(16)[u]) <= j
LEMMA OneMoreDigit ==
  ASSUME NEW b \in Nat, NEW j \in Nat, Short(b, j)
  PROVE  Short(16 * b, j + 1)
<1> DEFINE radix == 16
           W == Written(radix)
<1>r. radix \in 2 .. 16 /\ radix = 16
  OBVIOUS
<1> HIDE DEF radix
<1>1. /\ W \in [Nat -> Seq(Digits)] /\ W[0] = <<>>
      /\ \A v \in Nat \ {0} : W[v] = <<Digit[(v % radix) + 1]>> \o W[v \div radix]
  BY <1>r, WrittenIs
<1>2. ASSUME NEW v \in Nat, v < 16 * b
      PROVE  Len(W[v]) <= j + 1
  <2>1. CASE v = 0
    <3>1. Len(W[v]) = 0
      BY <1>1, <2>1
    <3> QED
      BY <3>1
  <2>2. CASE v # 0
    <3> DEFINE q == v \div radix
               c == Digit[(v % radix) + 1]
    <3>1. q \in Nat /\ q < b
      BY <1>2, <1>r
    <3>2. <<c>> \in Seq(Digits) /\ Len(<<c>>) = 1
      <4>1. (v % radix) + 1 \in 1 .. 16
        BY <1>r
      <4>2. c \in Digits
        BY <4>1 DEF Digits
      <4> QED
        BY <4>2
    <3>3. W[v] = <<c>> \o W[q]
      BY <1>1, <2>2
    <3> HIDE DEF q, c, W
    <3>4. W[q] \in Seq(Digits)
      BY <1>1, <3>1
    <3>5. Len(W[v]) = 1 + Len(W[q]) /\ Len(W[q]) \in Nat
      BY <3>2, <3>3, <3>4, ConcatProperties, LenProperties
    <3>6. Len(W[q]) <= j
      BY <1>r, <3>1 DEF W, Short
    <3> QED
      BY <3>5, <3>6
  <2> QED
    BY <2>1, <2>2
<1> QED
  BY <1>2, <1>r DEF W, Short

\* The first number that does not fit into 32 bits.
TwoTo32 == 4294967296

\* A number of 32 bits has at most eight hexadecimal digits.
LEMMA EightDigits ==
  ASSUME NEW v \in Nat, v < TwoTo32
  PROVE  Len(itoa(v, 16)) <= 8
<1> DEFINE radix == 16
<1>r. radix \in 2 .. 16 /\ radix = 16
  OBVIOUS
<1> HIDE DEF radix
<1>0. Short(1, 0)
  <2>1. Written(radix)[0] = <<>>
    BY <1>r, WrittenIs
  <2>2. Len(Written(16)[0]) = 0
    BY <1>r, <2>1
  <2> QED
    BY <2>2 DEF Short
<1>1. Short(16, 1)
  <2>1. Short(16 * 1, 0 + 1)
    BY <1>0, OneMoreDigit, SMT
  <2> QED
    BY <2>1, SMT
<1>2. Short(256, 2)
  <2>1. Short(16 * 16, 1 + 1)
    BY <1>1, OneMoreDigit, SMT
  <2> QED
    BY <2>1, SMT
<1>3. Short(4096, 3)
  <2>1. Short(16 * 256, 2 + 1)
    BY <1>2, OneMoreDigit, SMT
  <2> QED
    BY <2>1, SMT
<1>4. Short(65536, 4)
  <2>1. Short(16 * 4096, 3 + 1)
    BY <1>3, OneMoreDigit, SMT
  <2> QED
    BY <2>1, SMT
<1>5. Short(1048576, 5)
  <2>1. Short(16 * 65536, 4 + 1)
    BY <1>4, OneMoreDigit, SMT
  <2> QED
    BY <2>1, SMT
<1>6. Short(16777216, 6)
  <2>1. Short(16 * 1048576, 5 + 1)
    BY <1>5, OneMoreDigit, SMT
  <2> QED
    BY <2>1, SMT
<1>7. Short(268435456, 7)
  <2>1. Short(16 * 16777216, 6 + 1)
    BY <1>6, OneMoreDigit, SMT
  <2> QED
    BY <2>1, SMT
<1>8. Short(4294967296, 8)
  <2>1. Short(16 * 268435456, 7 + 1)
    BY <1>7, OneMoreDigit, SMT
  <2> QED
    BY <2>1, SMT
<1>9. Len(Backwards(Written(16)[v])) <= 8
  <2>1. Written(16)[v] \in Seq(Digits)
    BY WrittenIs
  <2>2. Len(Backwards(Written(16)[v])) = Len(Written(16)[v])
    BY <2>1, BackwardsIs
  <2>3. Len(Written(16)[v]) <= 8
    BY <1>8, SMT DEF Short, TwoTo32
  <2> QED
    BY <2>2, <2>3, SMT
<1>10. itoa(v, radix) = IF v = 0 THEN <<"0">> ELSE Backwards(Written(radix)[v])
  BY <1>r, ItoaIs
<1>11. Len(<<"0">>) <= 8
  OBVIOUS
<1> QED
  BY <1>9, <1>10, <1>11, <1>r

LEMMA Hex8Shows ==
  ASSUME NEW v \in Nat, v < TwoTo32
  PROVE  Hex8(v) \in Seq(Digits) /\ Len(Hex8(v)) = 8 /\ Number(Hex8(v), 16) = v
<1> DEFINE text == itoa(v, 16)
           j == 8 - Len(text)
<1>1. text \in Seq(Digits) /\ Number(text, 16) = v
  <2> DEFINE radix == 16
  <2>1. radix \in 2 .. 16 /\ radix = 16
    OBVIOUS
  <2> HIDE DEF radix
  <2>2. itoa(v, radix) \in Seq(Digits) /\ Number(itoa(v, radix), radix) = v
    BY <2>1, ItoaShows
  <2> QED
    BY <2>1, <2>2
<1>2. j \in Nat /\ j + Len(text) = 8
  <2>1. Len(text) <= 8 /\ Len(text) \in Nat
    BY <1>1, EightDigits, LenProperties, SMT
  <2> QED
    BY <2>1
<1>3. Hex8(v) = [k \in 1 .. j |-> "0"] \o text
  BY DEF Hex8
<1> HIDE DEF text, j
<1>4. /\ [k \in 1 .. j |-> "0"] \o text \in Seq(Digits)
      /\ Len([k \in 1 .. j |-> "0"] \o text) = j + Len(text)
      /\ Number([k \in 1 .. j |-> "0"] \o text, 16) = Number(text, 16)
  BY <1>1, <1>2, NumberOfPadded
<1> QED
  BY <1>1, <1>2, <1>3, <1>4

\* What printf makes of the format from a place on.
PrintBody(format, args, at, f) ==
    LET next == [k |-> at.k + 1, a |-> at.a]
        nextArg == [k |-> at.k + 1, a |-> at.a + 1]
    IN  IF at.k > Len(format) THEN <<>>
        ELSE IF Len(format[at.k]) = 1 THEN format[at.k] \o f[next]
        ELSE IF format[at.k][2] = "%" THEN <<"%">> \o f[next]
        ELSE Converted(format[at.k][2], args[at.a]) \o f[nextArg]
PrintEq(f, format, args) ==
    f = [at \in Printing(format) |-> PrintBody(format, args, at, f)]

\* A place of a format, and the places from one on.
At(k, a) == [k |-> k, a |-> a]
From(format, j) == {at \in Printing(format) : at.k + j > Len(format)}
PrintFrom(g, format, args, j) == g = [at \in From(format, j) |-> PrintBody(format, args, at, g)]

\* What printf makes of a place depends on the next ones only.
LEMMA PrintLooksOn ==
  ASSUME NEW format, NEW args, NEW at, NEW f, NEW g, at \in Printing(format), Len(format) \in Nat,
         at.k <= Len(format) => /\ f[At(at.k + 1, at.a)] = g[At(at.k + 1, at.a)]
                                /\ f[At(at.k + 1, at.a + 1)] = g[At(at.k + 1, at.a + 1)]
  PROVE  PrintBody(format, args, at, f) = PrintBody(format, args, at, g)
<1> DEFINE next == At(at.k + 1, at.a)
           nextArg == At(at.k + 1, at.a + 1)
<1>1. CASE at.k > Len(format)
  BY <1>1, Zenon DEF PrintBody
<1>2. CASE ~(at.k > Len(format))
  <2>1. at.k \in 1 .. Len(format) + 1
    BY DEF Printing
  <2>2. f[next] = g[next] /\ f[nextArg] = g[nextArg]
    BY <1>2, <2>1
  <2> QED
    BY <2>2, Zenon DEF PrintBody, At
<1> QED
  BY <1>1, <1>2

\* There is a function that printf computes, from the end of the format on.
LEMMA PrintExists ==
  ASSUME NEW format, NEW args, Len(format) \in Nat
  PROVE  \E f : PrintEq(f, format, args)
<1> DEFINE n == Len(format)
           D == Printing(format)
           S == {j \in Nat : \E g : PrintFrom(g, format, args, j)}
           body(at, f) == PrintBody(format, args, at, f)
<1>0. ASSUME NEW at \in D
      PROVE  at.k \in 1 .. n + 1 /\ at.a \in Nat
  BY DEF Printing
<1>1. ASSUME NEW j \in Nat, \A i \in Nat : i < j => i \in S
      PROVE  j \in S
  <2>1. CASE j = 0
    <3> DEFINE g == [at \in From(format, 0) |-> <<>>]
    <3>1. \A at \in From(format, 0) : body(at, g) = <<>>
      BY <1>0 DEF From, PrintBody
    <3>2. g = [at \in From(format, 0) |-> body(at, g)]
      BY <3>1
    <3>3. PrintFrom(g, format, args, 0)
      BY <3>2, Zenon DEF PrintFrom
    <3> QED
      BY <2>1, <3>3
  <2>2. CASE j # 0
    <3>1. j - 1 \in Nat /\ j - 1 < j
      BY <2>2
    <3>2. PICK g : PrintFrom(g, format, args, j - 1)
      BY <1>1, <3>1
    <3> DEFINE h == [at \in From(format, j) |-> body(at, g)]
    <3>3. ASSUME NEW at \in From(format, j - 1)
          PROVE  at \in From(format, j) /\ g[at] = h[at]
      <4>1. at \in From(format, j)
        BY <1>0, <3>3 DEF From
      <4>2. g[at] = body(at, g)
        BY <3>2 DEF PrintFrom
      <4> QED
        BY <4>1, <4>2
    <3>4. ASSUME NEW at \in From(format, j)
          PROVE  body(at, g) = body(at, h)
      <4>1. at \in D /\ at.k \in 1 .. n + 1 /\ at.a \in Nat /\ at.k + j > n
        BY <1>0 DEF From
      <4>2. ASSUME at.k <= n
            PROVE  At(at.k + 1, at.a) \in From(format, j - 1) /\ At(at.k + 1, at.a + 1) \in From(format, j - 1)
        BY <3>1, <4>1, <4>2 DEF From, At, Printing
      <4>3. at.k <= n => /\ g[At(at.k + 1, at.a)] = h[At(at.k + 1, at.a)]
                         /\ g[At(at.k + 1, at.a + 1)] = h[At(at.k + 1, at.a + 1)]
        BY <3>3, <4>2
      <4> HIDE DEF h
      <4> QED
        BY <4>1, <4>3, PrintLooksOn
    <3>5. h = [at \in From(format, j) |-> body(at, h)]
      BY <3>4
    <3> HIDE DEF h
    <3>6. PrintFrom(h, format, args, j)
      BY <3>5, Zenon DEF PrintFrom
    <3> QED
      BY <3>6
  <2> QED
    BY <2>1, <2>2
<1>2. S = Nat
  <2>1. S \in SUBSET Nat
    OBVIOUS
  <2> HIDE DEF S
  <2> QED
    BY <1>1, <2>1, AllNaturals
<1>3. PICK g : PrintFrom(g, format, args, n)
  BY <1>2
<1>4. From(format, n) = D
  BY <1>0 DEF From
<1> QED
  BY <1>3, <1>4 DEF PrintFrom, PrintEq

\* Its values: at the end nothing, and before that what stands there and then the rest.
PrintStep(f, format, args, k, a) ==
    f[At(k, a)] =
      IF k > Len(format) THEN <<>>
      ELSE IF Len(format[k]) = 1 THEN format[k] \o f[At(k + 1, a)]
      ELSE IF format[k][2] = "%" THEN <<"%">> \o f[At(k + 1, a)]
      ELSE Converted(format[k][2], args[a]) \o f[At(k + 1, a + 1)]

LEMMA PrintSteps ==
  ASSUME NEW format, NEW args, Len(format) \in Nat
  PROVE  \E f : /\ printf(format, args) = f[At(1, 1)]
                /\ \A k \in 1 .. Len(format) + 1, a \in Nat : PrintStep(f, format, args, k, a)
<1> DEFINE f == CHOOSE f : PrintEq(f, format, args)
<1>1. PrintEq(f, format, args)
  BY PrintExists, Zenon
<1>2. printf(format, args) = f[At(1, 1)]
  BY Zenon DEF printf, PrintEq, PrintBody, At
<1> HIDE DEF f
<1>3. ASSUME NEW k \in 1 .. Len(format) + 1, NEW a \in Nat
      PROVE  PrintStep(f, format, args, k, a)
  <2> DEFINE at == At(k, a)
  <2>1. at \in Printing(format) /\ at.k = k /\ at.a = a
    BY DEF At, Printing
  <2> HIDE DEF at
  <2>3. f[at] = PrintBody(format, args, at, f)
    BY <1>1, <2>1 DEF PrintEq
  <2>4. PrintBody(format, args, at, f) =
          IF k > Len(format) THEN <<>>
          ELSE IF Len(format[k]) = 1 THEN format[k] \o f[At(k + 1, a)]
          ELSE IF format[k][2] = "%" THEN <<"%">> \o f[At(k + 1, a)]
          ELSE Converted(format[k][2], args[a]) \o f[At(k + 1, a + 1)]
    BY <2>1, Zenon DEF PrintBody, At
  <2> QED
    BY <2>3, <2>4, Zenon DEF PrintStep, at
<1> QED
  BY <1>2, <1>3

\* What PrintsNumbers says of one number.
PrintsOne(n) ==
    LET plain == itoa(n, 16)
        text == printf(<< <<"%", "d">>, <<":">>, <<"%", "%">>, <<"%", "#x">>, <<"%", "u">> >>,
                       <<-n, n, n>>)
        signed == itoa(n, 10)
    IN  /\ Number(plain, 16) = n /\ Number(signed, 10) = n
        /\ n > 0 => plain[1] # "0" /\ signed[1] # "0"
        /\ Len(Hex8(n)) = 8 /\ Number(Hex8(n), 16) = n
        /\ text = (IF n > 0 THEN <<"-">> ELSE <<>>) \o signed \o <<":", "%">>
                  \o Hex8(n) \o signed

LEMMA ItoaTen ==
  ASSUME NEW v \in Nat
  PROVE  /\ itoa(v, 10) \in Seq(Digits) /\ Number(itoa(v, 10), 10) = v
         /\ v > 0 => itoa(v, 10)[1] # "0"
<1> DEFINE radix == 10
<1>1. radix \in 2 .. 16 /\ radix = 10
  OBVIOUS
<1> HIDE DEF radix
<1>2. /\ itoa(v, radix) \in Seq(Digits) /\ Number(itoa(v, radix), radix) = v
      /\ v > 0 => itoa(v, radix)[1] # "0"
  BY <1>1, ItoaShows
<1> QED
  BY <1>1, <1>2

LEMMA ItoaSixteen ==
  ASSUME NEW v \in Nat
  PROVE  /\ itoa(v, 16) \in Seq(Digits) /\ Number(itoa(v, 16), 16) = v
         /\ v > 0 => itoa(v, 16)[1] # "0"
<1> DEFINE radix == 16
<1>1. radix \in 2 .. 16 /\ radix = 16
  OBVIOUS
<1> HIDE DEF radix
<1>2. /\ itoa(v, radix) \in Seq(Digits) /\ Number(itoa(v, radix), radix) = v
      /\ v > 0 => itoa(v, radix)[1] # "0"
  BY <1>1, ItoaShows
<1> QED
  BY <1>1, <1>2

\* The conversions of one format, in order, each with the argument that belongs to it.
LEMMA PrintsFive ==
  ASSUME NEW a1, NEW a2, NEW a3
  PROVE  printf(<< <<"%", "d">>, <<":">>, <<"%", "%">>, <<"%", "#x">>, <<"%", "u">> >>, <<a1, a2, a3>>) =
         Converted("d", a1) \o
           (<<":">> \o (<<"%">> \o (Converted("#x", a2) \o (Converted("u", a3) \o <<>>))))
<1> DEFINE format == << <<"%", "d">>, <<":">>, <<"%", "%">>, <<"%", "#x">>, <<"%", "u">> >>
           args == <<a1, a2, a3>>
<1>1. /\ Len(format) = 5 /\ Len(format) \in Nat
      /\ format[1] = <<"%", "d">> /\ format[2] = <<":">> /\ format[3] = <<"%", "%">>
      /\ format[4] = <<"%", "#x">> /\ format[5] = <<"%", "u">>
      /\ args[1] = a1 /\ args[2] = a2 /\ args[3] = a3
  OBVIOUS
<1> HIDE DEF format, args
<1>2. /\ Len(format[1]) # 1 /\ format[1][2] = "d" /\ Len(format[2]) = 1
      /\ Len(format[3]) # 1 /\ format[3][2] = "%"
      /\ Len(format[4]) # 1 /\ format[4][2] = "#x" /\ Len(format[5]) # 1 /\ format[5][2] = "u"
  BY <1>1
<1>3. PICK f : /\ printf(format, args) = f[At(1, 1)]
               /\ \A k \in 1 .. Len(format) + 1, a \in Nat : PrintStep(f, format, args, k, a)
  BY <1>1, PrintSteps
<1>4. \A k \in 1 .. 6, a \in 1 .. 4 :
        f[At(k, a)] = IF k > 5 THEN <<>>
                      ELSE IF Len(format[k]) = 1 THEN format[k] \o f[At(k + 1, a)]
                      ELSE IF format[k][2] = "%" THEN <<"%">> \o f[At(k + 1, a)]
                      ELSE Converted(format[k][2], args[a]) \o f[At(k + 1, a + 1)]
  <2> TAKE k \in 1 .. 6, a \in 1 .. 4
  <2>1. k \in 1 .. Len(format) + 1 /\ a \in Nat
    BY <1>1
  <2>2. PrintStep(f, format, args, k, a)
    BY <1>3, <2>1
  <2> QED
    BY <1>1, <2>2, Zenon DEF PrintStep
<1>5. f[At(6, 4)] = <<>>
  BY <1>4
<1>6. f[At(5, 3)] = Converted("u", a3) \o f[At(6, 4)]
  <2>1. 5 \in 1 .. 6 /\ 3 \in 1 .. 4 /\ 5 + 1 = 6 /\ 3 + 1 = 4 /\ ~(5 > 5) /\ "u" # "%"
    OBVIOUS
  <2> QED
    BY <1>1, <1>2, <1>4, <2>1
<1>7. f[At(4, 2)] = Converted("#x", a2) \o f[At(5, 3)]
  <2>1. 4 \in 1 .. 6 /\ 2 \in 1 .. 4 /\ 4 + 1 = 5 /\ 2 + 1 = 3 /\ ~(4 > 5) /\ "#x" # "%"
    OBVIOUS
  <2> QED
    BY <1>1, <1>2, <1>4, <2>1
<1>8. f[At(3, 2)] = <<"%">> \o f[At(4, 2)]
  <2>1. 3 \in 1 .. 6 /\ 2 \in 1 .. 4 /\ 3 + 1 = 4 /\ ~(3 > 5)
    OBVIOUS
  <2> QED
    BY <1>1, <1>2, <1>4, <2>1
<1>9. f[At(2, 2)] = <<":">> \o f[At(3, 2)]
  <2>1. 2 \in 1 .. 6 /\ 2 \in 1 .. 4 /\ 2 + 1 = 3 /\ ~(2 > 5)
    OBVIOUS
  <2> QED
    BY <1>1, <1>2, <1>4, <2>1
<1>10. f[At(1, 1)] = Converted("d", a1) \o f[At(2, 2)]
  <2>1. 1 \in 1 .. 6 /\ 1 \in 1 .. 4 /\ 1 + 1 = 2 /\ ~(1 > 5) /\ "d" # "%"
    OBVIOUS
  <2> QED
    BY <1>1, <1>2, <1>4, <2>1
<1>11. printf(format, args) =
         Converted("d", a1) \o
           (<<":">> \o (<<"%">> \o (Converted("#x", a2) \o (Converted("u", a3) \o <<>>))))
  BY <1>3, <1>5, <1>6, <1>7, <1>8, <1>9, <1>10, Zenon
<1> QED
  BY <1>11, Zenon DEF format, args

\* Three texts put together in either order.
Regroups(s, t, u) == s \o (t \o u) = (s \o t) \o u

LEMMA Regrouped ==
  ASSUME NEW C, NEW s \in Seq(C), NEW t \in Seq(C), NEW u \in Seq(C)
  PROVE  Regroups(s, t, u)
BY DEF Regroups

\* Texts put together from the right are the same as put together from the left.
Flat(m, s, c, p, h) ==
    (m \o s) \o (c \o (p \o (h \o s))) = (((m \o s) \o (c \o p)) \o h) \o s

LEMMA Flattened ==
  ASSUME NEW C, NEW m \in Seq(C), NEW s \in Seq(C), NEW c \in Seq(C), NEW p \in Seq(C), NEW h \in Seq(C)
  PROVE  Flat(m, s, c, p, h)
<1>1. /\ m \o s \in Seq(C) /\ h \o s \in Seq(C) /\ c \o p \in Seq(C)
      /\ p \o (h \o s) \in Seq(C)
  OBVIOUS
<1>2. (m \o s) \o (c \o p) \in Seq(C)
  BY <1>1
<1>3. /\ Regroups(c, p, h \o s) /\ Regroups(m \o s, c \o p, h \o s)
      /\ Regroups((m \o s) \o (c \o p), h, s)
  BY <1>1, <1>2, Regrouped, Zenon
<1> QED
  BY <1>3, Zenon DEF Regroups, Flat

\* Whatever number is printed that %d can show with either sign, an int32_t: its digits in the
\* radix of the conversion, without leading zeroes, or as eight hexadecimal ones; the minus sign
\* of a negative one; and each conversion prints the argument that belongs to it.
THEOREM NumbersPrinted ==
  ASSUME NEW n \in Nat, n <= INT32_MAX
  PROVE  PrintsOne(n)
<1> DEFINE plain == itoa(n, 16)
           signed == itoa(n, 10)
           hex == Hex8(n)
           C == Digits \union {"-", ":", "%"}
           minus == IF n > 0 THEN <<"-">> ELSE <<>>
           d == Converted("d", -n)
           colon == <<":">>
           percent == <<"%">>
           both == <<":", "%">>
           text == d \o (colon \o (percent \o (hex \o (signed \o <<>>))))
<1>0. n < TwoTo32 /\ AsInt32(-n) = -n
  BY SMT DEF TwoTo32, AsInt32, INT32_MAX
<1>1. /\ Number(plain, 16) = n /\ (n > 0 => plain[1] # "0")
  BY <1>0, ItoaSixteen
<1>2. signed \in Seq(Digits) /\ Number(signed, 10) = n /\ (n > 0 => signed[1] # "0")
  BY <1>0, ItoaTen
<1>3. hex \in Seq(Digits) /\ Len(hex) = 8 /\ Number(hex, 16) = n
  BY <1>0, Hex8Shows
<1>4. Converted("#x", n) = hex /\ Converted("u", n) = signed
  <2>1. "#x" # "x" /\ "u" # "x" /\ "u" # "#x"
    OBVIOUS
  <2> QED
    BY <2>1 DEF Converted
<1>5. d = minus \o signed
  <2>1. "d" # "x" /\ "d" # "#x" /\ "d" # "u"
    OBVIOUS
  <2>2. d = IF -n < 0 THEN <<"-">> \o itoa(-(-n), 10) ELSE itoa(-n, 10)
    BY <1>0, <2>1 DEF Converted
  <2>3. CASE n > 0
    <3>1. -n < 0 /\ -(-n) = n
      BY <2>3
    <3> QED
      BY <2>2, <2>3, <3>1
  <2>4. CASE ~(n > 0)
    <3>1. ~(-n < 0) /\ -n = n /\ ~(n > 0)
      BY <2>4
    <3> HIDE DEF d
    <3>2. d = signed /\ minus = <<>>
      BY <2>2, <3>1
    <3> HIDE DEF signed
    <3>3. <<>> \o signed = signed
      BY <1>2, ConcatEmptySeq
    <3> QED
      BY <3>2, <3>3
  <2> QED
    BY <2>3, <2>4
<1> HIDE DEF plain, signed, hex, d
<1>6. /\ minus \in Seq(C) /\ colon \in Seq(C) /\ percent \in Seq(C) /\ both \in Seq(C)
      /\ signed \in Seq(C) /\ hex \in Seq(C)
  <2>1. Digits \subseteq C /\ "-" \in C /\ ":" \in C /\ "%" \in C
    OBVIOUS
  <2> HIDE DEF C
  <2>2. signed \in Seq(C) /\ hex \in Seq(C)
    BY <1>2, <1>3, <2>1, SeqMonotonic
  <2> QED
    BY <2>1, <2>2
<1>7. both = colon \o percent /\ signed \o <<>> = signed
  <2>1. signed \o <<>> = signed
    BY <1>2, ConcatEmptySeq
  <2>2. both = colon \o percent
    OBVIOUS
  <2> QED
    BY <2>1, <2>2
<1> HIDE DEF C, minus, colon, percent, both
<1>8. text = (((minus \o signed) \o both) \o hex) \o signed
  <2>1. text = d \o (colon \o (percent \o (hex \o signed)))
    BY <1>7
  <2>2. Flat(minus, signed, colon, percent, hex)
    BY <1>6, Flattened, Zenon
  <2>3. (minus \o signed) \o (colon \o (percent \o (hex \o signed)))
          = (((minus \o signed) \o (colon \o percent)) \o hex) \o signed
    BY <2>2, Zenon DEF Flat
  <2> QED
    BY <1>5, <1>7, <2>1, <2>3, Zenon
<1>9. printf(<< <<"%", "d">>, <<":">>, <<"%", "%">>, <<"%", "#x">>, <<"%", "u">> >>, <<-n, n, n>>) = text
  <2>1. printf(<< <<"%", "d">>, <<":">>, <<"%", "%">>, <<"%", "#x">>, <<"%", "u">> >>, <<-n, n, n>>) =
          Converted("d", -n) \o
            (<<":">> \o (<<"%">> \o (Converted("#x", n) \o (Converted("u", n) \o <<>>))))
    BY PrintsFive, Zenon
  <2> QED
    BY <1>4, <2>1, Zenon DEF d, colon, percent
<1>10. printf(<< <<"%", "d">>, <<":">>, <<"%", "%">>, <<"%", "#x">>, <<"%", "u">> >>, <<-n, n, n>>) =
         (((minus \o signed) \o both) \o hex) \o signed
  BY <1>8, <1>9, Zenon
<1> QED
  BY <1>1, <1>2, <1>3, <1>10, Zenon DEF PrintsOne, plain, signed, hex, minus, both

\* So for the numbers that a run prints.
THEOREM NumbersArePrinted == FilesSpec => []PrintsNumbers
<1>1. ASSUME NEW n \in Sample
      PROVE  n \in Nat /\ n <= INT32_MAX
  BY SMT DEF Sample, INT32_MAX
<1>2. \A n \in Sample : PrintsOne(n)
  BY <1>1, NumbersPrinted
<1>3. PrintsNumbers
  BY <1>2, Zenon DEF PrintsNumbers, PrintsOne, AtBoot
<1> QED
  BY <1>3, PTL

-----------------------------------------------------------------------------
(* ls and cat.                                                             *)

\* The text in a field, as dir_read and as the search see it.
LEMMA FieldText ==
  ASSUME NEW C, NUL \in C, NEW n \in Nat, NEW name \in [1 .. n -> C]
  PROVE  /\ strlen(CString(name)) \in 0 .. n
         /\ Text(CString(name)) \in Seq(C)
         /\ SubSeq(name, 1, strlen(CString(name))) = Text(CString(name))
<1> DEFINE c == CString(name)
           Nuls == {k \in 1 .. n + 1 : c[k] = NUL}
<1>0. name \in Seq(C) /\ Len(name) = n
  OBVIOUS
<1>1. /\ c \in Seq(C) /\ Len(c) = n + 1 /\ c[n + 1] = NUL
      /\ \A k \in 1 .. n : c[k] = name[k]
  BY <1>0, CStringOf
<1> HIDE DEF c
<1>2. Nuls \in SUBSET Nat /\ Nuls # {}
  BY <1>1
<1>3. PICK e \in Nuls : \A k \in Nuls : e <= k
  <2> HIDE DEF Nuls
  <2> QED
    BY <1>2, LeastElement
<1>4. e \in 1 .. n + 1 /\ c[e] = NUL /\ \A k \in 1 .. e - 1 : c[k] # NUL
  BY <1>1, <1>3
<1> DEFINE last == e - 1
<1>5. strlen(c) = last /\ last \in 0 .. n
  <2>1. Len(c) \in Nat /\ e \in 1 .. Len(c)
    BY <1>1, <1>4
  <2> QED
    BY <1>4, <2>1, StrlenIs
<1> HIDE DEF last
<1>6. /\ SubSeq(c, 1, last) \in Seq(C) /\ Len(SubSeq(c, 1, last)) = last
      /\ \A k \in 1 .. last : SubSeq(c, 1, last)[k] = c[k]
  BY <1>1, <1>5
<1>7. /\ SubSeq(name, 1, last) \in Seq(C) /\ Len(SubSeq(name, 1, last)) = last
      /\ \A k \in 1 .. last : SubSeq(name, 1, last)[k] = name[k]
  BY <1>0, <1>5
<1>8. SubSeq(name, 1, last) = SubSeq(c, 1, last)
  <2>1. \A k \in 1 .. Len(SubSeq(name, 1, last)) : SubSeq(name, 1, last)[k] = SubSeq(c, 1, last)[k]
    BY <1>1, <1>5, <1>6, <1>7
  <2> QED
    BY <1>6, <1>7, <2>1, SeqEqual
<1>9. Text(c) = SubSeq(c, 1, last)
  BY <1>5 DEF Text
<1> QED
  BY <1>5, <1>6, <1>8, <1>9 DEF c

\* The definition that List in ls has.
LsEq(f) ==
    f = [offset \in Nat |->
            IF read_dentry_by_index(offset) = NotFound THEN <<>>
            ELSE <<NameRead(read_dentry_by_index(offset))>> \o f[offset + 1]]

\* Whatever the image holds: ls prints the name of every entry in use, in order, and
\* no other, also names that fill their field.
THEOREM LsListsAll == ls = [k \in 1 .. num_of_dirE |-> NameIn(k)]
<1> DEFINE C == STRING \union {NUL}
           R == Seq(Seq(C))
           Left(o) == IF o < num_of_dirE THEN num_of_dirE - o ELSE 0
           rank == [o \in Nat |-> Left(o)]
           next == [o \in Nat |-> o + 1]
           Listed(o) == [k \in 1 .. Left(o) |-> NameIn(o + k)]
           g == [o \in Nat |-> Listed(o)]
           Entry(o) == read_dentry_by_index(o)
           Body(f, o) == IF Entry(o) = NotFound THEN <<>> ELSE <<NameRead(Entry(o))>> \o f[o + 1]
           Step == [f \in [Nat -> R] |-> [o \in Nat |-> Body(f, o)]]
<1>1. num_of_dirE \in Nat /\ num_of_dirE <= Len(dir_entries) /\ Len(dir_entries) \in Nat
  BY ImageAssumption
<1>2. ASSUME NEW k \in 1 .. num_of_dirE
      PROVE  /\ NameIn(k) \in Seq(C) /\ NameRead(dir_entries[k]) = NameIn(k)
             /\ dir_entries[k] # NotFound
  <2> DEFINE name == dir_entries[k].file_name
             n == strlen(CString(name))
  <2>1. NUL \in C /\ NAME_SIZE \in Nat /\ name \in [1 .. NAME_SIZE -> C]
    BY <1>1, ImageAssumption
  <2>2. dir_entries[k] # NotFound
    <3>1. dir_entries[k].file_type # -1
      BY <1>1, ImageAssumption DEF RTC_FTYPE, DIR_FTYPE, FILE_FTYPE
    <3>2. NotFound.file_type = -1
      BY DEF NotFound
    <3> QED
      BY <3>1, <3>2
  <2>3. NameRead(dir_entries[k]) = SubSeq(name, 1, Smaller(n, NAME_SIZE))
    BY Zenon DEF NameRead
  <2>4. NameIn(k) = Text(CString(name))
    BY Zenon DEF NameIn
  <2> HIDE DEF name, C
  <2>5. /\ n \in 0 .. NAME_SIZE /\ Text(CString(name)) \in Seq(C)
        /\ SubSeq(name, 1, n) = Text(CString(name))
    BY <2>1, FieldText
  <2> HIDE DEF n
  <2>6. Smaller(n, NAME_SIZE) = n
    BY <2>1, <2>5 DEF Smaller
  <2> QED
    BY <2>2, <2>3, <2>4, <2>5, <2>6
<1> HIDE DEF C
<1>3. ASSUME NEW o \in Nat
      PROVE  /\ o < num_of_dirE => /\ Entry(o) # NotFound
                                   /\ NameRead(Entry(o)) = NameIn(o + 1)
                                   /\ NameIn(o + 1) \in Seq(C)
             /\ ~(o < num_of_dirE) => Entry(o) = NotFound
  <2>1. CASE o < num_of_dirE
    <3>1. o + 1 \in 1 .. num_of_dirE /\ ~(o >= num_of_dirE)
      BY <1>1, <2>1
    <3>2. Entry(o) = dir_entries[o + 1]
      BY <3>1 DEF read_dentry_by_index
    <3> QED
      BY <1>2, <2>1, <3>1, <3>2
  <2>2. CASE ~(o < num_of_dirE)
    BY <1>1, <2>2 DEF read_dentry_by_index
  <2> QED
    BY <2>1, <2>2
<1> HIDE DEF Entry
<1>4. Step \in [[Nat -> R] -> [Nat -> R]]
  <2>1. ASSUME NEW f \in [Nat -> R], NEW o \in Nat
        PROVE  Body(f, o) \in R
    <3>1. CASE ~(o < num_of_dirE)
      BY <1>3, <3>1
    <3>2. CASE o < num_of_dirE
      <4>1. f[o + 1] \in R /\ NameRead(Entry(o)) \in Seq(C) /\ Entry(o) # NotFound
        BY <1>3, <3>2
      <4> QED
        BY <4>1
    <3> QED
      BY <3>1, <3>2
  <2> HIDE DEF R, Body
  <2> QED
    BY <2>1
<1>5. /\ rank \in [Nat -> Nat] /\ next \in [Nat -> Nat]
      /\ \A o \in Nat : o < num_of_dirE =>
            next[o] = o + 1 /\ rank[o + 1] < rank[o] /\ o + 1 \in Nat
  BY <1>1
<1>6. LooksDown(Nat, R, rank, Step)
  <2> SUFFICES ASSUME NEW f \in [Nat -> R], NEW h \in [Nat -> R], NEW o \in Nat,
                      \A j \in Nat : rank[j] < rank[o] => f[j] = h[j]
               PROVE  Step[f][o] = Step[h][o]
    BY Zenon DEF LooksDown
  <2> HIDE DEF R, rank
  <2>1. o < num_of_dirE => f[o + 1] = h[o + 1]
    BY <1>5
  <2>2. Body(f, o) = Body(h, o)
    BY <1>3, <2>1
  <2> HIDE DEF Body
  <2> QED
    BY <2>2
<1>7. PICK f \in [Nat -> R] : f = Step[f]
  <2>1. <<>> \in R
    BY EmptySeq
  <2> HIDE DEF rank, Step, R
  <2>2. IsDefined(Nat, R, Step)
    BY <1>4, <1>5, <1>6, <2>1, RecursionExists
  <2> QED
    BY <2>2 DEF IsDefined
<1>8. LsEq(f)
  <2> HIDE DEF R
  <2>1. f = [o \in Nat |-> Body(f, o)]
    BY <1>7
  <2> QED
    BY <2>1, Zenon DEF LsEq, Entry
<1> DEFINE v == CHOOSE h : LsEq(h)
<1>9. LsEq(v)
  BY <1>8, Zenon
<1>10. ls = v[0]
  BY Zenon DEF ls, LsEq
<1> HIDE DEF v
<1>11. \A o \in Nat : v[o] = Body(v, o)
  <2>1. v = [o \in Nat |-> Body(v, o)]
    BY <1>9, Zenon DEF LsEq, Entry
  <2> HIDE DEF Body
  <2> QED
    BY <2>1
<1>12. SameOrSteps(Nat, rank, next, v, g)
  <2> SUFFICES ASSUME NEW o \in Nat
               PROVE  \/ v[o] = g[o]
                      \/ /\ rank[next[o]] < rank[o]
                         /\ v[next[o]] = g[next[o]] => v[o] = g[o]
    BY Zenon DEF SameOrSteps
  <2>1. CASE ~(o < num_of_dirE)
    <3>1. v[o] = <<>>
      BY <1>3, <1>11, <2>1
    <3>2. Left(o) = 0
      BY <2>1
    <3>3. Listed(o) = <<>>
      BY <3>2
    <3> QED
      BY <3>1, <3>3
  <2>2. CASE o < num_of_dirE
    <3>1. next[o] = o + 1 /\ rank[o + 1] < rank[o] /\ o + 1 \in Nat
      <4> HIDE DEF next, rank
      <4> QED
        BY <1>5, <2>2
    <3>2. ASSUME v[o + 1] = g[o + 1] PROVE v[o] = g[o]
      <4>1. v[o] = <<NameIn(o + 1)>> \o Listed(o + 1)
        BY <1>3, <1>11, <2>2, <3>1, <3>2
      <4>2. Left(o) = Left(o + 1) + 1 /\ Left(o + 1) \in Nat
        BY <1>1, <2>2
      <4> DEFINE m == Left(o + 1)
                 N(k) == NameIn(o + k)
                 rest == Listed(o + 1)
      <4>3. rest = [k \in 1 .. m |-> N(k + 1)]
        <5>1. \A k \in 1 .. m : o + 1 + k = o + (k + 1)
          BY <4>2
        <5> QED
          BY <5>1
      <4>4. Listed(o) = [k \in 1 .. m + 1 |-> N(k)]
        BY <4>2
      <4>5. <<N(1)>> \o rest = [k \in 1 .. m + 1 |-> N(k)]
        <5> HIDE DEF m, N, rest
        <5>1. m \in Nat
          BY <4>2 DEF m
        <5> QED
          BY <4>3, <5>1
      <4> QED
        BY <4>1, <4>4, <4>5
    <3> HIDE DEF next, rank, g
    <3> QED
      BY <3>1, <3>2
  <2> QED
    BY <2>1, <2>2
<1>13. Same(Nat, v, g)
  <2> HIDE DEF rank, next, g
  <2> QED
    BY <1>5, <1>12, StepsAgree
<1>14. v[0] = g[0]
  BY <1>13 DEF Same
<1>15. g[0] = [k \in 1 .. num_of_dirE |-> NameIn(k)]
  <2>1. Left(0) = num_of_dirE /\ \A k \in 1 .. num_of_dirE : 0 + k = k
    BY <1>1
  <2> QED
    BY <2>1
<1> QED
  BY <1>10, <1>14, <1>15

\* The first m values of a function and the next ones are its first values.
FollowedBy(fun, m, l, got) ==
    got \o [k \in 1 .. l |-> fun[m + k]] = [k \in 1 .. m + l |-> fun[k]]

LEMMA PiecesJoin ==
  ASSUME NEW fun, NEW m \in Nat, NEW l \in Nat, NEW B, NEW got \in Seq(B), Len(got) = m,
         \A k \in 1 .. m : got[k] = fun[k]
  PROVE  FollowedBy(fun, m, l, got)
<1> DEFINE rest == [k \in 1 .. l |-> fun[m + k]]
           all == [k \in 1 .. m + l |-> fun[k]]
           C == B \union {fun[k] : k \in 1 .. m + l}
<1>1. \A k \in 1 .. l : m + k \in 1 .. m + l
  OBVIOUS
<1>2. /\ got \in Seq(C) /\ rest \in Seq(C) /\ all \in Seq(C)
      /\ Len(rest) = l /\ Len(all) = m + l
  BY <1>1
<1>3. \A k \in 1 .. l : rest[k] = fun[m + k]
  OBVIOUS
<1>4. \A k \in 1 .. m + l : all[k] = fun[k]
  OBVIOUS
<1> HIDE DEF rest, all, C
<1>5. /\ got \o rest \in Seq(C) /\ Len(got \o rest) = m + l
      /\ \A k \in 1 .. m + l : (got \o rest)[k] = IF k <= m THEN got[k] ELSE rest[k - m]
  BY <1>2
<1>6. \A k \in 1 .. m + l : (got \o rest)[k] = all[k]
  <2> TAKE k \in 1 .. m + l
  <2>1. CASE k <= m
    BY <1>4, <1>5, <2>1
  <2>2. CASE ~(k <= m)
    <3>1. k - m \in 1 .. l /\ m + (k - m) = k
      BY <2>2
    <3> QED
      BY <1>3, <1>4, <1>5, <2>2, <3>1
  <2> QED
    BY <2>1, <2>2
<1>7. got \o rest = all
  BY <1>2, <1>5, <1>6, SeqEqual
<1> QED
  BY <1>7 DEF rest, all, FollowedBy

\* The definition that From in cat has.
CatEq(f, inode, n) ==
    f = [pos \in Nat |->
            IF read_data(inode, pos, n).ret = 0 THEN <<>>
            ELSE SubSeq(read_data(inode, pos, n).bytes, 1, read_data(inode, pos, n).ret)
                 \o f[pos + read_data(inode, pos, n).ret]]

\* Whatever the file and its blocks: cat prints the whole of it, by whatever part of a block
\* it reads it, so no read in between returns 0 and no byte is lost where a block ends.
THEOREM CatPrintsAll ==
  ASSUME NEW inode \in Inode, NEW n \in 1 .. BLOCK - 1
  PROVE  cat(inode, n) = Content(inode)
<1> DEFINE size == inode_arr[inode].length
           R == Seq(Byte)
           Left(p) == IF p < size THEN size - p ELSE 0
           rank == [p \in Nat |-> Left(p)]
           Many(p) == Amount(inode, p, n)
           next == [p \in Nat |-> p + Many(p)]
           Bytes(p) == [k \in 1 .. Left(p) |-> FileByte(inode, p + (k - 1))]
           g == [p \in Nat |-> Bytes(p)]
           Got(p) == SubSeq(read_data(inode, p, n).bytes, 1, read_data(inode, p, n).ret)
           Ret(p) == read_data(inode, p, n).ret
           Body(f, p) == IF Ret(p) = 0 THEN <<>> ELSE Got(p) \o f[p + Ret(p)]
           Step == [f \in [Nat -> R] |-> [p \in Nat |-> Body(f, p)]]
<1>1. BLOCK \in Nat \ {0} /\ size \in Nat /\ n \in Nat /\ n >= 1 /\ n < BLOCK
  BY ImageAssumption
<1> HIDE DEF size
<1>2. ASSUME NEW p \in Nat
      PROVE  /\ Many(p) \in Nat /\ Many(p) <= Left(p) /\ (Many(p) = 0 <=> ~(p < size))
             /\ Ret(p) = Many(p)
             /\ Got(p) \in Seq(Byte) /\ Len(Got(p)) = Many(p)
             /\ \A k \in 1 .. Many(p) : Got(p)[k] = FileByte(inode, p + (k - 1))
  <2> DEFINE r == read_data(inode, p, n)
  <2> HIDE DEF r
  <2>1. Many(p) \in Nat /\ Many(p) <= Left(p) /\ (Many(p) = 0 <=> ~(p < size)) /\ Many(p) < BLOCK
    BY <1>1 DEF Amount, Smaller, size
  <2>2. AnswersPart(r, inode, p, Many(p))
    BY <1>1, ReadsExactly DEF r
  <2>3. Ret(p) = r.ret /\ Got(p) = SubSeq(r.bytes, 1, r.ret)
    BY DEF r
  <2> HIDE DEF Many, Got, Ret
  <2>4. /\ r.bytes \in Seq(Byte) /\ Len(r.bytes) = Many(p) /\ r.ret = Many(p)
        /\ \A k \in 1 .. Many(p) : r.bytes[k] = FileByte(inode, p + (k - 1))
    BY <2>1, <2>2 DEF AnswersPart
  <2>5. SubSeq(r.bytes, 1, Len(r.bytes)) = r.bytes
    <3> DEFINE b == r.bytes
    <3>1. b \in Seq(Byte)
      BY <2>4
    <3> HIDE DEF b
    <3>2. Len(SubSeq(b, 1, Len(b))) = Len(b) /\ SubSeq(b, 1, Len(b)) \in Seq(Byte)
      BY <3>1
    <3>3. \A k \in 1 .. Len(SubSeq(b, 1, Len(b))) : SubSeq(b, 1, Len(b))[k] = b[k]
      BY <3>1, <3>2
    <3>4. SubSeq(b, 1, Len(b)) = b
      BY <3>1, <3>2, <3>3, SeqEqual
    <3> QED
      BY <3>4 DEF b
  <2>6. Got(p) = r.bytes
    BY <2>3, <2>4, <2>5
  <2> QED
    BY <2>1, <2>3, <2>4, <2>6
<1> HIDE DEF Many, Got, Ret
<1>r. \A p \in Nat : /\ Ret(p) = Many(p) /\ Ret(p) \in Nat /\ p + Ret(p) \in Nat
                     /\ Got(p) \in Seq(Byte) /\ Left(p) \in Nat
  <2> TAKE p \in Nat
  <2>1. Ret(p) = Many(p) /\ Many(p) \in Nat /\ Got(p) \in Seq(Byte)
    BY <1>2
  <2> QED
    BY <1>1, <2>1
<1>3. Step \in [[Nat -> R] -> [Nat -> R]]
  <2>1. ASSUME NEW f \in [Nat -> R], NEW p \in Nat
        PROVE  Body(f, p) \in R
    <3>1. p + Ret(p) \in Nat /\ Got(p) \in Seq(Byte)
      BY <1>r
    <3>2. f[p + Ret(p)] \in R
      BY <3>1
    <3>3. Got(p) \o f[p + Ret(p)] \in R
      BY <3>1, <3>2
    <3> QED
      BY <3>3
  <2> HIDE DEF R, Body
  <2> QED
    BY <2>1
<1>4. rank \in [Nat -> Nat] /\ next \in [Nat -> Nat]
  <2>1. \A p \in Nat : Left(p) \in Nat /\ p + Many(p) \in Nat
    BY <1>r
  <2> QED
    BY <2>1
<1>5. ASSUME NEW p \in Nat, Ret(p) # 0
      PROVE  p + Ret(p) \in Nat /\ rank[p + Ret(p)] < rank[p] /\ next[p] = p + Ret(p)
  <2>1. Ret(p) = Many(p) /\ Many(p) \in Nat /\ Many(p) # 0 /\ p < size /\ Many(p) <= Left(p)
    BY <1>2, <1>5
  <2>2. p + Many(p) \in Nat /\ Left(p + Many(p)) < Left(p)
    BY <1>1, <2>1
  <2> QED
    BY <2>1, <2>2
<1>6. LooksDown(Nat, R, rank, Step)
  <2> SUFFICES ASSUME NEW f \in [Nat -> R], NEW h \in [Nat -> R], NEW p \in Nat,
                      \A j \in Nat : rank[j] < rank[p] => f[j] = h[j]
               PROVE  Step[f][p] = Step[h][p]
    BY Zenon DEF LooksDown
  <2> HIDE DEF R, rank
  <2>1. Ret(p) # 0 => f[p + Ret(p)] = h[p + Ret(p)]
    BY <1>5
  <2>2. Body(f, p) = Body(h, p)
    BY <2>1
  <2> HIDE DEF Body
  <2> QED
    BY <2>2
<1>7. PICK f \in [Nat -> R] : f = Step[f]
  <2>1. <<>> \in R
    BY EmptySeq
  <2> HIDE DEF rank, Step, R
  <2>2. IsDefined(Nat, R, Step)
    BY <1>3, <1>4, <1>6, <2>1, RecursionExists
  <2> QED
    BY <2>2 DEF IsDefined
<1>8. CatEq(f, inode, n)
  <2> HIDE DEF R
  <2>1. f = [p \in Nat |-> Body(f, p)]
    BY <1>7
  <2> QED
    BY <2>1, Zenon DEF CatEq, Got, Ret
<1> DEFINE v == CHOOSE h : CatEq(h, inode, n)
<1>9. CatEq(v, inode, n)
  BY <1>8, Zenon
<1>10. cat(inode, n) = v[0]
  BY Zenon DEF cat, CatEq
<1> HIDE DEF v
<1>11. \A p \in Nat : v[p] = Body(v, p)
  <2>1. v = [p \in Nat |-> Body(v, p)]
    BY <1>9, Zenon DEF CatEq, Got, Ret
  <2> HIDE DEF Body
  <2> QED
    BY <2>1
<1>12. SameOrSteps(Nat, rank, next, v, g)
  <2> SUFFICES ASSUME NEW p \in Nat
               PROVE  \/ v[p] = g[p]
                      \/ /\ rank[next[p]] < rank[p]
                         /\ v[next[p]] = g[next[p]] => v[p] = g[p]
    BY Zenon DEF SameOrSteps
  <2>1. CASE Ret(p) = 0
    <3>1. v[p] = <<>>
      BY <1>11, <2>1
    <3>2. ~(p < size)
      BY <1>2, <2>1
    <3>3. Bytes(p) = <<>>
      BY <3>2
    <3> QED
      BY <3>1, <3>3
  <2>2. CASE Ret(p) # 0
    <3>1. next[p] = p + Ret(p) /\ rank[p + Ret(p)] < rank[p] /\ p + Ret(p) \in Nat
      BY <1>5, <2>2
    <3>2. ASSUME v[p + Ret(p)] = g[p + Ret(p)] PROVE v[p] = g[p]
      <4> DEFINE m == Many(p)
                 rest == Bytes(p + m)
                 after == Left(p + m)
                 got == Got(p)
                 F == [k \in Nat |-> FileByte(inode, p + (k - 1))]
      <4>0. Ret(p) = m /\ m \in Nat /\ m # 0 /\ p < size /\ m <= Left(p)
        BY <1>2, <2>2
      <4>1. v[p] = got \o rest
        BY <1>11, <2>2, <3>1, <3>2, <4>0
      <4>2. Left(p) = m + after /\ after \in Nat
        <5> HIDE DEF m
        <5> QED
          BY <1>1, <4>0
      <4>f. \A k \in Nat : F[k] = FileByte(inode, p + (k - 1))
        OBVIOUS
      <4>3. rest = [k \in 1 .. after |-> F[m + k]]
        <5> HIDE DEF F, m
        <5>1. \A k \in 1 .. after : p + m + (k - 1) = p + (m + k - 1) /\ m + k \in Nat
          BY <4>0, <4>2
        <5>2. \A k \in 1 .. after : FileByte(inode, p + m + (k - 1)) = F[m + k]
          BY <4>0, <4>2, <4>f, <5>1
        <5> QED
          BY <5>2
      <4>4. Bytes(p) = [k \in 1 .. m + after |-> F[k]]
        <5> HIDE DEF F, m, after
        <5>1. \A k \in 1 .. m + after : k \in Nat
          BY <4>0, <4>2
        <5>2. \A k \in 1 .. m + after : FileByte(inode, p + (k - 1)) = F[k]
          BY <4>f, <5>1
        <5> QED
          BY <4>2, <5>2
      <4>5. got \in Seq(Byte) /\ Len(got) = m /\ \A k \in 1 .. m : got[k] = F[k]
        <5>1. /\ got \in Seq(Byte) /\ Len(got) = m
              /\ \A k \in 1 .. m : got[k] = FileByte(inode, p + (k - 1))
          BY <1>2
        <5>2. \A k \in 1 .. m : k \in Nat
          BY <4>0
        <5> HIDE DEF F, m, got
        <5>3. \A k \in 1 .. m : F[k] = FileByte(inode, p + (k - 1))
          BY <4>f, <5>2
        <5>4. \A k \in 1 .. m : got[k] = F[k]
          BY <5>1, <5>3, Zenon
        <5> QED
          BY <5>1, <5>4
      <4>6. got \o rest = [k \in 1 .. m + after |-> F[k]]
        <5> HIDE DEF m, after, got, rest, F
        <5>1. FollowedBy(F, m, after, got)
          BY <4>0, <4>2, <4>5, PiecesJoin
        <5> QED
          BY <4>3, <5>1 DEF FollowedBy
      <4> HIDE DEF got, rest, F, m, after
      <4> QED
        BY <4>1, <4>4, <4>6
    <3> HIDE DEF next, rank, g
    <3> QED
      BY <3>1, <3>2
  <2> QED
    BY <2>1, <2>2
<1>13. Same(Nat, v, g)
  <2> HIDE DEF rank, next, g
  <2> QED
    BY <1>4, <1>12, StepsAgree
<1>14. v[0] = g[0]
  BY <1>13 DEF Same
<1>15. g[0] = Content(inode)
  <2>1. Left(0) = size /\ \A k \in 1 .. size : 0 + (k - 1) = k - 1
    BY <1>1
  <2>2. Content(inode) = [k \in 1 .. size |-> FileByte(inode, k - 1)]
    BY DEF Content, FileByte, size
  <2>3. g[0] = [k \in 1 .. size |-> FileByte(inode, k - 1)]
    BY <2>1
  <2> QED
    BY <2>2, <2>3
<1> QED
  BY <1>10, <1>14, <1>15

-----------------------------------------------------------------------------
(* What grep finds.                                                        *)

\* The line that starts behind p characters ends behind e.
EndsLine(text, p, e) ==
    /\ e \in p .. Len(text)
    /\ e = Len(text) \/ text[e + 1] = NEWLINE
    /\ \A k \in p + 1 .. e : text[k] # NEWLINE

\* It ends in one place.
LEMMA EndIs ==
  ASSUME NEW C, NEW text \in Seq(C), NEW p \in 0 .. Len(text),
         NEW e \in p .. Len(text), EndsLine(text, p, e)
  PROVE  LineFrom(text, p) = SubSeq(text, p + 1, e)
<1> DEFINE E(x) == /\ x = Len(text) \/ text[x + 1] = NEWLINE
                   /\ \A k \in p + 1 .. x : text[k] # NEWLINE
<1>1. E(e)
  BY DEF EndsLine
<1>2. PICK c \in p .. Len(text) : E(c) /\ LineFrom(text, p) = SubSeq(text, p + 1, c)
  <2>1. LineFrom(text, p) = SubSeq(text, p + 1, CHOOSE x \in p .. Len(text) : E(x))
    BY Zenon DEF LineFrom
  <2> HIDE DEF E
  <2>2. \E x \in p .. Len(text) : E(x)
    BY <1>1
  <2>3. /\ (CHOOSE x \in p .. Len(text) : E(x)) \in p .. Len(text)
        /\ E(CHOOSE x \in p .. Len(text) : E(x))
    BY <2>2, Zenon
  <2> QED
    BY <2>1, <2>3, Zenon
<1>4. e = c
  <2>1. ASSUME e < c PROVE FALSE
    <3>1. e + 1 \in p + 1 .. c /\ e # Len(text)
      BY <1>1, <1>2, <2>1
    <3> QED
      BY <1>1, <1>2, <3>1
  <2>2. ASSUME c < e PROVE FALSE
    <3>1. c + 1 \in p + 1 .. e /\ c # Len(text)
      BY <1>1, <1>2, <2>2
    <3> QED
      BY <1>1, <1>2, <3>1
  <2> QED
    BY <1>1, <1>2, <2>1, <2>2
<1> QED
  BY <1>2, <1>4, Zenon

LEMMA LineExists ==
  ASSUME NEW C, NEW text \in Seq(C), NEW p \in 0 .. Len(text)
  PROVE  \E e \in p .. Len(text) : EndsLine(text, p, e)
<1> DEFINE S == {e \in p .. Len(text) : e = Len(text) \/ text[e + 1] = NEWLINE}
<1>1. S \in SUBSET Nat /\ Len(text) \in S
  OBVIOUS
<1>2. PICK e \in S : \A k \in S : e <= k
  <2> HIDE DEF S
  <2> QED
    BY <1>1, LeastElement
<1>3. e \in p .. Len(text) /\ (e = Len(text) \/ text[e + 1] = NEWLINE)
  OBVIOUS
<1>4. ASSUME NEW k \in p + 1 .. e, text[k] = NEWLINE PROVE FALSE
  <2>1. k - 1 \in p .. Len(text) /\ (k - 1) + 1 = k /\ k - 1 < e
    BY <1>3
  <2>2. k - 1 \in S
    BY <1>4, <2>1
  <2>3. e <= k - 1
    BY <1>2, <2>2
  <2> QED
    BY <1>3, <2>1, <2>3
<1> QED
  BY <1>3, <1>4 DEF EndsLine

\* A line is a sequence of characters of the text, and ends within it.
LEMMA LineTyped ==
  ASSUME NEW C, NEW text \in Seq(C), NEW p \in 0 .. Len(text)
  PROVE  /\ LineFrom(text, p) \in Seq(C)
         /\ p + Len(LineFrom(text, p)) \in 0 .. Len(text)
<1>1. PICK e \in p .. Len(text) : EndsLine(text, p, e)
  BY LineExists
<1>2. LineFrom(text, p) = SubSeq(text, p + 1, e)
  BY <1>1, EndIs, Zenon
<1>3. SubSeq(text, p + 1, e) \in Seq(C) /\ Len(SubSeq(text, p + 1, e)) = e - p
  OBVIOUS
<1> QED
  BY <1>2, <1>3

\* The definition that From has, and what it gives.
MatchEq(f, text, pattern) ==
    f = [p \in 0 .. Len(text) + 1 |->
            IF p > Len(text) THEN <<>>
            ELSE (IF LineMatches(LineFrom(text, p), pattern) THEN <<LineFrom(text, p)>> ELSE <<>>)
                 \o f[p + Len(LineFrom(text, p)) + 1]]

LEMMA MatchingDefined ==
  ASSUME NEW C, NEW text \in Seq(C), NEW pattern
  PROVE  \E f \in [0 .. Len(text) + 1 -> Seq(Seq(C))] : MatchEq(f, text, pattern)
<1> DEFINE n == Len(text)
           D == 0 .. n + 1
           R == Seq(Seq(C))
           rank == [p \in D |-> n + 1 - p]
           Here(p) == LineFrom(text, p)
           after == [p \in D |-> p + Len(Here(p)) + 1]
           found == [p \in D |-> IF LineMatches(Here(p), pattern) THEN <<Here(p)>> ELSE <<>>]
           Body(f, p) == IF p > n THEN <<>> ELSE found[p] \o f[after[p]]
           Step == [f \in [D -> R] |-> [p \in D |-> Body(f, p)]]
<1>1. n \in Nat /\ n = Len(text)
  OBVIOUS
<1>2. ASSUME NEW p \in D, ~(p > n)
      PROVE  found[p] \in R /\ after[p] \in D /\ after[p] > p
  <2>1. Here(p) \in Seq(C) /\ p + Len(Here(p)) \in 0 .. n
    <3>1. p \in 0 .. Len(text)
      BY <1>1, <1>2
    <3> QED
      BY <3>1, LineTyped
  <2>2. <<Here(p)>> \in R /\ <<>> \in R
    <3> DEFINE l == Here(p)
    <3>1. l \in Seq(C)
      BY <2>1
    <3> HIDE DEF l
    <3>2. <<l>> \in Seq(Seq(C)) /\ <<>> \in Seq(Seq(C))
      BY <3>1
    <3> QED
      BY <3>2 DEF l
  <2>3. found[p] \in R
    BY <2>2
  <2>4. after[p] \in D /\ after[p] > p
    <3> DEFINE m == Len(Here(p))
    <3>1. p + m \in 0 .. n /\ m \in Nat /\ after[p] = p + m + 1
      BY <2>1
    <3> HIDE DEF m, after, Here
    <3> QED
      BY <1>1, <3>1
  <2> QED
    BY <2>3, <2>4
<1> HIDE DEF n
<1>3. Step \in [[D -> R] -> [D -> R]]
  <2>1. ASSUME NEW f \in [D -> R], NEW p \in D
        PROVE  Body(f, p) \in R
    <3> HIDE DEF found, after
    <3>1. CASE p > n
      BY <3>1, EmptySeq
    <3>2. CASE ~(p > n)
      <4>1. found[p] \in R /\ f[after[p]] \in R
        BY <1>2, <3>2
      <4> QED
        BY <3>2, <4>1
    <3> QED
      BY <3>1, <3>2
  <2> HIDE DEF Body, R, D
  <2> QED
    BY <2>1
<1>4. rank \in [D -> Nat]
  BY <1>1
<1>5. LooksDown(D, R, rank, Step)
  <2> SUFFICES ASSUME NEW f \in [D -> R], NEW h \in [D -> R], NEW p \in D,
                      \A j \in D : rank[j] < rank[p] => f[j] = h[j]
               PROVE  Step[f][p] = Step[h][p]
    BY Zenon DEF LooksDown
  <2>1. ~(p > n) => f[after[p]] = h[after[p]]
    <3> SUFFICES ASSUME ~(p > n) PROVE f[after[p]] = h[after[p]]
      OBVIOUS
    <3> HIDE DEF after, found, R
    <3>1. after[p] \in D /\ after[p] > p
      BY <1>2
    <3>2. rank[after[p]] < rank[p]
      BY <1>1, <3>1
    <3> QED
      BY <3>1, <3>2
  <2> HIDE DEF R, rank, after, found
  <2>2. Body(f, p) = Body(h, p)
    BY <2>1
  <2> HIDE DEF Body
  <2> QED
    BY <2>2
<1>6. PICK f \in [D -> R] : f = Step[f]
  <2>1. R # {}
    BY EmptySeq
  <2> HIDE DEF rank, Step, R
  <2>2. IsDefined(D, R, Step)
    BY <1>3, <1>4, <1>5, <2>1, RecursionExists
  <2> QED
    BY <2>2 DEF IsDefined
<1>7. MatchEq(f, text, pattern)
  <2> HIDE DEF R
  <2>1. f = [p \in D |-> Body(f, p)]
    BY <1>6
  <2>2. \A p \in D : Body(f, p) =
            IF p > n THEN <<>>
            ELSE (IF LineMatches(Here(p), pattern) THEN <<Here(p)>> ELSE <<>>)
                 \o f[p + Len(Here(p)) + 1]
    <3> HIDE DEF Here
    <3> QED
      OBVIOUS
  <2> HIDE DEF Body
  <2>3. f = [p \in D |-> IF p > n THEN <<>>
                         ELSE (IF LineMatches(Here(p), pattern) THEN <<Here(p)>> ELSE <<>>)
                              \o f[p + Len(Here(p)) + 1]]
    BY <2>1, <2>2, Zenon
  <2> QED
    BY <2>3, Zenon DEF MatchEq, n
<1> HIDE DEF R
<1>8. f \in [0 .. Len(text) + 1 -> R]
  BY <1>6 DEF n
<1> QED
  BY <1>7, <1>8, Zenon DEF R

\* The characters of a text.
CharsOf(text) == {text[k] : k \in 1 .. Len(text)}

LEMMA OfItsChars ==
  ASSUME NEW C, NEW text \in Seq(C)
  PROVE  text \in Seq(CharsOf(text))
<1>1. text \in [1 .. Len(text) -> CharsOf(text)] /\ Len(text) \in Nat
  BY DEF CharsOf
<1> QED
  BY <1>1

\* The line in the buffer: where it ends, and what is in it.
LEMMA BufferLine ==
  ASSUME NEW C, NEW text \in Seq(C), NEW size \in Nat, NEW at \in Searching(text, size)
  PROVE  /\ at.data \in Seq(CharsOf(text)) /\ Len(at.data) <= size /\ at.cnt \in Nat
         /\ at.pos \in 0 .. Len(text) /\ at.from \in Nat /\ LineEnd(at) \in Nat
         /\ EndsIn(at) = {} => LineEnd(at) = Len(at.data)
         /\ EndsIn(at) # {} => /\ at.from <= LineEnd(at) /\ LineEnd(at) < Len(at.data)
                               /\ at.data[LineEnd(at) + 1] = NEWLINE
         /\ \A k \in at.from + 1 .. LineEnd(at) : at.data[k] # NEWLINE
         /\ LineOf(at) \in Seq(CharsOf(text))
         /\ at.from <= LineEnd(at) => Len(LineOf(at)) = LineEnd(at) - at.from
         /\ ~(at.from <= LineEnd(at)) => Len(LineOf(at)) = 0
         /\ \A k \in 1 .. Len(LineOf(at)) : LineOf(at)[k] = at.data[at.from + k]
<1> DEFINE data == at.data
           from == at.from
           e == LineEnd(at)
           S == EndsIn(at)
           l == LineOf(at)
<1>1. /\ data \in Seq(CharsOf(text)) /\ Len(data) <= size /\ at.cnt \in Nat
      /\ at.pos \in 0 .. Len(text) /\ from \in Nat
  BY DEF Searching, CharsOf
<1>2. S = {k \in from .. Len(data) - 1 : data[k + 1] = NEWLINE}
  BY DEF EndsIn
<1>3. e = IF S = {} THEN Len(data) ELSE CHOOSE k \in S : \A j \in S : k <= j
  BY DEF LineEnd
<1>4. l = SubSeq(data, from + 1, e)
  BY DEF LineOf
<1> HIDE DEF data, from, e, S, l
<1>5. CASE S = {}
  <2>1. e = Len(data) /\ e \in Nat
    BY <1>1, <1>3, <1>5
  <2>2. ASSUME NEW k \in from + 1 .. e, data[k] = NEWLINE PROVE FALSE
    <3>1. k - 1 \in from .. Len(data) - 1 /\ (k - 1) + 1 = k
      BY <1>1, <2>1
    <3>2. k - 1 \in S
      BY <1>2, <2>2, <3>1
    <3> QED
      BY <1>5, <3>2
  <2>3. l \in Seq(CharsOf(text)) /\ Len(l) = (IF from <= e THEN e - from ELSE 0)
    BY <1>1, <1>4, <2>1
  <2>4. \A k \in 1 .. Len(l) : l[k] = data[from + k]
    BY <1>1, <1>4, <2>1, <2>3
  <2> QED
    BY <1>1, <1>5, <2>1, <2>2, <2>3, <2>4 DEF data, from, e, S, l
<1>6. CASE S # {}
  <2>1. S \in SUBSET Nat
    BY <1>1, <1>2
  <2>2. \E m \in S : \A j \in S : m <= j
    BY <1>6, <2>1, LeastElement
  <2>3. e \in S /\ \A j \in S : e <= j
    BY <1>3, <1>6, <2>2
  <2>4. e \in Nat /\ from <= e /\ e < Len(data) /\ data[e + 1] = NEWLINE
    BY <1>1, <1>2, <2>3
  <2>5. ASSUME NEW k \in from + 1 .. e, data[k] = NEWLINE PROVE FALSE
    <3>1. k - 1 \in from .. Len(data) - 1 /\ (k - 1) + 1 = k /\ k - 1 < e
      BY <1>1, <2>4
    <3>2. k - 1 \in S
      BY <1>2, <2>5, <3>1
    <3>3. e <= k - 1
      BY <2>3, <3>2
    <3> QED
      BY <2>4, <3>1, <3>3
  <2>6. l \in Seq(CharsOf(text)) /\ Len(l) = e - from
    BY <1>1, <1>4, <2>4
  <2>7. \A k \in 1 .. Len(l) : l[k] = data[from + k]
    BY <1>1, <1>4, <2>4, <2>6
  <2> QED
    BY <1>1, <1>6, <2>4, <2>5, <2>6, <2>7 DEF data, from, e, S, l
<1> QED
  BY <1>5, <1>6

\* What a read puts into the buffer behind the part of a line that was kept.
LEMMA RefillIs ==
  ASSUME NEW C, NEW text \in Seq(C), NEW size \in Nat, NEW kept \in Seq(CharsOf(text)),
         Len(kept) <= size, NEW pos \in 0 .. Len(text), NEW r, r = Refill(text, size, kept, pos)
  PROVE  /\ r \in Searching(text, size) /\ r.from = 0
         /\ r.cnt \in Nat /\ r.pos = pos + r.cnt /\ Len(r.data) = Len(kept) + r.cnt
         /\ r.cnt = 0 <=> Len(kept) = size \/ pos = Len(text)
         /\ Len(r.data) = size \/ r.pos = Len(text)
         /\ \A k \in 1 .. Len(kept) : r.data[k] = kept[k]
         /\ \A k \in 1 .. r.cnt : r.data[Len(kept) + k] = text[pos + k]
<1> DEFINE n == Len(text)
           m == Len(kept)
           cnt == Smaller(size - m, n - pos)
           more == SubSeq(text, pos + 1, pos + cnt)
           T == CharsOf(text)
           data == kept \o more
<1>1. r = [data |-> data, cnt |-> cnt, pos |-> pos + cnt, from |-> 0]
  BY DEF Refill
<1>2. n \in Nat /\ m \in Nat /\ m <= size /\ pos \in 0 .. n
  OBVIOUS
<1>3. /\ cnt \in Nat /\ pos + cnt \in 0 .. n /\ m + cnt <= size
      /\ cnt = 0 <=> m = size \/ pos = n
      /\ m + cnt = size \/ pos + cnt = n
  <2> HIDE DEF n, m
  <2> QED
    BY <1>2 DEF Smaller
<1>4. text \in Seq(T) /\ kept \in Seq(T)
  BY OfItsChars
<1> HIDE DEF cnt, T
<1>5. more \in Seq(T) /\ Len(more) = cnt /\ \A k \in 1 .. cnt : more[k] = text[pos + k]
  <2> DEFINE i == pos + cnt
  <2>1. text \in Seq(T) /\ i \in 0 .. Len(text) /\ pos + 1 \in Nat /\ i - (pos + 1) + 1 = cnt
    BY <1>2, <1>3, <1>4
  <2>2. more = SubSeq(text, pos + 1, i)
    OBVIOUS
  <2> HIDE DEF i, more
  <2>3. /\ more \in Seq(T) /\ Len(more) = (IF pos + 1 <= i THEN i - (pos + 1) + 1 ELSE 0)
        /\ \A k \in 1 .. i - (pos + 1) + 1 : more[k] = text[pos + 1 + k - 1]
    <3>1. \A k \in pos + 1 .. i : text[k] \in T
      BY <1>2, <2>1
    <3>2. pos + 1 \in Int /\ i \in Int
      BY <1>2, <2>1
    <3> QED
      BY <2>2, <3>1, <3>2, SubSeqProperties
  <2>4. i = pos + cnt
    BY DEF i
  <2>5. \A k \in 1 .. cnt : pos + 1 + k - 1 = pos + k
    BY <1>2, <1>3
  <2>6. Len(more) = cnt
    <3>1. cnt \in Nat /\ pos \in Nat
      BY <1>2, <1>3
    <3>2. i - (pos + 1) + 1 = cnt
      BY <2>1
    <3>3. pos + 1 <= i \/ cnt = 0
      BY <2>4, <3>1
    <3>4. ~(pos + 1 <= i) \/ Len(more) = cnt
      BY <2>3, <3>2
    <3>5. pos + 1 <= i \/ Len(more) = 0
      BY <2>3
    <3> QED
      BY <3>3, <3>4, <3>5
  <2>7. 1 .. i - (pos + 1) + 1 = 1 .. cnt
    BY <2>1
  <2> QED
    BY <2>3, <2>5, <2>6, <2>7
<1> HIDE DEF more, n
<1>6. /\ data \in Seq(T) /\ Len(data) = m + cnt
      /\ \A k \in 1 .. m : data[k] = kept[k]
      /\ \A k \in 1 .. cnt : data[m + k] = more[k]
  <2>1. /\ data \in Seq(T) /\ Len(data) = m + cnt
        /\ \A k \in 1 .. m + cnt : data[k] = IF k <= m THEN kept[k] ELSE more[k - m]
    BY <1>4, <1>5, ConcatProperties
  <2>3. \A k \in 1 .. m : k \in 1 .. m + cnt /\ k <= m
    BY <1>2, <1>3
  <2>4. \A k \in 1 .. cnt : m + k \in 1 .. m + cnt /\ ~(m + k <= m) /\ (m + k) - m = k
    BY <1>2, <1>3
  <2> HIDE DEF data, m
  <2> QED
    BY <2>1, <2>3, <2>4
<1> HIDE DEF data, m
<1>7. r \in Searching(text, size)
  BY <1>1, <1>3, <1>6 DEF Searching, T, CharsOf, n
<1>8. \A k \in 1 .. cnt : data[m + k] = text[pos + k]
  BY <1>5, <1>6
<1>9. r.data = data /\ r.cnt = cnt /\ r.pos = pos + cnt /\ r.from = 0
  BY <1>1
<1> QED
  BY <1>3, <1>6, <1>7, <1>8, <1>9 DEF n, m

\* Where the search goes on, and whether it ends.
GrepKeeps(at) == KeepsPartialLine(EndsIn(at) # {}, at.cnt, at.from)
GrepMore(at) == LineEnd(at) + 1 < Len(at.data)
GrepEnds(at) == ~GrepKeeps(at) /\ ~GrepMore(at) /\ at.cnt = 0
GrepNext(text, size, at) ==
    IF GrepKeeps(at) THEN Refill(text, size, LineOf(at), at.pos)
    ELSE IF GrepMore(at) THEN NextLine(at)
    ELSE Refill(text, size, <<>>, at.pos)

\* What lowers: first what the reads have still to bring, then what is left in the buffer.
ToRead(text, at) == 2 * (Len(text) - at.pos) + (IF at.cnt = 0 THEN 0 ELSE 1)
ToSearch(at) == IF at.from < Len(at.data) THEN Len(at.data) - at.from ELSE 0
GrepRank(text, size, at) == ToRead(text, at) * (size + 1) + ToSearch(at)

LEMMA FirstThenSecond ==
  ASSUME NEW a \in Nat, NEW b \in Nat, NEW c \in Nat, NEW d \in Nat, NEW s \in Nat,
         d <= s, a < b
  PROVE  a * (s + 1) + d < b * (s + 1) + c
<1>1. PICK e \in Nat : b = a + 1 + e
  <2>1. b - a - 1 \in Nat /\ b = a + 1 + (b - a - 1)
    OBVIOUS
  <2> QED
    BY <2>1
<1>2. b * (s + 1) = a * (s + 1) + (s + 1) + e * (s + 1)
  BY <1>1
<1>3. e * (s + 1) \in Nat /\ a * (s + 1) \in Nat
  OBVIOUS
<1> DEFINE x == a * (s + 1)
           y == e * (s + 1)
           z == b * (s + 1)
<1>4. x \in Nat /\ y \in Nat /\ z = x + (s + 1) + y
  BY <1>2, <1>3
<1> HIDE DEF x, y, z
<1>5. x + d < z + c
  BY <1>4
<1> QED
  BY <1>5 DEF x, z

LEMMA GrepRanks ==
  ASSUME NEW C, NEW text \in Seq(C), NEW size \in Nat, NEW at \in Searching(text, size)
  PROVE  /\ ToRead(text, at) \in Nat /\ ToSearch(at) \in Nat /\ ToSearch(at) <= size
         /\ GrepRank(text, size, at) \in Nat
<1>1. /\ Len(at.data) \in Nat /\ Len(at.data) <= size /\ at.cnt \in Nat
      /\ at.pos \in 0 .. Len(text) /\ at.from \in Nat
  BY BufferLine
<1>2. Len(text) \in Nat
  OBVIOUS
<1>3. ToRead(text, at) \in Nat
  BY <1>1, <1>2 DEF ToRead
<1>4. ToSearch(at) \in Nat /\ ToSearch(at) <= size
  BY <1>1 DEF ToSearch
<1> QED
  BY <1>3, <1>4 DEF GrepRank

\* A round reads more, or goes on to the next line.
LEMMA GrepSteps ==
  ASSUME NEW C, NEW text \in Seq(C), NEW size \in Nat \ {0}, NEW at \in Searching(text, size)
  PROVE  /\ GrepNext(text, size, at) \in Searching(text, size)
         /\ ~GrepEnds(at) =>
              GrepRank(text, size, GrepNext(text, size, at)) < GrepRank(text, size, at)
<1> DEFINE to == GrepNext(text, size, at)
           n == Len(text)
<1>1. /\ at.data \in Seq(CharsOf(text)) /\ Len(at.data) <= size /\ at.cnt \in Nat
      /\ at.pos \in 0 .. n /\ at.from \in Nat /\ LineEnd(at) \in Nat
  BY BufferLine
<1>2. /\ EndsIn(at) = {} => LineEnd(at) = Len(at.data)
      /\ EndsIn(at) # {} => at.from <= LineEnd(at) /\ LineEnd(at) < Len(at.data)
      /\ LineOf(at) \in Seq(CharsOf(text))
      /\ at.from <= LineEnd(at) => Len(LineOf(at)) = LineEnd(at) - at.from
      /\ ~(at.from <= LineEnd(at)) => Len(LineOf(at)) = 0
  BY BufferLine
<1>3. n \in Nat /\ size \in Nat /\ size # 0
  OBVIOUS
<1>r. ASSUME NEW kept \in Seq(CharsOf(text)), Len(kept) < size, at.cnt # 0,
             to = Refill(text, size, kept, at.pos)
      PROVE  /\ to \in Searching(text, size)
             /\ GrepRank(text, size, to) < GrepRank(text, size, at)
  <2>1. /\ to \in Searching(text, size) /\ to.cnt \in Nat /\ to.pos = at.pos + to.cnt
        /\ to.cnt = 0 <=> Len(kept) = size \/ at.pos = n
    BY <1>1, <1>r, RefillIs
  <2>2. to.pos \in 0 .. n /\ Len(kept) \in Nat
    BY <2>1 DEF Searching
  <2> HIDE DEF to, n
  <2>3. 2 * (n - to.pos) + (IF to.cnt = 0 THEN 0 ELSE 1)
            < 2 * (n - at.pos) + (IF at.cnt = 0 THEN 0 ELSE 1)
    <3> DEFINE c == to.cnt
               p == at.pos
               q == to.pos
    <3>1. c \in Nat /\ q = p + c /\ q \in 0 .. n /\ p \in 0 .. n
      BY <1>1, <2>1, <2>2
    <3> HIDE DEF c, p, q
    <3>2. 2 * (n - q) + (IF c = 0 THEN 0 ELSE 1) < 2 * (n - p) + 1
      <4>1. CASE c = 0
        BY <1>3, <3>1, <4>1
      <4>2. CASE c # 0
        <5>1. n - q <= n - p - 1
          BY <1>3, <3>1, <4>2
        <5> QED
          BY <1>3, <3>1, <4>2, <5>1
      <4> QED
        BY <4>1, <4>2
    <3> QED
      BY <1>r, <3>2 DEF c, p, q
  <2>4. ToRead(text, to) < ToRead(text, at)
    BY <2>3 DEF ToRead, n
  <2>5. /\ ToRead(text, to) \in Nat /\ ToSearch(to) \in Nat /\ ToSearch(to) <= size
        /\ ToRead(text, at) \in Nat /\ ToSearch(at) \in Nat
    BY <2>1, GrepRanks
  <2>6. ToRead(text, to) * (size + 1) + ToSearch(to) < ToRead(text, at) * (size + 1) + ToSearch(at)
    BY <1>3, <2>4, <2>5, FirstThenSecond
  <2> QED
    BY <2>1, <2>6 DEF GrepRank
<1>4. CASE GrepKeeps(at)
  <2>1. EndsIn(at) = {} /\ at.cnt # 0 /\ at.from # 0
    BY <1>4 DEF GrepKeeps, KeepsPartialLine
  <2>2. Len(LineOf(at)) < size
    BY <1>1, <1>2, <1>3, <2>1
  <2>3. to = Refill(text, size, LineOf(at), at.pos)
    BY <1>4 DEF GrepNext
  <2> HIDE DEF to
  <2>4. to \in Searching(text, size) /\ GrepRank(text, size, to) < GrepRank(text, size, at)
    BY <1>2, <1>r, <2>1, <2>2, <2>3
  <2> QED
    BY <2>4 DEF to
<1>5. CASE ~GrepKeeps(at) /\ GrepMore(at)
  <2>1. to = [data |-> at.data, cnt |-> at.cnt, pos |-> at.pos, from |-> LineEnd(at) + 1]
    BY <1>5 DEF GrepNext, NextLine
  <2>2. EndsIn(at) # {} /\ LineEnd(at) + 1 < Len(at.data)
    BY <1>1, <1>2, <1>5 DEF GrepMore
  <2> HIDE DEF to
  <2>3. to \in Searching(text, size)
    BY <1>1, <2>1 DEF Searching, CharsOf
  <2>4. ToRead(text, to) = ToRead(text, at)
    BY <2>1 DEF ToRead
  <2>5. ToSearch(to) < ToSearch(at)
    BY <1>1, <1>2, <2>1, <2>2 DEF ToSearch
  <2>6. ToRead(text, at) \in Nat /\ ToSearch(to) \in Nat /\ ToSearch(at) \in Nat
    BY <2>3, GrepRanks
  <2>7. GrepRank(text, size, to) < GrepRank(text, size, at)
    <3> DEFINE x == ToRead(text, at) * (size + 1)
    <3>1. x \in Nat
      BY <2>6
    <3>2. GrepRank(text, size, to) = x + ToSearch(to) /\ GrepRank(text, size, at) = x + ToSearch(at)
      BY <2>4 DEF GrepRank
    <3> HIDE DEF x
    <3> QED
      BY <2>5, <2>6, <3>1, <3>2
  <2> QED
    BY <2>3, <2>7 DEF to
<1>6. CASE ~GrepKeeps(at) /\ ~GrepMore(at)
  <2>1. to = Refill(text, size, <<>>, at.pos)
    BY <1>6 DEF GrepNext
  <2>2. <<>> \in Seq(CharsOf(text)) /\ Len(<<>>) < size
    BY <1>3, EmptySeq
  <2>3. CASE at.cnt # 0
    <3> HIDE DEF to
    <3>1. to \in Searching(text, size) /\ GrepRank(text, size, to) < GrepRank(text, size, at)
      BY <1>r, <2>1, <2>2, <2>3
    <3> QED
      BY <3>1 DEF to
  <2>4. CASE at.cnt = 0
    <3>1. GrepEnds(at)
      BY <1>6, <2>4 DEF GrepEnds
    <3> HIDE DEF to
    <3>2. Len(<<>>) <= size
      BY <1>3
    <3>3. to \in Searching(text, size)
      BY <1>1, <1>3, <2>1, <2>2, <3>2, RefillIs
    <3> QED
      BY <3>1, <3>3 DEF to
  <2> QED
    BY <2>3, <2>4
<1> QED
  BY <1>4, <1>5, <1>6

\* The definition that Search in do_one_file has, and its body in terms of the next state.
GrepFound(at, pattern) == IF LineMatches(LineOf(at), pattern) THEN <<LineOf(at)>> ELSE <<>>
GrepEq(f, text, pattern, size) ==
    f = [at \in Searching(text, size) |->
            IF KeepsPartialLine(EndsIn(at) # {}, at.cnt, at.from)
              THEN f[Refill(text, size, LineOf(at), at.pos)]
            ELSE IF LineEnd(at) + 1 < Len(at.data)
              THEN (IF LineMatches(LineOf(at), pattern) THEN <<LineOf(at)>> ELSE <<>>)
                   \o f[NextLine(at)]
            ELSE IF at.cnt = 0
              THEN (IF LineMatches(LineOf(at), pattern) THEN <<LineOf(at)>> ELSE <<>>)
            ELSE (IF LineMatches(LineOf(at), pattern) THEN <<LineOf(at)>> ELSE <<>>)
                 \o f[Refill(text, size, <<>>, at.pos)]]
GrepBody(f, text, pattern, size, at) ==
    IF GrepKeeps(at) THEN f[GrepNext(text, size, at)]
    ELSE IF GrepEnds(at) THEN GrepFound(at, pattern)
    ELSE GrepFound(at, pattern) \o f[GrepNext(text, size, at)]

LEMMA GrepBodyIs ==
  ASSUME NEW text, NEW pattern, NEW size, NEW f
  PROVE  GrepEq(f, text, pattern, size) <=>
             f = [at \in Searching(text, size) |-> GrepBody(f, text, pattern, size, at)]
<1> DEFINE Meant(at) ==
            IF KeepsPartialLine(EndsIn(at) # {}, at.cnt, at.from)
              THEN f[Refill(text, size, LineOf(at), at.pos)]
            ELSE IF LineEnd(at) + 1 < Len(at.data)
              THEN (IF LineMatches(LineOf(at), pattern) THEN <<LineOf(at)>> ELSE <<>>)
                   \o f[NextLine(at)]
            ELSE IF at.cnt = 0
              THEN (IF LineMatches(LineOf(at), pattern) THEN <<LineOf(at)>> ELSE <<>>)
            ELSE (IF LineMatches(LineOf(at), pattern) THEN <<LineOf(at)>> ELSE <<>>)
                 \o f[Refill(text, size, <<>>, at.pos)]
<1>1. ASSUME NEW at \in Searching(text, size)
      PROVE  Meant(at) = GrepBody(f, text, pattern, size, at)
  <2> DEFINE keeps == KeepsPartialLine(EndsIn(at) # {}, at.cnt, at.from)
             more == LineEnd(at) + 1 < Len(at.data)
             found == IF LineMatches(LineOf(at), pattern) THEN <<LineOf(at)>> ELSE <<>>
  <2>1. (GrepKeeps(at) <=> keeps) /\ (GrepMore(at) <=> more) /\ GrepFound(at, pattern) = found
    BY DEF GrepKeeps, GrepMore, GrepFound
  <2>2. Meant(at) = IF keeps THEN f[Refill(text, size, LineOf(at), at.pos)]
                   ELSE IF more THEN found \o f[NextLine(at)]
                   ELSE IF at.cnt = 0 THEN found
                   ELSE found \o f[Refill(text, size, <<>>, at.pos)]
    OBVIOUS
  <2> HIDE DEF Meant, keeps, more, found
  <2> QED
    BY <2>1, <2>2, Zenon DEF GrepBody, GrepNext, GrepEnds
<1>2. GrepEq(f, text, pattern, size) <=> f = [at \in Searching(text, size) |-> Meant(at)]
  BY Zenon DEF GrepEq
<1> HIDE DEF Meant
<1>3. [at \in Searching(text, size) |-> Meant(at)]
        = [at \in Searching(text, size) |-> GrepBody(f, text, pattern, size, at)]
  BY <1>1, Zenon
<1> QED
  BY <1>2, <1>3, Zenon

\* Searching ends, whatever the size of the buffer.
LEMMA GrepDefined ==
  ASSUME NEW C, NEW text \in Seq(C), NEW pattern, NEW size \in Nat \ {0}
  PROVE  \E f : GrepEq(f, text, pattern, size)
<1> DEFINE D == Searching(text, size)
           R == Seq(Seq(CharsOf(text)))
           rank == [at \in D |-> GrepRank(text, size, at)]
           next == [at \in D |-> GrepNext(text, size, at)]
           found == [at \in D |-> GrepFound(at, pattern)]
           Body(f, at) == IF GrepKeeps(at) THEN f[next[at]]
                          ELSE IF GrepEnds(at) THEN found[at]
                          ELSE found[at] \o f[next[at]]
           Step == [f \in [D -> R] |-> [at \in D |-> Body(f, at)]]
<1>1. rank \in [D -> Nat] /\ next \in [D -> D]
  BY GrepRanks, GrepSteps
<1>2. found \in [D -> R]
  <2>1. ASSUME NEW at \in D PROVE GrepFound(at, pattern) \in R
    <3> DEFINE l == LineOf(at)
               T == CharsOf(text)
    <3>1. l \in Seq(T)
      BY BufferLine
    <3> HIDE DEF l, T
    <3>2. <<l>> \in Seq(Seq(T)) /\ <<>> \in Seq(Seq(T))
      BY <3>1, EmptySeq
    <3> QED
      BY <3>2 DEF GrepFound, l, T
  <2> HIDE DEF D, R
  <2> QED
    BY <2>1
<1>3. \A at \in D : ~GrepEnds(at) => rank[next[at]] < rank[at]
  <2> TAKE at \in D
  <2>1. GrepNext(text, size, at) \in D
    BY GrepSteps
  <2> QED
    BY <2>1, GrepSteps
<1> HIDE DEF D, R, rank, next, found
<1>4. Step \in [[D -> R] -> [D -> R]]
  <2>1. ASSUME NEW f \in [D -> R], NEW at \in D
        PROVE  Body(f, at) \in R
    <3>1. next[at] \in D /\ found[at] \in R
      BY <1>1, <1>2
    <3>2. f[next[at]] \in R
      BY <3>1
    <3>3. found[at] \o f[next[at]] \in R
      BY <3>1, <3>2 DEF R
    <3> QED
      BY <3>1, <3>2, <3>3
  <2> HIDE DEF Body
  <2> QED
    BY <2>1
<1>5. LooksDown(D, R, rank, Step)
  <2> SUFFICES ASSUME NEW f \in [D -> R], NEW h \in [D -> R], NEW at \in D,
                      \A j \in D : rank[j] < rank[at] => f[j] = h[j]
               PROVE  Step[f][at] = Step[h][at]
    BY Zenon DEF LooksDown
  <2>1. next[at] \in D
    BY <1>1
  <2>2. ~GrepEnds(at) => f[next[at]] = h[next[at]]
    BY <1>3, <2>1
  <2>3. GrepEnds(at) => ~GrepKeeps(at)
    BY DEF GrepEnds
  <2>4. Body(f, at) = Body(h, at)
    BY <2>2, <2>3, Zenon
  <2> HIDE DEF Body
  <2> QED
    BY <2>4
<1>6. PICK f \in [D -> R] : f = Step[f]
  <2>1. R # {}
    BY EmptySeq DEF R
  <2> HIDE DEF Step
  <2>2. IsDefined(D, R, Step)
    BY <1>1, <1>4, <1>5, <2>1, RecursionExists
  <2> QED
    BY <2>2 DEF IsDefined
<1>7. f = [at \in D |-> GrepBody(f, text, pattern, size, at)]
  <2>1. f = [at \in D |-> Body(f, at)]
    BY <1>6
  <2>2. ASSUME NEW at \in D PROVE Body(f, at) = GrepBody(f, text, pattern, size, at)
    <3>1. next[at] = GrepNext(text, size, at) /\ found[at] = GrepFound(at, pattern)
      BY DEF next, found
    <3> QED
      BY <3>1, Zenon DEF GrepBody
  <2> HIDE DEF Body
  <2> QED
    BY <2>1, <2>2, Zenon
<1> QED
  BY <1>7, GrepBodyIs, Zenon DEF D

\* Where in the text the line in the buffer starts, and what holds of the buffer whenever a
\* line is searched, if all lines fit: from there on it is the text up to what was read,
\* and a buffer that was not full, or brought nothing, is the end of the text.
LineBase(at) == at.pos - (Len(at.data) - at.from)
AllFit(text, size) == \A p \in 0 .. Len(text) : Len(LineFrom(text, p)) < size
GrepInv(text, size, at) ==
    /\ at.from <= Len(at.data) /\ Len(at.data) - at.from <= at.pos
    /\ \A k \in 1 .. Len(at.data) - at.from : at.data[at.from + k] = text[LineBase(at) + k]
    /\ at.cnt = 0 => at.pos = Len(text)
    /\ at.from = 0 => at.pos = Len(text) \/ Len(at.data) = size

\* The line that is searched is a line of the text, and the search goes on behind it.
LEMMA GrepLine ==
  ASSUME NEW C, NEW text \in Seq(C), NEW size \in Nat \ {0}, AllFit(text, size),
         NEW at \in Searching(text, size), GrepInv(text, size, at)
  PROVE  /\ LineBase(at) \in 0 .. Len(text)
         /\ ~GrepKeeps(at) => LineFrom(text, LineBase(at)) = LineOf(at)
         /\ GrepMore(at) => EndsIn(at) # {}
         /\ EndsIn(at) # {} => LineBase(at) + Len(LineOf(at)) + 1
                                 = at.pos - (Len(at.data) - (LineEnd(at) + 1))
         /\ EndsIn(at) = {} => LineBase(at) + Len(LineOf(at)) = at.pos
         /\ ~GrepKeeps(at) /\ EndsIn(at) = {} => at.pos = Len(text)
<1> DEFINE n == Len(text)
           data == at.data
           from == at.from
           pos == at.pos
           m == Len(data)
           e == LineEnd(at)
           p == LineBase(at)
           l == LineOf(at)
           none == EndsIn(at) = {}
<1>1. /\ data \in Seq(CharsOf(text)) /\ m <= size /\ at.cnt \in Nat
      /\ pos \in 0 .. n /\ from \in Nat /\ e \in Nat
      /\ none => e = m
      /\ ~none => from <= e /\ e < m /\ data[e + 1] = NEWLINE
      /\ \A k \in from + 1 .. e : data[k] # NEWLINE
      /\ l \in Seq(CharsOf(text))
      /\ from <= e => Len(l) = e - from
      /\ \A k \in 1 .. Len(l) : l[k] = data[from + k]
  BY BufferLine
<1>2. /\ from <= m /\ m - from <= pos /\ p = pos - (m - from)
      /\ \A k \in 1 .. m - from : data[from + k] = text[p + k]
      /\ at.cnt = 0 => pos = n
      /\ from = 0 => pos = n \/ m = size
  BY DEF GrepInv, LineBase
<1>3. n \in Nat /\ m \in Nat
  BY <1>1
<1>4. GrepMore(at) <=> e + 1 < m
  BY DEF GrepMore
<1>5. ~GrepKeeps(at) /\ none => at.cnt = 0 \/ from = 0
  BY DEF GrepKeeps, KeepsPartialLine
<1>6. text \in Seq(C) /\ text \in Seq(CharsOf(text))
  BY OfItsChars
<1> HIDE DEF n, data, from, pos, m, e, p, l, none
<1>7. /\ p \in 0 .. n /\ from <= e /\ e <= m /\ Len(l) = e - from /\ p + Len(l) \in p .. n
      /\ p + Len(l) <= pos
  BY <1>1, <1>2, <1>3
<1>8. \A k \in 1 .. Len(l) : l[k] = text[p + k] /\ text[p + k] # NEWLINE
  <2> TAKE k \in 1 .. Len(l)
  <2>1. k \in 1 .. m - from /\ from + k \in from + 1 .. e
    BY <1>1, <1>3, <1>7
  <2> QED
    BY <1>1, <1>2, <2>1
<1>9. \A j \in p + 1 .. p + Len(l) : text[j] # NEWLINE
  <2> TAKE j \in p + 1 .. p + Len(l)
  <2>1. j - p \in 1 .. Len(l) /\ p + (j - p) = j
    BY <1>7
  <2> QED
    BY <1>8, <2>1
<1>10. ~none => text[p + Len(l) + 1] = NEWLINE /\ p + Len(l) + 1 <= n
  <2> SUFFICES ASSUME ~none PROVE text[p + Len(l) + 1] = NEWLINE /\ p + Len(l) + 1 <= n
    OBVIOUS
  <2>1. e - from + 1 \in 1 .. m - from /\ from + (e - from + 1) = e + 1
    BY <1>1, <1>3, <1>7
  <2>2. data[e + 1] = text[p + (e - from + 1)]
    BY <1>2, <2>1
  <2>3. p + (e - from + 1) = p + Len(l) + 1 /\ p + Len(l) + 1 <= n
    BY <1>1, <1>2, <1>3, <1>7
  <2> QED
    BY <1>1, <2>2, <2>3
<1>11. none => p + Len(l) = pos
  BY <1>1, <1>2, <1>3, <1>7
<1>12. ASSUME none, ~GrepKeeps(at), pos # n PROVE FALSE
  <2>1. from = 0 /\ m = size /\ p + size = pos /\ pos < n
    BY <1>1, <1>2, <1>3, <1>5, <1>7, <1>11, <1>12
  <2>2. PICK c \in p .. n : EndsLine(text, p, c)
    BY <1>7, LineExists DEF n
  <2>3. LineFrom(text, p) = SubSeq(text, p + 1, c)
    BY <1>7, <2>2, EndIs DEF n
  <2>4. Len(SubSeq(text, p + 1, c)) = c - p
    <3>1. \A k \in p + 1 .. c : text[k] \in C
      BY <1>7, <2>2 DEF n
    <3>2. p + 1 \in Int /\ c \in Int
      BY <1>7, <2>2
    <3>3. Len(SubSeq(text, p + 1, c)) = IF p + 1 <= c THEN c - (p + 1) + 1 ELSE 0
      BY <3>1, <3>2, SubSeqProperties
    <3> QED
      BY <1>7, <2>2, <3>3
  <2>5. c - p < size
    BY <1>7, <2>3, <2>4 DEF AllFit, n
  <2>6. c < n /\ c + 1 \in p + 1 .. p + Len(l)
    BY <1>3, <1>7, <1>11, <1>12, <2>1, <2>2, <2>5
  <2>7. text[c + 1] = NEWLINE
    BY <2>2, <2>6 DEF EndsLine, n
  <2> QED
    BY <1>9, <2>6, <2>7
<1>13. ASSUME ~GrepKeeps(at) PROVE LineFrom(text, p) = l
  <2> DEFINE c == p + Len(l)
  <2>1. c \in p .. n /\ (c = n \/ text[c + 1] = NEWLINE) /\ \A k \in p + 1 .. c : text[k] # NEWLINE
    BY <1>7, <1>9, <1>10, <1>11, <1>12, <1>13
  <2> HIDE DEF c
  <2>2. EndsLine(text, p, c)
    BY <2>1 DEF EndsLine, n
  <2>3. LineFrom(text, p) = SubSeq(text, p + 1, c)
    BY <1>7, <2>1, <2>2, EndIs DEF n
  <2> DEFINE s == SubSeq(text, p + 1, c)
  <2>4. s \in Seq(CharsOf(text)) /\ Len(s) = Len(l) /\ \A k \in 1 .. Len(l) : s[k] = text[p + k]
    <3>1. \A k \in p + 1 .. c : text[k] \in CharsOf(text)
      BY <1>6, <1>7, <2>1 DEF n
    <3>2. p + 1 \in Int /\ c \in Int /\ c = p + Len(l)
      BY <1>7, <2>1 DEF c
    <3>3. /\ s \in Seq(CharsOf(text))
          /\ Len(s) = (IF p + 1 <= c THEN c - (p + 1) + 1 ELSE 0)
          /\ \A k \in 1 .. c - (p + 1) + 1 : s[k] = text[p + 1 + k - 1]
      BY <3>1, <3>2, SubSeqProperties
    <3> HIDE DEF s
    <3>4. \A k \in 1 .. Len(l) : k \in 1 .. c - (p + 1) + 1 /\ p + 1 + k - 1 = p + k
      BY <1>7, <3>2
    <3>5. Len(s) = Len(l)
      BY <1>7, <3>2, <3>3
    <3> QED
      BY <3>3, <3>4, <3>5
  <2> HIDE DEF s
  <2>5. s = l
    BY <1>1, <1>8, <2>4, SeqEqual
  <2> QED
    BY <2>3, <2>5 DEF s
<1>14. ~none => p + Len(l) + 1 = pos - (m - (e + 1))
  BY <1>1, <1>2, <1>3, <1>7
<1>15. GrepMore(at) => ~none
  BY <1>1, <1>3, <1>4
<1> QED
  BY <1>7, <1>11, <1>12, <1>13, <1>14, <1>15 DEF n, data, from, pos, m, e, p, l, none

LEMMA RefillKeepsPlace ==
  ASSUME NEW C, NEW text \in Seq(C), NEW size \in Nat \ {0}, NEW kept \in Seq(CharsOf(text)),
         Len(kept) < size, NEW pos \in 0 .. Len(text), Len(kept) <= pos,
         \A k \in 1 .. Len(kept) : kept[k] = text[pos - Len(kept) + k],
         NEW r, r = Refill(text, size, kept, pos)
  PROVE  GrepInv(text, size, r) /\ LineBase(r) = pos - Len(kept)
<1> DEFINE n == Len(text)
           m == Len(kept)
           data == r.data
           cnt == r.cnt
<1>1. Len(kept) <= size
  OBVIOUS
<1>2. /\ r \in Searching(text, size) /\ r.from = 0
      /\ cnt \in Nat /\ r.pos = pos + cnt /\ Len(data) = m + cnt
      /\ cnt = 0 <=> m = size \/ pos = n
      /\ Len(data) = size \/ r.pos = n
      /\ \A k \in 1 .. m : data[k] = kept[k]
      /\ \A k \in 1 .. cnt : data[m + k] = text[pos + k]
  BY <1>1, RefillIs
<1>3. /\ m \in Nat /\ m < size /\ pos \in 0 .. n /\ n \in Nat /\ m <= pos
      /\ \A k \in 1 .. m : kept[k] = text[pos - m + k]
  OBVIOUS
<1> HIDE DEF n, m, data, cnt
<1>4. LineBase(r) = pos - m
  BY <1>2, <1>3 DEF LineBase, data
<1>5. ASSUME NEW k \in 1 .. m + cnt PROVE data[0 + k] = text[pos - m + k]
  <2>1. CASE k <= m
    BY <1>2, <1>3, <2>1
  <2>2. CASE ~(k <= m)
    <3>1. k - m \in 1 .. cnt /\ m + (k - m) = k /\ pos + (k - m) = pos - m + k /\ 0 + k = k
      BY <1>2, <1>3, <2>2
    <3>2. data[m + (k - m)] = text[pos + (k - m)]
      BY <1>2, <3>1
    <3> QED
      BY <3>1, <3>2
  <2> QED
    BY <2>1, <2>2
<1>6. /\ r.from <= Len(r.data) /\ Len(r.data) - r.from = m + cnt /\ m + cnt <= r.pos
  BY <1>2, <1>3 DEF data
<1>7. \A k \in 1 .. Len(r.data) - r.from : r.data[r.from + k] = text[LineBase(r) + k]
  BY <1>2, <1>4, <1>5, <1>6 DEF data
<1>8. r.cnt = 0 => r.pos = n
  BY <1>2, <1>3 DEF cnt
<1>9. r.pos = n \/ Len(r.data) = size
  BY <1>2 DEF data
<1> QED
  BY <1>4, <1>6, <1>7, <1>8, <1>9 DEF GrepInv, n, m

\* A round keeps that, and leads to the same line or to the one behind it.
LEMMA GrepGoesOn ==
  ASSUME NEW C, NEW text \in Seq(C), NEW size \in Nat \ {0}, AllFit(text, size),
         NEW at \in Searching(text, size), GrepInv(text, size, at),
         NEW to, to = GrepNext(text, size, at)
  PROVE  /\ ~GrepEnds(at) => GrepInv(text, size, to)
         /\ GrepKeeps(at) => LineBase(to) = LineBase(at)
         /\ ~GrepKeeps(at) /\ GrepMore(at) =>
                LineBase(to) = LineBase(at) + Len(LineOf(at)) + 1
         /\ ~GrepKeeps(at) /\ ~GrepMore(at) =>
                /\ at.cnt # 0 => LineBase(to) = at.pos
                /\ \/ at.pos = LineBase(at) + Len(LineOf(at)) + 1
                   \/ at.pos = Len(text) /\ at.pos = LineBase(at) + Len(LineOf(at))
<1> DEFINE n == Len(text)
           data == at.data
           from == at.from
           pos == at.pos
           m == Len(data)
           e == LineEnd(at)
           p == LineBase(at)
           l == LineOf(at)
           none == EndsIn(at) = {}
<1>1. /\ data \in Seq(CharsOf(text)) /\ m <= size /\ at.cnt \in Nat
      /\ pos \in 0 .. n /\ from \in Nat /\ e \in Nat
      /\ none => e = m
      /\ ~none => from <= e /\ e < m
      /\ l \in Seq(CharsOf(text))
      /\ from <= e => Len(l) = e - from
      /\ \A k \in 1 .. Len(l) : l[k] = data[from + k]
  BY BufferLine
<1>2. /\ from <= m /\ m - from <= pos /\ p = pos - (m - from)
      /\ \A k \in 1 .. m - from : data[from + k] = text[p + k]
      /\ at.cnt = 0 => pos = n
  BY DEF GrepInv, LineBase
<1>3. n \in Nat /\ m \in Nat /\ size \in Nat /\ size # 0
  BY <1>1
<1>4. /\ p \in 0 .. n
      /\ GrepMore(at) => ~none
      /\ ~none => p + Len(l) + 1 = pos - (m - (e + 1))
      /\ none => p + Len(l) = pos
      /\ ~GrepKeeps(at) /\ none => pos = n
  BY GrepLine
<1>5. GrepMore(at) <=> e + 1 < m
  BY DEF GrepMore
<1>6. GrepKeeps(at) => none /\ at.cnt # 0 /\ from # 0
  BY DEF GrepKeeps, KeepsPartialLine
<1> HIDE DEF n, data, from, pos, m, e, p, l, none
<1>7. CASE GrepKeeps(at)
  <2>1. to = Refill(text, size, l, pos)
    BY <1>7 DEF GrepNext, l, pos
  <2>2. Len(l) = m - from /\ Len(l) \in Nat /\ Len(l) < size /\ Len(l) <= pos /\ pos - Len(l) = p
    <3>1. e = m /\ from <= e /\ from # 0
      BY <1>1, <1>2, <1>6, <1>7
    <3>2. Len(l) = m - from
      BY <1>1, <3>1
    <3> QED
      BY <1>1, <1>2, <1>3, <3>1, <3>2
  <2>3. \A k \in 1 .. Len(l) : l[k] = text[pos - Len(l) + k]
    BY <1>1, <1>2, <2>2
  <2>4. GrepInv(text, size, to) /\ LineBase(to) = pos - Len(l)
    <3>1. l \in Seq(CharsOf(text)) /\ pos \in 0 .. Len(text)
      BY <1>1 DEF n
    <3> QED
      <4>1. /\ l \in Seq(CharsOf(text)) /\ Len(l) < size /\ Len(l) <= pos
            /\ \A k \in 1 .. Len(l) : l[k] = text[pos - Len(l) + k]
            /\ to = Refill(text, size, l, pos)
        BY <2>1, <2>2, <2>3, <3>1
      <4> QED
        BY <3>1, <4>1, RefillKeepsPlace
  <2> QED
    BY <1>7, <2>2, <2>4 DEF p
<1>8. CASE ~GrepKeeps(at) /\ GrepMore(at)
  <2>1. to = [data |-> data, cnt |-> at.cnt, pos |-> pos, from |-> e + 1]
    BY <1>8 DEF GrepNext, NextLine, data, pos, e
  <2>2. /\ to.data = data /\ to.cnt = at.cnt /\ to.pos = pos /\ to.from = e + 1
        /\ e + 1 < m /\ ~none /\ from <= e
    BY <1>1, <1>4, <1>5, <1>8, <2>1
  <2>3. LineBase(to) = pos - (m - (e + 1)) /\ LineBase(to) = p + (e + 1 - from)
    <3>1. LineBase(to) = pos - (m - (e + 1))
      BY <2>2 DEF LineBase, m
    <3> QED
      BY <1>1, <1>2, <1>3, <3>1
  <2>4. \A k \in 1 .. m - (e + 1) : data[(e + 1) + k] = text[LineBase(to) + k]
    <3> TAKE k \in 1 .. m - (e + 1)
    <3> DEFINE j == (e + 1 - from) + k
    <3>1. j \in 1 .. m - from /\ from + j = (e + 1) + k /\ p + j = LineBase(to) + k
      <4>1. e + 1 - from \in Nat /\ (e + 1 - from) + (m - (e + 1)) = m - from
        BY <1>1, <1>2, <1>3, <2>2
      <4>2. j \in 1 .. m - from
        BY <1>1, <1>2, <1>3, <4>1
      <4>3. from + j = (e + 1) + k
        BY <1>1, <4>1
      <4>4. p + j = LineBase(to) + k
        BY <1>1, <1>4, <2>3, <4>1
      <4> QED
        BY <4>2, <4>3, <4>4
    <3> HIDE DEF j
    <3>2. data[from + j] = text[p + j]
      BY <1>2, <3>1
    <3> QED
      BY <3>1, <3>2
  <2>5. Len(to.data) = m /\ to.from <= m /\ m - to.from <= to.pos /\ to.from # 0
    BY <1>1, <1>2, <1>3, <2>2 DEF m
  <2>6. \A k \in 1 .. Len(to.data) - to.from : to.data[to.from + k] = text[LineBase(to) + k]
    BY <2>2, <2>4, <2>5
  <2>7. to.cnt = 0 => to.pos = n
    BY <1>2, <2>2
  <2>8. GrepInv(text, size, to)
    BY <2>5, <2>6, <2>7 DEF GrepInv, n
  <2> QED
    BY <1>4, <1>8, <2>2, <2>3, <2>8 DEF p, l
<1>9. CASE ~GrepKeeps(at) /\ ~GrepMore(at)
  <2>1. to = Refill(text, size, <<>>, pos)
    BY <1>9 DEF GrepNext, pos
  <2>2. <<>> \in Seq(CharsOf(text)) /\ Len(<<>>) = 0
    BY EmptySeq
  <2>3. GrepInv(text, size, to) /\ LineBase(to) = pos - Len(<<>>)
    <3>1. Len(<<>>) < size /\ Len(<<>>) <= pos
      BY <1>1, <1>3, <2>2
    <3>2. \A k \in 1 .. Len(<<>>) : <<>>[k] = text[pos - Len(<<>>) + k]
      BY <2>2
    <3>3. pos \in 0 .. Len(text)
      BY <1>1 DEF n
    <3> DEFINE x == <<>>
    <3>4. /\ x \in Seq(CharsOf(text)) /\ Len(x) < size /\ Len(x) <= pos
          /\ \A k \in 1 .. Len(x) : x[k] = text[pos - Len(x) + k]
          /\ to = Refill(text, size, x, pos)
      BY <2>1, <2>2, <3>1, <3>2
    <3> HIDE DEF x
    <3>5. GrepInv(text, size, to) /\ LineBase(to) = pos - Len(x)
      BY <3>3, <3>4, RefillKeepsPlace
    <3> QED
      BY <3>5 DEF x
  <2>4. LineBase(to) = pos
    BY <1>1, <2>2, <2>3
  <2>5. pos = p + Len(l) + 1 \/ (pos = n /\ pos = p + Len(l))
    BY <1>1, <1>3, <1>4, <1>5, <1>9
  <2> QED
    BY <1>9, <2>3, <2>4, <2>5 DEF pos, p, l, n
<1> QED
  BY <1>7, <1>8, <1>9

\* What From gives: nothing at the end of the text, and else the line, if it matches, and
\* what it gives behind that line.
MatchesFrom(v, text, pattern) ==
    /\ \A p \in 0 .. Len(text) :
          v[p] = (IF LineMatches(LineFrom(text, p), pattern) THEN <<LineFrom(text, p)>> ELSE <<>>)
                 \o v[p + Len(LineFrom(text, p)) + 1]
    /\ v[Len(text)] = <<>> /\ v[Len(text) + 1] = <<>>

LEMMA MatchingIs ==
  ASSUME NEW C, NEW text \in Seq(C), NEW pattern
  PROVE  \E v : MatchingLines(text, pattern) = v[0] /\ MatchesFrom(v, text, pattern)
<1> DEFINE n == Len(text)
           v == CHOOSE f : MatchEq(f, text, pattern)
           Found(p) == IF LineMatches(LineFrom(text, p), pattern) THEN <<LineFrom(text, p)>> ELSE <<>>
           Body(p) == IF p > n THEN <<>> ELSE Found(p) \o v[p + Len(LineFrom(text, p)) + 1]
<1>1. MatchEq(v, text, pattern)
  <2>1. \E f : MatchEq(f, text, pattern)
    BY MatchingDefined
  <2> QED
    BY <2>1, Zenon
<1>2. MatchingLines(text, pattern) = v[0]
  BY Zenon DEF MatchingLines, MatchEq
<1> HIDE DEF v
<1>3. \A p \in 0 .. n + 1 : v[p] = Body(p)
  <2>1. v = [p \in 0 .. n + 1 |-> Body(p)]
    BY <1>1, Zenon DEF MatchEq
  <2> HIDE DEF Body
  <2> QED
    BY <2>1
<1>4. n \in Nat
  OBVIOUS
<1>5. v[n + 1] = <<>>
  <2>1. n + 1 \in 0 .. n + 1 /\ n + 1 > n
    BY <1>4
  <2> HIDE DEF n
  <2> QED
    BY <1>3, <2>1
<1>6. \A p \in 0 .. n : v[p] = Found(p) \o v[p + Len(LineFrom(text, p)) + 1]
  <2>1. \A p \in 0 .. n : p \in 0 .. n + 1 /\ ~(p > n)
    BY <1>4
  <2> HIDE DEF n, Found
  <2> QED
    BY <1>3, <2>1, Zenon
<1>7. LineFrom(text, n) = <<>>
  <2>1. EndsLine(text, n, n)
    BY <1>4 DEF EndsLine
  <2>2. LineFrom(text, n) = SubSeq(text, n + 1, n)
    BY <1>4, <2>1, EndIs
  <2>3. SubSeq(text, n + 1, n) = <<>>
    BY <1>4, SubSeqEmpty
  <2> QED
    BY <2>2, <2>3
<1>8. v[n] = <<>>
  <2>1. ~LineMatches(<<>>, pattern)
    BY DEF LineMatches
  <2>2. Found(n) = <<>>
    BY <1>7, <2>1
  <2>3. n \in 0 .. n /\ n + Len(<<>>) + 1 = n + 1
    BY <1>4
  <2> HIDE DEF n, Found
  <2>4. v[n] = Found(n) \o v[n + Len(LineFrom(text, n)) + 1]
    BY <1>6, <2>3
  <2>5. v[n] = <<>> \o <<>>
    BY <1>5, <1>7, <2>2, <2>3, <2>4
  <2> QED
    BY <2>5
<1> QED
  BY <1>2, <1>5, <1>6, <1>8, Zenon DEF MatchesFrom

\* For every text without NULs, pattern and size of the buffer: grep prints every line that has the
\* pattern in it, once and in order, wherever the ends of its reads cut the lines and however
\* often a part of a line is kept, provided that each line fits into the buffer with room to
\* spare.  So no line is lost where a buffer ends, and none is searched in two halves.
THEOREM GrepFindsAll ==
  ASSUME NEW C, NEW text \in Seq(C), NUL \notin C, NEW pattern, pattern # <<>>,
         NEW size \in Nat \ {0}, AllFit(text, size)
  PROVE  do_one_file(text, pattern, size) = MatchingLines(text, pattern)
<1> DEFINE n == Len(text)
           D == {at \in Searching(text, size) : GrepInv(text, size, at)}
           w == CHOOSE f : GrepEq(f, text, pattern, size)
           start == Refill(text, size, <<>>, 0)
           rank == [at \in D |-> GrepRank(text, size, at)]
           next == [at \in D |-> IF GrepEnds(at) THEN at ELSE GrepNext(text, size, at)]
<1>1. PICK v : MatchingLines(text, pattern) = v[0] /\ MatchesFrom(v, text, pattern)
  BY MatchingIs
<1> DEFINE g == [at \in D |-> v[LineBase(at)]]
<1>2. GrepEq(w, text, pattern, size)
  <2>1. \E f : GrepEq(f, text, pattern, size)
    BY GrepDefined
  <2> QED
    BY <2>1, Zenon
<1>3. do_one_file(text, pattern, size) = w[start]
  BY Zenon DEF do_one_file, GrepEq
<1> HIDE DEF w
<1>4. \A at \in Searching(text, size) : w[at] = GrepBody(w, text, pattern, size, at)
  <2>1. w = [at \in Searching(text, size) |-> GrepBody(w, text, pattern, size, at)]
    BY <1>2, GrepBodyIs, Zenon
  <2> QED
    BY <2>1
<1>5. start \in D /\ LineBase(start) = 0
  <2> DEFINE x == <<>>
             z == 0
  <2>1. /\ x \in Seq(CharsOf(text)) /\ Len(x) < size /\ Len(x) <= size /\ Len(x) <= z /\ Len(x) = 0
        /\ z \in 0 .. Len(text) /\ \A k \in 1 .. Len(x) : x[k] = text[z - Len(x) + k]
        /\ start = Refill(text, size, x, z)
    BY EmptySeq
  <2> HIDE DEF x, z, start
  <2>2. start \in Searching(text, size)
    BY <2>1, RefillIs
  <2>3. GrepInv(text, size, start) /\ LineBase(start) = z - Len(x)
    <3>1. /\ x \in Seq(CharsOf(text)) /\ Len(x) < size /\ z \in 0 .. Len(text) /\ Len(x) <= z
          /\ \A k \in 1 .. Len(x) : x[k] = text[z - Len(x) + k]
          /\ start = Refill(text, size, x, z)
      BY <2>1
    <3> QED
      BY <3>1, RefillKeepsPlace
  <2> QED
    BY <2>1, <2>2, <2>3 DEF z
<1>6. ASSUME NEW at \in D
      PROVE  /\ next[at] \in D /\ rank[at] \in Nat
             /\ ~GrepEnds(at) => next[at] = GrepNext(text, size, at) /\ rank[next[at]] < rank[at]
  <2>1. at \in Searching(text, size) /\ GrepInv(text, size, at)
    OBVIOUS
  <2>2. GrepRank(text, size, at) \in Nat
    BY <2>1, GrepRanks
  <2>3. CASE GrepEnds(at)
    BY <2>2, <2>3
  <2>4. CASE ~GrepEnds(at)
    <3> DEFINE to == GrepNext(text, size, at)
    <3>1. to \in Searching(text, size) /\ GrepRank(text, size, to) < GrepRank(text, size, at)
      BY <2>1, <2>4, GrepSteps
    <3>2. GrepInv(text, size, to)
      BY <2>1, <2>4, GrepGoesOn
    <3> HIDE DEF to
    <3>3. to \in D /\ next[at] = to
      BY <2>4, <3>1, <3>2 DEF to
    <3> QED
      BY <2>2, <2>4, <3>1, <3>3 DEF to
  <2> QED
    BY <2>3, <2>4
<1>7. rank \in [D -> Nat] /\ next \in [D -> D]
  <2> HIDE DEF D
  <2>1. \A at \in D : GrepRank(text, size, at) \in Nat
    BY <1>6
  <2>2. \A at \in D : (IF GrepEnds(at) THEN at ELSE GrepNext(text, size, at)) \in D
    BY <1>6
  <2> QED
    BY <2>1, <2>2
<1>8. SameOrSteps(D, rank, next, w, g)
  <2> SUFFICES ASSUME NEW at \in D
               PROVE  \/ w[at] = g[at]
                      \/ /\ rank[next[at]] < rank[at]
                         /\ w[next[at]] = g[next[at]] => w[at] = g[at]
    BY Zenon DEF SameOrSteps
  <2> DEFINE p == LineBase(at)
             l == LineOf(at)
             found == GrepFound(at, pattern)
             to == next[at]
             behind == p + Len(l) + 1
  <2>1. at \in Searching(text, size) /\ GrepInv(text, size, at)
    OBVIOUS
  <2>2. /\ w[at] = GrepBody(w, text, pattern, size, at)
        /\ to \in D /\ (~GrepEnds(at) => to = GrepNext(text, size, at) /\ rank[to] < rank[at])
    BY <1>4, <1>6, <2>1
  <2>3. g[at] = v[p] /\ g[to] = v[LineBase(to)]
    BY <2>2
  <2>4. p \in 0 .. n /\ (~GrepKeeps(at) => LineFrom(text, p) = l)
    BY <2>1, GrepLine
  <2>5. ~GrepKeeps(at) => v[p] = found \o v[behind]
    <3> SUFFICES ASSUME ~GrepKeeps(at) PROVE v[p] = found \o v[behind]
      OBVIOUS
    <3>1. v[p] = (IF LineMatches(LineFrom(text, p), pattern) THEN <<LineFrom(text, p)>> ELSE <<>>)
                 \o v[p + Len(LineFrom(text, p)) + 1]
      BY <1>1, <2>4, Zenon DEF MatchesFrom
    <3>2. LineFrom(text, p) = l
      BY <2>4
    <3> HIDE DEF p, l
    <3>3. v[p] = (IF LineMatches(l, pattern) THEN <<l>> ELSE <<>>) \o v[p + Len(l) + 1]
      BY <3>1, <3>2, Zenon
    <3> QED
      BY <3>3, Zenon DEF GrepFound, l
  <2>6. v[n] = <<>> /\ v[n + 1] = <<>>
    BY <1>1 DEF MatchesFrom
  <2>7. found \o <<>> = found
    <3>1. l \in Seq(CharsOf(text))
      BY <2>1, BufferLine
    <3> HIDE DEF l
    <3>2. <<l>> \in Seq(Seq(CharsOf(text))) /\ <<>> \in Seq(Seq(CharsOf(text)))
      BY <3>1, EmptySeq
    <3>3. found \in Seq(Seq(CharsOf(text)))
      BY <3>2 DEF GrepFound, l
    <3> HIDE DEF found
    <3> QED
      BY <3>3, ConcatEmptySeq
  <2>8. /\ GrepKeeps(at) => LineBase(GrepNext(text, size, at)) = p
        /\ ~GrepKeeps(at) /\ GrepMore(at) => LineBase(GrepNext(text, size, at)) = behind
        /\ ~GrepKeeps(at) /\ ~GrepMore(at) =>
              /\ at.cnt # 0 => LineBase(GrepNext(text, size, at)) = at.pos
              /\ at.pos = behind \/ (at.pos = n /\ at.pos = p + Len(l))
    BY <2>1, GrepGoesOn
  <2>9. GrepInv(text, size, at) => (at.cnt = 0 => at.pos = n)
    BY DEF GrepInv
  <2>10. n \in Nat
    OBVIOUS
  <2> HIDE DEF D, p, l, found, to, g, rank, n
  <2>11. CASE GrepKeeps(at)
    <3>1. ~GrepEnds(at)
      BY <2>11 DEF GrepEnds
    <3>2. w[at] = w[to]
      BY <2>2, <2>11, <3>1 DEF GrepBody
    <3>3. g[at] = g[to]
      BY <2>2, <2>3, <2>8, <2>11, <3>1
    <3> QED
      BY <2>2, <3>1, <3>2, <3>3 DEF to
  <2>12. CASE GrepEnds(at)
    <3>1. ~GrepKeeps(at) /\ ~GrepMore(at) /\ at.cnt = 0
      BY <2>12 DEF GrepEnds
    <3>2. w[at] = found
      BY <2>2, <2>12, <3>1 DEF GrepBody, found
    <3>3. behind = n \/ behind = n + 1
      BY <2>1, <2>8, <2>9, <3>1
    <3>4. v[behind] = <<>>
      <4> HIDE DEF behind
      <4> QED
        BY <2>6, <3>3
    <3>5. g[at] = found
      <4> HIDE DEF behind
      <4> QED
        BY <2>3, <2>5, <2>7, <3>1, <3>4
    <3> QED
      BY <3>2, <3>5
  <2>13. CASE ~GrepKeeps(at) /\ ~GrepEnds(at)
    <3>1. w[at] = found \o w[to]
      BY <2>2, <2>13 DEF GrepBody, found
    <3>2. GrepMore(at) \/ at.cnt # 0
      BY <2>13 DEF GrepEnds
    <3>3. v[LineBase(to)] = v[behind]
      <4>1. CASE GrepMore(at)
        BY <2>2, <2>8, <2>13, <4>1
      <4>2. CASE ~GrepMore(at)
        <5>1. LineBase(to) = at.pos /\ (at.pos = behind \/ (at.pos = n /\ at.pos = p + Len(l)))
          BY <2>2, <2>8, <2>13, <3>2, <4>2
        <5>2. CASE at.pos = behind
          BY <5>1, <5>2
        <5>3. CASE at.pos = n /\ at.pos = p + Len(l)
          <6>1. behind = n + 1
            BY <5>3
          <6> HIDE DEF behind
          <6> QED
            BY <2>6, <5>1, <5>3, <6>1
        <5> QED
          BY <5>1, <5>2, <5>3
      <4> QED
        BY <4>1, <4>2
    <3> HIDE DEF behind
    <3>4. g[at] = found \o g[to]
      BY <2>3, <2>5, <2>13, <3>3
    <3> QED
      BY <2>2, <2>13, <3>1, <3>4 DEF to
  <2> QED
    BY <2>11, <2>12, <2>13
<1> HIDE DEF D, rank, next, g
<1>9. Same(D, w, g)
  BY <1>7, <1>8, StepsAgree
<1>10. w[start] = g[start]
  BY <1>5, <1>9 DEF Same
<1>11. g[start] = v[0]
  BY <1>5 DEF g
<1> QED
  BY <1>1, <1>3, <1>10, <1>11

\* Texts of bounded length are sequences.
LEMMA UptoSeq ==
  ASSUME NEW S, NEW n \in Nat, NEW text \in Upto(S, n)
  PROVE  text \in Seq(S)
<1>1. PICK k \in 0 .. n : text \in [1 .. k -> S]
  BY DEF Upto
<1> QED
  BY <1>1

\* So for the texts and the buffers that a run searches.
THEOREM GrepFindsThem == FilesSpec => []GrepFindsEveryLine
<1> DEFINE C == {"a", "b", NEWLINE}
           pattern == <<"a", "b">>
<1>1. ASSUME NEW text \in Upto(C, 7), NEW size \in 3 .. 4,
             \A p \in 0 .. Len(text) : Len(LineFrom(text, p)) < size
      PROVE  do_one_file(text, pattern, size) = MatchingLines(text, pattern)
  <2>3. NUL \notin C
    BY DEF NUL, NEWLINE
  <2>4. pattern # <<>>
    OBVIOUS
  <2> HIDE DEF C, pattern
  <2>1. text \in Seq(C)
    BY UptoSeq
  <2>2. AllFit(text, size) /\ size \in Nat \ {0}
    BY <1>1 DEF AllFit
  <2> QED
    BY <2>1, <2>2, <2>3, <2>4, GrepFindsAll
<1>2. GrepFindsEveryLine
  BY <1>1, Zenon DEF GrepFindsEveryLine, AtBoot, C, pattern
<1> QED
  BY <1>2, PTL

-----------------------------------------------------------------------------
(* What fish shows.                                                        *)

\* The last line that started by p characters started behind s.
StartsLine(text, p, s) ==
    /\ s \in 0 .. p
    /\ s = 0 \/ text[s] = NEWLINE
    /\ \A k \in s + 1 .. p : text[k] # NEWLINE

LEMMA StartIs ==
  ASSUME NEW text, NEW p \in Nat
  PROVE  StartsLine(text, p, LineStart(text, p))
<1> DEFINE S == {d \in 0 .. p : p - d = 0 \/ text[p - d] = NEWLINE}
           St(s) == /\ s = 0 \/ text[s] = NEWLINE
                    /\ \A k \in s + 1 .. p : text[k] # NEWLINE
<1>1. S \in SUBSET Nat /\ p \in S
  OBVIOUS
<1>2. PICK d \in S : \A j \in S : d <= j
  <2> HIDE DEF S
  <2> QED
    BY <1>1, LeastElement
<1>3. p - d \in 0 .. p /\ (p - d = 0 \/ text[p - d] = NEWLINE)
  OBVIOUS
<1>4. ASSUME NEW k \in p - d + 1 .. p, text[k] = NEWLINE PROVE FALSE
  <2>1. p - k \in 0 .. p /\ p - (p - k) = k /\ p - k < d
    BY <1>3
  <2>2. p - k \in S
    BY <1>4, <2>1
  <2>3. d <= p - k
    BY <1>2, <2>2
  <2> QED
    BY <1>3, <2>1, <2>3
<1>5. \E s \in 0 .. p : St(s)
  BY <1>3, <1>4
<1>6. LineStart(text, p) = CHOOSE s \in 0 .. p : St(s)
  BY DEF LineStart
<1>7. LineStart(text, p) \in 0 .. p /\ St(LineStart(text, p))
  <2> HIDE DEF St
  <2> QED
    BY <1>5, <1>6, Zenon
<1> QED
  BY <1>7, Zenon DEF StartsLine

LEMMA OneStart ==
  ASSUME NEW text, NEW p \in Nat, NEW s \in Nat, NEW t \in Nat,
         StartsLine(text, p, s), StartsLine(text, p, t)
  PROVE  s = t
<1>1. s \in 0 .. p /\ t \in 0 .. p
  BY DEF StartsLine
<1>2. ASSUME s < t PROVE FALSE
  <2>1. t \in s + 1 .. p /\ t # 0
    BY <1>1, <1>2
  <2> QED
    BY <2>1 DEF StartsLine
<1>3. ASSUME t < s PROVE FALSE
  <2>1. s \in t + 1 .. p /\ s # 0
    BY <1>1, <1>3
  <2> QED
    BY <2>1 DEF StartsLine
<1> QED
  BY <1>1, <1>2, <1>3

\* The places where lines end.
LineEndings(text, p) == {k \in 1 .. p : text[k] = NEWLINE}

LEMMA EndingsFinite ==
  ASSUME NEW text, NEW p \in Nat
  PROVE  IsFiniteSet(LineEndings(text, p)) /\ Cardinality(LineEndings(text, p)) \in Nat
<1>1. IsFiniteSet(1 .. p)
  BY FS_Interval
<1>2. LineEndings(text, p) \subseteq 1 .. p
  BY DEF LineEndings
<1>3. IsFiniteSet(LineEndings(text, p))
  BY <1>1, <1>2, FS_Subset
<1> QED
  BY <1>3, FS_CardinalityType

LEMMA PlaceTyped ==
  ASSUME NEW text, NEW p \in Nat
  PROVE  /\ PlaceAfter(text, p) \in [row : Nat, col : Nat]
         /\ PlaceAfter(text, p).row = Cardinality(LineEndings(text, p))
         /\ PlaceAfter(text, p).col = p - LineStart(text, p)
<1>1. LineStart(text, p) \in 0 .. p
  BY StartIs DEF StartsLine
<1>2. p - LineStart(text, p) \in Nat
  BY <1>1
<1>3. Cardinality(LineEndings(text, p)) \in Nat
  BY EndingsFinite
<1>4. PlaceAfter(text, p) = [row |-> Cardinality(LineEndings(text, p)), col |-> p - LineStart(text, p)]
  BY DEF PlaceAfter, LineEndings
<1> QED
  BY <1>2, <1>3, <1>4

LEMMA PlaceAtStart ==
  ASSUME NEW text
  PROVE  PlaceAfter(text, 0).row = 0 /\ PlaceAfter(text, 0).col = 0
<1>1. LineStart(text, 0) = 0
  BY StartIs DEF StartsLine
<1>2. LineEndings(text, 0) = {}
  BY DEF LineEndings
<1>3. Cardinality(LineEndings(text, 0)) = 0
  BY <1>2, FS_EmptySet
<1> QED
  BY <1>1, <1>3, PlaceTyped

\* One more character: the next column, or the start of the next row.
LEMMA PlaceAfterOneMore ==
  ASSUME NEW text, NEW p \in Nat
  PROVE  /\ text[p + 1] # NEWLINE =>
              /\ PlaceAfter(text, p + 1).row = PlaceAfter(text, p).row
              /\ PlaceAfter(text, p + 1).col = PlaceAfter(text, p).col + 1
         /\ text[p + 1] = NEWLINE =>
              /\ PlaceAfter(text, p + 1).row = PlaceAfter(text, p).row + 1
              /\ PlaceAfter(text, p + 1).col = 0
<1> DEFINE s == LineStart(text, p)
           t == LineStart(text, p + 1)
           A == LineEndings(text, p)
           B == LineEndings(text, p + 1)
<1>1. s \in 0 .. p /\ StartsLine(text, p, s)
  BY StartIs DEF StartsLine
<1>2. p + 1 \in Nat
  OBVIOUS
<1>3. t \in 0 .. p + 1 /\ StartsLine(text, p + 1, t)
  BY <1>2, StartIs DEF StartsLine
<1>4. /\ PlaceAfter(text, p).row = Cardinality(A) /\ PlaceAfter(text, p).col = p - s
      /\ PlaceAfter(text, p + 1).row = Cardinality(B) /\ PlaceAfter(text, p + 1).col = (p + 1) - t
  <2>1. \A q \in Nat : /\ PlaceAfter(text, q).row = Cardinality(LineEndings(text, q))
                      /\ PlaceAfter(text, q).col = q - LineStart(text, q)
    BY PlaceTyped
  <2>2. PlaceAfter(text, p).row = Cardinality(A) /\ PlaceAfter(text, p).col = p - s
    BY <2>1
  <2>3. PlaceAfter(text, p + 1).row = Cardinality(B) /\ PlaceAfter(text, p + 1).col = (p + 1) - t
    BY <1>2, <2>1, Zenon
  <2> QED
    BY <2>2, <2>3
<1>5. IsFiniteSet(A) /\ Cardinality(A) \in Nat
  BY EndingsFinite
<1> HIDE DEF s, t
<1>6. CASE text[p + 1] # NEWLINE
  <2>1. B = A
    BY <1>6 DEF LineEndings
  <2>2. StartsLine(text, p + 1, s)
    <3>1. \A k \in s + 1 .. p + 1 : text[k] # NEWLINE
      <4> TAKE k \in s + 1 .. p + 1
      <4>1. k = p + 1 \/ k \in s + 1 .. p
        BY <1>1
      <4> QED
        BY <1>1, <1>6, <4>1 DEF StartsLine
    <3> QED
      BY <1>1, <3>1 DEF StartsLine
  <2>3. t = s
    <3>1. s \in Nat /\ t \in Nat
      BY <1>1, <1>3
    <3> QED
      BY <1>2, <1>3, <2>2, <3>1, OneStart
  <2> HIDE DEF A, B
  <2> QED
    BY <1>1, <1>4, <1>6, <2>1, <2>3
<1>7. CASE text[p + 1] = NEWLINE
  <2>1. B = A \union {p + 1} /\ p + 1 \notin A
    BY <1>7 DEF LineEndings
  <2>2. Cardinality(B) = Cardinality(A) + 1
    <3> HIDE DEF A, B
    <3> QED
      BY <1>5, <2>1, FS_AddElement
  <2>3. StartsLine(text, p + 1, p + 1)
    BY <1>7 DEF StartsLine
  <2>4. t = p + 1
    <3>1. t \in Nat
      BY <1>3
    <3> QED
      BY <1>2, <1>3, <2>3, <3>1, OneStart
  <2> HIDE DEF A, B
  <2> QED
    BY <1>4, <1>7, <2>2, <2>4
<1> QED
  BY <1>6, <1>7

\* A place that is reached after more characters lies behind.
Behind(q, r) == q.row < r.row \/ (q.row = r.row /\ q.col < r.col)

LEMMA PlacesGoOn ==
  ASSUME NEW text, NEW p \in Nat, NEW q \in Nat, p < q
  PROVE  Behind(PlaceAfter(text, p), PlaceAfter(text, q))
<1> DEFINE A == LineEndings(text, p)
           B == LineEndings(text, q)
           s == LineStart(text, p)
           t == LineStart(text, q)
<1>1. s \in 0 .. p /\ StartsLine(text, p, s) /\ t \in 0 .. q /\ StartsLine(text, q, t)
  BY StartIs DEF StartsLine
<1>2. /\ PlaceAfter(text, p).row = Cardinality(A) /\ PlaceAfter(text, p).col = p - s
      /\ PlaceAfter(text, q).row = Cardinality(B) /\ PlaceAfter(text, q).col = q - t
  BY PlaceTyped
<1>3. IsFiniteSet(B) /\ Cardinality(A) \in Nat /\ Cardinality(B) \in Nat
  BY EndingsFinite
<1>4. A \subseteq B
  BY DEF LineEndings
<1>5. Cardinality(A) <= Cardinality(B) /\ (Cardinality(A) = Cardinality(B) => A = B)
  <2> HIDE DEF A, B
  <2> QED
    BY <1>3, <1>4, FS_Subset
<1>6. ASSUME A = B PROVE t = s
  <2>1. ASSUME NEW k \in s + 1 .. q, text[k] = NEWLINE PROVE FALSE
    <3>1. k \in B
      BY <1>1, <2>1 DEF LineEndings
    <3>2. k \in 1 .. p /\ text[k] = NEWLINE
      BY <1>6, <3>1 DEF LineEndings
    <3>3. k \in s + 1 .. p
      BY <1>1, <2>1, <3>2
    <3> HIDE DEF s
    <3> QED
      BY <1>1, <3>2, <3>3 DEF StartsLine
  <2> HIDE DEF s, t
  <2>2. StartsLine(text, q, s)
    BY <1>1, <2>1 DEF StartsLine
  <2>3. s \in Nat /\ t \in Nat
    BY <1>1
  <2> QED
    BY <1>1, <2>2, <2>3, OneStart
<1> HIDE DEF A, B, s, t
<1>7. CASE A = B
  BY <1>1, <1>2, <1>6, <1>7 DEF Behind
<1>8. CASE A # B
  BY <1>2, <1>3, <1>5, <1>8 DEF Behind
<1> QED
  BY <1>7, <1>8

\* The character that is shown at a place, if the text has one there, and if not.
LEMMA CharThere ==
  ASSUME NEW text, Len(text) \in Nat, NEW k \in 1 .. Len(text), text[k] # NEWLINE
  PROVE  CharAt(text, PlaceAfter(text, k - 1)) = text[k]
<1> DEFINE q == PlaceAfter(text, k - 1)
           There == {j \in 1 .. Len(text) : text[j] # NEWLINE /\ PlaceAfter(text, j - 1) = q}
<1>1. ASSUME NEW j \in There PROVE j = k
  <2>1. j \in 1 .. Len(text) /\ PlaceAfter(text, j - 1) = PlaceAfter(text, k - 1)
    OBVIOUS
  <2>2. j - 1 \in Nat /\ k - 1 \in Nat /\ j \in Nat /\ k \in Nat
    BY <2>1
  <2>3. PlaceAfter(text, k - 1) \in [row : Nat, col : Nat]
    BY <2>2, PlaceTyped
  <2>4. ~Behind(PlaceAfter(text, k - 1), PlaceAfter(text, k - 1))
    <3> DEFINE x == PlaceAfter(text, k - 1)
    <3>1. x.row \in Nat /\ x.col \in Nat
      BY <2>3
    <3> HIDE DEF x
    <3>2. ~Behind(x, x)
      BY <3>1 DEF Behind
    <3> QED
      BY <3>2 DEF x
  <2>5. ~(j - 1 < k - 1)
    BY <2>1, <2>2, <2>4, PlacesGoOn
  <2>6. ~(k - 1 < j - 1)
    BY <2>1, <2>2, <2>4, PlacesGoOn
  <2> QED
    BY <2>2, <2>5, <2>6
<1>2. k \in There
  OBVIOUS
<1>3. CharAt(text, q) = IF There = {} THEN SPACE ELSE text[CHOOSE j \in There : TRUE]
  BY Zenon DEF CharAt
<1> HIDE DEF There
<1>4. There = {k}
  BY <1>1, <1>2
<1>5. (CHOOSE j \in There : TRUE) = k
  BY <1>4
<1> QED
  BY <1>3, <1>4, <1>5 DEF q

LEMMA NoCharThere ==
  ASSUME NEW text, NEW q,
         \A k \in 1 .. Len(text) : text[k] # NEWLINE => PlaceAfter(text, k - 1) # q
  PROVE  CharAt(text, q) = SPACE
<1>1. {k \in 1 .. Len(text) : text[k] # NEWLINE /\ PlaceAfter(text, k - 1) = q} = {}
  OBVIOUS
<1> QED
  BY <1>1, Zenon DEF CharAt

\* The marked places are those with something else than a blank.
LEMMA MarkedIs ==
  ASSUME NEW text, Len(text) \in Nat, NEW q
  PROVE  q \in Marked(text) <=> CharAt(text, q) # SPACE
<1>1. ASSUME q \in Marked(text) PROVE CharAt(text, q) # SPACE
  <2>1. PICK k \in 1 .. Len(text) : text[k] \notin {SPACE, NEWLINE} /\ q = PlaceAfter(text, k - 1)
    BY <1>1 DEF Marked
  <2>2. CharAt(text, PlaceAfter(text, k - 1)) = text[k]
    BY <2>1, CharThere
  <2> QED
    BY <2>1, <2>2
<1>2. ASSUME CharAt(text, q) # SPACE PROVE q \in Marked(text)
  <2>1. PICK k \in 1 .. Len(text) : text[k] # NEWLINE /\ PlaceAfter(text, k - 1) = q
    BY <1>2, NoCharThere
  <2>2. CharAt(text, PlaceAfter(text, k - 1)) = text[k]
    BY <2>1, CharThere
  <2>3. text[k] # SPACE
    BY <1>2, <2>1, <2>2
  <2> QED
    BY <2>1, <2>3 DEF Marked
<1> QED
  BY <1>1, <1>2

\* Where one of the files is when the places up to a column of a row are done: within the
\* row, at its end, or at its own end; and after it was read for that place.
OnPlace(q, row, col) == q.row = row /\ q.col = col
NotPast(q, row, col) == q.row < row \/ (q.row = row /\ q.col <= col)
FishInv(text, s, row, col) ==
    /\ ~s.eof /\ s.c # NEWLINE => OnPlace(PlaceAfter(text, s.pos), row, col)
    /\ ~s.eof /\ s.c = NEWLINE =>
          /\ s.pos # 0 /\ text[s.pos] = NEWLINE
          /\ PlaceAfter(text, s.pos - 1).row = row /\ PlaceAfter(text, s.pos - 1).col <= col
    /\ s.eof => s.pos = Len(text) /\ NotPast(PlaceAfter(text, s.pos), row, col)
FishRead(text, a, row, col) ==
    /\ ~a.eof => a.pos # 0 /\ text[a.pos] = a.c
    /\ a.c # NEWLINE => OnPlace(PlaceAfter(text, a.pos - 1), row, col)
    /\ ~a.eof /\ a.c = NEWLINE =>
          PlaceAfter(text, a.pos - 1).row = row /\ PlaceAfter(text, a.pos - 1).col <= col
    /\ a.eof => a.pos = Len(text) /\ NotPast(PlaceAfter(text, a.pos), row, col)

\* What lowers while one of the files is read.
FishRank(text, s) ==
    2 * (Len(text) - s.pos) + (IF s.eof THEN 0 ELSE 2) + (IF s.c = NEWLINE THEN 1 ELSE 0)

LEMMA FishProgress ==
  ASSUME NEW C, NEW text \in Seq(C), NEW s \in Progress(text), NEW a, a = ReadOne(text, s)
  PROVE  /\ a \in Progress(text) /\ NextRow(a) \in Progress(text)
         /\ FishRank(text, s) \in Nat /\ FishRank(text, a) \in Nat /\ FishRank(text, NextRow(a)) \in Nat
         /\ FishRank(text, a) <= FishRank(text, s)
         /\ s.c # NEWLINE => FishRank(text, a) < FishRank(text, s)
         /\ a.c = NEWLINE => FishRank(text, NextRow(a)) <= FishRank(text, a)
         /\ a.c = NEWLINE /\ ~a.eof => FishRank(text, NextRow(a)) < FishRank(text, a)
<1> DEFINE n == Len(text)
           K == {text[k] : k \in 1 .. n} \union {"0", NEWLINE}
           b == NextRow(a)
           P(x) == /\ x \in [pos : 0 .. n, c : K, eof : BOOLEAN]
                   /\ x.eof => x.c = NEWLINE
           Rank(x) == 2 * (n - x.pos) + (IF x.eof THEN 0 ELSE 2) + (IF x.c = NEWLINE THEN 1 ELSE 0)
<1>0. "0" # NEWLINE
  BY DEF NEWLINE
<1>1. n \in Nat /\ P(s)
  BY DEF Progress
<1>2. a = IF s.c = NEWLINE THEN s
          ELSE IF s.pos < n THEN [pos |-> s.pos + 1, c |-> text[s.pos + 1], eof |-> FALSE]
          ELSE [pos |-> s.pos, c |-> NEWLINE, eof |-> TRUE]
  BY DEF ReadOne
<1>3. b = IF a.eof THEN a ELSE [pos |-> a.pos, c |-> "0", eof |-> FALSE]
  BY DEF NextRow
<1>k. NEWLINE \in K /\ "0" \in K /\ \A k \in 1 .. n : text[k] \in K
  OBVIOUS
<1> HIDE DEF n, K, b
<1>4. ASSUME NEW x, P(x) PROVE Rank(x) \in Nat
  BY <1>1, <1>4
<1>5. P(a) /\ Rank(a) <= Rank(s) /\ (s.c # NEWLINE => Rank(a) < Rank(s))
  <2>1. CASE s.c = NEWLINE
    <3>1. a = s
      BY <1>2, <2>1
    <3>2. Rank(s) \in Nat
      BY <1>1, <1>4
    <3> HIDE DEF Rank
    <3> QED
      BY <1>1, <2>1, <3>1, <3>2
  <2>2. CASE s.c # NEWLINE /\ s.pos < n
    <3>1. a = [pos |-> s.pos + 1, c |-> text[s.pos + 1], eof |-> FALSE]
      BY <1>2, <2>2
    <3>2. s.pos \in 0 .. n /\ s.pos + 1 \in 1 .. n
      BY <1>1, <2>2
    <3>3. text[s.pos + 1] \in K /\ ~s.eof
      BY <1>1, <1>k, <2>2, <3>2
    <3>4. a.pos = s.pos + 1 /\ a.eof = FALSE
      BY <3>1
    <3>5. P(a)
      BY <1>1, <3>1, <3>2, <3>3
    <3>6. Rank(s) = 2 * (n - s.pos) + 2
      BY <1>1, <2>2, <3>3
    <3>7. Rank(a) <= 2 * (n - (s.pos + 1)) + 3
      BY <1>1, <3>2, <3>4
    <3>8. Rank(a) < Rank(s) /\ Rank(a) \in Nat
      <4>1. Rank(a) \in Nat
        BY <1>4, <3>5
      <4> HIDE DEF Rank
      <4> QED
        BY <1>1, <3>2, <3>6, <3>7, <4>1
    <3>9. Rank(s) \in Nat
      BY <1>1, <1>4
    <3> HIDE DEF Rank, P
    <3> QED
      BY <3>5, <3>8, <3>9
  <2>3. CASE s.c # NEWLINE /\ ~(s.pos < n)
    <3>1. a = [pos |-> s.pos, c |-> NEWLINE, eof |-> TRUE]
      BY <1>2, <2>3
    <3>2. ~s.eof /\ s.pos \in 0 .. n
      BY <1>1, <2>3
    <3>3. P(a)
      BY <1>1, <1>k, <3>1, <3>2
    <3>4. Rank(s) = 2 * (n - s.pos) + 2 /\ Rank(a) = 2 * (n - s.pos) + 1
      BY <1>1, <2>3, <3>1, <3>2
    <3> HIDE DEF Rank, P
    <3> QED
      BY <1>1, <3>2, <3>3, <3>4
  <2> QED
    BY <2>1, <2>2, <2>3
<1>6. P(b) /\ (a.c = NEWLINE => Rank(b) <= Rank(a)) /\ (a.c = NEWLINE /\ ~a.eof => Rank(b) < Rank(a))
  <2>1. CASE a.eof
    <3>1. b = a
      BY <1>3, <2>1
    <3>2. Rank(a) \in Nat
      BY <1>4, <1>5
    <3> HIDE DEF Rank
    <3> QED
      BY <1>5, <2>1, <3>1, <3>2
  <2>2. CASE ~a.eof
    <3>1. b = [pos |-> a.pos, c |-> "0", eof |-> FALSE]
      BY <1>3, <2>2
    <3>2. P(b)
      BY <1>5, <1>k, <3>1
    <3>3. a.pos \in 0 .. n
      BY <1>5
    <3>4. Rank(b) = 2 * (n - a.pos) + 2
      BY <1>0, <1>1, <3>1, <3>3
    <3>5. a.c = NEWLINE => Rank(a) = 2 * (n - a.pos) + 2 + 1
      BY <1>1, <2>2, <3>3
    <3> HIDE DEF Rank, P
    <3> QED
      BY <1>1, <2>2, <3>2, <3>3, <3>4, <3>5
  <2> QED
    BY <2>1, <2>2
<1>7. Rank(s) \in Nat /\ Rank(a) \in Nat /\ Rank(b) \in Nat
  BY <1>1, <1>4, <1>5, <1>6
<1>8. \A x : (P(x) <=> x \in Progress(text)) /\ Rank(x) = FishRank(text, x)
  BY DEF Progress, FishRank, n, K
<1> HIDE DEF P, Rank
<1> QED
  BY <1>5, <1>6, <1>7, <1>8 DEF b

\* A read for a place gives what the text has there.
LEMMA FishReads ==
  ASSUME NEW C, NEW text \in Seq(C), NEW s \in Progress(text), NEW row \in Nat, NEW col \in Nat,
         FishInv(text, s, row, col), NEW a, a = ReadOne(text, s)
  PROVE  FishRead(text, a, row, col)
<1> DEFINE n == Len(text)
<1>1. /\ n \in Nat /\ s.pos \in 0 .. n /\ s.eof \in BOOLEAN /\ (s.eof => s.c = NEWLINE)
  BY DEF Progress
<1>2. CASE s.c = NEWLINE
  <2>1. a = s
    BY <1>2 DEF ReadOne
  <2> QED
    BY <1>2, <2>1 DEF FishInv, FishRead
<1>3. CASE s.c # NEWLINE /\ s.pos < n
  <2>1. a = [pos |-> s.pos + 1, c |-> text[s.pos + 1], eof |-> FALSE]
    BY <1>3 DEF ReadOne
  <2>2. a.pos = s.pos + 1 /\ a.c = text[s.pos + 1] /\ a.eof = FALSE
    BY <2>1
  <2>3. OnPlace(PlaceAfter(text, s.pos), row, col)
    BY <1>1, <1>3 DEF FishInv
  <2>4. a.pos # 0 /\ a.pos - 1 = s.pos /\ text[a.pos] = a.c
    BY <1>1, <2>2
  <2>5. OnPlace(PlaceAfter(text, a.pos - 1), row, col)
    BY <2>3, <2>4
  <2>6. PlaceAfter(text, a.pos - 1).row = row /\ PlaceAfter(text, a.pos - 1).col <= col
    BY <2>5 DEF OnPlace
  <2> QED
    BY <2>2, <2>4, <2>5, <2>6 DEF FishRead
<1>4. CASE s.c # NEWLINE /\ ~(s.pos < n)
  <2>1. a = [pos |-> s.pos, c |-> NEWLINE, eof |-> TRUE]
    BY <1>4 DEF ReadOne
  <2>2. a.pos = s.pos /\ a.c = NEWLINE /\ a.eof = TRUE /\ s.pos = n
    BY <1>1, <1>4, <2>1
  <2>3. OnPlace(PlaceAfter(text, s.pos), row, col)
    BY <1>1, <1>4 DEF FishInv
  <2>4. NotPast(PlaceAfter(text, a.pos), row, col)
    BY <2>2, <2>3 DEF OnPlace, NotPast
  <2> QED
    BY <2>2, <2>4 DEF FishRead
<1> QED
  BY <1>2, <1>3, <1>4

\* No character lies between the end of a line, or of the text, and the place that was read.
LEMMA NothingAt ==
  ASSUME NEW C, NEW text \in Seq(C), NEW a \in Progress(text), NEW row \in Nat, NEW col \in Nat,
         FishRead(text, a, row, col), NEW k \in 1 .. Len(text), text[k] # NEWLINE
  PROVE  /\ a.c = NEWLINE => ~(PlaceAfter(text, k - 1).row = row /\ col <= PlaceAfter(text, k - 1).col)
         /\ a.eof => ~(row < PlaceAfter(text, k - 1).row)
<1> DEFINE n == Len(text)
           p == PlaceAfter(text, k - 1)
           q == PlaceAfter(text, a.pos)
           r == PlaceAfter(text, a.pos - 1)
<1>1. n \in Nat /\ a.pos \in 0 .. n /\ a.eof \in BOOLEAN /\ k - 1 \in Nat /\ k - 1 < n
  BY DEF Progress
<1>2. p.row \in Nat /\ p.col \in Nat /\ q.row \in Nat /\ q.col \in Nat
  <2>1. p \in [row : Nat, col : Nat] /\ q \in [row : Nat, col : Nat]
    BY <1>1, PlaceTyped
  <2> HIDE DEF p, q
  <2> QED
    BY <2>1
<1>3. CASE a.eof
  <2>1. a.pos = n /\ NotPast(q, row, col)
    BY <1>3 DEF FishRead
  <2>2. Behind(p, q)
    BY <1>1, <2>1, PlacesGoOn
  <2> HIDE DEF p, q
  <2>3. ~(p.row = row /\ col <= p.col) /\ ~(row < p.row)
    BY <1>2, <2>1, <2>2 DEF Behind, NotPast
  <2> QED
    BY <2>3 DEF p
<1>4. CASE ~a.eof /\ a.c = NEWLINE
  <2>1. a.pos # 0 /\ text[a.pos] = NEWLINE /\ r.row = row /\ r.col <= col
    BY <1>4 DEF FishRead
  <2>2. a.pos - 1 \in Nat /\ (a.pos - 1) + 1 = a.pos
    BY <1>1, <2>1
  <2>3. q.row = row + 1 /\ q.col = 0
    <3> DEFINE m == a.pos - 1
    <3>1. m \in Nat /\ m + 1 = a.pos /\ text[m + 1] = NEWLINE
      BY <2>1, <2>2
    <3> HIDE DEF m
    <3>2. PlaceAfter(text, m + 1).row = PlaceAfter(text, m).row + 1 /\ PlaceAfter(text, m + 1).col = 0
      BY <3>1, PlaceAfterOneMore
    <3> QED
      BY <2>1, <3>1, <3>2 DEF m
  <2>4. CASE k - 1 < a.pos - 1
    <3>1. Behind(p, r)
      BY <1>1, <2>2, <2>4, PlacesGoOn
    <3>2. r.row \in Nat /\ r.col \in Nat
      <4>1. r \in [row : Nat, col : Nat]
        BY <2>2, PlaceTyped
      <4> HIDE DEF r
      <4> QED
        BY <4>1
    <3> HIDE DEF p, q, r
    <3>3. ~(p.row = row /\ col <= p.col)
      BY <1>2, <2>1, <3>1, <3>2 DEF Behind
    <3> QED
      BY <1>4, <3>3 DEF p
  <2>5. CASE k = a.pos
    BY <2>1, <2>5
  <2>6. CASE k - 1 = a.pos
    <3>1. p = q
      BY <2>6
    <3> HIDE DEF p, q, r
    <3>2. p.row = row + 1
      BY <2>3, <3>1
    <3>3. ~(p.row = row /\ col <= p.col)
      BY <3>2
    <3> QED
      BY <1>4, <3>3 DEF p
  <2>7. CASE a.pos < k - 1
    <3>1. Behind(q, p)
      BY <1>1, <2>7, PlacesGoOn
    <3> HIDE DEF p, q, r
    <3>2. ~(p.row = row /\ col <= p.col)
      BY <1>2, <2>3, <3>1 DEF Behind
    <3> QED
      BY <1>4, <3>2 DEF p
  <2> QED
    BY <1>1, <2>4, <2>5, <2>6, <2>7
<1>5. CASE ~a.eof /\ a.c # NEWLINE
  BY <1>5
<1> QED
  BY <1>1, <1>3, <1>4, <1>5

\* So what is shown is right, and the file is where it should be for the next place.
LEMMA FishShows ==
  ASSUME NEW C, NEW text \in Seq(C), NEW a \in Progress(text), NEW row \in Nat, NEW col \in Nat,
         FishRead(text, a, row, col)
  PROVE  /\ Shown(a.c) = CharAt(text, [row |-> row, col |-> col])
         /\ FishInv(text, a, row, col + 1)
         /\ a.c = NEWLINE => FishInv(text, NextRow(a), row + 1, 0)
<1> DEFINE n == Len(text)
           q == [row |-> row, col |-> col]
           m == a.pos - 1
<1>1. n \in Nat /\ a.pos \in 0 .. n /\ a.eof \in BOOLEAN /\ (a.eof => a.c = NEWLINE)
  BY DEF Progress
<1>2. ~a.eof => m \in Nat /\ m + 1 = a.pos /\ text[m + 1] = a.c /\ a.pos \in 1 .. n /\ a.pos # 0
  BY <1>1 DEF FishRead
<1> HIDE DEF m
<1>3. CASE a.c # NEWLINE
  <2>1. /\ ~a.eof /\ m \in Nat /\ m + 1 \in 1 .. n /\ text[m + 1] # NEWLINE /\ text[m + 1] = a.c
        /\ m + 1 = a.pos
    BY <1>1, <1>2, <1>3
  <2>2. PlaceAfter(text, m).row = row /\ PlaceAfter(text, m).col = col
    BY <1>3 DEF FishRead, OnPlace, m
  <2>3. PlaceAfter(text, m) = q
    <3>1. PlaceAfter(text, m) \in [row : Nat, col : Nat]
      BY <2>1, PlaceTyped
    <3> QED
      BY <2>2, <3>1
  <2>4. CharAt(text, q) = a.c
    <3>1. (m + 1) - 1 = m
      BY <2>1
    <3>2. CharAt(text, PlaceAfter(text, (m + 1) - 1)) = text[m + 1]
      BY <1>1, <2>1, CharThere
    <3> QED
      BY <2>1, <2>3, <3>1, <3>2
  <2>5. /\ PlaceAfter(text, m + 1).row = PlaceAfter(text, m).row
        /\ PlaceAfter(text, m + 1).col = PlaceAfter(text, m).col + 1
    BY <2>1, PlaceAfterOneMore
  <2>6. OnPlace(PlaceAfter(text, a.pos), row, col + 1)
    BY <2>1, <2>2, <2>5 DEF OnPlace
  <2>7. FishInv(text, a, row, col + 1)
    BY <1>3, <2>1, <2>6 DEF FishInv
  <2>8. Shown(a.c) = a.c
    BY <1>3 DEF Shown
  <2> QED
    BY <1>3, <2>4, <2>7, <2>8
<1>4. CASE a.c = NEWLINE
  <2>1. Shown(a.c) = SPACE
    BY <1>4 DEF Shown
  <2>2. CharAt(text, q) = SPACE
    <3>1. ASSUME NEW k \in 1 .. Len(text), text[k] # NEWLINE PROVE PlaceAfter(text, k - 1) # q
      <4>1. ~(PlaceAfter(text, k - 1).row = row /\ col <= PlaceAfter(text, k - 1).col)
        BY <1>4, <3>1, NothingAt
      <4> QED
        BY <4>1
    <3> HIDE DEF q
    <3> QED
      BY <3>1, NoCharThere
  <2>3. CASE a.eof
    <3>1. a.pos = n /\ NotPast(PlaceAfter(text, a.pos), row, col)
      BY <2>3 DEF FishRead
    <3>2. PlaceAfter(text, a.pos) \in [row : Nat, col : Nat]
      BY <1>1, PlaceTyped
    <3>3. /\ NotPast(PlaceAfter(text, a.pos), row, col + 1)
          /\ NotPast(PlaceAfter(text, a.pos), row + 1, 0)
      <4> DEFINE p == PlaceAfter(text, a.pos)
      <4>1. NotPast(p, row, col) /\ p.row \in Nat /\ p.col \in Nat
        BY <3>1, <3>2
      <4> HIDE DEF p
      <4>2. NotPast(p, row, col + 1) /\ NotPast(p, row + 1, 0)
        BY <4>1 DEF NotPast
      <4> QED
        BY <4>2 DEF p
    <3>4. NextRow(a) = a
      BY <2>3 DEF NextRow
    <3> QED
      BY <2>1, <2>2, <2>3, <3>1, <3>3, <3>4 DEF FishInv
  <2>4. CASE ~a.eof
    <3>1. /\ m \in Nat /\ m + 1 = a.pos /\ text[m + 1] = NEWLINE /\ a.pos # 0 /\ text[a.pos] = NEWLINE
          /\ PlaceAfter(text, m).row = row /\ PlaceAfter(text, m).col <= col
      BY <1>2, <1>4, <2>4 DEF FishRead, m
    <3>2. PlaceAfter(text, m + 1).row = PlaceAfter(text, m).row + 1 /\ PlaceAfter(text, m + 1).col = 0
      BY <3>1, PlaceAfterOneMore
    <3>3. OnPlace(PlaceAfter(text, a.pos), row + 1, 0)
      BY <3>1, <3>2 DEF OnPlace
    <3>4. PlaceAfter(text, m).col \in Nat
      <4>1. PlaceAfter(text, m) \in [row : Nat, col : Nat]
        BY <3>1, PlaceTyped
      <4> QED
        BY <4>1
    <3>5. FishInv(text, a, row, col + 1)
      BY <1>4, <2>4, <3>1, <3>4 DEF FishInv, m
    <3>6. NextRow(a) = [pos |-> a.pos, c |-> "0", eof |-> FALSE] /\ "0" # NEWLINE
      BY <2>4 DEF NextRow, NEWLINE
    <3>7. FishInv(text, NextRow(a), row + 1, 0)
      BY <3>3, <3>6 DEF FishInv
    <3> QED
      BY <2>1, <2>2, <3>5, <3>7
  <2> QED
    BY <2>3, <2>4
<1> QED
  BY <1>3, <1>4

\* What shall be shown from a place on, and at one place.
FromPlace(E, row, col) == {e \in E : row < e.row \/ (e.row = row /\ col <= e.col)}
OwnPlace(f0, f1, row, col) ==
    LET q == [row |-> row, col |-> col]
    IN  IF CharAt(f0, q) = SPACE /\ CharAt(f1, q) = SPACE THEN {}
        ELSE {[row |-> row, col |-> col, on |-> CharAt(f0, q), off |-> CharAt(f1, q)]}

\* What shall be shown is where a file has a character.
LEMMA OverlaidIs ==
  ASSUME NEW C, NEW f0 \in Seq(C), NEW f1 \in Seq(C), NEW e \in Overlaid(f0, f1)
  PROVE  /\ e.row \in Nat /\ e.col \in Nat
         /\ e \in OwnPlace(f0, f1, e.row, e.col)
         /\ \/ \E k \in 1 .. Len(f0) : /\ f0[k] # NEWLINE /\ PlaceAfter(f0, k - 1).row = e.row
                                       /\ PlaceAfter(f0, k - 1).col = e.col
            \/ \E k \in 1 .. Len(f1) : /\ f1[k] # NEWLINE /\ PlaceAfter(f1, k - 1).row = e.row
                                       /\ PlaceAfter(f1, k - 1).col = e.col
<1>1. PICK q \in Marked(f0) \union Marked(f1) :
          e = [row |-> q.row, col |-> q.col, on |-> CharAt(f0, q), off |-> CharAt(f1, q)]
  BY DEF Overlaid
<1>2. Len(f0) \in Nat /\ Len(f1) \in Nat
  OBVIOUS
<1>3. CharAt(f0, q) # SPACE \/ CharAt(f1, q) # SPACE
  BY <1>2, MarkedIs
<1>4. \/ \E k \in 1 .. Len(f0) : f0[k] # NEWLINE /\ PlaceAfter(f0, k - 1) = q
      \/ \E k \in 1 .. Len(f1) : f1[k] # NEWLINE /\ PlaceAfter(f1, k - 1) = q
  BY DEF Marked
<1>5. q \in [row : Nat, col : Nat]
  <2>1. ASSUME NEW text, NEW k \in 1 .. Len(text), Len(text) \in Nat
        PROVE  PlaceAfter(text, k - 1) \in [row : Nat, col : Nat]
    <3>1. k - 1 \in Nat
      BY <2>1
    <3> QED
      BY <3>1, PlaceTyped
  <2> QED
    BY <1>2, <1>4, <2>1
<1>6. e.row = q.row /\ e.col = q.col
  BY <1>1
<1>7. q = [row |-> e.row, col |-> e.col]
  BY <1>5, <1>6
<1>8. e \in OwnPlace(f0, f1, e.row, e.col)
  <2> DEFINE x == [row |-> e.row, col |-> e.col]
  <2>1. x = q
    BY <1>7
  <2>2. e = [row |-> e.row, col |-> e.col, on |-> CharAt(f0, x), off |-> CharAt(f1, x)]
    BY <1>1, <1>6, <2>1
  <2>3. ~(CharAt(f0, x) = SPACE /\ CharAt(f1, x) = SPACE)
    BY <1>3, <2>1
  <2>4. OwnPlace(f0, f1, e.row, e.col) =
            IF CharAt(f0, x) = SPACE /\ CharAt(f1, x) = SPACE THEN {}
            ELSE {[row |-> e.row, col |-> e.col, on |-> CharAt(f0, x), off |-> CharAt(f1, x)]}
    BY Zenon DEF OwnPlace
  <2> HIDE DEF x
  <2>5. OwnPlace(f0, f1, e.row, e.col) =
            {[row |-> e.row, col |-> e.col, on |-> CharAt(f0, x), off |-> CharAt(f1, x)]}
    BY <2>3, <2>4, Zenon
  <2> QED
    BY <2>2, <2>5, Zenon
<1> QED
  BY <1>4, <1>5, <1>6, <1>8

LEMMA OwnIsOverlaid ==
  ASSUME NEW C, NEW f0 \in Seq(C), NEW f1 \in Seq(C), NEW row \in Nat, NEW col \in Nat
  PROVE  \A e \in OwnPlace(f0, f1, row, col) :
             e \in Overlaid(f0, f1) /\ e.row = row /\ e.col = col
<1> DEFINE q == [row |-> row, col |-> col]
<1> SUFFICES ASSUME NEW e \in OwnPlace(f0, f1, row, col)
             PROVE  e \in Overlaid(f0, f1) /\ e.row = row /\ e.col = col
  OBVIOUS
<1>1. /\ ~(CharAt(f0, q) = SPACE /\ CharAt(f1, q) = SPACE)
      /\ e = [row |-> row, col |-> col, on |-> CharAt(f0, q), off |-> CharAt(f1, q)]
  BY DEF OwnPlace
<1>2. Len(f0) \in Nat /\ Len(f1) \in Nat /\ q.row = row /\ q.col = col
  OBVIOUS
<1>3. q \in Marked(f0) \union Marked(f1)
  <2> HIDE DEF q
  <2> QED
    BY <1>1, <1>2, MarkedIs
<1>4. e = [row |-> q.row, col |-> q.col, on |-> CharAt(f0, q), off |-> CharAt(f1, q)]
  BY <1>1, <1>2
<1> HIDE DEF q
<1>5. e \in Overlaid(f0, f1)
  BY <1>3, <1>4 DEF Overlaid
<1>6. e.row = row /\ e.col = col
  BY <1>2, <1>4
<1> QED
  BY <1>5, <1>6

\* One place further, and where a row, or both files, are done.
Splits(f0, f1, row, col) ==
    FromPlace(Overlaid(f0, f1), row, col) =
        FromPlace(Overlaid(f0, f1), row, col + 1) \union OwnPlace(f0, f1, row, col)

LEMMA PlaceSplits ==
  ASSUME NEW C, NEW f0 \in Seq(C), NEW f1 \in Seq(C), NEW row \in Nat, NEW col \in Nat
  PROVE  Splits(f0, f1, row, col)
<1> DEFINE E == Overlaid(f0, f1)
           own == OwnPlace(f0, f1, row, col)
<1>1. \A e \in own : e \in E /\ e.row = row /\ e.col = col
  BY OwnIsOverlaid
<1>2. \A e \in E : e.row \in Nat /\ e.col \in Nat /\ e \in OwnPlace(f0, f1, e.row, e.col)
  BY OverlaidIs
<1>3. \A e \in E : e.row = row /\ e.col = col => e \in own
  BY <1>2
<1> HIDE DEF E, own
<1>4. ASSUME NEW e \in FromPlace(E, row, col)
      PROVE  e \in FromPlace(E, row, col + 1) \union own
  <2>1. e \in E /\ (row < e.row \/ (e.row = row /\ col <= e.col)) /\ e.row \in Nat /\ e.col \in Nat
    BY <1>2 DEF FromPlace
  <2>2. CASE e.row = row /\ e.col = col
    BY <1>3, <2>1, <2>2
  <2>3. CASE ~(e.row = row /\ e.col = col)
    <3>1. row < e.row \/ (e.row = row /\ col + 1 <= e.col)
      BY <2>1, <2>3
    <3> QED
      BY <2>1, <3>1 DEF FromPlace
  <2> QED
    BY <2>2, <2>3
<1>5. ASSUME NEW e \in FromPlace(E, row, col + 1) \union own
      PROVE  e \in FromPlace(E, row, col)
  <2>1. CASE e \in own
    <3>1. e \in E /\ e.row = row /\ e.col = col
      BY <1>1, <2>1
    <3> QED
      BY <3>1 DEF FromPlace
  <2>2. CASE e \in FromPlace(E, row, col + 1)
    <3>1. e \in E /\ (row < e.row \/ (e.row = row /\ col + 1 <= e.col)) /\ e.row \in Nat /\ e.col \in Nat
      BY <1>2, <2>2 DEF FromPlace
    <3>2. row < e.row \/ (e.row = row /\ col <= e.col)
      BY <3>1
    <3> QED
      BY <3>1, <3>2 DEF FromPlace
  <2> QED
    BY <1>5, <2>1, <2>2
<1>6. FromPlace(E, row, col) = FromPlace(E, row, col + 1) \union own
  BY <1>4, <1>5, Zenon
<1> QED
  BY <1>6, Zenon DEF Splits, E, own

LEMMA RowDone ==
  ASSUME NEW C, NEW f0 \in Seq(C), NEW f1 \in Seq(C), NEW row \in Nat, NEW col \in Nat,
         NEW a \in Progress(f0), NEW b \in Progress(f1),
         FishRead(f0, a, row, col), FishRead(f1, b, row, col), a.c = NEWLINE, b.c = NEWLINE
  PROVE  /\ FromPlace(Overlaid(f0, f1), row, col) = FromPlace(Overlaid(f0, f1), row + 1, 0)
         /\ a.eof /\ b.eof => FromPlace(Overlaid(f0, f1), row, col) = {}
<1> DEFINE E == Overlaid(f0, f1)
<1>1. ASSUME NEW e \in E
      PROVE  /\ e.row \in Nat /\ e.col \in Nat /\ ~(e.row = row /\ col <= e.col)
             /\ a.eof /\ b.eof => ~(row < e.row)
  <2>1. /\ e.row \in Nat /\ e.col \in Nat
        /\ \/ \E k \in 1 .. Len(f0) : /\ f0[k] # NEWLINE /\ PlaceAfter(f0, k - 1).row = e.row
                                      /\ PlaceAfter(f0, k - 1).col = e.col
           \/ \E k \in 1 .. Len(f1) : /\ f1[k] # NEWLINE /\ PlaceAfter(f1, k - 1).row = e.row
                                      /\ PlaceAfter(f1, k - 1).col = e.col
    BY OverlaidIs
  <2>2. \A k \in 1 .. Len(f0) : f0[k] # NEWLINE =>
            /\ ~(PlaceAfter(f0, k - 1).row = row /\ col <= PlaceAfter(f0, k - 1).col)
            /\ a.eof => ~(row < PlaceAfter(f0, k - 1).row)
    BY NothingAt
  <2>3. \A k \in 1 .. Len(f1) : f1[k] # NEWLINE =>
            /\ ~(PlaceAfter(f1, k - 1).row = row /\ col <= PlaceAfter(f1, k - 1).col)
            /\ b.eof => ~(row < PlaceAfter(f1, k - 1).row)
    BY NothingAt
  <2> QED
    BY <2>1, <2>2, <2>3
<1> HIDE DEF E
<1>2. ASSUME NEW e \in E
      PROVE  (row < e.row \/ (e.row = row /\ col <= e.col)) <=>
             (row + 1 < e.row \/ (e.row = row + 1 /\ 0 <= e.col))
  BY <1>1
<1>3. FromPlace(E, row, col) = FromPlace(E, row + 1, 0)
  BY <1>2 DEF FromPlace
<1>4. a.eof /\ b.eof => FromPlace(E, row, col) = {}
  BY <1>1 DEF FromPlace
<1> QED
  BY <1>3, <1>4, Zenon DEF E

\* The definition that Add in add_frames has, and its body in terms of the next state.
AddEq(f, f0, f1) ==
    f = [at \in Adding(f0, f1) |->
            LET a == ReadOne(f0, at.s0)
                b == ReadOne(f1, at.s1)
                place == [row |-> at.row, col |-> at.col, on |-> Shown(a.c), off |-> Shown(b.c)]
                below == [row |-> at.row + 1, col |-> 0, s0 |-> NextRow(a), s1 |-> NextRow(b)]
                right == [row |-> at.row, col |-> at.col + 1, s0 |-> a, s1 |-> b]
            IN  IF a.c = NEWLINE /\ b.c = NEWLINE
                  THEN IF a.eof /\ b.eof THEN {} ELSE f[below]
                ELSE f[right] \union
                     (IF place.on = SPACE /\ place.off = SPACE THEN {} ELSE {place})]

FishRows(f0, f1, at) == ReadOne(f0, at.s0).c = NEWLINE /\ ReadOne(f1, at.s1).c = NEWLINE
FishEnds(f0, f1, at) ==
    FishRows(f0, f1, at) /\ ReadOne(f0, at.s0).eof /\ ReadOne(f1, at.s1).eof
FishNext(f0, f1, at) ==
    IF FishRows(f0, f1, at)
      THEN [row |-> at.row + 1, col |-> 0,
            s0 |-> NextRow(ReadOne(f0, at.s0)), s1 |-> NextRow(ReadOne(f1, at.s1))]
    ELSE [row |-> at.row, col |-> at.col + 1, s0 |-> ReadOne(f0, at.s0), s1 |-> ReadOne(f1, at.s1)]
FishPlace(f0, f1, at) ==
    [row |-> at.row, col |-> at.col, on |-> Shown(ReadOne(f0, at.s0).c),
     off |-> Shown(ReadOne(f1, at.s1).c)]
FishOwn(f0, f1, at) ==
    IF Shown(ReadOne(f0, at.s0).c) = SPACE /\ Shown(ReadOne(f1, at.s1).c) = SPACE THEN {}
    ELSE {FishPlace(f0, f1, at)}
FishBody(f, f0, f1, at) ==
    IF FishEnds(f0, f1, at) THEN {}
    ELSE IF FishRows(f0, f1, at) THEN f[FishNext(f0, f1, at)]
    ELSE f[FishNext(f0, f1, at)] \union FishOwn(f0, f1, at)

LEMMA FishBodyIs ==
  ASSUME NEW f0, NEW f1, NEW f
  PROVE  AddEq(f, f0, f1) <=> f = [at \in Adding(f0, f1) |-> FishBody(f, f0, f1, at)]
<1> DEFINE Meant(at) ==
            LET a == ReadOne(f0, at.s0)
                b == ReadOne(f1, at.s1)
                place == [row |-> at.row, col |-> at.col, on |-> Shown(a.c), off |-> Shown(b.c)]
                below == [row |-> at.row + 1, col |-> 0, s0 |-> NextRow(a), s1 |-> NextRow(b)]
                right == [row |-> at.row, col |-> at.col + 1, s0 |-> a, s1 |-> b]
            IN  IF a.c = NEWLINE /\ b.c = NEWLINE
                  THEN IF a.eof /\ b.eof THEN {} ELSE f[below]
                ELSE f[right] \union
                     (IF place.on = SPACE /\ place.off = SPACE THEN {} ELSE {place})
<1>1. ASSUME NEW at \in Adding(f0, f1)
      PROVE  Meant(at) = FishBody(f, f0, f1, at)
  <2> DEFINE a == ReadOne(f0, at.s0)
             b == ReadOne(f1, at.s1)
             place == [row |-> at.row, col |-> at.col, on |-> Shown(a.c), off |-> Shown(b.c)]
             below == [row |-> at.row + 1, col |-> 0, s0 |-> NextRow(a), s1 |-> NextRow(b)]
             right == [row |-> at.row, col |-> at.col + 1, s0 |-> a, s1 |-> b]
             rows == a.c = NEWLINE /\ b.c = NEWLINE
             ends == a.eof /\ b.eof
             none == Shown(a.c) = SPACE /\ Shown(b.c) = SPACE
  <2>1. place.on = Shown(a.c) /\ place.off = Shown(b.c)
    BY Zenon
  <2>2. Meant(at) = IF rows THEN IF ends THEN {} ELSE f[below]
                   ELSE f[right] \union (IF none THEN {} ELSE {place})
    <3> HIDE DEF a, b, below, right
    <3> QED
      BY <2>1, Zenon DEF a, b, below, right
  <2>3. FishRows(f0, f1, at) <=> rows
    BY DEF FishRows
  <2>4. FishEnds(f0, f1, at) <=> rows /\ ends
    BY Zenon DEF FishEnds, FishRows
  <2>5. FishNext(f0, f1, at) = IF rows THEN below ELSE right
    BY Zenon DEF FishNext, FishRows
  <2>6. FishOwn(f0, f1, at) = IF none THEN {} ELSE {place}
    BY Zenon DEF FishOwn, FishPlace
  <2> HIDE DEF Meant, rows, ends, none, below, right, place
  <2> QED
    BY <2>2, <2>3, <2>4, <2>5, <2>6, Zenon DEF FishBody
<1>2. AddEq(f, f0, f1) <=> f = [at \in Adding(f0, f1) |-> Meant(at)]
  BY Zenon DEF AddEq
<1> HIDE DEF Meant
<1>3. [at \in Adding(f0, f1) |-> Meant(at)] = [at \in Adding(f0, f1) |-> FishBody(f, f0, f1, at)]
  BY <1>1, Zenon
<1> QED
  BY <1>2, <1>3, Zenon

\* Both files are read further, or the next row starts.
LowerOrEnds(f0, f1, at, to) ==
    FishEnds(f0, f1, at) \/
    FishRank(f0, to.s0) + FishRank(f1, to.s1) < FishRank(f0, at.s0) + FishRank(f1, at.s1)

LEMMA FishSteps ==
  ASSUME NEW C, NEW f0 \in Seq(C), NEW f1 \in Seq(C), NEW at \in Adding(f0, f1)
  PROVE  /\ FishNext(f0, f1, at) \in Adding(f0, f1)
         /\ FishRank(f0, at.s0) + FishRank(f1, at.s1) \in Nat
         /\ LowerOrEnds(f0, f1, at, FishNext(f0, f1, at))
<1> DEFINE a == ReadOne(f0, at.s0)
           b == ReadOne(f1, at.s1)
           to == FishNext(f0, f1, at)
<1>0. /\ at.row \in Nat /\ at.col \in Nat
      /\ at.s0 \in Progress(f0) /\ at.s1 \in Progress(f1)
  BY DEF Adding
<1>1. /\ a \in Progress(f0) /\ NextRow(a) \in Progress(f0)
      /\ FishRank(f0, at.s0) \in Nat /\ FishRank(f0, a) \in Nat /\ FishRank(f0, NextRow(a)) \in Nat
      /\ FishRank(f0, a) <= FishRank(f0, at.s0)
      /\ at.s0.c # NEWLINE => FishRank(f0, a) < FishRank(f0, at.s0)
      /\ a.c = NEWLINE => FishRank(f0, NextRow(a)) <= FishRank(f0, a)
      /\ a.c = NEWLINE /\ ~a.eof => FishRank(f0, NextRow(a)) < FishRank(f0, a)
  BY <1>0, FishProgress
<1>2. /\ b \in Progress(f1) /\ NextRow(b) \in Progress(f1)
      /\ FishRank(f1, at.s1) \in Nat /\ FishRank(f1, b) \in Nat /\ FishRank(f1, NextRow(b)) \in Nat
      /\ FishRank(f1, b) <= FishRank(f1, at.s1)
      /\ at.s1.c # NEWLINE => FishRank(f1, b) < FishRank(f1, at.s1)
      /\ b.c = NEWLINE => FishRank(f1, NextRow(b)) <= FishRank(f1, b)
      /\ b.c = NEWLINE /\ ~b.eof => FishRank(f1, NextRow(b)) < FishRank(f1, b)
  BY <1>0, FishProgress
<1>3. (at.s0.c = NEWLINE => a.c = NEWLINE) /\ (at.s1.c = NEWLINE => b.c = NEWLINE)
  BY DEF ReadOne
<1>4. CASE FishRows(f0, f1, at)
  <2>1. to = [row |-> at.row + 1, col |-> 0, s0 |-> NextRow(a), s1 |-> NextRow(b)]
    BY <1>4 DEF FishNext
  <2>2. a.c = NEWLINE /\ b.c = NEWLINE /\ (FishEnds(f0, f1, at) <=> a.eof /\ b.eof)
    BY <1>4 DEF FishRows, FishEnds
  <2>3. a.eof \in BOOLEAN /\ b.eof \in BOOLEAN
    BY <1>1, <1>2 DEF Progress
  <2> HIDE DEF a, b, to
  <2>4. to \in Adding(f0, f1)
    BY <1>0, <1>1, <1>2, <2>1 DEF Adding
  <2>5. to.s0 = NextRow(a) /\ to.s1 = NextRow(b)
    BY <2>1
  <2>6. LowerOrEnds(f0, f1, at, to)
    BY <1>1, <1>2, <2>2, <2>3, <2>5 DEF LowerOrEnds
  <2> QED
    BY <1>1, <1>2, <2>4, <2>6 DEF to
<1>5. CASE ~FishRows(f0, f1, at)
  <2>1. to = [row |-> at.row, col |-> at.col + 1, s0 |-> a, s1 |-> b]
    BY <1>5 DEF FishNext
  <2>2. at.s0.c # NEWLINE \/ at.s1.c # NEWLINE
    BY <1>3, <1>5 DEF FishRows
  <2> HIDE DEF a, b, to
  <2>3. to \in Adding(f0, f1)
    BY <1>0, <1>1, <1>2, <2>1 DEF Adding
  <2>4. to.s0 = a /\ to.s1 = b
    BY <2>1
  <2>5. LowerOrEnds(f0, f1, at, to)
    BY <1>1, <1>2, <2>2, <2>4 DEF LowerOrEnds
  <2> QED
    BY <1>1, <1>2, <2>3, <2>5 DEF to
<1> QED
  BY <1>4, <1>5

LEMMA AddDefined ==
  ASSUME NEW C, NEW f0 \in Seq(C), NEW f1 \in Seq(C)
  PROVE  \E f : AddEq(f, f0, f1)
<1> DEFINE D == Adding(f0, f1)
           R == SUBSET {FishPlace(f0, f1, at) : at \in D}
           rank == [at \in D |-> FishRank(f0, at.s0) + FishRank(f1, at.s1)]
           next == [at \in D |-> FishNext(f0, f1, at)]
           own == [at \in D |-> FishOwn(f0, f1, at)]
           Body(f, at) == IF FishEnds(f0, f1, at) THEN {}
                          ELSE IF FishRows(f0, f1, at) THEN f[next[at]]
                          ELSE f[next[at]] \union own[at]
           Step == [f \in [D -> R] |-> [at \in D |-> Body(f, at)]]
<1>1. rank \in [D -> Nat] /\ next \in [D -> D]
  BY FishSteps
<1>2. own \in [D -> R]
  <2>1. ASSUME NEW at \in D PROVE FishOwn(f0, f1, at) \in R
    <3> HIDE DEF D
    <3> QED
      BY <2>1 DEF FishOwn
  <2> HIDE DEF D, R
  <2> QED
    BY <2>1
<1>3. \A at \in D : ~FishEnds(f0, f1, at) => rank[next[at]] < rank[at]
  <2> TAKE at \in D
  <2>1. FishNext(f0, f1, at) \in D /\ LowerOrEnds(f0, f1, at, FishNext(f0, f1, at))
    BY FishSteps
  <2> QED
    BY <2>1 DEF LowerOrEnds
<1>4. {} \in R
  OBVIOUS
<1>5. \A x, y \in R : x \union y \in R
  OBVIOUS
<1> HIDE DEF D, R, rank, next, own
<1>6. Step \in [[D -> R] -> [D -> R]]
  <2>1. ASSUME NEW f \in [D -> R], NEW at \in D
        PROVE  Body(f, at) \in R
    <3>1. next[at] \in D /\ own[at] \in R
      BY <1>1, <1>2
    <3>2. f[next[at]] \in R
      BY <3>1
    <3>3. f[next[at]] \union own[at] \in R
      BY <1>5, <3>1, <3>2
    <3> QED
      BY <1>4, <3>2, <3>3
  <2> HIDE DEF Body
  <2> QED
    BY <2>1
<1>7. LooksDown(D, R, rank, Step)
  <2> SUFFICES ASSUME NEW f \in [D -> R], NEW h \in [D -> R], NEW at \in D,
                      \A j \in D : rank[j] < rank[at] => f[j] = h[j]
               PROVE  Step[f][at] = Step[h][at]
    BY Zenon DEF LooksDown
  <2>1. next[at] \in D
    BY <1>1
  <2>2. ~FishEnds(f0, f1, at) => f[next[at]] = h[next[at]]
    BY <1>3, <2>1
  <2>3. Body(f, at) = Body(h, at)
    BY <2>2, Zenon
  <2> HIDE DEF Body
  <2> QED
    BY <2>3
<1>8. PICK f \in [D -> R] : f = Step[f]
  <2>1. R # {}
    BY <1>4
  <2> HIDE DEF Step
  <2>2. IsDefined(D, R, Step)
    BY <1>1, <1>6, <1>7, <2>1, RecursionExists
  <2> QED
    BY <2>2 DEF IsDefined
<1>9. f = [at \in D |-> FishBody(f, f0, f1, at)]
  <2>1. f = [at \in D |-> Body(f, at)]
    BY <1>8
  <2>2. ASSUME NEW at \in D PROVE Body(f, at) = FishBody(f, f0, f1, at)
    <3>1. next[at] = FishNext(f0, f1, at) /\ own[at] = FishOwn(f0, f1, at)
      BY DEF next, own
    <3> QED
      BY <3>1, Zenon DEF FishBody
  <2> HIDE DEF Body
  <2> QED
    BY <2>1, <2>2, Zenon
<1> QED
  BY <1>9, FishBodyIs, Zenon DEF D

\* For every two files: fish shows at every place what the files have there, each in its
\* own turn, and a blank for the one that has nothing or nothing more in that row.  So a file
\* that is ahead waits for the other one at the end of its line, an empty line takes a row,
\* and what the longer file has when the other one has ended is shown too.
THEOREM FishShowsBoth ==
  ASSUME NEW C, NEW f0 \in Seq(C), NEW f1 \in Seq(C)
  PROVE  add_frames(f0, f1) = Overlaid(f0, f1)
<1> DEFINE E == Overlaid(f0, f1)
           Inv(at) == FishInv(f0, at.s0, at.row, at.col) /\ FishInv(f1, at.s1, at.row, at.col)
           D == {at \in Adding(f0, f1) : Inv(at)}
           v == CHOOSE f : AddEq(f, f0, f1)
           start == [row |-> 0, col |-> 0, s0 |-> Unread, s1 |-> Unread]
           rank == [at \in D |-> FishRank(f0, at.s0) + FishRank(f1, at.s1)]
           next == [at \in D |-> IF FishEnds(f0, f1, at) THEN at ELSE FishNext(f0, f1, at)]
           g == [at \in D |-> FromPlace(E, at.row, at.col)]
<1>1. AddEq(v, f0, f1)
  <2>1. \E f : AddEq(f, f0, f1)
    BY AddDefined
  <2> QED
    BY <2>1, Zenon
<1>2. add_frames(f0, f1) = v[start]
  BY Zenon DEF add_frames, AddEq
<1> HIDE DEF v
<1>3. \A at \in Adding(f0, f1) : v[at] = FishBody(v, f0, f1, at)
  <2>1. v = [at \in Adding(f0, f1) |-> FishBody(v, f0, f1, at)]
    BY <1>1, FishBodyIs, Zenon
  <2> QED
    BY <2>1
<1>4. start \in D
  <2>1. \A text \in Seq(C) : Unread \in Progress(text) /\ FishInv(text, Unread, 0, 0)
    <3> TAKE text \in Seq(C)
    <3>1. Unread = [pos |-> 0, c |-> "0", eof |-> FALSE] /\ "0" # NEWLINE
      BY DEF Unread, NEWLINE
    <3>2. Unread \in Progress(text)
      BY <3>1 DEF Progress
    <3>3. OnPlace(PlaceAfter(text, 0), 0, 0)
      BY PlaceAtStart DEF OnPlace
    <3> QED
      BY <3>1, <3>2, <3>3 DEF FishInv
  <2>2. start \in Adding(f0, f1)
    BY <2>1 DEF Adding
  <2>3. Inv(start)
    BY <2>1
  <2> HIDE DEF Inv, start
  <2> QED
    BY <2>2, <2>3
\* What a step does to the invariant and to what is left to show.
<1>5. ASSUME NEW at \in D
      PROVE  /\ FishEnds(f0, f1, at) => FromPlace(E, at.row, at.col) = {}
             /\ ~FishEnds(f0, f1, at) => Inv(FishNext(f0, f1, at))
             /\ FishRows(f0, f1, at) =>
                   FromPlace(E, at.row, at.col) = FromPlace(E, at.row + 1, 0)
             /\ ~FishRows(f0, f1, at) =>
                   FromPlace(E, at.row, at.col)
                     = FromPlace(E, at.row, at.col + 1) \union FishOwn(f0, f1, at)
  <2> DEFINE a == ReadOne(f0, at.s0)
             b == ReadOne(f1, at.s1)
             row == at.row
             col == at.col
             to == FishNext(f0, f1, at)
  <2>1. /\ row \in Nat /\ col \in Nat /\ at.s0 \in Progress(f0) /\ at.s1 \in Progress(f1)
        /\ FishInv(f0, at.s0, row, col) /\ FishInv(f1, at.s1, row, col)
    BY DEF Adding
  <2>2. a \in Progress(f0) /\ b \in Progress(f1)
    BY <2>1, FishProgress
  <2>3. FishRead(f0, a, row, col) /\ FishRead(f1, b, row, col)
    BY <2>1, FishReads
  <2>4. /\ FishRows(f0, f1, at) <=> a.c = NEWLINE /\ b.c = NEWLINE
        /\ FishEnds(f0, f1, at) <=> FishRows(f0, f1, at) /\ a.eof /\ b.eof
    BY DEF FishRows, FishEnds
  <2>5. to = IF FishRows(f0, f1, at)
               THEN [row |-> row + 1, col |-> 0, s0 |-> NextRow(a), s1 |-> NextRow(b)]
             ELSE [row |-> row, col |-> col + 1, s0 |-> a, s1 |-> b]
    BY DEF FishNext
  <2> DEFINE q == [row |-> row, col |-> col]
  <2>6. FishOwn(f0, f1, at) =
            IF Shown(a.c) = SPACE /\ Shown(b.c) = SPACE THEN {}
            ELSE {[row |-> row, col |-> col, on |-> Shown(a.c), off |-> Shown(b.c)]}
    BY Zenon DEF FishOwn, FishPlace
  <2>7. OwnPlace(f0, f1, row, col) =
            IF CharAt(f0, q) = SPACE /\ CharAt(f1, q) = SPACE THEN {}
            ELSE {[row |-> row, col |-> col, on |-> CharAt(f0, q), off |-> CharAt(f1, q)]}
    BY Zenon DEF OwnPlace
  <2> HIDE DEF a, b, row, col, to, E, D, Inv
  <2>8. /\ Shown(a.c) = CharAt(f0, q) /\ FishInv(f0, a, row, col + 1)
        /\ a.c = NEWLINE => FishInv(f0, NextRow(a), row + 1, 0)
    BY <2>1, <2>2, <2>3, FishShows
  <2>9. /\ Shown(b.c) = CharAt(f1, q) /\ FishInv(f1, b, row, col + 1)
        /\ b.c = NEWLINE => FishInv(f1, NextRow(b), row + 1, 0)
    BY <2>1, <2>2, <2>3, FishShows
  <2> HIDE DEF q
  <2>10. CASE FishRows(f0, f1, at)
    <3>1. /\ FromPlace(E, row, col) = FromPlace(E, row + 1, 0)
          /\ a.eof /\ b.eof => FromPlace(E, row, col) = {}
      BY <2>1, <2>2, <2>3, <2>4, <2>10, RowDone DEF E
    <3>2. /\ to.row = row + 1 /\ to.col = 0 /\ to.s0 = NextRow(a) /\ to.s1 = NextRow(b)
      BY <2>5, <2>10
    <3>3. Inv(to)
      BY <2>4, <2>8, <2>9, <2>10, <3>2 DEF Inv
    <3> QED
      BY <2>4, <2>10, <3>1, <3>3 DEF to, row, col
  <2>11. CASE ~FishRows(f0, f1, at)
    <3>1. FishOwn(f0, f1, at) = OwnPlace(f0, f1, row, col)
      BY <2>6, <2>7, <2>8, <2>9
    <3>2. FromPlace(E, row, col) = FromPlace(E, row, col + 1) \union OwnPlace(f0, f1, row, col)
      <4>1. Splits(f0, f1, row, col)
        BY <2>1, PlaceSplits
      <4> QED
        BY <4>1, Zenon DEF Splits, E
    <3>3. /\ to.row = row /\ to.col = col + 1 /\ to.s0 = a /\ to.s1 = b
      BY <2>5, <2>11
    <3>4. Inv(to)
      BY <2>8, <2>9, <3>3 DEF Inv
    <3>5. ~FishEnds(f0, f1, at)
      BY <2>4, <2>11
    <3> QED
      BY <2>11, <3>1, <3>2, <3>4, <3>5 DEF to, row, col
  <2> QED
    BY <2>10, <2>11
<1>6. ASSUME NEW at \in D
      PROVE  /\ next[at] \in D /\ rank[at] \in Nat
             /\ ~FishEnds(f0, f1, at) => next[at] = FishNext(f0, f1, at) /\ rank[next[at]] < rank[at]
  <2> DEFINE to == FishNext(f0, f1, at)
  <2>1. at \in Adding(f0, f1)
    OBVIOUS
  <2>2. /\ to \in Adding(f0, f1) /\ FishRank(f0, at.s0) + FishRank(f1, at.s1) \in Nat
        /\ LowerOrEnds(f0, f1, at, to)
    BY <2>1, FishSteps
  <2>3. ~FishEnds(f0, f1, at) => Inv(to)
    BY <1>5
  <2> HIDE DEF Inv, E
  <2>4. next[at] = IF FishEnds(f0, f1, at) THEN at ELSE to
    OBVIOUS
  <2> HIDE DEF to
  <2>5. CASE FishEnds(f0, f1, at)
    BY <2>2, <2>4, <2>5
  <2>6. CASE ~FishEnds(f0, f1, at)
    <3>1. to \in D
      BY <2>2, <2>3, <2>6
    <3>2. rank[to] < rank[at]
      BY <2>2, <2>6, <3>1 DEF LowerOrEnds
    <3> QED
      BY <2>2, <2>4, <2>6, <3>1, <3>2 DEF to
  <2> QED
    BY <2>5, <2>6
<1>7. rank \in [D -> Nat] /\ next \in [D -> D]
  <2>1. \A at \in D : FishRank(f0, at.s0) + FishRank(f1, at.s1) \in Nat
    BY FishSteps
  <2>2. \A at \in D : (IF FishEnds(f0, f1, at) THEN at ELSE FishNext(f0, f1, at)) \in D
    BY <1>6
  <2> HIDE DEF D
  <2> QED
    BY <2>1, <2>2
<1>8. SameOrSteps(D, rank, next, v, g)
  <2> SUFFICES ASSUME NEW at \in D
               PROVE  \/ v[at] = g[at]
                      \/ /\ rank[next[at]] < rank[at]
                         /\ v[next[at]] = g[next[at]] => v[at] = g[at]
    BY Zenon DEF SameOrSteps
  <2> DEFINE to == next[at]
  <2>1. at \in Adding(f0, f1)
    OBVIOUS
  <2>2. v[at] = FishBody(v, f0, f1, at)
    BY <1>3, <2>1
  <2>3. /\ to \in D
        /\ ~FishEnds(f0, f1, at) => to = FishNext(f0, f1, at) /\ rank[to] < rank[at]
    BY <1>6
  <2>4. /\ FishEnds(f0, f1, at) => FromPlace(E, at.row, at.col) = {}
        /\ FishRows(f0, f1, at) => FromPlace(E, at.row, at.col) = FromPlace(E, at.row + 1, 0)
        /\ ~FishRows(f0, f1, at) =>
              FromPlace(E, at.row, at.col)
                = FromPlace(E, at.row, at.col + 1) \union FishOwn(f0, f1, at)
    BY <1>5
  <2>5. g[at] = FromPlace(E, at.row, at.col) /\ g[to] = FromPlace(E, to.row, to.col)
    BY <2>3
  <2>6. /\ FishRows(f0, f1, at) => FishNext(f0, f1, at).row = at.row + 1 /\ FishNext(f0, f1, at).col = 0
        /\ ~FishRows(f0, f1, at) =>
              FishNext(f0, f1, at).row = at.row /\ FishNext(f0, f1, at).col = at.col + 1
    BY DEF FishNext
  <2> HIDE DEF D, E, Inv, g, rank, to
  <2>7. CASE FishEnds(f0, f1, at)
    <3>1. v[at] = {}
      BY <2>2, <2>7 DEF FishBody
    <3> QED
      BY <2>4, <2>5, <2>7, <3>1
  <2>8. CASE ~FishEnds(f0, f1, at) /\ FishRows(f0, f1, at)
    <3>1. v[at] = v[to]
      BY <2>2, <2>3, <2>8 DEF FishBody
    <3>2. g[at] = g[to]
      BY <2>3, <2>4, <2>5, <2>6, <2>8
    <3> QED
      BY <2>3, <2>8, <3>1, <3>2 DEF to
  <2>9. CASE ~FishEnds(f0, f1, at) /\ ~FishRows(f0, f1, at)
    <3>1. v[at] = v[to] \union FishOwn(f0, f1, at)
      BY <2>2, <2>3, <2>9 DEF FishBody
    <3>2. g[at] = g[to] \union FishOwn(f0, f1, at)
      BY <2>3, <2>4, <2>5, <2>6, <2>9
    <3> QED
      BY <2>3, <2>9, <3>1, <3>2 DEF to
  <2> QED
    BY <2>7, <2>8, <2>9
<1>9. g[start] = E
  <2>1. g[start] = FromPlace(E, 0, 0)
    BY <1>4
  <2>2. \A e \in E : e.row \in Nat /\ e.col \in Nat
    BY OverlaidIs
  <2> HIDE DEF E
  <2>3. FromPlace(E, 0, 0) = E
    BY <2>2 DEF FromPlace
  <2> QED
    BY <2>1, <2>3
<1> HIDE DEF D, rank, next, g
<1>10. Same(D, v, g)
  BY <1>7, <1>8, StepsAgree
<1>11. v[start] = g[start]
  BY <1>4, <1>10 DEF Same
<1> QED
  BY <1>2, <1>9, <1>11

\* So the programs show what they should of the image of a run and of the files overlaid.
THEOREM ProgramsShow == FilesSpec => []ProgramsShowFiles
<1> DEFINE C == {"x", SPACE, NEWLINE}
<1>1. ASSUME NEW f0 \in Upto(C, 4), NEW f1 \in Upto(C, 4)
      PROVE  add_frames(f0, f1) = Overlaid(f0, f1)
  <2> HIDE DEF C
  <2>1. f0 \in Seq(C) /\ f1 \in Seq(C)
    BY UptoSeq
  <2> QED
    BY <2>1, FishShowsBoth
<1>2. ls = [k \in 1 .. num_of_dirE |-> NameOf(dir_entries[k])]
  <2>1. \A k \in 1 .. num_of_dirE : NameIn(k) = NameOf(dir_entries[k])
    BY DEF NameIn, NameOf
  <2> QED
    BY <2>1, LsListsAll
<1>3. \A inode \in Inode, n \in 1 .. BLOCK - 1 : cat(inode, n) = Content(inode)
  BY CatPrintsAll
<1>4. ProgramsShowFiles
  BY <1>1, <1>2, <1>3, Zenon DEF ProgramsShowFiles, AtBoot, C
<1> QED
  BY <1>4, PTL
=============================================================================
