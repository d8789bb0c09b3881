------------------------------- MODULE Files -------------------------------
(***************************************************************************)
(* The descriptor tables: Processes together with FileSystem.  Every PCB   *)
(* has a table; a system call works on that of the process which is in the *)
(* foreground of the visible terminal.  execute sets its descriptors 0 and *)
(* 1 only, halt closes the others.  dir_offset is one for all.             *)
(*                                                                         *)
(* As everywhere a step is one system call, here of a system used in an    *)
(* orderly way (Processes!OrderlySpec).  Reads of the clock and of         *)
(* standard input change no descriptor.                                    *)
(***************************************************************************)
EXTENDS Processes, FileSystem

CONSTANTS
    FD_MAX,     \* descriptors of a process (8)
    Name,       \* the C strings that programs pass to open
    Chunk       \* the numbers of bytes that programs ask for in one read

FD_START == 2
Fd == 0 .. FD_MAX - 1

ASSUME FilesAssumption ==
    /\ FD_MAX \in Nat /\ FD_MAX >= FD_START
    /\ Chunk \subseteq Nat

VARIABLES
    fd_table,       \* of each PCB
    dir_offset,
    view            \* auxiliary: what the programs know of their descriptors, see View

fileVars == <<fd_table, dir_offset, view>>
allVars == <<vars, fileVars>>

\* A descriptor; fops_ptr is told by the table it points to.  flags = 0 is "closed",
\* and the other fields of a closed one are not read before open sets them again.
Descriptor == [fops : {"closed", "std_in", "std_out", "fops_rtc", "fops_dir", "fops_file"},
               inode : Inode \union {0}, file_pos : Nat]
Desc(fops, inode) == [fops |-> fops, inode |-> inode, file_pos |-> 0]
Closed == Desc("closed", 0)

\* How many names a directory descriptor gave since its listing began (counted to one
\* more than there are), whether no other descriptor's call came in between, and
\* whether the last read of a file descriptor asked for some bytes, less than a block,
\* and returned 0, which a program takes for the end of the file.
View == [given : 0 .. num_of_dirE + 1, quiet : BOOLEAN, ended : BOOLEAN]
Fresh == [given |-> 0, quiet |-> TRUE, ended |-> FALSE]

FilesInit ==
    /\ Init
    /\ fd_table = [p \in Pid |-> [fd \in Fd |-> Closed]]
    /\ dir_offset = 0
    /\ view = [p \in Pid |-> [fd \in Fd |-> Fresh]]

-----------------------------------------------------------------------------
(* The calls, as functions of the caller's table.                          *)

pcb_init(table) ==
    [table EXCEPT ![0] = Desc("std_in", 0), ![1] = Desc("std_out", 0)]

\* What open stores for an entry.
Opened(entry) ==
    IF entry.file_type = RTC_FTYPE THEN Desc("fops_rtc", 0)
    ELSE IF entry.file_type = DIR_FTYPE THEN Desc("fops_dir", 0)
    ELSE Desc("fops_file", entry.inode)

Free(table) == {fd \in FD_START .. FD_MAX - 1 : table[fd].fops = "closed"}

open(table, fname) ==
    LET entry == read_dentry_by_name(fname)
        fd == CHOOSE f \in Free(table) : \A g \in Free(table) : f <= g
    IN  IF strlen(fname) = 0 \/ entry = NotFound \/ Free(table) = {}
          THEN [ret |-> -1, table |-> table]
          ELSE [ret |-> fd, table |-> [table EXCEPT ![fd] = Opened(entry)]]

close(table, fd) ==
    IF fd \notin FD_START .. FD_MAX - 1 \/ table[fd].fops = "closed"
      THEN [ret |-> -1, table |-> table]
      ELSE [ret |-> 0, table |-> [table EXCEPT ![fd] = Closed]]

\* Which reads and writes return -1: of a number without descriptor, and where the
\* operations table has bad_call, dir_write or file_write.
HasDescriptor(table, fd) == fd \in Fd /\ table[fd].fops # "closed"
ReadFails(table, fd) == ~HasDescriptor(table, fd) \/ table[fd].fops = "std_out"
WriteFails(table, fd) ==
    ~HasDescriptor(table, fd) \/ table[fd].fops \in {"std_in", "fops_dir", "fops_file"}

\* Mutated form of CloseAll: the loop of halt ends one descriptor early.
CloseAllButLast(table) ==
    [fd \in Fd |-> IF fd \in FD_START .. FD_MAX - 2 THEN Closed ELSE table[fd]]

\* The loop of halt.
CloseAll(table) == [fd \in Fd |-> IF fd >= FD_START THEN Closed ELSE table[fd]]

\* Mutated form: the position moves by what was asked for.
AdvanceByAsked(d, n) == [d EXCEPT !.file_pos = @ + n]

\* file_read moves the position by the bytes that read_data says it copied.
file_read(d, n) == [d EXCEPT !.file_pos = @ + read_data(d.inode, d.file_pos, n).ret]

-----------------------------------------------------------------------------
(* Actions.                                                                *)

\* Mutated form of SetTable: the PCB is chosen by the number of the terminal.
SetTableOfTerminal(table) == fd_table' = [fd_table EXCEPT ![t_visible] = table]

MyTable == fd_table[Current]
SetTable(table) == fd_table' = [fd_table EXCEPT ![Current] = table]

\* dir_open and dir_read of descriptor fd use dir_offset: every other listing that is
\* going on is disturbed, and this one is left as v.
DisturbOthers(fd, v) ==
    view' = [p \in Pid |-> [f \in Fd |->
                IF p = Current /\ f = fd THEN v
                ELSE IF fd_table[p][f].fops = "fops_dir" THEN [view[p][f] EXCEPT !.quiet = FALSE]
                ELSE view[p][f]]]
SeeOnly(fd, v) == view' = [view EXCEPT ![Current][fd] = v]

Open(fname) ==
    LET r == open(MyTable, fname)
    IN  /\ r.ret # -1
        /\ SetTable(r.table)
        /\ IF r.table[r.ret].fops = "fops_dir"
             THEN dir_offset' = 0 /\ DisturbOthers(r.ret, Fresh)
             ELSE UNCHANGED dir_offset /\ SeeOnly(r.ret, Fresh)

Close(fd) ==
    /\ close(MyTable, fd).ret # -1
    /\ SetTable(close(MyTable, fd).table)
    /\ SeeOnly(fd, Fresh)
    /\ UNCHANGED dir_offset

ReadFile(fd, n) ==
    LET d == MyTable[fd]
    IN  /\ d.fops = "fops_file"
        /\ SetTable([MyTable EXCEPT ![fd] = file_read(d, n)])
        /\ SeeOnly(fd, [Fresh EXCEPT !.ended =
                          n \in 1 .. BLOCK - 1 /\ read_data(d.inode, d.file_pos, n).ret = 0])
        /\ UNCHANGED dir_offset

\* Mutated form: a listing does not start again after its end.
OnlyForward == dir_offset + 1

\* Where dir_read leaves the offset: after the last name it starts again.
NextOffset == IF dir_offset < num_of_dirE THEN dir_offset + 1 ELSE 0

ReadDir(fd) ==
    LET v == view[Current][fd]
    IN  /\ MyTable[fd].fops = "fops_dir"
        /\ dir_offset' = NextOffset
        /\ DisturbOthers(fd,
             IF dir_offset < num_of_dirE
               THEN [v EXCEPT !.given = Smaller(@ + 1, num_of_dirE + 1)]
               ELSE Fresh)
        /\ UNCHANGED fd_table

FileStep ==
    /\ Booted
    /\ \/ \E fname \in Name : Open(fname)
       \/ \E fd \in Fd : Close(fd) \/ ReadDir(fd) \/ \E n \in Chunk : ReadFile(fd, n)
    /\ UNCHANGED vars

\* execute, at boot, as a call, or for a terminal's first shell.
StartStep ==
    /\ Boot \/ Execute \/ \E k \in Terminal : OrderlyLaunch(k)
    /\ fd_table' = [fd_table EXCEPT ![Current'] = pcb_init(@)]
    /\ UNCHANGED <<dir_offset, view>>

\* halt closes the descriptors first; a base shell's halt then goes on with an execute.
HaltStep ==
    LET closed == [fd_table EXCEPT ![Current] = CloseAll(@)]
    IN  /\ \/ HaltToParent /\ fd_table' = closed
           \/ HaltBaseShell /\ fd_table' = [closed EXCEPT ![Current'] = pcb_init(@)]
        /\ view' = [view EXCEPT ![Current] = [fd \in Fd |-> Fresh]]
        /\ UNCHANGED dir_offset

SwitchStep ==
    /\ \E k \in Terminal : SwitchDisplay(k)
    /\ UNCHANGED fileVars

FilesNext == FileStep \/ StartStep \/ HaltStep \/ SwitchStep

FilesSpec == FilesInit /\ [][FilesNext]_allVars

-----------------------------------------------------------------------------
(* Properties.                                                             *)

\* The values the variables range over.
FilesTypeOK ==
    /\ fd_table \in [Pid -> [Fd -> Descriptor]]
    /\ dir_offset \in 0 .. num_of_dirE
    /\ view \in [Pid -> [Fd -> View]]

\* Whatever was opened, halted, restarted and launched before, a slot that execute can
\* take has no open descriptor from 2 on: the program starts with the standard ones.
FreeSlotsClosed ==
    \A p \in Pid \ InUse : \A fd \in Fd : fd >= FD_START => fd_table[p][fd] = Closed

\* A call changes the descriptors of no other process, hidden or waiting for a child.
OnlyOwnDescriptors ==
    [][\A p \in InUse : fd_table'[p] # fd_table[p] => p = cpu]_allVars

\* A program's position never passes the end of its file.
PositionWithinFile ==
    \A p \in Pid : \A fd \in Fd :
        fd_table[p][fd].fops = "fops_file" =>
            fd_table[p][fd].file_pos <= inode_arr[fd_table[p][fd].inode].length

\* A read of less than a block that returns 0, which ends the loop of every program that
\* reads a file, came at the end of the file.  (A longer one may return 0 although it
\* copied bytes: a copy that ends with a block leaves read_data's loop at its bottom.)
EndOnlyAtEnd ==
    \A p \in Pid : \A fd \in Fd :
        view[p][fd].ended => fd_table[p][fd].file_pos = inode_arr[fd_table[p][fd].inode].length

\* A listing that no other directory call came between has given exactly the entries
\* before dir_offset: it will give each name once, in order, and then end.
ListsEachOnce ==
    \A p \in Pid : \A fd \in Fd :
        fd_table[p][fd].fops = "fops_dir" /\ view[p][fd].quiet => view[p][fd].given = dir_offset
=============================================================================
