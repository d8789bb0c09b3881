----------------------------- MODULE FileSystem -----------------------------
(***************************************************************************)
(* The read-only file system image: search of a name, an entry by its      *)
(* number, and the copy of a part of a file out of its data blocks.        *)
(***************************************************************************)
EXTENDS StringLibrary

CONSTANTS
    NAME_SIZE,          \* bytes of a name; a name that fills them has no NUL (32)
    BLOCK,              \* bytes of a data block (4096)
    dir_entries,        \* the entries of the boot block, those not in use included
    num_of_dirE,        \* how many are in use, the first ones
    inode_arr,          \* of an inode number: [length, dblk]
    data_arr            \* of a data block number: its bytes

RTC_FTYPE == 0
DIR_FTYPE == 1
FILE_FTYPE == 2

\* Inodes are numbered from 0, and so are the entries in the code; dir_entries and dblk
\* are sequences here.
Inode == DOMAIN inode_arr

\* An entry not in use is all zero: no name, type 0, inode 0.
ASSUME ImageAssumption ==
    /\ NAME_SIZE \in Nat /\ BLOCK \in Nat \ {0}
    /\ Len(dir_entries) \in Nat
    /\ num_of_dirE \in 0 .. Len(dir_entries)
    /\ \A i \in Inode : inode_arr[i].length \in Nat
    /\ \A k \in 1 .. Len(dir_entries) :
          /\ dir_entries[k].file_type \in {RTC_FTYPE, DIR_FTYPE, FILE_FTYPE}
          /\ dir_entries[k].inode \in Inode
          /\ dir_entries[k].file_name \in [1 .. NAME_SIZE -> STRING]
          /\ k > num_of_dirE => \A j \in 1 .. NAME_SIZE : dir_entries[k].file_name[j] = NUL

NotFound == [file_type |-> -1]

-----------------------------------------------------------------------------
(* Names.                                                                  *)

\* Mutated form: the NUL is not compared.
WithoutNul(fname) == strlen(fname)

\* How many characters the search compares: with the NUL, unless the name fills the field.
Compared(fname) == IF strlen(fname) = NAME_SIZE THEN NAME_SIZE ELSE strlen(fname) + 1

\* The first entry whose name is fname.
read_dentry_by_name(fname) ==
    LET Matches == {k \in 1 .. Len(dir_entries) :
                        SamePrefix(fname, dir_entries[k].file_name, Compared(fname))}
    IN  IF strlen(fname) > NAME_SIZE \/ Matches = {} THEN NotFound
        ELSE dir_entries[CHOOSE k \in Matches : \A j \in Matches : k <= j]

\* Mutated form: one entry too many.
OneEntryMore(index) ==
    IF index > num_of_dirE THEN NotFound ELSE dir_entries[index + 1]

read_dentry_by_index(index) ==
    IF index >= num_of_dirE THEN NotFound ELSE dir_entries[index + 1]

\* What dir_read gives of a name: a name without NUL runs on into the next field, and
\* the result is cut to NAME_SIZE.
NameRead(entry) == SubSeq(entry.file_name, 1, Smaller(strlen(CString(entry.file_name)), NAME_SIZE))

-----------------------------------------------------------------------------
(* Data.                                                                   *)

\* Mutated form of Rest: the offset is not taken off.
WholeLength(filesize, offset, length) == Smaller(length, filesize)

\* The length asked for, cut at the end of the file.
Rest(filesize, offset, length) ==
    IF length + offset > filesize THEN filesize - offset ELSE length

\* Where the loop of read_data is: left bytes to go, at block number cur of the inode.
\* Only the first block may be entered in its middle, which the code knows by offset # 0.
Place == [inode : Inode, left : Nat, cur : Nat, offset : Nat]
BlockAt(at) == data_arr[inode_arr[at.inode].dblk[at.cur + 1]]
StartAt(at) == IF at.offset # 0 THEN at.offset % BLOCK ELSE 0

\* Whether the rest of the block is copied and the loop goes on; else it returns.
GoesOn(at) == IF at.offset # 0 THEN BLOCK - StartAt(at) < at.left ELSE at.left >= BLOCK
NextPlace(at) ==
    [inode |-> at.inode, left |-> at.left - (BLOCK - StartAt(at)), cur |-> at.cur + 1, offset |-> 0]

\* What the loop copies from a place on, and whether it was left by "return length".
Copied[at \in Place] ==
    IF at.left = 0 THEN [bytes |-> <<>>, returned |-> FALSE]
    ELSE IF GoesOn(at)
      THEN [bytes |-> SubSeq(BlockAt(at), StartAt(at) + 1, BLOCK) \o Copied[NextPlace(at)].bytes,
            returned |-> Copied[NextPlace(at)].returned]
    ELSE [bytes |-> SubSeq(BlockAt(at), StartAt(at) + 1, StartAt(at) + at.left),
          returned |-> TRUE]

\* What read_data returns and what it puts into the buffer.
read_data(inode, offset, length) ==
    IF inode \notin Inode THEN [ret |-> -1, bytes |-> <<>>]
    ELSE LET n == Rest(inode_arr[inode].length, offset, length)
             copy == Copied[[inode |-> inode, left |-> n, cur |-> offset \div BLOCK,
                             offset |-> offset]]
         IN  IF offset >= inode_arr[inode].length THEN [ret |-> 0, bytes |-> <<>>]
             ELSE [ret |-> IF copy.returned THEN n ELSE 0, bytes |-> copy.bytes]
=============================================================================
