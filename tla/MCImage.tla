------------------------------ MODULE MCImage ------------------------------
(* A small image of a file system, what its entries and files are, and what  *)
(* the kernel's stack and a command may hold.                                *)
EXTENDS Shell, TLC

\* The image: the directory, the clock, a file whose name fills its field and ends in
\* the middle of its second block, one of exactly two blocks, and an unused entry.
Directory ==
    LET Entry(name, type, inode) == [file_name |-> name, file_type |-> type, inode |-> inode]
    IN  << Entry(<<".", NUL, NUL>>, DIR_FTYPE, 0),
           Entry(<<"a", "b", "c">>, FILE_FTYPE, 1),
           Entry(<<"a", "b", NUL>>, FILE_FTYPE, 2),
           Entry(<<"r", "t", NUL>>, RTC_FTYPE, 0),
           Entry(<<NUL, NUL, NUL>>, RTC_FTYPE, 0) >>
Inodes == 0 :> [length |-> 0, dblk |-> <<>>] @@ 1 :> [length |-> 4, dblk |-> <<2, 0>>]
          @@ 2 :> [length |-> 6, dblk |-> <<1, 3>>]
Blocks == 0 :> <<"d", "\n", "?">> @@ 1 :> <<"p", "q", "r">>
          @@ 2 :> <<"a", "b", "c">> @@ 3 :> <<"s", "t", "u">>
GrepName == <<"g">>
FirstBytes == <<"p", "q", "r", "s">>
ExitName == <<"b", "b">>

\* The bytes of a file, block after block.
Content(inode) ==
    [k \in 1 .. inode_arr[inode].length |->
        data_arr[inode_arr[inode].dblk[(k - 1) \div BLOCK + 1]][((k - 1) % BLOCK) + 1]]

NameOf(entry) == Text(CString(entry.file_name))

\* A text that begins like an executable.
Executable(text) == Len(Magic) <= Len(text) /\ SubSeq(text, 1, Len(Magic)) = Magic

\* What the stack may hold where execute's exec[] comes to stand: one character of a set.
Junk(S) == {[k \in 1 .. CMD_MAX_LEN + 1 |-> c] : c \in S}
Gap(n) == [k \in 1 .. n |-> SPACE]
=============================================================================
