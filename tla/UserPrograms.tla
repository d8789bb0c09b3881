---------------------------- MODULE UserPrograms ----------------------------
(***************************************************************************)
(* Programs that come with the kernel, as functions of what their system   *)
(* calls return: the tests of syserr, ls, cat, grep and fish.  A program   *)
(* gets a table as pcb_init leaves it.                                     *)
(***************************************************************************)
EXTENDS Files

\* Calls that change no descriptor: the range that the system call linkage admits, and
\* the addresses that vidmap accepts, those of the program page.
_128_MB == 134217728
_132_MB == 138412032
Dispatches(num) == num \in 1 .. 10
VidmapAccepts(screen_start) == screen_start >= _128_MB /\ screen_start <= _132_MB - 4

-----------------------------------------------------------------------------
(* syserr.  A test passes on a table when every call returns -1 that shall.*)

NEG_FD == -1073741823
BIG_FD == 1073741823

err_bad_fd(table, fd) ==
    ReadFails(table, fd) /\ WriteFails(table, fd) /\ close(table, fd).ret = -1
err_neg_fd(table) == err_bad_fd(table, NEG_FD)
err_big_fd(table) == err_bad_fd(table, BIG_FD)

\* Opens the directory once more than there are descriptors: exactly one call fails.
Opening == [left : 0 .. FD_MAX - FD_START + 1, table : [Fd -> Descriptor]]
err_open_lots(table, dot) ==
    LET Fails[at \in Opening] ==
            IF at.left = 0 THEN 0
            ELSE LET r == open(at.table, dot)
                 IN  (IF r.ret = -1 THEN 1 ELSE 0) + Fails[[left |-> at.left - 1, table |-> r.table]]
    IN  Fails[[left |-> FD_MAX - FD_START + 1, table |-> table]] = 1

\* A name with one character more, one with one less, and no name.
err_open(table, longer, shorter) ==
    \A fname \in {longer, shorter, <<NUL>>} : open(table, fname).ret = -1

err_unopened(table) ==
    /\ \A fd \in Fd : close(table, fd).ret = -1
    /\ \A fd \in FD_START .. FD_MAX - 1 : ReadFails(table, fd) /\ WriteFails(table, fd)

err_vidmap == ~VidmapAccepts(0) /\ ~VidmapAccepts(4194304)
err_stdin_out(table) == WriteFails(table, 0) /\ ReadFails(table, 1)
err_syscall_num == \A num \in {BIG_FD, NEG_FD, 0} : ~Dispatches(num)

-----------------------------------------------------------------------------
(* ls, cat and grep.                                                       *)

\* The names that ls prints when it lists alone, from the offset that dir_open sets.
ls ==
    LET List[offset \in Nat] ==
            LET entry == read_dentry_by_index(offset)
            IN  IF entry = NotFound THEN <<>>
                ELSE <<NameRead(entry)>> \o List[offset + 1]
    IN  List[0]

\* What cat prints of a file that it reads by n bytes.
cat(inode, n) ==
    LET From[pos \in Nat] ==
            LET r == read_data(inode, pos, n)
            IN  IF r.ret = 0 THEN <<>> ELSE SubSeq(r.bytes, 1, r.ret) \o From[pos + r.ret]
    IN  From[0]

\* Whether s begins with the characters of pattern.
ece391_strncmp(s, pattern) == Len(pattern) <= Len(s) /\ SubSeq(s, 1, Len(pattern)) = pattern
LineMatches(line, pattern) ==
    \E check \in 1 .. Len(line) : ece391_strncmp(SubSeq(line, check, Len(line)), pattern)

\* Mutated form of KeepsPartialLine: the rest of a buffer is always searched as it is.
NeverKeeps(ends, cnt, line_start) == FALSE

\* When the last characters in the buffer wait for the rest of their line.
KeepsPartialLine(ends, cnt, line_start) == ~ends /\ cnt # 0 /\ line_start # 0

\* The buffer of size bytes that grep reads into: the data in it, how much of that the
\* last read brought, how much of the text was read so far, and where the line starts.
Searching(text, size) ==
    {at \in [data : Seq({text[k] : k \in 1 .. Len(text)}), cnt : Nat,
             pos : 0 .. Len(text), from : Nat] : Len(at.data) <= size}
Refill(text, size, kept, pos) ==
    LET cnt == Smaller(size - Len(kept), Len(text) - pos)
    IN  [data |-> kept \o SubSeq(text, pos + 1, pos + cnt), cnt |-> cnt,
         pos |-> pos + cnt, from |-> 0]

\* The line that starts there.  What is behind the data is taken for no newline.
EndsIn(at) == {k \in at.from .. Len(at.data) - 1 : at.data[k + 1] = NEWLINE}
LineEnd(at) ==
    IF EndsIn(at) = {} THEN Len(at.data)
    ELSE CHOOSE k \in EndsIn(at) : \A j \in EndsIn(at) : k <= j
LineOf(at) == SubSeq(at.data, at.from + 1, LineEnd(at))
NextLine(at) == [data |-> at.data, cnt |-> at.cnt, pos |-> at.pos, from |-> LineEnd(at) + 1]

\* grep's do_one_file: the lines that it prints.
do_one_file(text, pattern, size) ==
    LET Search[at \in Searching(text, size)] ==
            LET found == IF LineMatches(LineOf(at), pattern) THEN <<LineOf(at)>> ELSE <<>>
            IN  IF KeepsPartialLine(EndsIn(at) # {}, at.cnt, at.from)
                  THEN Search[Refill(text, size, LineOf(at), at.pos)]
                ELSE IF LineEnd(at) + 1 < Len(at.data) THEN found \o Search[NextLine(at)]
                ELSE IF at.cnt = 0 THEN found
                ELSE found \o Search[Refill(text, size, <<>>, at.pos)]
    IN  Search[Refill(text, size, <<>>, 0)]

-----------------------------------------------------------------------------
(* fish: two files laid over each other.                                   *)

\* One of the files: how much of it was read, the last character, and whether it ended.
Progress(file) ==
    {s \in [pos : 0 .. Len(file), c : {file[k] : k \in 1 .. Len(file)} \union {"0", NEWLINE},
            eof : BOOLEAN] : s.eof => s.c = NEWLINE}
Unread == [pos |-> 0, c |-> "0", eof |-> FALSE]

\* A file waits at the end of its line, and at its own end, for the other one.
ReadOne(file, s) ==
    IF s.c = NEWLINE THEN s
    ELSE IF s.pos < Len(file) THEN [pos |-> s.pos + 1, c |-> file[s.pos + 1], eof |-> FALSE]
    ELSE [pos |-> s.pos, c |-> NEWLINE, eof |-> TRUE]
NextRow(s) == IF s.eof THEN s ELSE [pos |-> s.pos, c |-> "0", eof |-> FALSE]

\* Mutated form of Shown: the end of a line is put on the screen.
AsRead(c) == c

\* What a file shows that has nothing, or nothing more, in a row.
Shown(c) == IF c = NEWLINE THEN SPACE ELSE c

\* The places that add_frames adds, each with the characters that it shows in turn.
Adding(f0, f1) == [row : Nat, col : Nat, s0 : Progress(f0), s1 : Progress(f1)]
add_frames(f0, f1) ==
    LET Add[at \in Adding(f0, f1)] ==
            LET a == ReadOne(f0, at.s0)
                b == ReadOne(f1, at.s1)
                place == [row |-> at.row, col |-> at.col, on |-> Shown(a.c), off |-> Shown(b.c)]
                below == [row |-> at.row + 1, col |-> 0, s0 |-> NextRow(a), s1 |-> NextRow(b)]
                right == [row |-> at.row, col |-> at.col + 1, s0 |-> a, s1 |-> b]
            IN  IF a.c = NEWLINE /\ b.c = NEWLINE
                  THEN IF a.eof /\ b.eof THEN {} ELSE Add[below]
                ELSE Add[right] \union
                     (IF place.on = SPACE /\ place.off = SPACE THEN {} ELSE {place})
    IN  Add[[row |-> 0, col |-> 0, s0 |-> Unread, s1 |-> Unread]]
=============================================================================
