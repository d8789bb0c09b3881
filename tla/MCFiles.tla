------------------------------ MODULE MCFiles ------------------------------
(* A small image, the descriptor tables over it, and the pure functions of  *)
(* the file system, the command line and the programs over bounded inputs.  *)
EXTENDS UserPrograms, MCImage

Names == {CString(<<".">>), CString(<<"a", "b", "c">>),
          CString(<<"a">>), CString(<<"a", "b", "c", "d">>), CString(<<>>)}

\* What only depends on the constants is evaluated once, before the first shell.
AtBoot(P) == Booted \/ P

\* The sequences over S with at most n members.
Upto(S, n) == UNION {[1 .. k -> S] : k \in 0 .. n}

-----------------------------------------------------------------------------
(* The string library.                                                     *)

\* memmove copies as if it read everything before it wrote, wherever the two regions
\* overlap; memcpy does when they do not overlap or the destination is below the source,
\* and memset fills exactly its region, whatever parts of them are not aligned.
MovesMemory ==
    AtBoot(
      LET m == [address \in 0 .. 15 |-> address + 300]
      IN  \A dest, src \in 0 .. 7, n \in 0 .. 8 :
              /\ memmove(m, dest, src, n) = Moved(m, dest, src, n)
              /\ dest <= src \/ src + n <= dest =>
                     memcpy(m, dest, src, n) = Moved(m, dest, src, n)
              /\ memset(m, dest, 256 + src, n) = Filled(m, dest, src, n))

\* The number that digits stand for.
Number(digits, radix) ==
    LET Value[k \in 0 .. Len(digits)] ==
            IF k = 0 THEN 0
            ELSE Value[k - 1] * radix + (CHOOSE d \in 0 .. 15 : Digit[d + 1] = digits[k])
    IN  Value[Len(digits)]

Sample == 0 .. 40 \union {255, 256, 4095, 4096, 99999, 2147483647}

\* printf prints a number as its digits without leading zeroes, and with # as eight
\* hexadecimal digits, and each conversion takes the argument that belongs to it.
PrintsNumbers ==
    AtBoot(
      \A n \in Sample :
          LET plain == itoa(n, 16)
              text == printf(<< <<"%", "d">>, <<":">>, <<"%", "%">>, <<"%", "#x">>, <<"%", "u">> >>,
                             <<-n, n, n>>)
              signed == itoa(n, 10)
          IN  /\ Number(plain, 16) = n /\ Number(signed, 10) = n
              /\ n > 0 => plain[1] # "0" /\ signed[1] # "0"
              /\ Len(Hex8(n)) = 8 /\ Number(Hex8(n), 16) = n
              /\ text = (IF n > 0 THEN <<"-">> ELSE <<>>) \o signed \o <<":", "%">>
                        \o Hex8(n) \o signed)

-----------------------------------------------------------------------------
(* The file system.                                                        *)

\* Whatever part of a file is asked for, the buffer gets exactly the bytes of that part
\* which the file has, across blocks, and a read shorter than a block returns their number.
CopiesExactly ==
    AtBoot(
      \A inode \in Inode, offset \in 0 .. 7, length \in 0 .. 7 :
          LET r == read_data(inode, offset, length)
              part == SubSeq(Content(inode), offset + 1, Smaller(offset + length, Len(Content(inode))))
          IN  r.bytes = part /\ (length < BLOCK => r.ret = Len(part)))

\* A search finds the entry with exactly that name, also next to names that begin the
\* same way or fill their field, and never an unused entry or one for a longer name.
FindsExactName ==
    AtBoot(
      \A text \in Upto({"a", "b", "c", "r", "t", "."}, 4) \ {<<>>} :
          LET found == read_dentry_by_name(CString(text))
              named == {k \in 1 .. num_of_dirE : NameOf(dir_entries[k]) = text}
          IN  IF named = {} THEN found = NotFound
              ELSE found # NotFound /\ NameOf(found) = text)

-----------------------------------------------------------------------------
(* Programs.                                                               *)

\* The tests of syserr pass for a program that execute starts in any free slot, whatever
\* was left in its table before.
SysErrPasses ==
    LET dot == CString(<<".">>)
        longer == CString(<<"a", "b", "c", "d">>)
        shorter == CString(<<"a">>)
    IN  \A p \in Pid \ InUse :
            LET table == pcb_init(fd_table[p])
            IN  /\ err_neg_fd(table) /\ err_big_fd(table)
                /\ err_open_lots(table, dot) /\ err_open(table, longer, shorter)
                /\ err_unopened(table) /\ err_stdin_out(table)
                /\ err_vidmap /\ err_syscall_num

\* The line that starts behind the first p characters of a text, and the lines from there
\* on that have the pattern in them.
LineFrom(text, p) ==
    SubSeq(text, p + 1,
        CHOOSE e \in p .. Len(text) :
            /\ e = Len(text) \/ text[e + 1] = NEWLINE
            /\ \A k \in p + 1 .. e : text[k] # NEWLINE)
MatchingLines(text, pattern) ==
    LET From[p \in 0 .. Len(text) + 1] ==
            LET line == LineFrom(text, p)
            IN  IF p > Len(text) THEN <<>>
                ELSE (IF LineMatches(line, pattern) THEN <<line>> ELSE <<>>)
                     \o From[p + Len(line) + 1]
    IN  From[0]

\* Where a text is after p characters: how many lines ended, and how many characters the
\* last line has then.
LineStart(text, p) ==
    CHOOSE s \in 0 .. p : /\ s = 0 \/ text[s] = NEWLINE
                          /\ \A k \in s + 1 .. p : text[k] # NEWLINE
PlaceAfter(text, p) ==
    [row |-> Cardinality({k \in 1 .. p : text[k] = NEWLINE}), col |-> p - LineStart(text, p)]

\* The character that a text has at a place, a blank where it has none, and the places
\* where it has another one than a blank.
CharAt(text, q) ==
    LET There == {k \in 1 .. Len(text) : text[k] # NEWLINE /\ PlaceAfter(text, k - 1) = q}
    IN  IF There = {} THEN SPACE ELSE text[CHOOSE k \in There : TRUE]
Marked(text) ==
    {PlaceAfter(text, k - 1) : k \in {j \in 1 .. Len(text) : text[j] \notin {SPACE, NEWLINE}}}
Overlaid(f0, f1) ==
    {[row |-> q.row, col |-> q.col, on |-> CharAt(f0, q), off |-> CharAt(f1, q)] :
        q \in Marked(f0) \union Marked(f1)}

\* ls prints the name of every entry in use, in order, and no other; cat prints the whole
\* file, whatever part of a block its buffer holds; and fish shows at every place exactly
\* what its two files have there, whichever has more lines or longer ones.
ProgramsShowFiles ==
    AtBoot(
      /\ ls = [k \in 1 .. num_of_dirE |-> NameOf(dir_entries[k])]
      /\ \A inode \in Inode, n \in 1 .. BLOCK - 1 : cat(inode, n) = Content(inode)
      /\ \A f0, f1 \in Upto({"x", SPACE, NEWLINE}, 4) : add_frames(f0, f1) = Overlaid(f0, f1))

\* grep prints every line that has the pattern in it, once and in order, wherever the
\* ends of its reads cut the lines, provided that each line fits into its buffer.
GrepFindsEveryLine ==
    AtBoot(
      \A text \in Upto({"a", "b", NEWLINE}, 7), size \in 3 .. 4 :
          (\A p \in 0 .. Len(text) : Len(LineFrom(text, p)) < size) =>
              do_one_file(text, <<"a", "b">>, size) = MatchingLines(text, <<"a", "b">>))

-----------------------------------------------------------------------------
(* Commands.                                                               *)

Word == {w \in Upto({"a", "g"}, CMD_MAX_LEN + 1) : w # <<>>}
Argument == {a \in Upto({"a", SPACE}, 2) : a = <<>> \/ a[1] # SPACE}

\* execute takes a command that begins with its name apart as it was typed, spaces in the
\* argument kept, whatever the stack holds; it refuses exactly what is too long for its
\* buffers and a grep without argument.
TakenApartAsTyped ==
    AtBoot(
      \A w \in Word, gap \in 0 .. 2, a \in Argument, junk \in Junk({"x", NUL}),
         end \in {<<>>, <<NEWLINE>>} :
          LET parsed == Parse(CString(w \o Gap(gap) \o a \o end), junk)
              typed == gap > 0 \/ a = <<>>
              toolong == Len(w) > CMD_MAX_LEN \/ Len(w) + gap + Len(a) > MAX_KBUFF_LEN
          IN  typed =>
                IF toolong \/ (a = <<>> /\ w[1] = "g") THEN parsed = Refused
                ELSE parsed.ok /\ Text(parsed.argb) = a /\ Text(parsed.exec) = w)

\* getargs gives back the argument that execute copied over an older one, exactly when it
\* and its NUL fit, and fails otherwise without touching the buffer.
ArgumentComesBack ==
    AtBoot(
      \A old, a \in Argument, nbytes \in -1 .. 4 :
          LET buf == [k \in 1 .. 4 |-> "x"]
              arg == strcpy([k \in 1 .. 4 |-> IF k <= Len(old) THEN old[k] ELSE NUL], CString(a))
              r == getargs(arg, buf, nbytes)
          IN  IF Len(a) < nbytes THEN r.ret = 0 /\ Text(r.buf) = a
              ELSE r.ret = -1 /\ r.buf = buf)

\* The shell prints that there is no such command exactly when the line names no file that
\* begins like an executable, whatever the program's status and the stack, and that an
\* exception ended the program after every exception (and after a status whose byte is 255).
\* It is about lines that name no file shorter than the mark of an executable.
ShellTellsOutcome ==
    AtBoot(
      \A w \in Upto({"a", "b", "c", "."}, 3) \ {<<>>}, gap \in 0 .. 1, end \in {<<>>, <<NEWLINE>>},
         status \in {0, 1, 255, 256, 511, -1}, raised \in BOOLEAN, buffer \in {Magic, Gap(4)} :
          LET answer == shell(w \o Gap(gap) \o end, IF raised THEN exception ELSE halt(status),
                              [k \in 1 .. CMD_MAX_LEN + 1 |-> "x"], buffer)
              named == {k \in 1 .. num_of_dirE : NameOf(dir_entries[k]) = w}
              FileOf(k) == Content(dir_entries[k].inode)
          IN  (\A k \in named : Len(Magic) <= Len(FileOf(k))) =>
                answer = IF w = Exit /\ gap = 0 THEN "return"
                         ELSE IF ~\E k \in named : Executable(FileOf(k)) THEN "no_such_command"
                         ELSE IF raised \/ status % 256 = 255 THEN "terminated_by_exception"
                         ELSE IF status % 256 = 0 THEN "next_line"
                         ELSE "terminated_abnormally")
=============================================================================
