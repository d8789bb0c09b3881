---------------------------- MODULE CommandLine ----------------------------
(***************************************************************************)
(* How execute takes a command apart, and what getargs gives back of it.   *)
(* A command is a C string; its bytes are counted from 0 as in the code,   *)
(* so command[i] is command[i + 1] here.                                   *)
(***************************************************************************)
EXTENDS StringLibrary

CONSTANTS
    CMD_MAX_LEN,    \* (32)
    MAX_KBUFF_LEN,  \* (128)
    Grep            \* the name that needs an argument

INDEX_RANGE == 256  \* the indices into a command are bytes

\* The first place from i on where a character of S is found, or one not in S.
FirstIn(command, i, S) ==
    CHOOSE k \in i .. Len(command) - 1 :
        command[k + 1] \in S /\ \A j \in i .. k - 1 : command[j + 1] \notin S
FirstNotIn(command, i, S) ==
    CHOOSE k \in i .. Len(command) - 1 :
        command[k + 1] \notin S /\ \A j \in i .. k - 1 : command[j + 1] \in S

\* Where execute puts the NUL that ends the name, which stood at first .. end - 1 in the
\* command and is copied to 0 .. end - first - 1.
Terminator(first, end) == end

\* exec[], on a stack that held junk.
NameCopied(command, first, end, junk) ==
    [k \in 1 .. CMD_MAX_LEN + 1 |->
        IF k <= end - first THEN command[first + k]
        ELSE IF k = Terminator(first, end) + 1 THEN NUL
        ELSE junk[k]]

\* Mutated form of ArgumentEnd: spaces end the argument.
FirstWordEnd(command, i) == FirstIn(command, i, {NUL, NEWLINE, SPACE})

ArgumentEnd(command, i) == FirstIn(command, i, {NUL, NEWLINE})

\* What becomes of a command that is not taken apart: execute returns, or nothing is said of
\* what it does, as its indices can wrap or the argument is written past the end of argb.
Refused == [ok |-> FALSE, defined |-> TRUE]
Undefined == [ok |-> FALSE, defined |-> FALSE]

\* The program and the argument that execute goes on with.
Parse(command, junk) ==
    LET first == FirstNotIn(command, 0, {SPACE})
        end == FirstIn(command, first, {SPACE, NUL, NEWLINE})
        arg_start == FirstNotIn(command, end, {SPACE})
        arg_end == ArgumentEnd(command, arg_start)
        exec == NameCopied(command, first, end, junk)
        argb == CString(SubSeq(command, arg_start + 1, arg_end))
        noArgument == strlen(argb) = 0 /\ SubSeq(exec, 1, Len(Grep)) = Grep
    IN  IF Len(command) > INDEX_RANGE THEN Undefined
        ELSE IF end > CMD_MAX_LEN \/ arg_end > MAX_KBUFF_LEN THEN Refused
        ELSE IF arg_end - arg_start > CMD_MAX_LEN THEN Undefined
        ELSE IF noArgument THEN Refused
        ELSE [ok |-> TRUE, exec |-> exec, argb |-> argb]

\* Mutated form of getargs: no place is left for the NUL.
WithoutPlaceForNul(arg, buf, nbytes) ==
    IF nbytes <= 0 \/ strlen(arg) > nbytes
      THEN [ret |-> -1, buf |-> buf]
      ELSE [ret |-> 0, buf |-> strncpy(buf, arg, nbytes)]

\* pcb->arg after a command, and the buffer of nbytes that getargs fills from it.  (Its
\* test of pcb->arg itself compares an address.)
getargs(arg, buf, nbytes) ==
    IF nbytes <= 0 \/ strlen(arg) + 1 > nbytes
      THEN [ret |-> -1, buf |-> buf]
      ELSE [ret |-> 0, buf |-> strncpy(buf, arg, nbytes)]
=============================================================================
