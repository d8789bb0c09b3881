------------------------------- MODULE Shell -------------------------------
(***************************************************************************)
(* One turn of the shell: a line that it read, the program that execute    *)
(* finds for it, how that program ends, and what the shell says of it.     *)
(* Whether a slot is free for the program is the matter of Processes.      *)
(***************************************************************************)
EXTENDS FileSystem, CommandLine

CONSTANTS
    Magic,      \* the first bytes of an executable, as many as execute reads (4)
    Exit        \* the command that ends the shell

-----------------------------------------------------------------------------
(* How programs end.                                                       *)

USER_PROG_CODE == 255

\* Mutated form of halt: nothing is added for an exception.
WithoutMark(status) == status % 256

\* What the parent's execute returns: the status is a byte, and the one that the handlers
\* of exceptions use is moved out of its range.
halt(status) ==
    LET byte == status % 256 IN IF byte = USER_PROG_CODE THEN byte + 1 ELSE byte

\* Each handler prints its name and halts the program.
exception == halt(USER_PROG_CODE)

-----------------------------------------------------------------------------
(* execute, and the shell around it.                                       *)

\* Whether execute takes a file for a program.  Of one that is shorter than Magic, bytes
\* that stood in the buffer before are tested as well.
IsExecutable(exec, buffer) ==
    LET entry == read_dentry_by_name(exec)
        bytes == read_data(entry.inode, 0, Len(Magic)).bytes
    IN  /\ entry # NotFound
        /\ Magic = [k \in DOMAIN Magic |-> IF k <= Len(bytes) THEN bytes[k] ELSE buffer[k]]

\* It stands for what execute returns where what it does is undefined.
UNKNOWN == -2

\* ended is what the program hands over by halt or an exception.
execute(command, ended, junk, buffer) ==
    LET parsed == Parse(command, junk)
    IN  IF parsed = Undefined THEN UNKNOWN
        ELSE IF parsed # Refused /\ IsExecutable(parsed.exec, buffer) THEN ended
        ELSE -1

WithoutNewline(line) ==
    IF line # <<>> /\ line[Len(line)] = NEWLINE THEN SubSeq(line, 1, Len(line) - 1) ELSE line

\* What the shell does next: it returns, asks for the next line, or prints a message.
shell(line, ended, junk, buffer) ==
    LET command == WithoutNewline(line)
        rval == execute(CString(command), ended, junk, buffer)
    IN  CASE command = Exit -> "return"
          [] command = <<>> -> "next_line"
          [] OTHER ->
               CASE rval = UNKNOWN -> "unknown"
                 [] rval = -1 -> "no_such_command"
                 [] rval = 256 -> "terminated_by_exception"
                 [] rval = 0 -> "next_line"
                 [] OTHER -> "terminated_abnormally"
=============================================================================
