----------------------------- MODULE MCExecute -----------------------------
(* Calls of execute with blanks before the name and with anything on the     *)
(* kernel's stack, where exec[] and buffer[] are not initialized.            *)
EXTENDS MCImage

VARIABLES
    typed,      \* the last command: blanks, then a name
    stack,      \* what stood on the stack when execute was called
    started     \* the entry whose file execute loaded, NotFound if it returned -1

vars == <<typed, stack, started>>

Word == UNION {[1 .. n -> {"a", "r", "t"}] : n \in 1 .. 2}
Stack == [exec : Junk({"t", "x", NUL}), buffer : {Magic, Gap(4)}]

Init ==
    /\ typed = [blanks |-> 0, name |-> <<>>]
    /\ stack \in Stack
    /\ started = NotFound

\* execute, up to the entry it takes the program from.
Call(lead, w) ==
    LET parsed == Parse(CString(Gap(lead) \o w), stack.exec)
        runs == parsed.ok /\ IsExecutable(parsed.exec, stack.buffer)
    IN  /\ typed' = [blanks |-> lead, name |-> w]
        /\ started' = IF runs THEN read_dentry_by_name(parsed.exec) ELSE NotFound
        /\ UNCHANGED stack

\* Between two calls the stack is used otherwise.
Between == stack' \in Stack /\ UNCHANGED <<typed, started>>

Next == Between \/ \E lead \in 0 .. 1, w \in Word : Call(lead, w)

Spec == Init /\ [][Next]_vars

\* execute is "to account for spaces before the executable" (system_calls.c:85) and checks the
\* magic number "to make sure its executable" (124).  So what it starts has the name that
\* was typed and is an executable.  This is the weaker claim that one of the two is so.
NamedOrExecutable ==
    started # NotFound =>
        NameOf(started) = typed.name \/ Executable(Content(started.inode))
=============================================================================
