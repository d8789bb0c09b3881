# A TLA+ model of the ECE391 Linux-like kernel

The kernel in `src/student-distrib` boots on one CPU, runs up to six programs in
three terminals, and lets the user bring a terminal to the screen with Alt+F1..F3.
It has no scheduler in use (`scheduler.c:2`): a program runs while its terminal is
visible, and a terminal switch is a context switch. This directory models that
kernel in TLA+, checks the models with TLC and proves their main invariants
with TLAPS.

## Inventory

| Component | Source | State | Operations | Correct when |
|---|---|---|---|---|
| Processes | `system_calls.c`, `.h`, `system_calls_wrapper.S` | `process_status`, the PCB of each slot (parent, saved `esp`, `cur_esp`), TSS, program page | `execute`, `halt`, `get_pcb`, `pcb_init` | each terminal's processes are one chain of parents; halt returns into the parent's `execute`; the mapped image, the TSS and the stack are the foreground process's |
| Terminal switch, launch of shells | `keyboard.c:228-271`, `paging.c:76-116` | `t_visible`, `t[i].running_process`, `shell_flag`, `process_ct` | `switch_display`, first `execute("shell")` of a terminal | a hidden terminal resumes on the stack it was left on; a terminal is never shown without a process |
| Line discipline | `keyboard.c`, `terminal.c:82-100` | line buffer and Enter flag per terminal, modifier flags | `keyboard_handler`, `terminal_read`, `terminal_reset` | a read returns the line typed during it; Enter is not lost; the index stays in the buffer |
| Boot | `kernel.c`, `boot.S` | all of the above | `entry` | the first shell starts on the boot stack with interrupts off |
| Interrupt linkage, exceptions | `idt_handlers.c`, `int_asm_link.S`, `exceptions_wrapper.S` | IDT | interrupt gates | a kernel activation is not interrupted, but for the two waiting loops |
| Real-time clock | `rtc.c`, `idt_handlers.c:134-152` | registers A, B, C, `rtc_int_received` | open, read, write, handler | a read returns, and only after the clock's handler ran since it was called; ticks come at the rate asked for |
| Interrupt controller | `i8259.c` | masks, requests, lines in service | enable, disable, end of interrupt | no line stays in service when its handler is left |
| File descriptors | `system_calls.c:4-46`, `200-202`, `239-354` | `fd_table` of each PCB | open, close, read, write | a new process has descriptors 0 and 1 only; each descriptor has its own position |
| File system | `filesys.c` | read-only image, `dir_offset` | name search, `read_data`, `dir_read` | a name finds its entry only; a sequence of reads returns the file, a listing each name once |
| Screen output | `lib.c:15-21`, `167-202`, `terminal.c`, `paging.c:92-97` | video memory, a page and a cursor per terminal | `putc`, `clear`, `scroll_up`, `terminal_write`, `terminal_reset` | the cursor stays on the screen, a hidden terminal does not change, what is seen of a line is the line |
| Command line | `system_calls.c:75-135`, `362-374` | `pcb->arg` | parsing in `execute`, `getargs` | the program and the arguments are those typed |
| User video page | `paging.c:62`, `system_calls.c:381-392` | one page table | `vidmap` | only who asked has the page |
| Scheduler, PIT | `scheduler.c` | `t_cur` | `schedule` | not in use |
| String library | `lib.c:40-488` | none | `printf`, `itoa`, `strncmp`, `memcpy`, `memmove`, ... | each is what its name promises, at every alignment, overlap and length |
| User programs | `src/syscalls`, `src/fish` | their own | shell, `ls`, `cat`, `grep`, `syserr`, `fish` | they show what is in the files, wherever the reads cut them; the shell says how a program ended |
| Paging start-up, tests, headers | the rest | | | straight-line code, not called, declarations |

Interactions. A system call or exception enters the kernel through an interrupt
gate on the kernel stack that the TSS names and works on
`get_pcb(t[t_visible].running_process)`. A keyboard interrupt does the same from user
code, or from inside `terminal_read` and `rtc_read`, which wait with interrupts
enabled. The terminals share the process table; `execute`, `halt` and
`switch_display` each write the program page and the TSS; `terminal_read` and the
handler share the line buffers and Enter flags; both, and `terminal_write`, share the screen
and the visible terminal's cursor. A system call on a descriptor goes through the table of the
foreground process to the file system, the clock or the terminal; all directory descriptors
share `dir_offset`. `execute` reads the program through the file system.

What is hard here: the stack that `switch_display` saves is trusted at some later
switch; PCBs are addressed by pid in one place and by terminal number in another;
state is changed before a call that can fail; keys arrive between the last test
of a waiting loop and its `cli`; buffers, table and counts at their limits; a new process
relies on what every earlier `halt` left in its slot; copies that end with a block, a name
that fills its field, the last cell of the screen. The
list with lines is in `PROJECT.json` under `hazards`.

## Modules

| Module | Models |
|---|---|
| `Processes` | process table, terminals, TSS, page and stacks; `execute`, `halt`, the switch, the launch, boot |
| `Sessions` | abstract: every terminal has a stack of processes of its own |
| `MCProcesses` | `Processes` for TLC, with the refinement mapping to `Sessions` |
| `ProcessesProofs` | theorems about `Processes` |
| `SessionsProofs` | theorem: `Processes` in orderly use implements `Sessions` |
| `LineDiscipline` | `keyboard_handler` without the switch's internals, `terminal_read` |
| `LineDisciplineProofs` | theorems about `LineDiscipline` |
| `Screen` | `LineDiscipline` with the screen: `putc`, scrolling, `terminal_write`, the page copies of the switch, `vidmap` |
| `Displays` | abstract: every terminal has a display of rows of its own, only the visible one changes |
| `MCScreen`, `ScreenProofs` | `Screen` for TLC; theorems about it |
| `StringLibrary` | the string, number and memory functions of `lib.c` |
| `FileSystem` | name search, entries by number, `read_data` |
| `Files` | `Processes` with `FileSystem`: the descriptor table of each PCB, `open`, `close`, `read`, what `execute` and `halt` do to it, `dir_offset` |
| `FilesProofs` | theorems about `Files`, and about what the run of `MCFiles` checks |
| `CommandLine` | how `execute` takes a command apart, `getargs` |
| `Shell` | one turn of the shell: line, `execute`, the program's end by `halt` or an exception, the message |
| `UserPrograms` | `ls`, `cat`, `grep`, `fish` and the tests of `syserr` |
| `MCImage` | a small image, and what may stand on the kernel's stack |
| `MCFiles` | `Files`, `Shell` and `UserPrograms` over that image for TLC, with the reference definitions of their functions |
| `MCExecute` | calls of `execute` one after the other on that image, with anything on the stack |
| `Interrupts` | keyboard, clock, the two 8259s, entry and exit of the handlers, `rtc_open`, `rtc_write`, `rtc_read` |
| `InterruptsProofs` | theorems about `Interrupts` |
| `LibraryProofs` | theorems about the functions of `StringLibrary`, `FileSystem`, `CommandLine` and `Shell`, for every image, memory and text |
| `Inductions` | what the proofs use in place of induction: least elements, the existence of a recursive function, loops that end |

### Processes

One action is one kernel activation, because every gate is an interrupt gate
(`idt_handlers.c:86-98`), boot keeps interrupts off (`kernel.c:168`) and user code
gets them with the `iret` of `context_switch`. The waiting loops of `terminal_read`
and `rtc_read` change no variable of this module; that a key can interrupt them is
the choice of stack in `InterruptStack`.

- A stack pointer is modelled by the pid whose 8 KB kernel stack it points into.
  `saved_esp` is `pcb->esp` (for `halt_ret`), `cur_esp` is `pcb->cur_esp` (for
  `switch_display`), `tss_esp0` is `tss.esp0`, `cpu` the stack in use. The boot stack
  at `0x800000` is the stack area of process 0. What lies above the frame is
  abstracted: resuming a saved stack leads back to the interrupted program whether
  the saved frame was that of `switch_display` or, after a launch, that of the handler.
- `pcb->esp0` is computed from `parent_pid` alone (`system_calls.c:166`), so
  `parent_pid` stands for both; `pcb->pid` is the number of the slot.
- `Execute`, `HaltToParent`, `HaltBaseShell` are the system calls; an exception is a
  halt. An `execute` that returns -1 before line 140 changes nothing modelled here.
  `HaltBaseShell` includes the `execute("shell")` inside `halt`.
- `SwitchDisplay(k)` is Alt+Fk when nothing has to be launched; `LaunchShell(k)` and
  `LaunchRefused(k)` are the whole handler when `t[k]` has no shell and `execute`
  succeeds or fails.
- `home`, the terminal a process was created in, is auxiliary.

Two launches do harm, and two findings show them: one refused for want of a slot,
and one of terminal k while process k is the foreground of a third terminal, whose
saved stack it overwrites. `Spec` has both. `OrderlySpec` leaves out exactly these
steps, and states what the kernel does right for a user who opens the terminals
early. No other step is restricted.

### LineDiscipline

A step is one keyboard interrupt, or one part of `terminal_read`: the call up to
`sti`, the test that ends the loop, and everything from `cli` on. Interrupts fall
between them. A buffer is the sequence of the characters before `buffer_idx`; a character is
`"early"` (typed while no read was going on in its terminal), `"during"`, or the
`"newline"` that the handler adds in the last place. Only the visible terminal's
reader makes steps, which is what `CpuRunsForeground` says of `Processes` in orderly
use. Caps Lock and Shift choose characters only; key releases other than the modifiers'
do nothing, except that a release of L with Ctrl down clears the screen as its press does.

### Interrupts

This module opens the handlers that the other two take as one step, and keeps of a
terminal only where its process is: in user code, in `rtc_read`, and at what
stage of a handler. The process of the visible terminal runs; a switch leaves a
process in the middle of `keyboard_handler`, and showing it again lets it go on there.

- `latch` is a device that holds its line up: the keyboard until port 0x60 is read,
  the clock until register C is. `irr` and `isr` are the controllers' requests and
  lines in service; a clock interrupt is in service on the slave and on the master's
  line 2. The keyboard has priority over the slave, and a line in service
  blocks itself and lower ones.
- `rtc_handler` and `keyboard_handler` are two steps each, before and after `send_eoi`
  and the device's read, because their order is the question. Nothing else can
  happen between them on this CPU but a device raising its line.
- `rate` and `divider` are the parts of register A. `initialize_rtc` selects register B
  and at once register A (`rtc.c:21-24`), so what it writes to B is A's content with bit 6: with the
  usual divider (010) this also turns on the alarm's interrupt. `sources` models that,
  and so a read can return at rate 0 if the alarm interrupts; nothing is claimed of that case.
- `rtc_int_received` is one flag for all terminals. `initialize_rtc` lowers it (`rtc.c:30`), so an open in one terminal takes
  away the tick that a read in another has not yet seen; the next tick ends that read.
- `rtc_write` takes the low 16 bits of the request (`rtc.c:95`): 65538 is a request for 2 Hz. It refuses what
  is no power of two or above 1024. `Request` is the set of numbers that programs write. `Rate` is
  the chip's rates that these tests let through, and 0: the chip's faster ones (3 to 5) are not among them.
- `asked` and `ticked` are auxiliary. A launch in the handler always succeeds here; what
  a refused one does is in `Processes`.

### Screen

Each key action of `LineDiscipline` is taken together with what it puts on the screen, in
one step, as the handler does. A cell is the character at an even address of video memory
(`At(x, y)` is the flat address of `lib.c:185`); the attribute bytes and the VGA cursor
registers, which follow the cursor, are left out. `t[i].video_mem` is a page of cells.

- `terminal_write` leaves the characters still to be put in `pending`, and while there
  are any no other step is possible: the call runs with interrupts off.
- `SwitchScreen` is the two copies of `switch_display`, in the order of the code.
- The switch is here that of terminals which have a shell; what a launch does besides is in `Processes`.
- After `vidmap` any program may draw in any cell of the visible screen, because nothing
  takes the mapping back. A program that draws without it faults; that is a halt.
- Pages start with any content (`"unknown"`): `terminal_init` clears only the first terminal's.
- Other lines than the one typed are written by a program in user code: while it
  waits in `terminal_read` nothing but keys changes the screen.

`EchoMatchesLine` excludes a line with a pending Enter, whose newline has moved the cursor.

### Files, FileSystem

`FilesNext` conjoins each step of `Processes` in orderly use with what it does to the
descriptor tables. `halt` closes descriptors 2 and up before it changes the process table;
a base shell's `halt` goes on with the `execute` that starts the next one. A slot's table
keeps its content when the slot is free: `pcb_init` sets 0 and 1 only. PCBs are assumed to
be zero at boot, as the memory of the machine is.

- `fops` is which operations table `fops_ptr` points to, `"closed"` is `flags == 0`.
- Calls that return -1 change nothing and are no steps; whether they fail is the subject of
  `SysErrPasses`, which runs the tests of `ece391syserr.c` on the table of every free slot.
- `read_data` is the function `Copied` of a place in the loop (the bytes left, the block, the
  offset if it is the first one), which follows the loop block by block with its three
  branches and the exit at the bottom that returns 0.
- `ImageAssumption` is what is asked of an image: entries with one of the three types and an inode
  that exists, names of `NAME_SIZE` characters, and unused entries that are all zero. Nothing is
  asked of block numbers, lengths or the order of entries.
- `dir_read` clears and fills `NAME_SIZE + 1` bytes of the buffer whatever `nbytes` is; programs' buffers
  have at least that many, and how the rest is overwritten in a shorter one is not modelled.
- `view` is auxiliary: how many names a listing gave, whether another directory call came
  in between, whether a read of less than a block returned 0.

### StringLibrary, CommandLine, Shell, UserPrograms

These are functions of their input, without state. `memcpy`, `memset` and `memmove` are the
order in which they read and write memory, so overlapping regions are treated as the code treats them.
Bytes that the code never wrote are parameters: `junk` is what stood in `exec` on the stack,
`buffer` the four bytes that `execute` tests. `Parse` answers `Undefined`, and with it `execute` and `shell`
that nothing is known, where the code leaves its buffers: the indices into a command are bytes (`system_calls.c:77-78`), so a
command of more than `INDEX_RANGE` bytes may let them wrap, and an argument of more than `CMD_MAX_LEN` bytes that still passes the
test against `MAX_KBUFF_LEN` is written past the end of `argb`. `%d` reads its argument as an `int32_t` (`AsInt32`).

What `execute` promises in comments it keeps only of some commands. `TakenApartAsTyped` and `ShellTellsOutcome` are
about those: they begin with the name, and name no file shorter than the magic number. The others are
the matter of `MCExecute` and its two findings: a name after blanks goes on with bytes of the stack, because the NUL is
put where the name ended in the command, and a file shorter than the magic number is tested with bytes of the stack.

## Runs

| Run | Instance | Shows |
|---|---|---|
| `orderly_use` | 5 slots, 3 terminals, limit 2; 226,529 states | the CPU, the stacks and the table stay consistent; `Processes` implements `Sessions` |
| `any_use` | 3 slots, 3 terminals, limit 1; 69,396 states | there is always a foreground process; a base shell can always be restarted |
| `line_discipline` | 2 terminals, buffer of 4; 10,368 states | lines, Enter and the liveness of a read |
| `overwritten_stack` | the kernel's constants | finding: a launch overwrites another program's saved stack |
| `refused_launch` | the kernel's constants | finding: a refused launch leaves another terminal's program running |
| `interrupts` | 2 terminals, ten requests; 9,540 states | lines and devices never block; reads return, and only after the clock's handler ran since they were called |
| `files` | 2 slots, 2 terminals, 4 descriptors, 4 entries in use, blocks of 3 bytes; 619,166 states | descriptors are never inherited nor touched by others; files, listings and positions; the functions against reference definitions |
| `screen` | 2 terminals, 2 x 2 cells, buffer of 4; 468,779 states | the cursor stays on the screen; the line is what is seen; `Screen` implements `Displays` |
| `stale_enter`, `full_line` | as `line_discipline` | findings about Enter pressed early, and a key on a full line |
| `execute` | the image of `files` | two findings: a file is started that was not named and is no executable |
| `rtc_rate` | as `interrupts` | finding: `rtc_write` of 2 Hz stops the clock (and of more, sets half) |

Bounds. Three terminals are the kernel's own number, and the least at which a hidden
terminal can be disturbed by a launch between two others. In `orderly_use` five slots with at most three
processes per terminal are too few for all three sessions at full depth, so the table fills and the
limit is reached. The kernel's constants 6, 3, 3 pass the same properties (14.8
million states, about four minutes) and are left to the proofs. In `any_use` three slots
let the first two terminals use up the table, so refused launches happen;
`CountBound` cuts off states in which `process_ct` of a terminal is below -1, because after a refused launch
`halt` may lower it without end. A buffer of four has a place for each case
of the handler: two characters, the added newline, and the full line. Two terminals
are enough for a reader to be hidden and shown, and no third one takes part in a read.
`interrupts` has two terminals for the same reason: the shared flag is disputed by two
reads, and one handler is left in the other's middle. `Request` has the least and greatest frequency
that `rtc_write` takes, the 2 Hz at which it goes wrong, one in between, numbers that it refuses as zero, no power of two
or too much, and two that it cuts to zero and to 2.

`files`: two slots are enough for a slot to be left, taken by another terminal or by a child's
successor, and for two listings at the same time; four descriptors are two that can be opened.
The image has a name that fills its field, one that it begins with, an unused entry, a file that ends
within its second block and one that ends with it. Blocks of three bytes are entered at
each place; programs read one or two blocks' worth less one (`Chunk` is 2 and 3, the
latter a full block, for which `EndOnlyAtEnd` promises nothing). The functions are evaluated
once, in the initial state (`AtBoot`), over: 16 bytes of memory with all sources, destinations and lengths to 8;
all names to four characters; all offsets and lengths to 7; all texts to seven characters and two
buffer sizes for `grep`; all pairs of texts to four characters for `fish`; commands with names up to
one character more than `exec` holds, up to two inner spaces and arguments to two characters, with a line buffer of six,
so that they are refused for each reason. `execute` types names of one or two characters behind none or one blank.

`screen`: two by two cells are the least with a wrap, a scroll and a row above, and the line of
three characters and a newline is then as long as the screen. `Bound` (in `MCScreen`) looks at
the first terminal in full, except for two drawings or two keys typed ahead at the same time, and at the
second one only until its first read, key, second line or second output: that one is needed
to be hidden and shown, and what it can do by itself the first one has done.

Fairness. In `LineDiscipline`, `Leave` and `Return` are weakly fair: the
visible terminal's reader runs whenever no handler does, handlers are finite, and
once the loop's condition is false by Enter nothing but the reader lowers the
flag. Nothing is assumed of the user: no key need be pressed and a terminal may
stay hidden, which `EnterEndsRead` allows.

In `Interrupts`, handlers that run go on, a keyboard request that is passed on is taken,
and the clock ticks unless its rate is 0 (all weakly fair). Delivery of a tick and
the steps of `rtc_read`'s loop are strongly fair: interrupts may come between any two of them,
but handlers are shorter than the time between interrupts, so the CPU gets back to the loop.
A user who typed without any pause could keep the clock waiting, the keyboard having
priority; `ReadReturns` therefore assumes `KeyboardPauses`, and TLC refutes it without.

## Proofs

For all values of the constants (at least one slot and terminal, no more terminals
than slots, a buffer of at least three bytes):

- `ProcessesProofs`, part 1, about `Spec`: `TypeOK`, `ForegroundExists`,
  `RelaunchNeverRefused`. The invariant `BaseInv` adds to the types that terminal 0
  is visible before boot, that a terminal with a shell has a foreground process, and that a
  terminal counts at most `MAX_PROC_PER_TERM + 1` processes: with that the restart
  in `halt` passes the limit even though the limit is off by one. It finds a slot because it has just
  freed one (`FirstFreeExists`, by well-founded induction on the least free slot).
- Part 2, about `OrderlySpec`: `CpuRunsForeground`, `HiddenResumable`,
  `OneChainPerTerminal`, `ReturnsToParent`, `CountsProcesses`, `OnlySelfHalts`, each a
  theorem of its own. They hold only together (`OrderlyInv`): a switch keeps the CPU on the foreground process
  because hidden terminals are resumable; those stay so because a step changes `cur_esp` of
  the visible terminal's process only, which needs that no process is in the foreground
  of two terminals, hence the chains; the chains need that halt frees the process
  that runs. One lemma for each change of the table (`AddProcess`, `RemoveForeground`,
  `ReplaceBaseShell`) carries the chains over.
- `LineDisciplineProofs`: the type invariant with the bound on a line's length, `NewlineFillsLine`,
  `OnlyTypedDuringRead`, `EnterNotLost`; `LineInv` is their conjunction and is inductive.
  Lemmas say what Backspace and a key make of a line.

- `InterruptsProofs`: `TypeOK`, `NothingLeftInService`, `LatchPending`, `ReadMeansTick`, for
  any number of terminals. `TypeOK` includes that the rate is one of `Rate`: it rests on the tests of
  `rtc_write` (`AcceptedPow`), whatever numbers `Request` has. `ServiceInv` is the strengthening: what is in
  service is exactly what the stage of the visible terminal's handler holds, and hidden
  handlers are past their `send_eoi`. Without the second part a switch could bring back
  a stage with a line in service.

- `FilesProofs`, part 1: `FilesTypeOK`, `FreeSlotsClosed`, `PositionWithinFile`, `EndOnlyAtEnd`,
  `ListsEachOnce`, `OnlyOwnDescriptors`, for every image that satisfies `ImageAssumption`. First
  `FilesRunOrderly`: the composition implements `OrderlySpec`, so `OrderlyInv` holds in it.
  `FreeSlotsClosed` needs that `halt` closes the table of the process that it frees, which is
  `CpuRunsForeground`; `PositionWithinFile` needs that `read_data` never returns more than `Rest`;
  `EndOnlyAtEnd` needs that it returns 0 for less than a block only where nothing is left (`CopiedReturns`).
- `ScreenProofs`: `ScreenTypeOK` and the refinement of `Displays`, for every size of screen
  and buffer and any number of terminals. `ScreenInv` is `LineInv` with the types of the cells and
  cursors. `At` is a bijection from rows and columns to cells; with it each part of `putc`
  equals its counterpart on rows, and a switch changes no display because the page of the
  old terminal was taken before the new one was shown. `EchoIsTheLine` proves `EchoMatchesLine`, which is
  inductive together with `ScreenInv` and that no output is pending where a program reads: a character
  does not move the line against what is seen of it, even when it scrolls the screen, Backspace takes back
  the cell that the character was put in, over the end of a row too, and a hidden terminal's page and cursor change together or not at all.
- `SessionsProofs`: `OrderlySpec` implements `Sessions`, for any number of slots and
  terminals. The mapping reads a terminal's session off the table, by following parents from its foreground
  process. `OneChainPerTerminal` leaves room for processes that no foreground process leads to, so the
  invariant of this module, `Stacked`, adds that the session has all processes of its terminal, each once
  and above its parent. That there is at most one such stack (`StackIsSession`) shows which one a step
  leaves: pushed, popped or restarted for the visible terminal, the same for all others.

`LibraryProofs` and the second part of `FilesProofs` are about functions and use no state, but for `SysErrTestsPass`. The library's
induction theorems cannot be applied here (they take an operator as parameter). `Inductions` replaces
them: a set of naturals has a least element (from the well-foundedness of `<`), so a
statement about a loop that fails somewhere fails at a first place, where the one before refutes it; `RecursionExists` shows that a
function whose value depends on arguments of smaller rank exists, which `CHOOSE` leaves open; `StepsAgree`
shows that two functions that agree where a loop ends, and at a state if they do at the next,
are the same. Every recursive function that is proved about takes one argument, the state of its
loop, so that these apply.

- `ReadsExactly`: `read_data` copies exactly the part of the file that is asked for and there, over
  any number of blocks. `CopiedExactly` is its loop invariant, by the bytes left.
- `SearchFindsName`: a search finds the first entry with exactly the name; it needs that names are not
  empty, since an empty one matches unused entries. What makes it right is which characters are
  compared: with the NUL, unless the name fills the field (`ComparesWholeNames`).
- `MemoryFunctions`: `memmove` for every overlap, `memcpy` unless the destination begins inside the source, and
  `memset`, at every alignment. Going upwards, what was not yet read lies above what was
  written (`MovedUpwards`); going downwards, the other way (`MovedDownwards`).
- `CommandTakenApart`, `ExecuteOutcome`, `ShellOutcome`: what `execute` makes of a command, when it runs
  it, and what the shell then says, for every image and whatever is on the stack. They are about the commands that the code's
  buffers can hold: at most `INDEX_RANGE` bytes, an argument of at most `CMD_MAX_LEN`. `CommandTakenApart` gives
  the argument for any number of leading spaces and the name for none; the other two are about commands that begin with their
  name and name no file shorter than the magic number (`NamesNoShortFile`); `ArgumentRoundTrip`: `getargs` gives back what `execute` copied.
- `ItoaShows`, `NumbersPrinted`: `itoa` gives the digits of every number in every radix, without leading
  zeroes, and `printf` prints them, negative, padded to eight, and each the argument of its conversion. Numbers are
  those whose negative `%d` can show too, up to 2^31 - 1.
- `LsListsAll`, `CatPrintsAll`: `ls` prints every name in use and no other, `cat` the
  whole file, however its reads cut it.
- `GrepFindsAll`: `grep` prints every line with the pattern, once and in order, for every text without NULs and every
  buffer into which each line fits. `GrepInv` says what holds whenever a line is searched: what is in the buffer
  from `line_start` on is the text up to what was read, and a line at the start of a buffer that was not filled,
  or a read that brought nothing, is at the end of the text. So the line searched is a line of the text (`GrepLine`) and the
  search goes on behind it, whether a part was kept or not (`GrepGoesOn`). The two loops end
  because what the reads still have to bring falls, and between reads what is left in the buffer.
- `FishShowsBoth`: `fish` shows at every place exactly what its two files have there. `FishInv` says where a file is
  when the places up to a column are done: at the character of that place, waiting at the end of that row,
  or ended. A place is then shown as the files have it (`FishShows`), and when both files
  are at the end of the row nothing is left in it (`RowDone`).
- `SysErrTestsPass`: the tests of `syserr` pass in every free slot in every reachable state.

From them follow, as theorems of `FilesSpec`, the properties that the run `files` checks in its instance.
Three have hypotheses: `CommandsTakenApart` that `CMD_MAX_LEN` is at least 2 and at most 249, so that what the property types stays
within `argb` and the byte indices, `ShellTells` that the buffers hold what the property types (in the
code 32 and 128 bytes), both that the only command without argument that is refused is the run's
stand-in for `grep`, and, for the shell, that no two entries in use have the same
name, so that the first entry is the only one; `SysErrTestsPass` that there is an entry `.` and none with the names
that shall be missing, and that there are no more descriptors than the number the test takes for
too big. The image of the repository and the run's satisfy them.

Only model-checked: `EnterEndsRead`, `KeyAnswered`, `ReadReturns`, because liveness and `ENABLED` are out of the
prover's reach. Every other property of a passing run is a theorem. What
`Spec` does beyond orderly use is proved as far as it holds there (part 1 of `ProcessesProofs`).

## What the models show besides

- A listing in one terminal disturbs one in another: `ListsEachOnce` holds only for listings that
  no other directory call came between.
- A read of a whole block or more may return 0 although bytes were copied. The programs
  of the repository read at most 1024 bytes at a time and never meet it; `execute` reads whole
  programs and does not look at the result.
- `execute("")` matches an unused entry, and its empty inode comes to the same test of stale bytes as
  the finding about short files.
- `process_ct > MAX_PROC_PER_TERM` is tested before the new process is counted (`system_calls.c:72`, `152`), so a terminal
  holds four processes, not the three of `MAX_PROC_PER_TERM` (`system_calls.h:16`). `BaseInv` has that bound.
- A program that ends with status 255 is reported as ended by an exception, and one that ends with a
  multiple of 256 as ended well.
- `vidmap`'s mapping outlives the program that asked for it.
- `grep` looks at the byte behind what was read (`ece391grep.c:33`). The model takes it for no newline; where
  the stack happens to hold one there, a line that the first full read cut is searched in two halves.

## Plan

Done: `Processes`, `LineDiscipline`, `Interrupts`, `FileSystem`, `Files` (the descriptors),
`Screen`, `CommandLine`, with the `StringLibrary`, `Shell` and `UserPrograms` that came with them,
and the proofs of what they are checked for. Left:
what a refused launch leaves on the screen, by composing `Screen` with `Processes`.

## Not modelled

- `scheduler.c`: not in use (`scheduler.c:2`). `initialize_idt` installs a vector for the PIT (`idt_handlers.c:66`), but
  `pit_init` is never called and IRQ0 stays masked.
- Paging start-up, descriptor tables, the multiboot header, the masks and start-up of the
  8259s: straight-line code that runs once. How a changed divider alters the clock's period is the device's matter.
- Characters and wording of messages, attributes, the VGA cursor registers, Caps Lock and Shift.
- `tests.c`, which the build does not call; `memset_word`, `memset_dword` and `test_interrupts`, which have no caller.
- Of the user programs: `pingpong`, `counter`, `hello` and `testprint` only print, `sigtest` uses
  signals that the kernel does not have, `ece391emulate.c` stands for the kernel on a host, and
  the blinking of `fish` is assembly on a list of its own. To the state models programs
  are the environment: any program may make any call at any time.
