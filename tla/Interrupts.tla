----------------------------- MODULE Interrupts -----------------------------
(***************************************************************************)
(* The keyboard and the real-time clock, the two 8259 controllers, the     *)
(* entry and exit of their handlers, and rtc_read, which waits for the     *)
(* clock with interrupts enabled.                                          *)
(*                                                                         *)
(* A terminal switch leaves keyboard_handler unfinished: its frame stays   *)
(* on the stack of the process that is hidden, and goes on when that       *)
(* process is shown again.  So every terminal has a place in its program   *)
(* and a place in a handler, and those of the visible terminal move.       *)
(*                                                                         *)
(* The initial state is the first shell in user code.  Masks and vectors   *)
(* were set once by then.  A handler's step is what it does to one device. *)
(***************************************************************************)
EXTENDS Integers, FiniteSets

CONSTANTS
    TERMINAL_COUNT,         \* terminals (3)
    Request                 \* four-byte numbers that programs write to the clock

ASSUME TerminalAssumption == TERMINAL_COUNT \in Nat \ {0}
ASSUME RequestAssumption == Request \subseteq Nat

Terminal == 0 .. TERMINAL_COUNT - 1

\* The lines in use: keyboard, the slave's line on the master, clock.
KEYBOARD_IRQ == 1
SLAVE == 2
IRQ_RTC == 8
Device == {KEYBOARD_IRQ, IRQ_RTC}
Line == Device \union {SLAVE}

\* Register A: a new rate is written as the offset from that of 2 Hz.
TWO_HZ_FREQ == 15
FREQ_OFFSET == 2
HIGH_LIMIT_FREQ == 1024

\* 2^pow for every power of two in 16 bits, at pow + 1.
TwoTo == <<1, 2, 4, 8, 16, 32, 64, 128, 256, 512, 1024, 2048, 4096, 8192, 16384, 32768>>

\* The chip's rates of at most 1024 Hz, and 0.
Rate == {0, 1, 2} \union 6 .. 15

VARIABLES
    latch,              \* a device holds its line up until it is read
    irr,                \* requests that no handler has taken
    isr,                \* lines in service, until their end of interrupt
    rate,               \* register A of the clock, bits 0-3: 0 stops the ticks,
                        \* r > 2 stands for 2^(16 - r) Hz, 1 and 2 for 256 and 128 Hz
    divider,            \* register A, bits 4-6
    sources,            \* register B: what may raise the clock's line
    rtc_int_received,
    t_visible,
    place,              \* of a terminal's process, see Place
    handler,            \* of a terminal's process, see Stage
    ticked,             \* auxiliary: the clock was handled since its rtc_read began
    asked               \* auxiliary: log2 of the frequency the programs asked for

device == <<latch, irr, isr>>
registers == <<rate, divider, sources, asked>>
vars == <<device, registers, rtc_int_received, t_visible, place, handler, ticked>>

\* No shell yet; in user code; in the loop of rtc_read; past it but before cli.
Place == {"none", "user", "waiting", "leaving"}

\* In no handler; keyboard_handler before send_eoi; after it and inb; rtc_handler
\* before it reads register C; before its send_eoi.
Stage == {"no", "key", "scan", "clock", "clock_eoi"}

Source == {"periodic", "alarm", "update"}

\* initialize_rtc reads register A and writes it, with bit 6 set, to register B, where
\* bits 5 and 4 let the alarm and the clock's update interrupt, too.
SourcesFrom(d) ==
    {"periodic"} \union (IF d \div 2 % 2 = 1 THEN {"alarm"} ELSE {})
                 \union (IF d % 2 = 1 THEN {"update"} ELSE {})

\* The clock starts as the BIOS leaves it: 1024 Hz and the normal divider.
Init ==
    /\ latch = [l \in Device |-> FALSE]
    /\ irr = {}
    /\ isr = {}
    /\ rate = 6
    /\ divider = 2
    /\ sources = SourcesFrom(2)
    /\ asked = 10
    /\ rtc_int_received = 0
    /\ t_visible = 0
    /\ place = [i \in Terminal |-> IF i = 0 THEN "user" ELSE "none"]
    /\ handler = [i \in Terminal |-> "no"]
    /\ ticked = [i \in Terminal |-> FALSE]

-----------------------------------------------------------------------------
(* The devices and the controllers.                                        *)

Raise(l) ==
    /\ ~latch[l]
    /\ latch' = [latch EXCEPT ![l] = TRUE]
    /\ irr' = irr \union {l}
    /\ UNCHANGED <<isr, registers, rtc_int_received, t_visible, place, handler, ticked>>

Key == Raise(KEYBOARD_IRQ)
Tick == "periodic" \in sources /\ rate # 0 /\ Raise(IRQ_RTC)
OtherTick == sources \ {"periodic"} # {} /\ Raise(IRQ_RTC)

\* The interrupt flag is up in user code and in the loop of rtc_read.
InterruptsOn == handler[t_visible] = "no"

\* The line that the controllers pass to the CPU: the keyboard before the slave, and
\* nothing of no higher priority than what is in service.
Deliverable(l) ==
    /\ l \in irr
    /\ IF l = KEYBOARD_IRQ THEN KEYBOARD_IRQ \notin isr
                           ELSE isr = {} /\ KEYBOARD_IRQ \notin irr

InService(l) == IF l = IRQ_RTC THEN {IRQ_RTC, SLAVE} ELSE {l}

Stepped(stage) == handler' = [handler EXCEPT ![t_visible] = stage]

Deliver(l, stage) ==
    /\ InterruptsOn
    /\ Deliverable(l)
    /\ irr' = irr \ {l}
    /\ isr' = isr \union InService(l)
    /\ Stepped(stage)
    /\ UNCHANGED <<latch, registers, rtc_int_received, t_visible, place, ticked>>

TakeKey == Deliver(KEYBOARD_IRQ, "key")
TakeTick == Deliver(IRQ_RTC, "clock")

\* Mutated forms of send_eoi: the slave is forgotten on the master; only lines of the
\* slave are acknowledged.
EoiSlaveOnly(l) == isr \ {l}
EoiAboveSeven(l) == IF l >= 8 THEN isr \ {l, SLAVE} ELSE isr

\* What is in service after send_eoi: a line of the slave ends on both controllers.
send_eoi(l) == IF l >= 8 THEN isr \ {l, SLAVE} ELSE isr \ {l}

-----------------------------------------------------------------------------
(* keyboard_handler *)

\* send_eoi comes first, then the scan code is read.
KeyBegin ==
    /\ handler[t_visible] = "key"
    /\ isr' = send_eoi(KEYBOARD_IRQ)
    /\ latch' = [latch EXCEPT ![KEYBOARD_IRQ] = FALSE]
    /\ Stepped("scan")
    /\ UNCHANGED <<irr, registers, rtc_int_received, t_visible, place, ticked>>

\* Alt+Fk: the process shown goes on where it was hidden, in its own handler, or
\* a base shell starts and never returns here.
KeySwitch(k) ==
    /\ handler[t_visible] = "scan"
    /\ k # t_visible
    /\ t_visible' = k
    /\ place' = [place EXCEPT ![k] = IF @ = "none" THEN "user" ELSE @]
    /\ UNCHANGED <<device, registers, rtc_int_received, handler, ticked>>

KeyDone ==
    /\ handler[t_visible] = "scan"
    /\ Stepped("no")
    /\ UNCHANGED <<device, registers, rtc_int_received, t_visible, place, ticked>>

-----------------------------------------------------------------------------
(* rtc_handler *)

\* Mutated form of ReadC: register C is not read.
LeaveLatch == latch
ReadC == [latch EXCEPT ![IRQ_RTC] = FALSE]

TickBegin ==
    /\ handler[t_visible] = "clock"
    /\ latch' = ReadC
    /\ rtc_int_received' = 1
    /\ ticked' = [i \in Terminal |-> TRUE]
    /\ Stepped("clock_eoi")
    /\ UNCHANGED <<irr, isr, registers, t_visible, place>>

TickDone ==
    /\ handler[t_visible] = "clock_eoi"
    /\ isr' = send_eoi(IRQ_RTC)
    /\ Stepped("no")
    /\ UNCHANGED <<latch, irr, registers, rtc_int_received, t_visible, place, ticked>>

-----------------------------------------------------------------------------
(* rtc_open, rtc_write and rtc_read, called by the visible terminal's process *)

In(p) == handler[t_visible] = "no" /\ place[t_visible] = p
GoTo(p) == place' = [place EXCEPT ![t_visible] = p]

\* initialize_rtc, which lowers the flag that all terminals share, then 2 Hz.
rtc_open ==
    /\ In("user")
    /\ sources' = SourcesFrom(divider)
    /\ rate' = TWO_HZ_FREQ
    /\ asked' = 1
    /\ rtc_int_received' = 0
    /\ UNCHANGED <<device, divider, t_visible, place, handler, ticked>>

\* A mutated form of Accepted: a power of two of any size is taken.
AcceptedAny(freq, pow) == freq = TwoTo[pow + 1]

\* The powers of two that rtc_write takes.
Accepted(freq, pow) == freq = TwoTo[pow + 1] /\ freq <= HIGH_LIMIT_FREQ

\* A write of 2^pow Hz, the lower half of the request.  A request with another lower
\* half is refused and changes nothing.  The rate is or-ed to the upper half of
\* register A: from 16 on it reaches the divider.
rtc_write(request, pow) ==
    LET freq == request % 65536
        new == TWO_HZ_FREQ - pow + FREQ_OFFSET
    IN  /\ In("user")
        /\ Accepted(freq, pow)
        /\ rate' = new % 16
        /\ divider' = IF new >= 16 THEN 2 * (divider \div 2) + 1 ELSE divider
        /\ asked' = pow
        /\ UNCHANGED <<device, sources, rtc_int_received, t_visible, place, handler,
                       ticked>>

\* The flag that rtc_read starts with, and a mutated form that keeps an old one.
OldFlag == rtc_int_received
Lowered == 0

ReadCall ==
    /\ In("user")
    /\ GoTo("waiting")
    /\ rtc_int_received' = Lowered
    /\ ticked' = [ticked EXCEPT ![t_visible] = FALSE]
    /\ UNCHANGED <<device, registers, t_visible, handler>>

ReadLeave ==
    /\ In("waiting")
    /\ rtc_int_received # 0
    /\ GoTo("leaving")
    /\ UNCHANGED <<device, registers, rtc_int_received, t_visible, handler, ticked>>

ReadReturn ==
    /\ In("leaving")
    /\ GoTo("user")
    /\ UNCHANGED <<device, registers, rtc_int_received, t_visible, handler, ticked>>

-----------------------------------------------------------------------------
Environment == Key \/ Tick \/ OtherTick
Handlers ==
    \/ TakeKey \/ TakeTick \/ KeyBegin \/ KeyDone \/ TickBegin \/ TickDone
    \/ \E k \in Terminal : KeySwitch(k)
Programs ==
    \/ rtc_open \/ ReadCall \/ ReadLeave \/ ReadReturn
    \/ \E request \in Request, pow \in 0 .. 15 : rtc_write(request, pow)

Next == Environment \/ Handlers \/ Programs

(***************************************************************************)
(* A running handler goes on, and a request that the controllers pass on   *)
(* is taken.  Handlers are shorter than the time between two interrupts:   *)
(* what is possible again and again between them is done some time, which  *)
(* is strong fairness of the clock's delivery and of the reader's loop.    *)
(* The clock ticks while its rate is not 0.  Keys are not fair.            *)
(***************************************************************************)
Fairness ==
    /\ WF_vars(Tick) /\ WF_vars(TakeKey) /\ SF_vars(TakeTick)
    /\ WF_vars(KeyBegin) /\ WF_vars(KeyDone) /\ WF_vars(TickBegin) /\ WF_vars(TickDone)
    /\ SF_vars(ReadLeave) /\ SF_vars(ReadReturn)

Spec == Init /\ [][Next]_vars /\ Fairness

-----------------------------------------------------------------------------
(* Properties.                                                             *)

\* The values the variables range over.  What programs write to the clock never sets it
\* faster than the 1024 Hz it has at the start.
TypeOK ==
    /\ latch \in [Device -> BOOLEAN]
    /\ irr \in SUBSET Device
    /\ isr \in SUBSET Line
    /\ rate \in Rate
    /\ divider \in 0 .. 7
    /\ sources \in SUBSET Source
    /\ rtc_int_received \in {0, 1}
    /\ t_visible \in Terminal
    /\ place \in [Terminal -> Place]
    /\ handler \in [Terminal -> Stage]
    /\ ticked \in [Terminal -> BOOLEAN]
    /\ asked \in 0 .. 15

\* However handlers are left by terminal switches and launches of shells, and resumed
\* later, nothing is in service when a program runs: every line can interrupt it.
NothingLeftInService == InterruptsOn => isr = {}

\* A device holds its line up only while its interrupt is still to be taken or to be
\* handled by the visible terminal's process: no key and no tick is the last one.
LatchPending ==
    \A l \in Device : latch[l] =>
        \/ l \in irr
        \/ handler[t_visible] = IF l = IRQ_RTC THEN "clock" ELSE "key"

\* rtc_read returns only after rtc_handler ran since it was called, although all terminals
\* share one flag, which their reads and opens lower.  (The interrupt it handled may
\* have been requested before.)
ReadMeansTick ==
    \A i \in Terminal :
        (place[i] = "leaving" \/ (place[i] = "waiting" /\ rtc_int_received # 0)) => ticked[i]

\* A key that was pressed reaches keyboard_handler.
KeyAnswered == KEYBOARD_IRQ \in irr ~> KEYBOARD_IRQ \notin irr

\* If the keyboard pauses again and again, rtc_read returns, unless its terminal is
\* hidden.  It is about clocks that tick: a write of 2 Hz stops this one, see RateAsAsked.
KeyboardPauses == []<>(InterruptsOn /\ KEYBOARD_IRQ \notin irr)
ReadReturns ==
    KeyboardPauses =>
        \A i \in Terminal :
            place[i] = "waiting" ~> place[i] # "waiting" \/ t_visible # i \/ rate = 0

\* rtc_write "sets the RTC to a certain frequency" (rtc.c:86): the one it is given.  For
\* every frequency but 1 Hz, which the chip does not have, there is a rate.
RateAsAsked == asked >= 1 => rate = 16 - asked
=============================================================================
