-------------------------- MODULE InterruptsProofs --------------------------
(***************************************************************************)
(* The safety of Interrupts for any number of terminals.  That nothing is  *)
(* left in service is not inductive: it needs to know what is in service   *)
(* at each stage of the visible terminal's handler, and that a hidden      *)
(* process was left after its send_eoi, so that showing it again cannot    *)
(* bring back a stage with a line in service.                              *)
(***************************************************************************)
EXTENDS Interrupts, TLAPS

\* What is in service at each stage of a handler.
Held(stage) ==
    IF stage = "key" THEN {KEYBOARD_IRQ}
    ELSE IF stage \in {"clock", "clock_eoi"} THEN {IRQ_RTC, SLAVE}
    ELSE {}

ServiceInv ==
    /\ isr = Held(handler[t_visible])
    /\ \A i \in Terminal \ {t_visible} : handler[i] \in {"no", "scan"}

InterruptInv == TypeOK /\ ServiceInv /\ LatchPending /\ ReadMeansTick

\* The start.
LEMMA InitInterruptInv == Init => InterruptInv
<1> SUFFICES ASSUME Init PROVE InterruptInv
  OBVIOUS
<1>1. TypeOK
  BY TerminalAssumption DEF Init, TypeOK, Terminal, Place, Stage, Source, SourcesFrom, Device,
     Line, Rate, KEYBOARD_IRQ, IRQ_RTC, SLAVE
<1>2. ServiceInv
  BY TerminalAssumption DEF Init, ServiceInv, Held, Terminal
<1>3. LatchPending /\ ReadMeansTick
  BY DEF Init, LatchPending, ReadMeansTick
<1> QED
  BY <1>1, <1>2, <1>3 DEF InterruptInv

\* A device raises its line.
LEMMA RaiseInv ==
  ASSUME InterruptInv, NEW l \in Device, Raise(l)
  PROVE  InterruptInv'
<1> USE DEF Raise, registers
<1>1. TypeOK'
  BY DEF InterruptInv, TypeOK, Device
<1>2. ServiceInv'
  BY DEF InterruptInv, ServiceInv
<1>3. LatchPending'
  BY DEF InterruptInv, TypeOK, LatchPending
<1>4. ReadMeansTick'
  BY DEF InterruptInv, ReadMeansTick
<1> QED
  BY <1>1, <1>2, <1>3, <1>4 DEF InterruptInv

\* The controllers pass a line to the CPU; its handler begins at a stage that holds
\* what comes into service.
LEMMA DeliverInv ==
  ASSUME InterruptInv, NEW l \in Device, NEW stage \in Stage, Deliver(l, stage),
         stage = IF l = IRQ_RTC THEN "clock" ELSE "key"
  PROVE  InterruptInv'
<1> USE DEF Deliver, Stepped, registers
<1>0. t_visible \in Terminal /\ isr = {} /\ handler[t_visible] = "no"
  BY DEF InterruptInv, TypeOK, ServiceInv, Held, InterruptsOn
<1>1. TypeOK'
  BY <1>0 DEF InterruptInv, TypeOK, Device, Line, InService
<1>2. ServiceInv'
  <2>1. InService(l) = Held(stage)
    BY DEF Device, InService, Held, KEYBOARD_IRQ, IRQ_RTC
  <2> QED
    BY <1>0, <2>1 DEF InterruptInv, TypeOK, ServiceInv
<1>3. LatchPending'
  BY <1>0 DEF InterruptInv, TypeOK, LatchPending
<1>4. ReadMeansTick'
  BY DEF InterruptInv, ReadMeansTick
<1> QED
  BY <1>1, <1>2, <1>3, <1>4 DEF InterruptInv

\* The steps of the two handlers.
LEMMA HandlerInv ==
  ASSUME InterruptInv,
         \/ KeyBegin \/ KeyDone \/ TickBegin \/ TickDone
         \/ \E k \in Terminal : KeySwitch(k)
  PROVE  InterruptInv'
<1> USE DEF Stepped, registers, device
<1>0. t_visible \in Terminal /\ TypeOK /\ ServiceInv
  BY DEF InterruptInv, TypeOK
<1>d. Device = {1, 8} /\ Line = {1, 2, 8} /\ KEYBOARD_IRQ = 1 /\ IRQ_RTC = 8 /\ SLAVE = 2
  BY DEF Device, Line, KEYBOARD_IRQ, IRQ_RTC, SLAVE
<1>1. CASE KeyBegin
  <2>1. isr' = {}
    BY <1>0, <1>1, <1>d DEF KeyBegin, send_eoi, ServiceInv, Held
  <2>2. TypeOK'
    BY <1>0, <1>1, <2>1 DEF KeyBegin, TypeOK, Stage
  <2>3. ServiceInv'
    BY <1>0, <1>1, <2>1 DEF KeyBegin, ServiceInv, Held, TypeOK
  <2>4. LatchPending'
    BY <1>0, <1>1, <1>d DEF KeyBegin, InterruptInv, LatchPending, TypeOK
  <2>5. ReadMeansTick'
    BY <1>1 DEF KeyBegin, InterruptInv, ReadMeansTick
  <2> QED
    BY <2>2, <2>3, <2>4, <2>5 DEF InterruptInv
<1>2. CASE KeyDone
  <2>1. TypeOK'
    BY <1>0, <1>2 DEF KeyDone, TypeOK, Stage
  <2>2. ServiceInv'
    BY <1>0, <1>2 DEF KeyDone, ServiceInv, Held, TypeOK
  <2>3. LatchPending' /\ ReadMeansTick'
    BY <1>0, <1>2 DEF KeyDone, InterruptInv, LatchPending, ReadMeansTick, TypeOK
  <2> QED
    BY <2>1, <2>2, <2>3 DEF InterruptInv
<1>3. CASE TickBegin
  <2>1. TypeOK'
    BY <1>0, <1>3, <1>d DEF TickBegin, ReadC, TypeOK, Stage
  <2>2. ServiceInv'
    BY <1>0, <1>3 DEF TickBegin, ServiceInv, Held, TypeOK
  <2>3. LatchPending'
    BY <1>0, <1>3, <1>d DEF TickBegin, ReadC, InterruptInv, LatchPending, TypeOK
  <2>4. ReadMeansTick'
    BY <1>3 DEF TickBegin, ReadMeansTick
  <2> QED
    BY <2>1, <2>2, <2>3, <2>4 DEF InterruptInv
<1>4. CASE TickDone
  <2>1. isr' = {}
    BY <1>0, <1>4, <1>d DEF TickDone, send_eoi, ServiceInv, Held
  <2>2. TypeOK'
    BY <1>0, <1>4, <2>1 DEF TickDone, TypeOK, Stage
  <2>3. ServiceInv'
    BY <1>0, <1>4, <2>1 DEF TickDone, ServiceInv, Held, TypeOK
  <2>4. LatchPending' /\ ReadMeansTick'
    BY <1>0, <1>4 DEF TickDone, InterruptInv, LatchPending, ReadMeansTick, TypeOK
  <2> QED
    BY <2>2, <2>3, <2>4 DEF InterruptInv
<1>5. CASE \E k \in Terminal : KeySwitch(k)
  <2> PICK k \in Terminal : KeySwitch(k)
    BY <1>5
  <2> USE DEF KeySwitch
  <2>1. handler[k] \in {"no", "scan"} /\ handler[t_visible] = "scan"
    BY DEF InterruptInv, ServiceInv
  <2>2. TypeOK'
    BY <1>0 DEF TypeOK, Place
  <2>3. ServiceInv'
    BY <1>0, <2>1 DEF ServiceInv, Held
  <2>4. LatchPending'
    BY <2>1 DEF InterruptInv, LatchPending
  <2>5. ReadMeansTick'
    BY <1>0 DEF InterruptInv, ReadMeansTick, TypeOK
  <2> QED
    BY <2>2, <2>3, <2>4, <2>5 DEF InterruptInv
<1> QED
  BY <1>1, <1>2, <1>3, <1>4, <1>5

\* A frequency that passes the tests of rtc_write is 2^10 Hz at most.
LEMMA AcceptedPow ==
  ASSUME NEW freq, NEW pow \in 0 .. 15, Accepted(freq, pow)
  PROVE  pow <= 10
<1> SUFFICES ASSUME pow > 10 PROVE FALSE
  OBVIOUS
<1>1. pow + 1 \in {12, 13, 14, 15, 16}
  OBVIOUS
<1>2. TwoTo[12] = 2048 /\ TwoTo[13] = 4096 /\ TwoTo[14] = 8192 /\ TwoTo[15] = 16384
      /\ TwoTo[16] = 32768
  BY DEF TwoTo
<1>3. TwoTo[pow + 1] \in {2048, 4096, 8192, 16384, 32768}
  BY <1>1, <1>2
<1> QED
  BY <1>3 DEF Accepted, HIGH_LIMIT_FREQ

\* The steps of the programs' calls.
LEMMA ProgramInv ==
  ASSUME InterruptInv, Programs
  PROVE  InterruptInv'
<1> USE DEF registers, device, In, GoTo
<1>0. t_visible \in Terminal /\ TypeOK
  BY DEF InterruptInv, TypeOK
<1>1. CASE rtc_open
  <2>1. SourcesFrom(divider) \in SUBSET Source
    BY DEF SourcesFrom, Source
  <2>2. TypeOK'
    BY <1>0, <1>1, <2>1 DEF rtc_open, TypeOK, TWO_HZ_FREQ, Rate
  <2>3. ServiceInv' /\ LatchPending'
    BY <1>1 DEF rtc_open, InterruptInv, ServiceInv, LatchPending
  <2>4. ReadMeansTick'
    BY <1>0, <1>1 DEF rtc_open, InterruptInv, ReadMeansTick, TypeOK
  <2> QED
    BY <2>2, <2>3, <2>4 DEF InterruptInv
<1>2. CASE \E request \in Request, pow \in 0 .. 15 : rtc_write(request, pow)
  <2> PICK request \in Request, pow \in 0 .. 15 : rtc_write(request, pow)
    BY <1>2
  <2> DEFINE new == TWO_HZ_FREQ - pow + FREQ_OFFSET
  <2>0. pow <= 10
    BY AcceptedPow DEF rtc_write
  <2>1. new \in 7 .. 17
    BY <2>0 DEF TWO_HZ_FREQ, FREQ_OFFSET
  <2>2. new % 16 \in Rate
    BY <2>1 DEF Rate
  <2>3. 2 * (divider \div 2) + 1 \in 0 .. 7
    BY <1>0 DEF TypeOK
  <2>4. rate' = new % 16 /\ divider' \in {divider, 2 * (divider \div 2) + 1}
    BY DEF rtc_write
  <2> HIDE DEF new
  <2>5. TypeOK'
    BY <1>0, <2>2, <2>3, <2>4 DEF rtc_write, TypeOK
  <2> QED
    BY <2>5 DEF rtc_write, InterruptInv, ServiceInv, LatchPending, ReadMeansTick
<1>3. CASE ReadCall
  <2>1. TypeOK'
    BY <1>0, <1>3 DEF ReadCall, TypeOK, Place, Lowered
  <2>2. ServiceInv' /\ LatchPending'
    BY <1>3 DEF ReadCall, InterruptInv, ServiceInv, LatchPending
  <2>3. ReadMeansTick'
    BY <1>0, <1>3 DEF ReadCall, InterruptInv, ReadMeansTick, TypeOK, Lowered
  <2> QED
    BY <2>1, <2>2, <2>3 DEF InterruptInv
<1>4. CASE ReadLeave
  <2>1. TypeOK'
    BY <1>0, <1>4 DEF ReadLeave, TypeOK, Place
  <2>2. ServiceInv' /\ LatchPending'
    BY <1>4 DEF ReadLeave, InterruptInv, ServiceInv, LatchPending
  <2>3. ReadMeansTick'
    BY <1>0, <1>4 DEF ReadLeave, InterruptInv, ReadMeansTick, TypeOK
  <2> QED
    BY <2>1, <2>2, <2>3 DEF InterruptInv
<1>5. CASE ReadReturn
  <2>1. TypeOK'
    BY <1>0, <1>5 DEF ReadReturn, TypeOK, Place
  <2>2. ServiceInv' /\ LatchPending'
    BY <1>5 DEF ReadReturn, InterruptInv, ServiceInv, LatchPending
  <2>3. ReadMeansTick'
    BY <1>0, <1>5 DEF ReadReturn, InterruptInv, ReadMeansTick, TypeOK
  <2> QED
    BY <2>1, <2>2, <2>3 DEF InterruptInv
<1> QED
  BY <1>1, <1>2, <1>3, <1>4, <1>5 DEF Programs

\* InterruptInv holds in every behaviour, fair or not.
LEMMA InterruptInvariant == Spec => []InterruptInv
<1>1. InterruptInv /\ [Next]_vars => InterruptInv'
  <2> SUFFICES ASSUME InterruptInv, [Next]_vars PROVE InterruptInv'
    OBVIOUS
  <2>1. CASE Environment
    <3>1. \E l \in Device : Raise(l)
      BY <2>1 DEF Environment, Key, Tick, OtherTick, Device
    <3> QED
      BY <3>1, RaiseInv
  <2>2. CASE Handlers
    <3>1. CASE TakeKey
      BY <3>1, DeliverInv DEF TakeKey, Device, Stage, KEYBOARD_IRQ, IRQ_RTC
    <3>2. CASE TakeTick
      BY <3>2, DeliverInv DEF TakeTick, Device, Stage
    <3> QED
      BY <2>2, <3>1, <3>2, HandlerInv DEF Handlers
  <2>3. CASE Programs
    BY <2>3, ProgramInv
  <2>4. CASE UNCHANGED vars
    BY <2>4 DEF vars, device, registers, InterruptInv, TypeOK, ServiceInv, LatchPending,
       ReadMeansTick
  <2> QED
    BY <2>1, <2>2, <2>3, <2>4 DEF Next
<1> QED
  BY <1>1, InitInterruptInv, PTL DEF Spec

\* Types; in particular, whatever numbers programs write to the clock and however the
\* terminals' calls interleave, the clock is never faster than 1024 Hz: the test against
\* HIGH_LIMIT_FREQ is enough for the exponent that is taken from the truncated number.
THEOREM InterruptsTypeCorrect == Spec => []TypeOK
<1>1. InterruptInv => TypeOK
  BY DEF InterruptInv
<1> QED
  BY <1>1, InterruptInvariant, PTL

\* send_eoi stands early enough in keyboard_handler, and reaches both controllers for
\* the clock: whichever process runs, no line is blocked.
THEOREM EveryLineCanInterrupt == Spec => []NothingLeftInService
<1>1. InterruptInv => NothingLeftInService
  BY DEF InterruptInv, ServiceInv, Held, NothingLeftInService, InterruptsOn
<1> QED
  BY <1>1, InterruptInvariant, PTL

\* rtc_handler's read of register C and the handler's inb keep the devices going: a line
\* that is up has a request or the running handler to lower it.
THEOREM NoDeviceStuck == Spec => []LatchPending
<1>1. InterruptInv => LatchPending
  BY DEF InterruptInv
<1> QED
  BY <1>1, InterruptInvariant, PTL

\* rtc_read does not return unless rtc_handler ran since it was called, whatever the other
\* terminals' reads and opens do with the flag.
THEOREM ReadWaitsForTick == Spec => []ReadMeansTick
<1>1. InterruptInv => ReadMeansTick
  BY DEF InterruptInv
<1> QED
  BY <1>1, InterruptInvariant, PTL
=============================================================================
