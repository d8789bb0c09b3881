------------------------ MODULE LineDisciplineProofs ------------------------
(***************************************************************************)
(* The safety of LineDiscipline for any number of terminals and any size   *)
(* of the line buffer.  Three of the four properties need nothing besides  *)
(* the type invariant; that the handler's newline is a line's last         *)
(* character also needs the length that TypeOK bounds, so all four are     *)
(* carried through each step together.                                     *)
(***************************************************************************)
EXTENDS LineDiscipline, SequenceTheorems, TLAPS

LineInv == TypeOK /\ NewlineFillsLine /\ OnlyTypedDuringRead /\ EnterNotLost

\* A line the buffer can hold.
IsLine(line) ==
    /\ line \in Seq(Char)
    /\ Len(line) <= BUF_SIZE - 1
    /\ \A n \in 1 .. Len(line) : line[n] = "newline" => n = BUF_SIZE - 1

\* LineInv speaks of each buffer through IsLine, and of its early characters.
LEMMA LineInvIsLine ==
    ASSUME LineInv, NEW i \in Terminal
    PROVE  IsLine(buffer[i])
BY DEF LineInv, TypeOK, NewlineFillsLine, IsLine, buffer_idx

\* What Backspace leaves of a line with characters.
LEMMA ErasedLine ==
    ASSUME NEW line \in Seq(Char), line # <<>>
    PROVE  /\ Erase(line) \in Seq(Char)
           /\ Len(Erase(line)) = Len(line) - 1
           /\ \A n \in 1 .. Len(line) - 1 : Erase(line)[n] = line[n]
<1> DEFINE m == Len(line) - 1
<1>1. Len(line) \in Nat /\ Len(line) > 0
  BY EmptySeq
<1>2. Erase(line) = SubSeq(line, 1, m)
  BY Zenon DEF Erase
<1>3. \A i \in 1 .. m : line[i] \in Char
  BY <1>1
<1>4. m \in Int /\ 1 \in Int /\ m >= 0
  BY <1>1
<1> HIDE DEF m
<1>5. /\ SubSeq(line, 1, m) \in Seq(Char)
      /\ Len(SubSeq(line, 1, m)) = IF 1 <= m THEN m - 1 + 1 ELSE 0
      /\ \A n \in 1 .. m - 1 + 1 : SubSeq(line, 1, m)[n] = line[1 + n - 1]
  BY <1>3, <1>4, SubSeqProperties
<1>6. Len(SubSeq(line, 1, m)) = m /\ \A n \in 1 .. m : SubSeq(line, 1, m)[n] = line[n]
  BY <1>4, <1>5
<1> QED
  BY <1>2, <1>5, <1>6 DEF m

\* Backspace leaves a line, with no character that was not there.
LEMMA EraseLine ==
    ASSUME NEW line, IsLine(line)
    PROVE  /\ IsLine(Erase(line))
           /\ \A n \in 1 .. Len(Erase(line)) : n \in 1 .. Len(line) /\ Erase(line)[n] = line[n]
<1>1. CASE line = <<>>
  BY <1>1 DEF Erase, IsLine
<1>2. CASE line # <<>>
  <2>1. Len(line) \in Nat
    BY DEF IsLine
  <2>2. /\ Erase(line) \in Seq(Char) /\ Len(Erase(line)) = Len(line) - 1
        /\ \A n \in 1 .. Len(line) - 1 : Erase(line)[n] = line[n]
    BY <1>2, ErasedLine DEF IsLine
  <2> QED
    BY <2>1, <2>2, LineAssumption DEF IsLine
<1> QED
  BY <1>1, <1>2

\* A key makes a line of a line; every character is an old one, the key, or the
\* handler's newline.
LEMMA TypeLine ==
    ASSUME NEW line, IsLine(line), NEW c \in {"early", "during"}
    PROVE  /\ IsLine(TypeInto(line, c))
           /\ \A n \in 1 .. Len(TypeInto(line, c)) :
                 \/ n \in 1 .. Len(line) /\ TypeInto(line, c)[n] = line[n]
                 \/ TypeInto(line, c)[n] \in {c, "newline"}
<1>0. Len(line) \in Nat /\ line \in Seq(Char) /\ c \in Char /\ "newline" \in Char
  BY DEF IsLine, Char
<1>1. CASE Len(line) < BUF_SIZE - 2
  <2>1. TypeInto(line, c) = Append(line, c)
    BY <1>1 DEF TypeInto
  <2>2. /\ Append(line, c) \in Seq(Char)
        /\ Len(Append(line, c)) = Len(line) + 1
        /\ Append(line, c)[Len(line) + 1] = c
        /\ \A n \in 1 .. Len(line) : Append(line, c)[n] = line[n]
    BY <1>0
  <2>3. c # "newline"
    OBVIOUS
  <2> QED
    BY <1>0, <1>1, <2>1, <2>2, <2>3, LineAssumption DEF IsLine
<1>2. CASE Len(line) = BUF_SIZE - 2
  <2>1. TypeInto(line, c) = Append(line, "newline")
    BY <1>0, <1>2, LineAssumption DEF TypeInto
  <2>2. /\ Append(line, "newline") \in Seq(Char)
        /\ Len(Append(line, "newline")) = Len(line) + 1
        /\ Append(line, "newline")[Len(line) + 1] = "newline"
        /\ \A n \in 1 .. Len(line) : Append(line, "newline")[n] = line[n]
    BY <1>0
  <2> QED
    BY <1>0, <1>2, <2>1, <2>2, LineAssumption DEF IsLine
<1>3. CASE Len(line) > BUF_SIZE - 2
  <2>1. TypeInto(line, c) = <<>>
    BY <1>0, <1>3, LineAssumption DEF TypeInto
  <2> QED
    BY <2>1, LineAssumption DEF IsLine
<1> QED
  BY <1>0, <1>1, <1>2, <1>3, LineAssumption

\* clear_buffer leaves a line.
LEMMA ClearedLine == \A i \in Terminal : IsLine(Cleared(i)) /\ Len(Cleared(i)) = 0
BY LineAssumption DEF Cleared, IsLine

\* A step that changes only the buffer of the visible terminal keeps LineInv if it
\* leaves a line there, with no early character in front of a reader.
LEMMA BufferStep ==
    ASSUME LineInv, NEW line, IsLine(line),
           Reading(t_visible) => \A n \in 1 .. Len(line) : line[n] # "early",
           buffer' = [buffer EXCEPT ![t_visible] = line],
           KeepModifiers,
           UNCHANGED <<t_visible, enter_flag, reader, entered>>
    PROVE  LineInv'
<1>1. TypeOK'
  BY DEF LineInv, TypeOK, IsLine, KeepModifiers, buffer_idx
<1>2. NewlineFillsLine'
  BY DEF LineInv, TypeOK, NewlineFillsLine, IsLine
<1>3. OnlyTypedDuringRead'
  BY DEF LineInv, TypeOK, OnlyTypedDuringRead, Reading
<1>4. EnterNotLost'
  BY DEF LineInv, EnterNotLost, Reading
<1> QED
  BY <1>1, <1>2, <1>3, <1>4 DEF LineInv

\* The start.
LEMMA InitLineInv == Init => LineInv
<1> SUFFICES ASSUME Init PROVE LineInv
  OBVIOUS
<1>1. TypeOK
  BY LineAssumption DEF Init, TypeOK, Terminal, Place, Char, buffer_idx
<1>2. NewlineFillsLine /\ OnlyTypedDuringRead /\ EnterNotLost
  BY DEF Init, NewlineFillsLine, OnlyTypedDuringRead, EnterNotLost, Reading
<1> QED
  BY <1>1, <1>2 DEF LineInv

\* A handler activation.
LEMMA HandlerLineInv == LineInv /\ keyboard_handler => LineInv'
<1> SUFFICES ASSUME LineInv, keyboard_handler PROVE LineInv'
  OBVIOUS
<1>0. t_visible \in Terminal /\ IsLine(buffer[t_visible])
  BY LineInvIsLine DEF LineInv, TypeOK
<1>1. CASE Modifier
  <2>1. TypeOK'
    BY <1>1 DEF LineInv, TypeOK, Modifier, Press, Release, buffer_idx
  <2> QED
    BY <1>1, <2>1 DEF LineInv, NewlineFillsLine, OnlyTypedDuringRead, EnterNotLost, Reading,
       Modifier
<1>2. CASE Enter
  <2>1. TypeOK'
    BY <1>0, <1>2 DEF LineInv, TypeOK, Enter, KeepModifiers, buffer_idx
  <2>2. NewlineFillsLine' /\ OnlyTypedDuringRead'
    BY <1>2 DEF LineInv, NewlineFillsLine, OnlyTypedDuringRead, Reading, Enter
  <2>3. EnterNotLost'
    BY <1>2 DEF LineInv, TypeOK, EnterNotLost, Reading, Enter
  <2> QED
    BY <2>1, <2>2, <2>3 DEF LineInv
<1>3. CASE Backspace
  <2>1. Reading(t_visible) =>
          \A n \in 1 .. Len(Erase(buffer[t_visible])) : Erase(buffer[t_visible])[n] # "early"
    BY <1>0, EraseLine DEF LineInv, OnlyTypedDuringRead
  <2>2. IsLine(Erase(buffer[t_visible]))
    BY <1>0, EraseLine
  <2> QED
    BY <1>3, <2>1, <2>2, BufferStep DEF Backspace
<1>4. CASE Letter
  <2> DEFINE c == IF Reading(t_visible) THEN "during" ELSE "early"
             line == TypeInto(buffer[t_visible], c)
  <2>1. c \in {"early", "during"} /\ (Reading(t_visible) => c = "during")
    OBVIOUS
  <2>2. buffer' = [buffer EXCEPT ![t_visible] = line]
    BY <1>4 DEF Letter
  <2> HIDE DEF c
  <2>3. /\ IsLine(line)
        /\ \A n \in 1 .. Len(line) :
             \/ n \in 1 .. Len(buffer[t_visible]) /\ line[n] = buffer[t_visible][n]
             \/ line[n] \in {c, "newline"}
    BY <1>0, <2>1, TypeLine
  <2> HIDE DEF line
  <2>4. Reading(t_visible) => \A n \in 1 .. Len(line) : line[n] # "early"
    BY <1>0, <2>1, <2>3 DEF LineInv, OnlyTypedDuringRead
  <2> QED
    BY <1>4, <2>2, <2>3, <2>4, BufferStep DEF Letter
<1>5. CASE ClearScreen
  <2> DEFINE line == Cleared(t_visible)
  <2>1. buffer' = [buffer EXCEPT ![t_visible] = line]
    BY <1>5 DEF ClearScreen
  <2>2. IsLine(line) /\ Len(line) = 0
    BY <1>0, ClearedLine
  <2> HIDE DEF line
  <2>3. \A n \in 1 .. Len(line) : line[n] # "early"
    BY <2>2
  <2> QED
    BY <1>5, <2>1, <2>2, <2>3, BufferStep DEF ClearScreen
<1>6. CASE \E k \in Terminal : Switch(k)
  <2> PICK k \in Terminal : Switch(k)
    BY <1>6
  <2>1. TypeOK'
    BY DEF LineInv, TypeOK, Switch, KeepModifiers, buffer_idx
  <2> QED
    BY <2>1 DEF LineInv, NewlineFillsLine, OnlyTypedDuringRead, EnterNotLost, Reading, Switch
<1> QED
  BY <1>1, <1>2, <1>3, <1>4, <1>5, <1>6 DEF keyboard_handler

\* A step of terminal_read.
LEMMA ReaderLineInv == LineInv /\ terminal_read => LineInv'
<1> SUFFICES ASSUME LineInv, terminal_read PROVE LineInv'
  OBVIOUS
<1>0. t_visible \in Terminal /\ IsLine(Cleared(t_visible)) /\ Len(Cleared(t_visible)) = 0
  BY ClearedLine DEF LineInv, TypeOK
<1>1. CASE Call
  <2>1. TypeOK'
    BY <1>0, <1>1 DEF LineInv, TypeOK, Call, KeepModifiers, buffer_idx, IsLine, Place
  <2>2. NewlineFillsLine' /\ OnlyTypedDuringRead'
    BY <1>0, <1>1 DEF LineInv, TypeOK, NewlineFillsLine, OnlyTypedDuringRead, Reading, Call
  <2>3. EnterNotLost'
    BY <1>0, <1>1 DEF LineInv, TypeOK, EnterNotLost, Reading, Call
  <2> QED
    BY <2>1, <2>2, <2>3 DEF LineInv
<1>2. CASE Leave
  <2>1. TypeOK'
    BY <1>0, <1>2 DEF LineInv, TypeOK, Leave, KeepModifiers, buffer_idx, Place
  <2>2. \A i \in Terminal : Reading(i)' <=> Reading(i)
    BY <1>2 DEF LineInv, TypeOK, Reading, Leave
  <2>3. NewlineFillsLine' /\ OnlyTypedDuringRead' /\ EnterNotLost'
    BY <1>2, <2>2 DEF LineInv, NewlineFillsLine, OnlyTypedDuringRead, EnterNotLost, Leave
  <2> QED
    BY <2>1, <2>3 DEF LineInv
<1>3. CASE Return
  <2>1. TypeOK'
    BY <1>0, <1>3 DEF LineInv, TypeOK, Return, KeepModifiers, buffer_idx, IsLine, Place
  <2>2. NewlineFillsLine' /\ OnlyTypedDuringRead'
    BY <1>0, <1>3 DEF LineInv, TypeOK, NewlineFillsLine, OnlyTypedDuringRead, Reading, Return
  <2>3. EnterNotLost'
    BY <1>0, <1>3 DEF LineInv, TypeOK, EnterNotLost, Reading, Return
  <2> QED
    BY <2>1, <2>2, <2>3 DEF LineInv
<1> QED
  BY <1>1, <1>2, <1>3 DEF terminal_read

\* Every step.
LEMMA NextLineInv == LineInv /\ [Next]_vars => LineInv'
<1> SUFFICES ASSUME LineInv, [Next]_vars PROVE LineInv'
  OBVIOUS
<1>1. CASE UNCHANGED vars
  BY <1>1 DEF vars, LineInv, TypeOK, NewlineFillsLine, OnlyTypedDuringRead, EnterNotLost,
     Reading, buffer_idx
<1> QED
  BY <1>1, HandlerLineInv, ReaderLineInv DEF Next

\* LineInv holds in every behaviour; no theorem below needs the fairness of Spec.
LEMMA LineInvariant == Spec => []LineInv
BY InitLineInv, NextLineInv, PTL DEF Spec

\* Type correctness; in particular keyboard_handler's store of the NUL after the
\* line stays inside t[i].buffer, for every sequence of keys.
THEOREM LineTypeCorrect == Spec => []TypeOK
<1>1. LineInv => TypeOK
  BY DEF LineInv
<1> QED
  BY <1>1, LineInvariant, PTL

\* The newline of keyboard_handler only ever stands in the last place of a line.
THEOREM NewlineOnlyAtEnd == Spec => []NewlineFillsLine
<1>1. LineInv => NewlineFillsLine
  BY DEF LineInv
<1> QED
  BY <1>1, LineInvariant, PTL

\* terminal_read never hands over a character that was typed before the call.
THEOREM ReadIsFresh == Spec => []OnlyTypedDuringRead
<1>1. LineInv => OnlyTypedDuringRead
  BY DEF LineInv
<1> QED
  BY <1>1, LineInvariant, PTL

\* Enter pressed during a terminal_read keeps its flag up until that read returns.
THEOREM EnterIsSeen == Spec => []EnterNotLost
<1>1. LineInv => EnterNotLost
  BY DEF LineInv
<1> QED
  BY <1>1, LineInvariant, PTL
=============================================================================
