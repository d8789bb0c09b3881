--------------------------- MODULE StringLibrary ---------------------------
(***************************************************************************)
(* The string and memory functions of lib.c.  A C string is the sequence   *)
(* of characters from its start up to a NUL, perhaps with more behind it;  *)
(* s[i] in C is s[i + 1] here.  Memory is a function from addresses to     *)
(* bytes, and a copy is the order in which it reads and writes them.       *)
(***************************************************************************)
EXTENDS Integers, Sequences

NUL == "NUL"
SPACE == " "
NEWLINE == "\n"

Smaller(m, n) == IF m < n THEN m ELSE n

\* The characters before the first NUL.
strlen(s) == (CHOOSE n \in 1 .. Len(s) : s[n] = NUL /\ \A k \in 1 .. n - 1 : s[k] # NUL) - 1
Text(s) == SubSeq(s, 1, strlen(s))
CString(text) == Append(text, NUL)

\* strncmp(s1, s2, n) == 0: no place before n, or before the end of s1, differs.
SamePrefix(s1, s2, n) ==
    \A k \in 1 .. n :
        (\A j \in 1 .. k - 1 : s1[j] = s2[j] /\ s1[j] # NUL) => s1[k] = s2[k]

\* dest after strcpy(dest, src), and after strncpy(dest, src, n).
strcpy(dest, src) ==
    [k \in 1 .. Len(dest) |-> IF k <= strlen(src) + 1 THEN src[k] ELSE dest[k]]
strncpy(dest, src, n) ==
    [k \in 1 .. Len(dest) |->
        IF k > n THEN dest[k] ELSE IF k <= strlen(src) THEN src[k] ELSE NUL]

-----------------------------------------------------------------------------
(* Numbers and printf.                                                     *)

\* Swaps the places beg and Len(s) - 1 - beg, then the next ones inwards.
Swapping(s) == [beg : Nat, r : [1 .. Len(s) -> {s[k] : k \in 1 .. Len(s)}]]
SwapRound(at, end) ==
    [beg |-> at.beg + 1, r |-> [at.r EXCEPT ![at.beg + 1] = at.r[end], ![end] = at.r[at.beg + 1]]]
Swapped(s, first) ==
    LET Swap[at \in Swapping(s)] ==
            LET end == Len(s) - at.beg
            IN  IF at.beg + 1 < end THEN Swap[SwapRound(at, end)] ELSE at.r
    IN  Swap[[beg |-> first, r |-> s]]

\* strrev, and a mutated form that leaves the last character where it is.
KeepLast(s) == Swapped(s, 1)
strrev(s) == Swapped(s, 0)

Digit == <<"0", "1", "2", "3", "4", "5", "6", "7", "8", "9", "A", "B", "C", "D", "E", "F">>

\* The digits that itoa writes, lowest first, before it reverses them.
itoa(value, radix) ==
    LET Write[v \in Nat] ==
            IF v = 0 THEN <<>> ELSE <<Digit[(v % radix) + 1]>> \o Write[v \div radix]
    IN  IF value = 0 THEN <<"0">> ELSE strrev(Write[value])

\* %#x: the digits go to conv_buf[8] and what is missing of eight is put before them.
Hex8(value) ==
    LET text == itoa(value, 16) IN [k \in 1 .. 8 - Len(text) |-> "0"] \o text

\* An argument of 32 bits, given as an unsigned number or a negative one, as %d reads it.
INT32_MAX == 2147483647
AsInt32(arg) == IF arg > INT32_MAX THEN ((arg - INT32_MAX) - INT32_MAX) - 2 ELSE arg

\* What one conversion of printf prints of its argument.
Converted(spec, arg) ==
    CASE spec = "x"  -> itoa(arg, 16)
      [] spec = "#x" -> Hex8(arg)
      [] spec = "u"  -> itoa(arg, 10)
      [] spec = "d"  -> LET value == AsInt32(arg)
                        IN  IF value < 0 THEN <<"-">> \o itoa(-value, 10) ELSE itoa(value, 10)
      [] spec = "c"  -> <<arg>>
      [] spec = "s"  -> arg

\* printf for a format cut into characters and the conversions "%x", "%#x" and so
\* on, given as <<"%", spec>>; a conversion takes the next argument, %% takes none.
Printing(format) == [k : 1 .. Len(format) + 1, a : Nat]
printf(format, args) ==
    LET From[at \in Printing(format)] ==
            LET next == [k |-> at.k + 1, a |-> at.a]
                nextArg == [k |-> at.k + 1, a |-> at.a + 1]
            IN  IF at.k > Len(format) THEN <<>>
                ELSE IF Len(format[at.k]) = 1 THEN format[at.k] \o From[next]
                ELSE IF format[at.k][2] = "%" THEN <<"%">> \o From[next]
                ELSE Converted(format[at.k][2], args[at.a]) \o From[nextArg]
    IN  From[[k |-> 1, a |-> 1]]

-----------------------------------------------------------------------------
(* Memory.                                                                 *)

\* m after w bytes were read at src and then written at dest.
Moved(m, dest, src, w) ==
    [a \in DOMAIN m |-> IF a \in dest .. dest + w - 1 THEN m[src + a - dest] ELSE m[a]]
Filled(m, dest, c, w) == [a \in DOMAIN m |-> IF a \in dest .. dest + w - 1 THEN c ELSE m[a]]

\* How much memcpy and memset move next: bytes up to an aligned address, then words,
\* then the bytes that are left.
Width(addr, left) == IF addr % 4 = 0 /\ left >= 4 THEN 4 ELSE 1

\* Where a loop is: k bytes done, and the memory then.
LoopState(m, n) == [k : 0 .. n, r : [DOMAIN m -> Nat]]

CopyRound(at, dest, src, n) ==
    LET w == Width(dest + at.k, n - at.k)
    IN  [k |-> at.k + w, r |-> Moved(at.r, dest + at.k, src + at.k, w)]
memcpy(m, dest, src, n) ==
    LET Copy[at \in LoopState(m, n)] ==
            IF at.k = n THEN at.r ELSE Copy[CopyRound(at, dest, src, n)]
    IN  Copy[[k |-> 0, r |-> m]]

FillRound(at, dest, c, n) ==
    LET w == Width(dest + at.k, n - at.k)
    IN  [k |-> at.k + w, r |-> Filled(at.r, dest + at.k, c % 256, w)]
memset(m, dest, c, n) ==
    LET Fill[at \in LoopState(m, n)] ==
            IF at.k = n THEN at.r ELSE Fill[FillRound(at, dest, c, n)]
    IN  Fill[[k |-> 0, r |-> m]]

\* Mutated form: memmove always goes upwards.
AlwaysUp(dest, src) == TRUE

\* memmove goes downwards, byte by byte, when the destination is above the source, and
\* does not clear the direction flag that it set for that.
MovesUp(dest, src) == src >= dest
MoveRound(at, dest, src, n) ==
    LET i == IF MovesUp(dest, src) THEN at.k ELSE n - 1 - at.k
    IN  [k |-> at.k + 1, r |-> Moved(at.r, dest + i, src + i, 1)]
memmove(m, dest, src, n) ==
    LET Move[at \in LoopState(m, n)] ==
            IF at.k = n THEN at.r ELSE Move[MoveRound(at, dest, src, n)]
    IN  Move[[k |-> 0, r |-> m]]
=============================================================================
