--------------------------- MODULE LibraryProofs ---------------------------
(***************************************************************************)
(* Proofs about the pure parts of the kernel, for every input: the copy of *)
(* a part of a file and the search of a name in every file system image,   *)
(* the string functions, the memory functions, and how a command is taken  *)
(* apart.                                                                  *)
(***************************************************************************)
EXTENDS Shell, Inductions, SequenceTheorems

-----------------------------------------------------------------------------
(* Division.                                                               *)

\* The block number and the place in the block that a place in the file has.
LEMMA DivMod ==
  ASSUME NEW b \in Nat \ {0}, NEW c \in Nat, NEW r \in 0 .. b - 1
  PROVE  (c * b + r) \div b = c /\ (c * b + r) % b = r
<1> DEFINE n == c * b + r
           q == n \div b
           m == n % b
<1>1. q \in Int /\ m \in 0 .. b - 1 /\ n = b * q + m
  OBVIOUS
<1> QED
  BY <1>1

\* And back.
LEMMA DivModBack ==
  ASSUME NEW b \in Nat \ {0}, NEW n \in Nat
  PROVE  /\ n \div b \in Nat /\ n % b \in 0 .. b - 1
         /\ n = (n \div b) * b + (n % b)
<1> DEFINE q == n \div b
           m == n % b
<1>1. q \in Int /\ m \in 0 .. b - 1 /\ n = b * q + m
  OBVIOUS
<1>2. q >= 0
  <2> SUFFICES ASSUME q + 1 <= 0 PROVE FALSE
    BY <1>1
  <2>1. b * (q + 1) <= 0
    BY <1>1
  <2> QED
    BY <1>1, <2>1
<1> QED
  BY <1>1, <1>2

-----------------------------------------------------------------------------
(* Strings.                                                                *)

\* strlen is the place of the first NUL.
LEMMA StrlenIs ==
  ASSUME NEW s, Len(s) \in Nat, NEW n \in 1 .. Len(s), s[n] = NUL,
         \A k \in 1 .. n - 1 : s[k] # NUL
  PROVE  strlen(s) = n - 1
<1> DEFINE Ends(m) == s[m] = NUL /\ \A k \in 1 .. m - 1 : s[k] # NUL
<1>1. ASSUME NEW m \in 1 .. Len(s), Ends(m)
      PROVE  m = n
  <2>1. ~(m < n)
    BY <1>1
  <2>2. ~(n < m)
    BY <1>1
  <2> QED
    BY <2>1, <2>2
<1>2. Ends(n)
  OBVIOUS
<1>3. strlen(s) = (CHOOSE m \in 1 .. Len(s) : Ends(m)) - 1
  BY DEF strlen
<1> HIDE DEF Ends
<1>4. (CHOOSE m \in 1 .. Len(s) : Ends(m)) = n
  BY <1>1, <1>2
<1> QED
  BY <1>3, <1>4

\* strncmp says "equal" for n characters exactly when they are, unless the first string
\* ends among them.
LEMMA SamePrefixAgrees ==
  ASSUME NEW s1, NEW s2, NEW n \in Nat, \A j \in 1 .. n - 1 : s1[j] # NUL
  PROVE  SamePrefix(s1, s2, n) <=> \A k \in 1 .. n : s1[k] = s2[k]
<1>1. ASSUME SamePrefix(s1, s2, n)
      PROVE  \A k \in 1 .. n : s1[k] = s2[k]
  <2> DEFINE D == {k \in 1 .. n : s1[k] # s2[k]}
  <2> SUFFICES ASSUME D # {} PROVE FALSE
    OBVIOUS
  <2>1. D \in SUBSET Nat
    OBVIOUS
  <2>2. PICK k \in D : \A j \in D : k <= j
    <3> HIDE DEF D
    <3> QED
      BY <2>1, LeastElement
  <2>3. \A j \in 1 .. k - 1 : s1[j] = s2[j] /\ s1[j] # NUL
    BY <2>2
  <2> QED
    BY <1>1, <2>2, <2>3 DEF SamePrefix
<1>2. ASSUME \A k \in 1 .. n : s1[k] = s2[k]
      PROVE  SamePrefix(s1, s2, n)
  BY <1>2 DEF SamePrefix
<1> QED
  BY <1>1, <1>2

\* A C string made of a text.
LEMMA CStringOf ==
  ASSUME NEW C, NUL \in C, NEW text \in Seq(C)
  PROVE  /\ CString(text) \in Seq(C)
         /\ Len(text) \in Nat /\ Len(CString(text)) = Len(text) + 1
         /\ CString(text)[Len(text) + 1] = NUL
         /\ \A k \in 1 .. Len(text) : CString(text)[k] = text[k]
<1>2. Len(text) \in Nat
  BY LenProperties
<1>3. /\ Append(text, NUL) \in Seq(C)
      /\ Len(Append(text, NUL)) = Len(text) + 1
      /\ \A i \in 1 .. Len(text) : Append(text, NUL)[i] = text[i]
      /\ Append(text, NUL)[Len(text) + 1] = NUL
  BY AppendProperties
<1> QED
  BY <1>2, <1>3 DEF CString

\* Its length, if the text has no NUL.
LEMMA CStringLength ==
  ASSUME NEW C, NUL \in C, NEW text \in Seq(C), \A k \in 1 .. Len(text) : text[k] # NUL
  PROVE  strlen(CString(text)) = Len(text)
<1> DEFINE c == CString(text)
           n == Len(text) + 1
<1>1. /\ Len(text) \in Nat /\ Len(c) = n /\ c[n] = NUL
      /\ \A k \in 1 .. Len(text) : c[k] = text[k]
  BY CStringOf
<1>2. n \in 1 .. Len(c) /\ Len(c) \in Nat /\ \A k \in 1 .. n - 1 : c[k] # NUL /\ n - 1 = Len(text)
  BY <1>1
<1>3. n - 1 = Len(text)
  BY <1>1
<1> HIDE DEF c, n
<1>4. strlen(c) = n - 1
  BY <1>1, <1>2, StrlenIs
<1> QED
  BY <1>3, <1>4 DEF c

\* What a field of n characters holds: the text before its first NUL, or all of it.
LEMMA TextOfField ==
  ASSUME NEW C, NUL \in C, NEW n \in Nat, NEW name \in [1 .. n -> C], NEW text \in Seq(C),
         \A k \in 1 .. Len(text) : text[k] # NUL
  PROVE  Text(CString(name)) = text <=>
            /\ Len(text) <= n
            /\ \A k \in 1 .. Len(text) : name[k] = text[k]
            /\ Len(text) < n => name[Len(text) + 1] = NUL
<1> DEFINE c == CString(name)
           Nuls == {k \in 1 .. n + 1 : c[k] = NUL}
<1>0. Len(text) \in Nat /\ name \in Seq(C) /\ Len(name) = n
  BY LenProperties
<1>1. /\ c \in Seq(C) /\ Len(c) = n + 1 /\ c[n + 1] = NUL
      /\ \A k \in 1 .. n : c[k] = name[k]
  BY <1>0, CStringOf
<1> HIDE DEF c
<1>2. Nuls \in SUBSET Nat /\ Nuls # {}
  BY <1>1
<1>3. PICK e \in Nuls : \A k \in Nuls : e <= k
  <2> HIDE DEF Nuls
  <2> QED
    BY <1>2, LeastElement
<1>4. e \in 1 .. n + 1 /\ c[e] = NUL /\ \A k \in 1 .. e - 1 : c[k] # NUL
  BY <1>1, <1>3
<1>5. strlen(c) = e - 1
  <2>1. Len(c) \in Nat /\ e \in 1 .. Len(c)
    BY <1>1, <1>4
  <2> QED
    BY <1>4, <2>1, StrlenIs
<1>6. /\ Text(c) \in Seq(C) /\ Len(Text(c)) = e - 1
      /\ \A k \in 1 .. e - 1 : Text(c)[k] = c[k]
  <2> DEFINE last == e - 1
  <2>1. /\ 1 \in Int /\ last \in Int /\ last >= 0 /\ \A k \in 1 .. last : c[k] \in C
    BY <1>1, <1>4
  <2>2. Text(c) = SubSeq(c, 1, last)
    BY <1>5 DEF Text
  <2> HIDE DEF last
  <2>3. /\ SubSeq(c, 1, last) \in Seq(C)
        /\ Len(SubSeq(c, 1, last)) = IF 1 <= last THEN last - 1 + 1 ELSE 0
        /\ \A k \in 1 .. last - 1 + 1 : SubSeq(c, 1, last)[k] = c[1 + k - 1]
    BY <2>1, SubSeqProperties
  <2>4. /\ Text(c) \in Seq(C) /\ Len(Text(c)) = last
        /\ \A k \in 1 .. last : Text(c)[k] = c[k]
    <3>1. last - 1 + 1 = last /\ \A k \in 1 .. last : 1 + k - 1 = k
      BY <2>1
    <3>2. Len(SubSeq(c, 1, last)) = last
      BY <2>1, <2>3
    <3>3. \A k \in 1 .. last : SubSeq(c, 1, last)[k] = c[k]
      BY <2>3, <3>1, Zenon
    <3> QED
      BY <2>2, <2>3, <3>2, <3>3
  <2> QED
    BY <2>4 DEF last
<1>7. ASSUME Text(c) = text
      PROVE  /\ Len(text) <= n
             /\ \A k \in 1 .. Len(text) : name[k] = text[k]
             /\ Len(text) < n => name[Len(text) + 1] = NUL
  <2>1. Len(text) = e - 1
    BY <1>6, <1>7
  <2>2. \A k \in 1 .. Len(text) : name[k] = text[k]
    BY <1>1, <1>4, <1>6, <1>7, <2>1
  <2> QED
    BY <1>1, <1>4, <2>1, <2>2
<1>8. ASSUME Len(text) <= n,
             \A k \in 1 .. Len(text) : name[k] = text[k],
             Len(text) < n => name[Len(text) + 1] = NUL
      PROVE  Text(c) = text
  <2>1. c[Len(text) + 1] = NUL /\ \A k \in 1 .. Len(text) : c[k] # NUL
    BY <1>0, <1>1, <1>8
  <2>2. e = Len(text) + 1
    BY <1>0, <1>4, <1>8, <2>1
  <2>3. Len(Text(c)) = Len(text) /\ \A k \in 1 .. Len(Text(c)) : Text(c)[k] = text[k]
    BY <1>0, <1>1, <1>4, <1>6, <1>8, <2>2
  <2> QED
    BY <1>6, <2>3, SeqEqual
<1> QED
  BY <1>7, <1>8 DEF c

-----------------------------------------------------------------------------
(* read_data.                                                              *)

\* One turn of the loop, with what the turns after it do.
CopyBody(f, at) ==
    IF at.left = 0 THEN [bytes |-> <<>>, returned |-> FALSE]
    ELSE IF GoesOn(at)
      THEN [bytes |-> SubSeq(BlockAt(at), StartAt(at) + 1, BLOCK) \o f[NextPlace(at)].bytes,
            returned |-> f[NextPlace(at)].returned]
    ELSE [bytes |-> SubSeq(BlockAt(at), StartAt(at) + 1, StartAt(at) + at.left),
          returned |-> TRUE]

\* The bytes of all blocks of all files.
Byte == {data_arr[inode_arr[i].dblk[n]][k] : i \in Inode, n \in Nat, k \in Nat}
CopyResult == [bytes : Seq(Byte), returned : BOOLEAN]

\* A turn that goes on takes at least one byte.
LEMMA NextPlaceIsPlace ==
  ASSUME NEW at \in Place, at.left # 0
  PROVE  /\ StartAt(at) \in 0 .. BLOCK - 1
         /\ GoesOn(at) => /\ NextPlace(at) \in Place
                          /\ NextPlace(at).left < at.left
                          /\ NextPlace(at).left = at.left - (BLOCK - StartAt(at))
                          /\ NextPlace(at).cur = at.cur + 1
                          /\ NextPlace(at).offset = 0
                          /\ NextPlace(at).inode = at.inode
<1>1. BLOCK \in Nat \ {0} /\ at.left \in Nat \ {0} /\ at.offset \in Nat /\ at.cur \in Nat
  BY ImageAssumption DEF Place
<1>2. at.offset % BLOCK \in 0 .. BLOCK - 1
  BY <1>1
<1>3. StartAt(at) \in 0 .. BLOCK - 1
  BY <1>1, <1>2 DEF StartAt
<1>4. ASSUME GoesOn(at)
      PROVE  at.left - (BLOCK - StartAt(at)) \in Nat
  BY <1>1, <1>2, <1>4 DEF GoesOn, StartAt
<1>5. /\ NextPlace(at).left = at.left - (BLOCK - StartAt(at))
      /\ NextPlace(at).cur = at.cur + 1
      /\ NextPlace(at).offset = 0
      /\ NextPlace(at).inode = at.inode
  BY DEF NextPlace
<1>6. GoesOn(at) => NextPlace(at) \in Place
  BY <1>1, <1>4 DEF NextPlace, Place
<1>7. at.left - (BLOCK - StartAt(at)) < at.left
  BY <1>1, <1>3
<1> QED
  BY <1>3, <1>5, <1>6, <1>7

\* What is copied are bytes of the block.
LEMMA PieceOfBlock ==
  ASSUME NEW at \in Place, NEW m \in Nat, NEW n \in Int
  PROVE  /\ SubSeq(BlockAt(at), m, n) \in Seq(Byte)
         /\ Len(SubSeq(BlockAt(at), m, n)) = IF m <= n THEN n - m + 1 ELSE 0
         /\ \A k \in 1 .. n - m + 1 : SubSeq(BlockAt(at), m, n)[k] = BlockAt(at)[m + k - 1]
<1>1. at.inode \in Inode /\ at.cur + 1 \in Nat
  BY DEF Place
<1>2. \A k \in m .. n : BlockAt(at)[k] \in Byte
  <2> SUFFICES ASSUME NEW k \in m .. n PROVE BlockAt(at)[k] \in Byte
    OBVIOUS
  <2>1. k \in Nat
    OBVIOUS
  <2> QED
    BY <1>1, <2>1 DEF BlockAt, Byte
<1>3. m \in Int
  OBVIOUS
<1> HIDE DEF BlockAt
<1> QED
  BY <1>2, <1>3, SubSeqProperties

\* A turn yields what the type says.
LEMMA CopyBodyType ==
  ASSUME NEW f \in [Place -> CopyResult], NEW at \in Place
  PROVE  CopyBody(f, at) \in CopyResult
<1>1. CASE at.left = 0
  BY <1>1 DEF CopyBody, CopyResult
<1>2. CASE at.left # 0 /\ GoesOn(at)
  <2>1. f[NextPlace(at)] \in CopyResult
    BY <1>2, NextPlaceIsPlace
  <2>2. StartAt(at) + 1 \in Nat /\ BLOCK \in Int
    BY <1>2, NextPlaceIsPlace, ImageAssumption
  <2>3. SubSeq(BlockAt(at), StartAt(at) + 1, BLOCK) \in Seq(Byte)
    BY <2>2, PieceOfBlock
  <2>4. /\ f[NextPlace(at)].bytes \in Seq(Byte)
        /\ f[NextPlace(at)].returned \in BOOLEAN
    BY <2>1 DEF CopyResult
  <2>5. SubSeq(BlockAt(at), StartAt(at) + 1, BLOCK) \o f[NextPlace(at)].bytes \in Seq(Byte)
    BY <2>3, <2>4, ConcatProperties
  <2> QED
    BY <1>2, <2>4, <2>5 DEF CopyBody, CopyResult
<1>3. CASE at.left # 0 /\ ~GoesOn(at)
  <2>1. StartAt(at) + 1 \in Nat /\ StartAt(at) + at.left \in Int
    BY <1>3, NextPlaceIsPlace DEF Place
  <2>2. SubSeq(BlockAt(at), StartAt(at) + 1, StartAt(at) + at.left) \in Seq(Byte)
    BY <2>1, PieceOfBlock
  <2> QED
    BY <1>3, <2>2 DEF CopyBody, CopyResult
<1> QED
  BY <1>1, <1>2, <1>3

\* Copied is the function its definition describes.
LEMMA CopiedUnfolds == Copied = [at \in Place |-> CopyBody(Copied, at)]
<1> DEFINE rank == [at \in Place |-> at.left]
           Step == [f \in [Place -> CopyResult] |-> [at \in Place |-> CopyBody(f, at)]]
           IsCopied(f) == f = [at \in Place |-> CopyBody(f, at)]
<1>1. CopyResult # {}
  <2>1. [bytes |-> <<>>, returned |-> FALSE] \in CopyResult
    BY DEF CopyResult
  <2> QED
    BY <2>1
<1>2. rank \in [Place -> Nat]
  BY DEF Place
<1>3. Step \in [[Place -> CopyResult] -> [Place -> CopyResult]]
  BY CopyBodyType
<1>4. LooksDown(Place, CopyResult, rank, Step)
  <2> SUFFICES ASSUME NEW f \in [Place -> CopyResult], NEW g \in [Place -> CopyResult],
                      NEW at \in Place,
                      \A y \in Place : rank[y] < rank[at] => f[y] = g[y]
               PROVE  Step[f][at] = Step[g][at]
    BY DEF LooksDown
  <2>1. at.left # 0 /\ GoesOn(at) => f[NextPlace(at)] = g[NextPlace(at)]
    BY NextPlaceIsPlace
  <2>2. CopyBody(f, at) = CopyBody(g, at)
    BY <2>1 DEF CopyBody
  <2> QED
    BY <2>2
<1>5. IsDefined(Place, CopyResult, Step)
  <2> HIDE DEF rank, Step
  <2> QED
    BY <1>1, <1>2, <1>3, <1>4, RecursionExists
<1>6. \E f : IsCopied(f)
  BY <1>5 DEF IsDefined
<1>7. Copied = CHOOSE f : IsCopied(f)
  BY DEF Copied, CopyBody
<1> HIDE DEF IsCopied
<1>8. IsCopied(Copied)
  BY <1>6, <1>7
<1> QED
  BY <1>8 DEF IsCopied

\* What the loop copies from one place.
LEMMA CopiedAt ==
  ASSUME NEW at \in Place
  PROVE  Copied[at] = CopyBody(Copied, at)
  BY CopiedUnfolds

\* Nothing is left.
LEMMA CopiedNone ==
  ASSUME NEW at \in Place, at.left = 0
  PROVE  Copied[at].bytes = <<>>
<1>1. CopyBody(Copied, at) = [bytes |-> <<>>, returned |-> FALSE]
  BY DEF CopyBody
<1>2. Copied[at] = [bytes |-> <<>>, returned |-> FALSE]
  BY <1>1, CopiedAt
<1> QED
  BY <1>2

\* The last block.
LEMMA CopiedLast ==
  ASSUME NEW at \in Place, at.left # 0, ~GoesOn(at)
  PROVE  /\ Copied[at].bytes = SubSeq(BlockAt(at), StartAt(at) + 1, StartAt(at) + at.left)
         /\ Copied[at].returned = TRUE
<1> DEFINE piece == SubSeq(BlockAt(at), StartAt(at) + 1, StartAt(at) + at.left)
<1>1. CopyBody(Copied, at) = [bytes |-> piece, returned |-> TRUE]
  BY DEF CopyBody
<1> HIDE DEF piece
<1>2. Copied[at] = [bytes |-> piece, returned |-> TRUE]
  BY <1>1, CopiedAt
<1>3. Copied[at].bytes = piece /\ Copied[at].returned = TRUE
  BY <1>2
<1> QED
  BY <1>3, Zenon DEF piece

\* A block that is not the last.
LEMMA CopiedMore ==
  ASSUME NEW at \in Place, at.left # 0, GoesOn(at)
  PROVE  /\ Copied[at].bytes = SubSeq(BlockAt(at), StartAt(at) + 1, BLOCK) \o Copied[NextPlace(at)].bytes
         /\ Copied[at].returned = Copied[NextPlace(at)].returned
<1> DEFINE bytes == SubSeq(BlockAt(at), StartAt(at) + 1, BLOCK) \o Copied[NextPlace(at)].bytes
           returned == Copied[NextPlace(at)].returned
<1>1. CopyBody(Copied, at) = [bytes |-> bytes, returned |-> returned]
  BY DEF CopyBody
<1> HIDE DEF bytes, returned
<1>2. Copied[at] = [bytes |-> bytes, returned |-> returned]
  BY <1>1, CopiedAt
<1>3. Copied[at].bytes = bytes /\ Copied[at].returned = returned
  BY <1>2
<1> QED
  BY <1>3, Zenon DEF bytes, returned

\* A byte of a file by its place in the file, and the place that the loop is at.
FileByte(inode, j) ==
    data_arr[inode_arr[inode].dblk[(j \div BLOCK) + 1]][(j % BLOCK) + 1]
PlaceInFile(at) == at.cur * BLOCK + StartAt(at)

\* The loop copies the bytes of the file from there on, as many as are left.
Exact(at) ==
    /\ Copied[at].bytes \in Seq(Byte)
    /\ Len(Copied[at].bytes) = at.left
    /\ \A k \in 1 .. at.left : Copied[at].bytes[k] = FileByte(at.inode, PlaceInFile(at) + (k - 1))

\* A byte of the block at a place.
LEMMA BlockByte ==
  ASSUME NEW at \in Place, at.left # 0, NEW k \in 1 .. BLOCK - StartAt(at)
  PROVE  BlockAt(at)[StartAt(at) + k] = FileByte(at.inode, PlaceInFile(at) + (k - 1))
<1> DEFINE r == StartAt(at) + (k - 1)
           j == at.cur * BLOCK + r
<1>1. BLOCK \in Nat \ {0} /\ at.cur \in Nat /\ StartAt(at) \in 0 .. BLOCK - 1
  BY NextPlaceIsPlace, ImageAssumption DEF Place
<1>2. r \in 0 .. BLOCK - 1 /\ r + 1 = StartAt(at) + k
  BY <1>1
<1> HIDE DEF r
<1>3. j \div BLOCK = at.cur /\ j % BLOCK = r
  BY <1>1, <1>2, DivMod
<1>4. PlaceInFile(at) + (k - 1) = j
  <2>1. at.cur * BLOCK \in Int
    BY <1>1
  <2> QED
    BY <1>1, <2>1 DEF PlaceInFile, r
<1> HIDE DEF j
<1> QED
  BY <1>2, <1>3, <1>4 DEF FileByte, BlockAt

\* For every place.
LEMMA CopiedExactly == \A at \in Place : Exact(at)
<1> DEFINE S == {n \in Nat : \A at \in Place : at.left = n => Exact(at)}
<1>1. ASSUME NEW n \in Nat, \A m \in Nat : m < n => m \in S
      PROVE  n \in S
  <2> SUFFICES ASSUME NEW at \in Place, at.left = n PROVE Exact(at)
    OBVIOUS
  <2>0. at.left \in Nat /\ BLOCK \in Nat \ {0} /\ at.cur \in Nat
    BY ImageAssumption DEF Place
  <2>1. CASE n = 0
    <3>1. Copied[at].bytes = <<>>
      BY <2>1, CopiedNone
    <3> QED
      BY <2>1, <3>1 DEF Exact
  <2>2. CASE n # 0 /\ ~GoesOn(at)
    <3> DEFINE piece == SubSeq(BlockAt(at), StartAt(at) + 1, StartAt(at) + at.left)
    <3>1. StartAt(at) \in 0 .. BLOCK - 1
      BY <2>2, NextPlaceIsPlace
    <3>2. Copied[at].bytes = piece
      BY <2>2, CopiedLast
    <3>3. StartAt(at) + 1 \in Nat /\ StartAt(at) + at.left \in Int
      BY <2>0, <3>1
    <3>4. /\ piece \in Seq(Byte) /\ Len(piece) = at.left
          /\ \A k \in 1 .. at.left : piece[k] = BlockAt(at)[StartAt(at) + k]
      <4>1. /\ piece \in Seq(Byte)
            /\ Len(piece) = IF StartAt(at) + 1 <= StartAt(at) + at.left
                              THEN (StartAt(at) + at.left) - (StartAt(at) + 1) + 1 ELSE 0
            /\ \A k \in 1 .. (StartAt(at) + at.left) - (StartAt(at) + 1) + 1 :
                 piece[k] = BlockAt(at)[StartAt(at) + 1 + k - 1]
        <5> DEFINE first == StartAt(at) + 1
                   last == StartAt(at) + at.left
        <5>1. first \in Nat /\ last \in Int
          BY <3>3
        <5> HIDE DEF first, last
        <5>2. /\ SubSeq(BlockAt(at), first, last) \in Seq(Byte)
              /\ Len(SubSeq(BlockAt(at), first, last)) = IF first <= last THEN last - first + 1 ELSE 0
              /\ \A k \in 1 .. last - first + 1 :
                   SubSeq(BlockAt(at), first, last)[k] = BlockAt(at)[first + k - 1]
          BY <5>1, PieceOfBlock
        <5> QED
          BY <5>2, Zenon DEF first, last
      <4> HIDE DEF piece
      <4>2. (StartAt(at) + at.left) - (StartAt(at) + 1) + 1 = at.left
        BY <2>0, <3>1
      <4>3. \A k \in 1 .. at.left : StartAt(at) + 1 + k - 1 = StartAt(at) + k
        BY <2>0, <3>1
      <4> QED
        <5>1. Len(piece) = at.left
          BY <2>0, <2>2, <3>1, <4>1, <4>2
        <5>2. \A k \in 1 .. at.left : piece[k] = BlockAt(at)[StartAt(at) + k]
          BY <4>1, <4>2, <4>3, Zenon
        <5> QED
          BY <4>1, <5>1, <5>2
    <3>5. at.left <= BLOCK - StartAt(at)
      BY <2>0, <2>2, <3>1 DEF GoesOn, StartAt
    <3> HIDE DEF piece
    <3>6. \A k \in 1 .. at.left : BlockAt(at)[StartAt(at) + k] = FileByte(at.inode, PlaceInFile(at) + (k - 1))
      BY <2>0, <2>2, <3>1, <3>5, BlockByte
    <3> QED
      BY <3>2, <3>4, <3>6 DEF Exact
  <2>3. CASE n # 0 /\ GoesOn(at)
    <3> DEFINE piece == SubSeq(BlockAt(at), StartAt(at) + 1, BLOCK)
               next == NextPlace(at)
               w == BLOCK - StartAt(at)
    <3>1. /\ StartAt(at) \in 0 .. BLOCK - 1
          /\ next \in Place /\ next.left < at.left /\ next.left = at.left - w
          /\ next.cur = at.cur + 1 /\ next.offset = 0 /\ next.inode = at.inode
      BY <2>3, NextPlaceIsPlace
    <3>2. Copied[at].bytes = piece \o Copied[next].bytes
      BY <2>3, CopiedMore
    <3>3. Exact(next)
      <4>1. next.left \in Nat /\ next.left < n
        BY <3>1 DEF Place
      <4>2. next.left \in S
        BY <1>1, <4>1
      <4> QED
        BY <3>1, <4>2
    <3>4. /\ piece \in Seq(Byte) /\ Len(piece) = w
          /\ \A k \in 1 .. w : piece[k] = BlockAt(at)[StartAt(at) + k]
      <4>0. StartAt(at) + 1 \in Nat /\ BLOCK \in Int
        BY <2>0, <3>1
      <4>1. /\ piece \in Seq(Byte)
            /\ Len(piece) = IF StartAt(at) + 1 <= BLOCK THEN BLOCK - (StartAt(at) + 1) + 1 ELSE 0
            /\ \A k \in 1 .. BLOCK - (StartAt(at) + 1) + 1 :
                 piece[k] = BlockAt(at)[StartAt(at) + 1 + k - 1]
        BY <4>0, PieceOfBlock
      <4> HIDE DEF piece
      <4>2. BLOCK - (StartAt(at) + 1) + 1 = w
        BY <2>0, <3>1
      <4>3. \A k \in 1 .. w : StartAt(at) + 1 + k - 1 = StartAt(at) + k
        BY <2>0, <3>1
      <4> QED
        BY <2>0, <3>1, <4>1, <4>2, <4>3
    <3>5. /\ PlaceInFile(next) = PlaceInFile(at) + w
          /\ PlaceInFile(at) \in Int /\ w \in Int
      <4>1. StartAt(next) = 0
        BY <3>1 DEF StartAt
      <4>2. (at.cur + 1) * BLOCK = at.cur * BLOCK + BLOCK /\ at.cur * BLOCK \in Int
        BY <2>0
      <4> QED
        BY <2>0, <3>1, <4>1, <4>2 DEF PlaceInFile
    <3> HIDE DEF piece, next, w
    <3>6. /\ Copied[at].bytes \in Seq(Byte)
          /\ Len(Copied[at].bytes) = w + next.left
          /\ \A k \in 1 .. w + next.left :
               Copied[at].bytes[k] = IF k <= w THEN piece[k] ELSE Copied[next].bytes[k - w]
      <4> DEFINE rest == Copied[next].bytes
      <4>1. rest \in Seq(Byte) /\ Len(rest) = next.left
        BY <3>3 DEF Exact
      <4> HIDE DEF rest
      <4>2. /\ piece \o rest \in Seq(Byte)
            /\ Len(piece \o rest) = Len(piece) + Len(rest)
            /\ \A k \in 1 .. Len(piece) + Len(rest) :
                 (piece \o rest)[k] = IF k <= Len(piece) THEN piece[k] ELSE rest[k - Len(piece)]
        BY <3>4, <4>1, ConcatProperties
      <4>3. Copied[at].bytes = piece \o rest
        BY <3>2 DEF rest
      <4>4. /\ piece \o rest \in Seq(Byte)
            /\ Len(piece \o rest) = w + next.left
            /\ \A k \in 1 .. w + next.left :
                 (piece \o rest)[k] = IF k <= w THEN piece[k] ELSE rest[k - w]
        BY <3>4, <4>1, <4>2
      <4> QED
        BY <4>3, <4>4 DEF rest
    <3>7. at.left = w + next.left /\ next.left \in Nat
      BY <2>0, <3>1, <3>5 DEF Place
    <3>8. ASSUME NEW k \in 1 .. at.left
          PROVE  Copied[at].bytes[k] = FileByte(at.inode, PlaceInFile(at) + (k - 1))
      <4>1. CASE k <= w
        <5>1. k \in 1 .. BLOCK - StartAt(at)
          BY <3>8, <4>1 DEF w
        <5>2. piece[k] = FileByte(at.inode, PlaceInFile(at) + (k - 1))
          BY <2>3, <3>4, <4>1, <5>1, BlockByte
        <5> QED
          BY <3>6, <3>7, <4>1, <5>2
      <4>2. CASE k > w
        <5>1. k - w \in 1 .. next.left
          BY <3>5, <3>7, <4>2
        <5> DEFINE i == k - w
        <5>a. i \in 1 .. next.left
          BY <5>1
        <5> HIDE DEF i
        <5>b. Copied[next].bytes[i] = FileByte(next.inode, PlaceInFile(next) + (i - 1))
          BY <3>3, <5>a DEF Exact
        <5>2. Copied[next].bytes[k - w] = FileByte(next.inode, PlaceInFile(next) + (k - w - 1))
          BY <5>b DEF i
        <5>3. PlaceInFile(next) + (k - w - 1) = PlaceInFile(at) + (k - 1)
          BY <3>5
        <5>4. Copied[at].bytes[k] = Copied[next].bytes[k - w]
          <6>1. k \in 1 .. w + next.left /\ ~(k <= w)
            BY <3>5, <3>7, <4>2
          <6> QED
            BY <3>6, <6>1, Zenon
        <5> QED
          BY <3>1, <5>2, <5>3, <5>4
      <4> QED
        BY <3>5, <4>1, <4>2
    <3> QED
      BY <3>6, <3>7, <3>8 DEF Exact
  <2> QED
    BY <2>1, <2>2, <2>3
<1>2. S = Nat
  <2>1. S \in SUBSET Nat
    OBVIOUS
  <2> HIDE DEF S
  <2> QED
    BY <1>1, <2>1, AllNaturals
<1> QED
  BY <1>2 DEF Place

\* What is less than a block is returned.
LEMMA CopiedReturns ==
  ASSUME NEW at \in Place, at.left \in 1 .. BLOCK - 1
  PROVE  Copied[at].returned = TRUE
<1>1. BLOCK \in Nat \ {0} /\ at.left # 0
  BY ImageAssumption
<1>2. CASE GoesOn(at)
  <2> DEFINE next == NextPlace(at)
  <2>1. /\ StartAt(at) \in 0 .. BLOCK - 1
        /\ next \in Place /\ next.left = at.left - (BLOCK - StartAt(at)) /\ next.offset = 0
    BY <1>1, <1>2, NextPlaceIsPlace
  <2>2. BLOCK - StartAt(at) < at.left
    BY <1>1, <1>2 DEF GoesOn
  <2>3. next.left \in 1 .. BLOCK - 1
    BY <1>1, <2>1, <2>2
  <2>4. Copied[at].returned = Copied[next].returned
    BY <1>1, <1>2, CopiedMore
  <2> HIDE DEF next
  <2>5. next.left # 0 /\ ~GoesOn(next)
    BY <1>1, <2>1, <2>3 DEF GoesOn
  <2>6. Copied[next].returned = TRUE
    BY <2>1, <2>5, CopiedLast
  <2> QED
    BY <2>4, <2>6
<1>3. CASE ~GoesOn(at)
  BY <1>1, <1>3, CopiedLast
<1> QED
  BY <1>2, <1>3

\* How many bytes of a file there are from an offset on, length at most.
Amount(inode, offset, length) ==
    IF offset < inode_arr[inode].length
      THEN Smaller(length, inode_arr[inode].length - offset) ELSE 0

\* r is the answer for that part of the file.
AnswersPart(r, inode, offset, n) ==
    /\ r.bytes \in Seq(Byte)
    /\ Len(r.bytes) = n
    /\ \A k \in 1 .. n : r.bytes[k] = FileByte(inode, offset + (k - 1))
    /\ r.ret \in {0, n}
    /\ n < BLOCK => r.ret = n

\* Whatever image it works on, and whatever part of whatever file is asked for,
\* read_data puts exactly the bytes of the file that are there into the buffer; it
\* returns their number if they are less than a block, and else their number or 0.
THEOREM ReadsExactly ==
  ASSUME NEW inode \in Inode, NEW offset \in Nat, NEW length \in Nat
  PROVE  AnswersPart(read_data(inode, offset, length), inode, offset, Amount(inode, offset, length))
<1> DEFINE size == inode_arr[inode].length
           n == Rest(size, offset, length)
           at == [inode |-> inode, left |-> n, cur |-> offset \div BLOCK, offset |-> offset]
           r == read_data(inode, offset, length)
<1>1. BLOCK \in Nat \ {0} /\ size \in Nat
  BY ImageAssumption
<1>2. CASE offset >= size
  <2>1. r = [ret |-> 0, bytes |-> <<>>]
    BY <1>2 DEF read_data
  <2>2. Amount(inode, offset, length) = 0
    BY <1>1, <1>2 DEF Amount
  <2> HIDE DEF r
  <2>3. r.ret = 0 /\ r.bytes = <<>>
    BY <2>1
  <2>4. AnswersPart(r, inode, offset, 0)
    BY <2>3 DEF AnswersPart
  <2> QED
    BY <2>2, <2>4 DEF r
<1>3. CASE offset < size
  <2>1. n = Smaller(length, size - offset) /\ n \in Nat
    BY <1>1, <1>3 DEF Rest, Smaller
  <2>2. Amount(inode, offset, length) = n
    BY <1>3, <2>1 DEF Amount
  <2>3. r = [ret |-> IF Copied[at].returned THEN n ELSE 0, bytes |-> Copied[at].bytes]
    BY <1>1, <1>3 DEF read_data
  <2> HIDE DEF n, r
  <2>4. /\ offset \div BLOCK \in Nat /\ offset % BLOCK \in 0 .. BLOCK - 1
        /\ offset = (offset \div BLOCK) * BLOCK + (offset % BLOCK)
    BY <1>1, DivModBack
  <2>5. at \in Place /\ at.left = n /\ at.inode = inode /\ at.offset = offset
    BY <2>1, <2>4 DEF Place
  <2>6. PlaceInFile(at) = offset
    <3>1. at.cur = offset \div BLOCK /\ at.offset = offset
      OBVIOUS
    <3> HIDE DEF at
    <3>2. CASE offset = 0
      <4>1. StartAt(at) = 0 /\ offset % BLOCK = 0
        BY <1>1, <3>1, <3>2 DEF StartAt
      <4> QED
        BY <2>4, <3>1, <4>1 DEF PlaceInFile
    <3>3. CASE offset # 0
      <4>1. StartAt(at) = offset % BLOCK
        BY <3>1, <3>3 DEF StartAt
      <4> QED
        BY <2>4, <3>1, <4>1 DEF PlaceInFile
    <3> QED
      BY <3>2, <3>3
  <2> HIDE DEF at
  <2>7. Exact(at)
    BY <2>5, CopiedExactly
  <2>8. r.ret = (IF Copied[at].returned THEN n ELSE 0) /\ r.bytes = Copied[at].bytes
    BY <2>3
  <2>9. n < BLOCK => r.ret = n
    <3>1. CASE n = 0
      BY <2>8, <3>1
    <3>2. CASE n \in 1 .. BLOCK - 1
      BY <2>5, <2>8, <3>2, CopiedReturns
    <3> QED
      BY <1>1, <2>1, <3>1, <3>2
  <2>10. AnswersPart(r, inode, offset, n)
    BY <2>5, <2>6, <2>7, <2>8, <2>9 DEF AnswersPart, Exact
  <2> QED
    BY <2>2, <2>10 DEF r
<1> QED
  BY <1>1, <1>2, <1>3

-----------------------------------------------------------------------------
(* read_dentry_by_name.                                                    *)

NameIn(k) == Text(CString(dir_entries[k].file_name))
Searched(text) ==
    {k \in 1 .. Len(dir_entries) :
        SamePrefix(CString(text), dir_entries[k].file_name, Compared(CString(text)))}

\* The comparison is with the NUL unless the name fills the field, so it finds what has
\* exactly this name.
LEMMA ComparesWholeNames ==
  ASSUME NEW C, {NUL} \union STRING \subseteq C, NEW text \in Seq(C), \A k \in 1 .. Len(text) : text[k] # NUL,
         Len(text) <= NAME_SIZE, NEW k \in 1 .. Len(dir_entries)
  PROVE  k \in Searched(text) <=> NameIn(k) = text
<1> DEFINE c == CString(text)
           name == dir_entries[k].file_name
           n == Compared(c)
<1>1. /\ Len(text) \in Nat /\ c[Len(text) + 1] = NUL
      /\ \A j \in 1 .. Len(text) : c[j] = text[j]
  BY CStringOf
<1>2. strlen(c) = Len(text)
  BY CStringLength
<1>3. NAME_SIZE \in Nat /\ name \in [1 .. NAME_SIZE -> C]
  BY ImageAssumption
<1> HIDE DEF c, name
<1>4. n = (IF Len(text) = NAME_SIZE THEN NAME_SIZE ELSE Len(text) + 1)
  BY <1>2 DEF Compared
<1> HIDE DEF n
<1>5. n \in Nat /\ \A j \in 1 .. n - 1 : c[j] # NUL
  BY <1>1, <1>3, <1>4
<1>6. SamePrefix(c, name, n) <=> \A j \in 1 .. n : c[j] = name[j]
  BY <1>5, SamePrefixAgrees
<1>7. (\A j \in 1 .. n : c[j] = name[j]) <=>
        /\ \A j \in 1 .. Len(text) : name[j] = text[j]
        /\ Len(text) < NAME_SIZE => name[Len(text) + 1] = NUL
  <2>1. CASE Len(text) = NAME_SIZE
    BY <1>1, <1>3, <1>4, <2>1
  <2>2. CASE Len(text) < NAME_SIZE
    <3>1. \A j \in 1 .. n : j \in 1 .. Len(text) \/ j = Len(text) + 1
      BY <1>1, <1>4, <2>2
    <3>2. \A j \in 1 .. Len(text) : j \in 1 .. n
      BY <1>1, <1>4, <2>2
    <3>3. Len(text) + 1 \in 1 .. n
      BY <1>1, <1>4, <2>2
    <3> QED
      BY <1>1, <2>2, <3>1, <3>2, <3>3
  <2> QED
    BY <1>1, <1>3, <2>1, <2>2
<1>8. Text(CString(name)) = text <=>
        /\ Len(text) <= NAME_SIZE
        /\ \A j \in 1 .. Len(text) : name[j] = text[j]
        /\ Len(text) < NAME_SIZE => name[Len(text) + 1] = NUL
  BY <1>3, TextOfField
<1>9. k \in Searched(text) <=> SamePrefix(c, name, n)
  BY DEF Searched, c, name, n
<1>10. NameIn(k) = Text(CString(name))
  BY DEF NameIn, name
<1> QED
  BY <1>6, <1>7, <1>8, <1>9, <1>10

\* An entry that is not in use has no name.
LEMMA UnusedHasNoName ==
  ASSUME NEW C, {NUL} \union STRING \subseteq C, NEW text \in Seq(C), text # <<>>, \A k \in 1 .. Len(text) : text[k] # NUL,
         NEW k \in 1 .. Len(dir_entries), NameIn(k) = text
  PROVE  k \in 1 .. num_of_dirE
<1> DEFINE name == dir_entries[k].file_name
<1>1. Len(text) \in Nat /\ Len(text) # 0
  BY EmptySeq, LenProperties
<1>2. NAME_SIZE \in Nat /\ name \in [1 .. NAME_SIZE -> C]
  BY ImageAssumption
<1>3. k > num_of_dirE => \A j \in 1 .. NAME_SIZE : name[j] = NUL
  BY ImageAssumption
<1>4. NameIn(k) = Text(CString(name))
  BY DEF NameIn
<1> HIDE DEF name
<1>5. Len(text) <= NAME_SIZE /\ \A j \in 1 .. Len(text) : name[j] = text[j]
  <2>1. NUL \in C /\ Text(CString(name)) = text
    BY <1>4
  <2>2. Text(CString(name)) = text <=>
          /\ Len(text) <= NAME_SIZE
          /\ \A j \in 1 .. Len(text) : name[j] = text[j]
          /\ Len(text) < NAME_SIZE => name[Len(text) + 1] = NUL
    BY <1>2, <2>1, TextOfField
  <2> QED
    BY <2>1, <2>2
<1>6. name[1] # NUL /\ 1 \in 1 .. NAME_SIZE
  BY <1>1, <1>2, <1>5
<1> QED
  BY <1>3, <1>6, ImageAssumption

\* Whatever names the image holds, also ones that begin with each other or fill their
\* field: a search for a name finds the first entry in use that has exactly it, and
\* nothing if none has.
THEOREM SearchFindsName ==
  ASSUME NEW T, NEW text \in Seq(T), text # <<>>, \A k \in 1 .. Len(text) : text[k] # NUL
  PROVE  \/ /\ read_dentry_by_name(CString(text)) = NotFound
            /\ \A k \in 1 .. num_of_dirE : NameIn(k) # text
         \/ \E k \in 1 .. num_of_dirE :
              /\ read_dentry_by_name(CString(text)) = dir_entries[k]
              /\ NameIn(k) = text
              /\ \A j \in 1 .. k - 1 : NameIn(j) # text
<1> DEFINE found == read_dentry_by_name(CString(text))
           Matches == Searched(text)
           C == T \union STRING \union {NUL}
<1>0. text \in Seq(C) /\ {NUL} \union STRING \subseteq C
  <2>1. T \subseteq C
    OBVIOUS
  <2> QED
    BY <2>1, SeqMonotonic
<1> HIDE DEF C
<1>1. Len(text) \in Nat /\ NAME_SIZE \in Nat /\ num_of_dirE \in Nat /\ num_of_dirE <= Len(dir_entries)
  BY <1>0, ImageAssumption, LenProperties
<1>2. strlen(CString(text)) = Len(text)
  BY <1>0, CStringLength
<1>3. found = IF Len(text) > NAME_SIZE \/ Matches = {} THEN NotFound
              ELSE dir_entries[CHOOSE k \in Matches : \A j \in Matches : k <= j]
  BY <1>2 DEF read_dentry_by_name, Searched
<1> HIDE DEF found
<1>4. CASE Len(text) > NAME_SIZE
  <2>1. ASSUME NEW k \in 1 .. num_of_dirE PROVE NameIn(k) # text
    <3> DEFINE name == dir_entries[k].file_name
    <3>1. name \in [1 .. NAME_SIZE -> C]
      BY <1>0, <1>1, ImageAssumption
    <3>2. NameIn(k) = Text(CString(name))
      BY DEF NameIn
    <3> HIDE DEF name
    <3>3. NUL \in C
      BY <1>0
    <3>4. Text(CString(name)) = text => Len(text) <= NAME_SIZE
      BY <1>0, <1>1, <3>1, <3>3, TextOfField
    <3> QED
      BY <1>1, <1>4, <3>2, <3>4
  <2> QED
    BY <1>3, <1>4, <2>1 DEF found
<1>5. CASE Len(text) <= NAME_SIZE /\ Matches = {}
  <2>1. \A k \in 1 .. num_of_dirE : NameIn(k) # text
    BY <1>0, <1>1, <1>5, ComparesWholeNames, ImageAssumption
  <2> QED
    BY <1>3, <1>5, <2>1 DEF found
<1>6. CASE Len(text) <= NAME_SIZE /\ Matches # {}
  <2>1. Matches \in SUBSET Nat
    BY ImageAssumption DEF Searched
  <2>2. \E k \in Matches : \A j \in Matches : k <= j
    <3> HIDE DEF Matches
    <3> QED
      BY <1>6, <2>1, LeastElement
  <2> DEFINE k == CHOOSE k \in Matches : \A j \in Matches : k <= j
  <2>3. k \in Matches /\ \A j \in Matches : k <= j
    BY <2>2
  <2>4. found = dir_entries[k]
    BY <1>1, <1>3, <1>6
  <2> HIDE DEF k
  <2>5. k \in 1 .. Len(dir_entries)
    BY <2>3 DEF Searched
  <2>6. NameIn(k) = text
    BY <1>6, <2>3, <2>5, <1>0, ComparesWholeNames
  <2>7. k \in 1 .. num_of_dirE
    BY <2>5, <2>6, <1>0, UnusedHasNoName
  <2>8. ASSUME NEW j \in 1 .. k - 1 PROVE NameIn(j) # text
    <3>1. j \in 1 .. Len(dir_entries) /\ j < k
      BY <2>5, ImageAssumption
    <3>2. j \notin Matches
      BY <2>1, <2>3, <3>1
    <3> QED
      BY <1>6, <3>1, <3>2, <1>0, ComparesWholeNames
  <2> QED
    BY <2>4, <2>6, <2>7, <2>8 DEF found
<1> QED
  BY <1>1, <1>4, <1>5, <1>6

-----------------------------------------------------------------------------
(* Arguments.                                                              *)

\* What a buffer holds that begins with the characters of a text and a NUL.
LEMMA TextIs ==
  ASSUME NEW C, NEW s \in Seq(C), NEW text \in Seq(C),
         \A k \in 1 .. Len(text) : text[k] # NUL,
         Len(text) < Len(s), s[Len(text) + 1] = NUL,
         \A k \in 1 .. Len(text) : s[k] = text[k]
  PROVE  strlen(s) = Len(text) /\ Text(s) = text
<1> DEFINE e == Len(text) + 1
           last == Len(text)
<1>1. last \in Nat /\ Len(s) \in Nat
  BY LenProperties
<1>2. e \in 1 .. Len(s) /\ e - 1 = last /\ \A k \in 1 .. e - 1 : s[k] # NUL
  BY <1>1
<1> HIDE DEF e
<1>3. s[e] = NUL
  BY DEF e
<1>4. strlen(s) = e - 1
  BY <1>1, <1>2, <1>3, StrlenIs
<1>5. Text(s) = SubSeq(s, 1, last)
  BY <1>2, <1>4 DEF Text
<1>6. 1 \in Int /\ last \in Int /\ \A k \in 1 .. last : s[k] \in C
  <2>1. \A k \in 1 .. last : s[k] = text[k] /\ text[k] \in C
    BY ElementOfSeq
  <2> QED
    BY <1>1, <2>1
<1>7. \A k \in 1 .. last : s[k] = text[k]
  OBVIOUS
<1>8. last = Len(text)
  OBVIOUS
<1> HIDE DEF last
<1>9. /\ SubSeq(s, 1, last) \in Seq(C)
      /\ Len(SubSeq(s, 1, last)) = IF 1 <= last THEN last - 1 + 1 ELSE 0
      /\ \A k \in 1 .. last - 1 + 1 : SubSeq(s, 1, last)[k] = s[1 + k - 1]
  BY <1>6, SubSeqProperties
<1>10. last - 1 + 1 = last /\ \A k \in 1 .. last : 1 + k - 1 = k
  BY <1>1
<1>11. Len(SubSeq(s, 1, last)) = Len(text)
  BY <1>1, <1>8, <1>9
<1>12. \A k \in 1 .. Len(SubSeq(s, 1, last)) : SubSeq(s, 1, last)[k] = text[k]
  BY <1>7, <1>8, <1>9, <1>10, <1>11, Zenon
<1>13. SubSeq(s, 1, last) = text
  BY <1>9, <1>11, <1>12, SeqEqual
<1> QED
  BY <1>2, <1>4, <1>5, <1>8, <1>13

\* Whatever stood in the PCB and in the buffer before: getargs gives back the argument that
\* execute copied into the PCB, exactly when it and its NUL fit into the bytes that the
\* program offers, and otherwise fails without touching the buffer.
THEOREM ArgumentRoundTrip ==
  ASSUME NEW C, NUL \in C, NEW a \in Seq(C), \A k \in 1 .. Len(a) : a[k] # NUL,
         NEW field \in Seq(C), Len(a) < Len(field),
         NEW buf \in Seq(C), NEW nbytes \in Int, nbytes <= Len(buf)
  PROVE  IF Len(a) < nbytes
           THEN /\ getargs(strcpy(field, CString(a)), buf, nbytes).ret = 0
                /\ Text(getargs(strcpy(field, CString(a)), buf, nbytes).buf) = a
           ELSE /\ getargs(strcpy(field, CString(a)), buf, nbytes).ret = -1
                /\ getargs(strcpy(field, CString(a)), buf, nbytes).buf = buf
<1> DEFINE c == CString(a)
           arg == strcpy(field, c)
           filled == strncpy(buf, arg, nbytes)
<1>1. /\ c \in Seq(C) /\ Len(a) \in Nat /\ Len(c) = Len(a) + 1 /\ c[Len(a) + 1] = NUL
      /\ \A k \in 1 .. Len(a) : c[k] = a[k]
  BY CStringOf
<1>2. strlen(c) = Len(a)
  BY CStringLength
<1> HIDE DEF c
<1>3. Len(field) \in Nat /\ Len(buf) \in Nat
  BY LenProperties
<1>4. /\ arg = [k \in 1 .. Len(field) |-> IF k <= Len(a) + 1 THEN c[k] ELSE field[k]]
  BY <1>2 DEF strcpy
<1>5. /\ arg \in Seq(C) /\ Len(arg) = Len(field)
      /\ arg[Len(a) + 1] = NUL /\ \A k \in 1 .. Len(a) : arg[k] = a[k]
  <2>1. \A k \in 1 .. Len(field) : field[k] \in C
    BY ElementOfSeq
  <2>2. \A k \in 1 .. Len(a) + 1 : c[k] \in C
    BY <1>1, ElementOfSeq
  <2>3. \A k \in 1 .. Len(field) : (IF k <= Len(a) + 1 THEN c[k] ELSE field[k]) \in C
    BY <1>1, <1>3, <2>1, <2>2
  <2>4. arg \in [1 .. Len(field) -> C]
    BY <1>4, <2>3
  <2>5. arg \in Seq(C) /\ Len(arg) = Len(field)
    BY <1>3, <2>4
  <2> QED
    BY <1>1, <1>3, <1>4, <2>5
<1> HIDE DEF arg
<1>6. strlen(arg) = Len(a)
  BY <1>1, <1>3, <1>5, TextIs
<1>7. filled = [k \in 1 .. Len(buf) |->
                  IF k > nbytes THEN buf[k] ELSE IF k <= Len(a) THEN arg[k] ELSE NUL]
  BY <1>6 DEF strncpy
<1>8. CASE Len(a) < nbytes
  <2>1. \A k \in 1 .. Len(buf) : buf[k] \in C
    BY ElementOfSeq
  <2>2. \A k \in 1 .. Len(a) : arg[k] \in C
    BY <1>1, <1>3, <1>5, ElementOfSeq
  <2>3. filled \in [1 .. Len(buf) -> C]
    BY <1>1, <1>3, <1>7, <2>1, <2>2
  <2>4. filled \in Seq(C) /\ Len(filled) = Len(buf)
    BY <1>3, <2>3
  <2>5. filled[Len(a) + 1] = NUL /\ \A k \in 1 .. Len(a) : filled[k] = a[k]
    <3> HIDE DEF filled
    <3>1. \A k \in 1 .. Len(a) : k \in 1 .. Len(buf) /\ ~(k > nbytes) /\ k <= Len(a)
      BY <1>1, <1>3, <1>8
    <3>2. /\ Len(a) + 1 \in 1 .. Len(buf) /\ ~(Len(a) + 1 > nbytes) /\ ~(Len(a) + 1 <= Len(a))
      BY <1>1, <1>3, <1>8
    <3>3. \A k \in 1 .. Len(buf) :
            filled[k] = IF k > nbytes THEN buf[k] ELSE IF k <= Len(a) THEN arg[k] ELSE NUL
      BY <1>7
    <3>4. \A k \in 1 .. Len(a) : filled[k] = arg[k]
      BY <3>1, <3>3, Zenon
    <3>5. filled[Len(a) + 1] = NUL
      BY <3>2, <3>3, Zenon
    <3> QED
      BY <1>5, <3>4, <3>5
  <2>6. Len(a) < Len(filled)
    BY <1>1, <1>3, <1>8, <2>4
  <2>7. getargs(arg, buf, nbytes) = [ret |-> 0, buf |-> filled]
    BY <1>1, <1>6, <1>8 DEF getargs
  <2> HIDE DEF filled
  <2>8. Text(filled) = a
    BY <2>4, <2>5, <2>6, TextIs
  <2> QED
    BY <1>8, <2>7, <2>8 DEF arg, c
<1>9. CASE ~(Len(a) < nbytes)
  <2>1. getargs(arg, buf, nbytes) = [ret |-> -1, buf |-> buf]
    BY <1>1, <1>6, <1>9 DEF getargs
  <2> QED
    BY <1>9, <2>1 DEF arg, c
<1> QED
  BY <1>8, <1>9

-----------------------------------------------------------------------------
(* Parse.                                                                  *)

\* The places that the loops of execute look for.
LEMMA FirstInIs ==
  ASSUME NEW c, Len(c) \in Nat, NEW S, NEW i \in Nat, NEW k \in i .. Len(c) - 1,
         c[k + 1] \in S, \A j \in i .. k - 1 : c[j + 1] \notin S
  PROVE  FirstIn(c, i, S) = k
<1> DEFINE Is(m) == c[m + 1] \in S /\ \A j \in i .. m - 1 : c[j + 1] \notin S
<1>1. ASSUME NEW m \in i .. Len(c) - 1, Is(m)
      PROVE  m = k
  <2>1. ~(m < k) /\ ~(k < m)
    BY <1>1
  <2> QED
    BY <2>1
<1>2. Is(k)
  OBVIOUS
<1>3. FirstIn(c, i, S) = CHOOSE m \in i .. Len(c) - 1 : Is(m)
  BY DEF FirstIn
<1> HIDE DEF Is
<1> QED
  BY <1>1, <1>2, <1>3

LEMMA FirstNotInIs ==
  ASSUME NEW c, Len(c) \in Nat, NEW S, NEW i \in Nat, NEW k \in i .. Len(c) - 1,
         c[k + 1] \notin S, \A j \in i .. k - 1 : c[j + 1] \in S
  PROVE  FirstNotIn(c, i, S) = k
<1> DEFINE Is(m) == c[m + 1] \notin S /\ \A j \in i .. m - 1 : c[j + 1] \in S
<1>1. ASSUME NEW m \in i .. Len(c) - 1, Is(m)
      PROVE  m = k
  <2>1. ~(m < k) /\ ~(k < m)
    BY <1>1
  <2> QED
    BY <2>1
<1>2. Is(k)
  OBVIOUS
<1>3. FirstNotIn(c, i, S) = CHOOSE m \in i .. Len(c) - 1 : Is(m)
  BY DEF FirstNotIn
<1> HIDE DEF Is
<1> QED
  BY <1>1, <1>2, <1>3

\* How a command is laid out: blanks, a name from first to end - 1, blanks, and an argument
\* from start to stop - 1.  Places are counted from 0, as in the code.
Blanks(c, from, to) == \A j \in from .. to - 1 : c[j + 1] = SPACE
Layout(c, first, end, start, stop) ==
    /\ first \in Nat /\ end \in first .. Len(c) - 1
    /\ start \in end .. Len(c) - 1 /\ stop \in start .. Len(c) - 1
    /\ Blanks(c, 0, first) /\ c[first + 1] # SPACE
    /\ \A j \in first .. end - 1 : c[j + 1] \notin {SPACE, NUL, NEWLINE}
    /\ c[end + 1] \in {SPACE, NUL, NEWLINE}
    /\ Blanks(c, end, start) /\ c[start + 1] # SPACE
    /\ \A j \in start .. stop - 1 : c[j + 1] \notin {NUL, NEWLINE}
    /\ c[stop + 1] \in {NUL, NEWLINE}

\* The loops find the layout.
LEMMA LoopsFindLayout ==
  ASSUME NEW c, Len(c) \in Nat, NEW first, NEW end, NEW start, NEW stop,
         Layout(c, first, end, start, stop)
  PROVE  /\ FirstNotIn(c, 0, {SPACE}) = first
         /\ FirstIn(c, first, {SPACE, NUL, NEWLINE}) = end
         /\ FirstNotIn(c, end, {SPACE}) = start
         /\ ArgumentEnd(c, start) = stop
<1>1. /\ 0 \in Nat /\ first \in Nat /\ end \in Nat /\ start \in Nat
      /\ first \in 0 .. Len(c) - 1 /\ end \in first .. Len(c) - 1
      /\ start \in end .. Len(c) - 1 /\ stop \in start .. Len(c) - 1
  BY DEF Layout
<1>2. FirstNotIn(c, 0, {SPACE}) = first
  <2> DEFINE S == {SPACE}
  <2>1. c[first + 1] \notin S /\ \A j \in 0 .. first - 1 : c[j + 1] \in S
    BY DEF Layout, Blanks
  <2> HIDE DEF S
  <2>2. FirstNotIn(c, 0, S) = first
    BY <1>1, <2>1, FirstNotInIs
  <2> QED
    BY <2>2 DEF S
<1>3. FirstIn(c, first, {SPACE, NUL, NEWLINE}) = end
  <2> DEFINE S == {SPACE, NUL, NEWLINE}
  <2>1. c[end + 1] \in S /\ \A j \in first .. end - 1 : c[j + 1] \notin S
    BY DEF Layout
  <2> HIDE DEF S
  <2>2. FirstIn(c, first, S) = end
    BY <1>1, <2>1, FirstInIs
  <2> QED
    BY <2>2 DEF S
<1>4. FirstNotIn(c, end, {SPACE}) = start
  <2> DEFINE S == {SPACE}
  <2>1. c[start + 1] \notin S /\ \A j \in end .. start - 1 : c[j + 1] \in S
    BY DEF Layout, Blanks
  <2> HIDE DEF S
  <2>2. FirstNotIn(c, end, S) = start
    BY <1>1, <2>1, FirstNotInIs
  <2> QED
    BY <2>2 DEF S
<1>5. ArgumentEnd(c, start) = stop
  <2> DEFINE S == {NUL, NEWLINE}
  <2>1. c[stop + 1] \in S /\ \A j \in start .. stop - 1 : c[j + 1] \notin S
    BY DEF Layout
  <2> HIDE DEF S
  <2>2. FirstIn(c, start, S) = stop
    BY <1>1, <2>1, FirstInIs
  <2> QED
    BY <2>2 DEF S, ArgumentEnd
<1> QED
  BY <1>2, <1>3, <1>4, <1>5

\* A part of a sequence.
LEMMA PartOf ==
  ASSUME NEW C, NEW s \in Seq(C), NEW m \in Nat, NEW n \in m .. Len(s)
  PROVE  /\ SubSeq(s, m + 1, n) \in Seq(C)
         /\ Len(SubSeq(s, m + 1, n)) = n - m
         /\ \A k \in 1 .. n - m : SubSeq(s, m + 1, n)[k] = s[m + k]
<1> DEFINE first == m + 1
<1>1. Len(s) \in Nat
  BY LenProperties
<1>2. first \in Int /\ n \in Int /\ n - first + 1 = n - m /\ n >= m
  BY <1>1
<1>3. \A k \in first .. n : s[k] \in C
  BY <1>1, ElementOfSeq
<1>4. \A k \in 1 .. n - m : first + k - 1 = m + k
  BY <1>2
<1>5. first <= n \/ n - m = 0
  BY <1>2
<1> HIDE DEF first
<1>6. /\ SubSeq(s, first, n) \in Seq(C)
      /\ Len(SubSeq(s, first, n)) = IF first <= n THEN n - first + 1 ELSE 0
      /\ \A k \in 1 .. n - first + 1 : SubSeq(s, first, n)[k] = s[first + k - 1]
  BY <1>2, <1>3, SubSeqProperties
<1>7. Len(SubSeq(s, first, n)) = n - m
  BY <1>2, <1>5, <1>6
<1>8. \A k \in 1 .. n - m : SubSeq(s, first, n)[k] = s[m + k]
  BY <1>2, <1>4, <1>6, Zenon
<1> QED
  BY <1>6, <1>7, <1>8 DEF first

\* What execute makes of a command that is laid out like this.
TakenApart(c, first, end, start, stop, junk) ==
    LET parsed == Parse(c, junk)
        exec == NameCopied(c, first, end, junk)
    IN  IF \/ end > CMD_MAX_LEN \/ stop > MAX_KBUFF_LEN
           \/ start = stop /\ SubSeq(exec, 1, Len(Grep)) = Grep
          THEN parsed = Refused
          ELSE /\ parsed.ok /\ parsed # Refused /\ parsed # Undefined
               /\ parsed.exec = exec
               /\ Text(parsed.argb) = SubSeq(c, start + 1, stop)
               /\ first = 0 => Text(parsed.exec) = SubSeq(c, first + 1, end)

\* Of a command whose places fit into bytes and whose argument fits into argb: whatever
\* stood on the stack, it is refused if the name or all of it is too long, or if it is a
\* grep without argument; else the argument is what was typed, spaces in it kept, and so is
\* the name if the command begins with it.  (Nothing is said of the name after blanks:
\* MCExecute has what becomes of it.)
THEOREM CommandTakenApart ==
  ASSUME CMD_MAX_LEN \in Nat, NEW C, NUL \in C, NEW c \in Seq(C),
         NEW junk \in [1 .. CMD_MAX_LEN + 1 -> C],
         NEW first, NEW end, NEW start, NEW stop, Layout(c, first, end, start, stop),
         Len(c) <= INDEX_RANGE, stop - start <= CMD_MAX_LEN
  PROVE  TakenApart(c, first, end, start, stop, junk)
<1> DEFINE exec == NameCopied(c, first, end, junk)
           a == SubSeq(c, start + 1, stop)
           w == SubSeq(c, first + 1, end)
           argb == CString(a)
           parsed == Parse(c, junk)
<1>1. Len(c) \in Nat
  BY LenProperties
<1>2. /\ first \in Nat /\ end \in Nat /\ start \in Nat /\ stop \in Nat
      /\ first <= end /\ end <= start /\ start <= stop /\ stop < Len(c)
  BY <1>1 DEF Layout
<1>3. /\ FirstNotIn(c, 0, {SPACE}) = first
      /\ FirstIn(c, first, {SPACE, NUL, NEWLINE}) = end
      /\ FirstNotIn(c, end, {SPACE}) = start
      /\ ArgumentEnd(c, start) = stop
  BY <1>1, LoopsFindLayout
<1>4. parsed = IF \/ end > CMD_MAX_LEN
                  \/ stop > MAX_KBUFF_LEN
                  \/ strlen(argb) = 0 /\ SubSeq(exec, 1, Len(Grep)) = Grep
                 THEN Refused
                 ELSE [ok |-> TRUE, exec |-> exec, argb |-> argb]
  <2>1. ~(Len(c) > INDEX_RANGE) /\ ~(stop - start > CMD_MAX_LEN)
    BY <1>1, <1>2 DEF INDEX_RANGE
  <2> HIDE DEF exec, argb
  <2>2. parsed = IF Len(c) > INDEX_RANGE THEN Undefined
                 ELSE IF end > CMD_MAX_LEN \/ stop > MAX_KBUFF_LEN THEN Refused
                 ELSE IF stop - start > CMD_MAX_LEN THEN Undefined
                 ELSE IF strlen(argb) = 0 /\ SubSeq(exec, 1, Len(Grep)) = Grep THEN Refused
                 ELSE [ok |-> TRUE, exec |-> exec, argb |-> argb]
    BY <1>3 DEF Parse, exec, argb, a
  <2> HIDE DEF parsed
  <2> QED
    BY <2>1, <2>2
<1>5. /\ a \in Seq(C) /\ Len(a) = stop - start
      /\ \A k \in 1 .. Len(a) : a[k] # NUL
  <2>1. /\ a \in Seq(C) /\ Len(a) = stop - start
        /\ \A k \in 1 .. stop - start : a[k] = c[start + k]
    <3>1. start \in Nat /\ stop \in start .. Len(c)
      BY <1>1, <1>2
    <3> QED
      BY <3>1, PartOf
  <2>2. ASSUME NEW k \in 1 .. stop - start PROVE c[start + k] # NUL
    <3>1. start + k - 1 \in start .. stop - 1 /\ (start + k - 1) + 1 = start + k
      BY <1>2
    <3>2. c[(start + k - 1) + 1] # NUL
      BY <3>1 DEF Layout
    <3> QED
      BY <3>1, <3>2
  <2> QED
    BY <2>1, <2>2
<1>6. /\ w \in Seq(C) /\ Len(w) = end - first
      /\ \A k \in 1 .. end - first : w[k] = c[first + k]
      /\ \A k \in 1 .. Len(w) : w[k] # NUL
  <2>1. /\ w \in Seq(C) /\ Len(w) = end - first
        /\ \A k \in 1 .. end - first : w[k] = c[first + k]
    <3>1. first \in Nat /\ end \in first .. Len(c)
      BY <1>1, <1>2
    <3> QED
      BY <3>1, PartOf
  <2>2. ASSUME NEW k \in 1 .. end - first PROVE c[first + k] # NUL
    <3>1. first + k - 1 \in first .. end - 1 /\ (first + k - 1) + 1 = first + k
      BY <1>2
    <3>2. c[(first + k - 1) + 1] # NUL
      BY <3>1 DEF Layout
    <3> QED
      BY <3>1, <3>2
  <2> QED
    BY <2>1, <2>2
<1> HIDE DEF a, w
<1>7. strlen(argb) = Len(a) /\ argb \in Seq(C) /\ Text(argb) = a
  <2>1. /\ argb \in Seq(C) /\ Len(argb) = Len(a) + 1 /\ argb[Len(a) + 1] = NUL
        /\ \A k \in 1 .. Len(a) : argb[k] = a[k]
    BY <1>5, CStringOf
  <2> HIDE DEF argb
  <2>2. Len(a) < Len(argb)
    BY <1>2, <1>5, <2>1
  <2> QED
    BY <1>5, <2>1, <2>2, TextIs
<1>8. strlen(argb) = 0 <=> start = stop
  BY <1>2, <1>5, <1>7
<1> HIDE DEF argb
<1>9. ASSUME end <= CMD_MAX_LEN, first = 0
      PROVE  Text(exec) = w
  <2> DEFINE n == end - first
  <2>1. n \in Nat /\ n <= end /\ n = Len(w)
    BY <1>2, <1>6
  <2>2. exec = [k \in 1 .. CMD_MAX_LEN + 1 |->
                  IF k <= n THEN c[first + k] ELSE IF k = end + 1 THEN NUL ELSE junk[k]]
    BY DEF NameCopied, Terminator
  <2>3. \A k \in 1 .. n : c[first + k] \in C
    BY <1>1, <1>2, ElementOfSeq
  <2> HIDE DEF n
  <2>4. exec \in [1 .. CMD_MAX_LEN + 1 -> C]
    BY <2>1, <2>2, <2>3
  <2> HIDE DEF exec
  <2>5. exec \in Seq(C) /\ Len(exec) = CMD_MAX_LEN + 1
    BY <2>4
  <2>6. \A k \in 1 .. Len(w) : exec[k] = w[k]
    <3>1. \A k \in 1 .. n : k \in 1 .. CMD_MAX_LEN + 1 /\ k <= n
      BY <1>2, <1>9, <2>1
    <3>2. \A k \in 1 .. n : exec[k] = c[first + k]
      BY <2>2, <3>1
    <3> QED
      BY <1>6, <2>1, <3>2 DEF n
  <2>7. Len(w) < Len(exec)
    BY <1>2, <1>9, <2>1, <2>5
  <2>8. exec[Len(w) + 1] = NUL
    <3>1. n + 1 \in 1 .. CMD_MAX_LEN + 1 /\ ~(n + 1 <= n) /\ n + 1 = end + 1
      BY <1>2, <1>9, <2>1 DEF n
    <3>2. exec[n + 1] = NUL
      BY <2>2, <3>1
    <3> QED
      BY <2>1, <3>2 DEF n
  <2> QED
    BY <1>6, <2>5, <2>6, <2>7, <2>8, TextIs
<1> HIDE DEF exec
<1>10. CASE \/ end > CMD_MAX_LEN \/ stop > MAX_KBUFF_LEN
            \/ start = stop /\ SubSeq(exec, 1, Len(Grep)) = Grep
  <2>1. parsed = Refused
    BY <1>4, <1>8, <1>10
  <2> HIDE DEF parsed
  <2> QED
    BY <1>10, <2>1, Zenon DEF TakenApart, exec, parsed
<1>11. CASE ~(\/ end > CMD_MAX_LEN \/ stop > MAX_KBUFF_LEN
              \/ start = stop /\ SubSeq(exec, 1, Len(Grep)) = Grep)
  <2>1. parsed = [ok |-> TRUE, exec |-> exec, argb |-> argb]
    BY <1>4, <1>8, <1>11
  <2> HIDE DEF parsed
  <2>2. parsed.ok = TRUE /\ parsed.exec = exec /\ parsed.argb = argb
    BY <2>1
  <2>3. parsed.ok /\ parsed # Refused /\ parsed # Undefined
    BY <2>2 DEF Refused, Undefined
  <2>4. end <= CMD_MAX_LEN
    BY <1>2, <1>11
  <2>5. /\ Text(parsed.argb) = a
        /\ first = 0 => Text(parsed.exec) = w
    BY <1>7, <1>9, <2>2, <2>4
  <2>6. parsed.exec = exec
    BY <2>2
  <2> QED
    BY <1>11, <2>3, <2>5, <2>6, Zenon DEF TakenApart, exec, parsed, a, w
<1> QED
  BY <1>10, <1>11

\* One sequence behind another.
Joins(s, x, y) ==
    /\ Len(s) = Len(x) + Len(y)
    /\ \A k \in 1 .. Len(x) : s[k] = x[k]
    /\ \A k \in 1 .. Len(y) : s[Len(x) + k] = y[k]

LEMMA Joined ==
  ASSUME NEW C, NEW x \in Seq(C), NEW y \in Seq(C)
  PROVE  x \o y \in Seq(C) /\ Joins(x \o y, x, y)
<1>1. Len(x) \in Nat /\ Len(y) \in Nat
  BY LenProperties
<1> DEFINE s == x \o y
<1>2. /\ s \in Seq(C) /\ Len(s) = Len(x) + Len(y)
      /\ \A i \in 1 .. Len(x) + Len(y) : s[i] = IF i <= Len(x) THEN x[i] ELSE y[i - Len(x)]
  BY ConcatProperties
<1> HIDE DEF s
<1>3. ASSUME NEW k \in 1 .. Len(y) PROVE s[Len(x) + k] = y[k]
  <2>1. /\ Len(x) + k \in 1 .. Len(x) + Len(y) /\ ~(Len(x) + k <= Len(x))
        /\ (Len(x) + k) - Len(x) = k
    BY <1>1
  <2> QED
    BY <1>2, <2>1
<1>4. ASSUME NEW k \in 1 .. Len(x) PROVE s[k] = x[k]
  <2>1. k \in 1 .. Len(x) + Len(y) /\ k <= Len(x)
    BY <1>1
  <2> QED
    BY <1>2, <2>1
<1> QED
  BY <1>1, <1>2, <1>3, <1>4 DEF s, Joins

\* A command as it is typed.
Spaces(n) == [k \in 1 .. n |-> SPACE]
Typed(lead, w, gap, a, end) == CString(Spaces(lead) \o w \o Spaces(gap) \o a \o end)

\* The characters that take commands apart, and what a name and an argument are.
Marks == {NUL, SPACE, NEWLINE}
LineEnds == {<<>>, <<NEWLINE>>}
NameLike(w) == w # <<>> /\ \A k \in 1 .. Len(w) : w[k] \notin {SPACE, NUL, NEWLINE}
ArgumentLike(a) ==
    /\ \A k \in 1 .. Len(a) : a[k] \notin {NUL, NEWLINE}
    /\ a = <<>> \/ a[1] # SPACE

\* c has these parts at these places.
Parts(c, first, end, start, stop, w, a) ==
    /\ Layout(c, first, end, start, stop)
    /\ SubSeq(c, first + 1, end) = w
    /\ SubSeq(c, start + 1, stop) = a

\* What is typed is laid out as execute expects.
LEMMA TypedLayout ==
  ASSUME NEW C, Marks \subseteq C, NEW lead \in Nat, NEW gap \in Nat,
         NEW w \in Seq(C), NameLike(w), NEW a \in Seq(C), ArgumentLike(a),
         gap > 0 \/ a = <<>>, NEW end \in LineEnds
  PROVE  /\ Typed(lead, w, gap, a, end) \in Seq(C)
         /\ Parts(Typed(lead, w, gap, a, end), lead, lead + Len(w), lead + Len(w) + gap,
                  lead + Len(w) + gap + Len(a), w, a)
         /\ Len(Typed(lead, w, gap, a, end)) <= lead + Len(w) + gap + Len(a) + 2
<1> DEFINE x1 == Spaces(lead) \o w
           x2 == x1 \o Spaces(gap)
           x3 == x2 \o a
           x4 == x3 \o end
           c == CString(x4)
           m1 == lead + Len(w)
           m2 == m1 + gap
           m3 == m2 + Len(a)
<1>s. \A n \in Nat : /\ Spaces(n) \in Seq(C) /\ Len(Spaces(n)) = n
                     /\ \A k \in 1 .. n : Spaces(n)[k] = SPACE
  <2>1. SPACE \in C
    BY DEF Marks
  <2> QED
    BY <2>1 DEF Spaces
<1>e. /\ end \in Seq(C) /\ Len(end) \in {0, 1}
      /\ Len(end) = 1 => end[1] = NEWLINE
  <2>1. CASE end = <<>>
    BY <2>1
  <2>2. CASE end = <<NEWLINE>>
    <3>1. NEWLINE \in C
      BY DEF Marks
    <3> QED
      BY <2>2, <3>1
  <2> QED
    BY <2>1, <2>2 DEF LineEnds
<1>a. /\ \A k \in 1 .. Len(w) : w[k] \notin {SPACE, NUL, NEWLINE}
      /\ \A k \in 1 .. Len(a) : a[k] \notin {NUL, NEWLINE}
  BY DEF NameLike, ArgumentLike
<1>l. Len(w) \in Nat /\ Len(a) \in Nat /\ Len(w) # 0 /\ (Len(a) # 0 => gap > 0 /\ a[1] # SPACE)
  BY EmptySeq, LenProperties DEF NameLike, ArgumentLike
<1>1. /\ x1 \in Seq(C) /\ Len(x1) = m1
      /\ \A k \in 1 .. lead : x1[k] = SPACE
      /\ \A k \in 1 .. Len(w) : x1[lead + k] = w[k]
  <2> DEFINE b == Spaces(lead)
  <2>1. b \in Seq(C) /\ Len(b) = lead /\ \A k \in 1 .. lead : b[k] = SPACE
    BY <1>s
  <2> HIDE DEF b
  <2>2. b \o w \in Seq(C) /\ Joins(b \o w, b, w)
    BY <2>1, Joined
  <2>3. /\ b \o w \in Seq(C) /\ Len(b \o w) = m1
        /\ \A k \in 1 .. lead : (b \o w)[k] = SPACE
        /\ \A k \in 1 .. Len(w) : (b \o w)[lead + k] = w[k]
    BY <2>1, <2>2 DEF Joins
  <2> QED
    BY <2>3 DEF b
<1> HIDE DEF x1
<1>2. /\ x2 \in Seq(C) /\ Len(x2) = m2
      /\ \A k \in 1 .. m1 : x2[k] = x1[k]
      /\ \A k \in 1 .. gap : x2[m1 + k] = SPACE
  <2> DEFINE b == Spaces(gap)
  <2>1. b \in Seq(C) /\ Len(b) = gap /\ \A k \in 1 .. gap : b[k] = SPACE
    BY <1>s
  <2> HIDE DEF b
  <2>2. x1 \o b \in Seq(C) /\ Joins(x1 \o b, x1, b)
    BY <1>1, <2>1, Joined
  <2>3. /\ x1 \o b \in Seq(C) /\ Len(x1 \o b) = m2
        /\ \A k \in 1 .. m1 : (x1 \o b)[k] = x1[k]
        /\ \A k \in 1 .. gap : (x1 \o b)[m1 + k] = SPACE
    BY <1>1, <2>1, <2>2 DEF Joins
  <2> QED
    BY <2>3 DEF b
<1> HIDE DEF x2
<1>3. /\ x3 \in Seq(C) /\ Len(x3) = m3
      /\ \A k \in 1 .. m2 : x3[k] = x2[k]
      /\ \A k \in 1 .. Len(a) : x3[m2 + k] = a[k]
  <2>1. x2 \o a \in Seq(C) /\ Joins(x2 \o a, x2, a)
    BY <1>2, Joined
  <2> QED
    BY <1>2, <2>1 DEF Joins
<1> HIDE DEF x3
<1>4. /\ x4 \in Seq(C) /\ Len(x4) = m3 + Len(end)
      /\ \A k \in 1 .. m3 : x4[k] = x3[k]
      /\ Len(end) = 1 => x4[m3 + 1] = NEWLINE
  <2>1. x3 \o end \in Seq(C) /\ Joins(x3 \o end, x3, end)
    BY <1>3, <1>e, Joined
  <2> QED
    BY <1>3, <1>e, <2>1 DEF Joins
<1> HIDE DEF x4
<1>n. m1 \in Nat /\ m2 \in Nat /\ m3 \in Nat /\ lead <= m1 /\ lead < m1 /\ m1 <= m2 /\ m2 <= m3
  BY <1>l
<1>5. /\ c \in Seq(C) /\ Len(c) = m3 + Len(end) + 1
      /\ \A k \in 1 .. m3 : c[k] = x3[k]
      /\ c[m3 + 1] \in {NUL, NEWLINE}
  <2>1. /\ c \in Seq(C) /\ Len(c) = Len(x4) + 1 /\ c[Len(x4) + 1] = NUL
        /\ \A k \in 1 .. Len(x4) : c[k] = x4[k]
    <3>1. NUL \in C
      BY DEF Marks
    <3> QED
      BY <1>4, <3>1, CStringOf
  <2> HIDE DEF c
  <2>2. \A k \in 1 .. m3 : k \in 1 .. Len(x4)
    BY <1>4, <1>e, <1>n
  <2>3. \A k \in 1 .. m3 : c[k] = x3[k]
    BY <1>4, <2>1, <2>2
  <2>4. CASE Len(end) = 0
    BY <1>4, <1>n, <2>1, <2>3, <2>4
  <2>5. CASE Len(end) = 1
    <3>1. m3 + 1 \in 1 .. Len(x4) /\ Len(x4) = m3 + 1
      BY <1>4, <1>n, <2>5
    <3>2. c[m3 + 1] = NEWLINE
      BY <1>4, <2>1, <2>5, <3>1
    <3> QED
      BY <1>4, <2>1, <2>3, <2>5, <3>2
  <2> QED
    BY <1>e, <2>4, <2>5
<1>c. c = Typed(lead, w, gap, a, end)
  BY DEF Typed, x1, x2, x3, x4
<1> HIDE DEF c
<1>6. \A k \in 1 .. lead : c[k] = SPACE
  BY <1>1, <1>2, <1>3, <1>5, <1>n
<1>7. \A k \in 1 .. Len(w) : c[lead + k] = w[k]
  <2>1. \A k \in 1 .. Len(w) : lead + k \in 1 .. m1 /\ lead + k \in 1 .. m2 /\ lead + k \in 1 .. m3
    BY <1>l, <1>n
  <2> SUFFICES ASSUME NEW k \in 1 .. Len(w) PROVE c[lead + k] = w[k]
    OBVIOUS
  <2> DEFINE i == lead + k
  <2>2. i \in 1 .. m1 /\ i \in 1 .. m2 /\ i \in 1 .. m3 /\ x1[i] = w[k]
    BY <1>1, <2>1
  <2> HIDE DEF i
  <2>3. c[i] = w[k]
    BY <1>2, <1>3, <1>5, <2>2
  <2> QED
    BY <2>3 DEF i
<1>8. \A k \in 1 .. gap : c[m1 + k] = SPACE
  <2>1. \A k \in 1 .. gap : m1 + k \in 1 .. m2 /\ m1 + k \in 1 .. m3
    BY <1>l, <1>n
  <2> QED
    BY <1>2, <1>3, <1>5, <2>1
<1>9. \A k \in 1 .. Len(a) : c[m2 + k] = a[k]
  <2>1. \A k \in 1 .. Len(a) : m2 + k \in 1 .. m3
    BY <1>l, <1>n
  <2> QED
    BY <1>3, <1>5, <2>1
<1>10. /\ Len(c) \in Nat /\ m1 \in lead .. Len(c) - 1 /\ m2 \in m1 .. Len(c) - 1
       /\ m3 \in m2 .. Len(c) - 1
  BY <1>5, <1>e, <1>n
<1>11. Layout(c, lead, m1, m2, m3)
  <2>0. /\ m1 - lead = Len(w) /\ m2 - m1 = gap /\ m3 - m2 = Len(a)
    BY <1>l
  <2> HIDE DEF m1, m2, m3
  <2>1. Blanks(c, 0, lead) /\ c[lead + 1] # SPACE
    <3>1. \A j \in 0 .. lead - 1 : j + 1 \in 1 .. lead
      OBVIOUS
    <3>2. c[lead + 1] = w[1] /\ w[1] # SPACE
      BY <1>7, <1>a, <1>l
    <3> QED
      BY <1>6, <3>1, <3>2 DEF Blanks
  <2>2. \A j \in lead .. m1 - 1 : c[j + 1] \notin {SPACE, NUL, NEWLINE}
    <3> SUFFICES ASSUME NEW j \in lead .. m1 - 1 PROVE c[j + 1] \notin {SPACE, NUL, NEWLINE}
      OBVIOUS
    <3> DEFINE k == (j + 1) - lead
    <3>1. k \in 1 .. Len(w) /\ lead + k = j + 1
      BY <1>l, <1>n, <2>0
    <3> HIDE DEF k
    <3>2. c[j + 1] = w[k]
      BY <1>7, <3>1
    <3> QED
      BY <1>a, <3>1, <3>2
  <2>3. Blanks(c, m1, m2)
    <3> SUFFICES ASSUME NEW j \in m1 .. m2 - 1 PROVE c[j + 1] = SPACE
      BY DEF Blanks
    <3> DEFINE k == (j + 1) - m1
    <3>1. k \in 1 .. gap /\ m1 + k = j + 1
      BY <1>n, <2>0
    <3> HIDE DEF k
    <3> QED
      BY <1>8, <3>1
  <2>4. \A j \in m2 .. m3 - 1 : c[j + 1] \notin {NUL, NEWLINE}
    <3> SUFFICES ASSUME NEW j \in m2 .. m3 - 1 PROVE c[j + 1] \notin {NUL, NEWLINE}
      OBVIOUS
    <3> DEFINE k == (j + 1) - m2
    <3>1. k \in 1 .. Len(a) /\ m2 + k = j + 1
      BY <1>l, <1>n, <2>0
    <3> HIDE DEF k
    <3>2. c[j + 1] = a[k]
      BY <1>9, <3>1
    <3> QED
      BY <1>a, <3>1, <3>2
  <2>5. SPACE \notin {NUL, NEWLINE}
    BY DEF SPACE, NUL, NEWLINE
  <2>6. c[m2 + 1] # SPACE
    <3>1. CASE Len(a) = 0
      BY <1>5, <1>n, <2>0, <2>5, <3>1
    <3>2. CASE Len(a) # 0
      BY <1>9, <1>l, <3>2
    <3> QED
      BY <3>1, <3>2
  <2>7. c[m1 + 1] \in {SPACE, NUL, NEWLINE}
    <3>1. CASE gap > 0
      BY <1>8, <3>1
    <3>2. CASE gap = 0
      <4>1. m1 = m3
        BY <1>l, <1>n, <2>0, <3>2
      <4> QED
        BY <1>5, <4>1
    <3> QED
      BY <3>1, <3>2
  <2>8. c[m3 + 1] \in {NUL, NEWLINE}
    BY <1>5
  <2> QED
    BY <1>10, <2>1, <2>2, <2>3, <2>4, <2>6, <2>7, <2>8 DEF Layout
<1>12. SubSeq(c, lead + 1, m1) = w
  <2>1. m1 \in lead .. Len(c) /\ m1 - lead = Len(w)
    BY <1>10, <1>l
  <2> HIDE DEF m1
  <2>2. /\ SubSeq(c, lead + 1, m1) \in Seq(C)
        /\ Len(SubSeq(c, lead + 1, m1)) = m1 - lead
        /\ \A k \in 1 .. m1 - lead : SubSeq(c, lead + 1, m1)[k] = c[lead + k]
    BY <1>5, <2>1, PartOf
  <2>3. /\ Len(SubSeq(c, lead + 1, m1)) = Len(w)
        /\ \A k \in 1 .. Len(SubSeq(c, lead + 1, m1)) : SubSeq(c, lead + 1, m1)[k] = w[k]
    BY <1>7, <2>1, <2>2
  <2> QED
    BY <2>2, <2>3, SeqEqual
<1>13. SubSeq(c, m2 + 1, m3) = a
  <2>1. m3 \in m2 .. Len(c) /\ m3 - m2 = Len(a) /\ m2 \in Nat
    BY <1>10, <1>l
  <2> HIDE DEF m2, m3
  <2>2. /\ SubSeq(c, m2 + 1, m3) \in Seq(C)
        /\ Len(SubSeq(c, m2 + 1, m3)) = m3 - m2
        /\ \A k \in 1 .. m3 - m2 : SubSeq(c, m2 + 1, m3)[k] = c[m2 + k]
    BY <1>5, <2>1, PartOf
  <2>3. /\ Len(SubSeq(c, m2 + 1, m3)) = Len(a)
        /\ \A k \in 1 .. Len(SubSeq(c, m2 + 1, m3)) : SubSeq(c, m2 + 1, m3)[k] = a[k]
    BY <1>9, <2>1, <2>2
  <2> QED
    BY <2>2, <2>3, SeqEqual
<1>14. Len(c) <= m3 + 2
  <2> DEFINE l == Len(end)
             n == Len(c)
  <2>1. n = m3 + l + 1 /\ m3 \in Nat /\ l \in {0, 1}
    BY <1>5, <1>e, <1>n
  <2> HIDE DEF m3, l, n
  <2>2. n <= m3 + 2
    BY <2>1
  <2> QED
    BY <2>2 DEF n
<1> QED
  BY <1>5, <1>11, <1>12, <1>13, <1>14, <1>c, Zenon DEF Parts, m1, m2, m3

-----------------------------------------------------------------------------
(* execute and the shell.                                                  *)

\* The entries that a search takes for s when it compares n characters, and its outcome.
Matching(s, n) == {k \in 1 .. Len(dir_entries) : SamePrefix(s, dir_entries[k].file_name, n)}
FirstOf(S) == dir_entries[CHOOSE k \in S : \A j \in S : k <= j]

LEMMA SearchIs ==
  ASSUME NEW s
  PROVE  read_dentry_by_name(s) =
         IF strlen(s) > NAME_SIZE \/ Matching(s, Compared(s)) = {} THEN NotFound
         ELSE FirstOf(Matching(s, Compared(s)))
  BY Zenon DEF read_dentry_by_name, Matching, FirstOf

\* The search reads a name no further than its NUL.
LEMMA SameNameFound ==
  ASSUME NEW f, NEW g, NEW n \in Nat, strlen(f) = n, strlen(g) = n,
         \A k \in 1 .. n + 1 : f[k] = g[k]
  PROVE  read_dentry_by_name(f) = read_dentry_by_name(g)
<1> DEFINE m == Compared(f)
<1>1. Compared(g) = m /\ m \in Nat /\ m <= n + 1
  BY ImageAssumption DEF Compared
<1> HIDE DEF m
<1>2. \A k \in 1 .. m : f[k] = g[k]
  BY <1>1
<1>3. ASSUME NEW name PROVE SamePrefix(f, name, m) <=> SamePrefix(g, name, m)
  <2>1. \A k \in 1 .. m : \A j \in 1 .. k - 1 : j \in 1 .. m
    BY <1>1
  <2> QED
    BY <1>2, <2>1 DEF SamePrefix
<1>4. Matching(f, m) = Matching(g, m)
  BY <1>3 DEF Matching
<1> QED
  BY <1>1, <1>4, SearchIs DEF m

\* Whether a file begins like an executable, which is asked of files that are long enough.
LooksExecutable(inode) == \A k \in 1 .. Len(Magic) : FileByte(inode, k - 1) = Magic[k]
LongEnough(inode) == Len(Magic) <= inode_arr[inode].length

\* That is what execute tests of those, whatever stood in the buffer.
LEMMA TestsFirstBytes ==
  ASSUME NEW M, Magic \in Seq(M), NEW inode \in Inode, LongEnough(inode), NEW buffer
  PROVE  LET bytes == read_data(inode, 0, Len(Magic)).bytes
         IN  Magic = [k \in DOMAIN Magic |-> IF k <= Len(bytes) THEN bytes[k] ELSE buffer[k]]
             <=> LooksExecutable(inode)
<1> DEFINE r == read_data(inode, 0, Len(Magic))
           bytes == r.bytes
           n == Len(Magic)
           amount == Amount(inode, 0, n)
<1>1. n \in Nat /\ DOMAIN Magic = 1 .. n /\ inode_arr[inode].length \in Nat /\ 0 \in Nat
  BY LenProperties, ImageAssumption
<1>2. AnswersPart(r, inode, 0, amount)
  BY <1>1, ReadsExactly
<1>3. /\ Len(bytes) = amount
      /\ \A k \in 1 .. amount : bytes[k] = FileByte(inode, 0 + (k - 1))
  BY <1>2 DEF AnswersPart
<1>4. amount = n
  BY <1>1 DEF Amount, Smaller, LongEnough
<1> HIDE DEF r, amount
<1>5. \A k \in 1 .. n : bytes[k] = FileByte(inode, k - 1)
  <2>1. \A k \in 1 .. n : 0 + (k - 1) = k - 1
    BY <1>1
  <2> QED
    BY <1>3, <1>4, <2>1
<1> HIDE DEF bytes
<1> DEFINE read == [k \in 1 .. n |-> IF k <= Len(bytes) THEN bytes[k] ELSE buffer[k]]
<1>6. \A k \in 1 .. n : read[k] = FileByte(inode, k - 1)
  BY <1>1, <1>3, <1>4, <1>5
<1>7. Magic = read <=> \A k \in 1 .. n : read[k] = Magic[k]
  <2>1. Magic = [k \in 1 .. n |-> Magic[k]]
    BY <1>1
  <2> QED
    BY <2>1
<1>8. Magic = read <=> LooksExecutable(inode)
  <2> HIDE DEF read
  <2> QED
    BY <1>6, <1>7 DEF LooksExecutable
<1> QED
  BY <1>1, <1>8, Zenon DEF bytes, r

\* The commands that execute's indices and the buffer of the argument can hold (with a newline
\* and the NUL); what stands in the way of running those: the name or all of it is too long, or it
\* is a grep without argument.
Holds(w, gap, a) == Len(w) + gap + Len(a) + 2 <= INDEX_RANGE /\ Len(a) <= CMD_MAX_LEN
FitsBuffers(w, gap, a) ==
    Len(w) <= CMD_MAX_LEN /\ Len(w) + gap + Len(a) <= MAX_KBUFF_LEN
BeginsAsGrep(w) == Len(Grep) <= Len(w) /\ \A k \in 1 .. Len(Grep) : w[k] = Grep[k]

\* A program of this name: the first entry with it, and it begins like an executable.  Of
\* entries with shorter files nothing is said: MCExecute has what becomes of them.
IsProgram(w) ==
    \E k \in 1 .. num_of_dirE :
        /\ NameIn(k) = w
        /\ \A j \in 1 .. k - 1 : NameIn(j) # w
        /\ LooksExecutable(dir_entries[k].inode)
NamesNoShortFile(w) ==
    \A k \in 1 .. num_of_dirE : NameIn(k) = w => LongEnough(dir_entries[k].inode)

\* The name of grep is found behind the NUL of no other one.
LEMMA GrepIsGrep ==
  ASSUME NEW C, NEW exec \in Seq(C), NEW w \in Seq(C), Len(w) < Len(exec),
         \A k \in 1 .. Len(w) : exec[k] = w[k], exec[Len(w) + 1] = NUL,
         NEW G, Grep \in Seq(G), NameLike(Grep), Len(Grep) <= Len(exec)
  PROVE  SubSeq(exec, 1, Len(Grep)) = Grep <=> BeginsAsGrep(w)
<1> DEFINE n == Len(Grep)
           part == SubSeq(exec, 1, n)
<1>1. n \in Nat /\ Len(w) \in Nat /\ Len(exec) \in Nat /\ \A k \in 1 .. n : Grep[k] # NUL
  BY LenProperties DEF NameLike
<1>2. /\ part \in Seq(C) /\ Len(part) = n
      /\ \A k \in 1 .. n : part[k] = exec[k]
  <2>1. /\ SubSeq(exec, 0 + 1, n) \in Seq(C)
        /\ Len(SubSeq(exec, 0 + 1, n)) = n - 0
        /\ \A k \in 1 .. n - 0 : SubSeq(exec, 0 + 1, n)[k] = exec[0 + k]
    <3>1. 0 \in Nat /\ n \in 0 .. Len(exec)
      BY <1>1
    <3> HIDE DEF n
    <3> QED
      BY <3>1, PartOf
  <2>2. 0 + 1 = 1 /\ n - 0 = n /\ \A k \in 1 .. n : 0 + k = k
    BY <1>1
  <2> QED
    BY <2>1, <2>2
<1> HIDE DEF part
<1>3. part = Grep <=> \A k \in 1 .. n : exec[k] = Grep[k]
  <2>1. ASSUME \A k \in 1 .. n : exec[k] = Grep[k] PROVE part = Grep
    <3>1. Len(part) = Len(Grep) /\ \A k \in 1 .. Len(part) : part[k] = Grep[k]
      BY <1>2, <2>1
    <3>2. part \in Seq(C \union G) /\ Grep \in Seq(C \union G)
      <4>1. C \subseteq C \union G /\ G \subseteq C \union G
        OBVIOUS
      <4> QED
        BY <1>2, <4>1, SeqMonotonic
    <3> QED
      BY <3>1, <3>2, SeqEqual
  <2> QED
    BY <1>2, <2>1
<1>4. CASE n <= Len(w)
  <2>1. \A k \in 1 .. n : exec[k] = w[k]
    BY <1>1, <1>4
  <2> QED
    BY <1>3, <1>4, <2>1 DEF BeginsAsGrep, part
<1>5. CASE n > Len(w)
  <2>1. Len(w) + 1 \in 1 .. n
    BY <1>1, <1>5
  <2>2. exec[Len(w) + 1] # Grep[Len(w) + 1]
    BY <1>1, <2>1
  <2> QED
    BY <1>1, <1>3, <1>5, <2>1, <2>2 DEF BeginsAsGrep, part
<1> QED
  BY <1>1, <1>4, <1>5

\* exec[] holds this name and a NUL behind it.
HoldsName(exec, w) ==
    /\ Len(w) < Len(exec) /\ exec[Len(w) + 1] = NUL
    /\ \A k \in 1 .. Len(w) : exec[k] = w[k]

\* execute looks for exactly the name in exec[], and runs what it finds if it looks like
\* an executable.
LEMMA RunsPrograms ==
  ASSUME NEW C, NUL \in C, NEW exec \in Seq(C), NEW w \in Seq(C), NameLike(w), HoldsName(exec, w),
         NamesNoShortFile(w), NEW M, Magic \in Seq(M), NEW buffer
  PROVE  IsExecutable(exec, buffer) <=> IsProgram(w)
<1> DEFINE found == read_dentry_by_name(exec)
           n == Len(w)
<1>1. n \in Nat /\ \A k \in 1 .. Len(w) : w[k] # NUL
  BY LenProperties DEF NameLike
<1>2. strlen(exec) = n
  BY <1>1, TextIs DEF HoldsName
<1>3. strlen(CString(w)) = n
  BY <1>1, CStringLength
<1>4. \A k \in 1 .. n + 1 : exec[k] = CString(w)[k]
  <2>1. /\ CString(w)[n + 1] = NUL
        /\ \A k \in 1 .. n : CString(w)[k] = w[k]
    BY CStringOf
  <2> QED
    BY <1>1, <2>1 DEF HoldsName
<1>5. found = read_dentry_by_name(CString(w))
  <2> DEFINE g == CString(w)
  <2>1. strlen(g) = n /\ \A k \in 1 .. n + 1 : exec[k] = g[k]
    BY <1>3, <1>4
  <2> HIDE DEF g, n
  <2>2. read_dentry_by_name(exec) = read_dentry_by_name(g)
    BY <1>1, <1>2, <2>1, SameNameFound
  <2> QED
    BY <2>2 DEF g
<1>6. \/ /\ found = NotFound
         /\ \A k \in 1 .. num_of_dirE : NameIn(k) # w
      \/ \E k \in 1 .. num_of_dirE :
           /\ found = dir_entries[k]
           /\ NameIn(k) = w
           /\ \A j \in 1 .. k - 1 : NameIn(j) # w
  <2>1. w # <<>>
    BY DEF NameLike
  <2> HIDE DEF found
  <2> QED
    BY <1>1, <1>5, <2>1, SearchFindsName
<1>x. IsExecutable(exec, buffer) <=>
        /\ found # NotFound
        /\ LET bytes == read_data(found.inode, 0, Len(Magic)).bytes
           IN  Magic = [k \in DOMAIN Magic |-> IF k <= Len(bytes) THEN bytes[k] ELSE buffer[k]]
  BY Zenon DEF IsExecutable, found
<1> HIDE DEF found
<1>7. CASE found = NotFound /\ \A k \in 1 .. num_of_dirE : NameIn(k) # w
  BY <1>x, <1>7 DEF IsProgram
<1>8. ASSUME NEW k \in 1 .. num_of_dirE, found = dir_entries[k], NameIn(k) = w,
             \A j \in 1 .. k - 1 : NameIn(j) # w
      PROVE  IsExecutable(exec, buffer) <=> IsProgram(w)
  <2>1. k \in 1 .. Len(dir_entries) /\ num_of_dirE \in Nat
    BY ImageAssumption
  <2>2. found # NotFound /\ found.inode \in Inode
    <3>1. found.file_type \in {RTC_FTYPE, DIR_FTYPE, FILE_FTYPE} /\ found.inode \in Inode
      BY <1>8, <2>1, ImageAssumption
    <3>2. NotFound.file_type = -1
      BY DEF NotFound
    <3>3. found.file_type # -1
      BY <3>1 DEF RTC_FTYPE, DIR_FTYPE, FILE_FTYPE
    <3> QED
      BY <3>1, <3>2, <3>3
  <2> DEFINE inode == found.inode
  <2>3. LET bytes == read_data(inode, 0, Len(Magic)).bytes
        IN  Magic = [j \in DOMAIN Magic |-> IF j <= Len(bytes) THEN bytes[j] ELSE buffer[j]]
            <=> LooksExecutable(inode)
    <3>1. inode \in Inode /\ LongEnough(inode)
      BY <1>8, <2>2 DEF NamesNoShortFile
    <3> HIDE DEF inode
    <3> QED
      BY <3>1, TestsFirstBytes
  <2>4. IsExecutable(exec, buffer) <=> LooksExecutable(inode)
    BY <1>x, <2>2, <2>3, Zenon
  <2>5. IsProgram(w) <=> LooksExecutable(dir_entries[k].inode)
    <3>1. ASSUME NEW i \in 1 .. num_of_dirE, NameIn(i) = w, \A j \in 1 .. i - 1 : NameIn(j) # w
          PROVE  i = k
      <4>1. ~(i < k) /\ ~(k < i)
        BY <1>8, <2>1, <3>1
      <4> QED
        BY <2>1, <4>1
    <3> QED
      BY <1>8, <3>1, Zenon DEF IsProgram
  <2> QED
    BY <1>8, <2>4, <2>5
<1> QED
  BY <1>6, <1>7, <1>8

\* What keeps a command from being run.
Runs(w, gap, a) ==
    /\ FitsBuffers(w, gap, a)
    /\ ~(a = <<>> /\ BeginsAsGrep(w))
    /\ IsProgram(w)

\* Of a command that begins with its name, can be held, and names no file shorter than the
\* mark of an executable: whatever is on the stack, execute runs it exactly if it is not too
\* long, is not a grep without argument, and names an entry, the first one with this name,
\* whose file begins like an executable; then it returns what the program hands over, and
\* else -1.
THEOREM ExecuteOutcome ==
  ASSUME CMD_MAX_LEN \in Nat, MAX_KBUFF_LEN \in Nat,
         NEW C, Marks \subseteq C, NEW w \in Seq(C), NameLike(w), NEW a \in Seq(C), ArgumentLike(a),
         NEW gap \in Nat, gap > 0 \/ a = <<>>, NEW end \in LineEnds,
         NEW junk \in [1 .. CMD_MAX_LEN + 1 -> C], NEW buffer, NEW ended,
         NEW G, Grep \in Seq(G), NameLike(Grep), Len(Grep) <= CMD_MAX_LEN,
         NEW M, Magic \in Seq(M), Holds(w, gap, a), NamesNoShortFile(w)
  PROVE  execute(Typed(0, w, gap, a, end), ended, junk, buffer) =
         IF Runs(w, gap, a) THEN ended ELSE -1
<1> DEFINE c == Typed(0, w, gap, a, end)
           n == Len(w)
           m2 == n + gap
           m3 == m2 + Len(a)
           exec == NameCopied(c, 0, n, junk)
           parsed == Parse(c, junk)
<1>0. /\ n \in Nat /\ Len(a) \in Nat /\ (a = <<>>) = (Len(a) = 0) /\ NUL \in C
      /\ Len(Grep) \in Nat
  BY LenProperties, EmptySeq DEF Marks
<1>1. /\ c \in Seq(C)
      /\ Layout(c, 0, n, m2, m3)
      /\ SubSeq(c, 1, n) = w
      /\ Len(c) <= m3 + 2
  <2>1. /\ Typed(0, w, gap, a, end) \in Seq(C)
        /\ Parts(Typed(0, w, gap, a, end), 0, 0 + Len(w), 0 + Len(w) + gap,
                 0 + Len(w) + gap + Len(a), w, a)
        /\ Len(Typed(0, w, gap, a, end)) <= 0 + Len(w) + gap + Len(a) + 2
    <3>1. 0 \in Nat
      OBVIOUS
    <3> QED
      BY <3>1, TypedLayout
  <2>2. 0 + Len(w) = n /\ 0 + Len(w) + gap = m2 /\ 0 + Len(w) + gap + Len(a) = m3 /\ 0 + 1 = 1
    BY <1>0
  <2> HIDE DEF c, n, m2, m3
  <2>3. Parts(c, 0, n, m2, m3, w, a) /\ Len(c) <= m3 + 2
    BY <2>1, <2>2 DEF c
  <2> QED
    BY <2>1, <2>2, <2>3, Zenon DEF Parts, c
<1> HIDE DEF c
<1>2. IF \/ n > CMD_MAX_LEN \/ m3 > MAX_KBUFF_LEN
         \/ m2 = m3 /\ SubSeq(exec, 1, Len(Grep)) = Grep
        THEN parsed = Refused
        ELSE parsed # Refused /\ parsed # Undefined /\ parsed.exec = exec
  <2>0. Len(c) <= INDEX_RANGE /\ m3 - m2 <= CMD_MAX_LEN
    <3>1. Len(c) \in Nat
      BY <1>1, LenProperties
    <3> QED
      BY <1>0, <1>1, <3>1 DEF Holds, INDEX_RANGE
  <2> HIDE DEF n, m2, m3, exec
  <2>1. TakenApart(c, 0, n, m2, m3, junk)
    BY <1>0, <1>1, <2>0, CommandTakenApart
  <2> QED
    BY <2>1, Zenon DEF TakenApart, exec
<1>3. ASSUME n <= CMD_MAX_LEN
      PROVE  exec \in Seq(C) /\ HoldsName(exec, w) /\ Len(exec) = CMD_MAX_LEN + 1
  <2>1. exec = [k \in 1 .. CMD_MAX_LEN + 1 |->
                  IF k <= n THEN c[0 + k] ELSE IF k = n + 1 THEN NUL ELSE junk[k]]
    BY <1>0 DEF NameCopied, Terminator
  <2>2. \A k \in 1 .. n : c[0 + k] = w[k]
    <3>1. 0 \in Nat /\ n \in 0 .. Len(c) /\ n - 0 = n /\ 0 + 1 = 1
      BY <1>0, <1>1 DEF Layout
    <3> HIDE DEF n
    <3>2. \A k \in 1 .. n - 0 : SubSeq(c, 0 + 1, n)[k] = c[0 + k]
      BY <1>1, <3>1, PartOf
    <3> QED
      BY <1>1, <3>1, <3>2
  <2>3. \A k \in 1 .. n : w[k] \in C
    BY ElementOfSeq
  <2>4. exec \in [1 .. CMD_MAX_LEN + 1 -> C]
    <3> HIDE DEF exec
    <3> QED
      BY <1>0, <2>1, <2>2, <2>3
  <2>5. /\ \A k \in 1 .. n : exec[k] = w[k]
        /\ exec[n + 1] = NUL
    <3> HIDE DEF exec
    <3>1. \A k \in 1 .. n : k \in 1 .. CMD_MAX_LEN + 1
      BY <1>0, <1>3
    <3>2. n + 1 \in 1 .. CMD_MAX_LEN + 1 /\ ~(n + 1 <= n)
      BY <1>0, <1>3
    <3>3. \A k \in 1 .. n : exec[k] = c[0 + k]
      BY <1>0, <2>1, <3>1
    <3>4. exec[n + 1] = NUL
      BY <2>1, <3>2
    <3> QED
      BY <2>2, <3>3, <3>4, Zenon
  <2>6. exec \in Seq(C) /\ Len(exec) = CMD_MAX_LEN + 1
    <3> HIDE DEF exec
    <3> QED
      BY <2>4
  <2> HIDE DEF exec
  <2>7. Len(w) < Len(exec)
    BY <1>0, <1>3, <2>6
  <2> QED
    BY <2>5, <2>6, <2>7 DEF HoldsName
<1> HIDE DEF exec
<1>4. ASSUME n <= CMD_MAX_LEN
      PROVE  SubSeq(exec, 1, Len(Grep)) = Grep <=> BeginsAsGrep(w)
  <2>1. /\ exec \in Seq(C) /\ Len(w) < Len(exec) /\ exec[Len(w) + 1] = NUL
        /\ \A k \in 1 .. Len(w) : exec[k] = w[k]
    BY <1>3, <1>4 DEF HoldsName
  <2>2. Len(Grep) <= Len(exec)
    BY <1>0, <1>3, <1>4
  <2> QED
    BY <2>1, <2>2, GrepIsGrep
<1>5. ASSUME n <= CMD_MAX_LEN
      PROVE  IsExecutable(exec, buffer) <=> IsProgram(w)
  BY <1>0, <1>3, <1>5, RunsPrograms
<1>6. execute(c, ended, junk, buffer) =
      IF parsed = Undefined THEN UNKNOWN
      ELSE IF parsed # Refused /\ IsExecutable(parsed.exec, buffer) THEN ended ELSE -1
  BY Zenon DEF execute, parsed
<1>7. (m2 = m3 <=> a = <<>>) /\ m3 \in Nat
  <2> DEFINE l == Len(a)
  <2>0. l \in Nat /\ n \in Nat /\ Len(a) = l
    BY <1>0
  <2> HIDE DEF l, n
  <2>1. m2 \in Nat /\ m3 \in Nat /\ (m2 = m3 <=> l = 0)
    BY <2>0
  <2>2. l = 0 <=> a = <<>>
    BY <1>0 DEF l
  <2> HIDE DEF m2, m3
  <2> QED
    BY <2>1, <2>2
<1>8. FitsBuffers(w, gap, a) <=> ~(n > CMD_MAX_LEN) /\ ~(m3 > MAX_KBUFF_LEN)
  BY <1>0 DEF FitsBuffers
<1>9. ~(n > CMD_MAX_LEN) => n <= CMD_MAX_LEN
  BY <1>0
<1> HIDE DEF n, m2, m3, parsed
<1>10. CASE Runs(w, gap, a)
  <2>1. parsed # Refused /\ parsed # Undefined /\ parsed.exec = exec
    BY <1>2, <1>4, <1>7, <1>8, <1>9, <1>10 DEF Runs
  <2>2. IsExecutable(exec, buffer)
    BY <1>5, <1>8, <1>9, <1>10 DEF Runs
  <2> QED
    BY <1>6, <1>10, <2>1, <2>2 DEF c
<1>11. CASE ~Runs(w, gap, a)
  <2>1. \/ parsed = Refused
        \/ parsed # Undefined /\ parsed.exec = exec /\ ~IsExecutable(exec, buffer)
    BY <1>2, <1>4, <1>5, <1>7, <1>8, <1>9, <1>11 DEF Runs
  <2>2. Refused # Undefined
    <3>1. Refused.defined = TRUE /\ Undefined.defined = FALSE
      BY DEF Refused, Undefined
    <3> QED
      BY <3>1
  <2>3. parsed # Undefined
    BY <2>1, <2>2
  <2> QED
    BY <1>6, <1>11, <2>1, <2>3 DEF c
<1> QED
  BY <1>10, <1>11

\* A line as the shell reads it, and the command in it.
Line(w, gap, a) == w \o Spaces(gap) \o a

LEMMA LineIs ==
  ASSUME NEW C, Marks \subseteq C, NEW w \in Seq(C), NameLike(w), NEW a \in Seq(C), ArgumentLike(a),
         NEW gap \in Nat
  PROVE  /\ Line(w, gap, a) \in Seq(C) /\ Len(Line(w, gap, a)) \in Nat
         /\ Len(Line(w, gap, a)) = Len(w) + gap + Len(a) /\ Line(w, gap, a) # <<>>
         /\ \A k \in 1 .. Len(Line(w, gap, a)) : Line(w, gap, a)[k] # NEWLINE
         /\ CString(Line(w, gap, a)) = Typed(0, w, gap, a, <<>>)
<1> DEFINE b == Spaces(gap)
           y == w \o b
           x == y \o a
<1>1. b \in Seq(C) /\ Len(b) = gap /\ \A k \in 1 .. gap : b[k] = SPACE
  <2>1. SPACE \in C
    BY DEF Marks
  <2> QED
    BY <2>1 DEF Spaces
<1>2. /\ Len(w) \in Nat /\ Len(w) # 0 /\ Len(a) \in Nat
      /\ \A k \in 1 .. Len(w) : w[k] # NEWLINE
      /\ \A k \in 1 .. Len(a) : a[k] # NEWLINE
  BY EmptySeq, LenProperties DEF NameLike, ArgumentLike
<1>x. Line(w, gap, a) = x
  BY DEF Line
<1> HIDE DEF b
<1>3. y \in Seq(C) /\ Joins(y, w, b)
  BY <1>1, Joined
<1> HIDE DEF y
<1>4. x \in Seq(C) /\ Joins(x, y, a)
  BY <1>3, Joined
<1>5. Len(y) = Len(w) + gap /\ Len(y) \in Nat /\ \A k \in 1 .. Len(y) : y[k] # NEWLINE
  <2>0. Len(y) = Len(w) + gap /\ Len(y) \in Nat
    BY <1>1, <1>2, <1>3 DEF Joins
  <2>1. ASSUME NEW k \in 1 .. Len(y), k <= Len(w) PROVE y[k] # NEWLINE
    <3>1. k \in 1 .. Len(w)
      BY <1>2, <2>1
    <3> QED
      BY <1>2, <1>3, <3>1 DEF Joins
  <2>2. ASSUME NEW k \in 1 .. Len(y), k > Len(w) PROVE y[k] # NEWLINE
    <3> DEFINE j == k - Len(w)
    <3>1. j \in 1 .. gap /\ Len(w) + j = k
      BY <1>1, <1>2, <2>0, <2>2
    <3> HIDE DEF j
    <3>2. y[Len(w) + j] = b[j] /\ b[j] = SPACE
      BY <1>1, <1>3, <3>1 DEF Joins
    <3> QED
      BY <3>1, <3>2 DEF SPACE, NEWLINE
  <2> QED
    BY <1>2, <2>0, <2>1, <2>2
<1> HIDE DEF x
<1>6. /\ Len(x) = Len(w) + gap + Len(a) /\ Len(x) \in Nat /\ Len(x) # 0
      /\ \A k \in 1 .. Len(x) : x[k] # NEWLINE
  <2>0. Len(x) = Len(y) + Len(a) /\ Len(x) \in Nat /\ Len(x) # 0
    BY <1>2, <1>4, <1>5 DEF Joins
  <2>1. ASSUME NEW k \in 1 .. Len(x), k <= Len(y) PROVE x[k] # NEWLINE
    <3>1. k \in 1 .. Len(y)
      BY <1>5, <2>1
    <3> QED
      BY <1>5, <1>4, <3>1 DEF Joins
  <2>2. ASSUME NEW k \in 1 .. Len(x), k > Len(y) PROVE x[k] # NEWLINE
    <3> DEFINE j == k - Len(y)
    <3>1. j \in 1 .. Len(a) /\ Len(y) + j = k
      BY <1>2, <1>5, <2>0, <2>2
    <3> HIDE DEF j
    <3>2. x[Len(y) + j] = a[j]
      BY <1>4, <3>1 DEF Joins
    <3> QED
      BY <1>2, <3>1, <3>2
  <2> QED
    BY <1>5, <2>0, <2>1, <2>2
<1>7. x # <<>>
  BY <1>4, <1>6, EmptySeq
<1>8. CString(x) = Typed(0, w, gap, a, <<>>)
  <2>1. Spaces(0) = <<>>
    BY DEF Spaces
  <2>2. <<>> \o w = w /\ x \o <<>> = x
    BY <1>4, ConcatEmptySeq
  <2>3. Typed(0, w, gap, a, <<>>) = CString(Spaces(0) \o w \o b \o a \o <<>>)
    BY Zenon DEF Typed, b
  <2>4. Spaces(0) \o w \o b \o a \o <<>> = x \o <<>>
    BY <2>1, <2>2, Zenon DEF x, y
  <2> QED
    BY <2>2, <2>3, <2>4, Zenon
<1> QED
  BY <1>4, <1>6, <1>7, <1>8, <1>x, Zenon

\* The shell takes the newline off, and nothing else.
LEMMA NewlineTakenOff ==
  ASSUME NEW C, Marks \subseteq C, NEW x \in Seq(C), x # <<>>,
         \A k \in 1 .. Len(x) : x[k] # NEWLINE, NEW end \in LineEnds
  PROVE  WithoutNewline(x \o end) = x
<1>1. Len(x) \in Nat /\ Len(x) # 0
  BY EmptySeq, LenProperties
<1>2. CASE end = <<>>
  <2>1. x \o end = x
    BY <1>2, ConcatEmptySeq
  <2>2. x[Len(x)] # NEWLINE
    BY <1>1
  <2> QED
    BY <2>1, <2>2 DEF WithoutNewline
<1>3. CASE end = <<NEWLINE>>
  <2> DEFINE l == x \o end
             n == Len(x)
  <2>1. end \in Seq(C) /\ Len(end) = 1 /\ end[1] = NEWLINE
    <3>1. NEWLINE \in C
      BY DEF Marks
    <3> QED
      BY <1>3, <3>1
  <2>2. l \in Seq(C) /\ Joins(l, x, end)
    BY <2>1, Joined
  <2> HIDE DEF l
  <2>3. Len(l) = n + 1 /\ l[n + 1] = NEWLINE /\ \A k \in 1 .. n : l[k] = x[k]
    BY <2>1, <2>2 DEF Joins
  <2>4. l # <<>> /\ l[Len(l)] = NEWLINE /\ Len(l) - 1 = n
    <3>1. l # <<>>
      BY <1>1, <2>2, <2>3, EmptySeq
    <3> QED
      BY <1>1, <2>3, <3>1
  <2>5. WithoutNewline(l) = SubSeq(l, 1, n)
    BY <2>4 DEF WithoutNewline
  <2>6. SubSeq(l, 1, n) = x
    <3>1. 0 \in Nat /\ n \in 0 .. Len(l) /\ n - 0 = n /\ 0 + 1 = 1 /\ \A k \in 1 .. n : 0 + k = k
      BY <1>1, <2>3
    <3> HIDE DEF n
    <3>2. /\ SubSeq(l, 0 + 1, n) \in Seq(C)
          /\ Len(SubSeq(l, 0 + 1, n)) = n - 0
          /\ \A k \in 1 .. n - 0 : SubSeq(l, 0 + 1, n)[k] = l[0 + k]
      BY <2>2, <3>1, PartOf
    <3> DEFINE part == SubSeq(l, 1, n)
    <3>3. part \in Seq(C) /\ Len(part) = n /\ \A k \in 1 .. n : part[k] = x[k]
      BY <2>3, <3>1, <3>2
    <3> HIDE DEF part
    <3>4. part = x
      BY <3>3, SeqEqual DEF n
    <3> QED
      BY <3>4 DEF part
  <2> QED
    BY <2>5, <2>6 DEF l
<1> QED
  BY <1>2, <1>3 DEF LineEnds

\* What is said of a program that ended.
Said(ended) ==
    IF ended = 256 THEN "terminated_by_exception"
    ELSE IF ended = 0 THEN "next_line" ELSE "terminated_abnormally"

\* What a program hands over is a byte that is not the mark of exceptions, or is moved out
\* of the bytes; it is never what execute returns for no such command.
LEMMA HaltIs ==
  ASSUME NEW status \in Int
  PROVE  /\ halt(status) \in 0 .. 256 /\ halt(status) # 255
         /\ halt(status) = 256 <=> status % 256 = 255
         /\ halt(status) = 0 <=> status % 256 = 0
         /\ exception = 256
<1> DEFINE byte == status % 256
<1>1. byte \in 0 .. 255
  OBVIOUS
<1>2. halt(status) = IF byte = 255 THEN byte + 1 ELSE byte
  BY DEF halt, USER_PROG_CODE
<1>3. exception = 256
  <2>1. 255 % 256 = 255
    OBVIOUS
  <2> QED
    BY <2>1 DEF exception, halt, USER_PROG_CODE
<1> HIDE DEF byte
<1>4. /\ halt(status) \in 0 .. 256 /\ halt(status) # 255
      /\ halt(status) = 256 <=> byte = 255
      /\ halt(status) = 0 <=> byte = 0
  BY <1>1, <1>2
<1> QED
  BY <1>3, <1>4 DEF byte

\* What the shell says, of what execute returned.
LEMMA ShellSays ==
  ASSUME NEW line, NEW x, WithoutNewline(line) = x, x # <<>>, NEW ended, NEW junk, NEW buffer,
         NEW rval \in Int, rval # UNKNOWN,
         execute(CString(x), ended, junk, buffer) = rval
  PROVE  shell(line, ended, junk, buffer) =
         IF x = Exit THEN "return" ELSE IF rval = -1 THEN "no_such_command" ELSE Said(rval)
<1> DEFINE s == shell(line, ended, junk, buffer)
<1>1. s = CASE x = Exit -> "return"
            [] x = <<>> -> "next_line"
            [] OTHER ->
                 CASE rval = UNKNOWN -> "unknown"
                   [] rval = -1 -> "no_such_command"
                   [] rval = 256 -> "terminated_by_exception"
                   [] rval = 0 -> "next_line"
                   [] OTHER -> "terminated_abnormally"
  BY DEF shell
<1> HIDE DEF s
<1>2. s = IF x = Exit THEN "return" ELSE IF rval = -1 THEN "no_such_command" ELSE Said(rval)
  <2>1. CASE x = Exit
    BY <1>1, <2>1
  <2>2. CASE x # Exit /\ rval = -1
    BY <1>1, <2>2
  <2>3. CASE x # Exit /\ rval = 256
    BY <1>1, <2>3 DEF Said
  <2>4. CASE x # Exit /\ rval = 0
    BY <1>1, <2>4 DEF Said
  <2>5. CASE x # Exit /\ rval # -1 /\ rval # 256 /\ rval # 0
    BY <1>1, <2>5 DEF Said
  <2> QED
    BY <2>1, <2>2, <2>3, <2>4, <2>5
<1> QED
  BY <1>2 DEF s

\* What the shell answers.
Answers(w, gap, a, end, ended, junk, buffer) ==
    shell(Line(w, gap, a) \o end, ended, junk, buffer) =
    IF Line(w, gap, a) = Exit THEN "return"
    ELSE IF Runs(w, gap, a) THEN Said(ended) ELSE "no_such_command"

\* So the shell says, of such a line, that there is no such command exactly if execute does not
\* run it, and of one that ran what its status or its exception deserves.
THEOREM ShellOutcome ==
  ASSUME CMD_MAX_LEN \in Nat, MAX_KBUFF_LEN \in Nat,
         NEW C, Marks \subseteq C, NEW w \in Seq(C), NameLike(w), NEW a \in Seq(C), ArgumentLike(a),
         NEW gap \in Nat, gap > 0 \/ a = <<>>, NEW end \in LineEnds,
         NEW junk \in [1 .. CMD_MAX_LEN + 1 -> C], NEW buffer, NEW ended \in 0 .. 256,
         NEW G, Grep \in Seq(G), NameLike(Grep), Len(Grep) <= CMD_MAX_LEN,
         NEW M, Magic \in Seq(M), Holds(w, gap, a), NamesNoShortFile(w)
  PROVE  Answers(w, gap, a, end, ended, junk, buffer)
<1> DEFINE x == Line(w, gap, a)
           rval == execute(CString(x), ended, junk, buffer)
<1>1. /\ x \in Seq(C) /\ x # <<>> /\ \A k \in 1 .. Len(x) : x[k] # NEWLINE
      /\ CString(x) = Typed(0, w, gap, a, <<>>)
  BY LineIs
<1>2. rval = IF Runs(w, gap, a) THEN ended ELSE -1
  <2>1. <<>> \in LineEnds
    BY DEF LineEnds
  <2>2. execute(Typed(0, w, gap, a, <<>>), ended, junk, buffer) =
        IF Runs(w, gap, a) THEN ended ELSE -1
    BY <2>1, ExecuteOutcome
  <2> QED
    BY <1>1, <2>2
<1> HIDE DEF x
<1>3. WithoutNewline(x \o end) = x
  BY <1>1, NewlineTakenOff
<1> HIDE DEF rval
<1>4. rval \in Int /\ rval # UNKNOWN /\ (ended = -1) = FALSE
  <2>1. CASE Runs(w, gap, a)
    BY <1>2, <2>1 DEF UNKNOWN
  <2>2. CASE ~Runs(w, gap, a)
    BY <1>2, <2>2 DEF UNKNOWN
  <2> QED
    BY <2>1, <2>2
<1>5. shell(x \o end, ended, junk, buffer) =
      IF x = Exit THEN "return" ELSE IF rval = -1 THEN "no_such_command" ELSE Said(rval)
  <2> DEFINE line == x \o end
             r == rval
  <2>1. WithoutNewline(line) = x /\ x # <<>> /\ r \in Int /\ r # UNKNOWN /\ execute(CString(x), ended, junk, buffer) = r
    BY <1>1, <1>3, <1>4 DEF rval
  <2> HIDE DEF line, r
  <2>2. shell(line, ended, junk, buffer) =
        IF x = Exit THEN "return" ELSE IF r = -1 THEN "no_such_command" ELSE Said(r)
    BY <2>1, ShellSays
  <2> QED
    BY <2>2 DEF line, r
<1>6. shell(x \o end, ended, junk, buffer) =
      IF x = Exit THEN "return"
      ELSE IF Runs(w, gap, a) THEN Said(ended) ELSE "no_such_command"
  <2>1. CASE Runs(w, gap, a)
    BY <1>2, <1>4, <1>5, <2>1
  <2>2. CASE ~Runs(w, gap, a)
    BY <1>2, <1>5, <2>2
  <2> QED
    BY <2>1, <2>2
<1> QED
  BY <1>6, Zenon DEF x, Answers

\* A command without an argument.
AnswersName(w, gap, end, ended, junk, buffer) ==
    shell(w \o Spaces(gap) \o end, ended, junk, buffer) =
    IF w = Exit /\ gap = 0 THEN "return"
    ELSE IF IsProgram(w) THEN Said(ended) ELSE "no_such_command"

LEMMA ShellOfName ==
  ASSUME CMD_MAX_LEN \in Nat, MAX_KBUFF_LEN \in Nat,
         NEW C, Marks \subseteq C, NEW w \in Seq(C), NameLike(w), NEW gap \in Nat,
         NEW end \in LineEnds,
         NEW junk \in [1 .. CMD_MAX_LEN + 1 -> C], NEW buffer, NEW ended \in 0 .. 256,
         NEW G, Grep \in Seq(G), NameLike(Grep), Len(Grep) <= CMD_MAX_LEN,
         NEW M, Magic \in Seq(M), NameLike(Exit),
         Len(w) <= CMD_MAX_LEN, Len(w) + gap <= MAX_KBUFF_LEN, ~BeginsAsGrep(w),
         Len(w) + gap + 2 <= INDEX_RANGE, NamesNoShortFile(w)
  PROVE  AnswersName(w, gap, end, ended, junk, buffer)
<1> DEFINE none == <<>>
           b == Spaces(gap)
           x == w \o b
<1>1. none \in Seq(C) /\ Len(none) = 0 /\ none = <<>> /\ ArgumentLike(none)
  BY DEF ArgumentLike
<1>2. b \in Seq(C) /\ Len(b) = gap /\ \A k \in 1 .. gap : b[k] = SPACE
  <2>1. SPACE \in C
    BY DEF Marks
  <2> QED
    BY <2>1 DEF Spaces
<1>3. Len(w) \in Nat
  BY LenProperties
<1> HIDE DEF b
<1>4. x \in Seq(C) /\ Joins(x, w, b)
  BY <1>2, Joined
<1>5. Line(w, gap, none) = x
  <2>1. x \o <<>> = x
    BY <1>4, ConcatEmptySeq
  <2> QED
    BY <2>1, Zenon DEF Line, none, x, b
<1>6. x = Exit <=> w = Exit /\ gap = 0
  <2>1. CASE gap = 0
    <3>1. b = <<>>
      BY <1>2, <2>1, EmptySeq
    <3>2. x = w
      BY <3>1, ConcatEmptySeq
    <3> QED
      BY <2>1, <3>2
  <2>2. CASE gap # 0
    <3>1. 1 \in 1 .. gap /\ Len(w) + 1 \in 1 .. Len(w) + gap
      BY <1>3, <2>2
    <3> HIDE DEF x
    <3>2. x[Len(w) + 1] = SPACE /\ Len(x) = Len(w) + gap
      BY <1>2, <1>4, <3>1 DEF Joins
    <3> QED
      BY <2>2, <3>1, <3>2 DEF NameLike
  <2> QED
    BY <2>1, <2>2
<1> HIDE DEF none, x
<1>7. shell(Line(w, gap, none) \o end, ended, junk, buffer) =
      IF Line(w, gap, none) = Exit THEN "return"
      ELSE IF Runs(w, gap, none) THEN Said(ended) ELSE "no_such_command"
  <2>0. Holds(w, gap, none)
    BY <1>1, <1>3 DEF Holds, INDEX_RANGE
  <2>1. Answers(w, gap, none, end, ended, junk, buffer)
    BY <1>1, <2>0, ShellOutcome
  <2> QED
    BY <2>1, Zenon DEF Answers
<1>8. Runs(w, gap, none) <=> IsProgram(w)
  <2>1. FitsBuffers(w, gap, none)
    BY <1>1, <1>3 DEF FitsBuffers
  <2> QED
    BY <2>1 DEF Runs
<1>9. shell(x \o end, ended, junk, buffer) =
      IF w = Exit /\ gap = 0 THEN "return"
      ELSE IF IsProgram(w) THEN Said(ended) ELSE "no_such_command"
  BY <1>5, <1>6, <1>7, <1>8
<1> QED
  BY <1>9, Zenon DEF AnswersName, x, b

-----------------------------------------------------------------------------
(* Memory.                                                                 *)

\* The region of w addresses at an address.
Region(address, w) == address .. address + w - 1

\* What Moved and Filled are at each address.
MovedSo(f, A, r, dest, src, w) ==
    /\ f \in [A -> Nat]
    /\ \A a \in A : f[a] = IF a \in Region(dest, w) THEN r[src + (a - dest)] ELSE r[a]
FilledSo(f, A, r, dest, c, w) ==
    /\ f \in [A -> Nat]
    /\ \A a \in A : f[a] = IF a \in Region(dest, w) THEN c ELSE r[a]

LEMMA MovedIs ==
  ASSUME NEW A \in SUBSET Int, NEW r \in [A -> Nat], NEW dest \in Nat, NEW src \in Nat, NEW w \in Nat,
         Region(src, w) \subseteq A
  PROVE  MovedSo(Moved(r, dest, src, w), A, r, dest, src, w)
<1>1. \A a \in A : a \in Region(dest, w) => src + (a - dest) \in A
  BY DEF Region
<1>2. Moved(r, dest, src, w) =
      [a \in A |-> IF a \in Region(dest, w) THEN r[src + (a - dest)] ELSE r[a]]
  BY DEF Moved, Region
<1> QED
  BY <1>1, <1>2 DEF MovedSo

LEMMA FilledIs ==
  ASSUME NEW A \in SUBSET Int, NEW r \in [A -> Nat], NEW dest \in Nat, NEW c \in Nat, NEW w \in Nat
  PROVE  FilledSo(Filled(r, dest, c, w), A, r, dest, c, w)
  BY DEF FilledSo, Filled, Region

\* Functions are equal if they are at each argument.
LEMMA SameMemory ==
  ASSUME NEW A, NEW f \in [A -> Nat], NEW g \in [A -> Nat], \A a \in A : f[a] = g[a]
  PROVE  f = g
<1>1. f = [a \in A |-> f[a]] /\ g = [a \in A |-> g[a]]
  OBVIOUS
<1> QED
  BY <1>1, Zenon

\* To move the first part and then the rest is to move all, if no byte of the rest is
\* overwritten by the first part.
LEMMA MovedUpwards ==
  ASSUME NEW A \in SUBSET Int, NEW r \in [A -> Nat], NEW dest \in Nat, NEW src \in Nat,
         NEW n \in Nat, NEW w \in 0 .. n, Region(src, n) \subseteq A,
         dest <= src \/ src + n <= dest
  PROVE  Moved(Moved(r, dest, src, w), dest + w, src + w, n - w) = Moved(r, dest, src, n)
<1> DEFINE first == Moved(r, dest, src, w)
           rest == Moved(first, dest + w, src + w, n - w)
           all == Moved(r, dest, src, n)
<1>1. /\ Region(src, w) \subseteq A /\ Region(src + w, n - w) \subseteq A
      /\ dest + w \in Nat /\ src + w \in Nat /\ n - w \in Nat /\ w \in Nat
  BY DEF Region
<1>2. MovedSo(first, A, r, dest, src, w)
  BY <1>1, MovedIs
<1>3. MovedSo(all, A, r, dest, src, n)
  BY MovedIs
<1> HIDE DEF first, all
<1>4. MovedSo(rest, A, first, dest + w, src + w, n - w)
  <2> DEFINE d == dest + w
             s == src + w
             l == n - w
  <2>1. d \in Nat /\ s \in Nat /\ l \in Nat /\ Region(s, l) \subseteq A
    BY <1>1
  <2> HIDE DEF d, s, l
  <2>2. MovedSo(Moved(first, d, s, l), A, first, d, s, l)
    <3>1. first \in [A -> Nat]
      BY <1>2 DEF MovedSo
    <3> QED
      BY <2>1, <3>1, MovedIs
  <2> QED
    BY <2>2 DEF d, s, l
<1> HIDE DEF rest
<1>5. ASSUME NEW a \in A PROVE rest[a] = all[a]
  <2>1. CASE a \in Region(dest + w, n - w)
    <3> DEFINE b == src + (a - dest)
    <3>1. (src + w) + (a - (dest + w)) = b /\ b \in Region(src, n) /\ a \in Region(dest, n)
      BY <2>1 DEF Region
    <3>2. b \in A /\ b \notin Region(dest, w)
      BY <2>1, <3>1 DEF Region
    <3>3. rest[a] = first[b] /\ all[a] = r[b]
      BY <1>3, <1>4, <2>1, <3>1 DEF MovedSo
    <3> HIDE DEF b
    <3> QED
      BY <1>2, <3>2, <3>3 DEF MovedSo
  <2>2. CASE a \notin Region(dest + w, n - w)
    <3>1. a \in Region(dest, n) <=> a \in Region(dest, w)
      BY <2>2 DEF Region
    <3> QED
      BY <1>2, <1>3, <1>4, <2>2, <3>1 DEF MovedSo
  <2> QED
    BY <2>1, <2>2
<1>6. rest = all
  <2>1. rest \in [A -> Nat] /\ all \in [A -> Nat]
    BY <1>3, <1>4 DEF MovedSo
  <2> QED
    <3>1. \A a \in A : rest[a] = all[a]
      BY <1>5
    <3>2. \A F, G \in [A -> Nat] : (\A a \in A : F[a] = G[a]) => F = G
      BY SameMemory
    <3> QED
      BY <2>1, <3>1, <3>2, Zenon
<1> QED
  BY <1>6 DEF rest, first, all

\* And so is to move the last byte and then the others, from lower addresses to higher ones.
LEMMA MovedDownwards ==
  ASSUME NEW A \in SUBSET Int, NEW r \in [A -> Nat], NEW dest \in Nat, NEW src \in Nat,
         NEW n \in Nat \ {0}, Region(src, n) \subseteq A, src < dest
  PROVE  Moved(Moved(r, dest + (n - 1), src + (n - 1), 1), dest, src, n - 1) = Moved(r, dest, src, n)
<1> DEFINE d == dest + (n - 1)
           s == src + (n - 1)
           l == n - 1
           last == Moved(r, d, s, 1)
           rest == Moved(last, dest, src, l)
           all == Moved(r, dest, src, n)
<1>1. d \in Nat /\ s \in Nat /\ l \in Nat /\ 1 \in Nat /\ Region(s, 1) \subseteq A /\ Region(src, l) \subseteq A
  BY DEF Region
<1>n. d = dest + l /\ s = src + l /\ n = l + 1
  OBVIOUS
<1> HIDE DEF d, s, l
<1>2. MovedSo(last, A, r, d, s, 1)
  BY <1>1, MovedIs
<1>3. MovedSo(all, A, r, dest, src, n)
  BY MovedIs
<1> HIDE DEF last, all
<1>4. MovedSo(rest, A, last, dest, src, l)
  <2>1. last \in [A -> Nat]
    BY <1>2 DEF MovedSo
  <2> QED
    BY <1>1, <2>1, MovedIs DEF rest
<1> HIDE DEF rest
<1>5. ASSUME NEW a \in A PROVE rest[a] = all[a]
  <2>1. CASE a \in Region(dest, l)
    <3> DEFINE b == src + (a - dest)
    <3>1. b \in Region(src, n) /\ a \in Region(dest, n) /\ b \notin Region(d, 1)
      BY <1>1, <1>n, <2>1 DEF Region
    <3>2. b \in A
      BY <3>1
    <3>3. rest[a] = last[b] /\ all[a] = r[b]
      BY <1>3, <1>4, <2>1, <3>1 DEF MovedSo
    <3> HIDE DEF b
    <3> QED
      BY <1>2, <3>1, <3>2, <3>3 DEF MovedSo
  <2>2. CASE a \notin Region(dest, l) /\ a \in Region(d, 1)
    <3>1. a \in Region(dest, n) /\ s + (a - d) = src + (a - dest)
      BY <1>1, <1>n, <2>2 DEF Region
    <3> QED
      BY <1>2, <1>3, <1>4, <2>2, <3>1 DEF MovedSo
  <2>3. CASE a \notin Region(dest, l) /\ a \notin Region(d, 1)
    <3>1. a \notin Region(dest, n)
      BY <1>1, <1>n, <2>3 DEF Region
    <3> QED
      BY <1>2, <1>3, <1>4, <2>3, <3>1 DEF MovedSo
  <2> QED
    BY <2>1, <2>2, <2>3
<1>6. rest = all
  <2>1. rest \in [A -> Nat] /\ all \in [A -> Nat]
    BY <1>3, <1>4 DEF MovedSo
  <2> QED
    <3>1. \A a \in A : rest[a] = all[a]
      BY <1>5
    <3>2. \A F, G \in [A -> Nat] : (\A a \in A : F[a] = G[a]) => F = G
      BY SameMemory
    <3> QED
      BY <2>1, <3>1, <3>2, Zenon
<1> QED
  BY <1>6 DEF rest, last, all, d, s, l

LEMMA FilledUpwards ==
  ASSUME NEW A \in SUBSET Int, NEW r \in [A -> Nat], NEW dest \in Nat, NEW c \in Nat,
         NEW n \in Nat, NEW w \in 0 .. n
  PROVE  Filled(Filled(r, dest, c, w), dest + w, c, n - w) = Filled(r, dest, c, n)
<1> DEFINE d == dest + w
           l == n - w
           first == Filled(r, dest, c, w)
           rest == Filled(first, d, c, l)
           all == Filled(r, dest, c, n)
<1>1. d \in Nat /\ l \in Nat /\ w \in Nat
  OBVIOUS
<1>n. d = dest + w /\ n = w + l
  OBVIOUS
<1> HIDE DEF d, l
<1>2. FilledSo(first, A, r, dest, c, w)
  BY <1>1, FilledIs
<1>3. FilledSo(all, A, r, dest, c, n)
  BY FilledIs
<1> HIDE DEF first, all
<1>4. FilledSo(rest, A, first, d, c, l)
  <2>1. first \in [A -> Nat]
    BY <1>2 DEF FilledSo
  <2> QED
    BY <1>1, <2>1, FilledIs DEF rest
<1> HIDE DEF rest
<1>5. \A a \in A : a \in Region(dest, n) <=> a \in Region(dest, w) \/ a \in Region(d, l)
  BY <1>1, <1>n DEF Region
<1>6. rest = all
  <2>1. rest \in [A -> Nat] /\ all \in [A -> Nat]
    BY <1>3, <1>4 DEF FilledSo
  <2>2. \A a \in A : rest[a] = all[a]
    BY <1>2, <1>3, <1>4, <1>5 DEF FilledSo
  <2> QED
    <3>1. \A F, G \in [A -> Nat] : (\A a \in A : F[a] = G[a]) => F = G
      BY SameMemory
    <3> QED
      BY <2>1, <2>2, <3>1, Zenon
<1> QED
  BY <1>6 DEF rest, first, all, d, l

\* To move no byte changes nothing.
LEMMA NoneMoved ==
  ASSUME NEW A \in SUBSET Int, NEW r \in [A -> Nat], NEW dest \in Nat, NEW src \in Nat
  PROVE  Moved(r, dest, src, 0) = r
<1>1. \A a \in A : a \notin dest .. dest + 0 - 1
  OBVIOUS
<1> QED
  BY <1>1 DEF Moved

\* Nor does to fill none.
LEMMA NoneFilled ==
  ASSUME NEW A \in SUBSET Int, NEW r \in [A -> Nat], NEW dest \in Nat, NEW c \in Nat
  PROVE  Filled(r, dest, c, 0) = r
<1>1. \A a \in A : a \notin dest .. dest + 0 - 1
  OBVIOUS
<1> QED
  BY <1>1 DEF Filled

\* A round moves at least a byte and not more than is left.
LEMMA WidthFits ==
  ASSUME NEW addr \in Nat, NEW left \in Nat \ {0}
  PROVE  Width(addr, left) \in 1 .. left
  BY DEF Width

\* What a loop returns: each round goes on from a state that ends with the same.
Rounds(D, n, next, f, Result) ==
    /\ \A at \in D : at.k \in 0 .. n
    /\ \A at \in D : at.k = n => f[at] = Result[at]
    /\ \A at \in D : at.k # n => /\ at.k < next[at].k /\ f[at] = f[next[at]]
                                /\ Result[at] = Result[next[at]]
LEMMA LoopEnds ==
  ASSUME NEW D, NEW n \in Nat, NEW next \in [D -> D], NEW f, NEW Result,
         Rounds(D, n, next, f, Result)
  PROVE  Same(D, f, Result)
<1> DEFINE rank == [at \in D |-> n - at.k]
<1>1. rank \in [D -> Nat]
  BY DEF Rounds
<1>2. ASSUME NEW at \in D
      PROVE  \/ f[at] = Result[at]
             \/ /\ rank[next[at]] < rank[at]
                /\ f[next[at]] = Result[next[at]] => f[at] = Result[at]
  <2>1. next[at] \in D
    OBVIOUS
  <2>2. at.k \in 0 .. n /\ next[at].k \in 0 .. n
    BY <2>1 DEF Rounds
  <2>3. at.k < next[at].k => n - next[at].k < n - at.k
    BY <2>2
  <2> QED
    BY <2>1, <2>3 DEF Rounds
<1> HIDE DEF rank
<1>3. SameOrSteps(D, rank, next, f, Result)
  BY <1>2 DEF SameOrSteps
<1> QED
  BY <1>1, <1>3, StepsAgree

\* The rounds of memcpy.
CopyEq(f, m, dest, src, n) ==
    f = [at \in LoopState(m, n) |-> IF at.k = n THEN at.r ELSE f[CopyRound(at, dest, src, n)]]

\* memcpy copies as if it read all before it wrote, if the destination is not inside the
\* source: what a loop moves from where it is does not change over a round.
LEMMA CopyMoves ==
  ASSUME NEW A \in SUBSET Int, NEW m \in [A -> Nat], NEW dest \in Nat, NEW src \in Nat, NEW n \in Nat,
         Region(src, n) \subseteq A, dest <= src \/ src + n <= dest
  PROVE  memcpy(m, dest, src, n) = Moved(m, dest, src, n)
<1> DEFINE D == LoopState(m, n)
           Round(at) == CopyRound(at, dest, src, n)
           Result == [at \in D |-> Moved(at.r, dest + at.k, src + at.k, n - at.k)]
<1>1. D = [k : 0 .. n, r : [A -> Nat]]
  BY DEF LoopState
<1> HIDE DEF D
<1>2. ASSUME NEW at \in D, at.k # n
      PROVE  Round(at) \in D /\ at.k < Round(at).k /\ Result[at] = Result[Round(at)]
  <2> DEFINE r == at.r
             k == at.k
             d == dest + k
             s == src + k
             l == n - k
             w == Width(d, l)
             moved == Moved(r, d, s, w)
  <2>1. r \in [A -> Nat] /\ k \in 0 .. n /\ k # n
    BY <1>1, <1>2
  <2>2. /\ d \in Nat /\ s \in Nat /\ l \in Nat \ {0} /\ k \in Nat /\ l + k = n
        /\ d <= s \/ s + l <= d
    BY <2>1
  <2>3. Region(s, l) \subseteq A
    BY <2>1 DEF Region
  <2>4. dest + (k + w) = d + w /\ src + (k + w) = s + w /\ n - (k + w) = l - w
    <3>1. w \in Int
      BY <2>2, WidthFits
    <3> HIDE DEF w
    <3> QED
      BY <2>1, <3>1
  <2>r. Round(at) = [k |-> k + w, r |-> moved]
    BY DEF CopyRound
  <2>s. Result[at] = Moved(r, d, s, l)
    OBVIOUS
  <2> HIDE DEF d, s, l
  <2>5. w \in 1 .. l
    BY <2>2, WidthFits
  <2> HIDE DEF w, r, k
  <2>6. w \in Nat /\ w \in 0 .. l /\ Region(s, w) \subseteq A
    BY <2>2, <2>3, <2>5 DEF Region
  <2>7. moved \in [A -> Nat]
    <3>1. MovedSo(moved, A, r, d, s, w)
      BY <2>1, <2>2, <2>6, MovedIs
    <3> QED
      BY <3>1 DEF MovedSo
  <2>8. Round(at) \in D /\ k < Round(at).k
    <3>1. k + w \in 0 .. n /\ k < k + w
      BY <2>2, <2>5
    <3> HIDE DEF moved
    <3> QED
      BY <1>1, <2>7, <2>r, <3>1
  <2>9. Result[Round(at)] = Moved(moved, d + w, s + w, l - w)
    <3>1. Result[Round(at)] = Moved(moved, dest + (k + w), src + (k + w), n - (k + w))
      <4> HIDE DEF moved
      <4> QED
        BY <2>8, <2>r
    <3> QED
      BY <2>4, <3>1
  <2>10. Moved(moved, d + w, s + w, l - w) = Moved(r, d, s, l)
    <3>1. l \in Nat
      BY <2>2
    <3> QED
      BY <2>1, <2>2, <2>3, <2>6, <3>1, MovedUpwards
  <2> QED
    BY <2>8, <2>9, <2>10, <2>s DEF k
<1>3. ASSUME NEW at \in D, at.k = n
      PROVE  Result[at] = at.r
  <2>1. at.r \in [A -> Nat] /\ dest + n \in Nat /\ src + n \in Nat /\ n - n = 0
    BY <1>1
  <2> QED
    BY <1>3, <2>1, NoneMoved
<1> HIDE DEF Result, Round
<1>4. \E f : CopyEq(f, m, dest, src, n)
  <2>1. Result = [at \in D |-> IF at.k = n THEN at.r ELSE Result[Round(at)]]
    <3>1. Result = [at \in D |-> Result[at]]
      BY DEF Result
    <3> QED
      BY <1>2, <1>3, <3>1
  <2> QED
    BY <2>1, Zenon DEF CopyEq, D, Round
<1> DEFINE f == CHOOSE f : CopyEq(f, m, dest, src, n)
<1>5. f = [at \in D |-> IF at.k = n THEN at.r ELSE f[Round(at)]]
  <2>1. CopyEq(f, m, dest, src, n)
    BY <1>4, Zenon
  <2> QED
    BY <2>1, Zenon DEF CopyEq, D, Round
<1>6. memcpy(m, dest, src, n) = f[[k |-> 0, r |-> m]]
  BY Zenon DEF memcpy, CopyEq
<1> HIDE DEF f
<1>7. Same(D, f, Result)
  <2> DEFINE next == [at \in D |-> IF at.k = n THEN at ELSE Round(at)]
  <2>1. next \in [D -> D]
    BY <1>2
  <2>2. Rounds(D, n, next, f, Result)
    BY <1>1, <1>2, <1>3, <1>5 DEF Rounds
  <2> HIDE DEF next
  <2> QED
    BY <2>1, <2>2, LoopEnds
<1>8. [k |-> 0, r |-> m] \in D
  BY <1>1
<1>9. Result[[k |-> 0, r |-> m]] = Moved(m, dest, src, n)
  <2>1. dest + 0 = dest /\ src + 0 = src /\ n - 0 = n
    OBVIOUS
  <2> QED
    BY <1>8, <2>1 DEF Result
<1> QED
  BY <1>6, <1>7, <1>8, <1>9 DEF Same

\* The rounds of memset.
FillEq(f, m, dest, c, n) ==
    f = [at \in LoopState(m, n) |-> IF at.k = n THEN at.r ELSE f[FillRound(at, dest, c, n)]]

\* memset fills its region with the low byte of the value.
LEMMA SetFills ==
  ASSUME NEW A \in SUBSET Int, NEW m \in [A -> Nat], NEW dest \in Nat, NEW c \in Nat, NEW n \in Nat
  PROVE  memset(m, dest, c, n) = Filled(m, dest, c % 256, n)
<1> DEFINE D == LoopState(m, n)
           b == c % 256
           Round(at) == FillRound(at, dest, c, n)
           Result == [at \in D |-> Filled(at.r, dest + at.k, b, n - at.k)]
<1>b. b \in Nat
  OBVIOUS
<1>1. D = [k : 0 .. n, r : [A -> Nat]]
  BY DEF LoopState
<1> HIDE DEF D
<1>2. ASSUME NEW at \in D, at.k # n
      PROVE  Round(at) \in D /\ at.k < Round(at).k /\ Result[at] = Result[Round(at)]
  <2> DEFINE r == at.r
             k == at.k
             d == dest + k
             l == n - k
             w == Width(d, l)
             filled == Filled(r, d, b, w)
  <2>1. r \in [A -> Nat] /\ k \in 0 .. n /\ k # n
    BY <1>1, <1>2
  <2>2. d \in Nat /\ l \in Nat \ {0} /\ k \in Nat /\ l + k = n
    BY <2>1
  <2>4. dest + (k + w) = d + w /\ n - (k + w) = l - w
    <3>1. w \in Int
      BY <2>2, WidthFits
    <3> HIDE DEF w
    <3> QED
      BY <2>1, <3>1
  <2>r. Round(at) = [k |-> k + w, r |-> filled]
    BY DEF FillRound
  <2>s. Result[at] = Filled(r, d, b, l)
    OBVIOUS
  <2> HIDE DEF d, l
  <2>5. w \in 1 .. l
    BY <2>2, WidthFits
  <2> HIDE DEF w, r, k, b
  <2>6. w \in Nat /\ w \in 0 .. l
    BY <2>2, <2>5
  <2>7. filled \in [A -> Nat]
    <3>1. FilledSo(filled, A, r, d, b, w)
      BY <1>b, <2>1, <2>2, <2>6, FilledIs
    <3> QED
      BY <3>1 DEF FilledSo
  <2>8. Round(at) \in D /\ k < Round(at).k
    <3>1. k + w \in 0 .. n /\ k < k + w
      BY <2>2, <2>5
    <3> HIDE DEF filled
    <3> QED
      BY <1>1, <2>7, <2>r, <3>1
  <2>9. Result[Round(at)] = Filled(filled, d + w, b, l - w)
    <3>1. Result[Round(at)] = Filled(filled, dest + (k + w), b, n - (k + w))
      <4> HIDE DEF filled
      <4> QED
        BY <2>8, <2>r
    <3> QED
      BY <2>4, <3>1
  <2>10. Filled(filled, d + w, b, l - w) = Filled(r, d, b, l)
    <3>1. l \in Nat
      BY <2>2
    <3> QED
      BY <1>b, <2>1, <2>2, <2>6, <3>1, FilledUpwards
  <2> QED
    BY <2>8, <2>9, <2>10, <2>s DEF k
<1> HIDE DEF b
<1>3. ASSUME NEW at \in D, at.k = n
      PROVE  Result[at] = at.r
  <2>1. at.r \in [A -> Nat] /\ dest + n \in Nat /\ n - n = 0
    BY <1>1
  <2> QED
    BY <1>3, <2>1, <1>b, NoneFilled
<1> HIDE DEF Result, Round
<1>4. \E f : FillEq(f, m, dest, c, n)
  <2>1. Result = [at \in D |-> IF at.k = n THEN at.r ELSE Result[Round(at)]]
    <3>1. Result = [at \in D |-> Result[at]]
      BY DEF Result
    <3> QED
      BY <1>2, <1>3, <3>1
  <2> QED
    BY <2>1, Zenon DEF FillEq, D, Round
<1> DEFINE f == CHOOSE f : FillEq(f, m, dest, c, n)
<1>5. f = [at \in D |-> IF at.k = n THEN at.r ELSE f[Round(at)]]
  <2>1. FillEq(f, m, dest, c, n)
    BY <1>4, Zenon
  <2> QED
    BY <2>1, Zenon DEF FillEq, D, Round
<1>6. memset(m, dest, c, n) = f[[k |-> 0, r |-> m]]
  BY Zenon DEF memset, FillEq
<1> HIDE DEF f
<1>7. Same(D, f, Result)
  <2> DEFINE next == [at \in D |-> IF at.k = n THEN at ELSE Round(at)]
  <2>1. next \in [D -> D]
    BY <1>2
  <2>2. Rounds(D, n, next, f, Result)
    BY <1>1, <1>2, <1>3, <1>5 DEF Rounds
  <2> HIDE DEF next
  <2> QED
    BY <2>1, <2>2, LoopEnds
<1>8. [k |-> 0, r |-> m] \in D
  BY <1>1
<1>9. Result[[k |-> 0, r |-> m]] = Filled(m, dest, b, n)
  <2>1. dest + 0 = dest /\ n - 0 = n
    OBVIOUS
  <2> QED
    BY <1>8, <2>1 DEF Result
<1> QED
  BY <1>6, <1>7, <1>8, <1>9 DEF Same, b

\* The rounds of memmove.
MoveEq(f, m, dest, src, n) ==
    f = [at \in LoopState(m, n) |-> IF at.k = n THEN at.r ELSE f[MoveRound(at, dest, src, n)]]

\* memmove copies as if it read all before it wrote: what is left to move lies above what
\* it has moved when it goes upwards, and below when it goes downwards.
\* Upwards.
LEMMA MoveUpMoves ==
  ASSUME NEW A \in SUBSET Int, NEW m \in [A -> Nat], NEW dest \in Nat, NEW src \in Nat, NEW n \in Nat,
         Region(src, n) \subseteq A, dest <= src
  PROVE  memmove(m, dest, src, n) = Moved(m, dest, src, n)
<1> DEFINE D == LoopState(m, n)
           Round(at) == MoveRound(at, dest, src, n)
           Result == [at \in D |-> Moved(at.r, dest + at.k, src + at.k, n - at.k)]
<1>1. D = [k : 0 .. n, r : [A -> Nat]]
  BY DEF LoopState
<1> HIDE DEF D
<1>2. ASSUME NEW at \in D, at.k # n
      PROVE  Round(at) \in D /\ at.k < Round(at).k /\ Result[at] = Result[Round(at)]
  <2> DEFINE r == at.r
             k == at.k
             d == dest + k
             s == src + k
             l == n - k
             moved == Moved(r, d, s, 1)
  <2>1. r \in [A -> Nat] /\ k \in 0 .. n /\ k # n
    BY <1>1, <1>2
  <2>2. /\ d \in Nat /\ s \in Nat /\ l \in Nat /\ k \in Nat /\ l + k = n /\ d <= s
        /\ 1 \in 0 .. l /\ 1 \in Nat
    BY <2>1
  <2>3. Region(s, l) \subseteq A /\ Region(s, 1) \subseteq A
    BY <2>1 DEF Region
  <2>4. dest + (k + 1) = d + 1 /\ src + (k + 1) = s + 1 /\ n - (k + 1) = l - 1
    BY <2>1
  <2>r. Round(at) = [k |-> k + 1, r |-> moved]
    BY DEF MoveRound, MovesUp
  <2>s. Result[at] = Moved(r, d, s, l)
    OBVIOUS
  <2> HIDE DEF d, s, l, r, k
  <2>7. moved \in [A -> Nat]
    <3>1. MovedSo(moved, A, r, d, s, 1)
      BY <2>1, <2>2, <2>3, MovedIs
    <3> QED
      BY <3>1 DEF MovedSo
  <2>8. Round(at) \in D /\ k < Round(at).k
    <3>1. k + 1 \in 0 .. n /\ k < k + 1
      BY <2>2
    <3> HIDE DEF moved
    <3> QED
      BY <1>1, <2>7, <2>r, <3>1
  <2>9. Result[Round(at)] = Moved(moved, d + 1, s + 1, l - 1)
    <3>1. Result[Round(at)] = Moved(moved, dest + (k + 1), src + (k + 1), n - (k + 1))
      <4> HIDE DEF moved
      <4> QED
        BY <2>8, <2>r
    <3> QED
      BY <2>4, <3>1
  <2>10. Moved(moved, d + 1, s + 1, l - 1) = Moved(r, d, s, l)
    BY <2>1, <2>2, <2>3, MovedUpwards
  <2> QED
    BY <2>8, <2>9, <2>10, <2>s DEF k
<1>3. ASSUME NEW at \in D, at.k = n
      PROVE  Result[at] = at.r
  <2>1. at.r \in [A -> Nat] /\ dest + n \in Nat /\ src + n \in Nat /\ n - n = 0
    BY <1>1
  <2> QED
    BY <1>3, <2>1, NoneMoved
<1> HIDE DEF Result, Round
<1>4. \E f : MoveEq(f, m, dest, src, n)
  <2>1. Result = [at \in D |-> IF at.k = n THEN at.r ELSE Result[Round(at)]]
    <3>1. Result = [at \in D |-> Result[at]]
      BY DEF Result
    <3> QED
      BY <1>2, <1>3, <3>1
  <2> QED
    BY <2>1, Zenon DEF MoveEq, D, Round
<1> DEFINE f == CHOOSE f : MoveEq(f, m, dest, src, n)
<1>5. f = [at \in D |-> IF at.k = n THEN at.r ELSE f[Round(at)]]
  <2>1. MoveEq(f, m, dest, src, n)
    BY <1>4, Zenon
  <2> QED
    BY <2>1, Zenon DEF MoveEq, D, Round
<1>6. memmove(m, dest, src, n) = f[[k |-> 0, r |-> m]]
  BY Zenon DEF memmove, MoveEq
<1> HIDE DEF f
<1>7. Same(D, f, Result)
  <2> DEFINE next == [at \in D |-> IF at.k = n THEN at ELSE Round(at)]
  <2>1. next \in [D -> D]
    BY <1>2
  <2>2. Rounds(D, n, next, f, Result)
    BY <1>1, <1>2, <1>3, <1>5 DEF Rounds
  <2> HIDE DEF next
  <2> QED
    BY <2>1, <2>2, LoopEnds
<1>8. [k |-> 0, r |-> m] \in D
  BY <1>1
<1>9. Result[[k |-> 0, r |-> m]] = Moved(m, dest, src, n)
  <2>1. dest + 0 = dest /\ src + 0 = src /\ n - 0 = n
    OBVIOUS
  <2> QED
    BY <1>8, <2>1 DEF Result
<1> QED
  BY <1>6, <1>7, <1>8, <1>9 DEF Same

\* Downwards.
LEMMA MoveDownMoves ==
  ASSUME NEW A \in SUBSET Int, NEW m \in [A -> Nat], NEW dest \in Nat, NEW src \in Nat, NEW n \in Nat,
         Region(src, n) \subseteq A, src < dest
  PROVE  memmove(m, dest, src, n) = Moved(m, dest, src, n)
<1> DEFINE D == LoopState(m, n)
           Round(at) == MoveRound(at, dest, src, n)
           Result == [at \in D |-> Moved(at.r, dest, src, n - at.k)]
<1>1. D = [k : 0 .. n, r : [A -> Nat]]
  BY DEF LoopState
<1> HIDE DEF D
<1>2. ASSUME NEW at \in D, at.k # n
      PROVE  Round(at) \in D /\ at.k < Round(at).k /\ Result[at] = Result[Round(at)]
  <2> DEFINE r == at.r
             k == at.k
             l == n - k
             d == dest + (l - 1)
             s == src + (l - 1)
             moved == Moved(r, d, s, 1)
  <2>1. r \in [A -> Nat] /\ k \in 0 .. n /\ k # n
    BY <1>1, <1>2
  <2>2. /\ d \in Nat /\ s \in Nat /\ l \in Nat \ {0} /\ k \in Nat /\ l + k = n
        /\ 1 \in Nat
    BY <2>1
  <2>3. Region(src, l) \subseteq A /\ Region(s, 1) \subseteq A
    BY <2>1 DEF Region
  <2>4. (n - 1) - k = l - 1 /\ n - (k + 1) = l - 1
    BY <2>1
  <2>r. Round(at) = [k |-> k + 1, r |-> moved]
    <3>1. Round(at) = [k |-> k + 1, r |-> Moved(r, dest + ((n - 1) - k), src + ((n - 1) - k), 1)]
      BY DEF MoveRound, MovesUp
    <3> QED
      BY <2>4, <3>1
  <2>s. Result[at] = Moved(r, dest, src, l)
    OBVIOUS
  <2> HIDE DEF l, r, k
  <2>10. Moved(moved, dest, src, l - 1) = Moved(r, dest, src, l)
    BY <2>1, <2>2, <2>3, MovedDownwards
  <2> HIDE DEF d, s
  <2>7. moved \in [A -> Nat]
    <3>1. MovedSo(moved, A, r, d, s, 1)
      BY <2>1, <2>2, <2>3, MovedIs
    <3> QED
      BY <3>1 DEF MovedSo
  <2>8. Round(at) \in D /\ k < Round(at).k
    <3>1. k + 1 \in 0 .. n /\ k < k + 1
      BY <2>2
    <3> HIDE DEF moved
    <3> QED
      BY <1>1, <2>7, <2>r, <3>1
  <2>9. Result[Round(at)] = Moved(moved, dest, src, l - 1)
    <3>1. Result[Round(at)] = Moved(moved, dest, src, n - (k + 1))
      <4> HIDE DEF moved
      <4> QED
        BY <2>8, <2>r
    <3> QED
      BY <2>4, <3>1
  <2> QED
    BY <2>8, <2>9, <2>10, <2>s DEF k
<1>3. ASSUME NEW at \in D, at.k = n
      PROVE  Result[at] = at.r
  <2>1. at.r \in [A -> Nat] /\ n - n = 0
    BY <1>1
  <2> QED
    BY <1>3, <2>1, NoneMoved
<1> HIDE DEF Result, Round
<1>4. \E f : MoveEq(f, m, dest, src, n)
  <2>1. Result = [at \in D |-> IF at.k = n THEN at.r ELSE Result[Round(at)]]
    <3>1. Result = [at \in D |-> Result[at]]
      BY DEF Result
    <3> QED
      BY <1>2, <1>3, <3>1
  <2> QED
    BY <2>1, Zenon DEF MoveEq, D, Round
<1> DEFINE f == CHOOSE f : MoveEq(f, m, dest, src, n)
<1>5. f = [at \in D |-> IF at.k = n THEN at.r ELSE f[Round(at)]]
  <2>1. MoveEq(f, m, dest, src, n)
    BY <1>4, Zenon
  <2> QED
    BY <2>1, Zenon DEF MoveEq, D, Round
<1>6. memmove(m, dest, src, n) = f[[k |-> 0, r |-> m]]
  BY Zenon DEF memmove, MoveEq
<1> HIDE DEF f
<1>7. Same(D, f, Result)
  <2> DEFINE next == [at \in D |-> IF at.k = n THEN at ELSE Round(at)]
  <2>1. next \in [D -> D]
    BY <1>2
  <2>2. Rounds(D, n, next, f, Result)
    BY <1>1, <1>2, <1>3, <1>5 DEF Rounds
  <2> HIDE DEF next
  <2> QED
    BY <2>1, <2>2, LoopEnds
<1>8. [k |-> 0, r |-> m] \in D
  BY <1>1
<1>9. Result[[k |-> 0, r |-> m]] = Moved(m, dest, src, n)
  <2>1. n - 0 = n
    OBVIOUS
  <2> QED
    BY <1>8, <2>1 DEF Result
<1> QED
  BY <1>6, <1>7, <1>8, <1>9 DEF Same

\* The memory functions of lib.c, for every memory, place and length: memmove copies as if it
\* read everything before it wrote, wherever the two regions overlap; memcpy does when the
\* destination does not begin inside the source; and memset fills its region, and nothing else,
\* with the low byte of its value.
THEOREM MemoryFunctions ==
  ASSUME NEW A \in SUBSET Int, NEW m \in [A -> Nat],
         NEW dest \in Nat, NEW src \in Nat, NEW n \in Nat, NEW c \in Nat,
         Region(src, n) \subseteq A
  PROVE  /\ memmove(m, dest, src, n) = Moved(m, dest, src, n)
         /\ dest <= src \/ src + n <= dest => memcpy(m, dest, src, n) = Moved(m, dest, src, n)
         /\ memset(m, dest, c, n) = Filled(m, dest, c % 256, n)
<1>1. CASE dest <= src
  BY <1>1, MoveUpMoves, CopyMoves, SetFills
<1>2. CASE src < dest
  BY <1>2, MoveDownMoves, CopyMoves, SetFills
<1> QED
  BY <1>1, <1>2

-----------------------------------------------------------------------------
(* Numbers.                                                                *)

\* A sequence from its end, and with the places inside beg from both ends exchanged.
Backwards(s) == [k \in 1 .. Len(s) |-> s[Len(s) + 1 - k]]
Turned(r, n, beg) == [k \in 1 .. n |-> IF beg < k /\ k <= n - beg THEN r[(n + 1) - k] ELSE r[k]]

\* The rounds of strrev.
SwapEq(f, s) ==
    f = [at \in Swapping(s) |->
            LET end == Len(s) - at.beg
            IN  IF at.beg + 1 < end THEN f[SwapRound(at, end)] ELSE at.r]

\* strrev turns a string round: the places inside those that it has exchanged are turned the
\* same after a round.
LEMMA StrrevTurns ==
  ASSUME NEW C, NEW s \in Seq(C)
  PROVE  strrev(s) = Backwards(s)
<1> DEFINE D == Swapping(s)
           n == Len(s)
           V == {s[k] : k \in 1 .. n}
           Goes(at) == at.beg + 1 < n - at.beg
           Round(at) == SwapRound(at, n - at.beg)
           Result == [at \in D |-> Turned(at.r, n, at.beg)]
<1>1. D = [beg : Nat, r : [1 .. n -> V]] /\ n \in Nat /\ s \in [1 .. n -> V]
  BY DEF Swapping
<1> HIDE DEF D, V, n
<1>2. ASSUME NEW at \in D, Goes(at)
      PROVE  Round(at) \in D /\ Round(at).beg = at.beg + 1 /\ Result[at] = Result[Round(at)]
  <2> DEFINE r == at.r
             b == at.beg
             lo == b + 1
             hi == n - b
             q == [r EXCEPT ![lo] = r[hi], ![hi] = r[lo]]
  <2>1. r \in [1 .. n -> V] /\ b \in Nat /\ b + 1 < n - b
    BY <1>1, <1>2
  <2>2. lo \in 1 .. n /\ hi \in 1 .. n /\ lo # hi
    BY <1>1, <2>1
  <2>3. Round(at) = [beg |-> lo, r |-> q]
    BY DEF SwapRound
  <2> HIDE DEF r, b
  <2>4. q \in [1 .. n -> V]
    <3> HIDE DEF lo, hi
    <3> QED
      BY <2>1, <2>2
  <2>5. \A k \in 1 .. n : q[k] = IF k = hi THEN r[lo] ELSE IF k = lo THEN r[hi] ELSE r[k]
    <3> HIDE DEF lo, hi
    <3> QED
      BY <2>1, <2>2
  <2> HIDE DEF q
  <2>6. \A k \in 1 .. n : (IF lo < k /\ k <= n - lo THEN q[(n + 1) - k] ELSE q[k]) =
                          (IF b < k /\ k <= n - b THEN r[(n + 1) - k] ELSE r[k])
    <3> TAKE k \in 1 .. n
    <3>1. (n + 1) - k \in 1 .. n
      BY <1>1
    <3>2. CASE lo < k /\ k <= n - lo
      BY <1>1, <2>1, <2>5, <3>1, <3>2
    <3>3. CASE k = lo \/ k = hi
      <4>1. (n + 1) - lo = hi /\ (n + 1) - hi = lo /\ lo # hi
        BY <1>1, <2>1
      <4>2. b < k /\ k <= n - b /\ ~(lo < k /\ k <= n - lo)
        BY <1>1, <2>1, <3>3
      <4> HIDE DEF lo, hi
      <4> QED
        BY <2>5, <3>3, <4>1, <4>2
    <3>4. CASE ~(b < k /\ k <= n - b)
      BY <1>1, <2>1, <2>5, <3>1, <3>4
    <3> QED
      BY <1>1, <2>1, <3>2, <3>3, <3>4
  <2>7. Turned(q, n, lo) = Turned(r, n, b)
    <3> HIDE DEF lo
    <3> QED
      BY <2>6 DEF Turned
  <2>8. Round(at) \in D
    BY <1>1, <2>1, <2>3, <2>4
  <2>9. Result[at] = Turned(r, n, b)
    BY DEF r, b
  <2>10. Result[Round(at)] = Turned(q, n, lo)
    BY <2>3, <2>8
  <2> QED
    BY <2>3, <2>7, <2>8, <2>9, <2>10 DEF b
<1>3. ASSUME NEW at \in D, ~Goes(at)
      PROVE  Result[at] = at.r
  <2>1. at.r \in [1 .. n -> V] /\ at.beg \in Nat /\ ~(at.beg + 1 < n - at.beg)
    BY <1>1, <1>3
  <2>2. \A k \in 1 .. n : at.beg < k /\ k <= n - at.beg => (n + 1) - k = k
    BY <1>1, <2>1
  <2>3. \A k \in 1 .. n : (IF at.beg < k /\ k <= n - at.beg THEN at.r[(n + 1) - k] ELSE at.r[k]) = at.r[k]
    BY <2>2
  <2>4. Turned(at.r, n, at.beg) = [k \in 1 .. n |-> at.r[k]]
    BY <2>3 DEF Turned
  <2> QED
    BY <2>1, <2>4
<1>4. Result = [at \in D |-> Result[at]]
  OBVIOUS
<1> DEFINE start == [beg |-> 0, r |-> s]
<1>5. start \in D /\ Result[start] = Backwards(s)
  <2>1. start \in D
    BY <1>1
  <2>2. Turned(s, n, 0) = [k \in 1 .. n |-> s[(n + 1) - k]]
    BY <1>1 DEF Turned
  <2> QED
    BY <2>1, <2>2 DEF Backwards, n
<1> HIDE DEF Result, Round, Goes, start
<1>6. \A at \in D : Result[at] = IF Goes(at) THEN Result[Round(at)] ELSE at.r
  BY <1>2, <1>3
<1>7. \E f : SwapEq(f, s)
  <2>1. Result = [at \in D |-> IF Goes(at) THEN Result[Round(at)] ELSE at.r]
    BY <1>4, <1>6
  <2> QED
    BY <2>1, Zenon DEF SwapEq, D, Goes, Round, n
<1> DEFINE f == CHOOSE f : SwapEq(f, s)
<1>8. f = [at \in D |-> IF Goes(at) THEN f[Round(at)] ELSE at.r]
  <2>1. SwapEq(f, s)
    BY <1>7, Zenon
  <2> QED
    BY <2>1, Zenon DEF SwapEq, D, Goes, Round, n
<1>9. strrev(s) = f[start]
  BY Zenon DEF strrev, Swapped, SwapEq, start
<1> HIDE DEF f
<1>10. Same(D, f, Result)
  <2> DEFINE rank == [at \in D |-> IF Goes(at) THEN n - at.beg ELSE 0]
             next == [at \in D |-> IF Goes(at) THEN Round(at) ELSE at]
  <2>1. rank \in [D -> Nat]
    BY <1>1 DEF Goes
  <2>2. next \in [D -> D]
    BY <1>2
  <2>3. ASSUME NEW at \in D
        PROVE  \/ f[at] = Result[at]
               \/ /\ rank[next[at]] < rank[at]
                  /\ f[next[at]] = Result[next[at]] => f[at] = Result[at]
    <3>1. CASE ~Goes(at)
      BY <1>3, <1>8, <3>1
    <3>2. CASE Goes(at)
      <4>1. Round(at) \in D /\ next[at] = Round(at) /\ Round(at).beg = at.beg + 1
        BY <1>2, <3>2
      <4>2. at.beg \in Nat /\ n - (at.beg + 1) < n - at.beg /\ 0 < n - at.beg
        BY <1>1, <3>2 DEF Goes
      <4>3. rank[Round(at)] < rank[at]
        BY <3>2, <4>1, <4>2
      <4> QED
        BY <1>6, <1>8, <3>2, <4>1, <4>3
    <3> QED
      BY <3>1, <3>2
  <2> HIDE DEF rank, next
  <2>4. SameOrSteps(D, rank, next, f, Result)
    BY <2>3 DEF SameOrSteps
  <2> QED
    BY <2>1, <2>2, <2>4, StepsAgree
<1> QED
  BY <1>5, <1>9, <1>10 DEF Same

\* The digits of a number, lowest first: the loop of itoa.
Digits == {Digit[k] : k \in 1 .. 16}
WriteEq(f, radix) ==
    f = [v \in Nat |-> IF v = 0 THEN <<>> ELSE <<Digit[(v % radix) + 1]>> \o f[v \div radix]]
Written(radix) == CHOOSE f : WriteEq(f, radix)

\* A number is its last digit and, above it, a smaller number.
LEMMA LastDigit ==
  ASSUME NEW radix \in 2 .. 16, NEW v \in Nat
  PROVE  /\ v % radix \in 0 .. 15 /\ v \div radix \in Nat
         /\ v = (v \div radix) * radix + (v % radix)
         /\ v # 0 => v \div radix < v
<1> DEFINE q == v \div radix
           m == v % radix
<1>1. q \in Nat /\ m \in 0 .. radix - 1 /\ v = q * radix + m
  BY DivModBack
<1> HIDE DEF q, m
<1>2. ASSUME v # 0, ~(q < v)
      PROVE  FALSE
  <2>1. q >= v /\ q >= 1
    BY <1>1, <1>2
  <2>2. q * radix >= q * 2
    BY <1>1
  <2> QED
    BY <1>1, <2>1, <2>2
<1>3. q < v \/ v = 0
  BY <1>2
<1>4. m \in 0 .. 15
  BY <1>1
<1> QED
  BY <1>1, <1>3, <1>4 DEF q, m

\* What is written of a number, by what is written of its quotient.
LEMMA WrittenIs ==
  ASSUME NEW radix \in 2 .. 16
  PROVE  /\ Written(radix) \in [Nat -> Seq(Digits)]
         /\ Written(radix)[0] = <<>>
         /\ \A v \in Nat \ {0} :
              Written(radix)[v] = <<Digit[(v % radix) + 1]>> \o Written(radix)[v \div radix]
<1> DEFINE R == Seq(Digits)
           rank == [v \in Nat |-> v]
           Step == [f \in [Nat -> R] |->
                     [v \in Nat |-> IF v = 0 THEN <<>>
                                    ELSE <<Digit[(v % radix) + 1]>> \o f[v \div radix]]]
<1>1. ASSUME NEW v \in Nat
      PROVE  <<Digit[(v % radix) + 1]>> \in R /\ v \div radix \in Nat
  <2>1. (v % radix) + 1 \in 1 .. 16
    BY LastDigit
  <2>2. Digit[(v % radix) + 1] \in Digits
    BY <2>1 DEF Digits
  <2> QED
    BY <2>2, LastDigit
<1>2. ASSUME NEW f \in [Nat -> R], NEW v \in Nat
      PROVE  (IF v = 0 THEN <<>> ELSE <<Digit[(v % radix) + 1]>> \o f[v \div radix]) \in R
  <2>1. f[v \div radix] \in R /\ <<Digit[(v % radix) + 1]>> \in R
    BY <1>1
  <2>2. <<Digit[(v % radix) + 1]>> \o f[v \div radix] \in R
    BY <2>1, ConcatProperties
  <2> QED
    BY <2>2
<1>3. Step \in [[Nat -> R] -> [Nat -> R]]
  BY <1>2
<1>4. rank \in [Nat -> Nat] /\ R # {}
  <2>1. <<>> \in R
    OBVIOUS
  <2> QED
    BY <2>1
<1>5. LooksDown(Nat, R, rank, Step)
  <2> SUFFICES ASSUME NEW f \in [Nat -> R], NEW g \in [Nat -> R], NEW v \in Nat,
                      \A u \in Nat : rank[u] < rank[v] => f[u] = g[u]
               PROVE  Step[f][v] = Step[g][v]
    BY Zenon DEF LooksDown
  <2>1. v # 0 => f[v \div radix] = g[v \div radix]
    BY LastDigit
  <2> QED
    BY <2>1
<1>6. PICK f \in [Nat -> R] : f = Step[f]
  <2> DEFINE D == Nat
  <2>1. D = Nat
    OBVIOUS
  <2> HIDE DEF R, rank, Step, D
  <2>2. IsDefined(D, R, Step)
    BY <1>3, <1>4, <1>5, <2>1, RecursionExists
  <2> QED
    BY <2>1, <2>2 DEF IsDefined
<1>7. WriteEq(f, radix)
  BY <1>6 DEF WriteEq
<1> DEFINE w == Written(radix)
<1>8. w = [v \in Nat |-> IF v = 0 THEN <<>> ELSE <<Digit[(v % radix) + 1]>> \o w[v \div radix]]
  <2>1. WriteEq(w, radix)
    BY <1>7, Zenon DEF Written
  <2> QED
    BY <2>1, Zenon DEF WriteEq
<1> HIDE DEF w
<1>9. Same(Nat, w, f)
  <2> DEFINE next == [v \in Nat |-> v \div radix]
  <2>1. next \in [Nat -> Nat]
    BY <1>1
  <2>2. ASSUME NEW v \in Nat
        PROVE  \/ w[v] = f[v]
               \/ rank[next[v]] < rank[v] /\ (w[next[v]] = f[next[v]] => w[v] = f[v])
    <3>1. CASE v = 0
      BY <1>6, <1>8, <3>1
    <3>2. CASE v # 0
      <4>1. v \div radix \in Nat /\ v \div radix < v
        BY <3>2, LastDigit
      <4>2. f[v] = <<Digit[(v % radix) + 1]>> \o f[v \div radix]
        BY <1>7, <3>2 DEF WriteEq
      <4>3. w[v] = <<Digit[(v % radix) + 1]>> \o w[v \div radix]
        BY <1>8, <3>2
      <4> QED
        BY <4>1, <4>2, <4>3
    <3> QED
      BY <3>1, <3>2
  <2> HIDE DEF next, rank
  <2>3. SameOrSteps(Nat, rank, next, w, f)
    BY <2>2 DEF SameOrSteps
  <2> QED
    BY <1>4, <2>1, <2>3, StepsAgree
<1>10. w \in [Nat -> R]
  <2>1. w = [v \in Nat |-> w[v]]
    BY <1>8
  <2>2. \A v \in Nat : w[v] \in R
    BY <1>9 DEF Same
  <2> QED
    BY <2>1, <2>2
<1> QED
  BY <1>8, <1>10 DEF w

\* itoa writes them highest first.
LEMMA ItoaIs ==
  ASSUME NEW radix \in 2 .. 16, NEW v \in Nat
  PROVE  itoa(v, radix) = IF v = 0 THEN <<"0">> ELSE Backwards(Written(radix)[v])
<1>1. itoa(v, radix) = IF v = 0 THEN <<"0">> ELSE strrev(Written(radix)[v])
  BY Zenon DEF itoa, Written, WriteEq
<1>2. Written(radix)[v] \in Seq(Digits)
  BY WrittenIs
<1>3. strrev(Written(radix)[v]) = Backwards(Written(radix)[v])
  BY <1>2, StrrevTurns
<1> QED
  BY <1>1, <1>3
=============================================================================
