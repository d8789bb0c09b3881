----------------------------- MODULE Inductions -----------------------------
(***************************************************************************)
(* What the proofs need in place of induction: a set of naturals has a     *)
(* least element, so a statement that fails fails first somewhere, and a   *)
(* function that is defined by what it is on smaller arguments exists.     *)
(***************************************************************************)
EXTENDS Integers, WellFoundedInduction, TLAPS

\* A nonempty set of naturals has a least element.
LEMMA LeastElement ==
  ASSUME NEW S \in SUBSET Nat, S # {}
  PROVE  \E m \in S : \A n \in S : m <= n
<1> DEFINE R == OpToRel(<, Nat)
<1>1. IsWellFoundedOn(R, Nat)
  BY NatLessThanWellFounded
<1>2. \A y \in Nat, x \in Nat : <<y, x>> \in R <=> y < x
  BY DEF OpToRel
<1> HIDE DEF R
<1>3. PICK x \in S : \A y \in S : ~ (<<y, x>> \in R)
  BY <1>1, WFMin
<1>4. x \in Nat /\ \A y \in S : y \in Nat
  OBVIOUS
<1>5. \A y \in S : ~(y < x)
  BY <1>2, <1>3, <1>4
<1> QED
  BY <1>4, <1>5

\* Induction: a set of naturals that has a number whenever it has all below is Nat.
LEMMA AllNaturals ==
  ASSUME NEW S \in SUBSET Nat,
         \A n \in Nat : (\A m \in Nat : m < n => m \in S) => n \in S
  PROVE  S = Nat
<1> SUFFICES ASSUME Nat \ S # {} PROVE FALSE
  OBVIOUS
<1>1. PICK m \in Nat \ S : \A n \in Nat \ S : m <= n
  BY LeastElement
<1>2. \A k \in Nat : k < m => k \in S
  BY <1>1
<1> QED
  BY <1>1, <1>2

(***************************************************************************)
(* Recursive functions.  Step is the right hand side of the definition: it *)
(* takes a function and gives the one that is defined with it.  If what it *)
(* gives at x depends on arguments of smaller rank only, then there is a   *)
(* function that is what the definition says.                              *)
(***************************************************************************)
LooksDown(D, R, rank, Step) ==
    \A f, g \in [D -> R] : \A x \in D :
        (\A y \in D : rank[y] < rank[x] => f[y] = g[y]) => Step[f][x] = Step[g][x]

\* The functions that are as defined on the arguments of rank less than n.
DefinedBelow(D, R, rank, Step, n) ==
    {f \in [D -> R] : \A x \in D : rank[x] < n => f[x] = Step[f][x]}

Agree(D, R, rank, Step) ==
    \A n, m \in Nat :
      \A f \in DefinedBelow(D, R, rank, Step, n) : \A g \in DefinedBelow(D, R, rank, Step, m) :
        \A x \in D : rank[x] < n /\ rank[x] < m => f[x] = g[x]

\* Two of them agree as far as both are as defined.
LEMMA DefinedAgree ==
  ASSUME NEW D, NEW R, NEW rank \in [D -> Nat], NEW Step \in [[D -> R] -> [D -> R]],
         LooksDown(D, R, rank, Step)
  PROVE  Agree(D, R, rank, Step)
<1> SUFFICES ASSUME NEW n \in Nat, NEW m \in Nat,
                    NEW f \in DefinedBelow(D, R, rank, Step, n),
                    NEW g \in DefinedBelow(D, R, rank, Step, m)
             PROVE  \A x \in D : rank[x] < n /\ rank[x] < m => f[x] = g[x]
  BY Zenon DEF Agree
<1> DEFINE S == {k \in Nat : \A x \in D : rank[x] = k /\ k < n /\ k < m => f[x] = g[x]}
<1>0. f \in [D -> R] /\ g \in [D -> R] /\ \A x \in D : rank[x] \in Nat
  BY DEF DefinedBelow
<1>1. ASSUME NEW k \in Nat, \A j \in Nat : j < k => j \in S
      PROVE  k \in S
  <2> SUFFICES ASSUME NEW x \in D, rank[x] = k, k < n, k < m
               PROVE  f[x] = g[x]
    OBVIOUS
  <2>1. \A y \in D : rank[y] < rank[x] => f[y] = g[y]
    BY <1>0, <1>1
  <2>2. Step[f][x] = Step[g][x]
    BY <1>0, <2>1 DEF LooksDown
  <2> QED
    BY <2>2 DEF DefinedBelow
<1>2. S = Nat
  <2>1. S \in SUBSET Nat
    OBVIOUS
  <2> HIDE DEF S
  <2> QED
    BY <1>1, <2>1, AllNaturals
<1> QED
  BY <1>0, <1>2

\* There is one for every bound.
LEMMA DefinedExists ==
  ASSUME NEW D, NEW R, R # {}, NEW rank \in [D -> Nat], NEW Step \in [[D -> R] -> [D -> R]],
         LooksDown(D, R, rank, Step)
  PROVE  \A n \in Nat : DefinedBelow(D, R, rank, Step, n) # {}
<1> DEFINE S == {n \in Nat : DefinedBelow(D, R, rank, Step, n) # {}}
<1>0. \A x \in D : rank[x] \in Nat
  OBVIOUS
<1>1. ASSUME NEW n \in Nat, \A k \in Nat : k < n => k \in S
      PROVE  n \in S
  <2>1. CASE n = 0
    <3>1. PICK r \in R : TRUE
      OBVIOUS
    <3>2. [x \in D |-> r] \in DefinedBelow(D, R, rank, Step, 0)
      BY <1>0 DEF DefinedBelow
    <3> QED
      BY <2>1, <3>2
  <2>2. CASE n # 0
    <3>1. n - 1 \in Nat /\ n - 1 < n
      BY <2>2
    <3>2. n - 1 \in S
      BY <1>1, <3>1
    <3>3. PICK f \in [D -> R] : \A x \in D : rank[x] < n - 1 => f[x] = Step[f][x]
      BY <3>2 DEF DefinedBelow
    <3> DEFINE g == Step[f]
    <3>4. g \in [D -> R]
      BY <3>3
    <3>5. ASSUME NEW x \in D, rank[x] < n
          PROVE  g[x] = Step[g][x]
      <4>1. ASSUME NEW y \in D, rank[y] < rank[x] PROVE f[y] = g[y]
        <5>1. rank[y] < n - 1
          BY <1>0, <3>5, <4>1
        <5> QED
          BY <3>3, <5>1
      <4> HIDE DEF g
      <4>2. Step[f][x] = Step[g][x]
        BY <3>3, <3>4, <4>1 DEF LooksDown
      <4> QED
        BY <4>2 DEF g
    <3> HIDE DEF g
    <3>6. g \in DefinedBelow(D, R, rank, Step, n)
      BY <3>4, <3>5 DEF DefinedBelow
    <3> QED
      BY <3>6
  <2> QED
    BY <2>1, <2>2
<1>2. S = Nat
  <2>1. S \in SUBSET Nat
    OBVIOUS
  <2> HIDE DEF S
  <2> QED
    BY <1>1, <2>1, AllNaturals
<1> QED
  BY <1>2

\* The definition means a function.
IsDefined(D, R, Step) == \E f \in [D -> R] : f = Step[f]

\* The function that the definition means.
LEMMA RecursionExists ==
  ASSUME NEW D, NEW R, R # {}, NEW rank \in [D -> Nat], NEW Step \in [[D -> R] -> [D -> R]],
         LooksDown(D, R, rank, Step)
  PROVE  IsDefined(D, R, Step)
<1>a. Agree(D, R, rank, Step)
  BY DefinedAgree
<1> DEFINE Below(n) == DefinedBelow(D, R, rank, Step, n)
           Part(x) == CHOOSE f : f \in Below(rank[x] + 1)
           h == [x \in D |-> Part(x)[x]]
<1>0. \A x \in D : rank[x] \in Nat /\ rank[x] + 1 \in Nat
  OBVIOUS
<1>1. \A x \in D : Part(x) \in Below(rank[x] + 1)
  <2> TAKE x \in D
  <2>1. rank[x] + 1 \in Nat
    BY <1>0
  <2>2. \A n \in Nat : Below(n) # {}
    BY DefinedExists
  <2>3. \E f : f \in Below(rank[x] + 1)
    BY <2>1, <2>2, Zenon
  <2> QED
    BY <2>3, Zenon
<1>2. \A x \in D : Part(x) \in [D -> R]
  BY <1>1 DEF DefinedBelow
<1> HIDE DEF Part
<1>3. h \in [D -> R]
  BY <1>2
<1>4. ASSUME NEW x \in D
      PROVE  h[x] = Step[h][x]
  <2>1. ASSUME NEW y \in D, rank[y] < rank[x]
        PROVE  h[y] = Part(x)[y]
    <3>1. rank[y] < rank[y] + 1 /\ rank[y] < rank[x] + 1
      BY <1>0, <2>1
    <3>2. Part(y)[y] = Part(x)[y]
      BY <1>0, <1>1, <1>a, <3>1 DEF Agree
    <3> QED
      BY <3>2
  <2>2. Part(x)[x] = Step[Part(x)][x]
    <3>1. rank[x] < rank[x] + 1
      BY <1>0
    <3> QED
      BY <1>1, <3>1 DEF DefinedBelow
  <2>3. h[x] = Part(x)[x]
    OBVIOUS
  <2> HIDE DEF h
  <2>4. Step[h][x] = Step[Part(x)][x]
    BY <1>2, <1>3, <2>1 DEF LooksDown
  <2> QED
    BY <2>2, <2>3, <2>4
<1> HIDE DEF h
<1>5. Step[h] \in [D -> R]
  BY <1>3
<1>6. h = Step[h]
  BY <1>3, <1>4, <1>5
<1> QED
  BY <1>3, <1>6 DEF IsDefined

(***************************************************************************)
(* Loops.  What a loop gives at a state depends on what it gives at the    *)
(* next one only, and each step lowers the rank.                           *)
(***************************************************************************)
Same(D, f, g) == \A x \in D : f[x] = g[x]
SameOrSteps(D, rank, next, f, g) ==
    \A x \in D : \/ f[x] = g[x]
                \/ /\ rank[next[x]] < rank[x]
                   /\ f[next[x]] = g[next[x]] => f[x] = g[x]

\* Two functions that are the same where a loop ends, and at a state if they are at the
\* next one, are the same.
LEMMA StepsAgree ==
  ASSUME NEW D, NEW rank \in [D -> Nat], NEW next \in [D -> D], NEW f, NEW g,
         SameOrSteps(D, rank, next, f, g)
  PROVE  Same(D, f, g)
<1> DEFINE S == {k \in Nat : \A x \in D : rank[x] = k => f[x] = g[x]}
<1>0. \A x \in D : rank[x] \in Nat /\ next[x] \in D
  OBVIOUS
<1>1. ASSUME NEW k \in Nat, \A j \in Nat : j < k => j \in S
      PROVE  k \in S
  <2> SUFFICES ASSUME NEW x \in D, rank[x] = k, f[x] # g[x]
               PROVE  FALSE
    OBVIOUS
  <2>1. rank[next[x]] < k /\ f[next[x]] # g[next[x]]
    BY DEF SameOrSteps
  <2>2. f[next[x]] = g[next[x]]
    BY <1>0, <1>1, <2>1
  <2> QED
    BY <2>1, <2>2
<1>2. S = Nat
  <2>1. S \in SUBSET Nat
    OBVIOUS
  <2> HIDE DEF S
  <2> QED
    BY <1>1, <2>1, AllNaturals
<1> QED
  BY <1>0, <1>2 DEF Same
=============================================================================
