-------------------------- MODULE InductionLemmas ---------------------------
(***************************************************************************)
(* Induction over the naturals and what follows from it, without operators *)
(* for parameters: the least element of a set, induction by a set that     *)
(* holds 0 and every successor, and the existence of the function that     *)
(* FoldLeft chooses.                                                       *)
(***************************************************************************)
EXTENDS Naturals, Sequences, FiniteSetsExt, SequenceTheorems, WellFoundedInduction,
        TLAPS

(* A set of naturals that is not empty has a least element. *)
LEMMA MinIn ==
  ASSUME NEW T \in SUBSET Nat, T # {}
  PROVE  Min(T) \in T /\ \A y \in T : Min(T) <= y
<1> DEFINE less == {ss \in Nat \X Nat : ss[1] < ss[2]}
<1>1. IsWellFoundedOn(less, Nat)
  BY NatLessThanWellFounded, Zenon DEF OpToRel
<1> HIDE DEF less
<1>2. PICK x \in T : \A y \in T : ~(<<y, x>> \in less)
  BY <1>1, WFMin
<1>3. ASSUME NEW y \in T PROVE x <= y
  <2>1. x \in Nat /\ y \in Nat
    OBVIOUS
  <2>2. y < x => <<y, x>> \in less
    <3> DEFINE pair == <<y, x>>
    <3>1. pair \in Nat \X Nat /\ pair[1] = y /\ pair[2] = x
      BY <2>1
    <3> QED
      BY <3>1 DEF less
  <2> QED
    BY <1>2, <2>1, <2>2
<1> QED
  BY <1>3 DEF Min

(* A set with 0 and the successor of each of its members has all naturals: *)
(* induction for P is this lemma for T = {n \in Nat : P(n)}.               *)
LEMMA NatInduct ==
  ASSUME NEW T, 0 \in T, \A k \in Nat : k \in T => k + 1 \in T
  PROVE  \A n \in Nat : n \in T
<1> SUFFICES ASSUME NEW n \in Nat, n \notin T PROVE FALSE
  OBVIOUS
<1> DEFINE Others == Nat \ T
<1>1. Others \in SUBSET Nat /\ Others # {}
  OBVIOUS
<1> DEFINE m == Min(Others)
<1>2. m \in Others /\ \A y \in Others : m <= y
  BY <1>1, MinIn
<1> HIDE DEF m
<1>3. m - 1 \in Nat /\ m - 1 \in T
  BY <1>2
<1> QED
  BY <1>2, <1>3

(* Induction over lists: a set with the empty list and, with a list, every *)
(* list of one more entry has all lists.                                   *)
LEMMA SeqInduct ==
  ASSUME NEW E, NEW T, <<>> \in T,
         \A s \in Seq(E), e \in E : s \in T => Append(s, e) \in T
  PROVE  \A s \in Seq(E) : s \in T
<1> DEFINE Up == {n \in Nat : \A s \in Seq(E) : Len(s) = n => s \in T}
<1>1. 0 \in Up
  <2> SUFFICES ASSUME NEW s \in Seq(E), Len(s) = 0 PROVE s \in T
    OBVIOUS
  <2>1. s = <<>>
    OBVIOUS
  <2> QED
    BY <2>1
<1>2. ASSUME NEW n \in Nat, n \in Up PROVE n + 1 \in Up
  <2> SUFFICES ASSUME NEW s \in Seq(E), Len(s) = n + 1 PROVE s \in T
    OBVIOUS
  <2>1. s # <<>>
    OBVIOUS
  <2>2. PICK front \in Seq(E), last \in E : s = Append(front, last)
    BY <2>1, SequenceEmptyOrAppend
  <2>3. Len(front) = n
    BY <2>2
  <2> QED
    BY <1>2, <2>2, <2>3
<1>3. \A n \in Nat : n \in Up
  <2> HIDE DEF Up
  <2> QED
    BY <1>1, <1>2, NatInduct
<1> QED
  BY <1>3

(* A set of numbers up to n that is not empty has a greatest element. *)
LEMMA MaxIn ==
  ASSUME NEW n \in Nat, NEW S \in SUBSET (1 .. n), S # {}
  PROVE  Max(S) \in S /\ \A y \in S : Max(S) >= y
<1> DEFINE Bounds == {b \in Nat : \A y \in S : b >= y}
<1>1. Bounds \in SUBSET Nat /\ Bounds # {}
  BY n \in Bounds
<1> DEFINE m == Min(Bounds)
<1>2. m \in Bounds /\ \A y \in Bounds : m <= y
  BY <1>1, MinIn
<1> HIDE DEF m
<1>3. m \in S
  <2> SUFFICES ASSUME m \notin S PROVE FALSE
    OBVIOUS
  <2>1. m \in Nat /\ \A y \in S : y \in Nat /\ y > 0 /\ m >= y /\ m # y
    BY <1>2
  <2>2. PICK y \in S : y > 0 /\ m >= y
    BY <2>1
  <2>3. m - 1 \in Nat /\ \A z \in S : m - 1 >= z
    BY <2>1, <2>2
  <2> QED
    BY <1>2, <2>1, <2>3
<1> QED
  BY <1>2, <1>3 DEF Max

(* The greatest element of the first k numbers. *)
LEMMA MaxUpTo ==
  ASSUME NEW k \in Nat, k > 0
  PROVE  Max(1 .. k) = k /\ (1 .. k) \ {k} = 1 .. k - 1 /\ 1 .. k # {}
<1>1. 1 .. k \in SUBSET (1 .. k) /\ k \in 1 .. k
  OBVIOUS
<1>2. Max(1 .. k) \in 1 .. k /\ \A y \in 1 .. k : Max(1 .. k) >= y
  BY <1>1, MaxIn
<1>3. Max(1 .. k) = k
  BY <1>1, <1>2
<1> QED
  BY <1>1, <1>3
(* g is what FoldLeft chooses for a list of n entries, when F takes the    *)
(* number of an entry and what was made of the entries before it.          *)
IsFold(g, n, X, b, F) ==
  /\ g \in [SUBSET (1 .. n) -> X]
  /\ \A s \in SUBSET (1 .. n) :
       g[s] = IF s = {} THEN b ELSE F[<<Max(s), g[s \ {Max(s)}]>>]

(* There is such a function, so that FoldLeft is what its definition says. *)
LEMMA FoldExists ==
  ASSUME NEW n \in Nat, NEW X, NEW b \in X, NEW F \in [(1 .. n) \X X -> X]
  PROVE  \E g : IsFold(g, n, X, b, F)
<1> DEFINE Good(g, k) == IsFold(g, k, X, b, F)
<1> DEFINE T == {k \in Nat : k <= n => \E g : Good(g, k)}
<1>1. 0 \in T
  <2> DEFINE g == [s \in SUBSET (1 .. 0) |-> b]
  <2>1. Good(g, 0)
    BY DEF IsFold
  <2> QED
    BY <2>1
<1>2. ASSUME NEW k \in Nat, k \in T PROVE k + 1 \in T
  <2> SUFFICES ASSUME k + 1 <= n PROVE \E h : Good(h, k + 1)
    OBVIOUS
  <2>1. PICK g : Good(g, k)
    BY <1>2
  <2> DEFINE last(s) == F[<<k + 1, g[s \ {k + 1}]>>]
             h == [s \in SUBSET (1 .. k + 1) |-> IF k + 1 \in s THEN last(s) ELSE g[s]]
  <2>2. \A s \in SUBSET (1 .. k + 1) :
          s \ {k + 1} \in SUBSET (1 .. k) /\ (k + 1 \notin s => s \in SUBSET (1 .. k))
    OBVIOUS
  <2>3. h \in [SUBSET (1 .. k + 1) -> X]
    <3> SUFFICES ASSUME NEW s \in SUBSET (1 .. k + 1)
                 PROVE  (k + 1 \in s => last(s) \in X) /\ (k + 1 \notin s => g[s] \in X)
      OBVIOUS
    <3>1. g[s \ {k + 1}] \in X /\ (k + 1 \notin s => g[s] \in X)
      BY <2>1, <2>2 DEF IsFold
    <3>2. <<k + 1, g[s \ {k + 1}]>> \in (1 .. n) \X X
      BY <3>1
    <3> QED
      BY <3>1, <3>2
  <2>4. ASSUME NEW s \in SUBSET (1 .. k + 1)
        PROVE  h[s] = IF s = {} THEN b ELSE F[<<Max(s), h[s \ {Max(s)}]>>]
    <3>1. CASE k + 1 \in s
      <4>1. k + 1 \in Nat /\ s # {}
        BY <3>1
      <4>2. Max(s) \in s /\ \A y \in s : Max(s) >= y
        BY <4>1, MaxIn, Zenon
      <4> DEFINE m == Max(s)
      <4>3. m \in 1 .. k + 1 /\ m >= k + 1
        BY <3>1, <4>2
      <4> HIDE DEF m
      <4>4. m = k + 1
        BY <4>3
      <4>5. h[s \ {k + 1}] = g[s \ {k + 1}]
        BY <2>2
      <4> QED
        BY <3>1, <4>4, <4>5 DEF m
    <3>2. CASE k + 1 \notin s
      <4>1. h[s] = g[s] /\ h[s \ {Max(s)}] = g[s \ {Max(s)}]
        BY <2>2, <3>2
      <4>2. g[s] = IF s = {} THEN b ELSE F[<<Max(s), g[s \ {Max(s)}]>>]
        BY <2>1, <2>2, <3>2 DEF IsFold
      <4> QED
        BY <4>1, <4>2
    <3> QED
      BY <3>1, <3>2
  <2> HIDE DEF h
  <2>5. Good(h, k + 1)
    BY <2>3, <2>4 DEF IsFold
  <2> QED
    BY <2>5
<1>3. n \in T
  BY <1>1, <1>2, NatInduct
<1> QED
  BY <1>3

(* The function that FoldLeft chooses follows F as long as it stays in X. *)
Follows(run, n, X, b, F) ==
  /\ run[{}] = b
  /\ \A k \in 1 .. n : run[1 .. k - 1] \in X => run[1 .. k] = F[<<k, run[1 .. k - 1]>>]

(* What is made of the first k entries of a list. *)
IsPartial(f, n, X, b, F, run) ==
  /\ f \in [0 .. n -> X] /\ f[0] = b /\ f[n] = run[1 .. n]
  /\ \A k \in 1 .. n : f[k] = F[<<k, f[k - 1]>>]

LEMMA FoldIs ==
  ASSUME NEW n \in Nat, NEW X, NEW b \in X, NEW F \in [(1 .. n) \X X -> X], NEW run,
         Follows(run, n, X, b, F)
  PROVE  \E f : IsPartial(f, n, X, b, F, run)
<1> DEFINE f == [k \in 0 .. n |-> run[1 .. k]]
           T == {k \in Nat : k <= n => f[k] \in X}
<1>1. 0 \in T /\ f[0] = b
  <2>1. 1 .. 0 = {}
    OBVIOUS
  <2> QED
    BY <2>1 DEF Follows
<1>2. ASSUME NEW k \in 1 .. n, f[k - 1] \in X
      PROVE  f[k] = F[<<k, f[k - 1]>>] /\ f[k] \in X
  <2>1. k \in 0 .. n /\ k - 1 \in 0 .. n
    OBVIOUS
  <2>2. f[k] = F[<<k, f[k - 1]>>]
    BY <1>2, <2>1 DEF Follows
  <2>3. <<k, f[k - 1]>> \in (1 .. n) \X X
    BY <1>2
  <2> HIDE DEF f
  <2> QED
    BY <2>2, <2>3
<1>3. ASSUME NEW k \in Nat, k \in T PROVE k + 1 \in T
  <2> SUFFICES ASSUME k + 1 <= n PROVE f[k + 1] \in X
    OBVIOUS
  <2>1. k + 1 \in 1 .. n /\ (k + 1) - 1 = k /\ f[k] \in X
    BY <1>3
  <2> HIDE DEF f
  <2> QED
    BY <1>2, <2>1
<1>4. \A k \in Nat : k \in T
  <2> HIDE DEF T
  <2> QED
    BY <1>1, <1>3, NatInduct
<1>5. ASSUME NEW k \in 0 .. n PROVE f[k] \in X
  <2>1. k \in Nat /\ k <= n
    OBVIOUS
  <2>2. k \in T
    <3> HIDE DEF T
    <3> QED
      BY <1>4, <2>1
  <2> QED
    BY <2>1, <2>2
<1>6. f \in [0 .. n -> X] /\ f[n] = run[1 .. n]
  BY <1>5
<1>7. \A k \in 1 .. n : f[k] = F[<<k, f[k - 1]>>]
  <2> HIDE DEF f
  <2> SUFFICES ASSUME NEW k \in 1 .. n PROVE f[k - 1] \in X
    BY <1>2
  <2> QED
    BY <1>5, k - 1 \in 0 .. n
<1> HIDE DEF f
<1> QED
  BY <1>1, <1>6, <1>7 DEF IsPartial
=============================================================================
