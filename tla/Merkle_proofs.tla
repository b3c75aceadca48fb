---------------------------- MODULE Merkle_proofs ----------------------------
(***************************************************************************)
(* What the trees and the verifiers of Merkle compute, for every number of *)
(* leaves.  The library's theorems on induction take an operator, which no *)
(* prover here can instantiate; a set of naturals they can, so every       *)
(* induction is by a least counterexample, and every recursive function is *)
(* shown to exist as the limit of its beginnings.                          *)
(*                                                                         *)
(* The generators split a tree at the largest power of two, the verifiers  *)
(* climb it level by level.  Both are related to one step: the level above *)
(* the leaves is again a sequence, of half the length (PairUp), whose tree *)
(* has the same root.                                                      *)
(***************************************************************************)
EXTENDS Merkle, SequenceTheorems, WellFoundedInduction, TLAPS

Pos == Nat \ {0}

LEMMA LeastNatural ==
    ASSUME NEW S, S \subseteq Nat, NEW n \in S
    PROVE  \E least \in S : \A other \in S : least <= other
<1> DEFINE R == {pair \in Nat \X Nat : pair[1] < pair[2]}
<1>1. IsWellFoundedOn(R, Nat)
  BY NatLessThanWellFounded DEF OpToRel
<1>2. PICK least \in S : \A other \in S : ~(<<other, least>> \in R)
  <2> HIDE DEF R
  <2> QED BY <1>1, WFMin
<1>3. ASSUME NEW other \in S
      PROVE  least <= other
  <2>1. least \in Nat /\ other \in Nat
    OBVIOUS
  <2>2. ~(other < least)
    BY <1>2, <2>1
  <2> QED BY <2>1, <2>2
<1> QED BY <1>3

(* Induction over the natural numbers, for sets of them. *)
LEMMA StrongInduction ==
    ASSUME NEW S, \A n \in Nat : (\A m \in Nat : m < n => m \in S) => n \in S
    PROVE  \A n \in Nat : n \in S
<1> DEFINE T == Nat \ S
<1> SUFFICES ASSUME NEW n \in T PROVE FALSE
  OBVIOUS
<1>1. PICK least \in T : \A other \in T : least <= other
  <2>1. T \subseteq Nat
    OBVIOUS
  <2> HIDE DEF T
  <2> QED BY <2>1, LeastNatural
<1>2. \A m \in Nat : m < least => m \in S
  BY <1>1
<1> QED BY <1>2

LEMMA Induction ==
    ASSUME NEW S, 0 \in S, \A n \in Nat : n \in S => n + 1 \in S
    PROVE  \A n \in Nat : n \in S
<1>1. ASSUME NEW n \in Nat, \A m \in Nat : m < n => m \in S
      PROVE  n \in S
  <2>1. CASE n = 0
    BY <2>1
  <2>2. CASE n # 0
    <3>1. n - 1 \in Nat /\ n - 1 < n
      BY <2>2
    <3>2. n - 1 \in S
      BY <1>1, <3>1
    <3> QED BY <3>1, <3>2
  <2> QED BY <2>1, <2>2
<1> QED BY <1>1, StrongInduction

-----------------------------------------------------------------------------
(* Powers of two.                                                          *)

Double(f, n) == f = [k \in Pos |-> IF k * 2 < n THEN f[k * 2] ELSE k]

(* The loop of largestPowerOfTwoBelow ends, from every k.                  *)
LEMMA DoubleExists == ASSUME NEW n \in Nat PROVE \E f : Double(f, n)
<1> DEFINE From(d) == {k \in Pos : k + d >= n}
           Partly(f, d) == f = [k \in From(d) |-> IF k * 2 < n THEN f[k * 2] ELSE k]
           S == {d \in Nat : \E f : Partly(f, d)}
<1>1. 0 \in S
  <2>1. \A k \in From(0) : ~(k * 2 < n)
    BY DEF Pos
  <2>2. Partly([k \in From(0) |-> k], 0)
    BY <2>1
  <2> HIDE DEF Partly
  <2> QED BY <2>2
<1>2. ASSUME NEW d \in Nat, d \in S
      PROVE  d + 1 \in S
  <2>1. PICK f : Partly(f, d)
    BY <1>2
  <2> DEFINE g == [k \in From(d + 1) |-> IF k * 2 < n THEN f[k * 2] ELSE k]
  <2>2. \A k \in From(d + 1) : k * 2 \in From(d)
    BY DEF Pos
  <2>3. \A k \in From(d) : k \in From(d + 1)
    BY DEF Pos
  <2>4. \A k \in From(d) : f[k] = IF k * 2 < n THEN f[k * 2] ELSE k
    BY <2>1
  <2>5. \A k \in From(d) : f[k] = g[k]
    BY <2>3, <2>4
  <2>6. Partly(g, d + 1)
    BY <2>2, <2>5
  <2> HIDE DEF Partly, g
  <2> QED BY <2>6
<1>3. n \in S
  <2> HIDE DEF S
  <2> QED BY <1>1, <1>2, Induction
<1>4. PICK f : Partly(f, n)
  BY <1>3
<1>5. From(n) = Pos
  BY DEF Pos
<1> QED BY <1>4, <1>5 DEF Double

(* The loop, unfolded. *)
DoubleFrom(n, start) ==
    LET double[k \in Nat \ {0}] == IF k * 2 < n THEN double[k * 2] ELSE k
    IN  double[start]

LEMMA DoubleUnfolds ==
    ASSUME NEW n \in Nat, NEW k \in Pos
    PROVE  DoubleFrom(n, k) = IF k * 2 < n THEN DoubleFrom(n, k * 2) ELSE k
<1> DEFINE double[i \in Nat \ {0}] == IF i * 2 < n THEN double[i * 2] ELSE i
<1>1. \E f : f = [i \in Nat \ {0} |-> IF i * 2 < n THEN f[i * 2] ELSE i]
  BY DoubleExists DEF Double, Pos
<1>2. double = [i \in Nat \ {0} |-> IF i * 2 < n THEN double[i * 2] ELSE i]
  BY <1>1
<1>3. \A i : DoubleFrom(n, i) = double[i]
  BY DEF DoubleFrom
<1> HIDE DEF double
<1> QED BY <1>2, <1>3 DEF Pos

LEMMA LargestIsDouble == \A n : LargestPowerOfTwoBelow(n) = DoubleFrom(n, 1)
BY DEF LargestPowerOfTwoBelow, DoubleFrom
Halve(f) == f = [k \in Pos |-> IF k % 2 = 0 THEN f[k \div 2] ELSE k]

LEMMA HalfIsLess == \A k \in Pos : k % 2 = 0 => k \div 2 \in Pos /\ k \div 2 < k
BY DEF Pos

(* The loop of isPowerOfTwo ends: any two of its beginnings agree, and the *)
(* whole takes each value from one that reaches so far.                    *)
LEMMA HalveExists == \E f : Halve(f)
<1> DEFINE To(d) == {k \in Pos : k <= d}
           Partly(f, d) == f = [k \in To(d) |-> IF k % 2 = 0 THEN f[k \div 2] ELSE k]
           S == {d \in Nat : \E f : Partly(f, d)}
           Only(d) == CHOOSE f : Partly(f, d)
           all == [k \in Pos |-> Only(k)[k]]
<1>1. 0 \in S
  <2>1. To(0) = {}
    BY DEF Pos
  <2>2. Partly([k \in To(0) |-> k], 0)
    BY <2>1
  <2> HIDE DEF Partly
  <2> QED BY <2>2
<1>2. ASSUME NEW d \in Nat, d \in S
      PROVE  d + 1 \in S
  <2>1. PICK f : Partly(f, d)
    BY <1>2
  <2> DEFINE g == [k \in To(d + 1) |-> IF k % 2 = 0 THEN f[k \div 2] ELSE k]
  <2>2. \A k \in To(d + 1) : k % 2 = 0 => k \div 2 \in To(d)
    BY HalfIsLess DEF Pos
  <2>3. \A k \in To(d) : k \in To(d + 1)
    BY DEF Pos
  <2>4. \A k \in To(d) : f[k] = IF k % 2 = 0 THEN f[k \div 2] ELSE k
    BY <2>1
  <2>5. \A k \in To(d) : f[k] = g[k]
    BY <2>3, <2>4
  <2>6. Partly(g, d + 1)
    BY <2>2, <2>5
  <2> HIDE DEF Partly, g
  <2> QED BY <2>6
<1>3. \A d \in Nat : Partly(Only(d), d)
  <2>1. \A d \in Nat : d \in S
    <3> HIDE DEF S
    <3> QED BY <1>1, <1>2, Induction
  <2>2. \A d \in Nat : \E f : Partly(f, d)
    BY <2>1
  <2> HIDE DEF Partly
  <2> QED BY <2>2
<1>4. \A d \in Nat : \A k \in To(d) :
        Only(d)[k] = IF k % 2 = 0 THEN Only(d)[k \div 2] ELSE k
  <2> HIDE DEF Only
  <2> QED BY <1>3
<1> DEFINE Agreed == {k \in Nat : \A d, e \in Nat : k \in To(d) \cap To(e) => Only(d)[k] = Only(e)[k]}
<1>5. ASSUME NEW k \in Nat, \A m \in Nat : m < k => m \in Agreed
      PROVE  k \in Agreed
  <2> HIDE DEF Only
  <2> SUFFICES ASSUME NEW d \in Nat, NEW e \in Nat, k \in To(d) \cap To(e)
               PROVE  Only(d)[k] = Only(e)[k]
    OBVIOUS
  <2>1. k % 2 = 0 => k \div 2 \in To(d) \cap To(e) /\ k \div 2 \in Nat /\ k \div 2 < k
    BY HalfIsLess DEF Pos
  <2>2. k % 2 = 0 => Only(d)[k \div 2] = Only(e)[k \div 2]
    BY <1>5, <2>1
  <2> QED BY <1>4, <2>2
<1>6. \A k \in Nat : k \in Agreed
  <2> HIDE DEF Agreed
  <2> QED BY <1>5, StrongInduction
<1>7. ASSUME NEW k \in Pos
      PROVE  all[k] = IF k % 2 = 0 THEN all[k \div 2] ELSE k
  <2> HIDE DEF Only
  <2>1. k \in Nat /\ k \in To(k) /\ all[k] = Only(k)[k]
    BY DEF Pos
  <2>2. ASSUME k % 2 = 0
        PROVE  all[k \div 2] = Only(k)[k \div 2]
    <3>1. /\ k \div 2 \in Pos /\ k \div 2 \in Nat
          /\ k \div 2 \in To(k) /\ k \div 2 \in To(k \div 2)
      BY <2>2, HalfIsLess DEF Pos
    <3>2. k \div 2 \in Agreed
      BY <1>6, <3>1
    <3> QED BY <2>1, <3>1, <3>2
  <2> QED BY <1>4, <2>1, <2>2
<1>8. Halve(all)
  <2> HIDE DEF Only
  <2> QED BY <1>7 DEF Halve
<1> QED BY <1>8

(* Halving, unfolded. *)
HalveFrom(start) ==
    LET halve[k \in Nat \ {0}] == IF k % 2 = 0 THEN halve[k \div 2] ELSE k
    IN  halve[start]

LEMMA HalveUnfolds ==
    ASSUME NEW k \in Pos
    PROVE  HalveFrom(k) = IF k % 2 = 0 THEN HalveFrom(k \div 2) ELSE k
<1> DEFINE halve[i \in Nat \ {0}] == IF i % 2 = 0 THEN halve[i \div 2] ELSE i
<1>1. \E f : f = [i \in Nat \ {0} |-> IF i % 2 = 0 THEN f[i \div 2] ELSE i]
  BY HalveExists DEF Halve, Pos
<1>2. halve = [i \in Nat \ {0} |-> IF i % 2 = 0 THEN halve[i \div 2] ELSE i]
  BY <1>1
<1>3. \A i : HalveFrom(i) = halve[i]
  BY DEF HalveFrom
<1> HIDE DEF halve
<1> QED BY <1>2, <1>3 DEF Pos

LEMMA PowerOfTwoHalved ==
    ASSUME NEW n \in Pos
    PROVE  /\ n % 2 = 0 => (IsPowerOfTwo(n) <=> IsPowerOfTwo(n \div 2))
           /\ n % 2 = 1 => (IsPowerOfTwo(n) <=> n = 1)
<1>1. \A k \in Pos : IsPowerOfTwo(k) <=> HalveFrom(k) = 1
  BY DEF IsPowerOfTwo, HalveFrom, Pos
<1>2. n % 2 = 0 => HalveFrom(n) = HalveFrom(n \div 2)
  BY HalveUnfolds
<1>3. n % 2 = 1 => HalveFrom(n) = n
  BY HalveUnfolds
<1> QED BY <1>1, <1>2, <1>3, HalfIsLess
LEMMA DoubleBounds ==
    ASSUME NEW n \in Nat, NEW start \in Pos, start < n
    PROVE  DoubleFrom(n, start) \in Pos /\ DoubleFrom(n, start) < n
<1> DEFINE Fine(k) == k < n => DoubleFrom(n, k) \in Pos /\ DoubleFrom(n, k) < n
           S == {d \in Nat : \A k \in Pos : n <= k + d => Fine(k)}
<1>1. ASSUME NEW d \in Nat, \A m \in Nat : m < d => m \in S
      PROVE  d \in S
  <2> SUFFICES ASSUME NEW k \in Pos, n <= k + d, k < n
               PROVE  DoubleFrom(n, k) \in Pos /\ DoubleFrom(n, k) < n
    OBVIOUS
  <2>1. CASE k * 2 < n
    <3>1. d - 1 \in Nat /\ d - 1 < d /\ k * 2 \in Pos /\ n <= k * 2 + (d - 1)
      BY DEF Pos
    <3>2. Fine(k * 2)
      BY <1>1, <3>1
    <3> QED BY <2>1, <3>1, <3>2, DoubleUnfolds
  <2>2. CASE ~(k * 2 < n)
    BY <2>2, DoubleUnfolds
  <2> QED BY <2>1, <2>2
<1>2. n \in S
  <2> HIDE DEF S
  <2> QED BY <1>1, StrongInduction
<1> QED BY <1>2 DEF Pos

(* A loop that starts at twice the number ends at twice the number.        *)
LEMMA DoubleTwice ==
    ASSUME NEW n \in Nat, n >= 1, NEW start \in Pos
    PROVE  DoubleFrom(n, start * 2) = DoubleFrom((n + 1) \div 2, start) * 2
<1> DEFINE half == (n + 1) \div 2
           S == {d \in Nat : \A k \in Pos : n <= k + d =>
                               DoubleFrom(n, k * 2) = DoubleFrom(half, k) * 2}
<1>1. half \in Nat
  OBVIOUS
<1>2. ASSUME NEW d \in Nat, \A m \in Nat : m < d => m \in S
      PROVE  d \in S
  <2> SUFFICES ASSUME NEW k \in Pos, n <= k + d
               PROVE  DoubleFrom(n, k * 2) = DoubleFrom(half, k) * 2
    OBVIOUS
  <2>1. k * 2 \in Pos
    BY DEF Pos
  <2>2. (k * 2) * 2 < n <=> k * 2 < half
    BY DEF Pos
  <2>3. CASE k * 2 < half
    <3>1. d - 1 \in Nat /\ d - 1 < d /\ n <= k * 2 + (d - 1)
      BY <2>3, <2>2 DEF Pos
    <3>2. DoubleFrom(n, (k * 2) * 2) = DoubleFrom(half, k * 2) * 2
      BY <1>2, <2>1, <3>1
    <3> QED BY <1>1, <2>1, <2>2, <2>3, <3>2, DoubleUnfolds
  <2>4. CASE ~(k * 2 < half)
    <3> HIDE DEF half
    <3> QED BY <1>1, <2>1, <2>2, <2>4, DoubleUnfolds
  <2> QED BY <2>3, <2>4
<1>3. n \in S
  <2> HIDE DEF S
  <2> QED BY <1>2, StrongInduction
<1> QED BY <1>3 DEF Pos

LEMMA LargestBelow ==
    ASSUME NEW n \in Nat, n >= 2
    PROVE  LargestPowerOfTwoBelow(n) \in Pos /\ LargestPowerOfTwoBelow(n) < n
BY DoubleBounds, LargestIsDouble DEF Pos

LEMMA LargestBelowOne == LargestPowerOfTwoBelow(1) = 1
BY DoubleUnfolds, LargestIsDouble DEF Pos

LEMMA LargestBelowTwo == LargestPowerOfTwoBelow(2) = 1
BY DoubleUnfolds, LargestIsDouble DEF Pos

(* What splits a tree splits the level above its leaves, at half its size. *)
LEMMA LargestHalved ==
    ASSUME NEW n \in Nat, n >= 3
    PROVE  LargestPowerOfTwoBelow(n) = LargestPowerOfTwoBelow((n + 1) \div 2) * 2
<1>1. 1 \in Pos /\ 1 * 2 < n
  BY DEF Pos
<1>2. DoubleFrom(n, 1) = DoubleFrom(n, 1 * 2)
  BY <1>1, DoubleUnfolds
<1> QED BY <1>1, <1>2, DoubleTwice, LargestIsDouble

-----------------------------------------------------------------------------
(* The loops that shift both positions.                                    *)

Position == [fn : Nat, sn : Nat]

Halved(at) == [fn |-> at.fn \div 2, sn |-> at.sn \div 2]

Shifted(f, bit) ==
    f = [at \in Position |-> IF at.fn % 2 = bit /\ at.fn # 0
                               THEN f[Halved(at)] ELSE at]

LEMMA HalvesAreLess ==
    \A at \in Position : /\ at.fn \in Nat
                         /\ Halved(at) \in Position /\ Halved(at).fn \in Nat
                         /\ at.fn # 0 => Halved(at).fn < at.fn
BY DEF Position, Halved

LEMMA ShiftExists == ASSUME NEW bit PROVE \E f : Shifted(f, bit)
<1> DEFINE To(d) == {at \in Position : at.fn <= d}
           Goes(at) == at.fn % 2 = bit /\ at.fn # 0
           Up(at) == Halved(at)
           Partly(f, d) == f = [at \in To(d) |-> IF Goes(at) THEN f[Up(at)] ELSE at]
           S == {d \in Nat : \E f : Partly(f, d)}
           Only(d) == CHOOSE f : Partly(f, d)
           all == [at \in Position |-> Only(at.fn)[at]]
<1>1. 0 \in S
  <2>1. \A at \in To(0) : ~Goes(at)
    BY HalvesAreLess
  <2>2. Partly([at \in To(0) |-> at], 0)
    BY <2>1
  <2> HIDE DEF Partly
  <2> QED BY <2>2
<1>2. ASSUME NEW d \in Nat, d \in S
      PROVE  d + 1 \in S
  <2>1. PICK f : Partly(f, d)
    BY <1>2
  <2> DEFINE g == [at \in To(d + 1) |-> IF Goes(at) THEN f[Up(at)] ELSE at]
  <2>2. \A at \in To(d + 1) : Goes(at) => Up(at) \in To(d)
    BY HalvesAreLess
  <2>3. \A at \in To(d) : at \in To(d + 1)
    BY HalvesAreLess
  <2> HIDE DEF Goes, Up
  <2>4. \A at \in To(d) : f[at] = IF Goes(at) THEN f[Up(at)] ELSE at
    BY <2>1
  <2>5. \A at \in To(d) : f[at] = g[at]
    BY <2>3, <2>4
  <2>6. Partly(g, d + 1)
    BY <2>2, <2>5
  <2> HIDE DEF Partly, g
  <2> QED BY <2>6
<1>3. \A d \in Nat : Partly(Only(d), d)
  <2>1. \A d \in Nat : d \in S
    <3> HIDE DEF S
    <3> QED BY <1>1, <1>2, Induction
  <2>2. \A d \in Nat : \E f : Partly(f, d)
    BY <2>1
  <2> HIDE DEF Partly
  <2> QED BY <2>2
<1>4. \A d \in Nat : \A at \in To(d) :
        Only(d)[at] = IF Goes(at) THEN Only(d)[Up(at)] ELSE at
  <2> HIDE DEF Only, Goes, Up
  <2> QED BY <1>3
<1> DEFINE Agreed == {k \in Nat : \A d, e \in Nat : \A at \in To(d) \cap To(e) :
                                    at.fn = k => Only(d)[at] = Only(e)[at]}
<1>5. ASSUME NEW k \in Nat, \A m \in Nat : m < k => m \in Agreed
      PROVE  k \in Agreed
  <2> HIDE DEF Only
  <2> SUFFICES ASSUME NEW d \in Nat, NEW e \in Nat, NEW at \in To(d) \cap To(e), at.fn = k
               PROVE  Only(d)[at] = Only(e)[at]
    OBVIOUS
  <2>1. Goes(at) => Up(at) \in To(d) \cap To(e) /\ Up(at).fn \in Nat /\ Up(at).fn < k
    BY HalvesAreLess
  <2>2. Goes(at) => Only(d)[Up(at)] = Only(e)[Up(at)]
    BY <1>5, <2>1
  <2> HIDE DEF Goes, Up
  <2> QED BY <1>4, <2>2
<1>6. \A k \in Nat : k \in Agreed
  <2> HIDE DEF Agreed
  <2> QED BY <1>5, StrongInduction
<1>7. ASSUME NEW at \in Position
      PROVE  all[at] = IF Goes(at) THEN all[Up(at)] ELSE at
  <2> HIDE DEF Only
  <2>1. at.fn \in Nat /\ at \in To(at.fn) /\ all[at] = Only(at.fn)[at]
    BY HalvesAreLess
  <2>2. ASSUME Goes(at)
        PROVE  all[Up(at)] = Only(at.fn)[Up(at)]
    <3>1. /\ Up(at) \in Position /\ Up(at).fn \in Nat
          /\ Up(at) \in To(at.fn) /\ Up(at) \in To(Up(at).fn)
      BY <2>2, HalvesAreLess
    <3>2. Up(at).fn \in Agreed
      BY <1>6, <3>1
    <3> QED BY <2>1, <3>1, <3>2
  <2> HIDE DEF Goes, Up
  <2> QED BY <1>4, <2>1, <2>2
<1>8. Shifted(all, bit)
  <2> HIDE DEF Only
  <2> QED BY <1>7 DEF Shifted
<1> QED BY <1>8

LEMMA ShiftUnfolds ==
    ASSUME NEW bit, NEW fn \in Nat, NEW sn \in Nat
    PROVE  ShiftWhile(bit, fn, sn) = IF fn % 2 = bit /\ fn # 0
                                     THEN ShiftWhile(bit, fn \div 2, sn \div 2)
                                     ELSE [fn |-> fn, sn |-> sn]
<1> DEFINE shift[at \in [fn : Nat, sn : Nat]] ==
             IF at.fn % 2 = bit /\ at.fn # 0
             THEN shift[[fn |-> at.fn \div 2, sn |-> at.sn \div 2]]
             ELSE at
<1>1. \E f : f = [at \in [fn : Nat, sn : Nat] |->
                    IF at.fn % 2 = bit /\ at.fn # 0
                    THEN f[[fn |-> at.fn \div 2, sn |-> at.sn \div 2]]
                    ELSE at]
  BY ShiftExists DEF Shifted, Position, Halved
<1>2. shift = [at \in [fn : Nat, sn : Nat] |->
                 IF at.fn % 2 = bit /\ at.fn # 0
                 THEN shift[[fn |-> at.fn \div 2, sn |-> at.sn \div 2]]
                 ELSE at]
  BY <1>1
<1>3. \A f, s : ShiftWhile(bit, f, s) = shift[[fn |-> f, sn |-> s]]
  BY DEF ShiftWhile
<1> HIDE DEF shift
<1>4. /\ [fn |-> fn, sn |-> sn] \in [fn : Nat, sn : Nat]
      /\ [fn |-> fn, sn |-> sn].fn = fn /\ [fn |-> fn, sn |-> sn].sn = sn
  OBVIOUS
<1>5. shift[[fn |-> fn, sn |-> sn]] =
        IF fn % 2 = bit /\ fn # 0
        THEN shift[[fn |-> fn \div 2, sn |-> sn \div 2]]
        ELSE [fn |-> fn, sn |-> sn]
  BY <1>2, <1>4
<1> QED BY <1>3, <1>5
-----------------------------------------------------------------------------
(* Roots.                                                                  *)

Subtree(d) == [lo : Nat, n : 1..d]

Tree(lo, n) == [lo |-> lo, n |-> n]

LEMMA TreesAreSubtrees ==
    ASSUME NEW d \in Nat
    PROVE  /\ \A lo \in Nat, n \in 1..d : /\ Tree(lo, n) \in Subtree(d)
                                          /\ Tree(lo, n).lo = lo /\ Tree(lo, n).n = n
           /\ \A t \in Subtree(d) : t.lo \in Nat /\ t.n \in 1..d
BY DEF Subtree, Tree

(* The two subtrees of a tree. *)
Left(t) == Tree(t.lo, LargestPowerOfTwoBelow(t.n))
Right(t) == Tree(t.lo + LargestPowerOfTwoBelow(t.n), t.n - LargestPowerOfTwoBelow(t.n))

LEMMA SubtreesAreSmaller ==
    ASSUME NEW d \in Nat, NEW t \in Subtree(d + 1), t.n # 1
    PROVE  Left(t) \in Subtree(d) /\ Right(t) \in Subtree(d)
<1>1. t.lo \in Nat /\ t.n \in Nat /\ t.n >= 2 /\ t.n <= d + 1
  BY TreesAreSubtrees
<1>2. LargestPowerOfTwoBelow(t.n) \in Pos /\ LargestPowerOfTwoBelow(t.n) < t.n
  BY <1>1, LargestBelow
<1> QED BY <1>1, <1>2 DEF Left, Right, Tree, Subtree, Pos

Roots(f, leaves, d) ==
    f = [t \in Subtree(d) |-> IF t.n = 1 THEN leaves[t.lo + 1]
                              ELSE HashChildren(f[Left(t)], f[Right(t)])]

LEMMA RootsExist == ASSUME NEW leaves PROVE \A d \in Nat : \E f : Roots(f, leaves, d)
<1> DEFINE S == {d \in Nat : \E f : Roots(f, leaves, d)}
<1>1. 0 \in S
  <2>1. Subtree(0) = {}
    BY DEF Subtree
  <2>2. Roots([t \in Subtree(0) |-> t], leaves, 0)
    BY <2>1 DEF Roots
  <2> QED BY <2>2
<1>2. ASSUME NEW d \in Nat, d \in S
      PROVE  d + 1 \in S
  <2>1. PICK f : Roots(f, leaves, d)
    BY <1>2
  <2> DEFINE g == [t \in Subtree(d + 1) |-> IF t.n = 1 THEN leaves[t.lo + 1]
                                            ELSE HashChildren(f[Left(t)], f[Right(t)])]
  <2>2. \A t \in Subtree(d) : t \in Subtree(d + 1)
    BY DEF Subtree
  <2>3. \A t \in Subtree(d) : f[t] = IF t.n = 1 THEN leaves[t.lo + 1]
                                     ELSE HashChildren(f[Left(t)], f[Right(t)])
    BY <2>1 DEF Roots
  <2>4. \A t \in Subtree(d) : f[t] = g[t]
    BY <2>2, <2>3
  <2>5. Roots(g, leaves, d + 1)
    BY <2>4, SubtreesAreSmaller DEF Roots
  <2> HIDE DEF g
  <2> QED BY <2>5
<1>3. \A d \in Nat : d \in S
  <2> HIDE DEF S
  <2> QED BY <1>1, <1>2, Induction
<1> QED BY <1>3

(* The hash of the tree over n leaves from lo on. *)
Root(leaves, lo, n) == SubtreeRoot(leaves, lo, lo + n)

LEMMA RootUnfolds ==
    ASSUME NEW leaves, Len(leaves) \in Nat, NEW lo \in Nat, NEW n \in 1..Len(leaves),
           NEW k, k = LargestPowerOfTwoBelow(n)
    PROVE  Root(leaves, lo, n) = IF n = 1 THEN leaves[lo + 1]
                                 ELSE HashChildren(Root(leaves, lo, k), Root(leaves, lo + k, n - k))
<1> DEFINE root[t \in [lo : Nat, n : 1..Len(leaves)]] ==
             IF t.n = 1
             THEN leaves[t.lo + 1]
             ELSE HashChildren(root[[lo |-> t.lo, n |-> LargestPowerOfTwoBelow(t.n)]],
                               root[[lo |-> t.lo + LargestPowerOfTwoBelow(t.n),
                                     n |-> t.n - LargestPowerOfTwoBelow(t.n)]])
<1>1. \E f : f = [t \in [lo : Nat, n : 1..Len(leaves)] |->
                    IF t.n = 1
                    THEN leaves[t.lo + 1]
                    ELSE HashChildren(f[[lo |-> t.lo, n |-> LargestPowerOfTwoBelow(t.n)]],
                                      f[[lo |-> t.lo + LargestPowerOfTwoBelow(t.n),
                                         n |-> t.n - LargestPowerOfTwoBelow(t.n)]])]
  BY RootsExist DEF Roots, Subtree, Left, Right, Tree
<1>2. root = [t \in [lo : Nat, n : 1..Len(leaves)] |->
                IF t.n = 1
                THEN leaves[t.lo + 1]
                ELSE HashChildren(root[[lo |-> t.lo, n |-> LargestPowerOfTwoBelow(t.n)]],
                                  root[[lo |-> t.lo + LargestPowerOfTwoBelow(t.n),
                                        n |-> t.n - LargestPowerOfTwoBelow(t.n)]])]
  BY <1>1
<1>3. \A first, last : SubtreeRoot(leaves, first, last) = root[Tree(first, last - first)]
  BY DEF SubtreeRoot, Tree
<1> HIDE DEF root
<1>4. \A first \in Nat, size \in Nat : Root(leaves, first, size) = root[Tree(first, size)]
  <2>1. \A first \in Nat, size \in Nat : (first + size) - first = size
    OBVIOUS
  <2> QED BY <1>3, <2>1 DEF Root
<1>5. Tree(lo, n) \in [lo : Nat, n : 1..Len(leaves)] /\ Tree(lo, n).lo = lo /\ Tree(lo, n).n = n
  BY DEF Tree
<1>6. root[Tree(lo, n)] = IF n = 1 THEN leaves[lo + 1]
                          ELSE HashChildren(root[Tree(lo, k)], root[Tree(lo + k, n - k)])
  BY <1>2, <1>5 DEF Tree
<1>7. n # 1 => k \in Nat /\ lo + k \in Nat /\ n - k \in Nat
  BY LargestBelow DEF Pos
<1> QED BY <1>4, <1>6, <1>7

LEMMA ChildrenAreKept ==
    \A a, b, c, d : HashChildren(a, b) = HashChildren(c, d) <=> a = c /\ b = d
BY DEF HashChildren

(* A root stands for its leaves, all of them and no other.                 *)
LEMMA RootsTell ==
    ASSUME NEW K, NEW L, Len(K) \in Nat, Len(L) \in Nat
    PROVE  \A n \in Nat : \A lo \in Nat : n \in 1..Len(K) /\ n \in 1..Len(L) =>
             (Root(K, lo, n) = Root(L, lo, n) <=> \A i \in (lo + 1)..(lo + n) : K[i] = L[i])
<1> DEFINE Same(lo, n) == Root(K, lo, n) = Root(L, lo, n) <=> \A i \in (lo + 1)..(lo + n) : K[i] = L[i]
           S == {n \in Nat : \A lo \in Nat : n \in 1..Len(K) /\ n \in 1..Len(L) => Same(lo, n)}
<1>1. ASSUME NEW n \in Nat, \A m \in Nat : m < n => m \in S
      PROVE  n \in S
  <2> SUFFICES ASSUME NEW lo \in Nat, n \in 1..Len(K), n \in 1..Len(L)
               PROVE  Same(lo, n)
    OBVIOUS
  <2>1. CASE n = 1
    <3>1. Root(K, lo, n) = K[lo + 1] /\ Root(L, lo, n) = L[lo + 1]
      BY <2>1, RootUnfolds
    <3> QED BY <2>1, <3>1
  <2>2. CASE n # 1
    <3> DEFINE k == LargestPowerOfTwoBelow(n)
    <3>1. k \in Nat /\ 1 <= k /\ k < n
      BY <2>2, LargestBelow DEF Pos
    <3> HIDE DEF k
    <3>2. /\ Root(K, lo, n) = HashChildren(Root(K, lo, k), Root(K, lo + k, n - k))
          /\ Root(L, lo, n) = HashChildren(Root(L, lo, k), Root(L, lo + k, n - k))
      BY <2>2, RootUnfolds DEF k
    <3>3. Same(lo, k) /\ Same(lo + k, n - k)
      <4>1. k \in S /\ n - k \in S
        <5>1. n - k \in Nat /\ n - k < n
          BY <3>1
        <5> HIDE DEF S
        <5> QED BY <1>1, <3>1, <5>1
      <4>2. k \in 1..Len(K) /\ k \in 1..Len(L) /\ n - k \in 1..Len(K) /\ n - k \in 1..Len(L)
        BY <3>1
      <4>3. lo + k \in Nat
        BY <3>1
      <4> HIDE DEF Same
      <4> QED BY <4>1, <4>2, <4>3
    <3>4. \A i \in (lo + 1)..(lo + n) :
            i \in (lo + 1)..(lo + k) \/ i \in (lo + k + 1)..(lo + k + (n - k))
      BY <3>1
    <3>5. /\ (lo + 1)..(lo + k) \subseteq (lo + 1)..(lo + n)
          /\ (lo + k + 1)..(lo + k + (n - k)) \subseteq (lo + 1)..(lo + n)
      BY <3>1
    <3> QED BY <3>2, <3>3, <3>4, <3>5, ChildrenAreKept
  <2> QED BY <2>1, <2>2
<1>2. \A n \in Nat : n \in S
  <2> HIDE DEF S
  <2> QED BY <1>1, StrongInduction
<1> QED BY <1>2

(* The level above the leaves: two by two, and a last odd one as it is.    *)
PairUp(leaves) ==
    [i \in 1..((Len(leaves) + 1) \div 2) |->
       IF 2 * i <= Len(leaves) THEN HashChildren(leaves[2 * i - 1], leaves[2 * i])
                               ELSE leaves[2 * i - 1]]

LEMMA PairUpLen ==
    ASSUME NEW L, Len(L) \in Nat
    PROVE  Len(PairUp(L)) = (Len(L) + 1) \div 2
BY DEF PairUp

(* A subtree that the level above has as well: from an even leaf on, to an *)
(* even one or to the end.                                                 *)
Lifts(L, lo, n) ==
    /\ lo % 2 = 0 /\ lo + n <= Len(L)
    /\ n % 2 = 0 \/ lo + n = Len(L)

LEMMA RootOneUp ==
    ASSUME NEW L, Len(L) \in Nat
    PROVE  \A n \in Nat : \A lo \in Nat : n >= 1 /\ Lifts(L, lo, n) =>
             Root(L, lo, n) = Root(PairUp(L), lo \div 2, (n + 1) \div 2)
<1> DEFINE P == PairUp(L)
           S == {n \in Nat : \A lo \in Nat : n >= 1 /\ Lifts(L, lo, n) =>
                               Root(L, lo, n) = Root(P, lo \div 2, (n + 1) \div 2)}
<1>1. Len(P) \in Nat /\ Len(P) = (Len(L) + 1) \div 2
  BY PairUpLen
<1>2. ASSUME NEW n \in Nat, \A m \in Nat : m < n => m \in S
      PROVE  n \in S
  <2> SUFFICES ASSUME NEW lo \in Nat, n >= 1, Lifts(L, lo, n)
               PROVE  Root(L, lo, n) = Root(P, lo \div 2, (n + 1) \div 2)
    OBVIOUS
  <2>1. /\ lo % 2 = 0 /\ lo + n <= Len(L) /\ n \in 1..Len(L)
        /\ lo \div 2 \in Nat /\ (n + 1) \div 2 \in 1..Len(P)
        /\ 2 * (lo \div 2) = lo
        /\ n % 2 = 0 \/ lo + n = Len(L)
    BY <1>1 DEF Lifts
  <2>2. \A i \in 1..Len(P) : P[i] = IF 2 * i <= Len(L) THEN HashChildren(L[2 * i - 1], L[2 * i])
                                                       ELSE L[2 * i - 1]
    BY <1>1 DEF PairUp
  <2> HIDE DEF P
  <2>3. CASE n <= 2
    <3>1. (n + 1) \div 2 = 1 /\ lo \div 2 + 1 \in 1..Len(P)
      BY <1>1, <2>1, <2>3
    <3>2. Root(P, lo \div 2, 1) = P[lo \div 2 + 1]
      BY <1>1, <2>1, <3>1, RootUnfolds
    <3>3. CASE n = 1
      <4>1. Root(L, lo, n) = L[lo + 1]
        BY <2>1, <3>3, RootUnfolds
      <4>2. P[lo \div 2 + 1] = L[lo + 1]
        <5>1. ~(2 * (lo \div 2 + 1) <= Len(L)) /\ 2 * (lo \div 2 + 1) - 1 = lo + 1
          BY <2>1, <3>3
        <5> QED BY <2>2, <3>1, <5>1
      <4> QED BY <3>1, <3>2, <4>1, <4>2
    <3>4. CASE n = 2
      <4>1. Root(L, lo, n) = HashChildren(Root(L, lo, 1), Root(L, lo + 1, 1))
        <5>1. n - 1 = 1
          BY <3>4
        <5> QED BY <2>1, <3>4, <5>1, LargestBelowTwo, RootUnfolds
      <4>2. Root(L, lo, 1) = L[lo + 1] /\ Root(L, lo + 1, 1) = L[lo + 2]
        <5>1. 1 \in 1..Len(L) /\ lo + 1 \in Nat /\ (lo + 1) + 1 = lo + 2
          BY <2>1
        <5> QED BY <5>1, RootUnfolds
      <4>3. P[lo \div 2 + 1] = HashChildren(L[lo + 1], L[lo + 2])
        <5>1. 2 * (lo \div 2 + 1) <= Len(L) /\ 2 * (lo \div 2 + 1) - 1 = lo + 1
              /\ 2 * (lo \div 2 + 1) = lo + 2
          BY <2>1, <3>4
        <5> QED BY <2>2, <3>1, <5>1
      <4> QED BY <3>1, <3>2, <4>1, <4>2, <4>3
    <3> QED BY <2>1, <2>3, <3>3, <3>4
  <2>4. CASE n >= 3
    <3> DEFINE k == LargestPowerOfTwoBelow(n)
               h == LargestPowerOfTwoBelow((n + 1) \div 2)
    <3>1. /\ (n + 1) \div 2 \in Nat /\ (n + 1) \div 2 >= 2
          /\ k = h * 2 /\ h \in Nat /\ h >= 1 /\ k \in Nat /\ k < n
      <4>1. (n + 1) \div 2 \in Nat /\ (n + 1) \div 2 >= 2
        BY <2>4
      <4>2. h \in Pos
        BY <4>1, LargestBelow
      <4> QED BY <2>4, <4>1, <4>2, LargestBelow, LargestHalved DEF Pos
    <3>2. Root(L, lo, n) = HashChildren(Root(L, lo, k), Root(L, lo + k, n - k))
      <4>1. n # 1
        BY <2>4
      <4> HIDE DEF h
      <4> QED BY <2>1, <4>1, RootUnfolds
    <3>3. Root(P, lo \div 2, (n + 1) \div 2) =
            HashChildren(Root(P, lo \div 2, h), Root(P, lo \div 2 + h, (n + 1) \div 2 - h))
      <4>1. \A half \in 1..Len(P), from \in Nat : half # 1 =>
              Root(P, from, half) =
                HashChildren(Root(P, from, LargestPowerOfTwoBelow(half)),
                             Root(P, from + LargestPowerOfTwoBelow(half),
                                  half - LargestPowerOfTwoBelow(half)))
        BY <1>1, RootUnfolds
      <4>2. (n + 1) \div 2 # 1
        BY <3>1
      <4> QED BY <2>1, <4>1, <4>2
    <3> HIDE DEF k, h
    <3>4. Root(L, lo, k) = Root(P, lo \div 2, h)
      <4>1. k >= 1 /\ Lifts(L, lo, k) /\ (k + 1) \div 2 = h
        BY <2>1, <3>1 DEF Lifts
      <4> QED BY <1>2, <3>1, <4>1
    <3>5. Root(L, lo + k, n - k) = Root(P, lo \div 2 + h, (n + 1) \div 2 - h)
      <4>1. /\ n - k \in Nat /\ n - k < n /\ n - k >= 1 /\ lo + k \in Nat
            /\ (lo + k) \div 2 = lo \div 2 + h
            /\ (n - k + 1) \div 2 = (n + 1) \div 2 - h
        BY <2>1, <3>1
      <4>2. Lifts(L, lo + k, n - k)
        BY <2>1, <3>1 DEF Lifts
      <4> QED BY <1>2, <4>1, <4>2
    <3> QED BY <3>2, <3>3, <3>4, <3>5
  <2> QED BY <2>3, <2>4
<1>3. \A n \in Nat : n \in S
  <2> HIDE DEF S
  <2> QED BY <1>2, StrongInduction
<1> QED BY <1>3
-----------------------------------------------------------------------------
(* Sequences of hashes.  There is no set of all hashes, but a set for any  *)
(* sequences at hand.                                                      *)

IsSequence(s) == \E S : s \in Seq(S)

LEMMA SequencesTogether ==
    ASSUME NEW s, NEW t, NEW u, NEW x, IsSequence(s), IsSequence(t), IsSequence(u)
    PROVE  \E S : s \in Seq(S) /\ t \in Seq(S) /\ u \in Seq(S) /\ x \in S
<1>1. PICK A : s \in Seq(A)
  BY DEF IsSequence
<1>2. PICK B : t \in Seq(B)
  BY DEF IsSequence
<1>3. PICK C : u \in Seq(C)
  BY DEF IsSequence
<1> DEFINE S == A \cup B \cup C \cup {x}
<1>4. A \subseteq S /\ B \subseteq S /\ C \subseteq S /\ x \in S
  OBVIOUS
<1> HIDE DEF S
<1>5. s \in Seq(S) /\ t \in Seq(S) /\ u \in Seq(S)
  BY <1>1, <1>2, <1>3, <1>4, SeqMonotonic
<1> QED BY <1>4, <1>5

LEMMA NothingIsSequence == IsSequence(<<>>) /\ Len(<<>>) = 0
BY EmptySeq DEF IsSequence

LEMMA OneIsSequence ==
    ASSUME NEW x
    PROVE  /\ IsSequence(<<x>>) /\ Len(<<x>>) = 1 /\ <<x>>[1] = x
           /\ <<x>> # <<>> /\ <<x>> \o <<>> = <<x>> /\ Append(<<>>, x) = <<x>>
<1>1. <<x>> \in Seq({x})
  OBVIOUS
<1>2. <<x>> \o <<>> = <<x>>
  BY <1>1, ConcatEmptySeq
<1>3. Append(<<>>, x) = <<>> \o <<x>>
  BY EmptySeq, AppendIsConcat
<1>4. <<>> \o <<x>> = <<x>>
  BY <1>1, ConcatEmptySeq
<1>5. Len(<<x>>) = 1 /\ <<x>>[1] = x
  OBVIOUS
<1>6. <<x>> # <<>>
  BY <1>5, EmptySeq
<1> QED BY <1>1, <1>2, <1>3, <1>4, <1>5, <1>6 DEF IsSequence

LEMMA AppendGrows ==
    ASSUME NEW s, IsSequence(s), NEW x
    PROVE  IsSequence(Append(s, x)) /\ Append(s, x) # <<>> /\ Len(s) \in Nat
<1>1. PICK S : s \in Seq(S) /\ x \in S
  BY SequencesTogether
<1> QED BY <1>1, AppendProperties, LenProperties DEF IsSequence

LEMMA ConcatAppend ==
    ASSUME NEW s, NEW t, IsSequence(s), IsSequence(t), NEW x
    PROVE  Append(s \o t, x) = s \o Append(t, x) /\ IsSequence(s \o t)
<1>1. PICK S : s \in Seq(S) /\ t \in Seq(S) /\ x \in S
  BY SequencesTogether
<1>2. s \o t \in Seq(S) /\ <<x>> \in Seq(S)
  BY <1>1, ConcatProperties
<1>3. Append(s \o t, x) = (s \o t) \o <<x>> /\ Append(t, x) = t \o <<x>>
  BY <1>1, <1>2, AppendIsConcat
<1>4. (s \o t) \o <<x>> = s \o (t \o <<x>>)
  BY <1>1, <1>2, ConcatAssociative
<1> QED BY <1>2, <1>3, <1>4 DEF IsSequence

LEMMA ConcatNothing ==
    ASSUME NEW s, IsSequence(s)
    PROVE  s \o <<>> = s /\ <<>> \o s = s
BY ConcatEmptySeq DEF IsSequence

(* A sequence that is not empty has a first element and a rest. *)
LEMMA HeadAndTail ==
    ASSUME NEW s, IsSequence(s), s # <<>>
    PROVE  /\ s = <<Head(s)>> \o Tail(s) /\ IsSequence(Tail(s))
           /\ Len(s) \in Nat /\ Len(s) >= 1
           /\ Len(Tail(s)) = Len(s) - 1
           /\ s[1] = Head(s)
           /\ \A i \in 1..(Len(s) - 1) : Tail(s)[i] = s[i + 1]
<1>1. PICK S : s \in Seq(S)
  BY DEF IsSequence
<1>2. Len(s) \in Nat /\ Len(s) >= 1
  BY <1>1, EmptySeq
<1>3. /\ Head(s) \in S /\ Tail(s) \in Seq(S) /\ Len(Tail(s)) = Len(s) - 1
      /\ \A i \in 1..Len(Tail(s)) : Tail(s)[i] = s[i + 1]
  BY <1>1, HeadTailProperties
<1>4. SubSeq(s, 1, Len(s)) = <<s[1]>> \o SubSeq(s, 2, Len(s))
  <2>1. 1 \in 1..Len(s) /\ Len(s) \in 1..Len(s) /\ 1 + 1 = 2
    BY <1>2
  <2> QED BY <1>1, <2>1, SubSeqRecursiveFirst
<1>5. s = <<s[1]>> \o Tail(s)
  BY <1>1, <1>4, SubSeqFull, TailIsSubSeq
<1>6. s[1] = Head(s)
  BY <1>1
<1> QED BY <1>2, <1>3, <1>5, <1>6 DEF IsSequence

LEMMA FirstAndRest ==
    ASSUME NEW x, NEW y, NEW s, NEW t, IsSequence(s), IsSequence(t)
    PROVE  /\ <<x>> \o s = <<y>> \o t <=> x = y /\ s = t
           /\ <<x>> \o s # <<>> /\ IsSequence(<<x>> \o s)
           /\ Head(<<x>> \o s) = x /\ Tail(<<x>> \o s) = s
<1>1. PICK S : s \in Seq(S) /\ t \in Seq(S) /\ x \in S
  BY SequencesTogether
<1> DEFINE T == S \cup {y}
<1>2. x \in T /\ y \in T /\ S \subseteq T
  BY <1>1
<1> HIDE DEF T
<1>3. s \in Seq(T) /\ t \in Seq(T) /\ <<x>> \in Seq(T) /\ <<y>> \in Seq(T)
  BY <1>1, <1>2, SeqMonotonic
<1>4. /\ Len(<<x>>) = 1 /\ <<x>>[1] = x /\ Len(<<y>>) = 1 /\ <<y>>[1] = y
  OBVIOUS
<1>5. /\ <<x>> \o s \in Seq(T) /\ Len(<<x>> \o s) = 1 + Len(s)
      /\ (<<x>> \o s)[1] = x /\ \A i \in 1..Len(s) : (<<x>> \o s)[i + 1] = s[i]
  <2>1. Len(s) \in Nat
    BY <1>3, LenProperties
  <2>2. /\ <<x>> \o s \in Seq(T) /\ Len(<<x>> \o s) = 1 + Len(s)
        /\ \A i \in 1..(1 + Len(s)) : (<<x>> \o s)[i] = IF i <= 1 THEN <<x>>[i] ELSE s[i - 1]
    BY <1>3, <1>4, ConcatProperties
  <2>3. 1 \in 1..(1 + Len(s))
    BY <2>1
  <2>4. ASSUME NEW i \in 1..Len(s)
        PROVE  (<<x>> \o s)[i + 1] = s[i]
    <3>1. i + 1 \in 1..(1 + Len(s)) /\ ~(i + 1 <= 1) /\ (i + 1) - 1 = i
      BY <2>1
    <3> QED BY <2>2, <3>1
  <2> QED BY <1>4, <2>2, <2>3, <2>4
<1>6. /\ <<y>> \o t \in Seq(T) /\ Len(<<y>> \o t) = 1 + Len(t)
      /\ (<<y>> \o t)[1] = y /\ \A i \in 1..Len(t) : (<<y>> \o t)[i + 1] = t[i]
  <2>1. Len(t) \in Nat
    BY <1>3, LenProperties
  <2>2. /\ <<y>> \o t \in Seq(T) /\ Len(<<y>> \o t) = 1 + Len(t)
        /\ \A i \in 1..(1 + Len(t)) : (<<y>> \o t)[i] = IF i <= 1 THEN <<y>>[i] ELSE t[i - 1]
    BY <1>3, <1>4, ConcatProperties
  <2>3. 1 \in 1..(1 + Len(t))
    BY <2>1
  <2>4. ASSUME NEW i \in 1..Len(t)
        PROVE  (<<y>> \o t)[i + 1] = t[i]
    <3>1. i + 1 \in 1..(1 + Len(t)) /\ ~(i + 1 <= 1) /\ (i + 1) - 1 = i
      BY <2>1
    <3> QED BY <2>2, <3>1
  <2> QED BY <1>4, <2>2, <2>3, <2>4
<1>7. Len(s) \in Nat /\ Len(t) \in Nat
  BY <1>3, LenProperties
<1>8. ASSUME <<x>> \o s = <<y>> \o t
      PROVE  x = y /\ s = t
  <2>1. x = y /\ Len(s) = Len(t)
    BY <1>5, <1>6, <1>7, <1>8
  <2>2. \A i \in 1..Len(s) : s[i] = t[i]
    BY <1>5, <1>6, <1>8, <2>1
  <2> QED BY <1>3, <2>1, <2>2, SeqEqual
<1>9. <<x>> \o s # <<>>
  BY <1>5, <1>7, EmptySeq
<1>10. Head(<<x>> \o s) = x /\ Tail(<<x>> \o s) = s
  <2>1. Head(<<x>> \o s) = x
    BY <1>5, <1>9, HeadAndTail DEF IsSequence
  <2>2. /\ Tail(<<x>> \o s) \in Seq(T) /\ Len(Tail(<<x>> \o s)) = Len(s)
        /\ \A i \in 1..Len(s) : Tail(<<x>> \o s)[i] = s[i]
    <3>1. /\ Tail(<<x>> \o s) \in Seq(T)
          /\ Len(Tail(<<x>> \o s)) = Len(<<x>> \o s) - 1
          /\ \A i \in 1..Len(Tail(<<x>> \o s)) : Tail(<<x>> \o s)[i] = (<<x>> \o s)[i + 1]
      BY <1>5, <1>9, HeadTailProperties
    <3>2. Len(<<x>> \o s) - 1 = Len(s)
      BY <1>5, <1>7
    <3> QED BY <1>5, <3>1, <3>2
  <2> QED BY <1>3, <2>1, <2>2, SeqEqual
<1> QED BY <1>5, <1>8, <1>9, <1>10 DEF IsSequence
(* Names for the three ways to build a sequence: the solver would unfold   *)
(* the operators themselves into their elements.                           *)
One(x) == <<x>>
Add(s, x) == Append(s, x)
Joined(s, t) == s \o t

LEMMA OneLaws ==
    ASSUME NEW x
    PROVE  IsSequence(One(x)) /\ One(x) # <<>> /\ Add(<<>>, x) = One(x)
BY OneIsSequence DEF One, Add

LEMMA AddLaws ==
    ASSUME NEW s, IsSequence(s), NEW x
    PROVE  IsSequence(Add(s, x)) /\ Add(s, x) # <<>>
BY AppendGrows DEF Add

LEMMA JoinedLaws ==
    ASSUME NEW s, NEW t, IsSequence(s), IsSequence(t)
    PROVE  IsSequence(Joined(s, t))
BY ConcatAppend, Zenon DEF Joined

LEMMA JoinedNothing ==
    ASSUME NEW s, IsSequence(s)
    PROVE  Joined(s, <<>>) = s /\ Joined(<<>>, s) = s /\ Len(s) \in Nat
BY ConcatNothing, AppendGrows DEF Joined

LEMMA AddJoined ==
    ASSUME NEW s, NEW t, IsSequence(s), IsSequence(t), NEW x
    PROVE  Add(Joined(s, t), x) = Joined(s, Add(t, x))
<1>1. Append(s \o t, x) = s \o Append(t, x)
  BY ConcatAppend
<1> QED BY ONLY <1>1, Zenon DEF Joined, Add

LEMMA FirstAndRestOf ==
    ASSUME NEW x, NEW s, IsSequence(s)
    PROVE  /\ Joined(One(x), s) # <<>>
           /\ Head(Joined(One(x), s)) = x /\ Tail(Joined(One(x), s)) = s
BY FirstAndRest, Zenon DEF Joined, One

LEMMA FirstAndRestTell ==
    ASSUME NEW x, NEW y, NEW s, NEW t, IsSequence(s), IsSequence(t)
    PROVE  Joined(One(x), s) = Joined(One(y), t) <=> x = y /\ s = t
<1>1. ASSUME Joined(One(x), s) = Joined(One(y), t)
      PROVE  x = y /\ s = t
  <2>1. Head(Joined(One(x), s)) = x /\ Head(Joined(One(y), t)) = y
    BY FirstAndRestOf
  <2>2. Tail(Joined(One(x), s)) = s /\ Tail(Joined(One(y), t)) = t
    BY FirstAndRestOf
  <2> QED BY <1>1, <2>1, <2>2
<1> QED BY <1>1

LEMMA HasFirstAndRest ==
    ASSUME NEW s, IsSequence(s), s # <<>>
    PROVE  /\ s = Joined(One(Head(s)), Tail(s)) /\ IsSequence(Tail(s))
BY HeadAndTail DEF Joined, One
-----------------------------------------------------------------------------
(* Inclusion paths.                                                        *)

Descent(d) == [m : Nat, lo : Nat, n : 1..d]

PathAt(m, lo, n) == [m |-> m, lo |-> lo, n |-> n]

LEMMA DescentsAreTriples ==
    ASSUME NEW d \in Nat
    PROVE  /\ \A m \in Nat, lo \in Nat, n \in 1..d :
                /\ PathAt(m, lo, n) \in Descent(d)
                /\ PathAt(m, lo, n).m = m /\ PathAt(m, lo, n).lo = lo /\ PathAt(m, lo, n).n = n
           /\ \A t \in Descent(d) : t.m \in Nat /\ t.lo \in Nat /\ t.n \in 1..d
BY DEF Descent, PathAt

AtLeft(t) == PathAt(t.m, t.lo, LargestPowerOfTwoBelow(t.n))
AtRight(t) == PathAt(t.m - LargestPowerOfTwoBelow(t.n), t.lo + LargestPowerOfTwoBelow(t.n),
                 t.n - LargestPowerOfTwoBelow(t.n))

LEMMA DescentsGoDown ==
    ASSUME NEW d \in Nat, NEW t \in Descent(d + 1), t.n # 1
    PROVE  /\ AtLeft(t) \in Descent(d)
           /\ ~(t.m < LargestPowerOfTwoBelow(t.n)) => AtRight(t) \in Descent(d)
<1>1. t.m \in Nat /\ t.lo \in Nat /\ t.n \in Nat /\ t.n >= 2 /\ t.n <= d + 1
  BY DescentsAreTriples
<1>2. LargestPowerOfTwoBelow(t.n) \in Pos /\ LargestPowerOfTwoBelow(t.n) < t.n
  BY <1>1, LargestBelow
<1> QED BY <1>1, <1>2 DEF AtLeft, AtRight, PathAt, Descent, Pos

(* The siblings passed on the way, when the one above has been found.      *)
PathStep(f, leaves, t) ==
    IF t.n = 1
    THEN <<>>
    ELSE IF t.m < LargestPowerOfTwoBelow(t.n)
         THEN Append(f[AtLeft(t)],
                     SubtreeRoot(leaves, t.lo + LargestPowerOfTwoBelow(t.n), t.lo + t.n))
         ELSE Append(f[AtRight(t)],
                     SubtreeRoot(leaves, t.lo, t.lo + LargestPowerOfTwoBelow(t.n)))

IsPaths(f, leaves, d) == f = [t \in Descent(d) |-> PathStep(f, leaves, t)]

LEMMA PathsExist == ASSUME NEW leaves PROVE \A d \in Nat : \E f : IsPaths(f, leaves, d)
<1> DEFINE S == {d \in Nat : \E f : IsPaths(f, leaves, d)}
<1>1. 0 \in S
  <2>1. Descent(0) = {}
    BY DEF Descent
  <2>2. IsPaths([t \in Descent(0) |-> t], leaves, 0)
    BY <2>1 DEF IsPaths
  <2> QED BY <2>2
<1>2. ASSUME NEW d \in Nat, d \in S
      PROVE  d + 1 \in S
  <2>1. PICK f : IsPaths(f, leaves, d)
    BY <1>2
  <2> DEFINE g == [t \in Descent(d + 1) |-> PathStep(f, leaves, t)]
  <2>2. \A t \in Descent(d) : t \in Descent(d + 1)
    BY DEF Descent
  <2>3. \A t \in Descent(d) : f[t] = PathStep(f, leaves, t)
    BY <2>1 DEF IsPaths
  <2>4. \A t \in Descent(d) : f[t] = g[t]
    BY <2>2, <2>3
  <2> HIDE DEF g
  <2>5. \A t \in Descent(d + 1) : PathStep(f, leaves, t) = PathStep(g, leaves, t)
    BY <2>4, DescentsGoDown DEF PathStep
  <2>6. IsPaths(g, leaves, d + 1)
    BY <2>5 DEF IsPaths, g
  <2> QED BY <2>6
<1>3. \A d \in Nat : d \in S
  <2> HIDE DEF S
  <2> QED BY <1>1, <1>2, Induction
<1> QED BY <1>3

(* The path of leaf m in the tree over n leaves from lo on. *)
Path(m, leaves, lo, n) == PathRec(m, leaves, lo, lo + n)

LEMMA PathsAre ==
    ASSUME NEW leaves, Len(leaves) \in Nat
    PROVE  \E path : /\ path = [t \in Descent(Len(leaves)) |-> PathStep(path, leaves, t)]
                     /\ \A i : \A first \in Nat, size \in Nat :
                          Path(i, leaves, first, size) = path[PathAt(i, first, size)]
<1> DEFINE path[t \in [m : Nat, lo : Nat, n : 1..Len(leaves)]] ==
             IF t.n = 1
             THEN <<>>
             ELSE IF t.m < LargestPowerOfTwoBelow(t.n)
                  THEN Append(path[[m |-> t.m, lo |-> t.lo, n |-> LargestPowerOfTwoBelow(t.n)]],
                              SubtreeRoot(leaves, t.lo + LargestPowerOfTwoBelow(t.n), t.lo + t.n))
                  ELSE Append(path[[m |-> t.m - LargestPowerOfTwoBelow(t.n),
                                    lo |-> t.lo + LargestPowerOfTwoBelow(t.n),
                                    n |-> t.n - LargestPowerOfTwoBelow(t.n)]],
                              SubtreeRoot(leaves, t.lo, t.lo + LargestPowerOfTwoBelow(t.n)))
<1>1. PICK f : IsPaths(f, leaves, Len(leaves))
  BY PathsExist
<1>2. f = [t \in [m : Nat, lo : Nat, n : 1..Len(leaves)] |->
             IF t.n = 1
             THEN <<>>
             ELSE IF t.m < LargestPowerOfTwoBelow(t.n)
                  THEN Append(f[[m |-> t.m, lo |-> t.lo, n |-> LargestPowerOfTwoBelow(t.n)]],
                              SubtreeRoot(leaves, t.lo + LargestPowerOfTwoBelow(t.n), t.lo + t.n))
                  ELSE Append(f[[m |-> t.m - LargestPowerOfTwoBelow(t.n),
                                 lo |-> t.lo + LargestPowerOfTwoBelow(t.n),
                                 n |-> t.n - LargestPowerOfTwoBelow(t.n)]],
                              SubtreeRoot(leaves, t.lo, t.lo + LargestPowerOfTwoBelow(t.n)))]
  BY <1>1 DEF IsPaths, PathStep, Descent, AtLeft, AtRight, PathAt
<1>3. path = [t \in [m : Nat, lo : Nat, n : 1..Len(leaves)] |->
                IF t.n = 1
                THEN <<>>
                ELSE IF t.m < LargestPowerOfTwoBelow(t.n)
                     THEN Append(path[[m |-> t.m, lo |-> t.lo, n |-> LargestPowerOfTwoBelow(t.n)]],
                                 SubtreeRoot(leaves, t.lo + LargestPowerOfTwoBelow(t.n), t.lo + t.n))
                     ELSE Append(path[[m |-> t.m - LargestPowerOfTwoBelow(t.n),
                                       lo |-> t.lo + LargestPowerOfTwoBelow(t.n),
                                       n |-> t.n - LargestPowerOfTwoBelow(t.n)]],
                                 SubtreeRoot(leaves, t.lo, t.lo + LargestPowerOfTwoBelow(t.n)))]
  BY <1>2
<1>4. \A i, first, last : PathRec(i, leaves, first, last) = path[PathAt(i, first, last - first)]
  BY DEF PathRec, PathAt
<1> HIDE DEF path
<1>5. path = [t \in Descent(Len(leaves)) |-> PathStep(path, leaves, t)]
  BY <1>3 DEF PathStep, Descent, AtLeft, AtRight, PathAt
<1>6. \A i : \A first \in Nat, size \in Nat :
        Path(i, leaves, first, size) = path[PathAt(i, first, size)]
  <2>1. \A first \in Nat, size \in Nat : (first + size) - first = size
    OBVIOUS
  <2> QED BY <1>4, <2>1 DEF Path
<1> QED BY <1>5, <1>6

LEMMA PathAlone ==
    ASSUME NEW L, Len(L) \in Nat, NEW m \in Nat, NEW lo \in Nat, Len(L) >= 1
    PROVE  Path(m, L, lo, 1) = <<>>
<1>1. PICK path : /\ path = [t \in Descent(Len(L)) |-> PathStep(path, L, t)]
                  /\ \A i : \A first \in Nat, size \in Nat :
                       Path(i, L, first, size) = path[PathAt(i, first, size)]
  BY PathsAre
<1>2. PathAt(m, lo, 1) \in Descent(Len(L)) /\ PathAt(m, lo, 1).n = 1
  BY DescentsAreTriples
<1>3. Path(m, L, lo, 1) = PathStep(path, L, PathAt(m, lo, 1))
  BY <1>1, <1>2
<1> QED BY <1>2, <1>3 DEF PathStep

(* A tree of two leaves or more, split at k. *)
Splits(L, n, k) == n \in 1..Len(L) /\ n # 1 /\ k = LargestPowerOfTwoBelow(n)

LEMMA SplitSizes ==
    ASSUME NEW L, Len(L) \in Nat, NEW n \in Nat, NEW k, Splits(L, n, k)
    PROVE  /\ k \in Nat /\ 1 <= k /\ k < n /\ n - k \in Nat /\ 1 <= n - k /\ n - k < n
           /\ k \in 1..Len(L) /\ n - k \in 1..Len(L) /\ n \in 1..Len(L)
           /\ \A lo \in Nat : lo + k \in Nat /\ (lo + k) + (n - k) = lo + n
<1>1. n \in 1..Len(L) /\ n >= 2 /\ k = LargestPowerOfTwoBelow(n)
  BY DEF Splits
<1>2. k \in Nat /\ 1 <= k /\ k < n
  BY <1>1, LargestBelow DEF Pos
<1> QED BY <1>1, <1>2

LEMMA PathDown ==
    ASSUME NEW L, Len(L) \in Nat, NEW m \in Nat, NEW lo \in Nat, NEW n \in Nat, NEW k \in Nat,
           Splits(L, n, k)
    PROVE  /\ m < k => Path(m, L, lo, n) = Add(Path(m, L, lo, k), Root(L, lo + k, n - k))
           /\ ~(m < k) => Path(m, L, lo, n) = Add(Path(m - k, L, lo + k, n - k), Root(L, lo, k))
<1>1. PICK path : /\ path = [t \in Descent(Len(L)) |-> PathStep(path, L, t)]
                  /\ \A i : \A first \in Nat, size \in Nat :
                       Path(i, L, first, size) = path[PathAt(i, first, size)]
  BY PathsAre
<1> DEFINE t == PathAt(m, lo, n)
<1>2. /\ t \in Descent(Len(L)) /\ t.m = m /\ t.lo = lo /\ t.n = n
      /\ n # 1 /\ k = LargestPowerOfTwoBelow(n)
  BY DescentsAreTriples DEF Splits
<1>3. Path(m, L, lo, n) = PathStep(path, L, t)
  BY <1>1, <1>2
<1>4. AtLeft(t) = PathAt(m, lo, k) /\ AtRight(t) = PathAt(m - k, lo + k, n - k)
  BY <1>2 DEF AtLeft, AtRight
<1> HIDE DEF t
<1>5. /\ Path(m, L, lo, k) = path[AtLeft(t)]
      /\ Path(m - k, L, lo + k, n - k) = path[AtRight(t)]
  <2>1. lo + k \in Nat /\ n - k \in Nat
    BY SplitSizes
  <2>2. \A i : \A first \in Nat, size \in Nat : Path(i, L, first, size) = path[PathAt(i, first, size)]
    BY <1>1
  <2>3. Path(m, L, lo, k) = path[PathAt(m, lo, k)]
    BY <2>2
  <2>4. Path(m - k, L, lo + k, n - k) = path[PathAt(m - k, lo + k, n - k)]
    BY <2>1, <2>2
  <2> QED BY <1>4, <2>3, <2>4
<1>6. /\ Root(L, lo + k, n - k) = SubtreeRoot(L, lo + k, lo + n)
      /\ Root(L, lo, k) = SubtreeRoot(L, lo, lo + k)
  BY SplitSizes DEF Root
<1>7. ASSUME m < k
      PROVE  PathStep(path, L, t) = Add(path[AtLeft(t)], SubtreeRoot(L, lo + k, lo + n))
  BY <1>2, <1>7 DEF PathStep, Add
<1>8. ASSUME ~(m < k)
      PROVE  PathStep(path, L, t) = Add(path[AtRight(t)], SubtreeRoot(L, lo, lo + k))
  BY <1>2, <1>8 DEF PathStep, Add
<1> QED BY <1>3, <1>5, <1>6, <1>7, <1>8

LEMMA PathGrows ==
    ASSUME NEW L, Len(L) \in Nat, NEW m \in Nat, NEW lo \in Nat, NEW n \in Nat, NEW k \in Nat,
           Splits(L, n, k),
           IsSequence(Path(m, L, lo, k)),
           ~(m < k) => IsSequence(Path(m - k, L, lo + k, n - k))
    PROVE  IsSequence(Path(m, L, lo, n)) /\ Path(m, L, lo, n) # <<>>
<1>1. CASE m < k
  <2>1. Path(m, L, lo, n) = Add(Path(m, L, lo, k), Root(L, lo + k, n - k))
    BY <1>1, PathDown
  <2> QED BY <2>1, AddLaws
<1>2. CASE ~(m < k)
  <2>1. Path(m, L, lo, n) = Add(Path(m - k, L, lo + k, n - k), Root(L, lo, k))
    BY <1>2, PathDown
  <2> QED BY <1>2, <2>1, AddLaws
<1> QED BY <1>1, <1>2

LEMMA PathIsSequence ==
    ASSUME NEW L, Len(L) \in Nat
    PROVE  \A n \in Nat : \A m \in Nat, lo \in Nat : n \in 1..Len(L) =>
             /\ IsSequence(Path(m, L, lo, n))
             /\ n # 1 => Path(m, L, lo, n) # <<>>
<1> DEFINE S == {n \in Nat : \A m \in Nat, lo \in Nat : n \in 1..Len(L) =>
                               /\ IsSequence(Path(m, L, lo, n))
                               /\ n # 1 => Path(m, L, lo, n) # <<>>}
<1>1. ASSUME NEW n \in Nat, \A i \in Nat : i < n => i \in S
      PROVE  n \in S
  <2> SUFFICES ASSUME NEW m \in Nat, NEW lo \in Nat, n \in 1..Len(L)
               PROVE  /\ IsSequence(Path(m, L, lo, n))
                      /\ n # 1 => Path(m, L, lo, n) # <<>>
    OBVIOUS
  <2>1. CASE n = 1
    BY <2>1, PathAlone, NothingIsSequence
  <2>2. CASE n # 1
    <3>1. PICK k \in Nat : Splits(L, n, k)
      BY <2>2, LargestBelow DEF Splits, Pos
    <3>2. k \in Nat /\ k < n /\ n - k \in Nat /\ n - k < n /\ lo + k \in Nat
      BY <3>1, SplitSizes
    <3>9. k \in 1..Len(L) /\ n - k \in 1..Len(L)
      BY <3>1, SplitSizes
    <3>3. IsSequence(Path(m, L, lo, k))
      BY <1>1, <3>2, <3>9
    <3>4. ~(m < k) => IsSequence(Path(m - k, L, lo + k, n - k))
      <4>1. ~(m < k) => m - k \in Nat
        BY <3>2
      <4> QED BY <1>1, <3>2, <3>9, <4>1
    <3> QED BY <3>1, <3>3, <3>4, PathGrows
  <2> QED BY <2>1, <2>2
<1>2. \A n \in Nat : n \in S
  <2> HIDE DEF S
  <2> QED BY <1>1, StrongInduction
<1> QED BY <1>2
(* The split of a tree and of the level above its leaves. *)
LEMMA SplitsHalved ==
    ASSUME NEW L, Len(L) \in Nat, NEW lo \in Nat, NEW n \in Nat, n >= 3, Lifts(L, lo, n)
    PROVE  \E h \in Nat : /\ h >= 1 /\ h * 2 < n
                          /\ Splits(L, n, h * 2) /\ Splits(PairUp(L), (n + 1) \div 2, h)
                          /\ Lifts(L, lo, h * 2) /\ Lifts(L, lo + h * 2, n - h * 2)
<1> DEFINE half == (n + 1) \div 2
           h == LargestPowerOfTwoBelow(half)
<1>1. lo % 2 = 0 /\ lo + n <= Len(L) /\ (n % 2 = 0 \/ lo + n = Len(L))
  BY DEF Lifts
<1>2. half \in Nat /\ half >= 2 /\ half # 1 /\ half \in 1..Len(PairUp(L))
  BY <1>1, PairUpLen
<1>3. LargestPowerOfTwoBelow(n) = h * 2
  BY LargestHalved
<1> HIDE DEF half
<1>4. h \in Nat /\ h >= 1
  BY <1>2, LargestBelow DEF Pos
<1>5. h * 2 < n
  BY <1>3, LargestBelow
<1> HIDE DEF h
<1>6. Splits(L, n, h * 2)
  BY <1>1, <1>3 DEF Splits
<1>7. Splits(PairUp(L), half, h)
  BY <1>2 DEF Splits, h
<1>8. Lifts(L, lo, h * 2) /\ Lifts(L, lo + h * 2, n - h * 2)
  BY <1>1, <1>4, <1>5 DEF Lifts
<1> QED BY <1>4, <1>5, <1>6, <1>7, <1>8 DEF half

(* The sibling of leaf m among n leaves from lo on: none for a last one    *)
(* that is even.                                                           *)
Sibling(m, leaves, lo, n) ==
    IF m % 2 = 1 THEN One(leaves[lo + m])
    ELSE IF m = n - 1 THEN <<>> ELSE One(leaves[lo + m + 2])

LEMMA SiblingIsSequence ==
    ASSUME NEW m, NEW L, NEW lo, NEW n
    PROVE  IsSequence(Sibling(m, L, lo, n))
<1>1. CASE m % 2 = 1
  BY <1>1, OneLaws DEF Sibling
<1>2. CASE m % 2 # 1 /\ m = n - 1
  BY <1>2, NothingIsSequence DEF Sibling
<1>3. CASE m % 2 # 1 /\ m # n - 1
  BY <1>3, OneLaws DEF Sibling
<1> QED BY <1>1, <1>2, <1>3

(* The path of a leaf is its sibling, if it has one, and the path of their *)
(* parent on the level above.                                              *)
PathLifts(L, m, lo, n) ==
    Path(m, L, lo, n) =
      Joined(Sibling(m, L, lo, n), Path(m \div 2, PairUp(L), lo \div 2, (n + 1) \div 2))

LEMMA PathOneUpSmall ==
    ASSUME NEW L, Len(L) \in Nat, NEW m \in Nat, NEW lo \in Nat, NEW n \in Nat,
           m < n, n <= 2, Lifts(L, lo, n)
    PROVE  PathLifts(L, m, lo, n)
<1>1. lo % 2 = 0 /\ lo + n <= Len(L) /\ Len(L) >= 1 /\ n \in 1..Len(L)
  BY DEF Lifts
<1>2. Len(PairUp(L)) \in Nat /\ Len(PairUp(L)) >= 1
  BY <1>1, PairUpLen
<1>3. (n + 1) \div 2 = 1 /\ m \div 2 \in Nat /\ lo \div 2 \in Nat
  OBVIOUS
<1>4. Path(m \div 2, PairUp(L), lo \div 2, (n + 1) \div 2) = <<>>
  <2>1. \A i \in Nat, from \in Nat : Path(i, PairUp(L), from, 1) = <<>>
    BY <1>2, PathAlone
  <2> QED BY <1>3, <2>1
<1>5. Path(m, L, lo, n) = Sibling(m, L, lo, n)
  <2>1. CASE n = 1
    <3>1. Sibling(m, L, lo, n) = <<>>
      BY <2>1 DEF Sibling
    <3> QED BY <1>1, <2>1, <3>1, PathAlone
  <2>2. CASE n = 2
    <3>1. Splits(L, n, 1)
      BY <1>1, <2>2, LargestBelowTwo DEF Splits
    <3>2. 1 \in 1..Len(L) /\ lo + 1 \in Nat /\ (lo + 1) + 1 = lo + 2 /\ n - 1 = 1
      BY <1>1, <2>2
    <3>3. Root(L, lo, 1) = L[lo + 1] /\ Root(L, lo + 1, 1) = L[lo + 2]
      BY <3>2, RootUnfolds
    <3>4. Path(0, L, lo, 1) = <<>> /\ Path(0, L, lo + 1, 1) = <<>>
      BY <1>1, <3>2, PathAlone
    <3>5. CASE m = 0
      <4>1. Sibling(m, L, lo, n) = One(L[lo + 2])
        BY <2>2, <3>5 DEF Sibling
      <4>2. Path(m, L, lo, n) = Add(Path(0, L, lo, 1), Root(L, lo + 1, 1))
        BY <3>1, <3>2, <3>5, PathDown
      <4> QED BY <3>3, <3>4, <4>1, <4>2, OneLaws
    <3>6. CASE m = 1
      <4>1. Sibling(m, L, lo, n) = One(L[lo + 1])
        BY <3>6 DEF Sibling
      <4>2. Path(m, L, lo, n) = Add(Path(0, L, lo + 1, 1), Root(L, lo, 1))
        <5>1. ~(m < 1) /\ m - 1 = 0
          BY <3>6
        <5>2. Path(m, L, lo, n) = Add(Path(m - 1, L, lo + 1, n - 1), Root(L, lo, 1))
          BY <3>1, <5>1, PathDown
        <5> QED BY <3>2, <5>1, <5>2
      <4> QED BY <3>3, <3>4, <4>1, <4>2, OneLaws
    <3> QED BY <2>2, <3>5, <3>6
  <2> QED BY <1>1, <2>1, <2>2
<1> QED BY <1>4, <1>5, SiblingIsSequence, JoinedNothing DEF PathLifts
LEMMA LiftSplits ==
    ASSUME NEW L, Len(L) \in Nat, NEW lo \in Nat, NEW n \in Nat, NEW h \in Nat,
           h >= 1, h * 2 < n, Lifts(L, lo, n)
    PROVE  /\ lo \div 2 \in Nat /\ (lo + h * 2) \div 2 = (lo \div 2) + h
           /\ (h * 2 + 1) \div 2 = h /\ (n - h * 2 + 1) \div 2 = ((n + 1) \div 2) - h
           /\ \A m \in Nat : /\ m \div 2 \in Nat /\ ((m \div 2) < h <=> m < h * 2)
                             /\ ~(m < h * 2) => (m - h * 2) \div 2 = (m \div 2) - h
<1>1. lo % 2 = 0
  BY DEF Lifts
<1> QED BY <1>1

LEMMA SiblingStays ==
    ASSUME NEW L, NEW m \in Nat, NEW lo \in Nat, NEW n \in Nat, NEW k \in Nat,
           k % 2 = 0, k < n, m < k
    PROVE  Sibling(m, L, lo, k) = Sibling(m, L, lo, n)
<1>1. m % 2 = 0 => m # k - 1 /\ m # n - 1
  OBVIOUS
<1>2. m % 2 = 1 \/ m % 2 = 0
  OBVIOUS
<1> QED BY <1>1, <1>2 DEF Sibling

(* A path and the one above it, when they agree in the subtree they enter. *)
LevelsMeet(L, m, lo, n, k, P, up, from, half, h, s) ==
    /\ Splits(L, n, k) /\ Splits(P, half, h)
    /\ up < h <=> m < k
    /\ Root(L, lo, k) = Root(P, from, h)
    /\ Root(L, lo + k, n - k) = Root(P, from + h, half - h)
    /\ IsSequence(s)
    /\ m < k => Path(m, L, lo, k) = Joined(s, Path(up, P, from, h))
    /\ ~(m < k) => Path(m - k, L, lo + k, n - k) = Joined(s, Path(up - h, P, from + h, half - h))

LEMMA PathTogether ==
    ASSUME NEW L, NEW m, NEW lo, NEW n, NEW k, NEW P, NEW up, NEW from, NEW half, NEW h, NEW s,
           LevelsMeet(L, m, lo, n, k, P, up, from, half, h, s),
           Len(L) \in Nat, Len(P) \in Nat,
           m \in Nat, lo \in Nat, n \in Nat, k \in Nat,
           up \in Nat, from \in Nat, half \in Nat, h \in Nat
    PROVE  Path(m, L, lo, n) = Joined(s, Path(up, P, from, half))
<1> USE DEF LevelsMeet
<1>1. CASE m < k
  <2>1. Path(m, L, lo, n) = Add(Path(m, L, lo, k), Root(L, lo + k, n - k))
    BY <1>1, PathDown
  <2>2. Path(up, P, from, half) = Add(Path(up, P, from, h), Root(P, from + h, half - h))
    BY <1>1, PathDown
  <2>3. IsSequence(Path(up, P, from, h))
    <3>1. h \in 1..Len(P)
      BY SplitSizes
    <3> QED BY <3>1, PathIsSequence
  <2> QED BY <1>1, <2>1, <2>2, <2>3, AddJoined
<1>2. CASE ~(m < k)
  <2>1. Path(m, L, lo, n) = Add(Path(m - k, L, lo + k, n - k), Root(L, lo, k))
    BY <1>2, PathDown
  <2>2. Path(up, P, from, half) = Add(Path(up - h, P, from + h, half - h), Root(P, from, h))
    BY <1>2, PathDown
  <2>3. IsSequence(Path(up - h, P, from + h, half - h))
    <3>1. half - h \in 1..Len(P) /\ half - h \in Nat /\ from + h \in Nat /\ up - h \in Nat
      BY <1>2, SplitSizes
    <3> QED BY <3>1, PathIsSequence
  <2> QED BY <1>2, <2>1, <2>2, <2>3, AddJoined
<1> QED BY <1>1, <1>2

LEMMA PathOneUpLarge ==
    ASSUME NEW L, Len(L) \in Nat, NEW m \in Nat, NEW lo \in Nat, NEW n \in Nat,
           m < n, n >= 3, Lifts(L, lo, n),
           \A i \in Nat : i < n => \A j \in Nat, from \in Nat :
             j < i /\ Lifts(L, from, i) => PathLifts(L, j, from, i)
    PROVE  PathLifts(L, m, lo, n)
<1>1. PICK h \in Nat : /\ h >= 1 /\ h * 2 < n
                       /\ Splits(L, n, h * 2) /\ Splits(PairUp(L), (n + 1) \div 2, h)
                       /\ Lifts(L, lo, h * 2) /\ Lifts(L, lo + h * 2, n - h * 2)
  BY SplitsHalved
<1>2. /\ lo \div 2 \in Nat /\ (lo + h * 2) \div 2 = (lo \div 2) + h
      /\ (h * 2 + 1) \div 2 = h /\ (n - h * 2 + 1) \div 2 = ((n + 1) \div 2) - h
      /\ m \div 2 \in Nat /\ ((m \div 2) < h <=> m < h * 2)
      /\ ~(m < h * 2) => (m - h * 2) \div 2 = (m \div 2) - h
  BY <1>1, LiftSplits
<1>3. PICK k \in Nat, up \in Nat, from \in Nat, half \in Nat :
        k = h * 2 /\ up = m \div 2 /\ from = lo \div 2 /\ half = (n + 1) \div 2
  BY <1>2
<1>4. PICK first \in Nat, rest \in Nat, top \in Nat, top2 \in Nat :
        first = lo + k /\ rest = n - k /\ top = from + h /\ top2 = half - h
  <2>1. half - h \in Nat
    BY <1>1, <1>2, <1>3
  <2> QED BY <1>1, <1>3, <2>1
<1>5. /\ k >= 1 /\ k < n /\ k % 2 = 0 /\ rest >= 1 /\ rest < n
      /\ first \div 2 = top /\ (k + 1) \div 2 = h /\ (rest + 1) \div 2 = top2
      /\ (up < h <=> m < k)
  BY <1>1, <1>2, <1>3, <1>4
<1>6. PICK P : P = PairUp(L)
  OBVIOUS
<1>7. /\ Splits(L, n, k) /\ Splits(P, half, h) /\ Lifts(L, lo, k) /\ Lifts(L, first, rest)
      /\ Len(P) \in Nat
  BY <1>1, <1>3, <1>4, <1>6, PairUpLen
<1>8. Root(L, lo, k) = Root(P, from, h)
  BY <1>3, <1>5, <1>6, <1>7, RootOneUp
<1>9. Root(L, first, rest) = Root(P, top, top2)
  BY <1>5, <1>6, <1>7, RootOneUp
<1>10. PICK s : s = Sibling(m, L, lo, n)
  OBVIOUS
<1>11. ASSUME m < k
       PROVE  Path(m, L, lo, k) = Joined(s, Path(up, P, from, h))
  <2>1. PathLifts(L, m, lo, k)
    BY <1>5, <1>7, <1>11
  <2>2. Sibling(m, L, lo, k) = s
    BY <1>5, <1>10, <1>11, SiblingStays
  <2> QED BY <1>3, <1>5, <1>6, <2>1, <2>2 DEF PathLifts
<1>12. ASSUME ~(m < k)
       PROVE  Path(m - k, L, first, rest) = Joined(s, Path(up - h, P, top, top2))
  <2>1. PICK i \in Nat : i = m - k
    BY <1>12
  <2>2. PathLifts(L, i, first, rest)
    <3>1. i < rest
      BY <1>4, <2>1
    <3> QED BY <1>5, <1>7, <3>1
  <2>3. Sibling(i, L, first, rest) = s
    <3>1. k % 2 = 0 /\ k < n /\ i = m - k /\ first = lo + k /\ rest = n - k
      BY <1>4, <1>5, <2>1
    <3>2. /\ i % 2 = m % 2 /\ (i = rest - 1 <=> m = n - 1)
          /\ first + i = lo + m /\ first + i + 2 = lo + m + 2
      BY <3>1
    <3> QED BY <1>10, <3>2 DEF Sibling
  <2>4. i \div 2 = up - h
    BY <1>2, <1>3, <1>12, <2>1
  <2> QED BY <1>5, <1>6, <2>1, <2>2, <2>3, <2>4 DEF PathLifts
<1>13. IsSequence(s)
  BY <1>10, SiblingIsSequence
<1>14. Path(m, L, lo, n) = Joined(s, Path(up, P, from, half))
  <2>1. LevelsMeet(L, m, lo, n, k, P, up, from, half, h, s)
    BY <1>4, <1>5, <1>7, <1>8, <1>9, <1>11, <1>12, <1>13 DEF LevelsMeet
  <2> QED BY <1>7, <2>1, PathTogether
<1> QED BY <1>3, <1>6, <1>10, <1>14 DEF PathLifts

(* The induction over the sizes. *)
LEMMA PathOneUp ==
    ASSUME NEW L, Len(L) \in Nat
    PROVE  \A n \in Nat : \A m \in Nat, lo \in Nat :
             m < n /\ Lifts(L, lo, n) => PathLifts(L, m, lo, n)
<1> DEFINE S == {n \in Nat : \A m \in Nat, lo \in Nat :
                               m < n /\ Lifts(L, lo, n) => PathLifts(L, m, lo, n)}
<1>1. ASSUME NEW n \in Nat, \A i \in Nat : i < n => i \in S
      PROVE  n \in S
  <2> SUFFICES ASSUME NEW m \in Nat, NEW lo \in Nat, m < n, Lifts(L, lo, n)
               PROVE  PathLifts(L, m, lo, n)
    OBVIOUS
  <2>1. CASE n <= 2
    BY <2>1, PathOneUpSmall
  <2>2. CASE n >= 3
    BY <1>1, <2>2, PathOneUpLarge
  <2> QED BY <2>1, <2>2
<1>2. \A n \in Nat : n \in S
  <2> HIDE DEF S
  <2> QED BY <1>1, StrongInduction
<1> QED BY <1>2
-----------------------------------------------------------------------------
(* Walks along an inclusion path.                                          *)

AuditSteps(f, start, q, d) ==
    f = [i \in 0..d |-> IF i = 0 THEN start ELSE JoinAudit(f[i - 1], q[i])]

LEMMA AuditStepsExist == ASSUME NEW start, NEW q PROVE \A d \in Nat : \E f : AuditSteps(f, start, q, d)
<1> DEFINE S == {d \in Nat : \E f : AuditSteps(f, start, q, d)}
<1>1. 0 \in S
  <2>1. AuditSteps([i \in 0..0 |-> start], start, q, 0)
    BY DEF AuditSteps
  <2> QED BY <2>1
<1>2. ASSUME NEW d \in Nat, d \in S
      PROVE  d + 1 \in S
  <2>1. PICK f : AuditSteps(f, start, q, d)
    BY <1>2
  <2> DEFINE g == [i \in 0..(d + 1) |-> IF i = 0 THEN start ELSE JoinAudit(f[i - 1], q[i])]
  <2>2. \A i \in 0..d : f[i] = IF i = 0 THEN start ELSE JoinAudit(f[i - 1], q[i])
    BY <2>1 DEF AuditSteps
  <2>3. \A i \in 0..d : i \in 0..(d + 1)
    OBVIOUS
  <2>4. \A i \in 0..d : g[i] = f[i]
    BY <2>2, <2>3
  <2>5. \A i \in 0..(d + 1) : i # 0 => i - 1 \in 0..d
    OBVIOUS
  <2> HIDE DEF g
  <2>6. \A i \in 0..(d + 1) : i # 0 => g[i - 1] = f[i - 1]
    BY <2>4, <2>5
  <2>7. AuditSteps(g, start, q, d + 1)
    BY <2>6 DEF AuditSteps, g
  <2> QED BY <2>7
<1>3. \A d \in Nat : d \in S
  <2> HIDE DEF S
  <2> QED BY <1>1, <1>2, Induction
<1> QED BY <1>3

LEMMA AuditWalked ==
    ASSUME NEW start, NEW q, Len(q) \in Nat
    PROVE  \E at : /\ at[0] = start
                   /\ \A i \in 1..Len(q) : at[i] = JoinAudit(at[i - 1], q[i])
                   /\ WalkAudit(start, q) = at[Len(q)]
<1> DEFINE at[i \in 0..Len(q)] == IF i = 0 THEN start ELSE JoinAudit(at[i - 1], q[i])
<1>1. \E f : f = [i \in 0..Len(q) |-> IF i = 0 THEN start ELSE JoinAudit(f[i - 1], q[i])]
  <2> HIDE DEF at
  <2>1. PICK f : AuditSteps(f, start, q, Len(q))
    BY AuditStepsExist
  <2> QED BY <2>1 DEF AuditSteps
<1>2. at = [i \in 0..Len(q) |-> IF i = 0 THEN start ELSE JoinAudit(at[i - 1], q[i])]
  BY <1>1
<1>3. WalkAudit(start, q) = at[Len(q)]
  BY DEF WalkAudit
<1> HIDE DEF at
<1>4. at[0] = start /\ \A i \in 1..Len(q) : at[i] = JoinAudit(at[i - 1], q[i])
  BY <1>2
<1> QED BY <1>3, <1>4

LEMMA WalkNothing == ASSUME NEW start PROVE WalkAudit(start, <<>>) = start
<1>1. PICK at : /\ at[0] = start
                /\ WalkAudit(start, <<>>) = at[Len(<<>>)]
  BY NothingIsSequence, AuditWalked
<1> QED BY <1>1, NothingIsSequence

LEMMA FirstAndRestAt ==
    ASSUME NEW x, NEW s, IsSequence(s)
    PROVE  /\ Len(s) \in Nat /\ Len(Joined(One(x), s)) = Len(s) + 1
           /\ Joined(One(x), s)[1] = x
           /\ \A i \in 1..Len(s) : Joined(One(x), s)[i + 1] = s[i]
<1>1. PICK t : t = Joined(One(x), s)
  OBVIOUS
<1>2. t # <<>> /\ Head(t) = x /\ Tail(t) = s
  BY <1>1, FirstAndRestOf
<1>3. IsSequence(t)
  BY <1>1, JoinedLaws, OneLaws
<1>4. /\ Len(t) \in Nat /\ Len(t) >= 1 /\ Len(s) = Len(t) - 1 /\ t[1] = x
      /\ \A i \in 1..(Len(t) - 1) : s[i] = t[i + 1]
  BY <1>2, <1>3, HeadAndTail
<1> QED BY <1>1, <1>4

LEMMA WalkFirst ==
    ASSUME NEW start, NEW p, NEW q, IsSequence(q)
    PROVE  WalkAudit(start, Joined(One(p), q)) = WalkAudit(JoinAudit(start, p), q)
<1>1. PICK t : t = Joined(One(p), q)
  OBVIOUS
<1>2. /\ Len(q) \in Nat /\ Len(t) = Len(q) + 1 /\ t[1] = p
      /\ \A i \in 1..Len(q) : t[i + 1] = q[i]
  BY <1>1, FirstAndRestAt
<1>3. PICK f : /\ f[0] = start
               /\ \A i \in 1..Len(t) : f[i] = JoinAudit(f[i - 1], t[i])
               /\ WalkAudit(start, t) = f[Len(t)]
  BY <1>2, AuditWalked
<1>4. PICK g : /\ g[0] = JoinAudit(start, p)
               /\ \A i \in 1..Len(q) : g[i] = JoinAudit(g[i - 1], q[i])
               /\ WalkAudit(JoinAudit(start, p), q) = g[Len(q)]
  BY <1>2, AuditWalked
<1> DEFINE S == {i \in Nat : i <= Len(q) => g[i] = f[i + 1]}
<1>5. 0 \in S
  <2>1. 1 \in 1..Len(t) /\ 1 - 1 = 0 /\ 0 + 1 = 1
    BY <1>2
  <2>2. f[1] = JoinAudit(f[1 - 1], t[1])
    BY <1>3, <2>1
  <2> QED BY <1>2, <1>3, <1>4, <2>1, <2>2
<1>6. ASSUME NEW i \in Nat, i \in S
      PROVE  i + 1 \in S
  <2> SUFFICES ASSUME i + 1 <= Len(q)
               PROVE  g[i + 1] = f[(i + 1) + 1]
    OBVIOUS
  <2>1. i + 1 \in 1..Len(q) /\ (i + 1) + 1 \in 1..Len(t) /\ ((i + 1) + 1) - 1 = i + 1
        /\ (i + 1) - 1 = i /\ i <= Len(q)
    BY <1>2
  <2>2. g[i + 1] = JoinAudit(g[i], q[i + 1])
    BY <1>4, <2>1
  <2>3. f[(i + 1) + 1] = JoinAudit(f[i + 1], t[(i + 1) + 1])
    BY <1>3, <2>1
  <2>4. t[(i + 1) + 1] = q[i + 1]
    BY <1>2, <2>1
  <2>5. g[i] = f[i + 1]
    BY <1>6, <2>1
  <2> QED BY <2>2, <2>3, <2>4, <2>5
<1>7. \A i \in Nat : i \in S
  <2> HIDE DEF S
  <2> QED BY <1>5, <1>6, Induction
<1>8. g[Len(q)] = f[Len(q) + 1]
  BY <1>2, <1>7
<1> QED BY <1>1, <1>2, <1>3, <1>4, <1>8
AuditState(fn, sn, r) == [ok |-> TRUE, fn |-> fn, sn |-> sn, r |-> r]

(* A walk that has had one hash too many stays so. *)
LEMMA BrokenStays == ASSUME NEW at, NEW p, ~at.ok PROVE ~JoinAudit(at, p).ok
BY DEF JoinAudit

LEMMA TopBreaks == ASSUME NEW fn, NEW r, NEW p PROVE ~JoinAudit(AuditState(fn, 0, r), p).ok
BY DEF JoinAudit, AuditState

LEMMA BrokenWalk ==
    ASSUME NEW start, NEW q, IsSequence(q)
    PROVE  ~start.ok => ~WalkAudit(start, q).ok
<1>1. Len(q) \in Nat
  BY JoinedNothing
<1>2. PICK at : /\ at[0] = start
                /\ \A i \in 1..Len(q) : at[i] = JoinAudit(at[i - 1], q[i])
                /\ WalkAudit(start, q) = at[Len(q)]
  BY <1>1, AuditWalked
<1> SUFFICES ASSUME ~start.ok PROVE ~WalkAudit(start, q).ok
  OBVIOUS
<1> DEFINE S == {i \in Nat : i <= Len(q) => ~at[i].ok}
<1>3. 0 \in S
  BY <1>2
<1>4. ASSUME NEW i \in Nat, i \in S
      PROVE  i + 1 \in S
  <2> SUFFICES ASSUME i + 1 <= Len(q)
               PROVE  ~at[i + 1].ok
    OBVIOUS
  <2>1. i + 1 \in 1..Len(q) /\ (i + 1) - 1 = i /\ i <= Len(q)
    BY <1>1
  <2>2. at[i + 1] = JoinAudit(at[i], q[i + 1])
    BY <1>2, <2>1
  <2> QED BY <1>4, <2>1, <2>2, BrokenStays
<1>5. \A i \in Nat : i \in S
  <2> HIDE DEF S
  <2> QED BY <1>3, <1>4, Induction
<1>6. ~at[Len(q)].ok
  BY <1>1, <1>5
<1> QED BY <1>2, <1>6

(* What a step does to the positions. *)
LEMMA ClimbOdd ==
    ASSUME NEW fn, NEW sn, NEW r, fn \in Nat, sn \in Nat, sn # 0, fn % 2 = 1, NEW p
    PROVE  JoinAudit(AuditState(fn, sn, r), p) =
             AuditState(fn \div 2, sn \div 2, HashChildren(p, r))
<1> DEFINE at == AuditState(fn, sn, r)
<1>1. Climb(at).fn = fn \div 2 /\ Climb(at).sn = sn \div 2
  BY DEF AuditState, Climb, JoinsFromLeft
<1>2. (IF JoinsFromLeft(at) THEN HashChildren(p, at.r) ELSE HashChildren(at.r, p)) = HashChildren(p, r)
  BY DEF AuditState, JoinsFromLeft
<1>3. (at.ok /\ at.sn # 0) = TRUE
  BY DEF AuditState
<1> HIDE DEF at
<1>4. JoinAudit(at, p) = [ok |-> TRUE, fn |-> fn \div 2, sn |-> sn \div 2, r |-> HashChildren(p, r)]
  BY <1>1, <1>2, <1>3, Zenon DEF JoinAudit
<1> QED BY <1>4 DEF AuditState, at

LEMMA ClimbEven ==
    ASSUME NEW fn, NEW sn, NEW r, fn \in Nat, sn \in Nat, sn # 0, fn % 2 = 0, fn # sn, NEW p
    PROVE  JoinAudit(AuditState(fn, sn, r), p) =
             AuditState(fn \div 2, sn \div 2, HashChildren(r, p))
<1> DEFINE at == AuditState(fn, sn, r)
<1>1. Climb(at).fn = fn \div 2 /\ Climb(at).sn = sn \div 2
  BY DEF AuditState, Climb, JoinsFromLeft
<1>2. (IF JoinsFromLeft(at) THEN HashChildren(p, at.r) ELSE HashChildren(at.r, p)) = HashChildren(r, p)
  BY DEF AuditState, JoinsFromLeft
<1>3. (at.ok /\ at.sn # 0) = TRUE
  BY DEF AuditState
<1> HIDE DEF at
<1>4. JoinAudit(at, p) = [ok |-> TRUE, fn |-> fn \div 2, sn |-> sn \div 2, r |-> HashChildren(r, p)]
  BY <1>1, <1>2, <1>3, Zenon DEF JoinAudit
<1> QED BY <1>4 DEF AuditState, at

(* A last node that is even has no sibling: it is its own parent.          *)
LEMMA ClimbLonely ==
    ASSUME NEW sn, NEW r, sn \in Nat, sn # 0, sn % 2 = 0, NEW p
    PROVE  JoinAudit(AuditState(sn, sn, r), p) = JoinAudit(AuditState(sn \div 2, sn \div 2, r), p)
<1> DEFINE half == sn \div 2
           at == AuditState(sn, sn, r)
           up == AuditState(half, half, r)
<1>1. half \in Nat /\ half # 0
  OBVIOUS
<1>2. ShiftWhile(0, sn, sn) = ShiftWhile(0, half, half)
  BY ShiftUnfolds
<1>3. Climb(at) = [fn |-> ShiftWhile(0, half, half).fn \div 2,
                   sn |-> ShiftWhile(0, half, half).sn \div 2]
  BY <1>2 DEF Climb, JoinsFromLeft, AuditState, ShiftWhileEven
<1>4. Climb(up) = [fn |-> ShiftWhile(0, half, half).fn \div 2,
                   sn |-> ShiftWhile(0, half, half).sn \div 2]
  <2> HIDE DEF half
  <2>1. CASE half % 2 = 0
    BY <2>1 DEF Climb, JoinsFromLeft, AuditState, ShiftWhileEven
  <2>2. CASE half % 2 # 0
    <3>1. ShiftWhile(0, half, half) = [fn |-> half, sn |-> half]
      BY <1>1, <2>2, ShiftUnfolds
    <3> QED BY <2>2, <3>1 DEF Climb, JoinsFromLeft, AuditState
  <2> QED BY <2>1, <2>2
<1>5. JoinsFromLeft(at) /\ JoinsFromLeft(up)
  BY DEF JoinsFromLeft, AuditState
<1> HIDE DEF half
<1>6. /\ JoinAudit(at, p) = [ok |-> TRUE, fn |-> Climb(at).fn, sn |-> Climb(at).sn,
                             r |-> HashChildren(p, r)]
      /\ JoinAudit(up, p) = [ok |-> TRUE, fn |-> Climb(up).fn, sn |-> Climb(up).sn,
                             r |-> HashChildren(p, r)]
  <2>1. (at.ok /\ at.sn # 0) = TRUE /\ (up.ok /\ up.sn # 0) = TRUE /\ at.r = r /\ up.r = r
    BY <1>1 DEF AuditState
  <2> HIDE DEF at, up
  <2> QED BY <1>5, <2>1, Zenon DEF JoinAudit
<1> QED BY <1>3, <1>4, <1>6 DEF half
(* The walk from a node to the top ends there, with this root. *)
Reaches(fn, sn, r, q, root) ==
    /\ WalkAudit(AuditState(fn, sn, r), q).ok
    /\ WalkAudit(AuditState(fn, sn, r), q).sn = 0
    /\ WalkAudit(AuditState(fn, sn, r), q).r = root

LEMMA ReachesNothing ==
    ASSUME NEW fn, NEW sn, NEW r, NEW root
    PROVE  Reaches(fn, sn, r, <<>>, root) <=> sn = 0 /\ r = root
<1>1. WalkAudit(AuditState(fn, sn, r), <<>>) = AuditState(fn, sn, r)
  BY WalkNothing
<1> QED BY <1>1 DEF Reaches, AuditState

LEMMA ReachesTop ==
    ASSUME NEW fn, NEW r, NEW p, NEW q, NEW root, IsSequence(q)
    PROVE  ~Reaches(fn, 0, r, Joined(One(p), q), root)
<1>1. ~WalkAudit(JoinAudit(AuditState(fn, 0, r), p), q).ok
  BY TopBreaks, BrokenWalk
<1> QED BY <1>1, WalkFirst DEF Reaches

LEMMA ReachesOdd ==
    ASSUME NEW fn, NEW sn, NEW r, NEW p, NEW q, NEW root, IsSequence(q),
           fn \in Nat, sn \in Nat, sn # 0, fn % 2 = 1
    PROVE  Reaches(fn, sn, r, Joined(One(p), q), root)
             <=> Reaches(fn \div 2, sn \div 2, HashChildren(p, r), q, root)
<1>1. WalkAudit(AuditState(fn, sn, r), Joined(One(p), q))
        = WalkAudit(AuditState(fn \div 2, sn \div 2, HashChildren(p, r)), q)
  BY ClimbOdd, WalkFirst
<1> QED BY <1>1 DEF Reaches

LEMMA ReachesEven ==
    ASSUME NEW fn, NEW sn, NEW r, NEW p, NEW q, NEW root, IsSequence(q),
           fn \in Nat, sn \in Nat, sn # 0, fn % 2 = 0, fn # sn
    PROVE  Reaches(fn, sn, r, Joined(One(p), q), root)
             <=> Reaches(fn \div 2, sn \div 2, HashChildren(r, p), q, root)
<1>1. WalkAudit(AuditState(fn, sn, r), Joined(One(p), q))
        = WalkAudit(AuditState(fn \div 2, sn \div 2, HashChildren(r, p)), q)
  BY ClimbEven, WalkFirst
<1> QED BY <1>1 DEF Reaches

LEMMA ReachesLonely ==
    ASSUME NEW sn, NEW r, NEW q, NEW root, IsSequence(q),
           sn \in Nat, sn # 0, sn % 2 = 0
    PROVE  Reaches(sn, sn, r, q, root) <=> Reaches(sn \div 2, sn \div 2, r, q, root)
<1>1. CASE q = <<>>
  <2>1. sn \div 2 # 0
    OBVIOUS
  <2> QED BY <1>1, <2>1, ReachesNothing
<1>2. CASE q # <<>>
  <2>1. PICK p, t : IsSequence(t) /\ q = Joined(One(p), t)
    BY <1>2, HasFirstAndRest
  <2>2. WalkAudit(AuditState(sn, sn, r), q) = WalkAudit(JoinAudit(AuditState(sn, sn, r), p), t)
    BY <2>1, WalkFirst
  <2>3. WalkAudit(AuditState(sn \div 2, sn \div 2, r), q)
          = WalkAudit(JoinAudit(AuditState(sn \div 2, sn \div 2, r), p), t)
    BY <2>1, WalkFirst
  <2>4. WalkAudit(AuditState(sn, sn, r), q) = WalkAudit(AuditState(sn \div 2, sn \div 2, r), q)
    BY <2>2, <2>3, ClimbLonely
  <2> QED BY <2>4 DEF Reaches
<1> QED BY <1>1, <1>2
-----------------------------------------------------------------------------
(* Inclusion: the walk ends at the root exactly when it began with the     *)
(* leaf and followed the leaf's own path.                                  *)

TreeRoot(L) == Root(L, 0, Len(L))
TreePath(m, L) == Path(m, L, 0, Len(L))

LEMMA TreeUp ==
    ASSUME NEW L, Len(L) \in Nat, Len(L) >= 1
    PROVE  /\ Len(PairUp(L)) \in Nat /\ Len(PairUp(L)) >= 1
           /\ Len(PairUp(L)) = (Len(L) + 1) \div 2
           /\ TreeRoot(L) = TreeRoot(PairUp(L))
<1>1. Lifts(L, 0, Len(L)) /\ 0 \div 2 = 0
  BY DEF Lifts
<1>2. Len(PairUp(L)) = (Len(L) + 1) \div 2
  BY PairUpLen
<1>3. Root(L, 0, Len(L)) = Root(PairUp(L), 0, (Len(L) + 1) \div 2)
  BY <1>1, RootOneUp
<1> QED BY <1>2, <1>3 DEF TreeRoot

LEMMA TreePathUp ==
    ASSUME NEW L, NEW m, Len(L) \in Nat, m \in Nat, m < Len(L)
    PROVE  TreePath(m, L) = Joined(Sibling(m, L, 0, Len(L)), TreePath(m \div 2, PairUp(L)))
<1>1. Lifts(L, 0, Len(L)) /\ 0 \div 2 = 0
  BY DEF Lifts
<1>2. Len(PairUp(L)) = (Len(L) + 1) \div 2
  BY PairUpLen
<1>3. PathLifts(L, m, 0, Len(L))
  BY <1>1, PathOneUp
<1> QED BY <1>1, <1>2, <1>3 DEF TreePath, PathLifts

LEMMA TreePathIsSequence ==
    ASSUME NEW L, NEW m, Len(L) \in Nat, m \in Nat, Len(L) >= 1
    PROVE  IsSequence(TreePath(m, L)) /\ (Len(L) # 1 => TreePath(m, L) # <<>>)
<1>1. Len(L) \in 1..Len(L)
  OBVIOUS
<1> QED BY <1>1, PathIsSequence DEF TreePath

(* The parent of leaf m. *)
LEMMA ParentIs ==
    ASSUME NEW L, NEW m, Len(L) \in Nat, m \in Nat, m < Len(L)
    PROVE  /\ m % 2 = 1 => PairUp(L)[(m \div 2) + 1] = HashChildren(L[m], L[m + 1])
           /\ m % 2 = 0 /\ m # Len(L) - 1 =>
                PairUp(L)[(m \div 2) + 1] = HashChildren(L[m + 1], L[m + 2])
           /\ m % 2 = 0 /\ m = Len(L) - 1 => PairUp(L)[(m \div 2) + 1] = L[m + 1]
<1> DEFINE i == (m \div 2) + 1
<1>1. i \in 1..((Len(L) + 1) \div 2)
  OBVIOUS
<1>2. /\ m % 2 = 1 => 2 * i <= Len(L) /\ 2 * i - 1 = m /\ 2 * i = m + 1
      /\ m % 2 = 0 /\ m # Len(L) - 1 => 2 * i <= Len(L) /\ 2 * i - 1 = m + 1 /\ 2 * i = m + 2
      /\ m % 2 = 0 /\ m = Len(L) - 1 => ~(2 * i <= Len(L)) /\ 2 * i - 1 = m + 1
  OBVIOUS
<1> HIDE DEF i
<1>3. PairUp(L)[i] = IF 2 * i <= Len(L) THEN HashChildren(L[2 * i - 1], L[2 * i])
                                        ELSE L[2 * i - 1]
  BY <1>1 DEF PairUp
<1> QED BY <1>2, <1>3 DEF i

Included(n) ==
    \A L, m, r, q : Len(L) = n /\ m \in Nat /\ m < n /\ IsSequence(q) =>
      (Reaches(m, n - 1, r, q, TreeRoot(L)) <=> r = L[m + 1] /\ q = TreePath(m, L))

LEMMA IncludedOne == Included(1)
<1> SUFFICES ASSUME NEW L, NEW m, NEW r, NEW q, Len(L) = 1, m \in Nat, m < 1, IsSequence(q)
             PROVE  Reaches(m, 1 - 1, r, q, TreeRoot(L)) <=> r = L[m + 1] /\ q = TreePath(m, L)
  BY DEF Included
<1>1. m = 0 /\ 1 - 1 = 0 /\ Len(L) \in Nat /\ 1 \in 1..Len(L) /\ m + 1 = 1
  OBVIOUS
<1>2. TreePath(m, L) = <<>>
  BY <1>1, PathAlone DEF TreePath
<1>3. TreeRoot(L) = L[1]
  BY <1>1, RootUnfolds DEF TreeRoot
<1>4. CASE q = <<>>
  BY <1>1, <1>2, <1>3, <1>4, ReachesNothing
<1>5. CASE q # <<>>
  <2>1. PICK p, t : IsSequence(t) /\ q = Joined(One(p), t)
    BY <1>5, HasFirstAndRest
  <2> QED BY <1>1, <1>2, <1>5, <2>1, ReachesTop
<1> QED BY <1>4, <1>5
(* One level: a leaf with a sibling, on the left or on the right. *)
LEMMA IncludedSibling ==
    ASSUME NEW L, NEW m, NEW r, NEW q, NEW n, NEW up, NEW half,
           n \in Nat, n >= 2, Len(L) = n, m \in Nat, m < n, IsSequence(q),
           m % 2 = 1 \/ m # n - 1,
           half = (n + 1) \div 2, up = m \div 2,
           Included(half)
    PROVE  Reaches(m, n - 1, r, q, TreeRoot(L)) <=> r = L[m + 1] /\ q = TreePath(m, L)
<1>1. PICK P : P = PairUp(L)
  OBVIOUS
<1>2. Len(P) = half /\ TreeRoot(L) = TreeRoot(P)
  BY <1>1, TreeUp
<1>3. /\ half \in Nat /\ up \in Nat /\ up < half /\ n - 1 \in Nat /\ n - 1 # 0
      /\ (n - 1) \div 2 = half - 1
  OBVIOUS
<1>4. PICK sib : sib = IF m % 2 = 1 THEN L[m] ELSE L[m + 2]
  OBVIOUS
<1>5. Sibling(m, L, 0, n) = One(sib)
  BY <1>4 DEF Sibling
<1>6. TreePath(m, L) = Joined(One(sib), TreePath(up, P))
  BY <1>1, <1>5, TreePathUp
<1>7. IsSequence(TreePath(up, P))
  <2>1. Len(P) \in Nat /\ Len(P) >= 1
    BY <1>2, <1>3
  <2> QED BY <1>3, <2>1, TreePathIsSequence
<1>8. CASE q = <<>>
  <2>1. ~Reaches(m, n - 1, r, q, TreeRoot(L))
    BY <1>3, <1>8, ReachesNothing
  <2>2. q # TreePath(m, L)
    BY <1>6, <1>7, <1>8, FirstAndRestOf
  <2> QED BY <2>1, <2>2
<1>9. CASE q # <<>>
  <2>1. PICK p, t : IsSequence(t) /\ q = Joined(One(p), t)
    BY <1>9, HasFirstAndRest
  <2>2. q = TreePath(m, L) <=> p = sib /\ t = TreePath(up, P)
    BY <1>6, <1>7, <2>1, FirstAndRestTell
  <2>3. \A x : Reaches(up, half - 1, x, t, TreeRoot(P)) <=> x = P[up + 1] /\ t = TreePath(up, P)
    BY <1>2, <1>3, <2>1 DEF Included
  <2>4. CASE m % 2 = 1
    <3>1. Reaches(m, n - 1, r, q, TreeRoot(L))
            <=> Reaches(up, half - 1, HashChildren(p, r), t, TreeRoot(P))
      BY <1>2, <1>3, <2>1, <2>4, ReachesOdd
    <3>2. P[up + 1] = HashChildren(sib, L[m + 1])
      BY <1>1, <1>4, <2>4, ParentIs
    <3> QED BY <2>2, <2>3, <3>1, <3>2, ChildrenAreKept
  <2>5. CASE m % 2 # 1
    <3>1. m % 2 = 0 /\ m # n - 1
      BY <2>5
    <3>2. Reaches(m, n - 1, r, q, TreeRoot(L))
            <=> Reaches(up, half - 1, HashChildren(r, p), t, TreeRoot(P))
      BY <1>2, <1>3, <2>1, <3>1, ReachesEven
    <3>3. P[up + 1] = HashChildren(L[m + 1], sib)
      BY <1>1, <1>4, <2>5, <3>1, ParentIs
    <3> QED BY <2>2, <2>3, <3>2, <3>3, ChildrenAreKept
  <2> QED BY <2>4, <2>5
<1> QED BY <1>8, <1>9

LEMMA IncludedLonely ==
    ASSUME NEW L, NEW m, NEW r, NEW q, NEW n, NEW up, NEW half,
           n \in Nat, n >= 2, Len(L) = n, m \in Nat, IsSequence(q),
           m % 2 = 0, m = n - 1,
           half = (n + 1) \div 2, up = m \div 2,
           Included(half)
    PROVE  Reaches(m, n - 1, r, q, TreeRoot(L)) <=> r = L[m + 1] /\ q = TreePath(m, L)
<1>1. PICK P : P = PairUp(L)
  OBVIOUS
<1>2. Len(P) = half /\ TreeRoot(L) = TreeRoot(P)
  BY <1>1, TreeUp
<1>3. half \in Nat /\ up \in Nat /\ up < half /\ m # 0 /\ up = half - 1 /\ m < Len(L)
  OBVIOUS
<1>4. TreePath(m, L) = Joined(<<>>, TreePath(up, P))
  <2>1. Sibling(m, L, 0, n) = <<>>
    BY DEF Sibling
  <2> QED BY <1>1, <1>3, <2>1, TreePathUp
<1>5. IsSequence(TreePath(up, P))
  <2>1. Len(P) \in Nat /\ Len(P) >= 1
    BY <1>2, <1>3
  <2> QED BY <1>3, <2>1, TreePathIsSequence
<1>6. TreePath(m, L) = TreePath(up, P)
  BY <1>4, <1>5, JoinedNothing
<1>7. Reaches(m, m, r, q, TreeRoot(L)) <=> Reaches(up, up, r, q, TreeRoot(L))
  <2>1. m \in Nat /\ m # 0 /\ m % 2 = 0 /\ up = m \div 2 /\ IsSequence(q)
    BY <1>3
  <2> QED BY ONLY <2>1, ReachesLonely
<1>8. Reaches(up, half - 1, r, q, TreeRoot(P)) <=> r = P[up + 1] /\ q = TreePath(up, P)
  BY <1>2, <1>3 DEF Included
<1>9. P[up + 1] = L[m + 1]
  <2>1. /\ Len(L) \in Nat /\ m \in Nat /\ m < Len(L) /\ m % 2 = 0 /\ m = Len(L) - 1
        /\ up = m \div 2
    BY <1>3
  <2> QED BY ONLY <1>1, <2>1, ParentIs
<1> QED BY <1>2, <1>3, <1>6, <1>7, <1>8, <1>9

(* In a tree of any size, verifyInclusion's walk from a leaf ends at the   *)
(* root, at the top, exactly when the leaf hash is that of the index and   *)
(* the path is the one the generator makes.                                *)
THEOREM Inclusion == \A n \in Nat : n >= 1 => Included(n)
<1> DEFINE S == {n \in Nat : n >= 1 => Included(n)}
<1>1. ASSUME NEW n \in Nat, \A i \in Nat : i < n => i \in S
      PROVE  n \in S
  <2>1. CASE n = 0
    BY <2>1
  <2>2. CASE n = 1
    BY <2>2, IncludedOne
  <2>3. CASE n >= 2
    <3>1. PICK half \in Nat : half = (n + 1) \div 2
      OBVIOUS
    <3>2. Included(half)
      BY <1>1, <2>3, <3>1
    <3>3. ASSUME NEW L, NEW m, NEW r, NEW q, Len(L) = n, m \in Nat, m < n, IsSequence(q)
          PROVE  Reaches(m, n - 1, r, q, TreeRoot(L)) <=> r = L[m + 1] /\ q = TreePath(m, L)
      <4>1. PICK up : up = m \div 2
        OBVIOUS
      <4>2. m % 2 = 0 \/ m % 2 = 1
        BY <3>3
      <4>3. CASE m % 2 = 1 \/ m # n - 1
        BY <2>3, <3>1, <3>2, <3>3, <4>1, <4>3, IncludedSibling
      <4>4. CASE m % 2 = 0 /\ m = n - 1
        BY <2>3, <3>1, <3>2, <3>3, <4>1, <4>4, IncludedLonely
      <4> QED BY <4>2, <4>3, <4>4
    <3> QED BY <3>3 DEF Included
  <2> QED BY <2>1, <2>2, <2>3
<1>2. \A n \in Nat : n \in S
  <2> HIDE DEF S
  <2> QED BY <1>1, StrongInduction
<1> QED BY <1>2
-----------------------------------------------------------------------------
(* Walks along a consistency path: the same, with a second root.           *)

BothSteps(f, start, q, d) ==
    f = [i \in 0..d |-> IF i = 0 THEN start ELSE JoinBoth(f[i - 1], q[i])]

LEMMA BothStepsExist == ASSUME NEW start, NEW q PROVE \A d \in Nat : \E f : BothSteps(f, start, q, d)
<1> DEFINE S == {d \in Nat : \E f : BothSteps(f, start, q, d)}
<1>1. 0 \in S
  <2>1. BothSteps([i \in 0..0 |-> start], start, q, 0)
    BY DEF BothSteps
  <2> QED BY <2>1
<1>2. ASSUME NEW d \in Nat, d \in S
      PROVE  d + 1 \in S
  <2>1. PICK f : BothSteps(f, start, q, d)
    BY <1>2
  <2> DEFINE g == [i \in 0..(d + 1) |-> IF i = 0 THEN start ELSE JoinBoth(f[i - 1], q[i])]
  <2>2. \A i \in 0..d : f[i] = IF i = 0 THEN start ELSE JoinBoth(f[i - 1], q[i])
    BY <2>1 DEF BothSteps
  <2>3. \A i \in 0..d : i \in 0..(d + 1)
    OBVIOUS
  <2>4. \A i \in 0..d : g[i] = f[i]
    BY <2>2, <2>3
  <2>5. \A i \in 0..(d + 1) : i # 0 => i - 1 \in 0..d
    OBVIOUS
  <2> HIDE DEF g
  <2>6. \A i \in 0..(d + 1) : i # 0 => g[i - 1] = f[i - 1]
    BY <2>4, <2>5
  <2>7. BothSteps(g, start, q, d + 1)
    BY <2>6 DEF BothSteps, g
  <2> QED BY <2>7
<1>3. \A d \in Nat : d \in S
  <2> HIDE DEF S
  <2> QED BY <1>1, <1>2, Induction
<1> QED BY <1>3

LEMMA BothWalked ==
    ASSUME NEW start, NEW q, Len(q) \in Nat
    PROVE  \E at : /\ at[0] = start
                   /\ \A i \in 1..Len(q) : at[i] = JoinBoth(at[i - 1], q[i])
                   /\ WalkBoth(start, q) = at[Len(q)]
<1> DEFINE at[i \in 0..Len(q)] == IF i = 0 THEN start ELSE JoinBoth(at[i - 1], q[i])
<1>1. \E f : f = [i \in 0..Len(q) |-> IF i = 0 THEN start ELSE JoinBoth(f[i - 1], q[i])]
  <2> HIDE DEF at
  <2>1. PICK f : BothSteps(f, start, q, Len(q))
    BY BothStepsExist
  <2> QED BY <2>1 DEF BothSteps
<1>2. at = [i \in 0..Len(q) |-> IF i = 0 THEN start ELSE JoinBoth(at[i - 1], q[i])]
  BY <1>1
<1>3. WalkBoth(start, q) = at[Len(q)]
  BY DEF WalkBoth
<1> HIDE DEF at
<1>4. at[0] = start /\ \A i \in 1..Len(q) : at[i] = JoinBoth(at[i - 1], q[i])
  BY <1>2
<1> QED BY <1>3, <1>4

LEMMA BothNothing == ASSUME NEW start PROVE WalkBoth(start, <<>>) = start
<1>1. PICK at : /\ at[0] = start
                /\ WalkBoth(start, <<>>) = at[Len(<<>>)]
  BY NothingIsSequence, BothWalked
<1> QED BY <1>1, NothingIsSequence

LEMMA BothFirst ==
    ASSUME NEW start, NEW p, NEW q, IsSequence(q)
    PROVE  WalkBoth(start, Joined(One(p), q)) = WalkBoth(JoinBoth(start, p), q)
<1>1. PICK t : t = Joined(One(p), q)
  OBVIOUS
<1>2. /\ Len(q) \in Nat /\ Len(t) = Len(q) + 1 /\ t[1] = p
      /\ \A i \in 1..Len(q) : t[i + 1] = q[i]
  BY <1>1, FirstAndRestAt
<1>3. PICK f : /\ f[0] = start
               /\ \A i \in 1..Len(t) : f[i] = JoinBoth(f[i - 1], t[i])
               /\ WalkBoth(start, t) = f[Len(t)]
  BY <1>2, BothWalked
<1>4. PICK g : /\ g[0] = JoinBoth(start, p)
               /\ \A i \in 1..Len(q) : g[i] = JoinBoth(g[i - 1], q[i])
               /\ WalkBoth(JoinBoth(start, p), q) = g[Len(q)]
  BY <1>2, BothWalked
<1> DEFINE S == {i \in Nat : i <= Len(q) => g[i] = f[i + 1]}
<1>5. 0 \in S
  <2>1. 1 \in 1..Len(t) /\ 1 - 1 = 0 /\ 0 + 1 = 1
    BY <1>2
  <2>2. f[1] = JoinBoth(f[1 - 1], t[1])
    BY <1>3, <2>1
  <2> QED BY <1>2, <1>3, <1>4, <2>1, <2>2
<1>6. ASSUME NEW i \in Nat, i \in S
      PROVE  i + 1 \in S
  <2> SUFFICES ASSUME i + 1 <= Len(q)
               PROVE  g[i + 1] = f[(i + 1) + 1]
    OBVIOUS
  <2>1. i + 1 \in 1..Len(q) /\ (i + 1) + 1 \in 1..Len(t) /\ ((i + 1) + 1) - 1 = i + 1
        /\ (i + 1) - 1 = i /\ i <= Len(q)
    BY <1>2
  <2>2. g[i + 1] = JoinBoth(g[i], q[i + 1])
    BY <1>4, <2>1
  <2>3. f[(i + 1) + 1] = JoinBoth(f[i + 1], t[(i + 1) + 1])
    BY <1>3, <2>1
  <2>4. t[(i + 1) + 1] = q[i + 1]
    BY <1>2, <2>1
  <2>5. g[i] = f[i + 1]
    BY <1>6, <2>1
  <2> QED BY <2>2, <2>3, <2>4, <2>5
<1>7. \A i \in Nat : i \in S
  <2> HIDE DEF S
  <2> QED BY <1>5, <1>6, Induction
<1>8. g[Len(q)] = f[Len(q) + 1]
  BY <1>2, <1>7
<1> QED BY <1>1, <1>2, <1>3, <1>4, <1>8
BothState(fn, sn, fr, sr) == [ok |-> TRUE, fn |-> fn, sn |-> sn, fr |-> fr, sr |-> sr]

(* For the new root it is the walk along an inclusion path. *)
Agree(both, audit) ==
    /\ both.ok <=> audit.ok
    /\ both.fn = audit.fn /\ both.sn = audit.sn /\ both.sr = audit.r

LEMMA AgreeStays ==
    ASSUME NEW both, NEW audit, NEW p, Agree(both, audit)
    PROVE  Agree(JoinBoth(both, p), JoinAudit(audit, p))
<1>1. JoinsFromLeft(both) <=> JoinsFromLeft(audit)
  BY DEF Agree, JoinsFromLeft
<1>2. Climb(both) = Climb(audit)
  BY <1>1 DEF Agree, Climb
<1>3. /\ JoinBoth(both, p).ok <=> both.ok /\ both.sn # 0
      /\ JoinAudit(audit, p).ok <=> audit.ok /\ audit.sn # 0
  BY DEF JoinBoth, JoinAudit
<1>4. /\ JoinBoth(both, p).fn = Climb(both).fn /\ JoinBoth(both, p).sn = Climb(both).sn
      /\ JoinAudit(audit, p).fn = Climb(audit).fn /\ JoinAudit(audit, p).sn = Climb(audit).sn
  BY DEF JoinBoth, JoinAudit
<1>5. JoinBoth(both, p).sr = JoinAudit(audit, p).r
  BY <1>1 DEF JoinBoth, JoinAudit, Agree
<1> QED BY <1>2, <1>3, <1>4, <1>5 DEF Agree

LEMMA AgreeAtEnd ==
    ASSUME NEW fn, NEW sn, NEW fr, NEW sr, NEW q, IsSequence(q)
    PROVE  Agree(WalkBoth(BothState(fn, sn, fr, sr), q), WalkAudit(AuditState(fn, sn, sr), q))
<1>1. Len(q) \in Nat
  BY JoinedNothing
<1>2. PICK f : /\ f[0] = BothState(fn, sn, fr, sr)
               /\ \A i \in 1..Len(q) : f[i] = JoinBoth(f[i - 1], q[i])
               /\ WalkBoth(BothState(fn, sn, fr, sr), q) = f[Len(q)]
  BY <1>1, BothWalked
<1>3. PICK g : /\ g[0] = AuditState(fn, sn, sr)
               /\ \A i \in 1..Len(q) : g[i] = JoinAudit(g[i - 1], q[i])
               /\ WalkAudit(AuditState(fn, sn, sr), q) = g[Len(q)]
  BY <1>1, AuditWalked
<1> DEFINE S == {i \in Nat : i <= Len(q) => Agree(f[i], g[i])}
<1>4. 0 \in S
  BY <1>2, <1>3 DEF Agree, BothState, AuditState
<1>5. ASSUME NEW i \in Nat, i \in S
      PROVE  i + 1 \in S
  <2> SUFFICES ASSUME i + 1 <= Len(q)
               PROVE  Agree(f[i + 1], g[i + 1])
    OBVIOUS
  <2>1. i + 1 \in 1..Len(q) /\ (i + 1) - 1 = i /\ i <= Len(q)
    BY <1>1
  <2>2. f[i + 1] = JoinBoth(f[i], q[i + 1]) /\ g[i + 1] = JoinAudit(g[i], q[i + 1])
    BY <1>2, <1>3, <2>1
  <2>3. Agree(f[i], g[i])
    BY <1>5, <2>1
  <2> QED BY <2>2, <2>3, AgreeStays
<1>6. \A i \in Nat : i \in S
  <2> HIDE DEF S
  <2> QED BY <1>4, <1>5, Induction
<1>7. Agree(f[Len(q)], g[Len(q)])
  BY <1>1, <1>6
<1> QED BY <1>2, <1>3, <1>7
LEMMA BothOdd ==
    ASSUME NEW fn, NEW sn, NEW fr, NEW sr, NEW p,
           fn \in Nat, sn \in Nat, sn # 0, fn % 2 = 1
    PROVE  JoinBoth(BothState(fn, sn, fr, sr), p) =
             BothState(fn \div 2, sn \div 2, HashChildren(p, fr), HashChildren(p, sr))
<1> DEFINE at == BothState(fn, sn, fr, sr)
<1>1. Climb(at).fn = fn \div 2 /\ Climb(at).sn = sn \div 2
  BY DEF BothState, Climb, JoinsFromLeft
<1>2. /\ (IF JoinsFromLeft(at) THEN HashChildren(p, at.fr) ELSE at.fr) = HashChildren(p, fr)
      /\ (IF JoinsFromLeft(at) THEN HashChildren(p, at.sr) ELSE HashChildren(at.sr, p)) = HashChildren(p, sr)
  BY DEF BothState, JoinsFromLeft
<1>3. (at.ok /\ at.sn # 0) = TRUE
  BY DEF BothState
<1> HIDE DEF at
<1>4. JoinBoth(at, p) = [ok |-> TRUE, fn |-> fn \div 2, sn |-> sn \div 2,
                         fr |-> HashChildren(p, fr), sr |-> HashChildren(p, sr)]
  BY <1>1, <1>2, <1>3, Zenon DEF JoinBoth
<1> QED BY <1>4 DEF BothState, at

LEMMA BothEven ==
    ASSUME NEW fn, NEW sn, NEW fr, NEW sr, NEW p,
           fn \in Nat, sn \in Nat, sn # 0, fn % 2 = 0, fn # sn
    PROVE  JoinBoth(BothState(fn, sn, fr, sr), p) =
             BothState(fn \div 2, sn \div 2, fr, HashChildren(sr, p))
<1> DEFINE at == BothState(fn, sn, fr, sr)
<1>1. Climb(at).fn = fn \div 2 /\ Climb(at).sn = sn \div 2
  BY DEF BothState, Climb, JoinsFromLeft
<1>2. /\ (IF JoinsFromLeft(at) THEN HashChildren(p, at.fr) ELSE at.fr) = fr
      /\ (IF JoinsFromLeft(at) THEN HashChildren(p, at.sr) ELSE HashChildren(at.sr, p)) = HashChildren(sr, p)
  BY DEF BothState, JoinsFromLeft
<1>3. (at.ok /\ at.sn # 0) = TRUE
  BY DEF BothState
<1> HIDE DEF at
<1>4. JoinBoth(at, p) = [ok |-> TRUE, fn |-> fn \div 2, sn |-> sn \div 2,
                         fr |-> fr, sr |-> HashChildren(sr, p)]
  BY <1>1, <1>2, <1>3, Zenon DEF JoinBoth
<1> QED BY <1>4 DEF BothState, at

(* An even last node, which is its own parent. *)
Lonely(sn, half) == sn \in Nat /\ sn # 0 /\ sn % 2 = 0 /\ half = sn \div 2

LEMMA BothLonely ==
    ASSUME NEW sn, NEW half, NEW fr, NEW sr, NEW p, Lonely(sn, half)
    PROVE  JoinBoth(BothState(sn, sn, fr, sr), p) = JoinBoth(BothState(half, half, fr, sr), p)
<1> DEFINE at == BothState(sn, sn, fr, sr)
           up == BothState(half, half, fr, sr)
<1>0. sn \in Nat /\ sn # 0 /\ sn % 2 = 0 /\ half = sn \div 2
  BY DEF Lonely
<1>1. half \in Nat /\ half # 0
  BY <1>0
<1>2. ShiftWhile(0, sn, sn) = ShiftWhile(0, half, half)
  BY <1>0, ShiftUnfolds
<1>3. Climb(at) = [fn |-> ShiftWhile(0, half, half).fn \div 2,
                   sn |-> ShiftWhile(0, half, half).sn \div 2]
  BY <1>0, <1>2 DEF Climb, JoinsFromLeft, BothState, ShiftWhileEven
<1>4. Climb(up) = [fn |-> ShiftWhile(0, half, half).fn \div 2,
                   sn |-> ShiftWhile(0, half, half).sn \div 2]
  <2>1. CASE half % 2 = 0
    BY <2>1 DEF Climb, JoinsFromLeft, BothState, ShiftWhileEven
  <2>2. CASE half % 2 # 0
    <3>1. ShiftWhile(0, half, half) = [fn |-> half, sn |-> half]
      BY <1>1, <2>2, ShiftUnfolds
    <3> QED BY <2>2, <3>1 DEF Climb, JoinsFromLeft, BothState
  <2> QED BY <2>1, <2>2
<1>5. JoinsFromLeft(at) /\ JoinsFromLeft(up)
  BY DEF JoinsFromLeft, BothState
<1>6. /\ JoinBoth(at, p) = [ok |-> TRUE, fn |-> Climb(at).fn, sn |-> Climb(at).sn,
                            fr |-> HashChildren(p, fr), sr |-> HashChildren(p, sr)]
      /\ JoinBoth(up, p) = [ok |-> TRUE, fn |-> Climb(up).fn, sn |-> Climb(up).sn,
                            fr |-> HashChildren(p, fr), sr |-> HashChildren(p, sr)]
  <2>1. (at.ok /\ at.sn # 0) = TRUE /\ (up.ok /\ up.sn # 0) = TRUE /\ at.fr = fr /\ up.fr = fr /\ at.sr = sr /\ up.sr = sr
    BY <1>0, <1>1 DEF BothState
  <2> HIDE DEF at, up
  <2> QED BY <1>5, <2>1, Zenon DEF JoinBoth
<1> QED BY <1>3, <1>4, <1>6
-----------------------------------------------------------------------------
(* The old root: from the last leaf of the old tree along its path in the  *)
(* new one, taking the siblings on the left only.                          *)

Old(fn, sn, fr, sr, q) == WalkBoth(BothState(fn, sn, fr, sr), q).fr

LEMMA OldNothing ==
    ASSUME NEW fn, NEW sn, NEW fr, NEW sr
    PROVE  Old(fn, sn, fr, sr, <<>>) = fr
BY BothNothing DEF Old, BothState

LEMMA OldOdd ==
    ASSUME NEW fn, NEW sn, NEW fr, NEW sr, NEW p, NEW q, IsSequence(q),
           fn \in Nat, sn \in Nat, sn # 0, fn % 2 = 1
    PROVE  Old(fn, sn, fr, sr, Joined(One(p), q))
             = Old(fn \div 2, sn \div 2, HashChildren(p, fr), HashChildren(p, sr), q)
BY BothFirst, BothOdd DEF Old

LEMMA OldEven ==
    ASSUME NEW fn, NEW sn, NEW fr, NEW sr, NEW p, NEW q, IsSequence(q),
           fn \in Nat, sn \in Nat, sn # 0, fn % 2 = 0, fn # sn
    PROVE  Old(fn, sn, fr, sr, Joined(One(p), q))
             = Old(fn \div 2, sn \div 2, fr, HashChildren(sr, p), q)
BY BothFirst, BothEven DEF Old

LEMMA OldLonely ==
    ASSUME NEW sn, NEW half, NEW fr, NEW sr, NEW q,
           IsSequence(q), Lonely(sn, half)
    PROVE  Old(sn, sn, fr, sr, q) = Old(half, half, fr, sr, q)
<1>1. CASE q = <<>>
  BY <1>1, OldNothing
<1>2. CASE q # <<>>
  <2>1. PICK p, t : IsSequence(t) /\ q = Joined(One(p), t)
    BY <1>2, HasFirstAndRest
  <2>2. WalkBoth(BothState(sn, sn, fr, sr), q) = WalkBoth(JoinBoth(BothState(sn, sn, fr, sr), p), t)
    BY <2>1, BothFirst
  <2>3. WalkBoth(BothState(half, half, fr, sr), q)
          = WalkBoth(JoinBoth(BothState(half, half, fr, sr), p), t)
    BY <2>1, BothFirst
  <2>4. WalkBoth(BothState(sn, sn, fr, sr), q) = WalkBoth(BothState(half, half, fr, sr), q)
    BY <2>2, <2>3, BothLonely
  <2> QED BY <2>4 DEF Old
<1> QED BY <1>1, <1>2

(* O is the old tree of m + 1 leaves, as far as its last leaf.             *)
OldBegins(O, L, m) == Len(O) = m + 1 /\ \A i \in 1..m : O[i] = L[i]

LEMMA BeginsUp ==
    ASSUME NEW O, NEW L, NEW m, OldBegins(O, L, m), Len(L) \in Nat, m \in Nat, m < Len(L)
    PROVE  OldBegins(PairUp(O), PairUp(L), m \div 2) /\ TreeRoot(O) = TreeRoot(PairUp(O))
<1>1. Len(O) = m + 1 /\ Len(O) \in Nat /\ \A i \in 1..m : O[i] = L[i]
  BY DEF OldBegins
<1>2. TreeRoot(O) = TreeRoot(PairUp(O)) /\ Len(PairUp(O)) = (m + 2) \div 2
  BY <1>1, TreeUp
<1>3. (m + 2) \div 2 = (m \div 2) + 1
  OBVIOUS
<1>4. ASSUME NEW i \in 1..(m \div 2)
      PROVE  PairUp(O)[i] = PairUp(L)[i]
  <2>1. /\ i \in 1..((Len(O) + 1) \div 2) /\ i \in 1..((Len(L) + 1) \div 2)
        /\ 2 * i <= Len(O) /\ 2 * i <= Len(L) /\ 2 * i - 1 \in 1..m /\ 2 * i \in 1..m
    BY <1>1
  <2>2. PairUp(O)[i] = HashChildren(O[2 * i - 1], O[2 * i])
    BY <2>1 DEF PairUp
  <2>3. PairUp(L)[i] = HashChildren(L[2 * i - 1], L[2 * i])
    BY <2>1 DEF PairUp
  <2>4. O[2 * i - 1] = L[2 * i - 1] /\ O[2 * i] = L[2 * i]
    BY <1>1, <2>1
  <2> QED BY <2>2, <2>3, <2>4
<1> QED BY <1>2, <1>3, <1>4 DEF OldBegins

OldRootOf(n) ==
    \A L, O, m, r : Len(L) = n /\ m \in Nat /\ m < n /\ OldBegins(O, L, m) =>
      Old(m, n - 1, O[m + 1], r, TreePath(m, L)) = TreeRoot(O)

LEMMA OldRootStep ==
    ASSUME NEW L, NEW O, NEW m, NEW r, NEW n, NEW half, NEW up,
           n \in Nat, n >= 2, Len(L) = n, m \in Nat, m < n, OldBegins(O, L, m),
           half = (n + 1) \div 2, up = m \div 2,
           OldRootOf(half)
    PROVE  Old(m, n - 1, O[m + 1], r, TreePath(m, L)) = TreeRoot(O)
<1>1. PICK P, Q : P = PairUp(L) /\ Q = PairUp(O)
  OBVIOUS
<1>2. OldBegins(Q, P, up) /\ TreeRoot(O) = TreeRoot(Q) /\ Len(P) = half
  <2>1. Len(L) \in Nat /\ m < Len(L) /\ half = (Len(L) + 1) \div 2
    OBVIOUS
  <2>2. OldBegins(PairUp(O), PairUp(L), m \div 2) /\ TreeRoot(O) = TreeRoot(PairUp(O))
    BY <2>1, BeginsUp
  <2> QED BY <1>1, <2>1, <2>2, PairUpLen
<1>3. /\ half \in Nat /\ up \in Nat /\ up < half /\ n - 1 \in Nat /\ n - 1 # 0
      /\ (n - 1) \div 2 = half - 1
  OBVIOUS
<1>4. /\ Len(O) = m + 1 /\ Len(O) \in Nat /\ m < Len(O) /\ m = Len(O) - 1
      /\ m # 0 => O[m] = L[m]
  BY DEF OldBegins
<1>5. \A x : Old(up, half - 1, Q[up + 1], x, TreePath(up, P)) = TreeRoot(Q)
  BY <1>2, <1>3 DEF OldRootOf
<1>6. TreePath(m, L) = Joined(Sibling(m, L, 0, n), TreePath(up, P))
  BY <1>1, TreePathUp
<1>7. IsSequence(TreePath(up, P))
  <2>1. Len(P) \in Nat /\ Len(P) >= 1
    BY <1>2, <1>3
  <2> QED BY <1>3, <2>1, TreePathIsSequence
<1>8. CASE m % 2 = 1
  <2>1. Sibling(m, L, 0, n) = One(L[m])
    BY <1>8 DEF Sibling
  <2>2. Old(m, n - 1, O[m + 1], r, TreePath(m, L))
          = Old(up, half - 1, HashChildren(L[m], O[m + 1]), HashChildren(L[m], r), TreePath(up, P))
    BY <1>3, <1>6, <1>7, <1>8, <2>1, OldOdd
  <2>3. Q[up + 1] = HashChildren(L[m], O[m + 1])
    <3>1. /\ Len(O) \in Nat /\ m \in Nat /\ m < Len(O) /\ m % 2 = 1
          /\ up = m \div 2 /\ O[m] = L[m]
      BY <1>4, <1>8
    <3> QED BY ONLY <1>1, <3>1, ParentIs
  <2> QED BY <1>2, <1>5, <2>2, <2>3
<1>9. CASE m % 2 = 0
  <2>1. Q[up + 1] = O[m + 1]
    <3>1. /\ Len(O) \in Nat /\ m \in Nat /\ m < Len(O) /\ m % 2 = 0 /\ m = Len(O) - 1
          /\ up = m \div 2
      BY <1>4, <1>9
    <3> QED BY ONLY <1>1, <3>1, ParentIs
  <2>2. CASE m # n - 1
    <3>1. Sibling(m, L, 0, n) = One(L[m + 2])
      BY <1>9, <2>2 DEF Sibling
    <3>2. Old(m, n - 1, O[m + 1], r, TreePath(m, L))
            = Old(up, half - 1, O[m + 1], HashChildren(r, L[m + 2]), TreePath(up, P))
      BY <1>3, <1>6, <1>7, <1>9, <2>2, <3>1, OldEven
    <3> QED BY <1>2, <1>5, <2>1, <3>2
  <2>3. CASE m = n - 1
    <3>1. Sibling(m, L, 0, n) = <<>>
      BY <1>9, <2>3 DEF Sibling
    <3>2. TreePath(m, L) = TreePath(up, P)
      BY <1>6, <1>7, <3>1, JoinedNothing
    <3>3. Old(m, m, O[m + 1], r, TreePath(up, P)) = Old(up, up, O[m + 1], r, TreePath(up, P))
      <4>1. Lonely(m, up)
        BY <1>3, <1>9, <2>3 DEF Lonely
      <4> QED BY ONLY <1>7, <4>1, OldLonely
    <3>4. up = half - 1
      BY <1>9, <2>3
    <3>5. Old(up, up, Q[up + 1], r, TreePath(up, P)) = TreeRoot(Q)
      BY <1>5, <3>4
    <3> QED BY <1>2, <2>1, <2>3, <3>2, <3>3, <3>5
  <2> QED BY <2>2, <2>3
<1> QED BY <1>8, <1>9

LEMMA OldRootOne == OldRootOf(1)
<1> SUFFICES ASSUME NEW L, NEW O, NEW m, NEW r, Len(L) = 1, m \in Nat, m < 1, OldBegins(O, L, m)
             PROVE  Old(m, 1 - 1, O[m + 1], r, TreePath(m, L)) = TreeRoot(O)
  BY DEF OldRootOf
<1>1. m = 0 /\ m + 1 = 1 /\ Len(L) \in Nat /\ Len(O) = 1 /\ Len(O) \in Nat /\ 1 \in 1..Len(O)
  BY DEF OldBegins
<1>2. TreePath(m, L) = <<>>
  BY <1>1, PathAlone DEF TreePath
<1>3. TreeRoot(O) = O[1]
  BY <1>1, RootUnfolds DEF TreeRoot
<1> QED BY <1>1, <1>2, <1>3, OldNothing

LEMMA OldRoot == \A n \in Nat : n >= 1 => OldRootOf(n)
<1> DEFINE S == {n \in Nat : n >= 1 => OldRootOf(n)}
<1>1. ASSUME NEW n \in Nat, \A i \in Nat : i < n => i \in S
      PROVE  n \in S
  <2>1. CASE n = 0
    BY <2>1
  <2>2. CASE n = 1
    BY <2>2, OldRootOne
  <2>3. CASE n >= 2
    <3>1. PICK half \in Nat : half = (n + 1) \div 2
      OBVIOUS
    <3>2. OldRootOf(half)
      BY <1>1, <2>3, <3>1
    <3>3. ASSUME NEW L, NEW O, NEW m, NEW r, Len(L) = n, m \in Nat, m < n, OldBegins(O, L, m)
          PROVE  Old(m, n - 1, O[m + 1], r, TreePath(m, L)) = TreeRoot(O)
      <4>1. PICK up : up = m \div 2
        OBVIOUS
      <4> QED BY <2>3, <3>1, <3>2, <3>3, <4>1, OldRootStep
    <3> QED BY <3>3 DEF OldRootOf
  <2> QED BY <2>1, <2>2, <2>3
<1>2. \A n \in Nat : n \in S
  <2> HIDE DEF S
  <2> QED BY <1>1, StrongInduction
<1> QED BY <1>2
-----------------------------------------------------------------------------
(* Consistency paths.                                                      *)

(* Whether the old tree begins with this one. *)
Flag(c) == c = "whole"

LEMMA FlagIs ==
    ASSUME NEW c
    PROVE  /\ Flag(c) \in BOOLEAN /\ Flag("part") = FALSE
           /\ c = "whole" => Flag(c) = TRUE
           /\ c # "whole" => Flag(c) = FALSE
BY DEF Flag

OldDescent(d) == [m : Nat \ {0}, lo : Nat, n : 1..d, complete : BOOLEAN]

From(m, lo, n, c) == [m |-> m, lo |-> lo, n |-> n, complete |-> c]

OldIn(d, m, lo, n) == d \in Nat /\ m \in Nat /\ m >= 1 /\ lo \in Nat /\ n \in 1..d

LEMMA OldDescentsAre ==
    ASSUME NEW d, NEW m, NEW lo, NEW n, NEW c, OldIn(d, m, lo, n)
    PROVE  /\ From(m, lo, n, Flag(c)) \in OldDescent(d)
           /\ From(m, lo, n, Flag(c)).m = m /\ From(m, lo, n, Flag(c)).lo = lo
           /\ From(m, lo, n, Flag(c)).n = n /\ From(m, lo, n, Flag(c)).complete = Flag(c)
<1>1. Flag(c) \in BOOLEAN
  BY FlagIs
<1>2. d \in Nat /\ m \in Nat /\ m >= 1 /\ lo \in Nat /\ n \in 1..d
  BY DEF OldIn
<1> QED BY <1>1, <1>2 DEF OldDescent, From

FromLeft(t) == From(t.m, t.lo, LargestPowerOfTwoBelow(t.n), t.complete)
FromRight(t) == From(t.m - LargestPowerOfTwoBelow(t.n), t.lo + LargestPowerOfTwoBelow(t.n),
                     t.n - LargestPowerOfTwoBelow(t.n), FALSE)

LEMMA OldDescentsGoDown ==
    ASSUME NEW d \in Nat, NEW t \in OldDescent(d + 1), t.n # 1
    PROVE  /\ FromLeft(t) \in OldDescent(d)
           /\ ~(t.m <= LargestPowerOfTwoBelow(t.n)) => FromRight(t) \in OldDescent(d)
<1>1. /\ t.m \in Pos /\ t.m \in Nat /\ t.lo \in Nat /\ t.n \in Nat /\ t.n >= 2 /\ t.n <= d + 1
      /\ t.complete \in BOOLEAN
  BY DEF OldDescent, Pos
<1>2. LargestPowerOfTwoBelow(t.n) \in Pos /\ LargestPowerOfTwoBelow(t.n) < t.n
  BY <1>1, LargestBelow
<1> QED BY <1>1, <1>2 DEF FromLeft, FromRight, From, OldDescent, Pos

(* The hashes passed on the way, when the one above has been found.        *)
SubStep(f, leaves, t) ==
    IF t.m >= t.n
    THEN IF t.complete THEN <<>> ELSE <<SubtreeRoot(leaves, t.lo, t.lo + t.n)>>
    ELSE IF t.m <= LargestPowerOfTwoBelow(t.n)
         THEN Append(f[FromLeft(t)],
                     SubtreeRoot(leaves, t.lo + LargestPowerOfTwoBelow(t.n), t.lo + t.n))
         ELSE Append(f[FromRight(t)],
                     SubtreeRoot(leaves, t.lo, t.lo + LargestPowerOfTwoBelow(t.n)))

IsSubs(f, leaves, d) == f = [t \in OldDescent(d) |-> SubStep(f, leaves, t)]

LEMMA SubsExist == ASSUME NEW leaves PROVE \A d \in Nat : \E f : IsSubs(f, leaves, d)
<1> DEFINE S == {d \in Nat : \E f : IsSubs(f, leaves, d)}
<1>1. 0 \in S
  <2>1. OldDescent(0) = {}
    BY DEF OldDescent
  <2>2. IsSubs([t \in OldDescent(0) |-> t], leaves, 0)
    BY <2>1 DEF IsSubs
  <2> QED BY <2>2
<1>2. ASSUME NEW d \in Nat, d \in S
      PROVE  d + 1 \in S
  <2>1. PICK f : IsSubs(f, leaves, d)
    BY <1>2
  <2> DEFINE g == [t \in OldDescent(d + 1) |-> SubStep(f, leaves, t)]
  <2>2. \A t \in OldDescent(d) : t \in OldDescent(d + 1)
    BY DEF OldDescent
  <2>3. \A t \in OldDescent(d) : f[t] = SubStep(f, leaves, t)
    BY <2>1 DEF IsSubs
  <2>4. \A t \in OldDescent(d) : f[t] = g[t]
    BY <2>2, <2>3
  <2> HIDE DEF g
  <2>5. \A t \in OldDescent(d + 1) : SubStep(f, leaves, t) = SubStep(g, leaves, t)
    <3> SUFFICES ASSUME NEW t \in OldDescent(d + 1)
                 PROVE  SubStep(f, leaves, t) = SubStep(g, leaves, t)
      OBVIOUS
    <3>1. t.m \in Nat /\ t.m >= 1 /\ t.n \in Nat /\ t.n >= 1
      BY DEF OldDescent, Pos
    <3>2. CASE t.m >= t.n
      BY <3>2 DEF SubStep
    <3>3. CASE ~(t.m >= t.n)
      <4>1. t.n # 1
        BY <3>1, <3>3
      <4>2. /\ FromLeft(t) \in OldDescent(d)
            /\ ~(t.m <= LargestPowerOfTwoBelow(t.n)) => FromRight(t) \in OldDescent(d)
        BY <4>1, OldDescentsGoDown
      <4>3. /\ f[FromLeft(t)] = g[FromLeft(t)]
            /\ ~(t.m <= LargestPowerOfTwoBelow(t.n)) => f[FromRight(t)] = g[FromRight(t)]
        BY <2>4, <4>2
      <4>4. CASE t.m <= LargestPowerOfTwoBelow(t.n)
        BY <3>3, <4>3, <4>4, Zenon DEF SubStep
      <4>5. CASE ~(t.m <= LargestPowerOfTwoBelow(t.n))
        BY <3>3, <4>3, <4>5, Zenon DEF SubStep
      <4> QED BY <4>4, <4>5
    <3> QED BY <3>2, <3>3
  <2>6. IsSubs(g, leaves, d + 1)
    BY <2>5 DEF IsSubs, g
  <2> QED BY <2>6
<1>3. \A d \in Nat : d \in S
  <2> HIDE DEF S
  <2> QED BY <1>1, <1>2, Induction
<1> QED BY <1>3

(* The path from the old tree of m leaves to the tree over n leaves from   *)
(* lo on.                                                                  *)
Sub(m, leaves, lo, n, c) == SubProofRec(m, leaves, lo, lo + n, Flag(c))

LEMMA SubsAre ==
    ASSUME NEW leaves, Len(leaves) \in Nat
    PROVE  \E sub : /\ sub = [t \in OldDescent(Len(leaves)) |-> SubStep(sub, leaves, t)]
                    /\ \A i, c : \A first \in Nat, size \in Nat :
                         Sub(i, leaves, first, size, c) = sub[From(i, first, size, Flag(c))]
<1> DEFINE sub[t \in [m : Nat \ {0}, lo : Nat, n : 1..Len(leaves), complete : BOOLEAN]] ==
             IF t.m >= t.n
             THEN IF t.complete THEN <<>> ELSE <<SubtreeRoot(leaves, t.lo, t.lo + t.n)>>
             ELSE IF t.m <= LargestPowerOfTwoBelow(t.n)
                  THEN Append(sub[[m |-> t.m, lo |-> t.lo, n |-> LargestPowerOfTwoBelow(t.n),
                                   complete |-> t.complete]],
                              SubtreeRoot(leaves, t.lo + LargestPowerOfTwoBelow(t.n), t.lo + t.n))
                  ELSE Append(sub[[m |-> t.m - LargestPowerOfTwoBelow(t.n),
                                   lo |-> t.lo + LargestPowerOfTwoBelow(t.n),
                                   n |-> t.n - LargestPowerOfTwoBelow(t.n),
                                   complete |-> FALSE]],
                              SubtreeRoot(leaves, t.lo, t.lo + LargestPowerOfTwoBelow(t.n)))
<1>1. PICK f : IsSubs(f, leaves, Len(leaves))
  BY SubsExist
<1>2. f = [t \in [m : Nat \ {0}, lo : Nat, n : 1..Len(leaves), complete : BOOLEAN] |->
             IF t.m >= t.n
             THEN IF t.complete THEN <<>> ELSE <<SubtreeRoot(leaves, t.lo, t.lo + t.n)>>
             ELSE IF t.m <= LargestPowerOfTwoBelow(t.n)
                  THEN Append(f[[m |-> t.m, lo |-> t.lo, n |-> LargestPowerOfTwoBelow(t.n),
                                 complete |-> t.complete]],
                              SubtreeRoot(leaves, t.lo + LargestPowerOfTwoBelow(t.n), t.lo + t.n))
                  ELSE Append(f[[m |-> t.m - LargestPowerOfTwoBelow(t.n),
                                 lo |-> t.lo + LargestPowerOfTwoBelow(t.n),
                                 n |-> t.n - LargestPowerOfTwoBelow(t.n),
                                 complete |-> FALSE]],
                              SubtreeRoot(leaves, t.lo, t.lo + LargestPowerOfTwoBelow(t.n)))]
  BY <1>1, Zenon DEF IsSubs, SubStep, OldDescent, FromLeft, FromRight, From, Pos
<1>3. sub = [t \in [m : Nat \ {0}, lo : Nat, n : 1..Len(leaves), complete : BOOLEAN] |->
               IF t.m >= t.n
               THEN IF t.complete THEN <<>> ELSE <<SubtreeRoot(leaves, t.lo, t.lo + t.n)>>
               ELSE IF t.m <= LargestPowerOfTwoBelow(t.n)
                    THEN Append(sub[[m |-> t.m, lo |-> t.lo, n |-> LargestPowerOfTwoBelow(t.n),
                                     complete |-> t.complete]],
                                SubtreeRoot(leaves, t.lo + LargestPowerOfTwoBelow(t.n), t.lo + t.n))
                    ELSE Append(sub[[m |-> t.m - LargestPowerOfTwoBelow(t.n),
                                     lo |-> t.lo + LargestPowerOfTwoBelow(t.n),
                                     n |-> t.n - LargestPowerOfTwoBelow(t.n),
                                     complete |-> FALSE]],
                                SubtreeRoot(leaves, t.lo, t.lo + LargestPowerOfTwoBelow(t.n)))]
  BY <1>2
<1>4. \A i, first, last, c :
        SubProofRec(i, leaves, first, last, c) = sub[From(i, first, last - first, c)]
  BY DEF SubProofRec, From
<1> HIDE DEF sub
<1>5. sub = [t \in OldDescent(Len(leaves)) |-> SubStep(sub, leaves, t)]
  BY <1>3, Zenon DEF SubStep, OldDescent, FromLeft, FromRight, From, Pos
<1>6. \A i, c : \A first \in Nat, size \in Nat :
        Sub(i, leaves, first, size, c) = sub[From(i, first, size, Flag(c))]
  <2>1. \A first \in Nat, size \in Nat : (first + size) - first = size
    OBVIOUS
  <2> QED BY <1>4, <2>1 DEF Sub
<1> QED BY <1>5, <1>6
LEMMA SubIsStep ==
    ASSUME NEW L, NEW m, NEW lo, NEW n, NEW c, OldIn(Len(L), m, lo, n)
    PROVE  \E sub : /\ Sub(m, L, lo, n, c) = SubStep(sub, L, From(m, lo, n, Flag(c)))
                    /\ \A i, e : \A first \in Nat, size \in Nat :
                         Sub(i, L, first, size, e) = sub[From(i, first, size, Flag(e))]
<1>0. Len(L) \in Nat /\ m \in Nat /\ m >= 1 /\ lo \in Nat /\ n \in Nat
  BY DEF OldIn
<1>1. PICK sub : /\ sub = [t \in OldDescent(Len(L)) |-> SubStep(sub, L, t)]
                 /\ \A i, e : \A first \in Nat, size \in Nat :
                      Sub(i, L, first, size, e) = sub[From(i, first, size, Flag(e))]
  BY <1>0, SubsAre
<1>2. PICK t : t = From(m, lo, n, Flag(c))
  OBVIOUS
<1>3. Sub(m, L, lo, n, c) = sub[t]
  BY <1>0, <1>1, <1>2
<1>4. t \in OldDescent(Len(L))
  BY <1>2, OldDescentsAre
<1>5. sub[t] = SubStep(sub, L, t)
  BY <1>1, <1>4
<1> QED BY <1>1, <1>2, <1>3, <1>5

LEMMA SubWhole ==
    ASSUME NEW L, NEW m, NEW lo, NEW n, NEW c, OldIn(Len(L), m, lo, n), m >= n
    PROVE  Sub(m, L, lo, n, c) = IF c = "whole" THEN <<>> ELSE One(Root(L, lo, n))
<1>1. PICK t : t = From(m, lo, n, Flag(c))
  OBVIOUS
<1>2. t.m = m /\ t.lo = lo /\ t.n = n /\ t.complete = Flag(c)
  BY <1>1, OldDescentsAre
<1>3. PICK sub : Sub(m, L, lo, n, c) = SubStep(sub, L, t)
  BY <1>1, SubIsStep
<1>4. CASE c = "whole"
  <2>1. SubStep(sub, L, t) = <<>>
    BY <1>2, <1>4, FlagIs, Zenon DEF SubStep
  <2> QED BY <1>3, <1>4, <2>1
<1>5. CASE c # "whole"
  <2>1. SubStep(sub, L, t) = <<SubtreeRoot(L, lo, lo + n)>>
    BY <1>2, <1>5, FlagIs, Zenon DEF SubStep
  <2> QED BY <1>3, <1>5, <2>1, Zenon DEF One, Root
<1> QED BY <1>4, <1>5

(* An old tree of m leaves, fewer than the tree over n from lo on, which   *)
(* is split at k.                                                          *)
OldSplits(L, m, lo, n, k, from, rest, j) ==
    /\ Splits(L, n, k) /\ from = lo + k /\ rest = n - k /\ j = m - k
    /\ Len(L) \in Nat /\ m \in Nat /\ m >= 1 /\ lo \in Nat /\ n \in Nat /\ k \in Nat /\ m < n

DownLeft(L, m, lo, n, k, from, rest, c) ==
    Sub(m, L, lo, n, c) = Add(Sub(m, L, lo, k, c), Root(L, from, rest))

DownRight(L, m, lo, n, k, from, rest, j, c) ==
    Sub(m, L, lo, n, c) = Add(Sub(j, L, from, rest, "part"), Root(L, lo, k))

LEMMA SubDown ==
    ASSUME NEW L, NEW m, NEW lo, NEW n, NEW k, NEW from, NEW rest, NEW j, NEW c,
           OldSplits(L, m, lo, n, k, from, rest, j)
    PROVE  /\ m <= k => DownLeft(L, m, lo, n, k, from, rest, c)
           /\ ~(m <= k) => DownRight(L, m, lo, n, k, from, rest, j, c)
<1>1. /\ Splits(L, n, k) /\ from = lo + k /\ rest = n - k /\ j = m - k /\ from \in Nat /\ rest \in Nat
      /\ k = LargestPowerOfTwoBelow(n) /\ n \in 1..Len(L) /\ ~(m >= n) /\ lo + n = from + rest
      /\ Len(L) \in Nat /\ m \in Nat /\ m >= 1 /\ lo \in Nat /\ n \in Nat /\ k \in Nat
  <2>1. /\ Splits(L, n, k) /\ from = lo + k /\ rest = n - k /\ j = m - k
        /\ k = LargestPowerOfTwoBelow(n) /\ n \in 1..Len(L)
        /\ Len(L) \in Nat /\ m \in Nat /\ m >= 1 /\ lo \in Nat /\ n \in Nat /\ k \in Nat /\ m < n
    BY DEF OldSplits, Splits
  <2>2. k < n
    BY <2>1, SplitSizes
  <2>3. from \in Nat
    BY ONLY <2>1
  <2>4. rest \in Nat
    BY ONLY <2>1, <2>2
  <2>5. ~(m >= n)
    BY ONLY <2>1
  <2>6. lo + n = from + rest
    BY ONLY <2>1
  <2> QED BY <2>1, <2>3, <2>4, <2>5, <2>6
<1>2. OldIn(Len(L), m, lo, n)
  BY <1>1 DEF OldIn
<1>3. PICK t : t = From(m, lo, n, Flag(c))
  OBVIOUS
<1>4. t.m = m /\ t.lo = lo /\ t.n = n /\ t.complete = Flag(c)
  BY <1>2, <1>3, OldDescentsAre
<1>5. PICK sub : /\ Sub(m, L, lo, n, c) = SubStep(sub, L, t)
                 /\ \A i, e : \A first \in Nat, size \in Nat :
                      Sub(i, L, first, size, e) = sub[From(i, first, size, Flag(e))]
  BY <1>2, <1>3, SubIsStep
<1>6. FromLeft(t) = From(m, lo, k, Flag(c)) /\ FromRight(t) = From(j, from, rest, Flag("part"))
  BY <1>1, <1>4, FlagIs, Zenon DEF FromLeft, FromRight
<1>7. sub[FromLeft(t)] = Sub(m, L, lo, k, c) /\ sub[FromRight(t)] = Sub(j, L, from, rest, "part")
  <2>1. lo \in Nat /\ k \in Nat /\ from \in Nat /\ rest \in Nat
    BY <1>1
  <2>2. \A i, e : \A first \in Nat, size \in Nat :
          Sub(i, L, first, size, e) = sub[From(i, first, size, Flag(e))]
    BY <1>5
  <2>3. Sub(m, L, lo, k, c) = sub[From(m, lo, k, Flag(c))]
    BY ONLY <2>1, <2>2, Zenon
  <2>4. Sub(j, L, from, rest, "part") = sub[From(j, from, rest, Flag("part"))]
    BY ONLY <2>1, <2>2, Zenon
  <2> QED BY <1>6, <2>3, <2>4
<1>8. Root(L, from, rest) = SubtreeRoot(L, lo + k, lo + n) /\ Root(L, lo, k) = SubtreeRoot(L, lo, lo + k)
  BY <1>1 DEF Root
<1>9. ASSUME m <= k
      PROVE  SubStep(sub, L, t) = Add(sub[FromLeft(t)], Root(L, from, rest))
  BY <1>1, <1>4, <1>8, <1>9, Zenon DEF SubStep, Add
<1>10. ASSUME ~(m <= k)
       PROVE  SubStep(sub, L, t) = Add(sub[FromRight(t)], Root(L, lo, k))
  BY <1>1, <1>4, <1>8, <1>10, Zenon DEF SubStep, Add
<1> QED BY <1>5, <1>7, <1>9, <1>10 DEF DownLeft, DownRight

LEMMA SubLeft ==
    ASSUME NEW L, NEW m, NEW lo, NEW n, NEW k, NEW from, NEW rest, NEW j, NEW c,
           OldSplits(L, m, lo, n, k, from, rest, j), m <= k
    PROVE  Sub(m, L, lo, n, c) = Add(Sub(m, L, lo, k, c), Root(L, from, rest))
<1>1. DownLeft(L, m, lo, n, k, from, rest, c)
  BY SubDown
<1> QED BY <1>1 DEF DownLeft

LEMMA SubRight ==
    ASSUME NEW L, NEW m, NEW lo, NEW n, NEW k, NEW from, NEW rest, NEW j, NEW c,
           OldSplits(L, m, lo, n, k, from, rest, j), ~(m <= k)
    PROVE  Sub(m, L, lo, n, c) = Add(Sub(j, L, from, rest, "part"), Root(L, lo, k))
<1>1. DownRight(L, m, lo, n, k, from, rest, j, c)
  BY SubDown
<1> QED BY <1>1 DEF DownRight

(* The largest power of two is even, or the tree has two leaves.           *)
LEMMA SplitsEvenly ==
    ASSUME NEW L, NEW n, NEW k, Splits(L, n, k), Len(L) \in Nat, n \in Nat, k \in Nat
    PROVE  k % 2 = 0 \/ (k = 1 /\ n = 2)
<1>1. n >= 2 /\ k = LargestPowerOfTwoBelow(n)
  BY DEF Splits
<1>2. CASE n = 2
  BY <1>1, <1>2, LargestBelowTwo
<1>3. CASE n >= 3
  <2>1. PICK half \in Nat : half = (n + 1) \div 2
    OBVIOUS
  <2>2. half >= 2
    BY <1>3, <2>1
  <2>3. PICK h \in Nat : h = LargestPowerOfTwoBelow(half)
    BY <2>2, LargestBelow DEF Pos
  <2>4. k = h * 2
    BY <1>1, <1>3, <2>1, <2>3, LargestHalved
  <2> QED BY <2>4
<1> QED BY <1>1, <1>2, <1>3

(* What a path from an old tree begins with, when the old tree ends in a   *)
(* leaf on the left: that leaf, which is left out when it is the old tree. *)
LastOld(m, leaves, lo, c) == IF c = "whole" /\ m = 1 THEN <<>> ELSE One(leaves[lo + m])

LEMMA LastOldIsSequence ==
    ASSUME NEW m, NEW L, NEW lo, NEW c
    PROVE  IsSequence(LastOld(m, L, lo, c))
<1>1. CASE c = "whole" /\ m = 1
  BY <1>1, NothingIsSequence DEF LastOld
<1>2. CASE ~(c = "whole" /\ m = 1)
  BY <1>2, OneLaws DEF LastOld
<1> QED BY <1>1, <1>2

SubIsPath(m, L, lo, n, c) ==
    Sub(m, L, lo, n, c) = Joined(LastOld(m, L, lo, c), Path(m - 1, L, lo, n))

SubIsPathFor(L, n) ==
    \A m, lo, c : /\ n \in 1..Len(L) /\ m \in Nat /\ m >= 1 /\ lo \in Nat
                  /\ m % 2 = 1 /\ (m < n \/ (m = 1 /\ n = 1))
                  => SubIsPath(m, L, lo, n, c)

LEMMA SubIsPathOne == ASSUME NEW L, Len(L) \in Nat PROVE SubIsPathFor(L, 1)
<1> SUFFICES ASSUME NEW m, NEW lo, NEW c, 1 \in 1..Len(L), m \in Nat, m >= 1, lo \in Nat,
                    m = 1
             PROVE  SubIsPath(m, L, lo, 1, c)
  BY DEF SubIsPathFor, Pos
<1>1. Sub(1, L, lo, 1, c) = IF c = "whole" THEN <<>> ELSE One(Root(L, lo, 1))
  <2>1. OldIn(Len(L), 1, lo, 1) /\ 1 >= 1
    BY DEF OldIn
  <2> QED BY <2>1, SubWhole
<1>2. Root(L, lo, 1) = L[lo + 1]
  BY RootUnfolds
<1>3. Path(m - 1, L, lo, 1) = <<>>
  <2>1. m - 1 \in Nat /\ Len(L) >= 1
    OBVIOUS
  <2> QED BY <2>1, PathAlone
<1>4. LastOld(m, L, lo, c) = IF c = "whole" THEN <<>> ELSE One(Root(L, lo, 1))
  BY <1>2 DEF LastOld
<1>5. Joined(LastOld(m, L, lo, c), <<>>) = LastOld(m, L, lo, c)
  BY LastOldIsSequence, JoinedNothing
<1> QED BY <1>1, <1>3, <1>4, <1>5 DEF SubIsPath

LEMMA SubIsPathStep ==
    ASSUME NEW L, NEW n, NEW m, NEW lo, NEW c,
           Len(L) \in Nat, n \in 1..Len(L), m \in Nat, m >= 1, lo \in Nat,
           m % 2 = 1, m < n,
           \A i \in Nat : i < n => SubIsPathFor(L, i)
    PROVE  SubIsPath(m, L, lo, n, c)
<1>1. PICK k \in Nat : Splits(L, n, k)
  <2>1. n \in Nat /\ n >= 2
    OBVIOUS
  <2> QED BY <2>1, LargestBelow DEF Splits, Pos
<1>2. /\ n \in Nat /\ k \in Nat /\ k < n /\ n - k \in Nat /\ n - k < n /\ 1 <= k
      /\ lo + k \in Nat /\ k \in 1..Len(L) /\ n - k \in 1..Len(L)
  BY <1>1, SplitSizes
<1>3. k % 2 = 0 \/ (k = 1 /\ n = 2)
  BY <1>1, <1>2, SplitsEvenly
<1>4. PICK i, j, rest, from : i = m - 1 /\ j = m - k /\ rest = n - k /\ from = lo + k
  OBVIOUS
<1>5. i \in Nat /\ (i < k <=> m <= k) /\ rest \in Nat /\ rest < n /\ rest \in 1..Len(L) /\ from \in Nat
  BY <1>2, <1>4
<1>6. OldSplits(L, m, lo, n, k, from, rest, j)
  BY <1>1, <1>2, <1>4 DEF OldSplits
<1>7. PICK s : s = LastOld(m, L, lo, c) /\ IsSequence(s)
  BY LastOldIsSequence
<1>8. CASE m <= k
  <2>1. Sub(m, L, lo, n, c) = Add(Sub(m, L, lo, k, c), Root(L, from, rest))
    BY ONLY <1>6, <1>8, SubLeft
  <2>2. Path(i, L, lo, n) = Add(Path(i, L, lo, k), Root(L, from, rest))
    <3>1. Path(i, L, lo, n) = Add(Path(i, L, lo, k), Root(L, lo + k, n - k))
      BY <1>1, <1>2, <1>5, <1>8, PathDown
    <3> QED BY <1>4, <3>1
  <2>3. Sub(m, L, lo, k, c) = Joined(s, Path(i, L, lo, k))
    <3>1. m < k \/ (m = 1 /\ k = 1)
      BY <1>2, <1>3, <1>8
    <3>2. SubIsPathFor(L, k)
      BY <1>2
    <3>3. SubIsPath(m, L, lo, k, c)
      BY <1>2, <3>1, <3>2 DEF SubIsPathFor
    <3> QED BY <1>4, <1>7, <3>3 DEF SubIsPath
  <2>4. IsSequence(Path(i, L, lo, k))
    BY <1>2, <1>5, PathIsSequence
  <2>5. Sub(m, L, lo, n, c) = Joined(s, Path(i, L, lo, n))
    BY ONLY <1>7, <2>1, <2>2, <2>3, <2>4, AddJoined
  <2> QED BY <1>4, <1>7, <2>5 DEF SubIsPath
<1>9. CASE ~(m <= k)
  <2>1. /\ j \in Nat /\ j >= 1 /\ j % 2 = 1 /\ j < rest /\ from + j = lo + m /\ m # 1
        /\ j - 1 \in Nat
    BY <1>2, <1>3, <1>4, <1>9
  <2>2. PICK up \in Nat : up = j - 1
    BY <2>1
  <2>3. Sub(m, L, lo, n, c) = Add(Sub(j, L, from, rest, "part"), Root(L, lo, k))
    BY ONLY <1>6, <1>9, SubRight
  <2>4. Path(i, L, lo, n) = Add(Path(up, L, from, rest), Root(L, lo, k))
    <3>1. Path(i, L, lo, n) = Add(Path(i - k, L, lo + k, n - k), Root(L, lo, k))
      BY <1>1, <1>2, <1>5, <1>9, PathDown
    <3>2. up = i - k
      BY <1>2, <1>4, <2>2
    <3> QED BY <1>4, <3>1, <3>2
  <2>5. Sub(j, L, from, rest, "part") = Joined(s, Path(up, L, from, rest))
    <3>1. SubIsPathFor(L, rest)
      BY <1>5
    <3>2. SubIsPath(j, L, from, rest, "part")
      BY <1>5, <2>1, <3>1 DEF SubIsPathFor
    <3>3. LastOld(j, L, from, "part") = s
      BY <1>7, <2>1 DEF LastOld
    <3> QED BY <2>2, <3>2, <3>3 DEF SubIsPath
  <2>6. IsSequence(Path(up, L, from, rest))
    BY <1>5, PathIsSequence
  <2>7. Sub(m, L, lo, n, c) = Joined(s, Path(i, L, lo, n))
    BY ONLY <1>7, <2>3, <2>4, <2>5, <2>6, AddJoined
  <2> QED BY <1>4, <1>7, <2>7 DEF SubIsPath
<1> QED BY <1>8, <1>9

LEMMA SubFromOdd ==
    ASSUME NEW L, Len(L) \in Nat
    PROVE  \A n \in Nat : SubIsPathFor(L, n)
<1> DEFINE S == {n \in Nat : SubIsPathFor(L, n)}
<1>1. ASSUME NEW n \in Nat, \A i \in Nat : i < n => i \in S
      PROVE  n \in S
  <2>0. \A i \in Nat : i < n => SubIsPathFor(L, i)
    BY <1>1
  <2>1. CASE n = 1
    BY <2>1, SubIsPathOne
  <2>2. CASE n # 1
    <3>1. ASSUME NEW m, NEW lo, NEW c, n \in 1..Len(L), m \in Nat, m >= 1, lo \in Nat,
                 m % 2 = 1, m < n
          PROVE  SubIsPath(m, L, lo, n, c)
      BY <2>0, <3>1, SubIsPathStep
    <3> QED BY <2>2, <3>1 DEF SubIsPathFor
  <2> QED BY <2>1, <2>2
<1>2. \A n \in Nat : n \in S
  <2> HIDE DEF S
  <2> QED BY <1>1, StrongInduction
<1> QED BY <1>2
-----------------------------------------------------------------------------
(* An old tree with an even number of leaves is seen on the level above.   *)
SubLifts(m, L, lo, n, c) ==
    Sub(m, L, lo, n, c) = Sub(m \div 2, PairUp(L), lo \div 2, (n + 1) \div 2, c)

SubLiftsFor(L, n) ==
    \A m, lo, c : /\ m \in Nat /\ m >= 1 /\ m % 2 = 0 /\ m <= n /\ lo \in Nat /\ Lifts(L, lo, n)
                  => SubLifts(m, L, lo, n, c)

LEMMA SubLiftsWhole ==
    ASSUME NEW L, NEW n, NEW lo, NEW c,
           Len(L) \in Nat, n \in Nat, n >= 1, n % 2 = 0, lo \in Nat, Lifts(L, lo, n)
    PROVE  SubLifts(n, L, lo, n, c)
<1>1. lo % 2 = 0 /\ lo + n <= Len(L)
  BY DEF Lifts
<1>2. PICK half \in Nat, from \in Nat : half = (n + 1) \div 2 /\ from = lo \div 2
  OBVIOUS
<1>3. n \div 2 = half /\ half >= 1 /\ half <= (Len(L) + 1) \div 2
  BY <1>1, <1>2
<1>4. PICK P : P = PairUp(L)
  OBVIOUS
<1>5. Len(P) \in Nat /\ half <= Len(P)
  BY <1>3, <1>4, PairUpLen
<1>6. Root(L, lo, n) = Root(P, from, half)
  BY <1>2, <1>4, RootOneUp
<1>7. OldIn(Len(L), n, lo, n) /\ n >= n
  BY <1>1 DEF OldIn
<1>8. OldIn(Len(P), half, from, half) /\ half >= half
  BY <1>3, <1>5 DEF OldIn
<1>9. Sub(n, L, lo, n, c) = IF c = "whole" THEN <<>> ELSE One(Root(L, lo, n))
  BY <1>7, SubWhole
<1>10. Sub(half, P, from, half, c) = IF c = "whole" THEN <<>> ELSE One(Root(P, from, half))
  BY <1>8, SubWhole
<1>11. Sub(n, L, lo, n, c) = Sub(half, P, from, half, c)
  BY ONLY <1>6, <1>9, <1>10
<1> QED BY <1>2, <1>3, <1>4, <1>11 DEF SubLifts

LEMMA SubLiftsStep ==
    ASSUME NEW L, NEW n, NEW m, NEW lo, NEW c,
           Len(L) \in Nat, n \in Nat, m \in Nat, m >= 1, m % 2 = 0, m < n, lo \in Nat,
           Lifts(L, lo, n), \A i \in Nat : i < n => SubLiftsFor(L, i)
    PROVE  SubLifts(m, L, lo, n, c)
<1>0. n >= 3
  OBVIOUS
<1>1. PICK h \in Nat : /\ h >= 1 /\ h * 2 < n
                       /\ Splits(L, n, h * 2) /\ Splits(PairUp(L), (n + 1) \div 2, h)
                       /\ Lifts(L, lo, h * 2) /\ Lifts(L, lo + h * 2, n - h * 2)
  BY <1>0, SplitsHalved
<1>2. /\ lo \div 2 \in Nat /\ (lo + h * 2) \div 2 = (lo \div 2) + h
      /\ (h * 2 + 1) \div 2 = h /\ (n - h * 2 + 1) \div 2 = ((n + 1) \div 2) - h
      /\ m \div 2 \in Nat /\ ~(m < h * 2) => (m - h * 2) \div 2 = (m \div 2) - h
  BY <1>1, LiftSplits
<1>3. PICK k \in Nat, up \in Nat, from \in Nat, half \in Nat :
        k = h * 2 /\ up = m \div 2 /\ from = lo \div 2 /\ half = (n + 1) \div 2
  BY <1>2
<1>4. PICK first \in Nat, rest \in Nat, top \in Nat, top2 \in Nat, j \in Int, upj \in Int :
        /\ first = lo + k /\ rest = n - k /\ top = from + h /\ top2 = half - h
        /\ j = m - k /\ upj = up - h
  <2>1. half - h \in Nat
    BY <1>1, <1>2, <1>3
  <2> QED BY <1>1, <1>3, <2>1
<1>5. /\ k >= 1 /\ k < n /\ k % 2 = 0 /\ rest >= 1 /\ rest < n
      /\ first \div 2 = top /\ (k + 1) \div 2 = h /\ (rest + 1) \div 2 = top2
      /\ (up <= h <=> m <= k) /\ up >= 1 /\ up < half
  BY <1>1, <1>2, <1>3, <1>4
<1>6. PICK P : P = PairUp(L)
  OBVIOUS
<1>7. /\ Splits(L, n, k) /\ Splits(P, half, h) /\ Lifts(L, lo, k) /\ Lifts(L, first, rest)
      /\ Len(P) \in Nat
  BY <1>1, <1>3, <1>4, <1>6, PairUpLen
<1>8. Root(L, lo, k) = Root(P, from, h)
  BY <1>3, <1>5, <1>6, <1>7, RootOneUp
<1>9. Root(L, first, rest) = Root(P, top, top2)
  BY <1>5, <1>6, <1>7, RootOneUp
<1>10. OldSplits(L, m, lo, n, k, first, rest, j)
  BY <1>4, <1>7 DEF OldSplits
<1>11. OldSplits(P, up, from, half, h, top, top2, upj)
  BY <1>4, <1>5, <1>7 DEF OldSplits
<1>12. CASE m <= k
  <2>1. Sub(m, L, lo, n, c) = Add(Sub(m, L, lo, k, c), Root(L, first, rest))
    BY ONLY <1>10, <1>12, SubLeft
  <2>2. Sub(up, P, from, half, c) = Add(Sub(up, P, from, h, c), Root(P, top, top2))
    <3>1. up <= h
      BY <1>5, <1>12
    <3> QED BY ONLY <1>11, <3>1, SubLeft
  <2>3. Sub(m, L, lo, k, c) = Sub(up, P, from, h, c)
    <3>1. SubLiftsFor(L, k)
      BY <1>5
    <3>2. SubLifts(m, L, lo, k, c)
      BY <1>7, <1>12, <3>1 DEF SubLiftsFor
    <3> QED BY <1>3, <1>5, <1>6, <3>2 DEF SubLifts
  <2>4. Sub(m, L, lo, n, c) = Sub(up, P, from, half, c)
    BY ONLY <1>9, <2>1, <2>2, <2>3
  <2> QED BY <1>3, <1>6, <2>4 DEF SubLifts
<1>13. CASE ~(m <= k)
  <2>1. Sub(m, L, lo, n, c) = Add(Sub(j, L, first, rest, "part"), Root(L, lo, k))
    BY ONLY <1>10, <1>13, SubRight
  <2>2. Sub(up, P, from, half, c) = Add(Sub(upj, P, top, top2, "part"), Root(P, from, h))
    <3>1. ~(up <= h)
      BY <1>5, <1>13
    <3> QED BY ONLY <1>11, <3>1, SubRight
  <2>3. Sub(j, L, first, rest, "part") = Sub(upj, P, top, top2, "part")
    <3>1. SubLiftsFor(L, rest)
      BY <1>5
    <3>2. j \in Nat /\ j >= 1 /\ j % 2 = 0 /\ j <= rest /\ j \div 2 = upj
      BY <1>2, <1>3, <1>4, <1>5, <1>13
    <3>3. SubLifts(j, L, first, rest, "part")
      BY <1>7, <3>1, <3>2 DEF SubLiftsFor
    <3> QED BY <1>5, <1>6, <3>2, <3>3 DEF SubLifts
  <2>4. Sub(m, L, lo, n, c) = Sub(up, P, from, half, c)
    BY ONLY <1>8, <2>1, <2>2, <2>3
  <2> QED BY <1>3, <1>6, <2>4 DEF SubLifts
<1> QED BY <1>12, <1>13

LEMMA SubFromEven ==
    ASSUME NEW L, Len(L) \in Nat
    PROVE  \A n \in Nat : SubLiftsFor(L, n)
<1> DEFINE S == {n \in Nat : SubLiftsFor(L, n)}
<1>1. ASSUME NEW n \in Nat, \A i \in Nat : i < n => i \in S
      PROVE  n \in S
  <2>0. \A i \in Nat : i < n => SubLiftsFor(L, i)
    BY <1>1
  <2>1. ASSUME NEW m, NEW lo, NEW c, m \in Nat, m >= 1, m % 2 = 0, m <= n, lo \in Nat,
               Lifts(L, lo, n)
        PROVE  SubLifts(m, L, lo, n, c)
    <3>1. CASE m = n
      BY <2>1, <3>1, SubLiftsWhole
    <3>2. CASE m # n
      <4>1. m < n
        BY <2>1, <3>2
      <4> QED BY <2>0, <2>1, <4>1, SubLiftsStep
    <3> QED BY <3>1, <3>2
  <2> QED BY <2>1 DEF SubLiftsFor
<1>2. \A n \in Nat : n \in S
  <2> HIDE DEF S
  <2> QED BY <1>1, StrongInduction
<1> QED BY <1>2
-----------------------------------------------------------------------------
(* Consistency: the walk ends at both roots exactly when the old root is   *)
(* that of the first leaves and the path is the one generated for them.    *)

(* The walk from the last leaf of an old tree. *)
LinkedWalk(m, n, h, t, f, root) ==
    /\ WalkBoth(BothState(m, n - 1, h, h), t).ok
    /\ WalkBoth(BothState(m, n - 1, h, h), t).sn = 0
    /\ WalkBoth(BothState(m, n - 1, h, h), t).fr = f
    /\ WalkBoth(BothState(m, n - 1, h, h), t).sr = root

LEMMA PrefixRoot ==
    ASSUME NEW L, NEW m, NEW r, NEW n,
           n \in Nat, Len(L) = n, m \in Nat, m < n
    PROVE  Old(m, n - 1, L[m + 1], r, TreePath(m, L)) = Root(L, 0, m + 1)
<1>1. PICK O : O = [i \in 1..(m + 1) |-> L[i]]
  OBVIOUS
<1>2. Len(O) = m + 1 /\ \A i \in 1..(m + 1) : O[i] = L[i]
  BY <1>1
<1>3. OldBegins(O, L, m) /\ O[m + 1] = L[m + 1]
  BY <1>2 DEF OldBegins
<1>4. OldRootOf(n)
  BY OldRoot
<1>5. Old(m, n - 1, L[m + 1], r, TreePath(m, L)) = TreeRoot(O)
  BY <1>3, <1>4 DEF OldRootOf
<1>6. TreeRoot(O) = Root(O, 0, m + 1)
  BY <1>2 DEF TreeRoot
<1>7. PICK size \in Nat : size = m + 1
  OBVIOUS
<1>8. size \in 1..Len(O) /\ size \in 1..Len(L) /\ Len(O) \in Nat /\ Len(L) \in Nat
      /\ \A i \in (0 + 1)..(0 + size) : O[i] = L[i]
  BY <1>2, <1>7
<1>9. Root(O, 0, size) = Root(L, 0, size)
  BY ONLY <1>8, size \in Nat, 0 \in Nat, RootsTell
<1> QED BY <1>5, <1>6, <1>7, <1>9

LEMMA LinkedWalks ==
    ASSUME NEW L, NEW m, NEW h, NEW t, NEW f, NEW n,
           n \in Nat, Len(L) = n, m \in Nat, m < n, IsSequence(t)
    PROVE  LinkedWalk(m, n, h, t, f, TreeRoot(L)) <=>
             h = L[m + 1] /\ t = TreePath(m, L) /\ f = Root(L, 0, m + 1)
<1>1. PICK both : both = WalkBoth(BothState(m, n - 1, h, h), t)
  OBVIOUS
<1>2. LinkedWalk(m, n, h, t, f, TreeRoot(L)) <=>
        Reaches(m, n - 1, h, t, TreeRoot(L)) /\ both.fr = f
  <2>1. Agree(both, WalkAudit(AuditState(m, n - 1, h), t))
    BY <1>1, AgreeAtEnd
  <2> QED BY <1>1, <2>1 DEF LinkedWalk, Reaches, Agree
<1>3. Reaches(m, n - 1, h, t, TreeRoot(L)) <=> h = L[m + 1] /\ t = TreePath(m, L)
  <2>1. Included(n)
    BY Inclusion
  <2> QED BY <2>1 DEF Included
<1>4. ASSUME h = L[m + 1], t = TreePath(m, L)
      PROVE  both.fr = Root(L, 0, m + 1)
  BY <1>1, <1>4, PrefixRoot DEF Old
<1> QED BY <1>2, <1>3, <1>4

(* What verifyConsistency asks of the path. *)
Links(m, n, f, q, root) ==
    /\ q # <<>>
    /\ ConsistencyEnd(m, n, f, q).ok /\ ConsistencyEnd(m, n, f, q).sn = 0
    /\ ConsistencyEnd(m, n, f, q).fr = f /\ ConsistencyEnd(m, n, f, q).sr = root

OddOld(m, i, n) == m \in Nat /\ i \in Nat /\ n \in Nat /\ m = i + 1 /\ m < n /\ m % 2 = 1

(* The walk follows this path, its first hash being the seed. *)
WalksAlong(path, m, i, n, f, q) ==
    ConsistencyEnd(m, n, f, q) = WalkBoth(BothState(i, n - 1, Head(path), Head(path)), Tail(path))

LEMMA OddEnd ==
    ASSUME NEW m, NEW i, NEW n, NEW f, NEW q, OddOld(m, i, n)
    PROVE  /\ m = 1 => WalksAlong(Joined(One(f), q), m, i, n, f, q)
           /\ m # 1 => WalksAlong(q, m, i, n, f, q)
<1>1. m \in Pos /\ m - 1 = i /\ i \in Nat /\ m % 2 = 1 /\ n - 1 \in Nat /\ ~(i % 2 = 1)
  BY DEF Pos, OddOld
<1>2. IsPowerOfTwo(m) <=> m = 1
  BY <1>1, PowerOfTwoHalved
<1>3. ShiftWhileOdd(m - 1, n - 1).fn = i /\ ShiftWhileOdd(m - 1, n - 1).sn = n - 1
  <2>1. ShiftWhile(1, i, n - 1) = [fn |-> i, sn |-> n - 1]
    BY <1>1, ShiftUnfolds
  <2> QED BY <1>1, <2>1 DEF ShiftWhileOdd
<1>4. PICK s : s = n - 1
  OBVIOUS
<1>5. /\ ShiftWhileOdd(m - 1, n - 1).fn = i /\ ShiftWhileOdd(m - 1, n - 1).sn = s
  BY <1>3, <1>4
<1>6. CASE m = 1
  <2>1. IsPowerOfTwo(m)
    BY <1>2, <1>6
  <2>2. ConsistencyEnd(m, n, f, q) =
          WalkBoth(BothState(i, s, Head(<<f>> \o q), Head(<<f>> \o q)), Tail(<<f>> \o q))
    BY ONLY <1>5, <2>1, Zenon DEF ConsistencyEnd, BothState
  <2> QED BY <1>4, <1>6, <2>2, Zenon DEF WalksAlong, Joined, One
<1>7. CASE m # 1
  <2>1. ~IsPowerOfTwo(m)
    BY <1>2, <1>7
  <2>2. ConsistencyEnd(m, n, f, q) = WalkBoth(BothState(i, s, Head(q), Head(q)), Tail(q))
    BY ONLY <1>5, <2>1, Zenon DEF ConsistencyEnd, BothState
  <2> QED BY <1>4, <1>7, <2>2, Zenon DEF WalksAlong
<1> QED BY <1>6, <1>7, Zenon

EvenOld(m, n, up, half) ==
    /\ m \in Nat /\ n \in Nat /\ 1 <= m /\ m < n /\ m % 2 = 0
    /\ up = m \div 2 /\ half = (n + 1) \div 2

LEMMA EvenEnd ==
    ASSUME NEW m, NEW n, NEW up, NEW half, NEW f, NEW q, EvenOld(m, n, up, half)
    PROVE  ConsistencyEnd(m, n, f, q) = ConsistencyEnd(up, half, f, q)
<1>1. /\ m \in Pos /\ m % 2 = 0 /\ m \div 2 = up
      /\ m - 1 \in Nat /\ n - 1 \in Nat /\ (m - 1) % 2 = 1 /\ m - 1 # 0
      /\ (m - 1) \div 2 = up - 1 /\ (n - 1) \div 2 = half - 1
  BY DEF Pos, EvenOld
<1>2. IsPowerOfTwo(m) <=> IsPowerOfTwo(up)
  BY <1>1, PowerOfTwoHalved
<1>3. ShiftWhileOdd(m - 1, n - 1) = ShiftWhileOdd(up - 1, half - 1)
  <2>1. PICK a \in Nat, b \in Nat : a = m - 1 /\ b = n - 1
    BY <1>1
  <2>2. ShiftWhile(1, a, b) = ShiftWhile(1, a \div 2, b \div 2)
    BY <1>1, <2>1, ShiftUnfolds
  <2>3. a \div 2 = up - 1 /\ b \div 2 = half - 1
    BY <1>1, <2>1
  <2> QED BY ONLY <2>1, <2>2, <2>3 DEF ShiftWhileOdd
<1>4. CASE IsPowerOfTwo(m)
  BY ONLY <1>2, <1>3, <1>4, Zenon DEF ConsistencyEnd
<1>5. CASE ~IsPowerOfTwo(m)
  BY ONLY <1>2, <1>3, <1>5, Zenon DEF ConsistencyEnd
<1> QED BY <1>4, <1>5

Linked(m) ==
    \A L, f, q : Len(L) \in Nat /\ m < Len(L) /\ IsSequence(q) =>
      (Links(m, Len(L), f, q, TreeRoot(L)) <=>
         f = Root(L, 0, m) /\ q = Sub(m, L, 0, Len(L), "whole"))

LEMMA LinkedOdd ==
    ASSUME NEW L, NEW f, NEW q, NEW m, NEW n,
           n \in Nat, Len(L) = n, m \in Nat, m < n, m % 2 = 1, IsSequence(q)
    PROVE  Links(m, n, f, q, TreeRoot(L)) <=>
             f = Root(L, 0, m) /\ q = Sub(m, L, 0, n, "whole")
<1>1. PICK i \in Nat : m = i + 1 /\ i < n /\ i = m - 1
  OBVIOUS
<1>0. OddOld(m, i, n)
  BY <1>1 DEF OddOld
<1>2. Sub(m, L, 0, n, "whole") = Joined(LastOld(m, L, 0, "whole"), TreePath(i, L))
  <2>1. SubIsPathFor(L, n)
    BY SubFromOdd
  <2>2. SubIsPath(m, L, 0, n, "whole")
    BY <2>1 DEF SubIsPathFor
  <2> QED BY <1>1, <2>2 DEF SubIsPath, TreePath
<1>3. IsSequence(TreePath(i, L)) /\ TreePath(i, L) # <<>>
  <2>1. Len(L) \in Nat /\ Len(L) >= 1 /\ Len(L) # 1
    BY <1>1
  <2> QED BY <2>1, TreePathIsSequence
<1>4. CASE m = 1
  <2>1. LastOld(m, L, 0, "whole") = <<>>
    BY <1>4 DEF LastOld
  <2>2. Sub(m, L, 0, n, "whole") = TreePath(i, L)
    BY <1>2, <1>3, <2>1, JoinedNothing
  <2>3. Head(Joined(One(f), q)) = f /\ Tail(Joined(One(f), q)) = q
    BY FirstAndRestOf
  <2>4. ConsistencyEnd(m, n, f, q) = WalkBoth(BothState(i, n - 1, f, f), q)
    <3>1. WalksAlong(Joined(One(f), q), m, i, n, f, q)
      BY ONLY <1>0, <1>4, OddEnd
    <3> QED BY ONLY <2>3, <3>1, Zenon DEF WalksAlong
  <2>5. Links(m, n, f, q, TreeRoot(L)) <=> q # <<>> /\ LinkedWalk(i, n, f, q, f, TreeRoot(L))
    BY ONLY <2>4, Zenon DEF Links, LinkedWalk
  <2>6. LinkedWalk(i, n, f, q, f, TreeRoot(L)) <=>
          f = L[m] /\ q = TreePath(i, L) /\ f = Root(L, 0, m)
    BY <1>1, LinkedWalks
  <2>7. Root(L, 0, m) = L[m]
    <3>1. 1 \in 1..Len(L)
      BY <1>4
    <3> QED BY <1>4, <3>1, RootUnfolds
  <2> QED BY <1>3, <2>2, <2>5, <2>6, <2>7
<1>5. CASE m # 1
  <2>1. Sub(m, L, 0, n, "whole") = Joined(One(L[m]), TreePath(i, L))
    BY <1>2, <1>5 DEF LastOld
  <2>2. CASE q = <<>>
    <3>1. q # Sub(m, L, 0, n, "whole")
      BY <1>3, <2>1, <2>2, FirstAndRestOf
    <3> QED BY <2>2, <3>1 DEF Links
  <2>3. CASE q # <<>>
    <3>1. PICK h, t : IsSequence(t) /\ q = Joined(One(h), t)
      BY <2>3, HasFirstAndRest
    <3>2. Head(q) = h /\ Tail(q) = t
      BY <3>1, FirstAndRestOf
    <3>3. ConsistencyEnd(m, n, f, q) = WalkBoth(BothState(i, n - 1, h, h), t)
      <4>1. WalksAlong(q, m, i, n, f, q)
        BY ONLY <1>0, <1>5, OddEnd
      <4> QED BY ONLY <3>2, <4>1, Zenon DEF WalksAlong
    <3>4. Links(m, n, f, q, TreeRoot(L)) <=> LinkedWalk(i, n, h, t, f, TreeRoot(L))
      BY ONLY <2>3, <3>3, Zenon DEF Links, LinkedWalk
    <3>5. LinkedWalk(i, n, h, t, f, TreeRoot(L)) <=>
            h = L[m] /\ t = TreePath(i, L) /\ f = Root(L, 0, m)
      BY <1>1, <3>1, LinkedWalks
    <3>6. q = Sub(m, L, 0, n, "whole") <=> h = L[m] /\ t = TreePath(i, L)
      BY <1>3, <2>1, <3>1, FirstAndRestTell
    <3> QED BY <3>4, <3>5, <3>6
  <2> QED BY <2>2, <2>3
<1> QED BY <1>4, <1>5

LEMMA LinkedEven ==
    ASSUME NEW L, NEW f, NEW q, NEW m, NEW n, NEW up,
           n \in Nat, Len(L) = n, m \in Nat, 1 <= m, m < n, m % 2 = 0, IsSequence(q),
           up = m \div 2, Linked(up)
    PROVE  Links(m, n, f, q, TreeRoot(L)) <=>
             f = Root(L, 0, m) /\ q = Sub(m, L, 0, n, "whole")
<1>1. PICK half \in Nat : half = (n + 1) \div 2
  OBVIOUS
<1>2. PICK P : P = PairUp(L)
  OBVIOUS
<1>3. Len(P) = half /\ TreeRoot(L) = TreeRoot(P) /\ up < half
  BY <1>1, <1>2, TreeUp
<1>4. ConsistencyEnd(m, n, f, q) = ConsistencyEnd(up, half, f, q)
  <2>1. EvenOld(m, n, up, half)
    BY <1>1 DEF EvenOld
  <2> QED BY ONLY <2>1, EvenEnd
<1>5. Links(m, n, f, q, TreeRoot(L)) <=> Links(up, half, f, q, TreeRoot(P))
  BY ONLY <1>3, <1>4, Zenon DEF Links
<1>6. Lifts(L, 0, m) /\ Lifts(L, 0, n) /\ 0 \div 2 = 0 /\ (m + 1) \div 2 = up
  BY DEF Lifts
<1>7. Root(L, 0, m) = Root(P, 0, up)
  BY <1>2, <1>6, RootOneUp
<1>8. Sub(m, L, 0, n, "whole") = Sub(up, P, 0, half, "whole")
  <2>1. SubLiftsFor(L, n)
    BY SubFromEven
  <2>2. SubLifts(m, L, 0, n, "whole")
    BY <1>6, <2>1 DEF SubLiftsFor
  <2> QED BY <1>1, <1>2, <1>6, <2>2 DEF SubLifts
<1>9. Links(up, half, f, q, TreeRoot(P)) <=>
        f = Root(P, 0, up) /\ q = Sub(up, P, 0, half, "whole")
  BY <1>3 DEF Linked
<1> QED BY <1>5, <1>7, <1>8, <1>9

(* Consistency for old trees of every size. *)
THEOREM Consistency == \A m \in Nat : m >= 1 => Linked(m)
<1> DEFINE S == {m \in Nat : m >= 1 => Linked(m)}
<1>1. ASSUME NEW m \in Nat, \A i \in Nat : i < m => i \in S
      PROVE  m \in S
  <2> SUFFICES ASSUME m >= 1
               PROVE  Linked(m)
    OBVIOUS
  <2>1. CASE m % 2 = 1
    <3>1. ASSUME NEW L, NEW f, NEW q, Len(L) \in Nat, m < Len(L), IsSequence(q)
          PROVE  Links(m, Len(L), f, q, TreeRoot(L)) <=>
                   f = Root(L, 0, m) /\ q = Sub(m, L, 0, Len(L), "whole")
      BY <2>1, <3>1, LinkedOdd
    <3> QED BY <3>1 DEF Linked
  <2>2. CASE m % 2 = 0
    <3>1. PICK up \in Nat : up = m \div 2
      OBVIOUS
    <3>2. Linked(up)
      BY <1>1, <2>2, <3>1
    <3>3. ASSUME NEW L, NEW f, NEW q, Len(L) \in Nat, m < Len(L), IsSequence(q)
          PROVE  Links(m, Len(L), f, q, TreeRoot(L)) <=>
                   f = Root(L, 0, m) /\ q = Sub(m, L, 0, Len(L), "whole")
      BY <2>2, <3>1, <3>2, <3>3, LinkedEven
    <3> QED BY <3>3 DEF Linked
  <2> QED BY <2>1, <2>2
<1>2. \A m \in Nat : m \in S
  <2> HIDE DEF S
  <2> QED BY <1>1, StrongInduction
<1> QED BY <1>2
-----------------------------------------------------------------------------
(* The verifiers themselves.                                               *)

LEMMA LogRootIs ==
    ASSUME NEW L, Len(L) \in Nat, Len(L) >= 1
    PROVE  MerkleRootFromLeafHashes(L) = TreeRoot(L)
<1>1. L # <<>>
  BY NothingIsSequence
<1>2. 0 + Len(L) = Len(L)
  OBVIOUS
<1> QED BY <1>1, <1>2 DEF MerkleRootFromLeafHashes, TreeRoot, Root

LEMMA PathIs ==
    ASSUME NEW L, NEW m, Len(L) \in Nat
    PROVE  /\ InclusionPath(m, L) = TreePath(m, L)
           /\ ConsistencyPath(m, L) = Sub(m, L, 0, Len(L), "whole")
<1>1. 0 + Len(L) = Len(L)
  OBVIOUS
<1>2. Flag("whole") = TRUE
  BY FlagIs
<1> QED BY <1>1, <1>2 DEF InclusionPath, TreePath, Path, ConsistencyPath, Sub

(* verifyInclusion accepts a leaf of the log at its index with the path    *)
(* inclusionPath makes for it, and nothing else.                           *)
THEOREM InclusionExact ==
    ASSUME NEW L, NEW m, NEW r, NEW q,
           Len(L) \in Nat, m \in Nat, m < Len(L), IsSequence(q)
    PROVE  VerifyInclusion(r, m, Len(L), q, MerkleRootFromLeafHashes(L)) <=>
             r = L[m + 1] /\ q = InclusionPath(m, L)
<1>1. PICK n \in Nat : n = Len(L)
  OBVIOUS
<1>2. n >= 1 /\ m < n
  BY <1>1
<1>3. Included(n)
  BY <1>2, Inclusion
<1>4. Reaches(m, n - 1, r, q, TreeRoot(L)) <=> r = L[m + 1] /\ q = TreePath(m, L)
  BY <1>1, <1>2, <1>3 DEF Included
<1>5. VerifyInclusion(r, m, n, q, TreeRoot(L)) <=> Reaches(m, n - 1, r, q, TreeRoot(L))
  <2>1. m >= 0 /\ m < n
    BY <1>2
  <2> QED BY ONLY <2>1, Zenon DEF VerifyInclusion, Reaches, AuditState
<1>6. MerkleRootFromLeafHashes(L) = TreeRoot(L)
  BY <1>1, <1>2, LogRootIs
<1> QED BY <1>1, <1>4, <1>5, <1>6, PathIs

(* verifyConsistency accepts the root of the log's own first m leaves with *)
(* the path consistencyPath makes for them, and nothing else.              *)
THEOREM ConsistencyExact ==
    ASSUME NEW L, NEW O, NEW m, NEW f, NEW q,
           Len(L) \in Nat, m \in Nat, m >= 1, m < Len(L), IsSequence(q),
           Len(O) = m, \A i \in 1..m : O[i] = L[i]
    PROVE  VerifyConsistency(m, Len(L), f, MerkleRootFromLeafHashes(L), q) <=>
             f = MerkleRootFromLeafHashes(O) /\ q = ConsistencyPath(m, L)
<1>1. PICK n \in Nat : n = Len(L)
  OBVIOUS
<1>2. Linked(m)
  BY Consistency
<1>3. Links(m, n, f, q, TreeRoot(L)) <=> f = Root(L, 0, m) /\ q = Sub(m, L, 0, n, "whole")
  BY <1>1, <1>2 DEF Linked
<1>4. VerifyConsistency(m, n, f, TreeRoot(L), q) <=> Links(m, n, f, q, TreeRoot(L))
  <2>1. 0 < m /\ m < n
    BY <1>1
  <2> QED BY ONLY <2>1, Zenon DEF VerifyConsistency, Links
<1>5. MerkleRootFromLeafHashes(L) = TreeRoot(L)
  BY LogRootIs
<1>6. MerkleRootFromLeafHashes(O) = Root(L, 0, m)
  <2>1. MerkleRootFromLeafHashes(O) = Root(O, 0, m)
    <3>1. Len(O) \in Nat /\ Len(O) >= 1
      OBVIOUS
    <3> QED BY <3>1, LogRootIs DEF TreeRoot
  <2>2. /\ m \in 1..Len(O) /\ m \in 1..Len(L) /\ Len(O) \in Nat /\ Len(L) \in Nat
        /\ \A i \in (0 + 1)..(0 + m) : O[i] = L[i]
    OBVIOUS
  <2>3. Root(O, 0, m) = Root(L, 0, m)
    BY ONLY <2>2, m \in Nat, 0 \in Nat, RootsTell
  <2> QED BY <2>1, <2>3
<1> QED BY <1>1, <1>3, <1>4, <1>5, <1>6, PathIs

(* The paths that are made are sequences. *)
LEMMA InclusionPathIsSequence ==
    ASSUME NEW L, NEW m, Len(L) \in Nat, m \in Nat, m < Len(L)
    PROVE  IsSequence(InclusionPath(m, L))
<1>1. Len(L) >= 1
  OBVIOUS
<1> QED BY <1>1, TreePathIsSequence, PathIs

SubsAreSequences(m) ==
    \A L : Len(L) \in Nat /\ m < Len(L) => IsSequence(Sub(m, L, 0, Len(L), "whole"))

LEMMA SubIsSequence == \A m \in Nat : m >= 1 => SubsAreSequences(m)
<1> DEFINE S == {m \in Nat : m >= 1 => SubsAreSequences(m)}
<1>1. ASSUME NEW m \in Nat, \A i \in Nat : i < m => i \in S
      PROVE  m \in S
  <2> SUFFICES ASSUME m >= 1, NEW L, Len(L) \in Nat, m < Len(L)
               PROVE  IsSequence(Sub(m, L, 0, Len(L), "whole"))
    BY DEF SubsAreSequences
  <2>0. PICK n \in Nat : n = Len(L)
    OBVIOUS
  <2>1. CASE m % 2 = 1
    <3>1. SubIsPathFor(L, n)
      BY <2>0, SubFromOdd
    <3>2. SubIsPath(m, L, 0, n, "whole")
      BY <2>0, <2>1, <3>1 DEF SubIsPathFor
    <3>3. IsSequence(Path(m - 1, L, 0, n))
      <4>1. m - 1 \in Nat /\ n \in 1..Len(L)
        BY <2>0
      <4> QED BY <4>1, PathIsSequence
    <3>4. IsSequence(LastOld(m, L, 0, "whole"))
      BY LastOldIsSequence
    <3> QED BY <2>0, <3>2, <3>3, <3>4, JoinedLaws DEF SubIsPath
  <2>2. CASE m % 2 = 0
    <3>1. PICK up \in Nat, half \in Nat : up = m \div 2 /\ half = (n + 1) \div 2
      OBVIOUS
    <3>2. PICK P : P = PairUp(L)
      OBVIOUS
    <3>3. Len(P) = half /\ up < half /\ up >= 1 /\ up < m
      BY <2>0, <2>2, <3>1, <3>2, PairUpLen
    <3>4. SubsAreSequences(up)
      BY <1>1, <3>3
    <3>5. IsSequence(Sub(up, P, 0, half, "whole"))
      BY <3>3, <3>4 DEF SubsAreSequences
    <3>6. SubLifts(m, L, 0, n, "whole")
      <4>1. Lifts(L, 0, n) /\ SubLiftsFor(L, n)
        BY <2>0, SubFromEven DEF Lifts
      <4> QED BY <2>0, <2>2, <4>1 DEF SubLiftsFor
    <3> QED BY <2>0, <3>1, <3>2, <3>5, <3>6 DEF SubLifts
  <2> QED BY <2>1, <2>2
<1>2. \A m \in Nat : m \in S
  <2> HIDE DEF S
  <2> QED BY <1>1, StrongInduction
<1> QED BY <1>2

LEMMA ConsistencyPathIsSequence ==
    ASSUME NEW L, NEW m, Len(L) \in Nat, m \in Nat, m >= 1, m < Len(L)
    PROVE  IsSequence(ConsistencyPath(m, L))
BY SubIsSequence, PathIs DEF SubsAreSequences
=============================================================================
