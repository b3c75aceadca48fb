--------------------------- MODULE LogAudit_proofs ---------------------------
(***************************************************************************)
(* What those who check a transparency log can rely on, for logs of every  *)
(* size: a relying party that follows it head by head (LogClient), with    *)
(* any number of histories an operator may keep, and an auditor who is     *)
(* handed any proof whatever (MerkleAudit).  Both rest on the exactness of *)
(* the two verifiers, which is proved in Merkle_proofs.  Then the second   *)
(* opinions: the credit tree's verifier, exact in its own way, and the     *)
(* conformance suite's, which decides as the library does.                 *)
(***************************************************************************)
EXTENDS LogClient, MerkleAudit, Merkle_proofs

-----------------------------------------------------------------------------
(* The credit tree.                                                        *)

ClimbedUp(was) == [layer |-> NextLayer(was.layer), idx |-> was.idx \div 2]

Turns(f, L, i, d) ==
    f = [k \in 0..d |-> IF k = 0 THEN [layer |-> L, idx |-> i] ELSE ClimbedUp(f[k - 1])]

LEMMA TurnsExist == ASSUME NEW L, NEW i PROVE \A d \in Nat : \E f : Turns(f, L, i, d)
<1> DEFINE S == {d \in Nat : \E f : Turns(f, L, i, d)}
           start == [layer |-> L, idx |-> i]
<1>1. 0 \in S
  <2>1. Turns([k \in 0..0 |-> start], L, i, 0)
    BY DEF Turns
  <2> QED BY <2>1
<1>2. ASSUME NEW d \in Nat, d \in S
      PROVE  d + 1 \in S
  <2>1. PICK f : Turns(f, L, i, d)
    BY <1>2
  <2> DEFINE g == [k \in 0..(d + 1) |-> IF k = 0 THEN start ELSE ClimbedUp(f[k - 1])]
  <2>2. \A k \in 0..d : f[k] = IF k = 0 THEN start ELSE ClimbedUp(f[k - 1])
    BY <2>1 DEF Turns
  <2>3. \A k \in 0..d : k \in 0..(d + 1)
    OBVIOUS
  <2>4. \A k \in 0..d : g[k] = f[k]
    BY <2>2, <2>3
  <2>5. \A k \in 0..(d + 1) : k # 0 => k - 1 \in 0..d
    OBVIOUS
  <2> HIDE DEF g
  <2>6. \A k \in 0..(d + 1) : k # 0 => g[k - 1] = f[k - 1]
    BY <2>4, <2>5
  <2>7. Turns(g, L, i, d + 1)
    BY <2>6 DEF Turns, g
  <2> QED BY <2>7
<1>3. \A d \in Nat : d \in S
  <2> HIDE DEF S
  <2> QED BY <1>1, <1>2, Induction
<1> QED BY <1>3

LEMMA TurnsAgree ==
    ASSUME NEW L, NEW i, NEW d \in Nat, NEW e \in Nat, d <= e,
           NEW f, NEW g, Turns(f, L, i, d), Turns(g, L, i, e)
    PROVE  f[d] = g[d]
<1> DEFINE S == {k \in Nat : k <= d => f[k] = g[k]}
<1>1. /\ f[0] = g[0]
      /\ \A k \in 1..d : f[k] = ClimbedUp(f[k - 1])
      /\ \A k \in 1..e : g[k] = ClimbedUp(g[k - 1])
  BY DEF Turns
<1>2. ASSUME NEW k \in Nat, k \in S
      PROVE  k + 1 \in S
  <2> SUFFICES ASSUME k + 1 <= d
               PROVE  f[k + 1] = g[k + 1]
    OBVIOUS
  <2>1. k + 1 \in 1..d /\ k + 1 \in 1..e /\ (k + 1) - 1 = k /\ k <= d
    OBVIOUS
  <2>2. f[k + 1] = ClimbedUp(f[k]) /\ g[k + 1] = ClimbedUp(g[k])
    BY <1>1, <2>1
  <2> QED BY <1>2, <2>1, <2>2
<1>3. \A k \in Nat : k \in S
  <2>1. 0 \in S
    BY <1>1
  <2> HIDE DEF S
  <2> QED BY <1>2, <2>1, Induction
<1> QED BY <1>3

LEMMA ClimbedAre ==
    ASSUME NEW L, NEW i, NEW d \in Nat
    PROVE  \E f : Turns(f, L, i, d) /\ Climbed(L, i, d) = f[d]
<1> DEFINE at[k \in 0..d] ==
             IF k = 0 THEN [layer |-> L, idx |-> i]
             ELSE LET was == at[k - 1]
                  IN  [layer |-> NextLayer(was.layer), idx |-> was.idx \div 2]
<1>1. \E f : f = [k \in 0..d |-> IF k = 0 THEN [layer |-> L, idx |-> i]
                                 ELSE LET was == f[k - 1]
                                      IN  [layer |-> NextLayer(was.layer), idx |-> was.idx \div 2]]
  <2> HIDE DEF at
  <2>1. PICK f : Turns(f, L, i, d)
    BY TurnsExist
  <2> QED BY <2>1 DEF Turns, ClimbedUp
<1>2. at = [k \in 0..d |-> IF k = 0 THEN [layer |-> L, idx |-> i]
                           ELSE LET was == at[k - 1]
                                IN  [layer |-> NextLayer(was.layer), idx |-> was.idx \div 2]]
  BY <1>1
<1>3. Climbed(L, i, d) = at[d]
  BY DEF Climbed
<1> HIDE DEF at
<1>4. Turns(at, L, i, d)
  BY <1>2 DEF Turns, ClimbedUp
<1> QED BY <1>3, <1>4

(* One turn of the loop after another. *)
LEMMA ClimbedUnfolds ==
    ASSUME NEW L, NEW i
    PROVE  /\ Climbed(L, i, 0) = [layer |-> L, idx |-> i]
           /\ \A d \in Nat : Climbed(L, i, d + 1) = ClimbedUp(Climbed(L, i, d))
<1>1. Climbed(L, i, 0) = [layer |-> L, idx |-> i]
  <2>1. PICK f : Turns(f, L, i, 0) /\ Climbed(L, i, 0) = f[0]
    BY ClimbedAre
  <2> QED BY <2>1 DEF Turns
<1>2. ASSUME NEW d \in Nat
      PROVE  Climbed(L, i, d + 1) = ClimbedUp(Climbed(L, i, d))
  <2>1. PICK f : Turns(f, L, i, d) /\ Climbed(L, i, d) = f[d]
    BY ClimbedAre
  <2>2. PICK g : Turns(g, L, i, d + 1) /\ Climbed(L, i, d + 1) = g[d + 1]
    BY ClimbedAre
  <2>3. f[d] = g[d]
    BY <2>1, <2>2, TurnsAgree
  <2>4. d + 1 \in 1..(d + 1) /\ (d + 1) - 1 = d
    OBVIOUS
  <2>5. g[d + 1] = ClimbedUp(g[d])
    BY <2>2, <2>4 DEF Turns
  <2> QED BY <2>1, <2>2, <2>3, <2>5
<1> QED BY <1>1, <1>2

(* The index does not touch the layers, nor the layers the index. *)
LEMMA LayersAre ==
    ASSUME NEW L
    PROVE  /\ Layer(L, 0) = L
           /\ \A d \in Nat : Layer(L, d + 1) = NextLayer(Layer(L, d))
           /\ \A i : \A d \in Nat : Climbed(L, i, d).layer = Layer(L, d)
<1>1. Layer(L, 0) = L
  BY ClimbedUnfolds DEF Layer
<1>2. ASSUME NEW d \in Nat
      PROVE  Layer(L, d + 1) = NextLayer(Layer(L, d))
  <2>1. Climbed(L, 0, d + 1) = ClimbedUp(Climbed(L, 0, d))
    BY ClimbedUnfolds
  <2> QED BY <2>1 DEF Layer, ClimbedUp
<1>3. ASSUME NEW i
      PROVE  \A d \in Nat : Climbed(L, i, d).layer = Layer(L, d)
  <2> DEFINE S == {d \in Nat : Climbed(L, i, d).layer = Layer(L, d)}
  <2>1. 0 \in S
    BY <1>1, ClimbedUnfolds
  <2>2. ASSUME NEW d \in Nat, d \in S
        PROVE  d + 1 \in S
    <3>1. Climbed(L, i, d + 1) = ClimbedUp(Climbed(L, i, d))
      BY ClimbedUnfolds
    <3>2. Climbed(L, i, d + 1).layer = NextLayer(Climbed(L, i, d).layer)
      BY <3>1 DEF ClimbedUp
    <3> QED BY <1>2, <2>2, <3>2
  <2>3. \A d \in Nat : d \in S
    <3> HIDE DEF S
    <3> QED BY <2>1, <2>2, Induction
  <2> QED BY <2>3
<1> QED BY <1>1, <1>2, <1>3

(* The walk up along the siblings. *)
Siblings(f, h, i, q, d) ==
    f = [k \in 0..d |-> IF k = 0 THEN [hash |-> h, idx |-> i] ELSE JoinSibling(f[k - 1], q[k])]

LEMMA SiblingsExist == ASSUME NEW h, NEW i, NEW q PROVE \A d \in Nat : \E f : Siblings(f, h, i, q, d)
<1> DEFINE S == {d \in Nat : \E f : Siblings(f, h, i, q, d)}
           start == [hash |-> h, idx |-> i]
<1>1. 0 \in S
  <2>1. Siblings([k \in 0..0 |-> start], h, i, q, 0)
    BY DEF Siblings
  <2> QED BY <2>1
<1>2. ASSUME NEW d \in Nat, d \in S
      PROVE  d + 1 \in S
  <2>1. PICK f : Siblings(f, h, i, q, d)
    BY <1>2
  <2> DEFINE g == [k \in 0..(d + 1) |-> IF k = 0 THEN start ELSE JoinSibling(f[k - 1], q[k])]
  <2>2. \A k \in 0..d : f[k] = IF k = 0 THEN start ELSE JoinSibling(f[k - 1], q[k])
    BY <2>1 DEF Siblings
  <2>3. \A k \in 0..d : k \in 0..(d + 1)
    OBVIOUS
  <2>4. \A k \in 0..d : g[k] = f[k]
    BY <2>2, <2>3
  <2>5. \A k \in 0..(d + 1) : k # 0 => k - 1 \in 0..d
    OBVIOUS
  <2> HIDE DEF g
  <2>6. \A k \in 0..(d + 1) : k # 0 => g[k - 1] = f[k - 1]
    BY <2>4, <2>5
  <2>7. Siblings(g, h, i, q, d + 1)
    BY <2>6 DEF Siblings, g
  <2> QED BY <2>7
<1>3. \A d \in Nat : d \in S
  <2> HIDE DEF S
  <2> QED BY <1>1, <1>2, Induction
<1> QED BY <1>3

(* at[0], at[1], ... is the walk from h at index i along q. *)
Walks(at, h, i, q) ==
    /\ at[0] = [hash |-> h, idx |-> i]
    /\ \A k \in 1..Len(q) : at[k] = JoinSibling(at[k - 1], q[k])

LEMMA SiblingsWalked ==
    ASSUME NEW h, NEW i, NEW q, Len(q) \in Nat
    PROVE  \E at : Walks(at, h, i, q) /\ WalkSiblings(h, i, q) = at[Len(q)]
<1> DEFINE at[k \in 0..Len(q)] == IF k = 0 THEN [hash |-> h, idx |-> i]
                                           ELSE JoinSibling(at[k - 1], q[k])
<1>1. \E f : f = [k \in 0..Len(q) |-> IF k = 0 THEN [hash |-> h, idx |-> i]
                                               ELSE JoinSibling(f[k - 1], q[k])]
  <2> HIDE DEF at
  <2>1. PICK f : Siblings(f, h, i, q, Len(q))
    BY SiblingsExist
  <2> QED BY <2>1 DEF Siblings
<1>2. at = [k \in 0..Len(q) |-> IF k = 0 THEN [hash |-> h, idx |-> i]
                                         ELSE JoinSibling(at[k - 1], q[k])]
  BY <1>1
<1>3. WalkSiblings(h, i, q) = at[Len(q)]
  BY DEF WalkSiblings
<1> HIDE DEF at
<1>4. Walks(at, h, i, q)
  BY <1>2 DEF Walks
<1> QED BY <1>3, <1>4

LEMMA WalkTurns ==
    ASSUME NEW at, NEW h, NEW i, NEW q, Len(q) \in Nat, Walks(at, h, i, q),
           NEW k \in Nat, k < Len(q)
    PROVE  at[k + 1] = JoinSibling(at[k], q[k + 1])
<1>1. k + 1 \in 1..Len(q) /\ (k + 1) - 1 = k
  OBVIOUS
<1> QED BY <1>1 DEF Walks

(* What the index becomes depends on nothing else. *)
LEMMA WalkIndices ==
    ASSUME NEW at, NEW h, NEW i, NEW q, Len(q) \in Nat, Walks(at, h, i, q), NEW L
    PROVE  \A k \in 0..Len(q) : at[k].idx = Climbed(L, i, k).idx
<1> DEFINE S == {k \in Nat : k <= Len(q) => at[k].idx = Climbed(L, i, k).idx}
<1>1. 0 \in S
  <2>1. at[0].idx = i /\ Climbed(L, i, 0).idx = i
    BY ClimbedUnfolds DEF Walks
  <2> QED BY <2>1
<1>2. ASSUME NEW k \in Nat, k \in S
      PROVE  k + 1 \in S
  <2> SUFFICES ASSUME k + 1 <= Len(q)
               PROVE  at[k + 1].idx = Climbed(L, i, k + 1).idx
    OBVIOUS
  <2>1. k < Len(q) /\ k <= Len(q)
    OBVIOUS
  <2>2. at[k + 1] = JoinSibling(at[k], q[k + 1])
    BY <2>1, WalkTurns
  <2>3. Climbed(L, i, k + 1) = ClimbedUp(Climbed(L, i, k))
    BY ClimbedUnfolds
  <2>4. at[k + 1].idx = at[k].idx \div 2 /\ Climbed(L, i, k + 1).idx = Climbed(L, i, k).idx \div 2
    BY <2>2, <2>3 DEF JoinSibling, ClimbedUp
  <2> QED BY <1>2, <2>1, <2>4
<1>3. \A k \in Nat : k \in S
  <2> HIDE DEF S
  <2> QED BY <1>1, <1>2, Induction
<1> QED BY <1>3

LEMMA PairsTell ==
    \A a, b, c, d : PairHash(a, b) = PairHash(c, d) <=> a = c /\ b = d
BY DEF PairHash

IsPair(h) == \E l, r : h = PairHash(l, r)

LEMMA OrElseIs == \A x, y : OrElse({x}, y) = x /\ OrElse({}, y) = y
BY DEF OrElse

(* The layer above another one, hash by hash. *)
LEMMA NextLayerIs ==
    ASSUME NEW P, Len(P) \in Nat
    PROVE  /\ Len(NextLayer(P)) = (Len(P) + 1) \div 2
           /\ \A j \in 1..((Len(P) + 1) \div 2) :
                /\ 2 * j <= Len(P) => NextLayer(P)[j] = PairHash(P[2 * j - 1], P[2 * j])
                /\ ~(2 * j <= Len(P)) => NextLayer(P)[j] = PairHash(P[2 * j - 1], P[2 * j - 1])
<1>1. Len(NextLayer(P)) = (Len(P) + 1) \div 2
  BY DEF NextLayer
<1>2. ASSUME NEW j \in 1..((Len(P) + 1) \div 2)
      PROVE  /\ 2 * j <= Len(P) => NextLayer(P)[j] = PairHash(P[2 * j - 1], P[2 * j])
             /\ ~(2 * j <= Len(P)) => NextLayer(P)[j] = PairHash(P[2 * j - 1], P[2 * j - 1])
  <2>1. NextLayer(P)[j] = PairHash(P[2 * j - 1], OrElse(At(P, 2 * j - 1), P[2 * j - 1]))
    BY DEF NextLayer
  <2>2. (2 * j - 1) + 1 = 2 * j /\ (2 * j - 1 < Len(P) <=> 2 * j <= Len(P))
    OBVIOUS
  <2>3. At(P, 2 * j - 1) = IF 2 * j <= Len(P) THEN {P[2 * j]} ELSE {}
    BY <2>2 DEF At
  <2>4. CASE 2 * j <= Len(P)
    BY <2>1, <2>3, <2>4, OrElseIs
  <2>5. CASE ~(2 * j <= Len(P))
    BY <2>1, <2>3, <2>5, OrElseIs
  <2> QED BY <2>4, <2>5
<1> QED BY <1>1, <1>2

(* A hash of a layer, with its sibling, is a hash of the next. *)
LEMMA SiblingJoins ==
    ASSUME NEW P, Len(P) \in Nat, NEW i \in Nat, i < Len(P)
    PROVE  /\ i \div 2 \in Nat /\ i \div 2 < Len(NextLayer(P))
           /\ JoinSibling([hash |-> P[i + 1], idx |-> i], SiblingIn(P, i))
                = [hash |-> NextLayer(P)[i \div 2 + 1], idx |-> i \div 2]
<1>1. /\ i \div 2 \in Nat /\ i \div 2 < Len(NextLayer(P))
      /\ i \div 2 + 1 \in 1..((Len(P) + 1) \div 2)
  BY NextLayerIs
<1>2. CASE i % 2 = 1
  <2>1. 2 * (i \div 2 + 1) = i + 1 /\ 2 * (i \div 2 + 1) - 1 = i /\ i + 1 <= Len(P)
    BY <1>2
  <2>2. NextLayer(P)[i \div 2 + 1] = PairHash(P[i], P[i + 1])
    BY <1>1, <2>1, NextLayerIs
  <2>3. At(P, i - 1) = {P[i]}
    BY DEF At
  <2>4. SiblingIn(P, i) = P[i]
    BY <1>2, <2>3, OrElseIs DEF SiblingIn
  <2> QED BY <1>1, <1>2, <2>2, <2>4 DEF JoinSibling
<1>3. CASE i % 2 # 1
  <2>1. 2 * (i \div 2 + 1) = i + 2 /\ 2 * (i \div 2 + 1) - 1 = i + 1
    BY <1>3
  <2>2. At(P, i + 1) = IF i + 2 <= Len(P) THEN {P[i + 2]} ELSE {}
    BY DEF At
  <2>3. SiblingIn(P, i) = IF i + 2 <= Len(P) THEN P[i + 2] ELSE P[i + 1]
    BY <1>3, <2>2, OrElseIs DEF SiblingIn
  <2>4. NextLayer(P)[i \div 2 + 1] = PairHash(P[i + 1], SiblingIn(P, i))
    BY <1>1, <2>1, <2>3, NextLayerIs
  <2> QED BY <1>1, <1>3, <2>4 DEF JoinSibling
<1> QED BY <1>1, <1>2, <1>3

(* Layers halve, and never vanish. *)
LEMMA LayersShrink ==
    ASSUME NEW L, Len(L) \in Nat, Len(L) >= 1
    PROVE  \A k \in Nat : /\ Len(Layer(L, k)) \in Nat /\ Len(Layer(L, k)) >= 1
                          /\ Len(Layer(L, k)) = 1 \/ Len(Layer(L, k)) + k <= Len(L)
<1> DEFINE S == {k \in Nat : /\ Len(Layer(L, k)) \in Nat /\ Len(Layer(L, k)) >= 1
                             /\ Len(Layer(L, k)) = 1 \/ Len(Layer(L, k)) + k <= Len(L)}
<1>1. 0 \in S
  BY LayersAre
<1>2. ASSUME NEW k \in Nat, k \in S
      PROVE  k + 1 \in S
  <2>1. PICK n \in Nat : n = Len(Layer(L, k))
    BY <1>2
  <2>2. n >= 1 /\ (n = 1 \/ n + k <= Len(L))
    BY <1>2, <2>1
  <2>3. Len(Layer(L, k + 1)) = (n + 1) \div 2
    BY <2>1, LayersAre, NextLayerIs
  <2>4. PICK half \in Nat : /\ half = (n + 1) \div 2 /\ half >= 1
                            /\ half = 1 \/ half + (k + 1) <= Len(L)
    BY <2>2
  <2>5. Len(Layer(L, k + 1)) = half /\ k + 1 \in Nat
    BY <2>3, <2>4
  <2> QED BY <2>4, <2>5
<1>3. \A k \in Nat : k \in S
  <2> HIDE DEF S
  <2> QED BY <1>1, <1>2, Induction
<1> QED BY <1>3

LEMMA DepthIs ==
    ASSUME NEW L, Len(L) \in Nat, Len(L) >= 1
    PROVE  Depth(L) \in Nat /\ Len(Layer(L, Depth(L))) = 1
<1> DEFINE S == {d \in 0..Len(L) : Len(Layer(L, d)) = 1}
<1>1. Len(L) \in S
  BY LayersShrink
<1>2. PICK least \in S : \A other \in S : least <= other
  <2>1. S \subseteq Nat
    OBVIOUS
  <2> HIDE DEF S
  <2> QED BY <1>1, <2>1, LeastNatural
<1>3. least \in 0..Len(L) /\ Len(Layer(L, least)) = 1
  BY <1>2
<1>4. ASSUME NEW e \in 0..(least - 1)
      PROVE  Len(Layer(L, e)) > 1
  <2>1. e \in 0..Len(L) /\ e < least
    BY <1>3
  <2>2. Len(Layer(L, e)) # 1
    BY <1>2, <2>1
  <2>3. Len(Layer(L, e)) \in Nat /\ Len(Layer(L, e)) >= 1
    BY <2>1, LayersShrink
  <2> QED BY <2>2, <2>3
<1>5. \E d \in 0..Len(L) : /\ Len(Layer(L, d)) = 1
                           /\ \A e \in 0..(d - 1) : Len(Layer(L, e)) > 1
  BY <1>3, <1>4
<1>6. Depth(L) \in 0..Len(L) /\ Len(Layer(L, Depth(L))) = 1
  BY <1>5 DEF Depth
<1> QED BY <1>6

(* The index stays in its layer. *)
LEMMA IndexInLayer ==
    ASSUME NEW L, Len(L) \in Nat, Len(L) >= 1, NEW i \in Nat, i < Len(L)
    PROVE  \A k \in Nat : Climbed(L, i, k).idx \in Nat /\ Climbed(L, i, k).idx < Len(Layer(L, k))
<1> DEFINE S == {k \in Nat : /\ Climbed(L, i, k).idx \in Nat
                             /\ Climbed(L, i, k).idx < Len(Layer(L, k))}
<1>1. 0 \in S
  <2>1. Climbed(L, i, 0).idx = i /\ Layer(L, 0) = L
    BY ClimbedUnfolds, LayersAre
  <2> QED BY <2>1
<1>2. ASSUME NEW k \in Nat, k \in S
      PROVE  k + 1 \in S
  <2>1. Climbed(L, i, k + 1) = ClimbedUp(Climbed(L, i, k))
    BY ClimbedUnfolds
  <2>2. Climbed(L, i, k + 1).idx = Climbed(L, i, k).idx \div 2
    BY <2>1 DEF ClimbedUp
  <2>3. PICK P, j : P = Layer(L, k) /\ j = Climbed(L, i, k).idx
    OBVIOUS
  <2>4. j \in Nat /\ j < Len(P) /\ Len(P) \in Nat
    BY <1>2, <2>3, LayersShrink
  <2>5. Layer(L, k + 1) = NextLayer(P)
    BY <2>3, LayersAre
  <2>6. j \div 2 \in Nat /\ j \div 2 < Len(NextLayer(P))
    BY ONLY <2>4, SiblingJoins
  <2>7. Climbed(L, i, k + 1).idx \in Nat /\ Climbed(L, i, k + 1).idx < Len(Layer(L, k + 1))
    BY <2>2, <2>3, <2>5, <2>6
  <2> QED BY <2>7
<1>3. \A k \in Nat : k \in S
  <2> HIDE DEF S
  <2> QED BY <1>1, <1>2, Induction
<1> QED BY <1>3

(* The honest walk passes through the layers. *)
LEMMA HonestWalk ==
    ASSUME NEW L, Len(L) \in Nat, Len(L) >= 1, NEW i \in Nat, i < Len(L),
           NEW at, NEW q, q = MerkleSiblings(L, i), Walks(at, L[i + 1], i, q)
    PROVE  /\ Len(q) = Depth(L)
           /\ \A k \in 0..Len(q) : at[k].hash = Layer(L, k)[Climbed(L, i, k).idx + 1]
<1>1. Depth(L) \in Nat /\ Len(q) = Depth(L)
  BY DepthIs DEF MerkleSiblings
<1>2. Len(q) \in Nat
  BY <1>1
<1>3. \A k \in 1..Len(q) : q[k] = SiblingIn(Climbed(L, i, k - 1).layer, Climbed(L, i, k - 1).idx)
  BY <1>1 DEF MerkleSiblings
<1> DEFINE S == {k \in Nat : k <= Len(q) => at[k].hash = Layer(L, k)[Climbed(L, i, k).idx + 1]}
<1>4. 0 \in S
  <2>1. at[0].hash = L[i + 1] /\ Climbed(L, i, 0).idx = i /\ Layer(L, 0) = L
    BY ClimbedUnfolds, LayersAre DEF Walks
  <2> QED BY <2>1
<1>5. ASSUME NEW k \in Nat, k \in S
      PROVE  k + 1 \in S
  <2> SUFFICES ASSUME k + 1 <= Len(q)
               PROVE  at[k + 1].hash = Layer(L, k + 1)[Climbed(L, i, k + 1).idx + 1]
    OBVIOUS
  <2>1. k < Len(q) /\ k <= Len(q) /\ k \in 0..Len(q) /\ k + 1 \in 1..Len(q) /\ (k + 1) - 1 = k
    BY <1>2
  <2>2. PICK P : P = Layer(L, k)
    OBVIOUS
  <2>3. PICK j \in Nat : j = Climbed(L, i, k).idx /\ j < Len(P)
    BY <2>2, IndexInLayer
  <2>4. at[k].hash = P[j + 1] /\ at[k].idx = j
    BY <1>2, <1>5, <2>1, <2>2, <2>3, WalkIndices
  <2>5. q[k + 1] = SiblingIn(P, j)
    <3>1. q[k + 1] = SiblingIn(Climbed(L, i, k).layer, Climbed(L, i, k).idx)
      BY <1>3, <2>1
    <3>2. Climbed(L, i, k).layer = Layer(L, k)
      <4>1. k \in Nat
        BY <1>2
      <4>2. \A x : \A y \in Nat : Climbed(L, x, y).layer = Layer(L, y)
        BY ONLY LayersAre
      <4> QED BY <4>1, <4>2
    <3> QED BY <2>2, <2>3, <3>1, <3>2
  <2>6. at[k + 1] = JoinSibling(at[k], q[k + 1])
    BY <1>2, <2>1, WalkTurns
  <2>7. at[k + 1] = JoinSibling([hash |-> P[j + 1], idx |-> j], SiblingIn(P, j))
    BY <2>4, <2>5, <2>6 DEF JoinSibling
  <2>8. at[k + 1].hash = NextLayer(P)[j \div 2 + 1]
    <3>1. Len(P) \in Nat
      BY <2>2, LayersShrink
    <3>2. j \in Nat /\ j < Len(P)
      BY <2>3
    <3>3. at[k + 1] = [hash |-> NextLayer(P)[j \div 2 + 1], idx |-> j \div 2]
      BY ONLY <2>7, <3>1, <3>2, SiblingJoins
    <3> QED BY <3>3
  <2>9. Layer(L, k + 1) = NextLayer(P)
    BY <2>2, LayersAre
  <2>10. Climbed(L, i, k + 1).idx = j \div 2
    <3>1. Climbed(L, i, k + 1) = ClimbedUp(Climbed(L, i, k))
      BY ClimbedUnfolds
    <3> QED BY <2>3, <3>1 DEF ClimbedUp
  <2> QED BY <2>8, <2>9, <2>10
<1>6. \A k \in Nat : k \in S
  <2> HIDE DEF S
  <2> QED BY <1>4, <1>5, Induction
<1> QED BY <1>1, <1>6

(* The hashes above the leaves are pairs of hashes of the layer below. *)
LEMMA LayersArePairs ==
    ASSUME NEW L, Len(L) \in Nat, Len(L) >= 1, NEW k \in Nat, NEW x \in 1..Len(Layer(L, k + 1))
    PROVE  \E y, z \in 1..Len(Layer(L, k)) :
             Layer(L, k + 1)[x] = PairHash(Layer(L, k)[y], Layer(L, k)[z])
<1>1. PICK P : P = Layer(L, k) /\ Len(P) \in Nat /\ Layer(L, k + 1) = NextLayer(P)
  <2>1. Len(Layer(L, k)) \in Nat
    BY LayersShrink
  <2>2. Layer(L, k + 1) = NextLayer(Layer(L, k))
    BY LayersAre
  <2> QED BY <2>1, <2>2
<1>2. x \in 1..((Len(P) + 1) \div 2)
  <2>1. Len(NextLayer(P)) = (Len(P) + 1) \div 2
    BY <1>1, NextLayerIs
  <2> QED BY <1>1, <2>1
<1>3. CASE 2 * x <= Len(P)
  <2>1. NextLayer(P)[x] = PairHash(P[2 * x - 1], P[2 * x])
    BY <1>1, <1>2, <1>3, NextLayerIs
  <2>2. 2 * x - 1 \in 1..Len(P) /\ 2 * x \in 1..Len(P)
    BY <1>1, <1>2, <1>3
  <2> QED BY <1>1, <2>1, <2>2
<1>4. CASE ~(2 * x <= Len(P))
  <2>1. NextLayer(P)[x] = PairHash(P[2 * x - 1], P[2 * x - 1])
    BY <1>1, <1>2, <1>4, NextLayerIs
  <2>2. 2 * x - 1 \in 1..Len(P)
    BY <1>1, <1>2
  <2> QED BY <1>1, <2>1, <2>2
<1> QED BY <1>3, <1>4

(* From an event, a hash of layer k is reached in k turns, no more and no  *)
(* fewer: below the event there is no pair, and above it nothing else.     *)
LEMMA TurnsTell ==
    ASSUME NEW L, Len(L) \in Nat, Len(L) >= 1, \A x \in 1..Len(L) : ~IsPair(L[x]),
           NEW at, NEW h, ~IsPair(h), NEW i, NEW q, Len(q) \in Nat, Walks(at, h, i, q)
    PROVE  \A j \in 0..Len(q) : \A k \in Nat : \A x \in 1..Len(Layer(L, k)) :
             at[j].hash = Layer(L, k)[x] => j = k
<1> DEFINE S == {j \in Nat : j <= Len(q) =>
                   \A k \in Nat : \A x \in 1..Len(Layer(L, k)) :
                     at[j].hash = Layer(L, k)[x] => j = k}
<1>1. \A k \in Nat : \A x \in 1..Len(Layer(L, k)) : IsPair(Layer(L, k)[x]) => k # 0
  BY LayersAre
<1>2. \A k \in Nat : \A x \in 1..Len(Layer(L, k)) : k # 0 =>
        \E y, z \in 1..Len(Layer(L, k - 1)) :
          Layer(L, k)[x] = PairHash(Layer(L, k - 1)[y], Layer(L, k - 1)[z])
  <2> SUFFICES ASSUME NEW k \in Nat, NEW x \in 1..Len(Layer(L, k)), k # 0
               PROVE  \E y, z \in 1..Len(Layer(L, k - 1)) :
                        Layer(L, k)[x] = PairHash(Layer(L, k - 1)[y], Layer(L, k - 1)[z])
    OBVIOUS
  <2>1. PICK b \in Nat : b + 1 = k /\ b = k - 1
    OBVIOUS
  <2>2. x \in 1..Len(Layer(L, b + 1))
    BY <2>1
  <2>3. \E y, z \in 1..Len(Layer(L, b)) :
          Layer(L, b + 1)[x] = PairHash(Layer(L, b)[y], Layer(L, b)[z])
    BY <2>2, LayersArePairs
  <2> QED BY <2>1, <2>3
<1>3. 0 \in S
  <2>1. ~IsPair(at[0].hash)
    BY DEF Walks
  <2> QED BY <1>2, <2>1 DEF IsPair
<1>4. ASSUME NEW j \in Nat, j \in S
      PROVE  j + 1 \in S
  <2> SUFFICES ASSUME j + 1 <= Len(q), NEW k \in Nat, NEW x \in 1..Len(Layer(L, k)),
                      at[j + 1].hash = Layer(L, k)[x]
               PROVE  j + 1 = k
    OBVIOUS
  <2>1. j < Len(q) /\ j <= Len(q)
    OBVIOUS
  <2>2. at[j + 1] = JoinSibling(at[j], q[j + 1])
    BY <2>1, WalkTurns
  <2>3. \/ at[j + 1].hash = PairHash(q[j + 1], at[j].hash)
        \/ at[j + 1].hash = PairHash(at[j].hash, q[j + 1])
    BY <2>2 DEF JoinSibling
  <2>4. k # 0
    BY <1>1, <2>3 DEF IsPair
  <2>5. PICK y, z \in 1..Len(Layer(L, k - 1)) :
          Layer(L, k)[x] = PairHash(Layer(L, k - 1)[y], Layer(L, k - 1)[z])
    BY <1>2, <2>4
  <2>6. at[j].hash = Layer(L, k - 1)[y] \/ at[j].hash = Layer(L, k - 1)[z]
    BY <2>3, <2>5, PairsTell
  <2>7. k - 1 \in Nat
    BY <2>4
  <2>8. j = k - 1
    BY <1>4, <2>1, <2>5, <2>6, <2>7
  <2> QED BY <2>8
<1>5. \A j \in Nat : j \in S
  <2> HIDE DEF S
  <2> QED BY <1>3, <1>4, Induction
<1> QED BY <1>5

(* Two walks at one index that end alike have been alike all along. *)
LEMMA WalksTell ==
    ASSUME NEW i, NEW d \in Nat, NEW at, NEW h, NEW q, Len(q) = d, Walks(at, h, i, q),
           NEW by, NEW g, NEW p, Len(p) = d, Walks(by, g, i, p), at[d].hash = by[d].hash
    PROVE  h = g /\ \A k \in 1..d : q[k] = p[k]
<1> DEFINE S == {e \in Nat : e <= d => at[d - e].hash = by[d - e].hash}
<1>1. ASSUME NEW k \in Nat, k < d, at[k + 1].hash = by[k + 1].hash
      PROVE  at[k].hash = by[k].hash /\ q[k + 1] = p[k + 1]
  <2>1. at[k + 1] = JoinSibling(at[k], q[k + 1]) /\ by[k + 1] = JoinSibling(by[k], p[k + 1])
    BY <1>1, WalkTurns
  <2>2. at[k].idx = by[k].idx
    <3>1. k \in 0..Len(q) /\ k \in 0..Len(p)
      BY <1>1
    <3>2. \A j \in 0..Len(q) : at[j].idx = Climbed(<<>>, i, j).idx
      BY WalkIndices
    <3>3. \A j \in 0..Len(p) : by[j].idx = Climbed(<<>>, i, j).idx
      BY WalkIndices
    <3> QED BY <3>1, <3>2, <3>3
  <2> QED BY <1>1, <2>1, <2>2, PairsTell DEF JoinSibling
<1>2. 0 \in S
  OBVIOUS
<1>3. ASSUME NEW e \in Nat, e \in S
      PROVE  e + 1 \in S
  <2> SUFFICES ASSUME e + 1 <= d
               PROVE  at[d - (e + 1)].hash = by[d - (e + 1)].hash
    OBVIOUS
  <2>1. PICK k \in Nat : k = d - (e + 1) /\ k + 1 = d - e /\ k < d /\ e <= d
    OBVIOUS
  <2> QED BY <1>1, <1>3, <2>1
<1>4. \A e \in Nat : e \in S
  <2> HIDE DEF S
  <2> QED BY <1>2, <1>3, Induction
<1>5. ASSUME NEW k \in 0..d
      PROVE  at[k].hash = by[k].hash
  <2>1. d - k \in Nat /\ d - k <= d /\ d - (d - k) = k
    OBVIOUS
  <2> QED BY <1>4, <2>1
<1>6. h = g
  <2>1. at[0].hash = h /\ by[0].hash = g
    BY DEF Walks
  <2> QED BY <1>5, <2>1
<1>7. ASSUME NEW k \in 1..d
      PROVE  q[k] = p[k]
  <2>1. k - 1 \in Nat /\ k - 1 < d /\ (k - 1) + 1 = k
    OBVIOUS
  <2> QED BY <1>1, <1>5, <2>1
<1> QED BY <1>6, <1>7

(* A credit proof of an event is accepted if and only if it is the event's *)
(* own: at its index, with its siblings, all of them and no more.          *)
THEOREM CreditExact ==
    ASSUME NEW L, Len(L) \in Nat, NEW i \in Nat, i < Len(L), \A x \in 1..Len(L) : ~IsPair(L[x]),
           NEW event, ~IsPair(event), NEW q, IsSequence(q)
    PROVE  VerifyMerkleProof(event, i, q, CreditMerkleRoot(L)) <=>
             event = L[i + 1] /\ q = MerkleSiblings(L, i)
<1> DEFINE d == Depth(L)
           p == MerkleSiblings(L, i)
<1>1. L # <<>> /\ Len(L) >= 1
  BY NothingIsSequence
<1>2. d \in Nat /\ Len(Layer(L, d)) = 1
  BY <1>1, DepthIs
<1>3. CreditMerkleRoot(L) = Layer(L, d)[1]
  BY <1>1 DEF CreditMerkleRoot
<1>4. Len(p) = d /\ p = [k \in 1..d |-> p[k]]
  BY <1>2 DEF MerkleSiblings
<1>5. Len(q) \in Nat /\ q = [k \in 1..Len(q) |-> q[k]]
  BY DEF IsSequence
<1>6. PICK at : Walks(at, event, i, q) /\ WalkSiblings(event, i, q) = at[Len(q)]
  BY <1>5, SiblingsWalked
<1>7. PICK by : Walks(by, L[i + 1], i, p) /\ WalkSiblings(L[i + 1], i, p) = by[d]
  <2> HIDE DEF p, d
  <2>1. Len(p) \in Nat
    BY <1>2, <1>4
  <2>2. \E by : Walks(by, L[i + 1], i, p) /\ WalkSiblings(L[i + 1], i, p) = by[Len(p)]
    BY <2>1, SiblingsWalked
  <2> QED BY <1>4, <2>2
<1>8. by[d].hash = Layer(L, d)[1]
  <2>1. by[d].hash = Layer(L, d)[Climbed(L, i, d).idx + 1]
    <3>1. d \in 0..Len(p)
      BY <1>2, <1>4
    <3>2. \A k \in 0..Len(p) : by[k].hash = Layer(L, k)[Climbed(L, i, k).idx + 1]
      <4> HIDE DEF d
      <4> QED BY <1>1, <1>7, HonestWalk
    <3> QED BY <3>1, <3>2
  <2>2. Climbed(L, i, d).idx = 0
    <3>1. Climbed(L, i, d).idx \in Nat /\ Climbed(L, i, d).idx < Len(Layer(L, d))
      <4> HIDE DEF d
      <4> QED BY <1>1, <1>2, IndexInLayer
    <3> QED BY <1>2, <3>1
  <2> QED BY <2>1, <2>2
<1>9. ASSUME VerifyMerkleProof(event, i, q, CreditMerkleRoot(L))
      PROVE  event = L[i + 1] /\ q = p
  <2>1. at[Len(q)].hash = Layer(L, d)[1]
    BY <1>3, <1>6, <1>9 DEF VerifyMerkleProof
  <2>2. Len(q) = d
    <3>1. Len(q) \in 0..Len(q) /\ 1 \in 1..Len(Layer(L, d))
      BY <1>2, <1>5
    <3>2. \A j \in 0..Len(q) : \A k \in Nat : \A x \in 1..Len(Layer(L, k)) :
            at[j].hash = Layer(L, k)[x] => j = k
      BY <1>1, <1>5, <1>6, TurnsTell
    <3> HIDE DEF d
    <3> QED BY <1>2, <2>1, <3>1, <3>2
  <2>3. event = L[i + 1] /\ \A k \in 1..d : q[k] = p[k]
    <3> HIDE DEF p, d
    <3> QED BY <1>2, <1>4, <1>6, <1>7, <1>8, <2>1, <2>2, WalksTell
  <2> HIDE DEF p, d
  <2> QED BY <1>4, <1>5, <2>2, <2>3
<1>10. ASSUME event = L[i + 1], q = p
       PROVE  VerifyMerkleProof(event, i, q, CreditMerkleRoot(L))
  BY <1>3, <1>7, <1>8, <1>10 DEF VerifyMerkleProof
<1> QED BY <1>9, <1>10

LEMMA SiblingsAreSequence ==
    ASSUME NEW L, Len(L) \in Nat, NEW i, Len(L) >= 1
    PROVE  IsSequence(MerkleSiblings(L, i))
<1>1. PICK d \in Nat : d = Depth(L)
  BY DepthIs
<1>2. PICK f : f = [k \in 1..d |-> LET was == Climbed(L, i, k - 1) IN SiblingIn(was.layer, was.idx)]
  OBVIOUS
<1>3. MerkleSiblings(L, i) = f
  BY <1>1, <1>2 DEF MerkleSiblings
<1>4. f = [k \in 1..d |-> f[k]]
  BY <1>2
<1>5. f \in Seq({f[k] : k \in 1..d})
  BY <1>1, <1>4
<1> QED BY <1>1, <1>3, <1>4, <1>5 DEF IsSequence

-----------------------------------------------------------------------------
(* The auditor.                                                            *)

AuditInv ==
    /\ IsSequence(leaves) /\ Len(leaves) \in Nat /\ Len(leaves) >= 1
    /\ \A i \in 1..Len(leaves) : leaves[i] = HashLeaf(i)
    /\ IsSequence(path)

LEMMA AuditInvariance == AuditSpec => []AuditInv
<1>1. AuditInit => AuditInv
  <2> SUFFICES ASSUME AuditInit PROVE AuditInv
    OBVIOUS
  <2>1. leaves \in Seq({HashLeaf(1)}) /\ Len(leaves) = 1 /\ path = <<>>
    BY DEF AuditInit
  <2>2. IsSequence(leaves) /\ IsSequence(path)
    BY <2>1, NothingIsSequence DEF IsSequence
  <2>3. \A i \in 1..Len(leaves) : leaves[i] = HashLeaf(i)
    BY <2>1 DEF AuditInit
  <2> QED BY <2>1, <2>2, <2>3 DEF AuditInv
<1>2. AuditInv /\ [AuditNext]_auditVars => AuditInv'
  <2> SUFFICES ASSUME AuditInv, [AuditNext]_auditVars PROVE AuditInv'
    OBVIOUS
  <2>1. CASE AddLeaf
    <3>1. leaves' = Append(leaves, HashLeaf(Len(leaves) + 1)) /\ path' = path
      BY <2>1 DEF AddLeaf
    <3>2. /\ IsSequence(leaves') /\ Len(leaves') = Len(leaves) + 1
          /\ \A i \in 1..(Len(leaves) + 1) :
               leaves'[i] = IF i <= Len(leaves) THEN leaves[i] ELSE HashLeaf(Len(leaves) + 1)
      BY <3>1, AppendGrows DEF AuditInv
    <3>3. ASSUME NEW i \in 1..Len(leaves') PROVE leaves'[i] = HashLeaf(i)
      BY <3>2, <3>3 DEF AuditInv
    <3> QED BY <3>1, <3>2, <3>3 DEF AuditInv
  <2>2. CASE AddSibling
    <3>1. PICK h : path' = Append(path, h) /\ leaves' = leaves
      BY <2>2 DEF AddSibling
    <3>2. IsSequence(path')
      BY <3>1, AppendGrows DEF AuditInv
    <3> QED BY <3>1, <3>2 DEF AuditInv
  <2>3. CASE UNCHANGED auditVars
    BY <2>3 DEF auditVars, AuditInv
  <2> QED BY <2>1, <2>2, <2>3 DEF AuditNext
<1> QED BY <1>1, <1>2, PTL DEF AuditSpec

LEMMA PrefixIs ==
    ASSUME AuditInv, NEW m, m \in 1..Len(leaves)
    PROVE  Len(Prefix(m)) = m /\ \A i \in 1..m : Prefix(m)[i] = leaves[i]
<1>1. PICK S : leaves \in Seq(S)
  BY DEF AuditInv, IsSequence
<1>2. m \in Int /\ 1 \in Int /\ \A i \in 1..m : leaves[i] \in S
  BY <1>1
<1>3. /\ Len(SubSeq(leaves, 1, m)) = m
      /\ \A i \in 1..m : SubSeq(leaves, 1, m)[i] = leaves[i]
  OBVIOUS
<1> QED BY <1>3 DEF Prefix

LEMMA LeavesAreNoPairs ==
    ASSUME AuditInv
    PROVE  /\ \A i \in 1..Len(leaves) : ~IsPair(leaves[i])
           /\ \A event \in Range(leaves) \cup {Foreign} : ~IsPair(event)
<1>1. \A x : ~IsPair(HashLeaf(x))
  BY DEF IsPair, HashLeaf, PairHash
<1>2. \A i \in 1..Len(leaves) : ~IsPair(leaves[i])
  BY <1>1 DEF AuditInv
<1>3. DOMAIN leaves = 1..Len(leaves)
  BY DEF AuditInv, IsSequence
<1>4. \A event \in Range(leaves) : \E i \in 1..Len(leaves) : event = leaves[i]
  BY <1>3 DEF Range
<1> QED BY <1>1, <1>2, <1>4 DEF Foreign

(* Whatever path an auditor is handed for an event, of the log or not, the *)
(* verifier of credit proofs accepts that event at that index with the     *)
(* path made for it, and nothing else, in a tree of any size.              *)
THEOREM CreditProofsAreExact == AuditSpec => []CreditProofsExact
<1>1. AuditInv => CreditProofsExact
  <2> SUFFICES ASSUME AuditInv, NEW i \in 0..(Len(leaves) - 1)
               PROVE  LET root == CreditMerkleRoot(leaves)
                      IN  /\ VerifyMerkleProof(leaves[i + 1], i, MerkleSiblings(leaves, i), root)
                          /\ \A event \in Range(leaves) \cup {Foreign} :
                               VerifyMerkleProof(event, i, path, root) <=>
                                 event = leaves[i + 1] /\ path = MerkleSiblings(leaves, i)
    BY DEF CreditProofsExact
  <2>1. /\ Len(leaves) \in Nat /\ i \in Nat /\ i < Len(leaves) /\ i + 1 \in 1..Len(leaves)
        /\ IsSequence(path)
    BY DEF AuditInv
  <2>2. /\ \A x \in 1..Len(leaves) : ~IsPair(leaves[x])
        /\ \A event \in Range(leaves) \cup {Foreign} : ~IsPair(event)
    BY LeavesAreNoPairs
  <2>3. IsSequence(MerkleSiblings(leaves, i))
    BY <2>1, SiblingsAreSequence
  <2>4. \A event, q : ~IsPair(event) /\ IsSequence(q) =>
          (VerifyMerkleProof(event, i, q, CreditMerkleRoot(leaves)) <=>
             event = leaves[i + 1] /\ q = MerkleSiblings(leaves, i))
    BY <2>1, <2>2, CreditExact
  <2> QED BY <2>1, <2>2, <2>3, <2>4
<1> QED BY <1>1, AuditInvariance, PTL

(* Every proof an honest log makes is accepted, in a tree of any size.     *)
THEOREM HonestProofsAreAccepted == AuditSpec => []HonestProofsVerify
<1>1. AuditInv => HonestProofsVerify
  <2> SUFFICES ASSUME AuditInv PROVE HonestProofsVerify
    OBVIOUS
  <2>1. ASSUME NEW i \in 0..(Len(leaves) - 1)
        PROVE  VerifyInclusion(leaves[i + 1], i, Len(leaves), InclusionPath(i, leaves), LogRoot)
    <3>1. Len(leaves) \in Nat /\ i \in Nat /\ i < Len(leaves)
      BY DEF AuditInv
    <3>2. IsSequence(InclusionPath(i, leaves))
      BY <3>1, InclusionPathIsSequence
    <3> QED BY <3>1, <3>2, InclusionExact DEF LogRoot
  <2>2. ASSUME NEW m \in 1..(Len(leaves) - 1)
        PROVE  VerifyConsistency(m, Len(leaves), MerkleRootFromLeafHashes(Prefix(m)), LogRoot,
                                 ConsistencyPath(m, leaves))
    <3>1. Len(leaves) \in Nat /\ m \in Nat /\ m >= 1 /\ m < Len(leaves) /\ m \in 1..Len(leaves)
      BY DEF AuditInv
    <3>2. IsSequence(ConsistencyPath(m, leaves))
      BY <3>1, ConsistencyPathIsSequence
    <3>3. Len(Prefix(m)) = m /\ \A i \in 1..m : Prefix(m)[i] = leaves[i]
      BY <3>1, PrefixIs
    <3> QED BY <3>1, <3>2, <3>3, ConsistencyExact DEF LogRoot
  <2> QED BY <2>1, <2>2 DEF HonestProofsVerify
<1> QED BY <1>1, AuditInvariance, PTL

(* No other leaf and no other path is accepted as proof of inclusion.      *)
THEOREM InclusionProofsAreExact == AuditSpec => []InclusionProofsExact
<1>1. AuditInv => InclusionProofsExact
  <2> SUFFICES ASSUME AuditInv, NEW i \in 0..(Len(leaves) - 1), NEW h
               PROVE  VerifyInclusion(h, i, Len(leaves), path, LogRoot) <=>
                        h = leaves[i + 1] /\ path = InclusionPath(i, leaves)
    BY DEF InclusionProofsExact
  <2>1. Len(leaves) \in Nat /\ i \in Nat /\ i < Len(leaves) /\ IsSequence(path)
    BY DEF AuditInv
  <2> QED BY <2>1, InclusionExact DEF LogRoot
<1> QED BY <1>1, AuditInvariance, PTL

(* No other path, and no other root of the old tree, is accepted as proof  *)
(* of consistency.                                                         *)
THEOREM ConsistencyProofsAreExact == AuditSpec => []ConsistencyProofsExact
<1>1. AuditInv => ConsistencyProofsExact
  <2> SUFFICES ASSUME AuditInv, NEW m \in 1..(Len(leaves) - 1), NEW first
               PROVE  VerifyConsistency(m, Len(leaves), first, LogRoot, path) <=>
                        /\ first = MerkleRootFromLeafHashes(Prefix(m))
                        /\ path = ConsistencyPath(m, leaves)
    BY DEF ConsistencyProofsExact
  <2>1. /\ Len(leaves) \in Nat /\ m \in Nat /\ m >= 1 /\ m < Len(leaves)
        /\ m \in 1..Len(leaves) /\ IsSequence(path)
    BY DEF AuditInv
  <2>2. Len(Prefix(m)) = m /\ \A i \in 1..m : Prefix(m)[i] = leaves[i]
    BY <2>1, PrefixIs
  <2> QED BY <2>1, <2>2, ConsistencyExact DEF LogRoot
<1> QED BY <1>1, AuditInvariance, PTL

-----------------------------------------------------------------------------
(* The referee of the conformance suite.  Its inner loop tests less than   *)
(* the library's, its walk carries both roots where the library has two    *)
(* walks; step by step they stand at the same place.                       *)

LEMMA ShiftIsPosition ==
    ASSUME NEW bit
    PROVE  \A fn, sn \in Nat : ShiftWhile(bit, fn, sn) \in Position
<1> DEFINE S == {k \in Nat : \A sn \in Nat : ShiftWhile(bit, k, sn) \in Position}
<1>1. ASSUME NEW k \in Nat, \A j \in Nat : j < k => j \in S
      PROVE  k \in S
  <2> SUFFICES ASSUME NEW sn \in Nat PROVE ShiftWhile(bit, k, sn) \in Position
    OBVIOUS
  <2>1. ShiftWhile(bit, k, sn) = IF k % 2 = bit /\ k # 0
                                 THEN ShiftWhile(bit, k \div 2, sn \div 2)
                                 ELSE [fn |-> k, sn |-> sn]
    BY ShiftUnfolds
  <2>2. k \div 2 \in Nat /\ sn \div 2 \in Nat /\ (k # 0 => k \div 2 < k)
    OBVIOUS
  <2>3. k # 0 => ShiftWhile(bit, k \div 2, sn \div 2) \in Position
    BY <1>1, <2>2
  <2> QED BY <2>1, <2>3 DEF Position
<1>2. \A k \in Nat : k \in S
  <2> HIDE DEF S
  <2> QED BY <1>1, StrongInduction
<1> QED BY <1>2

LEMMA RefereeClimbs ==
    ASSUME NEW at, at.fn \in Nat, at.sn \in Nat
    PROVE  /\ RefereeNext(at.fn, at.sn).fn = Climb(at).fn
           /\ RefereeNext(at.fn, at.sn).sn = Climb(at).sn
           /\ Climb(at).fn \in Nat /\ Climb(at).sn \in Nat
<1> DEFINE even[s \in [fn : Nat, sn : Nat]] ==
             IF s.fn % 2 = 0 /\ s.fn # 0
             THEN even[[fn |-> s.fn \div 2, sn |-> s.sn \div 2]]
             ELSE s
<1>1. \A f, s : ShiftWhile(0, f, s) = even[[fn |-> f, sn |-> s]]
  BY DEF ShiftWhile
<1>2. \A f, s : RefereeNext(f, s) =
                  LET up == IF f = s THEN even[[fn |-> f, sn |-> s]] ELSE [fn |-> f, sn |-> s]
                  IN  [fn |-> up.fn \div 2, sn |-> up.sn \div 2]
  BY DEF RefereeNext
<1> HIDE DEF even
<1>3. PICK fn \in Nat, sn \in Nat : fn = at.fn /\ sn = at.sn
  OBVIOUS
<1>4. PICK shifted \in Position : shifted = ShiftWhile(0, fn, sn)
  BY ShiftIsPosition
<1>5. fn % 2 # 0 => shifted = [fn |-> fn, sn |-> sn]
  BY <1>4, ShiftUnfolds
<1>6. shifted.fn \in Nat /\ shifted.sn \in Nat
  BY DEF Position
<1>7. RefereeNext(fn, sn) = IF fn = sn THEN [fn |-> shifted.fn \div 2, sn |-> shifted.sn \div 2]
                                       ELSE [fn |-> fn \div 2, sn |-> sn \div 2]
  BY <1>1, <1>2, <1>4
<1>8. Climb(at) = IF (fn % 2 = 1 \/ fn = sn) /\ fn % 2 = 0
                  THEN [fn |-> shifted.fn \div 2, sn |-> shifted.sn \div 2]
                  ELSE [fn |-> fn \div 2, sn |-> sn \div 2]
  BY <1>3, <1>4 DEF Climb, JoinsFromLeft, ShiftWhileEven
<1>9. fn % 2 \in {0, 1}
  OBVIOUS
<1> QED BY <1>3, <1>5, <1>6, <1>7, <1>8, <1>9

(* Both stand at the same place of the walk. *)
Same(was, both) ==
    /\ was.ok <=> both.ok
    /\ was.fn = both.fn /\ was.sn = both.sn
    /\ was.old = both.fr /\ was.new = both.sr
    /\ both.fn \in Nat /\ both.sn \in Nat

LEMMA SameStays ==
    ASSUME NEW was, NEW both, NEW p, Same(was, both)
    PROVE  Same(RefereeJoin(was, p), JoinBoth(both, p))
<1>1. /\ RefereeNext(was.fn, was.sn).fn = Climb(both).fn
      /\ RefereeNext(was.fn, was.sn).sn = Climb(both).sn
      /\ Climb(both).fn \in Nat /\ Climb(both).sn \in Nat
  BY RefereeClimbs DEF Same
<1>2. (was.fn % 2 = 1 \/ was.fn = was.sn) <=> JoinsFromLeft(both)
  BY DEF Same, JoinsFromLeft
<1>3. /\ RefereeJoin(was, p).ok <=> was.ok /\ was.sn # 0
      /\ RefereeJoin(was, p).fn = RefereeNext(was.fn, was.sn).fn
      /\ RefereeJoin(was, p).sn = RefereeNext(was.fn, was.sn).sn
  BY DEF RefereeJoin
<1>4. /\ JoinBoth(both, p).ok <=> both.ok /\ both.sn # 0
      /\ JoinBoth(both, p).fn = Climb(both).fn /\ JoinBoth(both, p).sn = Climb(both).sn
  BY DEF JoinBoth
<1>5. RefereeJoin(was, p).old = JoinBoth(both, p).fr /\ RefereeJoin(was, p).new = JoinBoth(both, p).sr
  BY <1>2 DEF RefereeJoin, JoinBoth, Same
<1> QED BY <1>1, <1>3, <1>4, <1>5 DEF Same

RefereeSteps(f, start, q, d) ==
    f = [i \in 0..d |-> IF i = 0 THEN start ELSE RefereeJoin(f[i - 1], q[i])]

LEMMA RefereeStepsExist ==
    ASSUME NEW start, NEW q
    PROVE  \A d \in Nat : \E f : RefereeSteps(f, start, q, d)
<1> DEFINE S == {d \in Nat : \E f : RefereeSteps(f, start, q, d)}
<1>1. 0 \in S
  <2>1. RefereeSteps([i \in 0..0 |-> start], start, q, 0)
    BY DEF RefereeSteps
  <2> QED BY <2>1
<1>2. ASSUME NEW d \in Nat, d \in S
      PROVE  d + 1 \in S
  <2>1. PICK f : RefereeSteps(f, start, q, d)
    BY <1>2
  <2> DEFINE g == [i \in 0..(d + 1) |-> IF i = 0 THEN start ELSE RefereeJoin(f[i - 1], q[i])]
  <2>2. \A i \in 0..d : f[i] = IF i = 0 THEN start ELSE RefereeJoin(f[i - 1], q[i])
    BY <2>1 DEF RefereeSteps
  <2>3. \A i \in 0..d : i \in 0..(d + 1)
    OBVIOUS
  <2>4. \A i \in 0..d : g[i] = f[i]
    BY <2>2, <2>3
  <2>5. \A i \in 0..(d + 1) : i # 0 => i - 1 \in 0..d
    OBVIOUS
  <2> HIDE DEF g
  <2>6. \A i \in 0..(d + 1) : i # 0 => g[i - 1] = f[i - 1]
    BY <2>4, <2>5
  <2>7. RefereeSteps(g, start, q, d + 1)
    BY <2>6 DEF RefereeSteps, g
  <2> QED BY <2>7
<1>3. \A d \in Nat : d \in S
  <2> HIDE DEF S
  <2> QED BY <1>1, <1>2, Induction
<1> QED BY <1>3

LEMMA RefereeWalked ==
    ASSUME NEW fn, NEW sn, NEW h, NEW q, Len(q) \in Nat
    PROVE  \E at : /\ at[0] = [ok |-> TRUE, fn |-> fn, sn |-> sn, old |-> h, new |-> h]
                   /\ \A i \in 1..Len(q) : at[i] = RefereeJoin(at[i - 1], q[i])
                   /\ RefereeWalk(fn, sn, h, q) = at[Len(q)]
<1> DEFINE start == [ok |-> TRUE, fn |-> fn, sn |-> sn, old |-> h, new |-> h]
           at[i \in 0..Len(q)] == IF i = 0 THEN start ELSE RefereeJoin(at[i - 1], q[i])
<1>1. \E f : f = [i \in 0..Len(q) |-> IF i = 0 THEN start ELSE RefereeJoin(f[i - 1], q[i])]
  <2> HIDE DEF at, start
  <2>1. PICK f : RefereeSteps(f, start, q, Len(q))
    BY RefereeStepsExist
  <2> QED BY <2>1 DEF RefereeSteps
<1>2. at = [i \in 0..Len(q) |-> IF i = 0 THEN start ELSE RefereeJoin(at[i - 1], q[i])]
  BY <1>1
<1>3. RefereeWalk(fn, sn, h, q) = at[Len(q)]
  BY DEF RefereeWalk
<1> HIDE DEF at, start
<1>4. at[0] = start /\ \A i \in 1..Len(q) : at[i] = RefereeJoin(at[i - 1], q[i])
  BY <1>2
<1> QED BY <1>3, <1>4 DEF start

LEMMA RefereeWalksBoth ==
    ASSUME NEW fn \in Nat, NEW sn \in Nat, NEW h, NEW q, IsSequence(q)
    PROVE  Same(RefereeWalk(fn, sn, h, q), WalkBoth(BothState(fn, sn, h, h), q))
<1>1. Len(q) \in Nat
  BY JoinedNothing
<1>2. PICK f : /\ f[0] = [ok |-> TRUE, fn |-> fn, sn |-> sn, old |-> h, new |-> h]
               /\ \A i \in 1..Len(q) : f[i] = RefereeJoin(f[i - 1], q[i])
               /\ RefereeWalk(fn, sn, h, q) = f[Len(q)]
  BY <1>1, RefereeWalked
<1>3. PICK g : /\ g[0] = BothState(fn, sn, h, h)
               /\ \A i \in 1..Len(q) : g[i] = JoinBoth(g[i - 1], q[i])
               /\ WalkBoth(BothState(fn, sn, h, h), q) = g[Len(q)]
  <2>1. PICK start : start = BothState(fn, sn, h, h)
    OBVIOUS
  <2>2. \E at : /\ at[0] = start
                /\ \A i \in 1..Len(q) : at[i] = JoinBoth(at[i - 1], q[i])
                /\ WalkBoth(start, q) = at[Len(q)]
    BY ONLY <1>1, BothWalked
  <2> QED BY <2>1, <2>2
<1> DEFINE S == {i \in Nat : i <= Len(q) => Same(f[i], g[i])}
<1>4. 0 \in S
  BY <1>2, <1>3 DEF Same, BothState
<1>5. ASSUME NEW i \in Nat, i \in S
      PROVE  i + 1 \in S
  <2> SUFFICES ASSUME i + 1 <= Len(q)
               PROVE  Same(f[i + 1], g[i + 1])
    OBVIOUS
  <2>1. i + 1 \in 1..Len(q) /\ (i + 1) - 1 = i /\ i <= Len(q)
    BY <1>1
  <2>2. f[i + 1] = RefereeJoin(f[i], q[i + 1]) /\ g[i + 1] = JoinBoth(g[i], q[i + 1])
    BY <1>2, <1>3, <2>1
  <2>3. Same(f[i], g[i])
    BY <1>5, <2>1
  <2> QED BY <2>2, <2>3, SameStays
<1>6. \A i \in Nat : i \in S
  <2> HIDE DEF S
  <2> QED BY <1>4, <1>5, Induction
<1>7. Same(f[Len(q)], g[Len(q)])
  BY <1>1, <1>6
<1> QED BY <1>2, <1>3, <1>7

(* Referee and library accept the same inclusion proofs.                   *)
THEOREM RefereeInclusion ==
    ASSUME NEW h, NEW m \in Nat, NEW n \in Nat, m < n, NEW q, IsSequence(q), NEW root
    PROVE  RefereeVerifyInclusion(h, m, n, q, root) <=> VerifyInclusion(h, m, n, q, root)
<1>1. n - 1 \in Nat /\ m \in 0..(n - 1) /\ m >= 0
  OBVIOUS
<1>2. PICK mine : mine = RefereeWalk(m, n - 1, h, q)
  OBVIOUS
<1>3. PICK both : both = WalkBoth(BothState(m, n - 1, h, h), q)
  OBVIOUS
<1>4. PICK audit : audit = WalkAudit(AuditState(m, n - 1, h), q)
  OBVIOUS
<1>5. Same(mine, both)
  BY <1>1, <1>2, <1>3, RefereeWalksBoth
<1>6. Agree(both, audit)
  BY <1>3, <1>4, AgreeAtEnd
<1>7. RefereeVerifyInclusion(h, m, n, q, root) <=> mine.ok /\ mine.sn = 0 /\ mine.new = root
  BY <1>1, <1>2 DEF RefereeVerifyInclusion
<1>8. VerifyInclusion(h, m, n, q, root) <=> audit.ok /\ audit.sn = 0 /\ audit.r = root
  BY ONLY <1>1, <1>4, m < n, Zenon DEF VerifyInclusion, AuditState
<1> QED BY <1>5, <1>6, <1>7, <1>8 DEF Same, Agree

-----------------------------------------------------------------------------
(* The referee's test for a power of two, bit by bit.                      *)

Words == [a : Nat, b : Nat, word : Nat \ {0}]
HalfWord(at) == [a |-> at.a \div 2, b |-> at.b \div 2, word |-> at.word \div 2]

Apart(f, at) ==
    \/ at.word = 1
    \/ (at.a % 2 = 0 \/ at.b % 2 = 0) /\ f[HalfWord(at)]

LEMMA HalfWords ==
    \A at \in Words : at.word # 1 =>
      /\ HalfWord(at) \in Words /\ HalfWord(at).word < at.word
      /\ at.word \in Nat /\ HalfWord(at).word \in Nat
BY DEF Words, HalfWord

(* The test ends, for numbers of every length.                             *)
LEMMA ApartExists == \E f : f = [at \in Words |-> Apart(f, at)]
<1> DEFINE To(d) == {at \in Words : at.word <= d}
           Partly(f, d) == f = [at \in To(d) |-> Apart(f, at)]
           S == {d \in Nat : \E f : Partly(f, d)}
           Only(d) == CHOOSE f : Partly(f, d)
           all == [at \in Words |-> Only(at.word)[at]]
<1>1. 0 \in S
  <2>1. To(0) = {}
    BY DEF Words
  <2>2. Partly([at \in To(0) |-> at], 0)
    BY <2>1
  <2> HIDE DEF Partly
  <2> QED BY <2>2
<1>2. ASSUME NEW d \in Nat, d \in S
      PROVE  d + 1 \in S
  <2>1. PICK f : Partly(f, d)
    BY <1>2
  <2> DEFINE g == [at \in To(d + 1) |-> Apart(f, at)]
  <2>2. \A at \in To(d + 1) : at.word # 1 => HalfWord(at) \in To(d)
    BY HalfWords
  <2>3. \A at \in To(d) : at \in To(d + 1)
    BY DEF Words
  <2>4. \A at \in To(d) : f[at] = Apart(f, at)
    BY <2>1
  <2> HIDE DEF To
  <2>5. \A at \in To(d) : f[at] = g[at]
    BY <2>3, <2>4
  <2>6. \A at \in To(d + 1) : Apart(f, at) = Apart(g, at)
    BY <2>2, <2>5 DEF Apart
  <2>7. Partly(g, d + 1)
    BY <2>6
  <2> HIDE DEF Partly, g
  <2> QED BY <2>7
<1>3. \A d \in Nat : Partly(Only(d), d)
  <2>1. \A d \in Nat : d \in S
    <3> HIDE DEF S
    <3> QED BY <1>1, <1>2, Induction
  <2>2. \A d \in Nat : \E f : Partly(f, d)
    BY <2>1
  <2> HIDE DEF Partly
  <2> QED BY <2>2
<1>4. \A d \in Nat : \A at \in To(d) : Only(d)[at] = Apart(Only(d), at)
  <2> HIDE DEF Only, To
  <2> QED BY <1>3
<1> DEFINE Agreed == {k \in Nat : \A d, e \in Nat : \A at \in To(d) \cap To(e) :
                                   at.word = k => Only(d)[at] = Only(e)[at]}
<1>5. ASSUME NEW k \in Nat, \A m \in Nat : m < k => m \in Agreed
      PROVE  k \in Agreed
  <2> HIDE DEF Only
  <2> SUFFICES ASSUME NEW d \in Nat, NEW e \in Nat, NEW at \in To(d) \cap To(e), at.word = k
               PROVE  Only(d)[at] = Only(e)[at]
    OBVIOUS
  <2>1. at.word # 1 => /\ HalfWord(at) \in To(d) \cap To(e)
                       /\ HalfWord(at).word \in Nat /\ HalfWord(at).word < k
    BY HalfWords
  <2>2. at.word # 1 => Only(d)[HalfWord(at)] = Only(e)[HalfWord(at)]
    BY <1>5, <2>1
  <2>3. Apart(Only(d), at) = Apart(Only(e), at)
    BY <2>2 DEF Apart
  <2> HIDE DEF To
  <2> QED BY <1>4, <2>3
<1>6. \A k \in Nat : k \in Agreed
  <2> HIDE DEF Agreed
  <2> QED BY <1>5, StrongInduction
<1>7. ASSUME NEW at \in Words
      PROVE  all[at] = Apart(all, at)
  <2> HIDE DEF Only
  <2>1. at.word \in Nat /\ at \in To(at.word) /\ all[at] = Only(at.word)[at]
    BY DEF Words
  <2>2. ASSUME at.word # 1
        PROVE  all[HalfWord(at)] = Only(at.word)[HalfWord(at)]
    <3>1. /\ HalfWord(at) \in Words /\ HalfWord(at).word \in Nat
          /\ HalfWord(at) \in To(at.word) /\ HalfWord(at) \in To(HalfWord(at).word)
      BY <2>1, <2>2, HalfWords
    <3>2. HalfWord(at).word \in Agreed
      BY <1>6, <3>1
    <3> QED BY <2>1, <3>1, <3>2
  <2>3. Apart(all, at) = Apart(Only(at.word), at)
    <3> HIDE DEF all
    <3> QED BY <2>2 DEF Apart
  <2> HIDE DEF To, all
  <2> QED BY <1>4, <2>1, <2>3
<1>8. all = [at \in Words |-> Apart(all, at)]
  <2> HIDE DEF Only
  <2> QED BY <1>7
<1> QED BY <1>8

(* The test, unfolded. *)
Disjoint(a, b, w) ==
    LET disjoint[at \in [a : Nat, b : Nat, word : Nat \ {0}]] ==
          \/ at.word = 1
          \/ /\ at.a % 2 = 0 \/ at.b % 2 = 0
             /\ disjoint[[a |-> at.a \div 2, b |-> at.b \div 2, word |-> at.word \div 2]]
    IN  disjoint[[a |-> a, b |-> b, word |-> w]]

LEMMA DisjointUnfolds ==
    ASSUME NEW a \in Nat, NEW b \in Nat, NEW w \in Pos
    PROVE  Disjoint(a, b, w) <=>
             \/ w = 1
             \/ (a % 2 = 0 \/ b % 2 = 0) /\ Disjoint(a \div 2, b \div 2, w \div 2)
<1> DEFINE disjoint[at \in [a : Nat, b : Nat, word : Nat \ {0}]] ==
             \/ at.word = 1
             \/ /\ at.a % 2 = 0 \/ at.b % 2 = 0
                /\ disjoint[[a |-> at.a \div 2, b |-> at.b \div 2, word |-> at.word \div 2]]
<1>1. disjoint = [at \in [a : Nat, b : Nat, word : Nat \ {0}] |->
                    \/ at.word = 1
                    \/ /\ at.a % 2 = 0 \/ at.b % 2 = 0
                       /\ disjoint[[a |-> at.a \div 2, b |-> at.b \div 2,
                                    word |-> at.word \div 2]]]
  BY ApartExists DEF Apart, Words, HalfWord
<1>2. \A x, y, v : Disjoint(x, y, v) = disjoint[[a |-> x, b |-> y, word |-> v]]
  BY DEF Disjoint
<1> HIDE DEF disjoint
<1>3. PICK at : at = [a |-> a, b |-> b, word |-> w]
  OBVIOUS
<1>4. at \in [a : Nat, b : Nat, word : Nat \ {0}] /\ at.a = a /\ at.b = b /\ at.word = w
  BY <1>3 DEF Pos
<1>5. disjoint[at] = \/ at.word = 1
                     \/ /\ at.a % 2 = 0 \/ at.b % 2 = 0
                        /\ disjoint[[a |-> at.a \div 2, b |-> at.b \div 2,
                                     word |-> at.word \div 2]]
  BY <1>1, <1>4
<1> QED BY <1>2, <1>3, <1>4, <1>5

LEMMA PowersAreHalved ==
    ASSUME NEW w \in Pos, IsPowerOfTwo(w), w # 1
    PROVE  /\ w % 2 = 0 /\ w \div 2 \in Pos /\ w \div 2 < w /\ w = (w \div 2) * 2
           /\ IsPowerOfTwo(w \div 2)
<1>1. w % 2 = 0
  BY PowerOfTwoHalved DEF Pos
<1>2. w \div 2 \in Pos /\ w \div 2 < w /\ w = (w \div 2) * 2
  BY <1>1 DEF Pos
<1> QED BY <1>1, <1>2, PowerOfTwoHalved

(* Within a word, a number shares no bit with itself when it is 0, or when *)
(* it is the first that the word cannot hold.                              *)
LEMMA SharedWithItself ==
    ASSUME NEW w \in Pos, IsPowerOfTwo(w), NEW k \in Nat, k <= w
    PROVE  Disjoint(k, k, w) <=> k = 0 \/ k = w
<1> DEFINE S == {v \in Nat : v \in Pos /\ IsPowerOfTwo(v) =>
                               \A j \in Nat : j <= v => (Disjoint(j, j, v) <=> j = 0 \/ j = v)}
<1>1. ASSUME NEW v \in Nat, \A u \in Nat : u < v => u \in S
      PROVE  v \in S
  <2> SUFFICES ASSUME v \in Pos, IsPowerOfTwo(v), NEW j \in Nat, j <= v
               PROVE  Disjoint(j, j, v) <=> j = 0 \/ j = v
    OBVIOUS
  <2>1. Disjoint(j, j, v) <=> v = 1 \/ (j % 2 = 0 /\ Disjoint(j \div 2, j \div 2, v \div 2))
    BY DisjointUnfolds
  <2>2. CASE v = 1
    BY <2>1, <2>2
  <2>3. CASE v # 1
    <3>1. /\ v % 2 = 0 /\ v \div 2 \in Pos /\ v \div 2 < v /\ v = (v \div 2) * 2
          /\ IsPowerOfTwo(v \div 2)
      BY <2>3, PowersAreHalved
    <3>2. v \div 2 \in Nat /\ j \div 2 \in Nat /\ j \div 2 <= v \div 2
      BY <3>1 DEF Pos
    <3>3. Disjoint(j \div 2, j \div 2, v \div 2) <=> j \div 2 = 0 \/ j \div 2 = v \div 2
      BY <1>1, <3>1, <3>2
    <3>4. j % 2 = 0 /\ (j \div 2 = 0 \/ j \div 2 = v \div 2) <=> j = 0 \/ j = v
      BY <3>1, <3>2 DEF Pos
    <3> QED BY <2>1, <2>3, <3>3, <3>4
  <2> QED BY <2>2, <2>3
<1>2. w \in S
  <2>1. w \in Nat
    BY DEF Pos
  <2> HIDE DEF S
  <2> QED BY <1>1, <2>1, StrongInduction
<1> QED BY <1>2

(* A number in a word shares no bit with the one before it exactly when it *)
(* is a power of two.                                                      *)
LEMMA SharedWithTheOneBefore ==
    ASSUME NEW w \in Pos, IsPowerOfTwo(w), NEW n \in 1..w
    PROVE  Disjoint(n, n - 1, w) <=> IsPowerOfTwo(n)
<1> DEFINE S == {v \in Nat : v \in Pos /\ IsPowerOfTwo(v) =>
                               \A j \in 1..v : Disjoint(j, j - 1, v) <=> IsPowerOfTwo(j)}
<1>1. ASSUME NEW v \in Nat, \A u \in Nat : u < v => u \in S
      PROVE  v \in S
  <2> SUFFICES ASSUME v \in Pos, IsPowerOfTwo(v), NEW j \in 1..v
               PROVE  Disjoint(j, j - 1, v) <=> IsPowerOfTwo(j)
    OBVIOUS
  <2>1. j \in Pos /\ j \in Nat /\ j - 1 \in Nat
    BY DEF Pos
  <2>2. Disjoint(j, j - 1, v) <=>
          \/ v = 1
          \/ (j % 2 = 0 \/ (j - 1) % 2 = 0) /\ Disjoint(j \div 2, (j - 1) \div 2, v \div 2)
    BY <2>1, DisjointUnfolds
  <2>3. CASE v = 1
    <3>1. j = 1
      BY <2>3
    <3> QED BY <2>1, <2>2, <2>3, <3>1, PowerOfTwoHalved
  <2>4. CASE v # 1
    <3>1. /\ v % 2 = 0 /\ v \div 2 \in Pos /\ v \div 2 < v /\ v = (v \div 2) * 2
          /\ IsPowerOfTwo(v \div 2)
      BY <2>4, PowersAreHalved
    <3>2. v \div 2 \in Nat /\ v \div 2 \in S
      BY <1>1, <3>1 DEF Pos
    <3>3. CASE j % 2 = 1
      <4>1. /\ (j - 1) % 2 = 0 /\ (j - 1) \div 2 = j \div 2
            /\ j \div 2 \in Nat /\ j \div 2 < v \div 2 /\ (j \div 2 = 0 <=> j = 1)
        BY <2>1, <3>1, <3>2, <3>3
      <4>2. Disjoint(j \div 2, j \div 2, v \div 2) <=> j \div 2 = 0
        BY <3>1, <3>2, <4>1, SharedWithItself
      <4>3. IsPowerOfTwo(j) <=> j = 1
        BY <2>1, <3>3, PowerOfTwoHalved
      <4> QED BY <2>2, <2>4, <4>1, <4>2, <4>3
    <3>4. CASE j % 2 = 0
      <4>1. /\ (j - 1) \div 2 = (j \div 2) - 1 /\ j \div 2 \in 1..(v \div 2)
        BY <2>1, <3>1, <3>2, <3>4
      <4>2. Disjoint(j \div 2, (j \div 2) - 1, v \div 2) <=> IsPowerOfTwo(j \div 2)
        BY <3>1, <3>2, <4>1
      <4>3. IsPowerOfTwo(j) <=> IsPowerOfTwo(j \div 2)
        BY <2>1, <3>4, PowerOfTwoHalved
      <4> QED BY <2>2, <2>4, <3>4, <4>1, <4>2, <4>3
    <3> QED BY <2>1, <3>3, <3>4
  <2> QED BY <2>3, <2>4
<1>2. w \in S
  <2>1. w \in Nat
    BY DEF Pos
  <2> HIDE DEF S
  <2> QED BY <1>1, <2>1, StrongInduction
<1> QED BY <1>2

(* The referee and the library call the same sizes powers of two, up to    *)
(* the numbers of a word, and no further: the next one the referee         *)
(* misreads.  With words of 32 bits this is a log of 2^32 + 1 entries.     *)
THEOREM RefereePowerTest ==
    /\ \A n \in 1..WordSize : RefereeIsPow2(n) <=> IsPowerOfTwo(n)
    /\ RefereeIsPow2(WordSize + 1) /\ ~IsPowerOfTwo(WordSize + 1)
<1>1. WordSize \in Pos /\ WordSize # 1 /\ IsPowerOfTwo(WordSize)
  BY WordSizeIsPower DEF Pos
<1>2. \A n : RefereeIsPow2(n) <=> Disjoint(n, n - 1, WordSize)
  BY DEF RefereeIsPow2, NoSharedBit, Disjoint
<1>3. \A n \in 1..WordSize : RefereeIsPow2(n) <=> IsPowerOfTwo(n)
  BY <1>1, <1>2, SharedWithTheOneBefore
<1>4. /\ WordSize % 2 = 0 /\ WordSize \div 2 \in Pos /\ IsPowerOfTwo(WordSize \div 2)
  BY <1>1, PowersAreHalved
<1>5. /\ WordSize + 1 \in Pos /\ WordSize + 1 # 1 /\ (WordSize + 1) % 2 = 1
      /\ (WordSize + 1) \div 2 = WordSize \div 2
      /\ (WordSize + 1) - 1 = WordSize /\ WordSize \in Nat /\ WordSize + 1 \in Nat
  BY <1>1, <1>4 DEF Pos
<1>6. RefereeIsPow2(WordSize + 1)
  <2>1. Disjoint(WordSize \div 2, WordSize \div 2, WordSize \div 2)
    BY <1>4, SharedWithItself DEF Pos
  <2>2. Disjoint(WordSize + 1, WordSize, WordSize)
    BY <1>1, <1>4, <1>5, <2>1, DisjointUnfolds
  <2> QED BY <1>2, <1>5, <2>2
<1>7. ~IsPowerOfTwo(WordSize + 1)
  BY <1>5, PowerOfTwoHalved
<1> QED BY <1>3, <1>6, <1>7

-----------------------------------------------------------------------------
(* Its consistency verifier.                                               *)

LEMMA RefereeShifts ==
    ASSUME NEW odd,
           odd = [at \in [fn : Nat, sn : Nat] |->
                    IF at.fn % 2 = 1 THEN odd[[fn |-> at.fn \div 2, sn |-> at.sn \div 2]] ELSE at]
    PROVE  \A fn, sn \in Nat : odd[[fn |-> fn, sn |-> sn]] = ShiftWhile(1, fn, sn)
<1> DEFINE S == {k \in Nat : \A sn \in Nat : odd[[fn |-> k, sn |-> sn]] = ShiftWhile(1, k, sn)}
<1>1. ASSUME NEW k \in Nat, \A j \in Nat : j < k => j \in S
      PROVE  k \in S
  <2> SUFFICES ASSUME NEW sn \in Nat PROVE odd[[fn |-> k, sn |-> sn]] = ShiftWhile(1, k, sn)
    OBVIOUS
  <2>1. ShiftWhile(1, k, sn) = IF k % 2 = 1 /\ k # 0
                               THEN ShiftWhile(1, k \div 2, sn \div 2)
                               ELSE [fn |-> k, sn |-> sn]
    BY ShiftUnfolds
  <2>2. odd[[fn |-> k, sn |-> sn]] = IF k % 2 = 1
                                     THEN odd[[fn |-> k \div 2, sn |-> sn \div 2]]
                                     ELSE [fn |-> k, sn |-> sn]
    OBVIOUS
  <2>3. k \div 2 \in Nat /\ sn \div 2 \in Nat /\ (k # 0 => k \div 2 < k)
        /\ (k % 2 = 1 => k # 0)
    OBVIOUS
  <2>4. k # 0 => odd[[fn |-> k \div 2, sn |-> sn \div 2]] = ShiftWhile(1, k \div 2, sn \div 2)
    BY <1>1, <2>3
  <2> QED BY <2>1, <2>2, <2>3, <2>4
<1>2. \A k \in Nat : k \in S
  <2> HIDE DEF S
  <2> QED BY <1>1, StrongInduction
<1> QED BY <1>2

(* Where the leading loop stops, and that it exists.                       *)
LEMMA RefereeStarts ==
    \E odd : odd = [at \in [fn : Nat, sn : Nat] |->
                      IF at.fn % 2 = 1 THEN odd[[fn |-> at.fn \div 2, sn |-> at.sn \div 2]] ELSE at]
<1>1. PICK f : Shifted(f, 1)
  BY ShiftExists
<1>2. \A at \in [fn : Nat, sn : Nat] : at.fn % 2 = 1 <=> (at.fn % 2 = 1 /\ at.fn # 0)
  OBVIOUS
<1>3. f = [at \in [fn : Nat, sn : Nat] |->
             IF at.fn % 2 = 1 THEN f[[fn |-> at.fn \div 2, sn |-> at.sn \div 2]] ELSE at]
  BY <1>1, <1>2 DEF Shifted, Position, Halved
<1> QED BY <1>3

(* Referee and library accept the same consistency proofs, from every old  *)
(* size that fits the referee's word.                                      *)
THEOREM RefereeConsistency ==
    ASSUME NEW m \in Nat, m >= 1, m <= WordSize, NEW n \in Nat, m <= n, NEW q, IsSequence(q), NEW old, NEW new
    PROVE  RefereeVerifyConsistency(m, n, old, new, q) <=> VerifyConsistency(m, n, old, new, q)
<1> DEFINE odd[at \in [fn : Nat, sn : Nat]] ==
             IF at.fn % 2 = 1 THEN odd[[fn |-> at.fn \div 2, sn |-> at.sn \div 2]] ELSE at
<1>1. odd = [at \in [fn : Nat, sn : Nat] |->
               IF at.fn % 2 = 1 THEN odd[[fn |-> at.fn \div 2, sn |-> at.sn \div 2]] ELSE at]
  BY RefereeStarts
<1>2. PICK p : p = IF RefereeIsPow2(m) THEN <<old>> \o q ELSE q
  OBVIOUS
<1>3. PICK start : start = odd[[fn |-> m - 1, sn |-> n - 1]]
  OBVIOUS
<1>4. PICK mine : mine = RefereeWalk(start.fn, start.sn, p[1], Tail(p))
  OBVIOUS
<1>5. RefereeVerifyConsistency(m, n, old, new, q) <=>
        /\ m < n /\ q # <<>>
        /\ mine.ok /\ mine.sn = 0 /\ mine.old = old /\ mine.new = new
  <2>1. m > 0
    OBVIOUS
  <2> QED BY <1>2, <1>3, <1>4, <2>1 DEF RefereeVerifyConsistency
<1> HIDE DEF odd
<1>6. m - 1 \in Nat /\ n - 1 \in Nat
  OBVIOUS
<1>7. start = ShiftWhileOdd(m - 1, n - 1)
  <2>1. \A fn, sn \in Nat : odd[[fn |-> fn, sn |-> sn]] = ShiftWhile(1, fn, sn)
    BY ONLY <1>1, RefereeShifts
  <2> QED BY <1>3, <1>6, <2>1 DEF ShiftWhileOdd
<1>8. start \in Position
  BY <1>6, <1>7, ShiftIsPosition DEF ShiftWhileOdd
<1>9. start.fn \in Nat /\ start.sn \in Nat
  BY <1>8 DEF Position
<1>10. PICK both : both = WalkBoth(BothState(start.fn, start.sn, Head(p), Head(p)), Tail(p))
  OBVIOUS
<1>11. VerifyConsistency(m, n, old, new, q) <=>
        /\ m < n /\ q # <<>>
        /\ both.ok /\ both.sn = 0 /\ both.fr = old /\ both.sr = new
  <2>1. 0 < m
    OBVIOUS
  <2>2. RefereeIsPow2(m) <=> IsPowerOfTwo(m)
    <3>1. m \in 1..WordSize
      BY WordSizeIsPower
    <3> QED BY <3>1, RefereePowerTest
  <2>3. p = IF IsPowerOfTwo(m) THEN <<old>> \o q ELSE q
    BY <1>2, <2>2
  <2>4. ConsistencyEnd(m, n, old, q) = both
    BY <1>7, <1>10, <2>3 DEF ConsistencyEnd, BothState
  <2> QED BY <2>1, <2>4 DEF VerifyConsistency
<1>12. ASSUME q # <<>> PROVE Same(mine, both)
  <2>1. IsSequence(<<old>> \o q) /\ <<old>> \o q # <<>>
    BY FirstAndRest
  <2>2. IsSequence(p) /\ p # <<>>
    BY <1>2, <1>12, <2>1
  <2>3. IsSequence(Tail(p)) /\ p[1] = Head(p)
    BY <2>2, HeadAndTail
  <2> QED BY <1>4, <1>9, <1>10, <2>3, RefereeWalksBoth
<1> QED BY <1>5, <1>11, <1>12 DEF Same

(* The referee of the conformance suite and the library give the same      *)
(* verdict on every path an auditor may be handed, in a tree of any size,  *)
(* for every old size up to that of a word, with the old root the log had  *)
(* or any other: what one of them would let pass, the other would too.     *)
THEOREM RefereeDecidesAlike == AuditSpec => []RefereeAgrees
<1>1. AuditInv => RefereeAgrees
  <2> SUFFICES ASSUME AuditInv, NEW m \in 1..Len(leaves)
               PROVE  /\ RefereeVerifyInclusion(leaves[m], m - 1, Len(leaves), path, LogRoot)
                           = VerifyInclusion(leaves[m], m - 1, Len(leaves), path, LogRoot)
                      /\ m <= WordSize =>
                           \A root : RefereeVerifyConsistency(m, Len(leaves), root, LogRoot, path)
                                       = VerifyConsistency(m, Len(leaves), root, LogRoot, path)
    BY DEF RefereeAgrees
  <2>1. /\ Len(leaves) \in Nat /\ m \in Nat /\ m >= 1 /\ m <= Len(leaves)
        /\ m - 1 \in Nat /\ m - 1 < Len(leaves) /\ IsSequence(path)
    BY DEF AuditInv
  <2>2. RefereeVerifyInclusion(leaves[m], m - 1, Len(leaves), path, LogRoot) <=>
          VerifyInclusion(leaves[m], m - 1, Len(leaves), path, LogRoot)
    BY <2>1, RefereeInclusion
  <2>3. ASSUME m <= WordSize, NEW root
        PROVE  RefereeVerifyConsistency(m, Len(leaves), root, LogRoot, path) <=>
                 VerifyConsistency(m, Len(leaves), root, LogRoot, path)
    BY <2>1, <2>3, RefereeConsistency
  <2>4. /\ RefereeVerifyInclusion(leaves[m], m - 1, Len(leaves), path, LogRoot)
             = VerifyInclusion(leaves[m], m - 1, Len(leaves), path, LogRoot)
        /\ m <= WordSize =>
             \A root : RefereeVerifyConsistency(m, Len(leaves), root, LogRoot, path)
                         = VerifyConsistency(m, Len(leaves), root, LogRoot, path)
    BY <2>2, <2>3 DEF RefereeVerifyInclusion, VerifyInclusion, RefereeVerifyConsistency,
                      VerifyConsistency
  <2> QED BY <2>4
<1> QED BY <1>1, AuditInvariance, PTL

-----------------------------------------------------------------------------
(* The proofs the referee makes are those the library makes.               *)

LEMMA RefereePower == \A n : RefereePowerBelow(n) = LargestPowerOfTwoBelow(n)
BY DEF RefereePowerBelow, LargestPowerOfTwoBelow

(* Its tree hash is defined for the empty tree too. *)
Trees(d) == [lo : Nat, n : 0..d]

MthStep(f, L, t) ==
    IF t.n = 0 THEN EmptyTreeRoot
    ELSE IF t.n = 1 THEN L[t.lo + 1]
    ELSE HashChildren(f[Left(t)], f[Right(t)])

IsMth(f, L) == f = [t \in Trees(Len(L)) |-> MthStep(f, L, t)]

RootOrEmpty(L, lo, n) == IF n = 0 THEN EmptyTreeRoot ELSE Root(L, lo, n)

(* A tree of two leaves or more, and its subtrees. *)
TreeGoesDown(d, lo, n, k) ==
    /\ k \in Nat /\ n \in Nat /\ k # 0 /\ k < n /\ lo + k \in Nat
    /\ n - k \in Nat /\ n - k # 0 /\ n - k < n
    /\ Left(Tree(lo, n)) = Tree(lo, k) /\ Right(Tree(lo, n)) = Tree(lo + k, n - k)
    /\ Tree(lo, n) \in Trees(d) /\ Tree(lo, k) \in Trees(d) /\ Tree(lo + k, n - k) \in Trees(d)
    /\ Tree(lo, n).lo = lo /\ Tree(lo, n).n = n /\ Tree(lo, k).lo = lo /\ Tree(lo, k).n = k
    /\ Tree(lo + k, n - k).lo = lo + k /\ Tree(lo + k, n - k).n = n - k

LEMMA TreesGoDown ==
    ASSUME NEW d \in Nat, NEW lo \in Nat, NEW n \in 0..d, n # 0, n # 1,
           NEW k, k = LargestPowerOfTwoBelow(n)
    PROVE  TreeGoesDown(d, lo, n, k)
<1>1. n \in Nat /\ n >= 2 /\ n <= d
  OBVIOUS
<1>2. k \in Nat /\ k >= 1 /\ k < n
  BY <1>1, LargestBelow DEF Pos
<1>3. lo + k \in Nat /\ n - k \in Nat /\ n - k # 0 /\ n - k < n /\ k # 0
  BY <1>1, <1>2
<1>4. k \in 0..d /\ n - k \in 0..d
  BY <1>1, <1>2
<1>5. /\ Tree(lo, n).lo = lo /\ Tree(lo, n).n = n /\ Tree(lo, k).lo = lo /\ Tree(lo, k).n = k
      /\ Tree(lo + k, n - k).lo = lo + k /\ Tree(lo + k, n - k).n = n - k
  BY DEF Tree
<1>6. Left(Tree(lo, n)) = Tree(lo, k) /\ Right(Tree(lo, n)) = Tree(lo + k, n - k)
  BY <1>5 DEF Left, Right
<1>7. Tree(lo, n) \in Trees(d) /\ Tree(lo, k) \in Trees(d) /\ Tree(lo + k, n - k) \in Trees(d)
  BY <1>3, <1>4 DEF Trees, Tree
<1> QED BY <1>1, <1>2, <1>3, <1>5, <1>6, <1>7 DEF TreeGoesDown

LEMMA MthExists == ASSUME NEW L, Len(L) \in Nat PROVE \E f : IsMth(f, L)
<1> DEFINE h == [t \in Trees(Len(L)) |-> RootOrEmpty(L, t.lo, t.n)]
<1>1. ASSUME NEW t \in Trees(Len(L))
      PROVE  h[t] = MthStep(h, L, t)
  <2>1. PICK lo \in Nat, n \in 0..Len(L) : lo = t.lo /\ n = t.n /\ t = Tree(lo, n)
    BY DEF Trees, Tree
  <2>2. h[t] = RootOrEmpty(L, lo, n)
    BY <2>1
  <2>3. CASE n = 0
    BY <2>1, <2>2, <2>3 DEF RootOrEmpty, MthStep
  <2>4. CASE n = 1
    <3>1. Root(L, lo, 1) = L[lo + 1]
      BY <2>4, RootUnfolds
    <3> QED BY <2>1, <2>2, <2>4, <3>1 DEF RootOrEmpty, MthStep
  <2>5. CASE n # 0 /\ n # 1
    <3>1. PICK k : k = LargestPowerOfTwoBelow(n)
      OBVIOUS
    <3>2. /\ k # 0 /\ n - k # 0
          /\ Left(t) = Tree(lo, k) /\ Right(t) = Tree(lo + k, n - k)
          /\ Tree(lo, k) \in Trees(Len(L)) /\ Tree(lo + k, n - k) \in Trees(Len(L))
          /\ Tree(lo, k).lo = lo /\ Tree(lo, k).n = k
          /\ Tree(lo + k, n - k).lo = lo + k /\ Tree(lo + k, n - k).n = n - k
      <4>1. TreeGoesDown(Len(L), lo, n, k)
        BY <2>5, <3>1, TreesGoDown
      <4> QED BY <2>1, <4>1 DEF TreeGoesDown
    <3>3. h[Left(t)] = Root(L, lo, k) /\ h[Right(t)] = Root(L, lo + k, n - k)
      BY <3>2 DEF RootOrEmpty
    <3>4. n \in 1..Len(L)
      BY <2>5
    <3>5. Root(L, lo, n) = HashChildren(Root(L, lo, k), Root(L, lo + k, n - k))
      BY <2>5, <3>1, <3>4, RootUnfolds
    <3> HIDE DEF h
    <3> QED BY <2>1, <2>2, <2>5, <3>3, <3>5 DEF RootOrEmpty, MthStep
  <2> QED BY <2>3, <2>4, <2>5
<1>2. h = [t \in Trees(Len(L)) |-> h[t]]
  OBVIOUS
<1> HIDE DEF h
<1>3. IsMth(h, L)
  BY <1>1, <1>2 DEF IsMth
<1> QED BY <1>3

LEMMA MthIs ==
    ASSUME NEW L, Len(L) \in Nat, NEW f, IsMth(f, L)
    PROVE  \A n \in Nat : \A lo \in Nat : n <= Len(L) => f[Tree(lo, n)] = RootOrEmpty(L, lo, n)
<1> DEFINE S == {n \in Nat : \A lo \in Nat : n <= Len(L) => f[Tree(lo, n)] = RootOrEmpty(L, lo, n)}
<1>1. ASSUME NEW n \in Nat, \A m \in Nat : m < n => m \in S
      PROVE  n \in S
  <2> SUFFICES ASSUME NEW lo \in Nat, n <= Len(L)
               PROVE  f[Tree(lo, n)] = RootOrEmpty(L, lo, n)
    OBVIOUS
  <2>1. n \in 0..Len(L) /\ Tree(lo, n) \in Trees(Len(L)) /\ Tree(lo, n).lo = lo /\ Tree(lo, n).n = n
    BY DEF Trees, Tree
  <2>2. f[Tree(lo, n)] = MthStep(f, L, Tree(lo, n))
    BY <2>1 DEF IsMth
  <2>3. CASE n = 0
    BY <2>1, <2>2, <2>3 DEF RootOrEmpty, MthStep
  <2>4. CASE n = 1
    <3>1. Root(L, lo, 1) = L[lo + 1]
      BY <2>4, RootUnfolds
    <3> QED BY <2>1, <2>2, <2>4, <3>1 DEF RootOrEmpty, MthStep
  <2>5. CASE n # 0 /\ n # 1
    <3>1. PICK k : k = LargestPowerOfTwoBelow(n)
      OBVIOUS
    <3>2. /\ k \in Nat /\ n - k \in Nat /\ k < n /\ n - k < n /\ lo + k \in Nat
          /\ k # 0 /\ n - k # 0
          /\ Left(Tree(lo, n)) = Tree(lo, k) /\ Right(Tree(lo, n)) = Tree(lo + k, n - k)
      <4>1. TreeGoesDown(Len(L), lo, n, k)
        BY <2>5, <3>1, TreesGoDown
      <4> QED BY <2>1, <4>1 DEF TreeGoesDown
    <3>3. k \in S /\ n - k \in S /\ k <= Len(L) /\ n - k <= Len(L)
      BY <1>1, <3>2
    <3>4. /\ f[Tree(lo, k)] = RootOrEmpty(L, lo, k)
          /\ f[Tree(lo + k, n - k)] = RootOrEmpty(L, lo + k, n - k)
      BY <3>2, <3>3
    <3>5. n \in 1..Len(L)
      BY <2>5
    <3>6. Root(L, lo, n) = HashChildren(Root(L, lo, k), Root(L, lo + k, n - k))
      BY <2>5, <3>1, <3>5, RootUnfolds
    <3> QED BY <2>1, <2>2, <2>5, <3>2, <3>4, <3>6 DEF RootOrEmpty, MthStep
  <2> QED BY <2>3, <2>4, <2>5
<1>2. \A n \in Nat : n \in S
  <2> HIDE DEF S
  <2> QED BY <1>1, StrongInduction
<1> QED BY <1>2

LEMMA RefereeHashes ==
    ASSUME NEW L, Len(L) \in Nat
    PROVE  \A lo, n \in Nat : n <= Len(L) => RefereeMth(L, lo, lo + n) = RootOrEmpty(L, lo, n)
<1> DEFINE mth[t \in [lo : Nat, n : 0..Len(L)]] ==
             IF t.n = 0 THEN EmptyTreeRoot
             ELSE IF t.n = 1 THEN L[t.lo + 1]
             ELSE HashChildren(mth[[lo |-> t.lo, n |-> RefereePowerBelow(t.n)]],
                               mth[[lo |-> t.lo + RefereePowerBelow(t.n),
                                    n |-> t.n - RefereePowerBelow(t.n)]])
<1>1. \E f : f = [t \in [lo : Nat, n : 0..Len(L)] |->
                    IF t.n = 0 THEN EmptyTreeRoot
                    ELSE IF t.n = 1 THEN L[t.lo + 1]
                    ELSE HashChildren(f[[lo |-> t.lo, n |-> RefereePowerBelow(t.n)]],
                                      f[[lo |-> t.lo + RefereePowerBelow(t.n),
                                         n |-> t.n - RefereePowerBelow(t.n)]])]
  <2>1. PICK f : IsMth(f, L)
    BY MthExists
  <2>2. f = [t \in [lo : Nat, n : 0..Len(L)] |->
               IF t.n = 0 THEN EmptyTreeRoot
               ELSE IF t.n = 1 THEN L[t.lo + 1]
               ELSE HashChildren(f[[lo |-> t.lo, n |-> RefereePowerBelow(t.n)]],
                                 f[[lo |-> t.lo + RefereePowerBelow(t.n),
                                    n |-> t.n - RefereePowerBelow(t.n)]])]
    BY <2>1, RefereePower DEF IsMth, MthStep, Trees, Left, Right, Tree
  <2> HIDE DEF mth
  <2> QED BY <2>2
<1>2. mth = [t \in [lo : Nat, n : 0..Len(L)] |->
               IF t.n = 0 THEN EmptyTreeRoot
               ELSE IF t.n = 1 THEN L[t.lo + 1]
               ELSE HashChildren(mth[[lo |-> t.lo, n |-> RefereePowerBelow(t.n)]],
                                 mth[[lo |-> t.lo + RefereePowerBelow(t.n),
                                      n |-> t.n - RefereePowerBelow(t.n)]])]
  BY <1>1
<1>3. \A first, last : RefereeMth(L, first, last) = mth[Tree(first, last - first)]
  BY DEF RefereeMth, Tree
<1> HIDE DEF mth
<1>4. IsMth(mth, L)
  BY <1>2, RefereePower DEF IsMth, MthStep, Trees, Left, Right, Tree
<1>5. \A n \in Nat : \A lo \in Nat : n <= Len(L) => mth[Tree(lo, n)] = RootOrEmpty(L, lo, n)
  BY <1>4, MthIs
<1>6. \A lo, n \in Nat : (lo + n) - lo = n
  OBVIOUS
<1> QED BY <1>3, <1>5, <1>6

(* The sibling trees of its two proofs, where a tree is split at k.        *)
LEMMA RefereeSplits ==
    ASSUME NEW L, Len(L) \in Nat, NEW lo \in Nat, NEW n \in 1..Len(L)
    PROVE  /\ RefereeMth(L, lo, lo + n) = SubtreeRoot(L, lo, lo + n)
           /\ n # 1 => LET k == RefereePowerBelow(n)
                       IN  /\ RefereeMth(L, lo, lo + k) = SubtreeRoot(L, lo, lo + k)
                           /\ RefereeMth(L, lo + k, lo + n) = SubtreeRoot(L, lo + k, lo + n)
<1>1. \A first, j \in Nat : j # 0 /\ j <= Len(L) =>
        RefereeMth(L, first, first + j) = SubtreeRoot(L, first, first + j)
  BY RefereeHashes DEF RootOrEmpty, Root
<1>2. n \in Nat /\ n # 0 /\ n <= Len(L) /\ n \in 0..Len(L)
  OBVIOUS
<1>3. RefereeMth(L, lo, lo + n) = SubtreeRoot(L, lo, lo + n)
  BY <1>1, <1>2
<1>4. PICK k : k = LargestPowerOfTwoBelow(n) /\ k = RefereePowerBelow(n)
  BY RefereePower
<1>5. ASSUME n # 1
      PROVE  /\ RefereeMth(L, lo, lo + k) = SubtreeRoot(L, lo, lo + k)
             /\ RefereeMth(L, lo + k, lo + n) = SubtreeRoot(L, lo + k, lo + n)
  <2>1. k \in Nat /\ k # 0 /\ k < n /\ lo + k \in Nat /\ n - k \in Nat /\ n - k # 0 /\ n - k < n
    <3>1. TreeGoesDown(Len(L), lo, n, k)
      BY <1>2, <1>4, <1>5, TreesGoDown
    <3> QED BY <3>1 DEF TreeGoesDown
  <2>2. (lo + k) + (n - k) = lo + n /\ k <= Len(L) /\ n - k <= Len(L)
    BY <1>2, <2>1
  <2>3. RefereeMth(L, lo, lo + k) = SubtreeRoot(L, lo, lo + k)
    BY <1>1, <2>1, <2>2
  <2>4. RefereeMth(L, lo + k, (lo + k) + (n - k)) = SubtreeRoot(L, lo + k, (lo + k) + (n - k))
    BY <1>1, <2>1, <2>2
  <2> QED BY <2>2, <2>3, <2>4
<1> QED BY <1>3, <1>4, <1>5

LEMMA PathsAgree ==
    ASSUME NEW L, NEW d \in Nat, NEW f, NEW g, IsPaths(f, L, d), IsPaths(g, L, d)
    PROVE  f = g
<1> DEFINE S == {e \in Nat : e <= d => \A t \in Descent(e) : f[t] = g[t]}
<1>1. 0 \in S
  BY DEF Descent
<1>2. ASSUME NEW e \in Nat, e \in S
      PROVE  e + 1 \in S
  <2> SUFFICES ASSUME e + 1 <= d, NEW t \in Descent(e + 1)
               PROVE  f[t] = g[t]
    OBVIOUS
  <2>1. \A x \in Descent(e) : f[x] = g[x]
    BY <1>2
  <2>2. t \in Descent(d)
    BY DEF Descent
  <2>3. f[t] = PathStep(f, L, t) /\ g[t] = PathStep(g, L, t)
    BY <2>2 DEF IsPaths
  <2>4. PathStep(f, L, t) = PathStep(g, L, t)
    BY <2>1, DescentsGoDown DEF PathStep
  <2> QED BY <2>3, <2>4
<1>3. \A e \in Nat : e \in S
  <2> HIDE DEF S
  <2> QED BY <1>1, <1>2, Induction
<1>4. \A t \in Descent(d) : f[t] = g[t]
  BY <1>3
<1> QED BY <1>4 DEF IsPaths

LEMMA SubsAgree ==
    ASSUME NEW L, NEW d \in Nat, NEW f, NEW g, IsSubs(f, L, d), IsSubs(g, L, d)
    PROVE  f = g
<1> DEFINE S == {e \in Nat : e <= d => \A t \in OldDescent(e) : f[t] = g[t]}
<1>1. 0 \in S
  BY DEF OldDescent
<1>2. ASSUME NEW e \in Nat, e \in S
      PROVE  e + 1 \in S
  <2> SUFFICES ASSUME e + 1 <= d, NEW t \in OldDescent(e + 1)
               PROVE  f[t] = g[t]
    OBVIOUS
  <2>1. \A x \in OldDescent(e) : f[x] = g[x]
    BY <1>2
  <2>2. t \in OldDescent(d)
    BY DEF OldDescent
  <2>3. f[t] = SubStep(f, L, t) /\ g[t] = SubStep(g, L, t)
    BY <2>2 DEF IsSubs
  <2>4. t.m \in Nat /\ t.m >= 1 /\ t.n \in Nat /\ t.n >= 1
    BY DEF OldDescent, Pos
  <2>5. CASE t.m >= t.n
    BY <2>3, <2>5 DEF SubStep
  <2>6. CASE ~(t.m >= t.n)
    <3>1. t.n # 1
      BY <2>4, <2>6
    <3>2. /\ FromLeft(t) \in OldDescent(e)
          /\ ~(t.m <= LargestPowerOfTwoBelow(t.n)) => FromRight(t) \in OldDescent(e)
      BY <3>1, OldDescentsGoDown
    <3>3. /\ f[FromLeft(t)] = g[FromLeft(t)]
          /\ ~(t.m <= LargestPowerOfTwoBelow(t.n)) => f[FromRight(t)] = g[FromRight(t)]
      BY <2>1, <3>2
    <3>4. CASE t.m <= LargestPowerOfTwoBelow(t.n)
      BY <2>3, <2>6, <3>3, <3>4, Zenon DEF SubStep
    <3>5. CASE ~(t.m <= LargestPowerOfTwoBelow(t.n))
      BY <2>3, <2>6, <3>3, <3>5, Zenon DEF SubStep
    <3> QED BY <3>4, <3>5
  <2> QED BY <2>5, <2>6
<1>3. \A e \in Nat : e \in S
  <2> HIDE DEF S
  <2> QED BY <1>1, <1>2, Induction
<1>4. \A t \in OldDescent(d) : f[t] = g[t]
  BY <1>3
<1> QED BY <1>4 DEF IsSubs

RefereePathStep(f, L, t) ==
    IF t.n = 1
    THEN <<>>
    ELSE IF t.m < RefereePowerBelow(t.n)
         THEN Append(f[AtLeft(t)], RefereeMth(L, t.lo + RefereePowerBelow(t.n), t.lo + t.n))
         ELSE Append(f[AtRight(t)], RefereeMth(L, t.lo, t.lo + RefereePowerBelow(t.n)))

LEMMA RefereePathSteps ==
    ASSUME NEW L, Len(L) \in Nat, NEW f, NEW t \in Descent(Len(L))
    PROVE  RefereePathStep(f, L, t) = PathStep(f, L, t)
<1>1. PICK lo \in Nat, n \in 1..Len(L) : lo = t.lo /\ n = t.n
  BY DEF Descent
<1>2. RefereePowerBelow(n) = LargestPowerOfTwoBelow(n)
  BY RefereePower
<1>3. n # 1 => /\ RefereeMth(L, lo, lo + RefereePowerBelow(n))
                    = SubtreeRoot(L, lo, lo + RefereePowerBelow(n))
               /\ RefereeMth(L, lo + RefereePowerBelow(n), lo + n)
                    = SubtreeRoot(L, lo + RefereePowerBelow(n), lo + n)
  BY RefereeSplits
<1> QED BY <1>1, <1>2, <1>3 DEF RefereePathStep, PathStep

(* Referee and library make the same inclusion proof.                      *)
THEOREM RefereePathIs ==
    ASSUME NEW L, Len(L) \in Nat, NEW m
    PROVE  RefereePath(m, L) = InclusionPath(m, L)
<1> DEFINE mine[t \in [m : Nat, lo : Nat, n : 1..Len(L)]] ==
             IF t.n = 1 THEN <<>>
             ELSE IF t.m < RefereePowerBelow(t.n)
             THEN Append(mine[[m |-> t.m, lo |-> t.lo, n |-> RefereePowerBelow(t.n)]],
                         RefereeMth(L, t.lo + RefereePowerBelow(t.n), t.lo + t.n))
             ELSE Append(mine[[m |-> t.m - RefereePowerBelow(t.n),
                               lo |-> t.lo + RefereePowerBelow(t.n),
                               n |-> t.n - RefereePowerBelow(t.n)]],
                         RefereeMth(L, t.lo, t.lo + RefereePowerBelow(t.n)))
<1>1. PICK f : /\ f = [t \in Descent(Len(L)) |-> PathStep(f, L, t)]
               /\ \A i : \A first \in Nat, j \in Nat : Path(i, L, first, j) = f[PathAt(i, first, j)]
  BY PathsAre
<1>2. f = [t \in Descent(Len(L)) |-> RefereePathStep(f, L, t)]
  BY <1>1, RefereePathSteps
<1>3. f = [t \in [m : Nat, lo : Nat, n : 1..Len(L)] |->
             IF t.n = 1 THEN <<>>
             ELSE IF t.m < RefereePowerBelow(t.n)
             THEN Append(f[[m |-> t.m, lo |-> t.lo, n |-> RefereePowerBelow(t.n)]],
                         RefereeMth(L, t.lo + RefereePowerBelow(t.n), t.lo + t.n))
             ELSE Append(f[[m |-> t.m - RefereePowerBelow(t.n),
                            lo |-> t.lo + RefereePowerBelow(t.n),
                            n |-> t.n - RefereePowerBelow(t.n)]],
                         RefereeMth(L, t.lo, t.lo + RefereePowerBelow(t.n)))]
  BY <1>2, RefereePower DEF RefereePathStep, Descent, AtLeft, AtRight, PathAt
<1>4. mine = [t \in [m : Nat, lo : Nat, n : 1..Len(L)] |->
                IF t.n = 1 THEN <<>>
                ELSE IF t.m < RefereePowerBelow(t.n)
                THEN Append(mine[[m |-> t.m, lo |-> t.lo, n |-> RefereePowerBelow(t.n)]],
                            RefereeMth(L, t.lo + RefereePowerBelow(t.n), t.lo + t.n))
                ELSE Append(mine[[m |-> t.m - RefereePowerBelow(t.n),
                                  lo |-> t.lo + RefereePowerBelow(t.n),
                                  n |-> t.n - RefereePowerBelow(t.n)]],
                            RefereeMth(L, t.lo, t.lo + RefereePowerBelow(t.n)))]
  BY <1>3
<1>5. RefereePath(m, L) = mine[PathAt(m, 0, Len(L))]
  BY DEF RefereePath, PathAt
<1> HIDE DEF mine
<1>6. mine = [t \in Descent(Len(L)) |-> RefereePathStep(mine, L, t)]
  BY <1>4, RefereePower DEF RefereePathStep, Descent, AtLeft, AtRight, PathAt
<1>7. IsPaths(mine, L, Len(L))
  BY <1>6, RefereePathSteps DEF IsPaths
<1>8. mine = f
  <2>1. IsPaths(f, L, Len(L))
    BY <1>1 DEF IsPaths
  <2> QED BY <1>7, <2>1, PathsAgree
<1>9. InclusionPath(m, L) = Path(m, L, 0, Len(L))
  <2>1. 0 + Len(L) = Len(L)
    OBVIOUS
  <2> QED BY <2>1 DEF InclusionPath, Path
<1> QED BY <1>1, <1>5, <1>8, <1>9

RefereeSubStep(f, L, t) ==
    IF t.m >= t.n
    THEN IF t.complete THEN <<>> ELSE <<RefereeMth(L, t.lo, t.lo + t.n)>>
    ELSE IF t.m <= RefereePowerBelow(t.n)
         THEN Append(f[FromLeft(t)], RefereeMth(L, t.lo + RefereePowerBelow(t.n), t.lo + t.n))
         ELSE Append(f[FromRight(t)], RefereeMth(L, t.lo, t.lo + RefereePowerBelow(t.n)))

LEMMA RefereeSubSteps ==
    ASSUME NEW L, Len(L) \in Nat, NEW f, NEW t \in OldDescent(Len(L))
    PROVE  RefereeSubStep(f, L, t) = SubStep(f, L, t)
<1>1. PICK lo \in Nat, n \in 1..Len(L), m \in Nat : lo = t.lo /\ n = t.n /\ m = t.m /\ m >= 1
  BY DEF OldDescent
<1>2. RefereePowerBelow(n) = LargestPowerOfTwoBelow(n)
  BY RefereePower
<1>3. /\ RefereeMth(L, lo, lo + n) = SubtreeRoot(L, lo, lo + n)
      /\ n # 1 => /\ RefereeMth(L, lo, lo + RefereePowerBelow(n))
                       = SubtreeRoot(L, lo, lo + RefereePowerBelow(n))
                  /\ RefereeMth(L, lo + RefereePowerBelow(n), lo + n)
                       = SubtreeRoot(L, lo + RefereePowerBelow(n), lo + n)
  BY RefereeSplits
<1>4. ~(m >= n) => n # 1
  BY <1>1
<1>5. CASE m >= n
  BY <1>1, <1>3, <1>5, Zenon DEF RefereeSubStep, SubStep
<1>6. CASE ~(m >= n)
  BY <1>1, <1>2, <1>3, <1>4, <1>6, Zenon DEF RefereeSubStep, SubStep
<1> QED BY <1>5, <1>6

(* Referee and library make the same consistency proof.                    *)
THEOREM RefereeProofIs ==
    ASSUME NEW L, Len(L) \in Nat, NEW m
    PROVE  RefereeProof(m, L) = ConsistencyPath(m, L)
<1> DEFINE mine[t \in [m : Nat \ {0}, lo : Nat, n : 1..Len(L), complete : BOOLEAN]] ==
             IF t.m >= t.n
             THEN IF t.complete THEN <<>> ELSE <<RefereeMth(L, t.lo, t.lo + t.n)>>
             ELSE IF t.m <= RefereePowerBelow(t.n)
             THEN Append(mine[[m |-> t.m, lo |-> t.lo, n |-> RefereePowerBelow(t.n),
                               complete |-> t.complete]],
                         RefereeMth(L, t.lo + RefereePowerBelow(t.n), t.lo + t.n))
             ELSE Append(mine[[m |-> t.m - RefereePowerBelow(t.n),
                               lo |-> t.lo + RefereePowerBelow(t.n),
                               n |-> t.n - RefereePowerBelow(t.n), complete |-> FALSE]],
                         RefereeMth(L, t.lo, t.lo + RefereePowerBelow(t.n)))
<1>1. PICK f : /\ f = [t \in OldDescent(Len(L)) |-> SubStep(f, L, t)]
               /\ \A i, c : \A first \in Nat, j \in Nat :
                    Sub(i, L, first, j, c) = f[From(i, first, j, Flag(c))]
  BY SubsAre
<1>2. \A t \in OldDescent(Len(L)) : RefereeSubStep(f, L, t) = SubStep(f, L, t)
  BY RefereeSubSteps
<1>3. f = [t \in OldDescent(Len(L)) |-> RefereeSubStep(f, L, t)]
  BY <1>1, <1>2
<1>4. \A t : /\ FromLeft(t) = [m |-> t.m, lo |-> t.lo, n |-> RefereePowerBelow(t.n),
                               complete |-> t.complete]
             /\ FromRight(t) = [m |-> t.m - RefereePowerBelow(t.n),
                                lo |-> t.lo + RefereePowerBelow(t.n),
                                n |-> t.n - RefereePowerBelow(t.n), complete |-> FALSE]
  BY RefereePower, Zenon DEF FromLeft, FromRight, From
<1>5. f = [t \in [m : Nat \ {0}, lo : Nat, n : 1..Len(L), complete : BOOLEAN] |->
             IF t.m >= t.n
             THEN IF t.complete THEN <<>> ELSE <<RefereeMth(L, t.lo, t.lo + t.n)>>
             ELSE IF t.m <= RefereePowerBelow(t.n)
             THEN Append(f[[m |-> t.m, lo |-> t.lo, n |-> RefereePowerBelow(t.n),
                            complete |-> t.complete]],
                         RefereeMth(L, t.lo + RefereePowerBelow(t.n), t.lo + t.n))
             ELSE Append(f[[m |-> t.m - RefereePowerBelow(t.n),
                            lo |-> t.lo + RefereePowerBelow(t.n),
                            n |-> t.n - RefereePowerBelow(t.n), complete |-> FALSE]],
                         RefereeMth(L, t.lo, t.lo + RefereePowerBelow(t.n)))]
  BY <1>3, <1>4, Zenon DEF RefereeSubStep, OldDescent
<1>6. mine = [t \in [m : Nat \ {0}, lo : Nat, n : 1..Len(L), complete : BOOLEAN] |->
                IF t.m >= t.n
                THEN IF t.complete THEN <<>> ELSE <<RefereeMth(L, t.lo, t.lo + t.n)>>
                ELSE IF t.m <= RefereePowerBelow(t.n)
                THEN Append(mine[[m |-> t.m, lo |-> t.lo, n |-> RefereePowerBelow(t.n),
                                  complete |-> t.complete]],
                            RefereeMth(L, t.lo + RefereePowerBelow(t.n), t.lo + t.n))
                ELSE Append(mine[[m |-> t.m - RefereePowerBelow(t.n),
                                  lo |-> t.lo + RefereePowerBelow(t.n),
                                  n |-> t.n - RefereePowerBelow(t.n), complete |-> FALSE]],
                            RefereeMth(L, t.lo, t.lo + RefereePowerBelow(t.n)))]
  BY <1>5
<1>7. RefereeProof(m, L) = mine[From(m, 0, Len(L), TRUE)]
  BY DEF RefereeProof, From
<1> HIDE DEF mine
<1>8. mine = [t \in OldDescent(Len(L)) |-> RefereeSubStep(mine, L, t)]
  BY <1>4, <1>6, Zenon DEF RefereeSubStep, OldDescent
<1>9. \A t \in OldDescent(Len(L)) : RefereeSubStep(mine, L, t) = SubStep(mine, L, t)
  BY RefereeSubSteps
<1>10. mine = [t \in OldDescent(Len(L)) |-> SubStep(mine, L, t)]
  BY <1>8, <1>9
<1>11. mine = f
  <2>1. IsSubs(mine, L, Len(L)) /\ IsSubs(f, L, Len(L))
    BY <1>1, <1>10 DEF IsSubs
  <2> QED BY <2>1, SubsAgree
<1>12. ConsistencyPath(m, L) = Sub(m, L, 0, Len(L), "whole") /\ Flag("whole") = TRUE
  BY PathIs, FlagIs
<1> QED BY <1>1, <1>7, <1>11, <1>12

-----------------------------------------------------------------------------
(* The vectors.                                                            *)

OneLog(L) ==
    /\ IsSequence(L) /\ Len(L) \in Nat
    /\ \A i \in 1..Len(L) : L[i] = HashLeaf(i)

LEMMA PrefixIsLog ==
    ASSUME NEW L, OneLog(L), NEW n \in 0..Len(L)
    PROVE  /\ OneLog(SubSeq(L, 1, n)) /\ Len(SubSeq(L, 1, n)) = n
           /\ \A i \in 1..n : SubSeq(L, 1, n)[i] = L[i]
<1>1. PICK S : L \in Seq(S)
  BY DEF OneLog, IsSequence
<1>2. Len(L) \in Nat /\ \A i \in 1..Len(L) : L[i] = HashLeaf(i)
  BY DEF OneLog
<1>3. PICK P : P = SubSeq(L, 1, n)
  OBVIOUS
<1>4. P \in Seq(S) /\ Len(P) = n /\ \A i \in 1..n : P[i] = L[i]
  <2>1. \A i \in 1..n : L[i] \in S
    BY <1>1, <1>2
  <2> QED BY <1>1, <1>2, <1>3, <2>1
<1>5. OneLog(P)
  BY <1>2, <1>4 DEF OneLog, IsSequence
<1> QED BY <1>3, <1>4, <1>5

LEMMA RootAtIs ==
    ASSUME NEW L, OneLog(L), NEW n \in 0..Len(L)
    PROVE  RootAt(L, n) = RootOrEmpty(L, 0, n)
<1>1. PICK P : P = SubSeq(L, 1, n)
  OBVIOUS
<1>2. OneLog(P) /\ Len(P) = n /\ \A i \in 1..n : P[i] = L[i]
  BY <1>1, PrefixIsLog
<1>3. RootAt(L, n) = MerkleRootFromLeafHashes(P)
  BY <1>1 DEF RootAt
<1>4. Len(L) \in Nat /\ n \in Nat /\ n <= Len(L) /\ IsSequence(P)
  BY <1>2 DEF OneLog
<1>5. CASE n = 0
  <2>1. P = <<>>
    BY <1>2, <1>4, <1>5, EmptySeq DEF IsSequence
  <2> QED BY <1>3, <1>5, <2>1 DEF MerkleRootFromLeafHashes, RootOrEmpty
<1>6. CASE n # 0
  <2>1. MerkleRootFromLeafHashes(P) = Root(P, 0, n)
    BY <1>2, <1>4, <1>6, LogRootIs DEF TreeRoot
  <2>2. /\ n \in 1..Len(P) /\ n \in 1..Len(L) /\ Len(P) \in Nat /\ Len(L) \in Nat
        /\ \A i \in (0 + 1)..(0 + n) : P[i] = L[i]
    BY <1>2, <1>4, <1>6
  <2>3. Root(P, 0, n) = Root(L, 0, n)
    BY ONLY <2>2, n \in Nat, 0 \in Nat, RootsTell
  <2> QED BY <1>3, <1>6, <2>1, <2>3 DEF RootOrEmpty
<1> QED BY <1>5, <1>6

(* What a root is the hash of: a leaf, or two roots. *)
LEMMA RootIsHash ==
    ASSUME NEW L, OneLog(L), NEW lo \in Nat, NEW n \in Nat, n >= 1, lo + n <= Len(L)
    PROVE  /\ n = 1 => Root(L, lo, n) = HashLeaf(lo + 1)
           /\ n # 1 => \E k \in Nat : /\ k >= 1 /\ k < n
                                      /\ Root(L, lo, n) = HashChildren(Root(L, lo, k),
                                                                       Root(L, lo + k, n - k))
<1>1. Len(L) \in Nat /\ n \in 1..Len(L) /\ lo + n \in 1..Len(L) /\ n \in 0..Len(L)
  BY DEF OneLog
<1>2. PICK k : k = LargestPowerOfTwoBelow(n)
  OBVIOUS
<1>3. Root(L, lo, n) = IF n = 1 THEN L[lo + 1]
                       ELSE HashChildren(Root(L, lo, k), Root(L, lo + k, n - k))
  BY <1>1, <1>2, RootUnfolds
<1>4. n = 1 => L[lo + 1] = HashLeaf(lo + 1)
  BY <1>1 DEF OneLog
<1>5. n # 1 => k \in Nat /\ k >= 1 /\ k < n
  BY <1>2, LargestBelow DEF Pos
<1> QED BY <1>3, <1>4, <1>5

LEMMA HashesDiffer ==
    /\ \A x : HashLeaf(x) # Corrupted
    /\ \A l, r : HashChildren(l, r) # Corrupted
    /\ \A x, l, r : HashLeaf(x) # HashChildren(l, r)
    /\ \A x, y : HashLeaf(x) = HashLeaf(y) <=> x = y
BY DEF HashLeaf, HashChildren, Corrupted

LEMMA RootIsNotCorrupted ==
    ASSUME NEW L, OneLog(L), NEW lo \in Nat, NEW n \in Nat, n >= 1, lo + n <= Len(L)
    PROVE  Root(L, lo, n) # Corrupted
BY RootIsHash, HashesDiffer

(* Different trees of one log have different roots. *)
LEMMA RootsDiffer ==
    ASSUME NEW L, OneLog(L)
    PROVE  \A n \in Nat : \A lo, p, j \in Nat :
             /\ n >= 1 /\ lo + n <= Len(L) /\ j >= 1 /\ p + j <= Len(L)
             /\ Root(L, lo, n) = Root(L, p, j)
             => lo = p /\ n = j
<1> DEFINE S == {n \in Nat : \A lo, p, j \in Nat :
                   /\ n >= 1 /\ lo + n <= Len(L) /\ j >= 1 /\ p + j <= Len(L)
                   /\ Root(L, lo, n) = Root(L, p, j)
                   => lo = p /\ n = j}
<1>1. ASSUME NEW n \in Nat, \A m \in Nat : m < n => m \in S
      PROVE  n \in S
  <2> SUFFICES ASSUME NEW lo \in Nat, NEW p \in Nat, NEW j \in Nat,
                      n >= 1, lo + n <= Len(L), j >= 1, p + j <= Len(L),
                      Root(L, lo, n) = Root(L, p, j)
               PROVE  lo = p /\ n = j
    OBVIOUS
  <2>0. Len(L) \in Nat
    BY DEF OneLog
  <2>1. /\ n = 1 => Root(L, lo, n) = HashLeaf(lo + 1)
        /\ n # 1 => \E k \in Nat : /\ k >= 1 /\ k < n
                                   /\ Root(L, lo, n) = HashChildren(Root(L, lo, k),
                                                                    Root(L, lo + k, n - k))
    BY RootIsHash
  <2>2. /\ j = 1 => Root(L, p, j) = HashLeaf(p + 1)
        /\ j # 1 => \E k \in Nat : /\ k >= 1 /\ k < j
                                   /\ Root(L, p, j) = HashChildren(Root(L, p, k),
                                                                   Root(L, p + k, j - k))
    BY RootIsHash
  <2>3. CASE n = 1
    <3>1. j = 1
      BY <2>1, <2>2, <2>3, HashesDiffer
    <3>2. lo + 1 = p + 1
      BY <2>1, <2>2, <2>3, <3>1, HashesDiffer
    <3> QED BY <2>3, <3>1, <3>2
  <2>4. CASE n # 1
    <3>1. j # 1
      BY <2>1, <2>2, <2>4, HashesDiffer
    <3>2. PICK k \in Nat : /\ k >= 1 /\ k < n
                           /\ Root(L, lo, n) = HashChildren(Root(L, lo, k), Root(L, lo + k, n - k))
      BY <2>1, <2>4
    <3>3. PICK i \in Nat : /\ i >= 1 /\ i < j
                           /\ Root(L, p, j) = HashChildren(Root(L, p, i), Root(L, p + i, j - i))
      BY <2>2, <3>1
    <3>4. Root(L, lo, k) = Root(L, p, i) /\ Root(L, lo + k, n - k) = Root(L, p + i, j - i)
      <4>1. HashChildren(Root(L, lo, k), Root(L, lo + k, n - k))
              = HashChildren(Root(L, p, i), Root(L, p + i, j - i))
        BY <3>2, <3>3
      <4> QED BY ONLY <4>1 DEF HashChildren
    <3>5. /\ lo + k <= Len(L) /\ p + i <= Len(L)
          /\ lo + k \in Nat /\ p + i \in Nat /\ n - k \in Nat /\ j - i \in Nat /\ n - k < n
          /\ n - k >= 1 /\ j - i >= 1
          /\ (lo + k) + (n - k) <= Len(L) /\ (p + i) + (j - i) <= Len(L)
      BY <2>0, <3>2, <3>3
    <3>6. k \in S /\ n - k \in S
      <4> HIDE DEF S
      <4> QED BY <1>1, <3>2, <3>5
    <3>7. lo = p /\ k = i
      BY <3>2, <3>3, <3>4, <3>5, <3>6
    <3>8. n - k = j - i
      BY <3>4, <3>5, <3>6
    <3> QED BY <3>2, <3>3, <3>7, <3>8
  <2> QED BY <2>3, <2>4
<1>2. \A n \in Nat : n \in S
  <2> HIDE DEF S
  <2> QED BY <1>1, StrongInduction
<1> QED BY <1>2

LEMMA SizesDiffer ==
    ASSUME NEW L, OneLog(L), NEW n \in 1..Len(L), NEW m \in 1..Len(L), n # m
    PROVE  RootAt(L, n) # RootAt(L, m)
<1>1. Len(L) \in Nat /\ n \in 0..Len(L) /\ m \in 0..Len(L) /\ n # 0 /\ m # 0
  BY DEF OneLog
<1>2. RootAt(L, n) = Root(L, 0, n) /\ RootAt(L, m) = Root(L, 0, m)
  BY <1>1, RootAtIs DEF RootOrEmpty
<1>3. n \in Nat /\ m \in Nat /\ 0 + n <= Len(L) /\ 0 + m <= Len(L) /\ n >= 1 /\ m >= 1 /\ 0 \in Nat
  BY <1>1
<1>4. Root(L, 0, n) # Root(L, 0, m)
  BY <1>3, RootsDiffer
<1> QED BY <1>2, <1>4

(* No hash of an honest path is the one the spoilt vectors put there.      *)
Clean(q) == \A x \in 1..Len(q) : q[x] # Corrupted

LEMMA AddIsClean ==
    ASSUME NEW s, IsSequence(s), Clean(s), NEW h, h # Corrupted
    PROVE  IsSequence(Add(s, h)) /\ Clean(Add(s, h)) /\ Add(s, h) # <<>>
<1>1. PICK S : s \in Seq(S) /\ h \in S
  BY SequencesTogether
<1>2. Len(Append(s, h)) = Len(s) + 1 /\ Len(s) \in Nat
      /\ \A x \in 1..(Len(s) + 1) : Append(s, h)[x] = IF x <= Len(s) THEN s[x] ELSE h
  BY <1>1
<1>3. Clean(Append(s, h))
  BY <1>2 DEF Clean
<1> QED BY <1>3, AddLaws DEF Add

LEMMA NothingIsClean == IsSequence(<<>>) /\ Clean(<<>>)
BY NothingIsSequence DEF Clean

LEMMA OneIsClean == ASSUME NEW h, h # Corrupted PROVE IsSequence(One(h)) /\ Clean(One(h))
BY NothingIsClean, AddIsClean, OneLaws

LEMMA PathIsClean ==
    ASSUME NEW L, OneLog(L)
    PROVE  \A n \in Nat : \A m, lo \in Nat : n >= 1 /\ lo + n <= Len(L) =>
             IsSequence(Path(m, L, lo, n)) /\ Clean(Path(m, L, lo, n))
<1> DEFINE Fine(n, m, lo) == IsSequence(Path(m, L, lo, n)) /\ Clean(Path(m, L, lo, n))
           S == {n \in Nat : \A m, lo \in Nat : n >= 1 /\ lo + n <= Len(L) => Fine(n, m, lo)}
<1>0. Len(L) \in Nat
  BY DEF OneLog
<1>1. ASSUME NEW n \in Nat, \A i \in Nat : i < n => i \in S
      PROVE  n \in S
  <2> SUFFICES ASSUME NEW m \in Nat, NEW lo \in Nat, n >= 1, lo + n <= Len(L)
               PROVE  Fine(n, m, lo)
    OBVIOUS
  <2>1. CASE n = 1
    <3>1. Path(m, L, lo, 1) = <<>>
      <4>1. Len(L) >= 1
        BY <1>0
      <4> QED BY <1>0, <4>1, PathAlone
    <3> QED BY <2>1, <3>1, NothingIsClean
  <2>2. CASE n # 1
    <3>0. n >= 2 /\ n \in 1..Len(L)
      BY <1>0, <2>2
    <3>1. PICK k \in Nat : Splits(L, n, k)
      BY <2>2, <3>0, LargestBelow DEF Splits, Pos
    <3>2. /\ k \in Nat /\ k >= 1 /\ k < n /\ n - k \in Nat /\ n - k < n /\ n - k >= 1
          /\ lo + k \in Nat
      BY <1>0, <3>1, SplitSizes
    <3>3. lo + k <= Len(L) /\ (lo + k) + (n - k) <= Len(L)
      BY <1>0, <3>2
    <3>4. CASE m < k
      <4>1. Path(m, L, lo, n) = Add(Path(m, L, lo, k), Root(L, lo + k, n - k))
        BY <1>0, <3>1, <3>4, PathDown
      <4>2. Fine(k, m, lo)
        <5>1. k \in S
          BY <1>1, <3>2
        <5> QED BY <3>2, <3>3, <5>1
      <4>3. Root(L, lo + k, n - k) # Corrupted
        BY <3>2, <3>3, RootIsNotCorrupted
      <4> QED BY <4>1, <4>2, <4>3, AddIsClean
    <3>5. CASE ~(m < k)
      <4>1. Path(m, L, lo, n) = Add(Path(m - k, L, lo + k, n - k), Root(L, lo, k))
        BY <1>0, <3>1, <3>5, PathDown
      <4>2. Fine(n - k, m - k, lo + k)
        <5>1. n - k \in S /\ m - k \in Nat
          BY <1>1, <3>2, <3>5
        <5> QED BY <3>2, <3>3, <5>1
      <4>3. Root(L, lo, k) # Corrupted
        BY <3>2, <3>3, RootIsNotCorrupted
      <4> QED BY <4>1, <4>2, <4>3, AddIsClean
    <3> QED BY <3>4, <3>5
  <2> QED BY <2>1, <2>2
<1>2. \A n \in Nat : n \in S
  <2> HIDE DEF S
  <2> QED BY <1>1, StrongInduction
<1> QED BY <1>2

LEMMA SubIsClean ==
    ASSUME NEW L, OneLog(L)
    PROVE  \A n \in Nat : \A m, lo \in Nat : \A c : m >= 1 /\ n >= 1 /\ lo + n <= Len(L) =>
             IsSequence(Sub(m, L, lo, n, c)) /\ Clean(Sub(m, L, lo, n, c))
<1> DEFINE Fine(n, m, lo, c) == IsSequence(Sub(m, L, lo, n, c)) /\ Clean(Sub(m, L, lo, n, c))
           S == {n \in Nat : \A m, lo \in Nat : \A c :
                   m >= 1 /\ n >= 1 /\ lo + n <= Len(L) => Fine(n, m, lo, c)}
<1>0. Len(L) \in Nat
  BY DEF OneLog
<1>1. ASSUME NEW n \in Nat, \A i \in Nat : i < n => i \in S
      PROVE  n \in S
  <2> SUFFICES ASSUME NEW m \in Nat, NEW lo \in Nat, NEW c, m >= 1, n >= 1, lo + n <= Len(L)
               PROVE  Fine(n, m, lo, c)
    OBVIOUS
  <2>1. n \in 1..Len(L) /\ OldIn(Len(L), m, lo, n)
    BY <1>0 DEF OldIn
  <2>2. CASE m >= n
    <3>1. Sub(m, L, lo, n, c) = IF c = "whole" THEN <<>> ELSE One(Root(L, lo, n))
      BY <2>1, <2>2, SubWhole
    <3>2. Root(L, lo, n) # Corrupted
      BY RootIsNotCorrupted
    <3> QED BY <3>1, <3>2, NothingIsClean, OneIsClean
  <2>3. CASE ~(m >= n)
    <3>0. n >= 2 /\ n # 1 /\ m < n
      BY <2>3
    <3>1. PICK k \in Nat : Splits(L, n, k)
      BY <2>1, <3>0, LargestBelow DEF Splits, Pos
    <3>2. /\ k \in Nat /\ k >= 1 /\ k < n /\ n - k \in Nat /\ n - k < n /\ n - k >= 1
          /\ lo + k \in Nat
      BY <1>0, <3>1, SplitSizes
    <3>3. lo + k <= Len(L) /\ (lo + k) + (n - k) <= Len(L)
      BY <1>0, <3>2
    <3>4. PICK from, rest, j : OldSplits(L, m, lo, n, k, from, rest, j) /\ from = lo + k
                               /\ rest = n - k /\ j = m - k
      BY <1>0, <3>0, <3>1 DEF OldSplits
    <3>5. CASE m <= k
      <4>1. Sub(m, L, lo, n, c) = Add(Sub(m, L, lo, k, c), Root(L, from, rest))
        BY <3>4, <3>5, SubLeft
      <4>2. Fine(k, m, lo, c)
        <5>1. k \in S
          BY <1>1, <3>2
        <5> QED BY <3>2, <3>3, <5>1
      <4>3. Root(L, from, rest) # Corrupted
        BY <3>2, <3>3, <3>4, RootIsNotCorrupted
      <4> QED BY <4>1, <4>2, <4>3, AddIsClean
    <3>6. CASE ~(m <= k)
      <4>1. Sub(m, L, lo, n, c) = Add(Sub(j, L, from, rest, "part"), Root(L, lo, k))
        BY <3>4, <3>6, SubRight
      <4>2. Fine(rest, j, from, "part")
        <5>1. n - k \in S /\ m - k \in Nat /\ m - k >= 1
          BY <1>1, <3>2, <3>6
        <5> QED BY <3>2, <3>3, <3>4, <5>1
      <4>3. Root(L, lo, k) # Corrupted
        BY <3>2, <3>3, RootIsNotCorrupted
      <4> QED BY <4>1, <4>2, <4>3, AddIsClean
    <3> QED BY <3>5, <3>6
  <2> QED BY <2>2, <2>3
<1>2. \A n \in Nat : n \in S
  <2> HIDE DEF S
  <2> QED BY <1>1, StrongInduction
<1> QED BY <1>2

Spoilt(q) == [q EXCEPT ![1] = Corrupted]

LEMMA SpoiltDiffers ==
    ASSUME NEW q, IsSequence(q), Clean(q), q # <<>>
    PROVE  IsSequence(Spoilt(q)) /\ Spoilt(q) # q
<1>1. PICK S : q \in Seq(S)
  BY DEF IsSequence
<1>2. Len(q) \in Nat /\ Len(q) >= 1 /\ 1 \in 1..Len(q) /\ DOMAIN q = 1..Len(q)
  BY <1>1, HeadAndTail DEF IsSequence
<1>3. Spoilt(q)[1] = Corrupted /\ q[1] # Corrupted
  BY <1>2 DEF Spoilt, Clean
<1>4. Spoilt(q) \in Seq(S \cup {Corrupted})
  <2>1. \A x \in 1..Len(q) : Spoilt(q)[x] \in S \cup {Corrupted}
    BY <1>1, <1>2 DEF Spoilt
  <2>2. Spoilt(q) = [x \in 1..Len(q) |-> Spoilt(q)[x]]
    BY <1>2 DEF Spoilt
  <2> QED BY <1>2, <2>1, <2>2
<1> QED BY <1>3, <1>4 DEF IsSequence

(* Both parties give the verdict of the vector, and the referee makes an   *)
(* honest proof anew.                                                      *)
InclusionDecided(L, v) ==
    /\ VerifyInclusion(v.leafHash, v.leafIndex, v.treeSize, v.auditPath, v.rootHash) = v.valid
    /\ RefereeVerifyInclusion(v.leafHash, v.leafIndex, v.treeSize, v.auditPath, v.rootHash)
         = v.valid
    /\ v.valid => RefereePath(v.leafIndex, SubSeq(L, 1, v.treeSize)) = v.auditPath

ConsistencyDecided(L, v) ==
    /\ VerifyConsistency(v.first, v.second, v.firstRoot, v.secondRoot, v.consistencyPath)
         = v.valid
    /\ RefereeVerifyConsistency(v.first, v.second, v.firstRoot, v.secondRoot, v.consistencyPath)
         = v.valid
    /\ v.valid => RefereeProof(v.first, SubSeq(L, 1, v.second)) = v.consistencyPath

LEMMA VerdictsAreBoolean ==
    /\ \A h, i, n, q, r : /\ VerifyInclusion(h, i, n, q, r) \in BOOLEAN
                          /\ RefereeVerifyInclusion(h, i, n, q, r) \in BOOLEAN
    /\ \A m, n, f, r, q : /\ VerifyConsistency(m, n, f, r, q) \in BOOLEAN
                          /\ RefereeVerifyConsistency(m, n, f, r, q) \in BOOLEAN
<1>1. \A h, i, n, q, r : VerifyInclusion(h, i, n, q, r) \in BOOLEAN
  BY Zenon DEF VerifyInclusion
<1>2. \A h, i, n, q, r : RefereeVerifyInclusion(h, i, n, q, r) \in BOOLEAN
  BY Zenon DEF RefereeVerifyInclusion
<1>3. \A m, n, f, r, q : VerifyConsistency(m, n, f, r, q) \in BOOLEAN
  BY Zenon DEF VerifyConsistency
<1>4. ASSUME NEW m, NEW n, NEW f, NEW r, NEW q
      PROVE  RefereeVerifyConsistency(m, n, f, r, q) \in BOOLEAN
  <2> DEFINE odd[at \in [fn : Nat, sn : Nat]] ==
               IF at.fn % 2 = 1 THEN odd[[fn |-> at.fn \div 2, sn |-> at.sn \div 2]] ELSE at
             start == odd[[fn |-> m - 1, sn |-> n - 1]]
             p == IF RefereeIsPow2(m) THEN <<f>> \o q ELSE q
             end == RefereeWalk(start.fn, start.sn, p[1], Tail(p))
  <2>1. RefereeVerifyConsistency(m, n, f, r, q) =
          /\ m > 0 /\ m < n
          /\ q # <<>>
          /\ end.ok /\ end.sn = 0 /\ end.old = f /\ end.new = r
    BY Zenon DEF RefereeVerifyConsistency
  <2> HIDE DEF end
  <2> QED BY <2>1
<1> QED BY <1>1, <1>2, <1>3, <1>4

LEMMA BothDecideInclusion ==
    ASSUME NEW h, NEW i \in Nat, NEW n \in Nat, i < n, NEW q, IsSequence(q), NEW r, NEW valid \in BOOLEAN,
           VerifyInclusion(h, i, n, q, r) <=> valid
    PROVE  VerifyInclusion(h, i, n, q, r) = valid /\ RefereeVerifyInclusion(h, i, n, q, r) = valid
<1>1. RefereeVerifyInclusion(h, i, n, q, r) <=> VerifyInclusion(h, i, n, q, r)
  BY RefereeInclusion
<1>2. /\ VerifyInclusion(h, i, n, q, r) \in BOOLEAN
      /\ RefereeVerifyInclusion(h, i, n, q, r) \in BOOLEAN
  BY VerdictsAreBoolean
<1> QED BY <1>1, <1>2

LEMMA BothDecideConsistency ==
    ASSUME NEW m \in Nat, m >= 1, m <= WordSize, NEW n \in Nat, m <= n, NEW f, NEW r, NEW q, IsSequence(q),
           NEW valid \in BOOLEAN,
           VerifyConsistency(m, n, f, r, q) <=> valid
    PROVE  /\ VerifyConsistency(m, n, f, r, q) = valid
           /\ RefereeVerifyConsistency(m, n, f, r, q) = valid
<1>1. RefereeVerifyConsistency(m, n, f, r, q) <=> VerifyConsistency(m, n, f, r, q)
  BY RefereeConsistency
<1>2. /\ VerifyConsistency(m, n, f, r, q) \in BOOLEAN
      /\ RefereeVerifyConsistency(m, n, f, r, q) \in BOOLEAN
  BY VerdictsAreBoolean
<1> QED BY <1>1, <1>2

(* What the library accepts of a log at an earlier size.                   *)
LEMMA InclusionAt ==
    ASSUME NEW L, OneLog(L), NEW n \in 1..Len(L), NEW i \in 0..(n - 1), NEW h, NEW q, IsSequence(q)
    PROVE  VerifyInclusion(h, i, n, q, RootAt(L, n)) <=>
             h = L[i + 1] /\ q = InclusionPath(i, SubSeq(L, 1, n))
<1>1. PICK P : P = SubSeq(L, 1, n)
  OBVIOUS
<1>2. n \in 0..Len(L) /\ n \in Nat /\ i \in Nat /\ i < n /\ i + 1 \in 1..n
  BY DEF OneLog
<1>3. OneLog(P) /\ Len(P) = n /\ \A x \in 1..n : P[x] = L[x]
  BY <1>1, <1>2, PrefixIsLog
<1>4. RootAt(L, n) = MerkleRootFromLeafHashes(P)
  BY <1>1 DEF RootAt
<1>5. VerifyInclusion(h, i, Len(P), q, MerkleRootFromLeafHashes(P)) <=>
        h = P[i + 1] /\ q = InclusionPath(i, P)
  BY <1>2, <1>3, InclusionExact
<1> QED BY <1>1, <1>2, <1>3, <1>4, <1>5

LEMMA ConsistencyAt ==
    ASSUME NEW L, OneLog(L), NEW n \in 1..Len(L), NEW m \in 1..(n - 1), NEW f, NEW q, IsSequence(q)
    PROVE  VerifyConsistency(m, n, f, RootAt(L, n), q) <=>
             f = RootAt(L, m) /\ q = ConsistencyPath(m, SubSeq(L, 1, n))
<1>1. PICK P, O : P = SubSeq(L, 1, n) /\ O = SubSeq(L, 1, m)
  OBVIOUS
<1>2. n \in 0..Len(L) /\ m \in 0..Len(L) /\ n \in Nat /\ m \in Nat /\ m >= 1 /\ m < n
  BY DEF OneLog
<1>3. OneLog(P) /\ Len(P) = n /\ \A x \in 1..n : P[x] = L[x]
  BY <1>1, <1>2, PrefixIsLog
<1>4. Len(O) = m /\ \A x \in 1..m : O[x] = P[x]
  <2>1. Len(O) = m /\ \A x \in 1..m : O[x] = L[x]
    BY <1>1, <1>2, PrefixIsLog
  <2> QED BY <1>2, <1>3, <2>1
<1>5. RootAt(L, n) = MerkleRootFromLeafHashes(P) /\ RootAt(L, m) = MerkleRootFromLeafHashes(O)
  BY <1>1 DEF RootAt
<1>6. VerifyConsistency(m, Len(P), f, MerkleRootFromLeafHashes(P), q) <=>
        f = MerkleRootFromLeafHashes(O) /\ q = ConsistencyPath(m, P)
  BY <1>2, <1>3, <1>4, ConsistencyExact
<1> QED BY <1>1, <1>3, <1>5, <1>6

LEMMA HonestPathAt ==
    ASSUME NEW L, OneLog(L), NEW n \in 1..Len(L), NEW i \in 0..(n - 1)
    PROVE  LET q == InclusionPath(i, SubSeq(L, 1, n))
           IN  IsSequence(q) /\ Clean(q) /\ (n # 1 => q # <<>>)
<1>1. PICK P : P = SubSeq(L, 1, n)
  OBVIOUS
<1>2. n \in 0..Len(L) /\ n \in Nat /\ i \in Nat /\ n >= 1
  BY DEF OneLog
<1>3. OneLog(P) /\ Len(P) = n
  BY <1>1, <1>2, PrefixIsLog
<1>4. InclusionPath(i, P) = Path(i, P, 0, n)
  <2>1. 0 + n = n
    BY <1>2
  <2> QED BY <1>3, <2>1 DEF InclusionPath, Path
<1>5. IsSequence(Path(i, P, 0, n)) /\ Clean(Path(i, P, 0, n))
  <2>1. 0 + n <= Len(P) /\ 0 \in Nat
    BY <1>2, <1>3
  <2> QED BY <1>2, <1>3, <2>1, PathIsClean
<1>6. n # 1 => Path(i, P, 0, n) # <<>>
  <2>1. n \in 1..Len(P) /\ Len(P) \in Nat /\ 0 \in Nat
    BY <1>2, <1>3
  <2> QED BY <1>2, <2>1, PathIsSequence
<1> QED BY <1>1, <1>4, <1>5, <1>6

LEMMA HonestProofAt ==
    ASSUME NEW L, OneLog(L), NEW n \in 1..Len(L), NEW m \in 1..(n - 1)
    PROVE  LET q == ConsistencyPath(m, SubSeq(L, 1, n))
           IN  IsSequence(q) /\ Clean(q) /\ q # <<>>
<1>1. PICK P : P = SubSeq(L, 1, n)
  OBVIOUS
<1>2. n \in 0..Len(L) /\ n \in Nat /\ m \in Nat /\ n >= 1 /\ m >= 1
  BY DEF OneLog
<1>3. OneLog(P) /\ Len(P) = n
  BY <1>1, <1>2, PrefixIsLog
<1>4. ConsistencyPath(m, P) = Sub(m, P, 0, n, "whole")
  BY <1>2, <1>3, PathIs
<1>5. IsSequence(Sub(m, P, 0, n, "whole")) /\ Clean(Sub(m, P, 0, n, "whole"))
  <2>1. 0 + n <= Len(P) /\ 0 \in Nat
    BY <1>2, <1>3
  <2> QED BY <1>2, <1>3, <2>1, SubIsClean
<1>6. PICK q : q = ConsistencyPath(m, P)
  OBVIOUS
<1>7. VerifyConsistency(m, n, RootAt(L, m), RootAt(L, n), q)
  BY <1>1, <1>4, <1>5, <1>6, ConsistencyAt
<1>8. q # <<>>
  BY <1>7 DEF VerifyConsistency
<1> QED BY <1>1, <1>4, <1>5, <1>6, <1>8

LEMMA HonestInclusionDecided ==
    ASSUME NEW L, OneLog(L), NEW n \in 1..Len(L), NEW i \in 0..(n - 1)
    PROVE  InclusionDecided(L, InclusionVector(L, i, n))
<1>1. PICK v : v = InclusionVector(L, i, n)
  OBVIOUS
<1>2. PICK q : q = InclusionPath(i, SubSeq(L, 1, n))
  OBVIOUS
<1>3. /\ v.leafIndex = i /\ v.treeSize = n /\ v.leafHash = L[i + 1] /\ v.auditPath = q
      /\ v.rootHash = RootAt(L, n) /\ v.valid = TRUE
  BY <1>1, <1>2 DEF InclusionVector
<1>4. n \in Nat /\ i \in Nat /\ i < n /\ n \in 0..Len(L)
  BY DEF OneLog
<1>5. IsSequence(q)
  BY <1>2, HonestPathAt
<1>6. VerifyInclusion(L[i + 1], i, n, q, RootAt(L, n)) <=> TRUE
  BY <1>2, <1>5, InclusionAt
<1>7. /\ VerifyInclusion(L[i + 1], i, n, q, RootAt(L, n)) = TRUE
      /\ RefereeVerifyInclusion(L[i + 1], i, n, q, RootAt(L, n)) = TRUE
  BY <1>4, <1>5, <1>6, BothDecideInclusion
<1>8. RefereePath(i, SubSeq(L, 1, n)) = q
  <2>1. Len(SubSeq(L, 1, n)) \in Nat
    BY <1>4, PrefixIsLog
  <2> QED BY <1>2, <2>1, RefereePathIs
<1> QED BY <1>1, <1>3, <1>7, <1>8 DEF InclusionDecided

LEMMA HonestConsistencyDecided ==
    ASSUME NEW L, OneLog(L), NEW n \in 1..Len(L), NEW m \in 1..(n - 1), m <= WordSize
    PROVE  ConsistencyDecided(L, ConsistencyVector(L, m, n))
<1>1. PICK v : v = ConsistencyVector(L, m, n)
  OBVIOUS
<1>2. PICK q : q = ConsistencyPath(m, SubSeq(L, 1, n))
  OBVIOUS
<1>3. /\ v.first = m /\ v.second = n /\ v.firstRoot = RootAt(L, m) /\ v.secondRoot = RootAt(L, n)
      /\ v.consistencyPath = q /\ v.valid = TRUE
  BY <1>1, <1>2 DEF ConsistencyVector
<1>4. n \in Nat /\ m \in Nat /\ m >= 1 /\ m <= n /\ n \in 0..Len(L)
  BY DEF OneLog
<1>5. IsSequence(q)
  BY <1>2, HonestProofAt
<1>6. VerifyConsistency(m, n, RootAt(L, m), RootAt(L, n), q) <=> TRUE
  BY <1>2, <1>5, ConsistencyAt
<1>7. /\ VerifyConsistency(m, n, RootAt(L, m), RootAt(L, n), q) = TRUE
      /\ RefereeVerifyConsistency(m, n, RootAt(L, m), RootAt(L, n), q) = TRUE
  BY <1>4, <1>5, <1>6, BothDecideConsistency
<1>8. RefereeProof(m, SubSeq(L, 1, n)) = q
  <2>1. Len(SubSeq(L, 1, n)) \in Nat
    BY <1>4, PrefixIsLog
  <2> QED BY <1>2, <2>1, RefereeProofIs
<1> QED BY <1>1, <1>3, <1>7, <1>8 DEF ConsistencyDecided

(* The first node corrupted, the next leaf's index, an older root.         *)
LEMMA SpoiltInclusionDecided ==
    ASSUME NEW L, OneLog(L), NEW n, n = Len(L), NEW i \in 0..(n - 2),
           NEW honest, honest = InclusionVector(L, i, n)
    PROVE  /\ InclusionDecided(L, [honest EXCEPT !.auditPath[1] = Corrupted, !.valid = FALSE])
           /\ InclusionDecided(L, [honest EXCEPT !.leafIndex = i + 1, !.valid = FALSE])
           /\ InclusionDecided(L, [honest EXCEPT !.rootHash = RootAt(L, n - 1), !.valid = FALSE])
<1>1. PICK q : q = InclusionPath(i, SubSeq(L, 1, n))
  OBVIOUS
<1>2. PICK r, o : r = RootAt(L, n) /\ o = RootAt(L, n - 1)
  OBVIOUS
<1>3. honest = [leafIndex |-> i, treeSize |-> n, leafHash |-> L[i + 1], auditPath |-> q,
                rootHash |-> r, valid |-> TRUE]
  BY <1>1, <1>2 DEF InclusionVector
<1>4. /\ n \in Nat /\ i \in Nat /\ i < n /\ i + 1 < n /\ i + 1 \in Nat /\ n >= 2 /\ n # 1
      /\ n \in 1..Len(L) /\ i \in 0..(n - 1) /\ i + 1 \in 0..(n - 1)
      /\ n - 1 \in 1..Len(L) /\ n - 1 # n /\ i + 1 \in 1..Len(L) /\ (i + 1) + 1 \in 1..Len(L)
  BY DEF OneLog
<1>5. IsSequence(q) /\ Clean(q) /\ q # <<>>
  BY <1>1, <1>4, HonestPathAt
<1>6. ASSUME NEW v, NEW h, NEW x \in Nat, x < n, NEW p, IsSequence(p), NEW root,
             v.leafHash = h, v.leafIndex = x, v.treeSize = n, v.auditPath = p, v.rootHash = root,
             v.valid = FALSE, ~VerifyInclusion(h, x, n, p, root)
      PROVE  InclusionDecided(L, v)
  <2>0. PICK no \in BOOLEAN : no = FALSE
    OBVIOUS
  <2>1. VerifyInclusion(h, x, n, p, root) <=> no
    BY <1>6, <2>0
  <2>2. VerifyInclusion(h, x, n, p, root) = no /\ RefereeVerifyInclusion(h, x, n, p, root) = no
    BY <1>4, <2>1, <1>6, BothDecideInclusion
  <2> QED BY <1>6, <2>0, <2>2 DEF InclusionDecided
<1>7. InclusionDecided(L, [honest EXCEPT !.auditPath[1] = Corrupted, !.valid = FALSE])
  <2>1. PICK v : v = [honest EXCEPT !.auditPath[1] = Corrupted, !.valid = FALSE]
    OBVIOUS
  <2>2. /\ v.leafHash = L[i + 1] /\ v.leafIndex = i /\ v.treeSize = n /\ v.auditPath = Spoilt(q)
        /\ v.rootHash = r /\ v.valid = FALSE
    BY <1>3, <2>1 DEF Spoilt
  <2>3. IsSequence(Spoilt(q)) /\ Spoilt(q) # q
    BY <1>5, SpoiltDiffers
  <2>4. ~VerifyInclusion(L[i + 1], i, n, Spoilt(q), r)
    BY <1>1, <1>2, <1>4, <2>3, InclusionAt
  <2>5. InclusionDecided(L, v)
    BY <1>4, <1>6, <2>2, <2>3, <2>4
  <2> QED BY <2>1, <2>5
<1>8. InclusionDecided(L, [honest EXCEPT !.leafIndex = i + 1, !.valid = FALSE])
  <2>1. PICK v : v = [honest EXCEPT !.leafIndex = i + 1, !.valid = FALSE]
    OBVIOUS
  <2>2. /\ v.leafHash = L[i + 1] /\ v.leafIndex = i + 1 /\ v.treeSize = n /\ v.auditPath = q
        /\ v.rootHash = r /\ v.valid = FALSE
    BY <1>3, <2>1
  <2>3. L[i + 1] # L[(i + 1) + 1]
    <3>1. L[i + 1] = HashLeaf(i + 1) /\ L[(i + 1) + 1] = HashLeaf((i + 1) + 1)
      BY <1>4 DEF OneLog
    <3> QED BY <1>4, <3>1, HashesDiffer
  <2>4. ~VerifyInclusion(L[i + 1], i + 1, n, q, r)
    BY <1>2, <1>4, <1>5, <2>3, InclusionAt
  <2>5. InclusionDecided(L, v)
    BY <1>4, <1>5, <1>6, <2>2, <2>4
  <2> QED BY <2>1, <2>5
<1>9. InclusionDecided(L, [honest EXCEPT !.rootHash = RootAt(L, n - 1), !.valid = FALSE])
  <2>1. PICK v : v = [honest EXCEPT !.rootHash = o, !.valid = FALSE]
    OBVIOUS
  <2>2. /\ v.leafHash = L[i + 1] /\ v.leafIndex = i /\ v.treeSize = n /\ v.auditPath = q
        /\ v.rootHash = o /\ v.valid = FALSE
    BY <1>3, <2>1
  <2>3. r # o
    BY <1>2, <1>4, SizesDiffer
  <2>4. VerifyInclusion(L[i + 1], i, n, q, r)
    BY <1>1, <1>2, <1>4, <1>5, InclusionAt
  <2>5. ~VerifyInclusion(L[i + 1], i, n, q, o)
    BY <2>3, <2>4 DEF VerifyInclusion
  <2>6. InclusionDecided(L, v)
    BY <1>4, <1>5, <1>6, <2>2, <2>5
  <2> QED BY <1>2, <2>1, <2>6
<1> QED BY <1>7, <1>8, <1>9

(* The first node corrupted, the root of another size as the old one.      *)
LEMMA SpoiltConsistencyDecided ==
    ASSUME NEW L, OneLog(L), NEW n, n = Len(L), NEW m \in 1..(n - 1), m <= WordSize,
           NEW honest, honest = ConsistencyVector(L, m, n)
    PROVE  /\ ConsistencyDecided(L, [honest EXCEPT !.consistencyPath[1] = Corrupted, !.valid = FALSE])
           /\ ConsistencyDecided(L, [honest EXCEPT !.firstRoot = RootAt(L, m + 1), !.valid = FALSE])
<1>1. PICK q : q = ConsistencyPath(m, SubSeq(L, 1, n))
  OBVIOUS
<1>2. PICK r, f, o : r = RootAt(L, n) /\ f = RootAt(L, m) /\ o = RootAt(L, m + 1)
  OBVIOUS
<1>3. honest = [first |-> m, second |-> n, firstRoot |-> f, secondRoot |-> r,
                consistencyPath |-> q, valid |-> TRUE]
  BY <1>1, <1>2 DEF ConsistencyVector
<1>4. /\ n \in Nat /\ m \in Nat /\ m >= 1 /\ m <= n /\ n \in 1..Len(L) /\ m \in 1..Len(L)
      /\ m + 1 \in 1..Len(L) /\ m # m + 1
  BY DEF OneLog
<1>5. IsSequence(q) /\ Clean(q) /\ q # <<>>
  BY <1>1, <1>4, HonestProofAt
<1>6. ASSUME NEW v, NEW old, NEW p, IsSequence(p),
             v.first = m, v.second = n, v.firstRoot = old, v.secondRoot = r, v.consistencyPath = p,
             v.valid = FALSE, ~VerifyConsistency(m, n, old, r, p)
      PROVE  ConsistencyDecided(L, v)
  <2>0. PICK no \in BOOLEAN : no = FALSE
    OBVIOUS
  <2>1. VerifyConsistency(m, n, old, r, p) <=> no
    BY <1>6, <2>0
  <2>2. VerifyConsistency(m, n, old, r, p) = no /\ RefereeVerifyConsistency(m, n, old, r, p) = no
    BY <1>4, <2>1, <1>6, BothDecideConsistency
  <2> QED BY <1>6, <2>0, <2>2 DEF ConsistencyDecided
<1>7. ConsistencyDecided(L, [honest EXCEPT !.consistencyPath[1] = Corrupted, !.valid = FALSE])
  <2>1. PICK v : v = [honest EXCEPT !.consistencyPath[1] = Corrupted, !.valid = FALSE]
    OBVIOUS
  <2>2. /\ v.first = m /\ v.second = n /\ v.firstRoot = f /\ v.secondRoot = r
        /\ v.consistencyPath = Spoilt(q) /\ v.valid = FALSE
    BY <1>3, <2>1 DEF Spoilt
  <2>3. IsSequence(Spoilt(q)) /\ Spoilt(q) # q
    BY <1>5, SpoiltDiffers
  <2>4. ~VerifyConsistency(m, n, f, r, Spoilt(q))
    BY <1>1, <1>2, <1>4, <2>3, ConsistencyAt
  <2>5. ConsistencyDecided(L, v)
    BY <1>6, <2>2, <2>3, <2>4
  <2> QED BY <2>1, <2>5
<1>8. ConsistencyDecided(L, [honest EXCEPT !.firstRoot = RootAt(L, m + 1), !.valid = FALSE])
  <2>1. PICK v : v = [honest EXCEPT !.firstRoot = o, !.valid = FALSE]
    OBVIOUS
  <2>2. /\ v.first = m /\ v.second = n /\ v.firstRoot = o /\ v.secondRoot = r
        /\ v.consistencyPath = q /\ v.valid = FALSE
    BY <1>3, <2>1
  <2>3. f # o
    BY <1>2, <1>4, SizesDiffer
  <2>4. ~VerifyConsistency(m, n, o, r, q)
    BY <1>2, <1>4, <1>5, <2>3, ConsistencyAt
  <2>5. ConsistencyDecided(L, v)
    BY <1>5, <1>6, <2>2, <2>4
  <2> QED BY <1>2, <2>1, <2>5
<1> QED BY <1>7, <1>8

(* What a head is refused for, and that the referee asks the same.         *)
LEMMA RefereeReadsHeads ==
    \A sth, opts : RefereeVerifySth(sth, opts) = VerifySignedTreeHead(sth, opts)
BY Zenon DEF RefereeVerifySth, VerifySignedTreeHead, IsSignedTreeHeadV1, STH_SCHEMA

LEMMA HeadsDecided ==
    ASSUME NEW L, OneLog(L), Len(L) >= 1
    PROVE  \A v \in SthVectors(L) : VerifySignedTreeHead(v.sth, v.options) = v.verdict
<1>1. PICK n \in Nat : n = Len(L) /\ n >= 1
  BY DEF OneLog
<1>2. PICK root : root = RootAt(L, n)
  OBVIOUS
<1>3. root # Corrupted
  <2>1. RootAt(L, n) = Root(L, 0, n)
    BY <1>1, RootAtIs DEF RootOrEmpty
  <2> QED BY <1>1, <1>2, <2>1, RootIsNotCorrupted
<1>4. PICK key : key = [key |-> SigningKey, form |-> "legacy"]
  OBVIOUS
<1>5. PICK payload : payload = [schema |-> STH_SCHEMA, logId |-> LOG_ID, treeSize |-> n, rootHash |-> root]
  OBVIOUS
<1>6. PICK signature : signature = [by |-> SigningKey, of |-> payload]
  OBVIOUS
<1>7. PICK sth : sth = [payload |-> payload, signature |-> signature, publicKeyMultibase |-> key]
  OBVIOUS
<1>8. PICK grown, spoilt :
        /\ grown = [payload |-> [schema |-> STH_SCHEMA, logId |-> LOG_ID, treeSize |-> n + 1,
                                 rootHash |-> root],
                    signature |-> signature, publicKeyMultibase |-> key]
        /\ spoilt = [payload |-> [schema |-> STH_SCHEMA, logId |-> LOG_ID, treeSize |-> n,
                                  rootHash |-> Corrupted],
                     signature |-> signature, publicKeyMultibase |-> key]
  OBVIOUS
<1> DEFINE Opts(T, E, M) == [trustedKeys |-> T, expectedLogId |-> E, minTreeSize |-> M]
           Vector(head, options, answer) == [sth |-> head, options |-> options, verdict |-> answer]
<1>9. SthVectors(L) =
        {Vector(sth, Opts({{key}}, {LOG_ID}, {}), "valid"),
         Vector(grown, Opts({}, {}, {}), "bad_signature"),
         Vector(spoilt, Opts({}, {}, {}), "bad_signature"),
         Vector(sth, Opts({{OtherKey}}, {}, {}), "untrusted_key"),
         Vector(sth, Opts({}, {}, {n + 1}), "tree_size_regression"),
         Vector(sth, Opts({}, {OtherLog}, {}), "log_id_mismatch")}
  <2>1. Multibase(SigningKey, "legacy") = key
    BY <1>4 DEF Multibase
  <2>2. SignTreeHead(BuildSthPayload(LOG_ID, n, RootAt(L, n)), SigningKey, key) = sth
    BY <1>2, <1>5, <1>6, <1>7 DEF SignTreeHead, BuildSthPayload, SignWithPkcs8
  <2>3. /\ [sth EXCEPT !.payload.treeSize = n + 1] = grown
        /\ [sth EXCEPT !.payload.rootHash = Corrupted] = spoilt
    BY <1>5, <1>7, <1>8
  <2>4. NoSthOptions = Opts({}, {}, {})
    BY DEF NoSthOptions
  <2>5. PICK o, none, ours, other, log, larger, elsewhere :
          /\ o = NoSthOptions /\ none = {} /\ ours = {{key}} /\ other = {{OtherKey}}
          /\ log = {LOG_ID} /\ larger = {n + 1} /\ elsewhere = {OtherLog}
    OBVIOUS
  <2>6. o = [trustedKeys |-> none, expectedLogId |-> none, minTreeSize |-> none]
    BY <2>4, <2>5
  <2>7. /\ [o EXCEPT !.trustedKeys = ours, !.expectedLogId = log] = Opts(ours, log, none)
        /\ [o EXCEPT !.trustedKeys = other] = Opts(other, none, none)
        /\ [o EXCEPT !.minTreeSize = larger] = Opts(none, none, larger)
        /\ [o EXCEPT !.expectedLogId = elsewhere] = Opts(none, elsewhere, none)
    <3>1. [o EXCEPT !.trustedKeys = ours] = Opts(ours, none, none)
      BY <2>6
    <3>2. [o EXCEPT !.trustedKeys = ours, !.expectedLogId = log] = Opts(ours, log, none)
      <4>1. PICK p : p = [o EXCEPT !.trustedKeys = ours]
        OBVIOUS
      <4>2. p = [trustedKeys |-> ours, expectedLogId |-> none, minTreeSize |-> none]
        BY <3>1, <4>1
      <4>3. [p EXCEPT !.expectedLogId = log] = Opts(ours, log, none)
        BY <4>2
      <4> QED BY <4>1, <4>3, Zenon
    <3>3. [o EXCEPT !.trustedKeys = other] = Opts(other, none, none)
      BY <2>6
    <3>4. [o EXCEPT !.minTreeSize = larger] = Opts(none, none, larger)
      BY <2>6
    <3>5. [o EXCEPT !.expectedLogId = elsewhere] = Opts(none, elsewhere, none)
      BY <2>6
    <3> QED BY <3>1, <3>2, <3>3, <3>4, <3>5
  <2>8. /\ [NoSthOptions EXCEPT !.trustedKeys = {{key}}, !.expectedLogId = {LOG_ID}]
             = Opts({{key}}, {LOG_ID}, {})
        /\ [NoSthOptions EXCEPT !.trustedKeys = {{OtherKey}}] = Opts({{OtherKey}}, {}, {})
        /\ [NoSthOptions EXCEPT !.minTreeSize = {n + 1}] = Opts({}, {}, {n + 1})
        /\ [NoSthOptions EXCEPT !.expectedLogId = {OtherLog}] = Opts({}, {OtherLog}, {})
    BY <2>5, <2>7, Zenon
  <2> QED BY <1>1, <2>1, <2>2, <2>3, <2>4, <2>8, Zenon DEF SthVectors
<1>10. /\ IsSignedTreeHeadV1(sth) /\ IsSignedTreeHeadV1(grown) /\ IsSignedTreeHeadV1(spoilt)
  BY <1>5, <1>7, <1>8 DEF IsSignedTreeHeadV1
<1>11. /\ sth.publicKeyMultibase = key /\ sth.payload = payload /\ sth.signature = signature
       /\ payload.logId = LOG_ID /\ payload.treeSize = n
       /\ grown.publicKeyMultibase = key /\ grown.signature = signature
       /\ spoilt.publicKeyMultibase = key /\ spoilt.signature = signature
       /\ grown.payload # payload /\ spoilt.payload # payload
  <2>1. grown.payload.treeSize = n + 1 /\ spoilt.payload.rootHash = Corrupted
    BY <1>8
  <2>2. payload.treeSize = n /\ payload.rootHash = root
    BY <1>5
  <2>3. n + 1 # n
    OBVIOUS
  <2> QED BY <1>3, <1>5, <1>7, <1>8, <2>1, <2>2, <2>3
<1>12. VerifyWithMultibase(key, payload, signature)
  BY <1>4, <1>6 DEF VerifyWithMultibase, SignWithPkcs8
<1>13. \A other : other # payload => ~VerifyWithMultibase(key, other, signature)
  BY <1>4, <1>6 DEF VerifyWithMultibase, SignWithPkcs8
<1>14. key # OtherKey /\ LOG_ID # OtherLog /\ OtherLog # ""
  <2>1. key.key # OtherKey.key
    BY <1>4, LogIsNotTheOther
  <2> QED BY <2>1, LogIsNotTheOther DEF OtherLog
<1>15. VerifySignedTreeHead(sth, Opts({{key}}, {LOG_ID}, {})) = "valid"
  BY <1>10, <1>11, <1>12 DEF VerifySignedTreeHead
<1>16. /\ VerifySignedTreeHead(grown, Opts({}, {}, {})) = "bad_signature"
       /\ VerifySignedTreeHead(spoilt, Opts({}, {}, {})) = "bad_signature"
  BY <1>10, <1>11, <1>13 DEF VerifySignedTreeHead
<1>17. VerifySignedTreeHead(sth, Opts({{OtherKey}}, {}, {})) = "untrusted_key"
  BY <1>10, <1>11, <1>14 DEF VerifySignedTreeHead
<1>18. VerifySignedTreeHead(sth, Opts({}, {}, {n + 1})) = "tree_size_regression"
  <2>1. n < n + 1
    OBVIOUS
  <2> QED BY <1>10, <1>11, <1>12, <2>1 DEF VerifySignedTreeHead
<1>19. VerifySignedTreeHead(sth, Opts({}, {OtherLog}, {})) = "log_id_mismatch"
  BY <1>10, <1>11, <1>12, <1>14 DEF VerifySignedTreeHead
<1> HIDE DEF Opts
<1>20. \A head, options, answer : /\ Vector(head, options, answer).sth = head
                                  /\ Vector(head, options, answer).options = options
                                  /\ Vector(head, options, answer).verdict = answer
  OBVIOUS
<1> HIDE DEF Vector
<1> QED BY <1>9, <1>15, <1>16, <1>17, <1>18, <1>19, <1>20

LEMMA RefereeHashesAlike ==
    ASSUME NEW L, OneLog(L)
    PROVE  \A n \in 0..Len(L) : RefereeMth(L, 0, n) = RootAt(L, n)
<1> SUFFICES ASSUME NEW n \in 0..Len(L) PROVE RefereeMth(L, 0, n) = RootAt(L, n)
  OBVIOUS
<1>1. Len(L) \in Nat /\ n \in Nat /\ n <= Len(L) /\ 0 + n = n
  BY DEF OneLog
<1>2. RefereeMth(L, 0, 0 + n) = RootOrEmpty(L, 0, n)
  BY <1>1, RefereeHashes
<1> QED BY <1>1, <1>2, RootAtIs

(* In a log of any size, for any leaf, the vectors that are published as   *)
(* honest are accepted and those published as spoilt are refused, by the   *)
(* library and by the referee, which agree on the tree and on the proofs,  *)
(* and a head is refused for the reason the vector gives.  An old size is  *)
(* at most that of a word.                                                 *)
THEOREM VectorsAreDecided == AuditSpec => []VectorsDecide
<1>1. AuditInv => VectorsDecide
  <2> SUFFICES ASSUME AuditInv, NEW i \in 0..(Len(leaves) - 2), NEW n, n = Len(leaves),
                      NEW inclusion, inclusion = InclusionVectors(leaves, {<<i, n - 1>>}, i),
                      NEW consistency,
                      consistency = IF i \notin 1..WordSize THEN {}
                                    ELSE ConsistencyVectors(leaves, {<<i, n>>, <<i, i + 1>>}, i)
               PROVE  /\ SelfCheck(inclusion, consistency, SthVectors(leaves))
                      /\ RefereePasses(leaves, inclusion, consistency, SthVectors(leaves))
    BY Zenon DEF VectorsDecide
  <2>1. OneLog(leaves) /\ Len(leaves) >= 1
    BY DEF AuditInv, OneLog
  <2>2. /\ n \in Nat /\ i \in Nat /\ n >= 2 /\ n \in 1..Len(leaves) /\ n - 1 \in 1..Len(leaves)
        /\ i \in 0..((n - 1) - 1) /\ i \in 0..(n - 2)
        /\ i + 1 \in 1..Len(leaves)
        /\ i # 0 => i \in 1..(n - 1) /\ i \in 1..((i + 1) - 1)
    BY DEF AuditInv
  <2>3. \A v \in inclusion : InclusionDecided(leaves, v)
    <3>1. \A j \in 0..(n - 1) : InclusionDecided(leaves, InclusionVector(leaves, j, n))
      BY <2>1, <2>2, HonestInclusionDecided
    <3>2. InclusionDecided(leaves, InclusionVector(leaves, i, n - 1))
      BY <2>1, <2>2, HonestInclusionDecided
    <3>3. PICK honest : honest = InclusionVector(leaves, i, n)
      OBVIOUS
    <3>4. PICK byPath, byIndex, byRoot :
            /\ byPath = [honest EXCEPT !.auditPath[1] = Corrupted, !.valid = FALSE]
            /\ byIndex = [honest EXCEPT !.leafIndex = i + 1, !.valid = FALSE]
            /\ byRoot = [honest EXCEPT !.rootHash = RootAt(leaves, n - 1), !.valid = FALSE]
      OBVIOUS
    <3>5. /\ InclusionDecided(leaves, byPath)
          /\ InclusionDecided(leaves, byIndex)
          /\ InclusionDecided(leaves, byRoot)
      BY <2>1, <2>2, <3>3, <3>4, SpoiltInclusionDecided
    <3>6. inclusion = {InclusionVector(leaves, j, n) : j \in 0..(n - 1)}
                        \cup {InclusionVector(leaves, at[1], at[2]) : at \in {<<i, n - 1>>}}
                        \cup {byPath, byIndex, byRoot}
      BY <3>3, <3>4, Zenon DEF InclusionVectors
    <3>7. <<i, n - 1>>[1] = i /\ <<i, n - 1>>[2] = n - 1
      OBVIOUS
    <3>8. {InclusionVector(leaves, at[1], at[2]) : at \in {<<i, n - 1>>}}
            = {InclusionVector(leaves, i, n - 1)}
      BY <3>7, Zenon
    <3>9. \A v \in inclusion : \/ \E j \in 0..(n - 1) : v = InclusionVector(leaves, j, n)
                              \/ v = InclusionVector(leaves, i, n - 1)
                              \/ v \in {byPath, byIndex, byRoot}
      BY <3>6, <3>8, Zenon
    <3> QED BY <3>1, <3>2, <3>5, <3>9, Zenon
  <2>4. \A v \in consistency : ConsistencyDecided(leaves, v)
    <3> SUFFICES ASSUME i \in 1..WordSize
                 PROVE  \A v \in consistency : ConsistencyDecided(leaves, v)
      OBVIOUS
    <3>0. i # 0 /\ i <= WordSize
      BY WordSizeIsPower
    <3>1. ConsistencyDecided(leaves, ConsistencyVector(leaves, i, n))
      BY <2>1, <2>2, <3>0, HonestConsistencyDecided
    <3>2. ConsistencyDecided(leaves, ConsistencyVector(leaves, i, i + 1))
      BY <2>1, <2>2, <3>0, HonestConsistencyDecided
    <3>3. PICK honest : honest = ConsistencyVector(leaves, i, n)
      OBVIOUS
    <3>4. /\ ConsistencyDecided(leaves,
               [honest EXCEPT !.consistencyPath[1] = Corrupted, !.valid = FALSE])
          /\ ConsistencyDecided(leaves,
               [honest EXCEPT !.firstRoot = RootAt(leaves, i + 1), !.valid = FALSE])
      BY <2>1, <2>2, <3>0, <3>3, SpoiltConsistencyDecided
    <3>5. consistency = {ConsistencyVector(leaves, at[1], at[2]) : at \in {<<i, n>>, <<i, i + 1>>}}
                          \cup {[honest EXCEPT !.consistencyPath[1] = Corrupted, !.valid = FALSE],
                                [honest EXCEPT !.firstRoot = RootAt(leaves, i + 1), !.valid = FALSE]}
      BY <3>3, Zenon DEF ConsistencyVectors
    <3>6. /\ <<i, n>>[1] = i /\ <<i, n>>[2] = n
          /\ <<i, i + 1>>[1] = i /\ <<i, i + 1>>[2] = i + 1
      OBVIOUS
    <3> QED BY <3>1, <3>2, <3>4, <3>5, <3>6
  <2>5. \A v \in SthVectors(leaves) :
          /\ VerifySignedTreeHead(v.sth, v.options) = v.verdict
          /\ RefereeVerifySth(v.sth, v.options) = v.verdict
    BY <2>1, HeadsDecided, RefereeReadsHeads
  <2>6. \A k \in 0..Len(leaves) : RefereeMth(leaves, 0, k) = RootAt(leaves, k)
    BY <2>1, RefereeHashesAlike
  <2>7. SelfCheck(inclusion, consistency, SthVectors(leaves))
    BY <2>3, <2>4, <2>5 DEF SelfCheck, InclusionDecided, ConsistencyDecided
  <2>8. RefereePasses(leaves, inclusion, consistency, SthVectors(leaves))
    BY <2>3, <2>4, <2>5, <2>6 DEF RefereePasses, InclusionDecided, ConsistencyDecided
  <2> QED BY <2>7, <2>8
<1> QED BY <1>1, AuditInvariance, PTL

-----------------------------------------------------------------------------
(* The relying party: the order of what it accepts.                        *)

(* The payloads of the heads of the pinned log. *)
Payloads == {HeadOf(Log, branch, n).payload : branch \in Branches, n \in 0..MaxSize}

IInv ==
    /\ accepted \in Seq(Payloads)
    /\ \A payload \in waiting : payload \in Payloads
    /\ \A i \in 2..Len(accepted) : accepted[i - 1].treeSize < accepted[i].treeSize
    /\ \A payload \in waiting : accepted # <<>> /\ Seen.treeSize < payload.treeSize

(* What the log can sign does not change. *)
LEMMA PayloadsFixed == ASSUME fork' = fork PROVE Payloads' = Payloads
  BY DEF Payloads, HeadOf, RootOf, Leaves

(* The payload of a head states its size. *)
LEMMA SizeOfHead ==
    ASSUME NEW log, NEW branch, NEW n
    PROVE  HeadOf(log, branch, n).payload.treeSize = n
  BY DEF HeadOf, SignTreeHead, BuildSthPayload

(* A head the client's options let through is the pinned log's. *)
LEMMA ValidIsOurs ==
    ASSUME NEW log \in {Log} \cup Others, NEW branch, NEW n,
           VerifySignedTreeHead(HeadOf(log, branch, n), ClientOptions) = "valid"
    PROVE  log = Log
<1> DEFINE sth == HeadOf(log, branch, n)
<1>1. /\ sth.publicKeyMultibase = Multibase(log.key, "legacy")
      /\ sth.payload.logId = log.logId
  BY DEF HeadOf, SignTreeHead, BuildSthPayload
<1>2. ~\E keys \in ClientOptions.trustedKeys : sth.publicKeyMultibase \notin keys
  BY DEF VerifySignedTreeHead
<1>3. ~\E id \in ClientOptions.expectedLogId \ {""} : sth.payload.logId # id
  BY DEF VerifySignedTreeHead
<1>4. log.key = Log.key
  <2>1. sth.publicKeyMultibase \in {Multibase(Log.key, "legacy")}
    BY <1>2 DEF ClientOptions
  <2>2. Multibase(log.key, "legacy") = Multibase(Log.key, "legacy")
    BY <1>1, <2>1
  <2> QED BY <2>2 DEF Multibase
<1>5. log.logId = Log.logId
  BY <1>1, <1>3, LogsAreRecords DEF ClientOptions
<1> QED BY <1>4, <1>5, LogsAreRecords

(* ... and it is no smaller than the last one accepted. *)
LEMMA ValidHead ==
    ASSUME NEW log \in {Log} \cup Others, NEW branch \in Branches, NEW n \in 0..MaxSize,
           VerifySignedTreeHead(HeadOf(log, branch, n), ClientOptions) = "valid"
    PROVE  /\ HeadOf(log, branch, n).payload \in Payloads
           /\ accepted # <<>> => ~(n < Seen.treeSize)
<1>1. log = Log
  BY ValidIsOurs
<1>2. HeadOf(log, branch, n).payload \in Payloads
  BY <1>1 DEF Payloads
<1>3. ~\E floor \in ClientOptions.minTreeSize : HeadOf(log, branch, n).payload.treeSize < floor
  BY DEF VerifySignedTreeHead
<1> QED BY <1>2, <1>3, SizeOfHead DEF ClientOptions

(* Accepting a larger head, or a first one, keeps the order. *)
LEMMA AcceptKeeps ==
    ASSUME IInv, NEW payload, payload \in Payloads, Accept(payload), fork' = fork,
           accepted = <<>> \/ Seen.treeSize < payload.treeSize
    PROVE  IInv'
<1>1. payload \in Payloads
  OBVIOUS
<1>2. accepted \in Seq(Payloads)
  BY DEF IInv
<1>3. Payloads' = Payloads
  BY PayloadsFixed
<1>4. accepted' = Append(accepted, payload) /\ waiting' = {}
  BY DEF Accept
<1>5. accepted' \in Seq(Payloads)
  BY <1>1, <1>2, <1>4
<1>6. ASSUME NEW i \in 2..Len(accepted')
      PROVE  accepted'[i - 1].treeSize < accepted'[i].treeSize
  <2>1. CASE i <= Len(accepted)
    BY <1>2, <1>4, <2>1 DEF IInv
  <2>2. CASE i = Len(accepted) + 1
    BY <1>2, <1>4, <2>2 DEF Seen
  <2> QED BY <1>2, <1>4, <2>1, <2>2
<1> QED BY <1>3, <1>4, <1>5, <1>6 DEF IInv

LEMMA IInvInit == Init => IInv
  BY DEF Init, IInv

(* A step that only moves the verdict or the operator's sizes. *)
LEMMA IInvStutter ==
    ASSUME IInv, UNCHANGED <<fork, accepted>>, waiting' \in {waiting, {}}
    PROVE  IInv'
  BY PayloadsFixed DEF IInv, Seen

(* A larger head of the log's may wait. *)
LEMMA WaitingIInv ==
    ASSUME IInv, UNCHANGED <<fork, accepted>>, NEW payload, payload \in Payloads,
           waiting' = {payload}, accepted # <<>>, Seen.treeSize < payload.treeSize
    PROVE  IInv'
  BY PayloadsFixed DEF IInv, Seen

LEMMA IInvNext == IInv /\ [Next]_vars => IInv'
<1> SUFFICES ASSUME IInv, [Next]_vars PROVE IInv'
  OBVIOUS
<1>1. ASSUME NEW branch \in Branches, Extend(branch) PROVE IInv'
  BY <1>1, IInvStutter DEF Extend
<1>2. ASSUME NEW log \in {Log} \cup Others, NEW branch \in Branches, NEW n \in 0..MaxSize,
             Receive(log, branch, n)
      PROVE  IInv'
  <2> DEFINE sth == HeadOf(log, branch, n)
             result == VerifySignedTreeHead(sth, ClientOptions)
  <2>0. fork' = fork
    BY <1>2 DEF Receive
  <2>1. sth.payload.treeSize = n
    BY SizeOfHead
  <2>2. CASE UNCHANGED <<accepted, waiting>>
    BY <2>0, <2>2, IInvStutter
  <2>3. CASE result = "valid" /\ Standing(sth.payload) = "first" /\ Accept(sth.payload)
    <3>1. sth.payload \in Payloads /\ (accepted # <<>> => ~(n < Seen.treeSize))
      BY <2>3, ValidHead
    <3>2. accepted = <<>> \/ Seen.treeSize < n
      BY <2>1, <2>3 DEF Standing
    <3> QED BY <2>0, <2>1, <2>3, <3>1, <3>2, AcceptKeeps
  <2>4. CASE /\ result = "valid" /\ Standing(sth.payload) = "larger"
             /\ waiting' = {sth.payload} /\ UNCHANGED accepted
    <3>1. sth.payload \in Payloads /\ (accepted # <<>> => ~(n < Seen.treeSize))
      BY <2>4, ValidHead
    <3>2. accepted # <<>> /\ Seen.treeSize # n
      BY <2>1, <2>4 DEF Standing
    <3>3. Seen.treeSize \in Nat
      <4>1. Seen \in Payloads
        BY <3>2 DEF Seen, IInv
      <4>2. PICK b \in Branches, k \in 0..MaxSize : Seen = HeadOf(Log, b, k).payload
        BY <4>1 DEF Payloads
      <4>3. Seen.treeSize = k
        BY <4>2, SizeOfHead
      <4> QED BY <4>3, MaxSizeIsNat
    <3>4. n \in Nat
      BY MaxSizeIsNat
    <3>5. Seen.treeSize < n
      BY <3>1, <3>2, <3>3, <3>4
    <3> QED BY <2>0, <2>1, <2>4, <3>1, <3>2, <3>5, WaitingIInv
  <2> QED BY <1>2, <2>2, <2>3, <2>4 DEF Receive
<1>3. CASE ReceiveProof
  <2>0. fork' = fork
    BY <1>3 DEF ReceiveProof
  <2>1. CASE \E payload \in waiting : Accept(payload)
    BY <2>0, <2>1, AcceptKeeps DEF IInv
  <2>2. CASE waiting' = {} /\ UNCHANGED accepted
    BY <2>0, <2>2, IInvStutter
  <2> QED BY <1>3, <2>1, <2>2 DEF ReceiveProof
<1>4. CASE UNCHANGED vars
  BY <1>4, IInvStutter DEF vars
<1> QED BY <1>1, <1>2, <1>3, <1>4 DEF Next

LEMMA IInvImplies == IInv => AcceptedInOrder
<1> SUFFICES ASSUME IInv PROVE AcceptedInOrder
  OBVIOUS
<1>1. \A payload \in Range(accepted) : payload \in Payloads
  BY DEF IInv, Payloads, Range
<1>2. ASSUME NEW payload \in Payloads
      PROVE  \E branch \in Branches, n \in 0..MaxSize : payload = HeadOf(Log, branch, n).payload
  BY DEF Payloads
<1>3. Range(accepted) \cup waiting \subseteq Payloads
  BY <1>1 DEF IInv
<1> QED BY <1>2, <1>3 DEF IInv, AcceptedInOrder

(* The client accepts heads of the pinned log only, each larger than all   *)
(* before it, for any operator, any other logs and any order of arrival.   *)
THEOREM AcceptsInOrder == Spec => []AcceptedInOrder
<1>1. Spec => []IInv
  BY IInvInit, IInvNext, PTL DEF Spec
<1> QED BY <1>1, IInvImplies, PTL

-----------------------------------------------------------------------------
(* The relying party: what a root, and a proof, tell it of a history.      *)

LEMMA LeavesAre ==
    ASSUME NEW log, NEW b, NEW n \in Nat
    PROVE  /\ Len(Leaves(log, b, n)) = n
           /\ \A i \in 1..n : Leaves(log, b, n)[i] =
                HashLeaf([log |-> log, index |-> i, branch |-> IF i <= fork THEN Trunk ELSE b])
<1> DEFINE L == Leaves(log, b, n)
           S == {L[i] : i \in 1..n}
<1>1. L \in [1..n -> S]
  BY DEF Leaves
<1>2. Len(L) = n
  BY <1>1, LenProperties, SeqDef
<1> QED BY <1>2 DEF Leaves

(* Two histories with one root at m are the same up to m. *)
LEMMA RootTellsLeaves ==
    ASSUME NEW b, NEW c, NEW m \in Nat, NEW k \in Nat, k <= m,
           RootOf(Log, b, m) = RootOf(Log, c, m)
    PROVE  Leaves(Log, b, k) = Leaves(Log, c, k)
<1>1. CASE m = 0
  BY <1>1 DEF Leaves
<1>2. CASE m >= 1
  <2> DEFINE K == Leaves(Log, b, m)
             L == Leaves(Log, c, m)
  <2>1. Len(K) = m /\ Len(L) = m
    BY LeavesAre
  <2>2. MerkleRootFromLeafHashes(K) = Root(K, 0, m) /\ MerkleRootFromLeafHashes(L) = Root(L, 0, m)
    BY <1>2, <2>1, LogRootIs DEF TreeRoot
  <2>3. Root(K, 0, m) = Root(L, 0, m)
    BY <2>2 DEF RootOf
  <2>4. \A i \in 1..m : K[i] = L[i]
    <3> HIDE DEF K, L
    <3>1. 0 \in Nat /\ m \in 1..Len(K) /\ m \in 1..Len(L) /\ 0 + 1 = 1 /\ 0 + m = m
      BY <1>2, <2>1
    <3>2. Root(K, 0, m) = Root(L, 0, m) <=> \A i \in (0 + 1)..(0 + m) : K[i] = L[i]
      BY <2>1, <3>1, RootsTell
    <3> QED BY <2>3, <3>1, <3>2
  <2>5. \A i \in 1..k : Leaves(Log, b, k)[i] = Leaves(Log, c, k)[i]
    <3> SUFFICES ASSUME NEW i \in 1..k PROVE Leaves(Log, b, k)[i] = Leaves(Log, c, k)[i]
      OBVIOUS
    <3>1. i \in 1..m
      OBVIOUS
    <3> QED BY <2>4, <3>1 DEF Leaves
  <2> QED BY <2>5 DEF Leaves
<1> QED BY <1>1, <1>2

LEMMA HeadIs ==
    ASSUME NEW b, NEW n
    PROVE  /\ HeadOf(Log, b, n).payload.treeSize = n
           /\ HeadOf(Log, b, n).payload.rootHash = RootOf(Log, b, n)
  BY DEF HeadOf, SignTreeHead, BuildSthPayload

LEMMA SameRootSameHead ==
    ASSUME NEW b, NEW c, NEW n, RootOf(Log, b, n) = RootOf(Log, c, n)
    PROVE  HeadOf(Log, b, n) = HeadOf(Log, c, n)
  BY DEF HeadOf

(* What the operator answers with is a path. *)
LEMMA AnswersArePaths ==
    ASSUME NEW m \in Nat, NEW n \in Nat, m >= 1, m < n, NEW q \in Paths(m, n)
    PROVE  IsSequence(q)
<1>1. ASSUME NEW b \in Branches, q = ConsistencyPath(m, Leaves(Log, b, n))
      PROVE  IsSequence(q)
  BY <1>1, LeavesAre, ConsistencyPathIsSequence
<1>2. ASSUME NEW b \in Branches, q = <<RootOf(Log, b, m)>>
      PROVE  IsSequence(q)
  BY <1>2, OneIsSequence
<1>3. CASE q = <<>>
  BY <1>3, NothingIsSequence
<1> QED BY <1>1, <1>2, <1>3 DEF Paths

(* A proof shows that the old root is the root of the same history at the  *)
(* old size, and only the log's own proof shows it.                        *)
LEMMA ProofShows ==
    ASSUME NEW m \in Nat, NEW n \in Nat, m >= 1, m < n, NEW b, NEW f, NEW q, IsSequence(q)
    PROVE  VerifyConsistency(m, n, f, RootOf(Log, b, n), q) <=>
             f = RootOf(Log, b, m) /\ q = ConsistencyPath(m, Leaves(Log, b, n))
<1>1. PICK L, O : L = Leaves(Log, b, n) /\ O = Leaves(Log, b, m)
  OBVIOUS
<1>2. Len(L) = n /\ Len(O) = m
  BY <1>1, LeavesAre
<1>3. \A i \in 1..m : O[i] = L[i]
  BY <1>1 DEF Leaves
<1>4. VerifyConsistency(m, Len(L), f, MerkleRootFromLeafHashes(L), q) <=>
        f = MerkleRootFromLeafHashes(O) /\ q = ConsistencyPath(m, L)
  BY <1>2, <1>3, ConsistencyExact
<1> QED BY <1>1, <1>2, <1>4 DEF RootOf

-----------------------------------------------------------------------------
(* The relying party: all it accepts is of one history.                    *)

(* These are heads of one history, none larger than the last. *)
OfHistory(heads, b) ==
    \A i \in 1..Len(heads) :
      /\ heads[i].treeSize \in Nat /\ heads[i].treeSize <= heads[Len(heads)].treeSize
      /\ heads[i] = HeadOf(Log, b, heads[i].treeSize).payload

HistoryInv ==
    /\ accepted # <<>> => \E b \in Branches : OfHistory(accepted, b)
    /\ waiting # {} => Seen.treeSize >= 1

(* A head of history c on top of heads of history b, when the two have the *)
(* same root at the last one's size.                                       *)
LEMMA HistoryGoesOn ==
    ASSUME accepted \in Seq(Payloads), accepted # <<>>, NEW b, NEW c, NEW n \in Nat,
           OfHistory(accepted, b), Seen.treeSize <= n,
           RootOf(Log, b, Seen.treeSize) = RootOf(Log, c, Seen.treeSize)
    PROVE  OfHistory(Append(accepted, HeadOf(Log, c, n).payload), c)
<1> DEFINE p == HeadOf(Log, c, n).payload
           later == Append(accepted, p)
<1>1. Len(accepted) \in Nat /\ Len(accepted) >= 1 /\ Len(later) = Len(accepted) + 1
  OBVIOUS
<1>2. p.treeSize = n /\ p = HeadOf(Log, c, p.treeSize).payload
  BY HeadIs
<1>3. later[Len(later)] = p
  BY <1>1
<1>4. Seen.treeSize \in Nat
  BY <1>1 DEF OfHistory, Seen
<1>5. ASSUME NEW i \in 1..Len(accepted)
      PROVE  /\ later[i].treeSize \in Nat /\ later[i].treeSize <= n
             /\ later[i] = HeadOf(Log, c, later[i].treeSize).payload
  <2>1. later[i] = accepted[i]
    BY <1>1
  <2>2. /\ accepted[i].treeSize \in Nat /\ accepted[i].treeSize <= Seen.treeSize
        /\ accepted[i] = HeadOf(Log, b, accepted[i].treeSize).payload
    BY DEF OfHistory, Seen
  <2>3. RootOf(Log, b, accepted[i].treeSize) = RootOf(Log, c, accepted[i].treeSize)
    BY <1>4, <2>2, RootTellsLeaves DEF RootOf
  <2>4. HeadOf(Log, b, accepted[i].treeSize) = HeadOf(Log, c, accepted[i].treeSize)
    BY <2>3, SameRootSameHead
  <2>5. accepted[i].treeSize <= n
    BY <1>4, <2>2
  <2>6. accepted[i] = HeadOf(Log, c, accepted[i].treeSize).payload
    BY <2>2, <2>4
  <2> QED BY <2>1, <2>2, <2>5, <2>6
<1>6. \A i \in 1..Len(later) : i \in 1..Len(accepted) \/ i = Len(later)
  BY <1>1
<1> HIDE DEF p, later
<1>7. p.treeSize \in Nat /\ p.treeSize <= n
  BY <1>2
<1>8. ASSUME NEW i \in 1..Len(later)
      PROVE  /\ later[i].treeSize \in Nat /\ later[i].treeSize <= later[Len(later)].treeSize
             /\ later[i] = HeadOf(Log, c, later[i].treeSize).payload
  <2>1. CASE i \in 1..Len(accepted)
    BY <1>2, <1>3, <1>5, <2>1
  <2>2. CASE i = Len(later)
    BY <1>2, <1>3, <1>7, <2>2
  <2> QED BY <1>6, <2>1, <2>2
<1>9. OfHistory(later, c)
  BY <1>8 DEF OfHistory
<1> QED BY <1>9 DEF later, p

LEMMA HistoryBegins ==
    ASSUME NEW c, NEW n \in Nat
    PROVE  OfHistory(Append(<<>>, HeadOf(Log, c, n).payload), c)
<1> DEFINE p == HeadOf(Log, c, n).payload
<1>1. p.treeSize = n
  BY HeadIs
<1>2. Append(<<>>, p) = <<p>> /\ Len(<<p>>) = 1 /\ <<p>>[1] = p
  BY OneIsSequence
<1> HIDE DEF p
<1>3. ASSUME NEW i \in 1..Len(<<p>>)
      PROVE  /\ <<p>>[i].treeSize \in Nat /\ <<p>>[i].treeSize <= <<p>>[Len(<<p>>)].treeSize
             /\ <<p>>[i] = HeadOf(Log, c, <<p>>[i].treeSize).payload
  <2>1. i = 1
    BY <1>2
  <2> QED BY <1>1, <1>2, <2>1 DEF p
<1>4. OfHistory(<<p>>, c)
  BY <1>3 DEF OfHistory
<1> QED BY <1>2, <1>4 DEF p

(* The operator's histories never change where they are. *)
LEMMA HistoryStays ==
    ASSUME fork' = fork, NEW b, OfHistory(accepted', b)
    PROVE  OfHistory(accepted, b)'
  BY DEF OfHistory, HeadOf, RootOf, Leaves

LEMMA HistoryKept ==
    ASSUME HistoryInv, UNCHANGED <<fork, accepted>>, waiting' \in {waiting, {}}
    PROVE  HistoryInv'
<1>1. ASSUME NEW b \in Branches, OfHistory(accepted, b)
      PROVE  OfHistory(accepted, b)'
  BY <1>1, HistoryStays
<1> QED BY <1>1 DEF HistoryInv, Seen

LEMMA HistoryMoves ==
    ASSUME fork' = fork, waiting' = {}, NEW c \in Branches, OfHistory(accepted', c)
    PROVE  HistoryInv'
  BY HistoryStays DEF HistoryInv

LEMMA SeenSize ==
    ASSUME IInv, accepted # <<>>
    PROVE  Seen.treeSize \in Nat
<1>1. Seen \in Payloads
  BY DEF Seen, IInv
<1>2. PICK b \in Branches, k \in 0..MaxSize : Seen = HeadOf(Log, b, k).payload
  BY <1>1 DEF Payloads
<1>3. Seen.treeSize = k
  BY <1>2, SizeOfHead
<1> QED BY <1>3, MaxSizeIsNat

(* A first head, or one on top of the empty log's. *)
LEMMA FirstAccepted ==
    ASSUME IInv, HistoryInv, NEW c \in Branches, NEW n \in Nat,
           Accept(HeadOf(Log, c, n).payload), fork' = fork,
           Standing(HeadOf(Log, c, n).payload) = "first"
    PROVE  HistoryInv'
<1> DEFINE p == HeadOf(Log, c, n).payload
<1>1. accepted' = Append(accepted, p) /\ waiting' = {}
  BY DEF Accept
<1>2. CASE accepted = <<>>
  <2>1. OfHistory(accepted', c)
    BY <1>1, <1>2, HistoryBegins
  <2> QED BY <1>1, <2>1, HistoryMoves
<1>3. CASE accepted # <<>>
  <2>1. Seen.treeSize = 0
    <3>1. p.treeSize = n
      BY HeadIs
    <3>2. CASE n = Seen.treeSize
      BY <1>3, <3>1, <3>2 DEF Standing
    <3>3. CASE n # Seen.treeSize
      BY <1>3, <3>1, <3>3 DEF Standing
    <3> QED BY <3>2, <3>3
  <2>2. PICK b \in Branches : OfHistory(accepted, b)
    BY <1>3 DEF HistoryInv
  <2>3. Leaves(Log, b, 0) = Leaves(Log, c, 0)
    BY DEF Leaves
  <2>4. RootOf(Log, b, Seen.treeSize) = RootOf(Log, c, Seen.treeSize)
    BY <2>1, <2>3 DEF RootOf
  <2>5. accepted \in Seq(Payloads) /\ Seen.treeSize <= n
    BY <2>1 DEF IInv
  <2>6. OfHistory(accepted', c)
    BY <1>1, <1>3, <2>2, <2>4, <2>5, HistoryGoesOn
  <2> QED BY <1>1, <2>6, HistoryMoves
<1> QED BY <1>2, <1>3

(* A larger head with its proof. *)
LEMMA ProvenAccepted ==
    ASSUME IInv, HistoryInv, NEW payload \in waiting, NEW q, fork' = fork,
           q \in Paths(Seen.treeSize, payload.treeSize),
           VerifyConsistency(Seen.treeSize, payload.treeSize, Seen.rootHash, payload.rootHash, q),
           Accept(payload)
    PROVE  HistoryInv'
<1>1. accepted # <<>> /\ Seen.treeSize < payload.treeSize /\ payload \in Payloads
  BY DEF IInv
<1>2. PICK c \in Branches, n \in 0..MaxSize : payload = HeadOf(Log, c, n).payload
  BY <1>1 DEF Payloads
<1>3. payload.treeSize = n /\ payload.rootHash = RootOf(Log, c, n) /\ n \in Nat
  BY <1>2, HeadIs, MaxSizeIsNat
<1>4. PICK m \in Nat : m = Seen.treeSize
  BY <1>1, SeenSize
<1>5. m >= 1 /\ m < n
  BY <1>1, <1>3, <1>4 DEF HistoryInv
<1>6. PICK b \in Branches : OfHistory(accepted, b)
  BY <1>1 DEF HistoryInv
<1>7. Seen.rootHash = RootOf(Log, b, m)
  <2>1. Len(accepted) \in 1..Len(accepted)
    BY <1>1 DEF IInv
  <2>2. Seen = HeadOf(Log, b, m).payload
    BY <1>4, <1>6, <2>1 DEF OfHistory, Seen
  <2> QED BY <2>2, HeadIs
<1>8. IsSequence(q)
  BY <1>3, <1>4, <1>5, AnswersArePaths
<1>9. VerifyConsistency(m, n, Seen.rootHash, RootOf(Log, c, n), q)
  BY <1>3, <1>4
<1>10. Seen.rootHash = RootOf(Log, c, m)
  BY <1>3, <1>5, <1>8, <1>9, ProofShows
<1>11. RootOf(Log, b, Seen.treeSize) = RootOf(Log, c, Seen.treeSize)
  BY <1>4, <1>7, <1>10
<1>12. accepted \in Seq(Payloads) /\ Seen.treeSize <= n
  BY <1>4, <1>5 DEF IInv
<1>13. accepted' = Append(accepted, HeadOf(Log, c, n).payload) /\ waiting' = {}
  BY <1>2 DEF Accept
<1>14. OfHistory(accepted', c)
  BY <1>1, <1>3, <1>6, <1>11, <1>12, <1>13, HistoryGoesOn
<1> QED BY <1>13, <1>14, HistoryMoves

LEMMA HistoryNext == IInv /\ HistoryInv /\ [Next]_vars => HistoryInv'
<1> SUFFICES ASSUME IInv, HistoryInv, [Next]_vars PROVE HistoryInv'
  OBVIOUS
<1>1. ASSUME NEW branch \in Branches, Extend(branch) PROVE HistoryInv'
  BY <1>1, HistoryKept DEF Extend
<1>2. ASSUME NEW log \in {Log} \cup Others, NEW branch \in Branches, NEW n \in 0..MaxSize,
             Receive(log, branch, n)
      PROVE  HistoryInv'
  <2> DEFINE sth == HeadOf(log, branch, n)
             result == VerifySignedTreeHead(sth, ClientOptions)
  <2>0. fork' = fork /\ n \in Nat
    BY <1>2, MaxSizeIsNat DEF Receive
  <2>1. CASE UNCHANGED <<accepted, waiting>>
    BY <2>0, <2>1, HistoryKept
  <2>2. CASE result = "valid" /\ Standing(sth.payload) = "first" /\ Accept(sth.payload)
    <3>1. log = Log
      BY <2>2, ValidIsOurs
    <3> QED BY <2>0, <2>2, <3>1, FirstAccepted
  <2>3. CASE /\ result = "valid" /\ Standing(sth.payload) = "larger"
             /\ waiting' = {sth.payload} /\ UNCHANGED accepted
    <3>1. accepted # <<>> /\ Seen.treeSize # 0
      <4>1. accepted # <<>>
        BY <2>3 DEF Standing
      <4>2. sth.payload.treeSize # Seen.treeSize
        BY <2>3, <4>1 DEF Standing
      <4> QED BY <2>3, <4>1, <4>2 DEF Standing
    <3>2. Seen.treeSize >= 1
      BY <3>1, SeenSize
    <3>3. \A b \in Branches : OfHistory(accepted, b) => OfHistory(accepted, b)'
      BY <2>0, <2>3, HistoryStays
    <3> QED BY <2>3, <3>2, <3>3 DEF HistoryInv, Seen
  <2> QED BY <1>2, <2>1, <2>2, <2>3 DEF Receive
<1>3. CASE ReceiveProof
  <2>1. fork' = fork
    BY <1>3 DEF ReceiveProof
  <2>2. CASE waiting' = {} /\ UNCHANGED accepted
    BY <2>1, <2>2, HistoryKept
  <2> QED BY <1>3, <2>1, <2>2, ProvenAccepted DEF ReceiveProof
<1>4. CASE UNCHANGED vars
  BY <1>4, HistoryKept DEF vars
<1> QED BY <1>1, <1>2, <1>3, <1>4 DEF Next

(* Whatever the operator shows and answers, all heads a client has ever    *)
(* accepted are of one and the same history, for any number of histories   *)
(* of any length.                                                          *)
THEOREM AcceptsOneHistory == Spec => []AcceptedHeadsAgree
<1>1. Init => IInv /\ HistoryInv
  BY IInvInit DEF Init, HistoryInv
<1>2. IInv /\ HistoryInv /\ [Next]_vars => (IInv /\ HistoryInv)'
  BY IInvNext, HistoryNext
<1>3. IInv /\ HistoryInv => AcceptedHeadsAgree
  <2> SUFFICES ASSUME IInv, HistoryInv, accepted # <<>>
               PROVE  \E branch \in Branches : \A payload \in Range(accepted) :
                        payload = HeadOf(Log, branch, payload.treeSize).payload
    BY DEF AcceptedHeadsAgree
  <2>1. PICK b \in Branches : OfHistory(accepted, b)
    BY DEF HistoryInv
  <2>2. \A payload \in Range(accepted) : \E i \in 1..Len(accepted) : payload = accepted[i]
    BY DEF IInv, Range
  <2>3. \A payload \in Range(accepted) : payload = HeadOf(Log, b, payload.treeSize).payload
    BY <2>1, <2>2 DEF OfHistory
  <2> QED BY <2>3
<1> QED BY <1>1, <1>2, <1>3, PTL DEF Spec

-----------------------------------------------------------------------------
(* The relying party: it accuses no log of a single history.               *)

(* A head of a tree that a history of the log has really had. *)
OfTheLog(payload) ==
    \E b \in Branches, n \in Nat : n <= size[b] /\ payload = HeadOf(Log, b, n).payload

HonestInv ==
    /\ size \in [Branches -> Nat]
    /\ \A i \in 1..Len(accepted) : OfTheLog(accepted[i])
    /\ \A payload \in waiting : OfTheLog(payload) /\ Seen.treeSize >= 1
    /\ verdict \in Accusations => Forked

(* Histories of a log that is not forked agree as far as both reach. *)
LEMMA OneTrunk ==
    ASSUME NEW b \in Branches, NEW c \in Branches, NEW n \in Nat, ~Forked, fork \in Nat,
           size \in [Branches -> Nat], n <= size[b], n <= size[c]
    PROVE  Leaves(Log, b, n) = Leaves(Log, c, n)
<1>1. CASE b = c
  BY <1>1
<1>2. CASE b # c
  <2>1. ~(size[b] > fork) \/ ~(size[c] > fork)
    BY <1>2 DEF Forked
  <2>2. n <= fork
    BY <2>1
  <2>3. \A i \in 1..n : i <= fork
    BY <2>2
  <2> QED BY <2>3 DEF Leaves
<1> QED BY <1>1, <1>2

LEMMA HonestKept ==
    ASSUME HonestInv, UNCHANGED <<fork, size, accepted>>, waiting' \in {waiting, {}},
           verdict' \in Accusations => verdict' = verdict \/ Forked
    PROVE  HonestInv'
<1>1. \A payload : OfTheLog(payload) => OfTheLog(payload)'
  BY DEF OfTheLog, HeadOf, RootOf, Leaves
<1>2. Forked' <=> Forked
  BY DEF Forked
<1> QED BY <1>1, <1>2 DEF HonestInv, Seen

(* The log grows. *)
LEMMA HonestGrows ==
    ASSUME HonestInv, fork \in Nat, NEW b \in Branches, Extend(b)
    PROVE  HonestInv'
<1>1. size' \in [Branches -> Nat] /\ \A c \in Branches : size[c] <= size'[c]
  BY DEF HonestInv, Extend
<1>2. \A payload : OfTheLog(payload) => OfTheLog(payload)'
  <2> SUFFICES ASSUME NEW payload, OfTheLog(payload) PROVE OfTheLog(payload)'
    OBVIOUS
  <2>1. PICK c \in Branches, n \in Nat : n <= size[c] /\ payload = HeadOf(Log, c, n).payload
    BY DEF OfTheLog
  <2>2. n <= size'[c]
    BY <1>1, <2>1 DEF HonestInv
  <2>3. payload = HeadOf(Log, c, n)'.payload
    BY <2>1 DEF Extend, HeadOf, RootOf, Leaves
  <2> QED BY <2>2, <2>3 DEF OfTheLog
<1>3. Forked => Forked'
  BY <1>1 DEF Forked, Extend, HonestInv
<1> QED BY <1>1, <1>2, <1>3 DEF HonestInv, Seen, Extend

LEMMA HonestAccepts ==
    ASSUME HonestInv, IInv, NEW payload, OfTheLog(payload), UNCHANGED <<fork, size>>,
           Accept(payload)
    PROVE  HonestInv'
<1>1. \A other : OfTheLog(other) => OfTheLog(other)'
  BY DEF OfTheLog, HeadOf, RootOf, Leaves
<1>2. accepted \in Seq(Payloads)
  BY DEF IInv
<1>3. accepted' = Append(accepted, payload) /\ waiting' = {} /\ verdict' = "valid"
  BY DEF Accept
<1>4. ASSUME NEW i \in 1..Len(accepted')
      PROVE  OfTheLog(accepted'[i])
  <2>1. PICK S : accepted \in Seq(S) /\ payload \in S
    <3>1. accepted \in Seq(Payloads \cup {payload})
      BY <1>2
    <3> QED BY <3>1
  <2>2. CASE i <= Len(accepted)
    <3>1. accepted'[i] = accepted[i] /\ i \in 1..Len(accepted)
      BY <1>3, <2>1, <2>2
    <3> QED BY <3>1 DEF HonestInv
  <2>3. CASE i = Len(accepted) + 1
    BY <1>3, <2>1, <2>3
  <2> QED BY <1>3, <2>1, <2>2, <2>3
<1>5. \A i \in 1..Len(accepted') : OfTheLog(accepted[i])'
  BY <1>1, <1>4
<1> QED BY <1>3, <1>5 DEF HonestInv, Accusations

(* A head's own checks never accuse the log. *)
LEMMA ChecksDoNotAccuse ==
    ASSUME NEW sth, NEW opts
    PROVE  VerifySignedTreeHead(sth, opts) \notin Accusations
  BY DEF VerifySignedTreeHead, Accusations

(* Two heads of one size have one root. *)
LEMMA NoSplit ==
    ASSUME HonestInv, IInv, fork \in Nat, NEW c \in Branches, NEW n \in Nat, n <= size[c],
           Standing(HeadOf(Log, c, n).payload) = "split"
    PROVE  Forked
<1> DEFINE p == HeadOf(Log, c, n).payload
<1> SUFFICES ASSUME ~Forked PROVE FALSE
  OBVIOUS
<1>1. p.treeSize = n /\ p.rootHash = RootOf(Log, c, n)
  BY HeadIs
<1>2. accepted # <<>> /\ p.treeSize = Seen.treeSize /\ p.rootHash # Seen.rootHash
  <2>1. accepted # <<>>
    BY DEF Standing
  <2>2. p.treeSize = Seen.treeSize
    BY <2>1 DEF Standing
  <2>3. p.rootHash # Seen.rootHash
    BY <2>1, <2>2 DEF Standing
  <2> QED BY <2>1, <2>2, <2>3
<1>3. Len(accepted) \in 1..Len(accepted)
  BY <1>2 DEF IInv
<1>4. PICK b \in Branches, m \in Nat : m <= size[b] /\ Seen = HeadOf(Log, b, m).payload
  BY <1>3 DEF HonestInv, OfTheLog, Seen
<1>5. Seen.treeSize = m /\ Seen.rootHash = RootOf(Log, b, m)
  BY <1>4, HeadIs
<1>6. m = n
  BY <1>1, <1>2, <1>5
<1>7. RootOf(Log, b, n) = RootOf(Log, c, n)
  BY <1>4, <1>6, OneTrunk DEF HonestInv, RootOf
<1> QED BY <1>1, <1>2, <1>5, <1>6, <1>7

(* The proof an honest log makes is accepted, whichever of its histories   *)
(* made it.                                                                *)
LEMMA NoInconsistency ==
    ASSUME HonestInv, IInv, fork \in Nat, NEW payload \in waiting,
           NEW q \in Paths(Seen.treeSize, payload.treeSize),
           ~VerifyConsistency(Seen.treeSize, payload.treeSize, Seen.rootHash, payload.rootHash, q)
    PROVE  Forked
<1> SUFFICES ASSUME ~Forked PROVE FALSE
  OBVIOUS
<1>1. PICK c \in Branches, n \in Nat : n <= size[c] /\ payload = HeadOf(Log, c, n).payload
  BY DEF HonestInv, OfTheLog
<1>2. payload.treeSize = n /\ payload.rootHash = RootOf(Log, c, n)
  BY <1>1, HeadIs
<1>3. accepted # <<>> /\ Seen.treeSize < n /\ Seen.treeSize >= 1
  BY <1>2 DEF IInv, HonestInv
<1>4. Len(accepted) \in 1..Len(accepted)
  BY <1>3 DEF IInv
<1>5. PICK b \in Branches, m \in Nat : m <= size[b] /\ Seen = HeadOf(Log, b, m).payload
  BY <1>4 DEF HonestInv, OfTheLog, Seen
<1>6. Seen.treeSize = m /\ Seen.rootHash = RootOf(Log, b, m)
  BY <1>5, HeadIs
<1>7. size[b] \in Nat /\ size[c] \in Nat
  BY DEF HonestInv
<1>8. m >= 1 /\ m < n /\ m <= size[c]
  BY <1>1, <1>3, <1>6, <1>7
<1>9. RootOf(Log, b, m) = RootOf(Log, c, m)
  BY <1>5, <1>8, OneTrunk DEF HonestInv, RootOf
<1>10. PICK d \in Branches : size[d] >= n /\ q = ConsistencyPath(m, Leaves(Log, d, n))
  BY <1>2, <1>6 DEF Paths
<1>11. Leaves(Log, d, n) = Leaves(Log, c, n)
  BY <1>1, <1>10, OneTrunk DEF HonestInv
<1>12. IsSequence(q)
  BY <1>2, <1>6, <1>8, AnswersArePaths
<1>13. VerifyConsistency(m, n, RootOf(Log, b, m), RootOf(Log, c, n), q)
  BY <1>8, <1>9, <1>10, <1>11, <1>12, ProofShows
<1> QED BY <1>2, <1>6, <1>13

LEMMA HonestNext == IInv /\ HonestInv /\ fork \in Nat /\ [Next]_vars => HonestInv'
<1> SUFFICES ASSUME IInv, HonestInv, fork \in Nat, [Next]_vars PROVE HonestInv'
  OBVIOUS
<1>1. ASSUME NEW branch \in Branches, Extend(branch) PROVE HonestInv'
  BY <1>1, HonestGrows
<1>2. ASSUME NEW log \in {Log} \cup Others, NEW branch \in Branches, NEW n \in 0..MaxSize,
             Receive(log, branch, n)
      PROVE  HonestInv'
  <2> DEFINE sth == HeadOf(log, branch, n)
             result == VerifySignedTreeHead(sth, ClientOptions)
  <2>0. /\ UNCHANGED <<fork, size>> /\ n <= size[branch] /\ n \in Nat
        /\ verdict \notin Accusations
    BY <1>2, MaxSizeIsNat DEF Receive
  <2>1. CASE result # "valid" /\ verdict' = result /\ UNCHANGED <<accepted, waiting>>
    BY <2>0, <2>1, HonestKept, ChecksDoNotAccuse
  <2>2. ASSUME result = "valid"
        PROVE  log = Log /\ OfTheLog(sth.payload)
    BY <2>0, <2>2, ValidIsOurs DEF OfTheLog
  <2>3. CASE result = "valid" /\ Standing(sth.payload) = "first" /\ Accept(sth.payload)
    BY <2>0, <2>2, <2>3, HonestAccepts
  <2>4. CASE /\ result = "valid" /\ Standing(sth.payload) \in {"known", "split"}
             /\ verdict' = Standing(sth.payload) /\ UNCHANGED <<accepted, waiting>>
    <3>1. Standing(sth.payload) = "split" => Forked
      BY <2>0, <2>2, <2>4, NoSplit
    <3>2. verdict' \in Accusations => Forked
      BY <2>4, <3>1 DEF Accusations
    <3> QED BY <2>0, <2>4, <3>2, HonestKept
  <2>5. CASE /\ result = "valid" /\ Standing(sth.payload) = "larger"
             /\ waiting' = {sth.payload} /\ verdict' = "valid" /\ UNCHANGED accepted
    <3>1. accepted # <<>> /\ Seen.treeSize # 0
      <4>1. accepted # <<>>
        BY <2>5 DEF Standing
      <4>2. sth.payload.treeSize # Seen.treeSize
        BY <2>5, <4>1 DEF Standing
      <4> QED BY <2>5, <4>1, <4>2 DEF Standing
    <3>2. Seen.treeSize >= 1
      BY <3>1, SeenSize
    <3>3. \A payload : OfTheLog(payload) => OfTheLog(payload)'
      BY <2>0 DEF OfTheLog, HeadOf, RootOf, Leaves
    <3>4. OfTheLog(sth.payload)
      BY <2>2, <2>5
    <3>5. \A payload \in waiting' : OfTheLog(payload)' /\ Seen'.treeSize >= 1
      BY <2>5, <3>2, <3>3, <3>4 DEF Seen
    <3> QED BY <2>0, <2>5, <3>3, <3>5 DEF HonestInv, Accusations
  <2> QED BY <1>2, <2>1, <2>3, <2>4, <2>5 DEF Receive
<1>3. CASE ReceiveProof
  <2>1. UNCHANGED <<fork, size>>
    BY <1>3 DEF ReceiveProof
  <2>2. CASE \E payload \in waiting : Accept(payload)
    BY <2>1, <2>2, HonestAccepts DEF HonestInv
  <2>3. CASE /\ waiting' = {} /\ UNCHANGED accepted
             /\ \E payload \in waiting : \E q \in Paths(Seen.treeSize, payload.treeSize) :
                  ~VerifyConsistency(Seen.treeSize, payload.treeSize, Seen.rootHash,
                                     payload.rootHash, q)
    <3>1. Forked
      BY <2>3, NoInconsistency
    <3> QED BY <2>1, <2>3, <3>1, HonestKept
  <2> QED BY <1>3, <2>2, <2>3 DEF ReceiveProof
<1>4. CASE UNCHANGED vars
  BY <1>4, HonestKept DEF vars
<1> QED BY <1>1, <1>2, <1>3, <1>4 DEF Next

(* A log that has kept a single history is never accused, however late,    *)
(* repeated or out of order its heads arrive and whenever its proofs are   *)
(* made: every head of it is of the tree it says it is, and every proof    *)
(* of it verifies.                                                         *)
THEOREM HonestLogIsNotAccused == Spec => []HonestLogNeverAccused
<1> DEFINE Inv == IInv /\ HonestInv /\ fork \in Nat
<1>1. Init => Inv
  BY IInvInit, MaxSizeIsNat DEF Init, HonestInv, Accusations
<1>2. Inv /\ [Next]_vars => Inv'
  <2>1. [Next]_vars => fork' = fork
    BY DEF Next, Extend, Receive, ReceiveProof, vars
  <2> QED BY <2>1, IInvNext, HonestNext
<1>3. Inv => HonestLogNeverAccused
  BY DEF HonestInv, HonestLogNeverAccused
<1> QED BY <1>1, <1>2, <1>3, PTL DEF Spec
=============================================================================
