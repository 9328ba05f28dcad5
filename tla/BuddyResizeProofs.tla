------------------------- MODULE BuddyResizeProofs -------------------------
(***************************************************************************)
(* buddy_resize() and the queries, proved for arenas of every size and for *)
(* every sequence of calls: the bitset always stands for the statuses that *)
(* the blocks and the missing slots call for, so the bits tell the blocks, *)
(* blocks survive a resize, and the queries tell the truth.                *)
(*                                                                         *)
(* The argument goes upwards.  A bitset holds the statuses S when every    *)
(* field is a run of S[p] ones (Holds); the statuses are sound for a set   *)
(* of marked positions when every status follows from its children or from *)
(* a mark (Sound).  Each operation on bits is then one on marks: a mark, a *)
(* release, the mask of the missing slots, a tree that grows.  TreeInv     *)
(* says that the marks are the blocks and the missing slots.               *)
(*                                                                         *)
(* The theorems are about resizes that keep the order of the tree or raise *)
(* it and do not give back the last slot alone of an arena of a power of   *)
(* two (KeepsOrder).  They do not hold for the others: a tree that shrinks *)
(* by an order loses blocks, as a run shows, and buddy_is_free() does not  *)
(* test that last slot.                                                    *)
(***************************************************************************)
EXTENDS BuddyResize, TLAPS, FiniteSetTheorems, NaturalsInduction, WellFoundedInduction,
        SequenceTheorems

-----------------------------------------------------------------------------
(* Naturals: least elements, induction and recursion *)

\* A set of naturals that is not empty has a least element.
LEMMA LeastNatural ==
    ASSUME NEW S \in SUBSET Nat, S # {}
    PROVE  \E m \in S : \A x \in S : m <= x
<1> DEFINE Less == {ss \in Nat \X Nat : ss[1] < ss[2]}
<1>1. IsWellFoundedOn(Less, Nat)
  BY NatLessThanWellFounded, Zenon DEF OpToRel
<1>2. PICK m \in S : \A x \in S : ~(<<x, m>> \in Less)
  <2> HIDE DEF Less
  <2> QED
    BY <1>1, WFMin
<1>3. ASSUME NEW x \in S PROVE m <= x
  <2>1. <<x, m>> \in Nat \X Nat /\ <<x, m>>[1] = x /\ <<x, m>>[2] = m
    OBVIOUS
  <2>2. ~(x < m)
    BY <1>2, <2>1, Zenon
  <2> QED
    BY <2>2
<1> QED
  BY <1>3

\* Induction: what holds of 0 and passes on to the next number holds of all.
LEMMA EveryNatural ==
    ASSUME NEW G, 0 \in G, \A k \in Nat : k \in G => k + 1 \in G
    PROVE  \A k \in Nat : k \in G
<1> DEFINE S == {k \in Nat : k \notin G}
<1>1. ASSUME S # {} PROVE FALSE
  <2>1. PICK m \in S : \A x \in S : m <= x
    BY <1>1, LeastNatural
  <2>2. m # 0 /\ m \in Nat /\ m \notin G
    BY <2>1
  <2>3. m - 1 \in Nat /\ m - 1 \notin S /\ (m - 1) + 1 = m
    BY <2>1, <2>2
  <2> QED
    BY <2>2, <2>3
<1> QED
  BY <1>1

\* A step that stays within a set can be repeated.
Repeats(S, a, step, f) ==
    /\ f \in [Nat -> S] /\ f[0] = a
    /\ \A k \in Nat : f[k + 1] = step[<<k + 1, f[k]>>]

\* A step that stays in S can be repeated from a for ever: the loops of the code are
\* such repetitions.
LEMMA Repeat ==
    ASSUME NEW S, NEW a \in S, NEW step \in [Nat \X S -> S]
    PROVE  \E f : Repeats(S, a, step, f)
<1> DEFINE Good(n, f) == /\ f \in [Nat -> S] /\ f[0] = a
                         /\ \A k \in Nat : k < n => f[k + 1] = step[<<k + 1, f[k]>>]
           G == {n \in Nat : \E f : Good(n, f)}
<1>1. \A n \in Nat : n \in G
  <2>1. 0 \in G
    <3>1. Good(0, [k \in Nat |-> a])
      OBVIOUS
    <3> QED
      BY <3>1
  <2>2. ASSUME NEW n \in Nat, n \in G PROVE n + 1 \in G
    <3>1. PICK f : Good(n, f)
      BY <2>2
    <3> DEFINE g == [k \in Nat |-> IF k = n + 1 THEN step[<<n + 1, f[n]>>] ELSE f[k]]
    <3>2. f \in [Nat -> S] /\ <<n + 1, f[n]>> \in Nat \X S
      BY <3>1
    <3>3. step[<<n + 1, f[n]>>] \in S
      BY <3>2
    <3>4. g \in [Nat -> S]
      BY <3>2, <3>3
    <3>5. g[0] = a
      BY <3>1
    <3>6. ASSUME NEW k \in Nat, k < n + 1 PROVE g[k + 1] = step[<<k + 1, g[k]>>]
      <4>1. g[k] = f[k]
        BY <3>6
      <4>2. k < n => g[k + 1] = f[k + 1]
        BY <3>6
      <4>3. k = n => g[k + 1] = step[<<n + 1, f[n]>>]
        BY <3>6
      <4> QED
        BY <3>1, <3>6, <4>1, <4>2, <4>3
    <3>7. Good(n + 1, g)
      BY <3>4, <3>5, <3>6
    <3>8. n + 1 \in Nat
      OBVIOUS
    <3> HIDE DEF g, Good
    <3> QED
      BY <3>7, <3>8
  <2> HIDE DEF G
  <2> QED
    BY <2>1, <2>2, EveryNatural
<1> DEFINE at(n) == CHOOSE f : Good(n, f)
           h == [n \in Nat |-> at(n)[n]]
<1>2. \A n \in Nat : Good(n, at(n))
  BY <1>1
<1>3. ASSUME NEW n \in Nat, NEW f, NEW g, Good(n, f), Good(n, g)
      PROVE  \A k \in Nat : k <= n => f[k] = g[k]
  <2> DEFINE H == {k \in Nat : k <= n => f[k] = g[k]}
  <2>1. 0 \in H
    BY <1>3
  <2>2. ASSUME NEW k \in Nat, k \in H PROVE k + 1 \in H
    <3>1. ASSUME k + 1 <= n PROVE f[k + 1] = g[k + 1]
      <4>1. k < n /\ k <= n
        BY <3>1
      <4>2. f[k] = g[k]
        BY <2>2, <4>1
      <4>3. f[k + 1] = step[<<k + 1, f[k]>>] /\ g[k + 1] = step[<<k + 1, g[k]>>]
        BY <1>3, <4>1
      <4> QED
        BY <4>2, <4>3
    <3>2. k + 1 \in Nat
      OBVIOUS
    <3> QED
      BY <3>1, <3>2
  <2>3. \A k \in Nat : k \in H
    <3> HIDE DEF H
    <3> QED
      BY <2>1, <2>2, EveryNatural
  <2> QED
    BY <2>3
<1> HIDE DEF at
<1>4. h \in [Nat -> S]
  BY <1>2
<1>5. h[0] = a
  BY <1>2
<1>6. ASSUME NEW k \in Nat PROVE h[k + 1] = step[<<k + 1, h[k]>>]
  <2>1. Good(k + 1, at(k + 1)) /\ Good(k, at(k)) /\ k + 1 \in Nat
    BY <1>2
  <2>2. Good(k, at(k + 1))
    BY <2>1
  <2>3. at(k + 1)[k] = at(k)[k]
    BY <1>3, <2>1, <2>2
  <2>4. at(k + 1)[k + 1] = step[<<k + 1, at(k + 1)[k]>>]
    BY <2>1
  <2> QED
    BY <2>3, <2>4
<1>7. Repeats(S, a, step, h)
  BY <1>4, <1>5, <1>6 DEF Repeats
<1> QED
  BY <1>7

-----------------------------------------------------------------------------
(* Powers of two *)

\* two_to_the_power_of() doubles from one exponent to the next.
LEMMA Powers ==
    /\ \A k \in Nat : TwoTo[k] \in Nat
    /\ TwoTo[0] = 1
    /\ \A k \in Nat : TwoTo[k + 1] = 2 * TwoTo[k]
<1> DEFINE step == [x \in Nat \X Nat |-> 2 * x[2]]
<1>1. step \in [Nat \X Nat -> Nat]
  OBVIOUS
<1>2. PICK f : Repeats(Nat, 1, step, f)
  <2> HIDE DEF step
  <2> QED
    BY <1>1, Repeat
<1>3. \A k \in Nat : f[k + 1] = 2 * f[k]
  <2>1. ASSUME NEW k \in Nat PROVE f[k + 1] = 2 * f[k]
    <3>1. <<k + 1, f[k]>> \in Nat \X Nat /\ f[k + 1] = step[<<k + 1, f[k]>>]
      BY <1>2 DEF Repeats
    <3> QED
      BY <3>1
  <2> QED
    BY <2>1
<1>4. ASSUME NEW k \in Nat PROVE f[k] = IF k = 0 THEN 1 ELSE 2 * f[k - 1]
  <2>1. k # 0 => k - 1 \in Nat /\ (k - 1) + 1 = k
    OBVIOUS
  <2> QED
    BY <1>2, <1>3, <2>1 DEF Repeats
<1>5. f = [k \in Nat |-> IF k = 0 THEN 1 ELSE 2 * f[k - 1]]
  BY <1>2, <1>4 DEF Repeats
<1>6. TwoTo = [k \in Nat |-> IF k = 0 THEN 1 ELSE 2 * TwoTo[k - 1]]
  BY <1>5 DEF TwoTo
<1>7. TwoTo[0] = 1
  BY <1>6
<1>8. ASSUME NEW k \in Nat PROVE TwoTo[k + 1] = 2 * TwoTo[k]
  <2>1. k + 1 \in Nat /\ k + 1 # 0 /\ (k + 1) - 1 = k
    OBVIOUS
  <2> QED
    BY <1>6, <2>1
<1>9. \A k \in Nat : TwoTo[k] \in Nat
  <2> DEFINE G == {k \in Nat : TwoTo[k] \in Nat}
  <2>1. 0 \in G /\ \A k \in Nat : k \in G => k + 1 \in G
    BY <1>7, <1>8
  <2> HIDE DEF G
  <2>2. \A k \in Nat : k \in G
    BY <2>1, EveryNatural
  <2> QED
    BY <2>2 DEF G
<1> QED
  BY <1>7, <1>8, <1>9

\* They grow, and past their exponents.
LEMMA PowersGrow ==
    /\ \A k \in Nat : TwoTo[k] \in Nat /\ TwoTo[k] >= 1 /\ k < TwoTo[k]
    /\ \A a, b \in Nat : a <= b => TwoTo[a] <= TwoTo[b]
    /\ \A a, b \in Nat : a < b => 2 * TwoTo[a] <= TwoTo[b]
<1>1. \A k \in Nat : TwoTo[k] \in Nat /\ TwoTo[k] >= 1 /\ k < TwoTo[k]
  <2> DEFINE G == {k \in Nat : TwoTo[k] >= 1 /\ k < TwoTo[k]}
  <2>1. 0 \in G
    BY Powers
  <2>2. ASSUME NEW k \in Nat, k \in G PROVE k + 1 \in G
    <3>1. TwoTo[k + 1] = 2 * TwoTo[k] /\ TwoTo[k] \in Nat /\ TwoTo[k] >= 1 /\ k < TwoTo[k]
      BY <2>2, Powers
    <3> QED
      BY <3>1
  <2> HIDE DEF G
  <2>3. \A k \in Nat : k \in G
    BY <2>1, <2>2, EveryNatural
  <2> QED
    BY <2>3, Powers DEF G
<1>2. ASSUME NEW a \in Nat
      PROVE  \A j \in Nat : TwoTo[a] <= TwoTo[a + j]
  <2> DEFINE G == {j \in Nat : TwoTo[a] <= TwoTo[a + j]}
  <2>1. 0 \in G
    BY Powers
  <2>2. ASSUME NEW j \in Nat, j \in G PROVE j + 1 \in G
    <3>1. /\ a + j \in Nat /\ (a + j) + 1 = a + (j + 1) /\ TwoTo[a] \in Nat
          /\ TwoTo[a + j] \in Nat /\ TwoTo[(a + j) + 1] = 2 * TwoTo[a + j]
      BY Powers
    <3> QED
      BY <2>2, <3>1
  <2> HIDE DEF G
  <2>3. \A j \in Nat : j \in G
    BY <2>1, <2>2, EveryNatural
  <2> QED
    BY <2>3 DEF G
<1>3. ASSUME NEW a \in Nat, NEW b \in Nat, a <= b PROVE TwoTo[a] <= TwoTo[b]
  <2>1. b - a \in Nat /\ a + (b - a) = b
    BY <1>3
  <2> QED
    BY <1>2, <2>1
<1>4. ASSUME NEW a \in Nat, NEW b \in Nat, a < b PROVE 2 * TwoTo[a] <= TwoTo[b]
  <2>1. a + 1 \in Nat /\ a + 1 <= b /\ TwoTo[a + 1] = 2 * TwoTo[a]
    BY <1>4, Powers
  <2> QED
    BY <1>3, <2>1
<1> QED
  BY <1>1, <1>3, <1>4

\* Products of powers, and what a shift to the right does to one.
LEMMA PowerSum ==
    ASSUME NEW a \in Nat, NEW b \in Nat
    PROVE  TwoTo[a + b] = TwoTo[a] * TwoTo[b]
<1> DEFINE G == {j \in Nat : TwoTo[a + j] = TwoTo[a] * TwoTo[j]}
<1>1. 0 \in G
  BY Powers
<1>2. ASSUME NEW j \in Nat, j \in G PROVE j + 1 \in G
  <2>1. PICK x \in Nat, y \in Nat : x = TwoTo[a] /\ y = TwoTo[j]
    BY Powers
  <2>2. /\ a + j \in Nat /\ (a + j) + 1 = a + (j + 1)
        /\ TwoTo[(a + j) + 1] = 2 * TwoTo[a + j] /\ TwoTo[j + 1] = 2 * y
        /\ TwoTo[a + j] = x * y
    BY <1>2, <2>1, Powers
  <2>3. 2 * (x * y) = x * (2 * y)
    OBVIOUS
  <2> QED
    BY <2>1, <2>2, <2>3
<1> HIDE DEF G
<1>3. \A j \in Nat : j \in G
  BY <1>1, <1>2, EveryNatural
<1> QED
  BY <1>3 DEF G

\* A product divided by a factor.
LEMMA DivideProduct ==
    ASSUME NEW x \in Nat, NEW y \in Nat, y >= 1
    PROVE  (x * y) \div y = x
OBVIOUS

\* A power divided by a smaller one: size_for_depth() divides in this way.
LEMMA PowerShift ==
    ASSUME NEW a \in Nat, NEW b \in Nat, b <= a
    PROVE  TwoTo[a] \div TwoTo[b] = TwoTo[a - b]
<1>1. a - b \in Nat /\ (a - b) + b = a
  OBVIOUS
<1>2. TwoTo[a] = TwoTo[a - b] * TwoTo[b]
  BY <1>1, PowerSum
<1> QED
  BY <1>1, <1>2, DivideProduct, PowersGrow

-----------------------------------------------------------------------------
(* The shape of the tree *)

\* A position lies in the row of its depth.
LEMMA DepthFacts ==
    ASSUME NEW p \in Nat, p >= 1
    PROVE  /\ Depth(p) \in Nat /\ Depth(p) >= 1
           /\ TwoTo[Depth(p) - 1] <= p /\ p < TwoTo[Depth(p)]
<1> DEFINE S == {k \in Nat : p < TwoTo[k]}
<1>1. PICK d \in S : \A x \in S : d <= x
  <2>1. S # {} /\ S \in SUBSET Nat
    BY PowersGrow
  <2> QED
    BY <2>1, LeastNatural
<1>2. d \in Nat /\ d # 0 /\ p < TwoTo[d]
  BY <1>1, Powers
<1>3. d - 1 \in Nat /\ d - 1 \notin S
  BY <1>1, <1>2
<1>4. TwoTo[d - 1] <= p /\ d - 1 < TwoTo[d - 1] /\ TwoTo[d - 1] \in Nat
  BY <1>3, PowersGrow
<1>5. d \in 1 .. p
  BY <1>2, <1>3, <1>4
<1> QED
  BY <1>2, <1>4, <1>5 DEF Depth

\* The row of a position determines its depth.
LEMMA DepthIs ==
    ASSUME NEW p \in Nat, p >= 1, NEW d \in Nat, d >= 1, TwoTo[d - 1] <= p, p < TwoTo[d]
    PROVE  Depth(p) = d
<1>1. PICK e \in Nat : e = Depth(p)
  BY DepthFacts
<1>2. e >= 1 /\ TwoTo[e - 1] <= p /\ p < TwoTo[e]
  BY <1>1, DepthFacts
<1>3. /\ e - 1 \in Nat /\ d - 1 \in Nat /\ TwoTo[e] \in Nat /\ TwoTo[d] \in Nat
      /\ TwoTo[e - 1] \in Nat /\ TwoTo[d - 1] \in Nat
  BY <1>2, PowersGrow
<1>4. ~(e < d)
  <2>1. e < d => e <= d - 1
    BY <1>2
  <2> QED
    BY <1>2, <1>3, <2>1, PowersGrow
<1>5. ~(d < e)
  <2>1. d < e => d <= e - 1
    BY <1>2
  <2> QED
    BY <1>2, <1>3, <2>1, PowersGrow
<1> QED
  BY <1>1, <1>4, <1>5

\* Children are one row deeper.
LEMMA ChildDepth ==
    ASSUME NEW p \in Nat, p >= 1
    PROVE  Depth(2 * p) = Depth(p) + 1 /\ Depth(2 * p + 1) = Depth(p) + 1
<1>1. PICK d \in Nat : d = Depth(p) /\ d >= 1 /\ TwoTo[d - 1] <= p /\ p < TwoTo[d]
  BY DepthFacts
<1>2. /\ d - 1 \in Nat /\ (d - 1) + 1 = d /\ d + 1 \in Nat /\ (d + 1) - 1 = d
      /\ TwoTo[d + 1] = 2 * TwoTo[d]
      /\ TwoTo[d] = 2 * TwoTo[d - 1] /\ TwoTo[d - 1] \in Nat
  BY <1>1, Powers
<1>3. /\ TwoTo[(d + 1) - 1] <= 2 * p /\ 2 * p + 1 < TwoTo[d + 1] /\ d + 1 >= 1
      /\ 2 * p \in Nat /\ 2 * p + 1 \in Nat /\ 2 * p >= 1 /\ 2 * p + 1 >= 1
      /\ TwoTo[(d + 1) - 1] <= 2 * p + 1 /\ 2 * p < TwoTo[d + 1]
  BY <1>1, <1>2
<1>4. Depth(2 * p) = d + 1
  BY <1>2, <1>3, DepthIs
<1>5. Depth(2 * p + 1) = d + 1
  BY <1>2, <1>3, DepthIs
<1> QED
  BY <1>1, <1>4, <1>5

\* The root is the row of depth 1.
LEMMA RootIs == Depth(1) = 1
<1>1. TwoTo[1 - 1] = 1 /\ TwoTo[1] = 2
  <2>1. TwoTo[0 + 1] = 2 * TwoTo[0]
    BY Powers
  <2> QED
    BY <2>1, Powers
<1> QED
  BY <1>1, DepthIs

\* The orders of trees.
Orders == {o \in Nat : o >= 1}

\* Half of a tree of order o is a tree of order o - 1; there is a root.
LEMMA Halving ==
    ASSUME NEW o \in Orders
    PROVE  /\ o \in Nat /\ o >= 1 /\ o - 1 \in Nat /\ (o - 1) + 1 = o
           /\ TwoTo[o] = 2 * TwoTo[o - 1] /\ TwoTo[o - 1] \in Nat /\ TwoTo[o - 1] >= 1
           /\ 1 \in Positions(o)
<1>1. o \in Nat /\ o >= 1 /\ o - 1 \in Nat /\ (o - 1) + 1 = o
  BY DEF Orders
<1>2. TwoTo[o] = 2 * TwoTo[o - 1] /\ TwoTo[o - 1] \in Nat /\ TwoTo[o - 1] >= 1
  BY <1>1, Powers, PowersGrow
<1> QED
  BY <1>1, <1>2 DEF Positions

\* The family relations of positions.
LEMMA Family ==
    ASSUME NEW o \in Orders, NEW p \in Positions(o)
    PROVE  /\ p \in Nat /\ p >= 1 /\ p < 2 * TwoTo[o - 1]
           /\ Depth(p) \in Nat /\ Depth(p) >= 1 /\ Depth(p) <= o
           /\ LocalOffset(o, p) = o - Depth(p) + 1
           /\ LocalOffset(o, p) \in Nat /\ LocalOffset(o, p) >= 1
           /\ p >= TwoTo[o - 1] <=> Depth(p) = o
           /\ TwoTo[Depth(p) - 1] <= p /\ p < TwoTo[Depth(p)]
<1>1. p \in Nat /\ p >= 1 /\ p < 2 * TwoTo[o - 1] /\ p < TwoTo[o]
  BY Halving DEF Positions
<1>2. PICK d \in Nat : d = Depth(p) /\ d >= 1 /\ TwoTo[d - 1] <= p /\ p < TwoTo[d]
  BY <1>1, DepthFacts
<1>3. /\ d - 1 \in Nat /\ TwoTo[d - 1] \in Nat /\ TwoTo[d] \in Nat /\ TwoTo[o] \in Nat
      /\ TwoTo[o - 1] \in Nat /\ o \in Nat /\ o - 1 \in Nat
  BY <1>2, Halving, PowersGrow
<1>4. ~(o < d)
  <2>1. o < d => o <= d - 1
    BY <1>3
  <2> QED
    BY <1>1, <1>2, <1>3, <2>1, PowersGrow
<1>5. d < o => p < TwoTo[o - 1]
  <2>1. d < o => d <= o - 1
    BY <1>3
  <2>2. d < o => TwoTo[d] <= TwoTo[o - 1]
    BY <1>3, <2>1, PowersGrow
  <2> QED
    BY <1>1, <1>2, <1>3, <2>2
<1> QED
  BY <1>1, <1>2, <1>3, <1>4, <1>5 DEF LocalOffset

\* A position above the last row has its two children in the tree.
LEMMA ChildrenOf ==
    ASSUME NEW o \in Orders, NEW p \in Positions(o), p < TwoTo[o - 1]
    PROVE  /\ 2 * p \in Positions(o) /\ 2 * p + 1 \in Positions(o)
           /\ (2 * p) \div 2 = p /\ (2 * p + 1) \div 2 = p
           /\ Depth(p) < o
           /\ Depth(2 * p) = Depth(p) + 1 /\ Depth(2 * p + 1) = Depth(p) + 1
           /\ LocalOffset(o, 2 * p) = LocalOffset(o, p) - 1
           /\ LocalOffset(o, 2 * p + 1) = LocalOffset(o, p) - 1
<1>1. p \in Nat /\ p >= 1 /\ Depth(p) \in Nat /\ Depth(p) < o /\ o \in Nat
  <2>1. p \in Nat /\ p >= 1 /\ Depth(p) \in Nat /\ Depth(p) <= o /\ o \in Nat
    BY Family, Halving
  <2>2. Depth(p) # o
    BY <2>1, Family, Halving
  <2> QED
    BY <2>1, <2>2
<1>2. 2 * p \in Positions(o) /\ 2 * p + 1 \in Positions(o)
  BY <1>1, Halving DEF Positions
<1>3. Depth(2 * p) = Depth(p) + 1 /\ Depth(2 * p + 1) = Depth(p) + 1
  BY <1>1, ChildDepth
<1>4. (2 * p) \div 2 = p /\ (2 * p + 1) \div 2 = p
  BY <1>1
<1> QED
  BY <1>1, <1>2, <1>3, <1>4 DEF LocalOffset

\* A position other than the root is a child of its parent.
LEMMA ParentOf ==
    ASSUME NEW o \in Orders, NEW p \in Positions(o), p # 1
    PROVE  /\ p \div 2 \in Positions(o) /\ p \div 2 < TwoTo[o - 1] /\ p \div 2 < p
           /\ p = 2 * (p \div 2) \/ p = 2 * (p \div 2) + 1
           /\ p % 2 = 0 <=> p = 2 * (p \div 2)
           /\ p % 2 = 1 <=> p = 2 * (p \div 2) + 1
           /\ Depth(p) = Depth(p \div 2) + 1
           /\ LocalOffset(o, p \div 2) = LocalOffset(o, p) + 1
<1>1. p \in Nat /\ p >= 1 /\ p < 2 * TwoTo[o - 1]
  BY Family
<1>2. PICK q \in Nat : q = p \div 2
  BY <1>1
<1>3. /\ q >= 1 /\ q < p
      /\ p = 2 * q \/ p = 2 * q + 1
      /\ p % 2 = 0 <=> p = 2 * q
      /\ p % 2 = 1 <=> p = 2 * q + 1
  BY <1>1, <1>2
<1>4. q \in Positions(o) /\ q < TwoTo[o - 1]
  BY <1>1, <1>3, Halving DEF Positions
<1>5. /\ Depth(2 * q) = Depth(q) + 1 /\ Depth(2 * q + 1) = Depth(q) + 1
      /\ LocalOffset(o, 2 * q) = LocalOffset(o, q) - 1
      /\ LocalOffset(o, 2 * q + 1) = LocalOffset(o, q) - 1
      /\ LocalOffset(o, q) \in Nat
  BY <1>4, ChildrenOf, Family
<1> QED
  BY <1>2, <1>3, <1>4, <1>5

-----------------------------------------------------------------------------
(* The leaves below a position *)

\* The number of leaves below p, and the first of them.
Width(o, p) == TwoTo[o - Depth(p)]
Low(o, p) == p * Width(o, p)

\* buddy_tree_interval() gives a range that is not empty; a leaf has itself.
LEMMA IntervalIs ==
    ASSUME NEW o \in Orders, NEW p \in Positions(o)
    PROVE  /\ Width(o, p) \in Nat /\ Width(o, p) >= 1 /\ Low(o, p) \in Nat
           /\ Interval(o, p) = Low(o, p) .. (Low(o, p) + Width(o, p) - 1)
           /\ p >= TwoTo[o - 1] => Width(o, p) = 1 /\ Low(o, p) = p
           /\ Low(o, p) \in Interval(o, p)
<1>1. p \in Nat /\ o - Depth(p) \in Nat /\ (p >= TwoTo[o - 1] => o - Depth(p) = 0)
  BY Family, Halving
<1>2. PICK w \in Nat : w = TwoTo[o - Depth(p)] /\ w >= 1
  BY <1>1, PowersGrow
<1>3. p * w \in Nat /\ (p + 1) * w - 1 = p * w + w - 1
  BY <1>1, <1>2
<1>4. p >= TwoTo[o - 1] => w = 1 /\ p * w = p
  BY <1>1, <1>2, Powers
<1> QED
  BY <1>2, <1>3, <1>4 DEF Interval, Width, Low

\* Products with the numbers of children.
LEMMA TwiceProduct ==
    ASSUME NEW p \in Nat, NEW w \in Nat
    PROVE  /\ p * (2 * w) \in Nat /\ (2 * p) * w = p * (2 * w)
           /\ (2 * p + 1) * w = p * (2 * w) + w
OBVIOUS

\* The children split the leaves of their parent.
LEMMA Halves ==
    ASSUME NEW o \in Orders, NEW p \in Positions(o), p < TwoTo[o - 1]
    PROVE  /\ Width(o, p) = 2 * Width(o, 2 * p) /\ Width(o, p) = 2 * Width(o, 2 * p + 1)
           /\ Low(o, 2 * p) = Low(o, p) /\ Low(o, 2 * p + 1) = Low(o, p) + Width(o, 2 * p)
           /\ Interval(o, 2 * p) \cup Interval(o, 2 * p + 1) = Interval(o, p)
           /\ Interval(o, 2 * p) \cap Interval(o, 2 * p + 1) = {}
<1>1. /\ 2 * p \in Positions(o) /\ 2 * p + 1 \in Positions(o) /\ p \in Nat
      /\ Depth(p) < o /\ Depth(p) \in Nat /\ o \in Nat
      /\ Depth(2 * p) = Depth(p) + 1 /\ Depth(2 * p + 1) = Depth(p) + 1
  BY ChildrenOf, Family, Halving
<1>2. /\ o - (Depth(p) + 1) \in Nat /\ (o - (Depth(p) + 1)) + 1 = o - Depth(p)
  BY <1>1
<1>3. PICK w \in Nat : w = TwoTo[o - (Depth(p) + 1)] /\ TwoTo[o - Depth(p)] = 2 * w
  BY <1>2, Powers
<1>4. /\ Width(o, 2 * p) = w /\ Width(o, 2 * p + 1) = w /\ Width(o, p) = 2 * w
  BY <1>1, <1>3 DEF Width
<1>5. /\ p * (2 * w) \in Nat /\ (2 * p) * w = p * (2 * w)
      /\ (2 * p + 1) * w = p * (2 * w) + w
  BY <1>1, TwiceProduct
<1>6. PICK l \in Nat : /\ Low(o, p) = l /\ Low(o, 2 * p) = l /\ Low(o, 2 * p + 1) = l + w
  BY <1>4, <1>5 DEF Low
<1>7. /\ Interval(o, p) = l .. (l + 2 * w - 1)
      /\ Interval(o, 2 * p) = l .. (l + w - 1)
      /\ Interval(o, 2 * p + 1) = (l + w) .. (l + w + w - 1)
  BY <1>1, <1>4, <1>6, IntervalIs
<1> QED
  BY <1>4, <1>6, <1>7

\* The root has all leaves.
LEMMA RootInterval ==
    ASSUME NEW o \in Orders
    PROVE  /\ Interval(o, 1) = TwoTo[o - 1] .. (2 * TwoTo[o - 1] - 1)
           /\ Low(o, 1) = TwoTo[o - 1] /\ Width(o, 1) = TwoTo[o - 1]
<1>1. Width(o, 1) = TwoTo[o - 1]
  BY RootIs DEF Width
<1> QED
  BY <1>1, IntervalIs, Halving DEF Low

\* A position's leaves are among its parent's, which has twice as many.
LEMMA InParent ==
    ASSUME NEW o \in Orders, NEW p \in Positions(o), p # 1
    PROVE  /\ Interval(o, p) \subseteq Interval(o, p \div 2)
           /\ Width(o, p \div 2) = 2 * Width(o, p)
           /\ Low(o, p \div 2) <= Low(o, p)
<1>1. /\ p \div 2 \in Positions(o) /\ p \div 2 < TwoTo[o - 1]
      /\ p = 2 * (p \div 2) \/ p = 2 * (p \div 2) + 1
  BY ParentOf
<1>2. PICK q \in Positions(o) : q = p \div 2
  BY <1>1
<1>3. Low(o, q) \in Nat /\ Width(o, 2 * q) \in Nat
  BY <1>1, <1>2, IntervalIs, ChildrenOf
<1> QED
  BY <1>1, <1>2, <1>3, Halves

\* Position q is strictly below position p.
Under(o, q, p) == Depth(p) < Depth(q) /\ Interval(o, q) \subseteq Interval(o, p)

\* Induction down the tree and up: a set of positions has a first and a last.
LEMMA FirstPosition ==
    ASSUME NEW o \in Orders, NEW S, S \subseteq Positions(o), S # {}
    PROVE  /\ \E m \in S : \A x \in S : m <= x
           /\ \E m \in S : \A x \in S : x <= m
<1>1. S \in SUBSET Nat /\ \A x \in S : x <= TwoTo[o]
  BY Family, Halving DEF Positions
<1>2. \E m \in S : \A x \in S : m <= x
  BY <1>1, LeastNatural
<1>3. PICK n \in Nat : n = TwoTo[o]
  BY Halving
<1> DEFINE T == {n - x : x \in S}
<1>4. T \in SUBSET Nat /\ T # {}
  <2>1. \A x \in S : n - x \in Nat
    BY <1>1, <1>3
  <2> QED
    BY <2>1
<1>5. PICK k \in T : \A y \in T : k <= y
  BY <1>4, LeastNatural
<1>6. PICK m \in S : k = n - m
  BY <1>5
<1>7. ASSUME NEW x \in S PROVE x <= m
  <2>1. n - x \in T
    OBVIOUS
  <2>2. k <= n - x
    BY <1>5, <2>1
  <2> QED
    BY <1>1, <1>3, <1>6, <2>2
<1> QED
  BY <1>2, <1>7

\* Only the root has its depth.
LEMMA RootDepth ==
    ASSUME NEW o \in Orders, NEW q \in Positions(o)
    PROVE  Depth(q) = 1 <=> q = 1
<1>1. q # 1 => Depth(q) = Depth(q \div 2) + 1 /\ Depth(q \div 2) >= 1
               /\ Depth(q \div 2) \in Nat
  BY ParentOf, InParent, IntervalIs, Family
<1> QED
  BY <1>1, Halving, RootIs

\* Two positions of a row do not meet.
LEMMA RowApart ==
    ASSUME NEW o \in Orders, NEW p \in Positions(o), NEW q \in Positions(o), p # q, Depth(p) = Depth(q)
    PROVE  Interval(o, p) \cap Interval(o, q) = {}
<1> DEFINE S == {x \in Positions(o) : \E y \in Positions(o) :
                    x # y /\ Depth(x) = Depth(y) /\ Interval(o, x) \cap Interval(o, y) # {}}
<1>1. SUFFICES S = {}
  OBVIOUS
<1>2. SUFFICES ASSUME S # {} PROVE FALSE
  OBVIOUS
<1>3. PICK x \in S : \A z \in S : x <= z
  BY <1>2, FirstPosition
<1>4. PICK y \in Positions(o) : x # y /\ Depth(x) = Depth(y) /\ Interval(o, x) \cap Interval(o, y) # {}
  BY <1>3
<1>5. x \in Positions(o) /\ x # 1 /\ y # 1
  BY <1>3, <1>4, RootDepth
<1> DEFINE a == x \div 2
           b == y \div 2
<1>6. /\ a \in Positions(o) /\ a < x /\ a < TwoTo[o - 1] /\ b \in Positions(o)
      /\ x = 2 * a \/ x = 2 * a + 1
      /\ y = 2 * b \/ y = 2 * b + 1
      /\ Depth(x) = Depth(a) + 1 /\ Depth(y) = Depth(b) + 1
      /\ Interval(o, x) \subseteq Interval(o, a) /\ Interval(o, y) \subseteq Interval(o, b)
      /\ Depth(a) \in Nat /\ Depth(b) \in Nat /\ a \in Nat /\ x \in Nat
  <2>1. /\ a \in Positions(o) /\ a < x /\ a < TwoTo[o - 1]
        /\ x = 2 * a \/ x = 2 * a + 1
        /\ Depth(x) = Depth(a) + 1
    BY <1>5, ParentOf
  <2>2. /\ b \in Positions(o) /\ Depth(y) = Depth(b) + 1
        /\ y = 2 * b \/ y = 2 * b + 1
    BY <1>5, ParentOf
  <2>3. Interval(o, x) \subseteq Interval(o, a) /\ Interval(o, y) \subseteq Interval(o, b)
    BY <1>5, InParent
  <2> HIDE DEF a, b
  <2>4. Depth(a) \in Nat /\ Depth(b) \in Nat /\ a \in Nat /\ x \in Nat
    BY <1>5, <2>1, <2>2, Family
  <2> QED
    BY <2>1, <2>2, <2>3, <2>4
<1> HIDE DEF a, b
<1>7. Depth(a) = Depth(b) /\ Interval(o, a) \cap Interval(o, b) # {}
  <2>1. /\ Depth(x) = Depth(a) + 1 /\ Depth(x) = Depth(b) + 1
        /\ Depth(a) \in Nat /\ Depth(b) \in Nat
    BY <1>4, <1>6, Zenon
  <2>2. Interval(o, a) \cap Interval(o, b) # {}
    BY <1>4, <1>6, Zenon
  <2> QED
    <3>1. \A u, v \in Nat : \A w : w = u + 1 /\ w = v + 1 => u = v
      OBVIOUS
    <3> QED
      BY <2>1, <2>2, <3>1, Zenon
<1>8. CASE a = b
  <2>1. Interval(o, 2 * a) \cap Interval(o, 2 * a + 1) = {}
    BY <1>6, Halves
  <2> QED
    BY <1>4, <1>6, <1>8, <2>1
<1>9. CASE a # b
  <2>1. a \in S
    BY <1>6, <1>7, <1>9
  <2>2. x <= a
    BY <1>3, <2>1
  <2> QED
    BY <1>6, <2>2
<1> QED
  BY <1>8, <1>9

\* The deeper of two positions that meet lies inside the other.
LEMMA Nested ==
    ASSUME NEW o \in Orders, NEW p \in Positions(o), NEW q \in Positions(o), Depth(p) <= Depth(q),
           Interval(o, q) \cap Interval(o, p) # {}
    PROVE  Interval(o, q) \subseteq Interval(o, p)
<1> DEFINE S == {x \in Positions(o) : /\ Depth(p) <= Depth(x) /\ Interval(o, x) \cap Interval(o, p) # {}
                              /\ ~(Interval(o, x) \subseteq Interval(o, p))}
<1>1. SUFFICES S = {}
  OBVIOUS
<1>2. SUFFICES ASSUME S # {} PROVE FALSE
  OBVIOUS
<1>3. PICK x \in S : \A z \in S : x <= z
  BY <1>2, FirstPosition
<1>4. /\ x \in Positions(o) /\ x \in Nat /\ Depth(p) <= Depth(x)
      /\ Interval(o, x) \cap Interval(o, p) # {} /\ ~(Interval(o, x) \subseteq Interval(o, p))
  BY <1>3, Family
<1>5. /\ Depth(p) # Depth(x) /\ x # 1 /\ Depth(p) \in Nat /\ Depth(x) \in Nat
      /\ Depth(p) >= 1
  <2>1. x # p
    BY <1>4
  <2>2. Depth(p) # Depth(x)
    BY <1>4, <2>1, RowApart
  <2>3. Depth(p) \in Nat /\ Depth(x) \in Nat /\ Depth(p) >= 1
    BY <1>4, IntervalIs, Family
  <2> QED
    BY <1>4, <2>2, <2>3, RootDepth
<1> DEFINE a == x \div 2
<1>6. /\ a \in Positions(o) /\ a < x /\ Depth(x) = Depth(a) + 1 /\ Interval(o, x) \subseteq Interval(o, a)
      /\ Depth(a) \in Nat /\ a \in Nat
  BY <1>4, <1>5, ParentOf, InParent, IntervalIs, Family
<1> HIDE DEF a
<1>7. a \in S
  BY <1>4, <1>5, <1>6
<1>8. x <= a
  BY <1>3, <1>7
<1> QED
  BY <1>4, <1>6, <1>8

\* Positions that meet are one below the other.
LEMMA Meet ==
    ASSUME NEW o \in Orders, NEW p \in Positions(o), NEW q \in Positions(o),
           Interval(o, p) \cap Interval(o, q) # {}
    PROVE  p = q \/ Under(o, p, q) \/ Under(o, q, p)
<1>1. Depth(p) \in Nat /\ Depth(q) \in Nat
  BY IntervalIs, Family
<1>2. CASE Depth(p) = Depth(q)
  BY <1>2, RowApart
<1>3. CASE Depth(p) < Depth(q)
  BY <1>1, <1>3, Nested DEF Under
<1>4. CASE Depth(q) < Depth(p)
  BY <1>1, <1>4, Nested DEF Under
<1> QED
  BY <1>1, <1>2, <1>3, <1>4

\* Below p is what hangs from p.
LEMMA UnderParent ==
    ASSUME NEW o \in Orders, NEW p \in Positions(o), NEW q \in Positions(o)
    PROVE  /\ Under(o, q, p) => q # 1 /\ (q \div 2 = p \/ Under(o, q \div 2, p))
           /\ q # 1 /\ (q \div 2 = p \/ Under(o, q \div 2, p)) => Under(o, q, p)
           /\ Under(o, q, p) => q # p
<1>1. /\ Depth(p) \in Nat /\ Depth(p) >= 1 /\ Depth(q) \in Nat
      /\ Low(o, q) \in Interval(o, q)
  BY IntervalIs, Family
<1>2. ASSUME q # 1
      PROVE  /\ q \div 2 \in Positions(o) /\ Depth(q) = Depth(q \div 2) + 1
             /\ Interval(o, q) \subseteq Interval(o, q \div 2) /\ Depth(q \div 2) \in Nat
  BY <1>2, ParentOf, InParent, IntervalIs, Family
<1>3. ASSUME Under(o, q, p)
      PROVE  q # 1 /\ (q \div 2 = p \/ Under(o, q \div 2, p))
  <2>1. Depth(p) < Depth(q) /\ Interval(o, q) \subseteq Interval(o, p)
    BY <1>3 DEF Under
  <2>2. q # 1
    BY <1>1, <2>1, RootDepth
  <2>3. /\ Depth(p) <= Depth(q \div 2) /\ Interval(o, q \div 2) \cap Interval(o, p) # {}
        /\ q \div 2 \in Positions(o)
    BY <1>1, <1>2, <2>1, <2>2
  <2>4. CASE Depth(p) = Depth(q \div 2)
    BY <2>2, <2>3, <2>4, RowApart
  <2>5. CASE Depth(p) # Depth(q \div 2)
    <3>1. Interval(o, q \div 2) \subseteq Interval(o, p)
      BY <2>3, Nested
    <3> QED
      BY <1>1, <1>2, <2>2, <2>3, <2>5, <3>1 DEF Under
  <2> QED
    BY <2>4, <2>5
<1>4. ASSUME q # 1, q \div 2 = p \/ Under(o, q \div 2, p)
      PROVE  Under(o, q, p)
  BY <1>1, <1>2, <1>4 DEF Under
<1>5. Under(o, q, p) => q # p
  BY <1>1 DEF Under
<1> QED
  BY <1>3, <1>4, <1>5

\* What is below a position is smaller.
LEMMA UnderSmaller ==
    ASSUME NEW o \in Orders, NEW x \in Positions(o), NEW y \in Positions(o), Under(o, x, y)
    PROVE  ~(Interval(o, y) \subseteq Interval(o, x))
<1> SUFFICES ASSUME Interval(o, y) \subseteq Interval(o, x) PROVE FALSE
  OBVIOUS
<1>1. /\ x # 1 /\ x \div 2 \in Positions(o) /\ Width(o, x \div 2) = 2 * Width(o, x)
      /\ Interval(o, x \div 2) \subseteq Interval(o, x)
  BY UnderParent, ParentOf, InParent DEF Under
<1> DEFINE a == Low(o, x \div 2)
           b == Low(o, x)
           s == Width(o, x)
<1>2. /\ a .. (a + 2 * s - 1) \subseteq b .. (b + s - 1)
      /\ a \in Nat /\ b \in Nat /\ s \in Nat /\ s >= 1
  <2>1. a \in Nat /\ Interval(o, x \div 2) = a .. (a + Width(o, x \div 2) - 1)
    BY <1>1, IntervalIs
  <2>2. b \in Nat /\ s \in Nat /\ s >= 1 /\ Interval(o, x) = b .. (b + s - 1)
    BY IntervalIs
  <2> QED
    BY <1>1, <2>1, <2>2
<1> HIDE DEF a, b, s
<1>3. a \in a .. (a + 2 * s - 1) /\ a + 2 * s - 1 \in a .. (a + 2 * s - 1)
  BY <1>2
<1> QED
  BY <1>2, <1>3

\* The way down from x to q.
LEMMA ChildToward ==
    ASSUME NEW o \in Orders, NEW x \in Positions(o), NEW q \in Positions(o), Under(o, q, x)
    PROVE  x < TwoTo[o - 1] /\ \E c \in {2 * x, 2 * x + 1} : q = c \/ Under(o, q, c)
<1>1. /\ Depth(x) < Depth(q) /\ Interval(o, q) \subseteq Interval(o, x)
      /\ Depth(x) \in Nat /\ Depth(q) \in 1 .. o /\ Low(o, q) \in Interval(o, q)
      /\ x \in Nat
  BY IntervalIs, Family, Halving, RootIs DEF Under
<1>2. x < TwoTo[o - 1]
  BY <1>1, Family, Halving
<1>3. PICK c \in {2 * x, 2 * x + 1} : Low(o, q) \in Interval(o, c)
  BY <1>1, <1>2, Halves
<1>4. c \in Positions(o) /\ Depth(c) = Depth(x) + 1
  BY <1>2, <1>3, ChildrenOf
<1>5. ~Under(o, c, q)
  BY <1>1, <1>4 DEF Under
<1> QED
  BY <1>1, <1>2, <1>3, <1>4, <1>5, Meet

-----------------------------------------------------------------------------
(* Where the statuses lie *)

\* The bit at which the row of depth d begins.
RowAt(o, d) == SizeForOrder(o, o - d + 1)

\* A row begins where the one above it ends.
LEMMA RowsFollow ==
    ASSUME NEW o \in Nat
    PROVE  /\ RowAt(o, 1) = 0
           /\ \A d \in Nat : d >= 1 =>
                 /\ RowAt(o, d) \in Int
                 /\ RowAt(o, d + 1) = RowAt(o, d) + (o - d + 1) * TwoTo[d - 1]
<1> DEFINE R == CHOOSE f : f = [k \in Nat |-> IF k = 0 THEN 0
                                             ELSE f[k - 1] + (o - k + 1) * TwoTo[k - 1]]
           step == [x \in Nat \X Int |->
                       IF x[1] = 0 THEN 0 ELSE x[2] + (o - x[1] + 1) * TwoTo[x[1] - 1]]
<1>1. step \in [Nat \X Int -> Int]
  <2>1. ASSUME NEW k \in Nat, NEW v \in Int, k # 0
        PROVE  v + (o - k + 1) * TwoTo[k - 1] \in Int
    <3>1. k - 1 \in Nat
      BY <2>1
    <3>2. TwoTo[k - 1] \in Int /\ o - k + 1 \in Int
      BY <3>1, Powers
    <3>3. \A x, y \in Int : x * y \in Int
      OBVIOUS
    <3> QED
      BY <3>2, <3>3
  <2>2. ASSUME NEW x \in Nat \X Int PROVE step[x] \in Int
    <3>1. x[1] \in Nat /\ x[2] \in Int
      OBVIOUS
    <3> QED
      BY <2>1, <3>1
  <2> QED
    BY <2>2
<1>2. PICK f : Repeats(Int, 0, step, f)
  <2> HIDE DEF step
  <2>1. 0 \in Int
    OBVIOUS
  <2> QED
    BY <1>1, <2>1, Repeat
<1>3. ASSUME NEW k \in Nat
      PROVE  f[k + 1] = f[k] + (o - (k + 1) + 1) * TwoTo[(k + 1) - 1]
  <2>1. <<k + 1, f[k]>> \in Nat \X Int /\ f[k + 1] = step[<<k + 1, f[k]>>] /\ k + 1 # 0
    BY <1>2 DEF Repeats
  <2> QED
    BY <2>1
<1>4. ASSUME NEW k \in Nat
      PROVE  f[k] = IF k = 0 THEN 0 ELSE f[k - 1] + (o - k + 1) * TwoTo[k - 1]
  <2>1. k # 0 => k - 1 \in Nat /\ (k - 1) + 1 = k
    OBVIOUS
  <2>2. f[0] = 0
    BY <1>2 DEF Repeats
  <2>3. CASE k # 0
    <3>1. f[(k - 1) + 1] = f[k - 1] + (o - ((k - 1) + 1) + 1) * TwoTo[((k - 1) + 1) - 1]
      BY <1>3, <2>1, <2>3
    <3> QED
      BY <2>1, <2>3, <3>1
  <2> QED
    BY <2>2, <2>3
<1>5. f = [k \in Nat |-> IF k = 0 THEN 0 ELSE f[k - 1] + (o - k + 1) * TwoTo[k - 1]]
  BY <1>2, <1>4 DEF Repeats
<1>6. R = [k \in Nat |-> IF k = 0 THEN 0 ELSE R[k - 1] + (o - k + 1) * TwoTo[k - 1]]
  BY <1>5
<1>7. \A to : SizeForOrder(o, to) = R[o - to]
  BY DEF SizeForOrder
<1> HIDE DEF R
<1>8. /\ R[0] = 0
      /\ \A k \in Nat : k # 0 => R[k] = R[k - 1] + (o - k + 1) * TwoTo[k - 1]
  BY <1>6
<1>9. \A k \in Nat : R[k] \in Int
  <2> DEFINE G == {k \in Nat : R[k] \in Int}
  <2>1. 0 \in G
    BY <1>8
  <2>2. ASSUME NEW k \in Nat, k \in G PROVE k + 1 \in G
    <3>1. R[k + 1] = R[k] + (o - (k + 1) + 1) * TwoTo[k] /\ R[k] \in Int
      BY <1>8, <2>2
    <3>2. TwoTo[k] \in Int /\ o - (k + 1) + 1 \in Int
      BY Powers
    <3>3. \A x, y \in Int : x * y \in Int
      OBVIOUS
    <3> QED
      BY <3>1, <3>2, <3>3
  <2> HIDE DEF G
  <2>3. \A k \in Nat : k \in G
    BY <2>1, <2>2, EveryNatural
  <2> QED
    BY <2>3 DEF G
<1>10. ASSUME NEW d \in Nat, d >= 1
       PROVE  RowAt(o, d) = R[d - 1] /\ RowAt(o, d + 1) = R[d]
  <2>1. o - (o - d + 1) = d - 1 /\ o - (o - (d + 1) + 1) = d
    OBVIOUS
  <2> QED
    BY <1>7, <2>1 DEF RowAt
<1>11. RowAt(o, 1) = 0
  BY <1>8, <1>10
<1>12. ASSUME NEW d \in Nat, d >= 1
       PROVE  /\ RowAt(o, d) \in Int
              /\ RowAt(o, d + 1) = RowAt(o, d) + (o - d + 1) * TwoTo[d - 1]
  <2>1. d - 1 \in Nat
    BY <1>12
  <2> QED
    BY <1>8, <1>9, <1>10, <1>12, <2>1
<1> QED
  BY <1>11, <1>12

\* Products of naturals, which the provers do not find by themselves.
LEMMA ProductFacts ==
    ASSUME NEW a \in Nat, NEW x \in Nat
    PROVE  /\ a * x \in Nat
           /\ a * (x + 1) = a * x + a
           /\ \A y \in Nat : x <= y => a * x <= a * y
OBVIOUS

\* The rows lie one behind the other.
LEMMA RowsGrow ==
    ASSUME NEW o \in Nat, NEW d \in Nat, d >= 1
    PROVE  /\ d <= o + 1 => RowAt(o, d) \in Nat
           /\ \A e \in Nat : d <= e /\ e <= o + 1 => RowAt(o, d) <= RowAt(o, e)
<1>1. ASSUME NEW k \in Nat, k >= 1, k <= o
      PROVE  RowAt(o, k) \in Int /\ RowAt(o, k + 1) \in Int /\ RowAt(o, k) <= RowAt(o, k + 1)
  <2>1. o - k + 1 \in Nat /\ k - 1 \in Nat
    BY <1>1
  <2>2. (o - k + 1) * TwoTo[k - 1] \in Nat
    BY <2>1, Powers, ProductFacts
  <2> QED
    BY <1>1, <2>2, RowsFollow, SMTT(40)
<1> DEFINE G == {k \in Nat : d + k <= o + 1 => RowAt(o, d) <= RowAt(o, d + k)}
           H == {k \in Nat : 1 + k <= o + 1 => 0 <= RowAt(o, 1 + k)}
<1>2. 0 \in G /\ 0 \in H
  BY RowsFollow
<1>3. ASSUME NEW k \in Nat, k \in G PROVE k + 1 \in G
  <2>1. /\ d + k \in Nat /\ d + k >= 1 /\ (d + k) + 1 = d + (k + 1)
    OBVIOUS
  <2>2. d + (k + 1) <= o + 1 => d + k <= o
    OBVIOUS
  <2> QED
    BY <1>1, <1>3, <2>1, <2>2, RowsFollow
<1>4. ASSUME NEW k \in Nat, k \in H PROVE k + 1 \in H
  <2>1. 1 + k \in Nat /\ 1 + k >= 1 /\ (1 + k) + 1 = 1 + (k + 1)
    OBVIOUS
  <2>2. 1 + (k + 1) <= o + 1 => 1 + k <= o
    OBVIOUS
  <2> QED
    BY <1>1, <1>4, <2>1, <2>2
<1>5. (\A k \in Nat : k \in G) /\ (\A k \in Nat : k \in H)
  <2> HIDE DEF G, H
  <2> QED
    BY <1>2, <1>3, <1>4, EveryNatural
<1>6. ASSUME d <= o + 1 PROVE RowAt(o, d) \in Nat
  <2>1. d - 1 \in Nat /\ 1 + (d - 1) = d
    OBVIOUS
  <2>2. RowAt(o, d) \in Int
    BY RowsFollow
  <2> QED
    BY <1>5, <1>6, <2>1, <2>2
<1>7. ASSUME NEW e \in Nat, d <= e, e <= o + 1 PROVE RowAt(o, d) <= RowAt(o, e)
  <2>1. e - d \in Nat /\ d + (e - d) = e
    BY <1>7
  <2> QED
    BY <1>5, <1>7, <2>1
<1> QED
  BY <1>6, <1>7

\* The field of a position lies in its row, and the row in the bitset.
LEMMA FieldIs ==
    ASSUME NEW o \in Orders, NEW p \in Positions(o)
    PROVE  /\ Location(o, p) = RowAt(o, Depth(p))
                                 + LocalOffset(o, p) * (p - TwoTo[Depth(p) - 1])
           /\ Location(o, p) \in Nat
           /\ RowAt(o, Depth(p)) <= Location(o, p)
           /\ Location(o, p) + LocalOffset(o, p) <= RowAt(o, Depth(p) + 1)
           /\ Location(o, p) + LocalOffset(o, p) <= SizeForOrder(o, 0)
           /\ SizeForOrder(o, 0) \in Nat
<1>1. PICK d \in Nat : d = Depth(p) /\ d >= 1 /\ d <= o
  BY Family
<1>2. o \in Nat /\ o - d + 1 \in Nat /\ LocalOffset(o, p) = o - d + 1
  BY <1>1, Halving, Family
<1>3. PICK l \in Nat : l = o - d + 1
  BY <1>2
<1>4. PICK n \in Nat : n = TwoTo[d - 1]
  BY <1>1, Powers
<1>5. p - n \in Nat /\ (p - n) + 1 <= n
  <2>1. p \in Nat /\ n <= p /\ p < TwoTo[d]
    BY <1>1, <1>4, Family
  <2>2. d - 1 \in Nat /\ (d - 1) + 1 = d
    BY <1>1
  <2>3. TwoTo[d] = 2 * n
    BY <1>4, <2>2, Powers
  <2> QED
    BY <2>1, <2>3
<1>6. PICK i \in Nat : i = p - n /\ i + 1 <= n
  BY <1>5
<1>7. l * i \in Nat /\ l * i + l <= l * n
  BY <1>6, ProductFacts
<1>8. /\ RowAt(o, d) \in Nat /\ RowAt(o, d + 1) = RowAt(o, d) + l * n
      /\ RowAt(o, d + 1) \in Nat
  <2>1. RowAt(o, d) \in Nat
    BY <1>1, <1>2, RowsGrow
  <2>2. RowAt(o, d + 1) \in Nat
    BY <1>1, <1>2, RowsGrow
  <2>3. RowAt(o, d + 1) = RowAt(o, d) + (o - d + 1) * TwoTo[d - 1]
    BY <1>1, <1>2, RowsFollow
  <2> QED
    BY <1>3, <1>4, <2>1, <2>2, <2>3
<1>9. Location(o, p) = RowAt(o, d) + l * i
  BY <1>1, <1>2, <1>3, <1>4, <1>6 DEF Location, RowAt
<1>10. RowAt(o, d + 1) <= RowAt(o, o + 1) /\ RowAt(o, o + 1) \in Nat
  BY <1>1, <1>2, RowsGrow
<1>11. RowAt(o, o + 1) = SizeForOrder(o, 0)
  <2>1. o - (o + 1) + 1 = 0
    BY <1>2
  <2> QED
    BY <2>1 DEF RowAt
<1>12. /\ RowAt(o, d) <= RowAt(o, d) + l * i
       /\ RowAt(o, d) + l * i + l <= RowAt(o, d + 1)
       /\ RowAt(o, d) + l * i + l <= RowAt(o, o + 1)
       /\ RowAt(o, d) + l * i \in Nat
  BY <1>7, <1>8, <1>10
<1> QED
  BY <1>1, <1>2, <1>3, <1>4, <1>6, <1>9, <1>10, <1>11, <1>12

\* The fields of two positions do not overlap.
LEMMA FieldsApart ==
    ASSUME NEW o \in Orders, NEW p \in Positions(o), NEW q \in Positions(o), p < q
    PROVE  Location(o, p) + LocalOffset(o, p) <= Location(o, q)
<1>1. /\ p \in Nat /\ q \in Nat /\ Depth(p) \in Nat /\ Depth(q) \in Nat
      /\ Depth(p) >= 1 /\ Depth(q) >= 1 /\ Depth(p) <= o /\ Depth(q) <= o /\ o \in Nat
      /\ TwoTo[Depth(p) - 1] <= p /\ q < TwoTo[Depth(q)]
      /\ LocalOffset(o, p) \in Nat /\ Location(o, p) \in Nat /\ Location(o, q) \in Nat
  BY Family, FieldIs, Halving
<1>2. Depth(p) <= Depth(q)
  <2>1. SUFFICES ASSUME Depth(q) < Depth(p) PROVE FALSE
    BY <1>1
  <2>2. Depth(p) - 1 \in Nat /\ Depth(q) <= Depth(p) - 1
    BY <1>1, <2>1
  <2>3. /\ TwoTo[Depth(q)] <= TwoTo[Depth(p) - 1]
        /\ TwoTo[Depth(q)] \in Nat /\ TwoTo[Depth(p) - 1] \in Nat
    BY <1>1, <2>2, PowersGrow
  <2> QED
    BY <1>1, <2>3
<1>3. CASE Depth(p) < Depth(q)
  <2>1. /\ RowAt(o, Depth(p) + 1) <= RowAt(o, Depth(q)) /\ RowAt(o, Depth(p) + 1) \in Nat
        /\ RowAt(o, Depth(q)) \in Nat
    BY <1>1, <1>3, RowsGrow
  <2>2. /\ Location(o, p) + LocalOffset(o, p) <= RowAt(o, Depth(p) + 1)
        /\ RowAt(o, Depth(q)) <= Location(o, q)
    BY FieldIs
  <2> QED
    BY <1>1, <2>1, <2>2
<1>4. CASE Depth(p) = Depth(q)
  <2>1. PICK l \in Nat, n \in Nat, r \in Int :
            l = LocalOffset(o, p) /\ n = TwoTo[Depth(p) - 1] /\ r = RowAt(o, Depth(p))
    <3>1. Depth(p) - 1 \in Nat
      BY <1>1
    <3>2. TwoTo[Depth(p) - 1] \in Nat
      BY <3>1, Powers
    <3>3. RowAt(o, Depth(p)) \in Int
      BY <1>1, RowsFollow
    <3> QED
      BY <1>1, <3>2, <3>3
  <2>2. l = LocalOffset(o, q)
    BY <1>4, <2>1 DEF LocalOffset
  <2>3. p - n \in Nat /\ q - n \in Nat /\ (p - n) + 1 <= q - n
    BY <1>1, <2>1
  <2>4. l * (p - n) \in Nat /\ l * (q - n) \in Nat /\ l * (p - n) + l <= l * (q - n)
    BY <2>3, ProductFacts
  <2>5. Location(o, p) = r + l * (p - n) /\ Location(o, q) = r + l * (q - n)
    BY <1>4, <2>1, <2>2, FieldIs
  <2> QED
    BY <2>1, <2>4, <2>5
<1> QED
  BY <1>1, <1>2, <1>3, <1>4

\* The field update_parent_chain() reads is the sibling's.
Sibling(p) == IF p % 2 = 0 THEN p + 1 ELSE p - 1

\* The field update_parent_chain() reads for the sibling is the sibling's.
LEMMA SiblingField ==
    ASSUME NEW o \in Orders, NEW p \in Positions(o), p # 1
    PROVE  /\ Sibling(p) \in Positions(o)
           /\ LocalOffset(o, Sibling(p)) = LocalOffset(o, p)
           /\ Location(o, p) + LocalOffset(o, p) - 2 * LocalOffset(o, p) * (p % 2)
                = Location(o, Sibling(p))
           /\ {p, Sibling(p)} = {2 * (p \div 2), 2 * (p \div 2) + 1}
<1>1. PICK v \in Positions(o) : v = p \div 2 /\ v < TwoTo[o - 1]
  BY ParentOf
<1>2. /\ v \in Nat /\ p \in Nat
      /\ p % 2 = 0 <=> p = 2 * v
      /\ p % 2 = 1 <=> p = 2 * v + 1
      /\ p = 2 * v \/ p = 2 * v + 1
  BY <1>1, ParentOf, Family
<1>3. /\ 2 * v \in Positions(o) /\ 2 * v + 1 \in Positions(o)
      /\ Depth(2 * v) = Depth(v) + 1 /\ Depth(2 * v + 1) = Depth(v) + 1
      /\ LocalOffset(o, 2 * v) = LocalOffset(o, 2 * v + 1)
  BY <1>1, ChildrenOf
<1>4. PICK l \in Nat, n \in Nat, r \in Int :
          l = LocalOffset(o, 2 * v) /\ n = TwoTo[Depth(2 * v) - 1] /\ r = RowAt(o, Depth(2 * v))
  <2>1. Depth(2 * v) \in Nat /\ Depth(2 * v) >= 1 /\ LocalOffset(o, 2 * v) \in Nat /\ o \in Nat
    BY <1>3, Family, Halving
  <2>2. Depth(2 * v) - 1 \in Nat
    BY <2>1
  <2> QED
    BY <2>1, <2>2, Powers, RowsFollow
<1>5. 2 * v - n \in Nat /\ (2 * v + 1) - n = (2 * v - n) + 1
  BY <1>2, <1>3, <1>4, Family
<1>6. /\ Location(o, 2 * v) = r + l * (2 * v - n)
      /\ Location(o, 2 * v + 1) = r + l * ((2 * v - n) + 1)
  BY <1>3, <1>4, <1>5, FieldIs
<1>7. Location(o, 2 * v + 1) = Location(o, 2 * v) + l /\ Location(o, 2 * v) \in Nat
  BY <1>3, <1>4, <1>5, <1>6, ProductFacts, FieldIs
<1>8. CASE p = 2 * v
  <2>1. Sibling(p) = 2 * v + 1 /\ p % 2 = 0
    BY <1>2, <1>8 DEF Sibling
  <2> QED
    BY <1>1, <1>3, <1>4, <1>7, <1>8, <2>1
<1>9. CASE p = 2 * v + 1
  <2>1. Sibling(p) = 2 * v /\ p % 2 = 1
    BY <1>2, <1>9 DEF Sibling
  <2> QED
    BY <1>1, <1>3, <1>4, <1>7, <1>9, <2>1
<1> QED
  BY <1>2, <1>8, <1>9

-----------------------------------------------------------------------------
(* The bitset as the statuses it stands for *)

Statuses(o) == {S \in [Positions(o) -> Nat] : \A p \in Positions(o) : S[p] <= LocalOffset(o, p)}

\* Every field has its first S[p] bits set, and no bit lies outside the bitset.
Holds(B, o, S) ==
    /\ S \in Statuses(o)
    /\ B \subseteq 0 .. (SizeForOrder(o, 0) - 1)
    /\ \A p \in Positions(o) :
          B \cap (Location(o, p) .. (Location(o, p) + LocalOffset(o, p) - 1))
            = Location(o, p) .. (Location(o, p) + S[p] - 1)

\* A status is at most the position's order.
LEMMA StatusIs ==
    ASSUME NEW o \in Orders, NEW S \in Statuses(o), NEW p \in Positions(o)
    PROVE  S[p] \in Nat /\ S[p] <= LocalOffset(o, p)
BY DEF Statuses

\* A field with its first v bits set is read as v.
LEMMA ReadAtIs ==
    ASSUME NEW B, NEW at \in Nat, NEW length \in Nat, length >= 1, NEW v \in Nat, v <= length,
           B \cap (at .. (at + length - 1)) = at .. (at + v - 1)
    PROVE  ReadAt(B, at, length) = v
<1>1. at \in at .. (at + length - 1)
  OBVIOUS
<1>2. at \in B <=> at \in at .. (at + v - 1)
  BY <1>1
<1>3. at \in B <=> v >= 1
  BY <1>2
<1>4. v >= 1 => Cardinality(at .. (at + v - 1)) = v
  BY FS_Interval
<1>5. CountRange(B, at, at + length - 1) = Cardinality(at .. (at + v - 1))
  BY DEF CountRange
<1>6. CASE v = 0
  BY <1>3, <1>6 DEF ReadAt
<1>7. CASE v >= 1
  BY <1>3, <1>4, <1>5, <1>7 DEF ReadAt
<1> QED
  BY <1>6, <1>7

\* What is read, at a position and at its sibling.
LEMMA ReadIs ==
    ASSUME NEW o \in Orders, NEW B, NEW S, Holds(B, o, S), NEW p \in Positions(o)
    PROVE  Read(B, o, p) = S[p]
<1>1. /\ Location(o, p) \in Nat /\ LocalOffset(o, p) \in Nat /\ LocalOffset(o, p) >= 1
      /\ S[p] \in Nat /\ S[p] <= LocalOffset(o, p)
  BY FieldIs, Family, StatusIs DEF Holds
<1> QED
  BY <1>1, ReadAtIs DEF Holds, Read

\* update_parent_chain() reads the status of the sibling.
LEMMA ReadSiblingIs ==
    ASSUME NEW o \in Orders, NEW B, NEW S, Holds(B, o, S), NEW p \in Positions(o), p # 1
    PROVE  Sibling(p) \in Positions(o) /\ ReadSibling(B, o, p) = S[Sibling(p)]
<1>1. /\ Sibling(p) \in Positions(o)
      /\ LocalOffset(o, Sibling(p)) = LocalOffset(o, p)
      /\ Location(o, p) + LocalOffset(o, p) - 2 * LocalOffset(o, p) * (p % 2)
           = Location(o, Sibling(p))
  BY SiblingField
<1>2. ReadSibling(B, o, p) = Read(B, o, Sibling(p))
  BY <1>1 DEF ReadSibling, Read
<1> QED
  BY <1>1, <1>2, ReadIs

\* The test of one bit agrees with the count.
LEMMA CompareIs ==
    ASSUME NEW o \in Orders, NEW B, NEW S, Holds(B, o, S), NEW p \in Positions(o),
           NEW v \in 1 .. LocalOffset(o, p)
    PROVE  Compare(B, o, p, v) <=> S[p] >= v
<1>1. /\ Location(o, p) \in Nat /\ LocalOffset(o, p) \in Nat /\ LocalOffset(o, p) >= 1
      /\ S[p] \in Nat /\ S[p] <= LocalOffset(o, p)
  BY FieldIs, Family, StatusIs DEF Holds
<1>2. PICK at \in Nat, l \in Nat : at = Location(o, p) /\ l = LocalOffset(o, p)
  BY <1>1
<1>3. B \cap (at .. (at + l - 1)) = at .. (at + S[p] - 1)
  BY <1>2 DEF Holds
<1>4. at + v - 1 \in at .. (at + l - 1) /\ v \in Nat /\ v >= 1
  BY <1>2
<1>5. at + v - 1 \in at .. (at + S[p] - 1) <=> S[p] >= v
  BY <1>1, <1>4
<1>6. at + v - 1 \in B <=> at + v - 1 \in at .. (at + S[p] - 1)
  BY <1>3, <1>4
<1> QED
  BY <1>2, <1>5, <1>6 DEF Compare

\* A write changes one status.
LEMMA WriteIs ==
    ASSUME NEW o \in Orders, NEW B, NEW S, Holds(B, o, S), NEW p \in Positions(o),
           NEW v \in Nat, v <= LocalOffset(o, p)
    PROVE  Holds(Write(B, o, p, v), o, [S EXCEPT ![p] = v])
<1> DEFINE T == [S EXCEPT ![p] = v]
           C == Write(B, o, p, v)
<1>1. S \in Statuses(o) /\ S \in [Positions(o) -> Nat]
  BY DEF Holds, Statuses
<1>2. \A q \in Positions(o) : T[q] = IF q = p THEN v ELSE S[q]
  BY <1>1
<1>3. T \in Statuses(o)
  BY <1>1, <1>2 DEF Statuses
<1>4. PICK at \in Nat, l \in Nat, n \in Nat :
          /\ at = Location(o, p) /\ l = LocalOffset(o, p) /\ l >= 1 /\ v <= l
          /\ n = SizeForOrder(o, 0) /\ at + l <= n
  BY FieldIs, Family
<1>5. C = (B \ (at .. (at + l - 1))) \cup (at .. (at + v - 1))
  BY <1>4 DEF Write, SetRange, ClearRange
<1>6. C \subseteq 0 .. (n - 1)
  <2>1. B \subseteq 0 .. (n - 1)
    BY <1>4 DEF Holds
  <2>2. at .. (at + v - 1) \subseteq 0 .. (n - 1)
    BY <1>4
  <2> QED
    BY <1>5, <2>1, <2>2
<1> HIDE DEF T, C
<1>7. ASSUME NEW q \in Positions(o)
      PROVE  C \cap (Location(o, q) .. (Location(o, q) + LocalOffset(o, q) - 1))
               = Location(o, q) .. (Location(o, q) + T[q] - 1)
  <2>1. CASE q = p
    <3>1. at .. (at + v - 1) \subseteq at .. (at + l - 1)
      BY <1>4
    <3> QED
      BY <1>2, <1>4, <1>5, <2>1, <3>1
  <2>2. CASE q # p
    <3>1. PICK a \in Nat, m \in Nat : a = Location(o, q) /\ m = LocalOffset(o, q)
      BY FieldIs, Family
    <3>2. a + m <= at \/ at + l <= a
      <4>1. p \in Nat /\ q \in Nat
        BY Family
      <4> QED
        BY <1>4, <2>2, <3>1, <4>1, FieldsApart
    <3>3. (a .. (a + m - 1)) \cap (at .. (at + l - 1)) = {}
      BY <3>2
    <3>4. at .. (at + v - 1) \subseteq at .. (at + l - 1)
      BY <1>4
    <3>5. C \cap (a .. (a + m - 1)) = B \cap (a .. (a + m - 1))
      BY <1>5, <3>3, <3>4
    <3> QED
      BY <1>2, <2>2, <3>1, <3>5 DEF Holds
  <2> QED
    BY <2>1, <2>2
<1> QED
  BY <1>3, <1>4, <1>6, <1>7 DEF Holds, T, C

-----------------------------------------------------------------------------
(* Marked positions and the statuses they call for *)

Combine(l, r) == IF l = 0 /\ r = 0 THEN 0 ELSE Smaller(l, r) + 1

\* The status of p is what the marks M call for: full over unused children at a
\* mark, and what the children make of it elsewhere.
NodeSound(o, S, M, p) ==
    IF p \in M
    THEN S[p] = LocalOffset(o, p) /\ (p < TwoTo[o - 1] => S[2 * p] = 0 /\ S[2 * p + 1] = 0)
    ELSE S[p] = IF p < TwoTo[o - 1] THEN Combine(S[2 * p], S[2 * p + 1]) ELSE 0

Sound(o, S, M) == M \subseteq Positions(o) /\ \A p \in Positions(o) : NodeSound(o, S, M, p)

\* The loop of update_parent_chain() at position f.pos: the statuses are sound
\* but perhaps at its parent, and no mark hides it; at the root they are sound.
ChainAt(o, M, f, T) ==
    /\ Holds(f.bits, o, T)
    /\ f.pos = 1 => Sound(o, T, M)
    /\ f.pos # 1 => /\ f.status = T[f.pos]
                    /\ \A q \in Positions(o) : q # f.pos \div 2 => NodeSound(o, T, M, q)
                    /\ \A m \in M : ~Under(o, f.pos, m)
ChainStates(o, M) ==
    {f \in [bits : SUBSET Nat, pos : Positions(o), status : Nat] : \E T : ChainAt(o, M, f, T)}

\* A parent's status stays in its bounds, and is 0 only over two unused children.
LEMMA CombineIs ==
    ASSUME NEW l \in Nat, NEW r \in Nat, NEW n \in Nat, l <= n, r <= n
    PROVE  /\ Combine(l, r) \in Nat /\ Combine(l, r) <= n + 1 /\ Combine(l, r) = Combine(r, l)
           /\ Combine(l, r) = 0 <=> l = 0 /\ r = 0
BY DEF Combine, Smaller

\* A write at v leaves the positions sound that are neither v nor its parent.
LEMMA SoundElsewhere ==
    ASSUME NEW o \in Orders, NEW T \in Statuses(o), NEW M, NEW v \in Positions(o), NEW x \in Nat,
           NEW q \in Positions(o), q # v, v = 1 \/ q # v \div 2, NodeSound(o, T, M, q)
    PROVE  NodeSound(o, [T EXCEPT ![v] = x], M, q)
<1>1. PICK U : U = [T EXCEPT ![v] = x]
  OBVIOUS
<1>2. T \in [Positions(o) -> Nat]
  BY DEF Statuses
<1>3. \A z \in Positions(o) : z # v => U[z] = T[z]
  BY <1>1, <1>2
<1>4. q < TwoTo[o - 1] => /\ 2 * q \in Positions(o) /\ 2 * q + 1 \in Positions(o)
                          /\ 2 * q # v /\ 2 * q + 1 # v
  <2>1. SUFFICES ASSUME q < TwoTo[o - 1]
                 PROVE  /\ 2 * q \in Positions(o) /\ 2 * q + 1 \in Positions(o)
                        /\ 2 * q # v /\ 2 * q + 1 # v
    OBVIOUS
  <2>2. /\ 2 * q \in Positions(o) /\ 2 * q + 1 \in Positions(o)
        /\ (2 * q) \div 2 = q /\ (2 * q + 1) \div 2 = q
    BY <2>1, ChildrenOf
  <2>3. q \in Nat /\ q >= 1
    BY Family
  <2> QED
    BY <2>2, <2>3
<1>5. U[q] = T[q] /\ (q < TwoTo[o - 1] => U[2 * q] = T[2 * q] /\ U[2 * q + 1] = T[2 * q + 1])
  BY <1>3, <1>4
<1> QED
  BY <1>1, <1>5 DEF NodeSound

\* A turn of update_parent_chain() repairs one parent and leaves the next one to
\* repair.
LEMMA ChainTurnIs ==
    ASSUME NEW o \in Orders, NEW M \in SUBSET Positions(o), NEW f \in ChainStates(o, M)
    PROVE  /\ ChainTurn(o, f) \in ChainStates(o, M)
           /\ f.pos = 1 => ChainTurn(o, f).pos = 1
           /\ f.pos # 1 => \/ ChainTurn(o, f).pos = 1
                           \/ Depth(ChainTurn(o, f).pos) = Depth(f.pos) - 1
<1>1. CASE f.pos = 1
  BY <1>1 DEF ChainTurn
<1>2. CASE f.pos # 1
  <2>1. PICK T : ChainAt(o, M, f, T)
    BY DEF ChainStates
  <2>2. PICK p \in Positions(o) : p = f.pos
    BY DEF ChainStates
  <2>3. f \in [bits : SUBSET Nat, pos : Positions(o), status : Nat] /\ p # 1
    BY <1>2, <2>2 DEF ChainStates
  <2>4. /\ Holds(f.bits, o, T) /\ f.status = T[p] /\ T \in Statuses(o)
        /\ \A q \in Positions(o) : q # p \div 2 => NodeSound(o, T, M, q)
        /\ \A m \in M : ~Under(o, p, m)
    BY <1>2, <2>1, <2>2 DEF ChainAt, Holds
  <2>5. PICK v \in Positions(o) : /\ v = p \div 2 /\ v < TwoTo[o - 1]
                                  /\ Depth(p) = Depth(v) + 1
    BY <2>3, ParentOf
  <2>6. Under(o, p, v) /\ v \notin M
    BY <2>3, <2>4, <2>5, UnderParent
  <2>7. /\ 2 * v \in Positions(o) /\ 2 * v + 1 \in Positions(o)
        /\ LocalOffset(o, 2 * v) = LocalOffset(o, v) - 1
        /\ LocalOffset(o, 2 * v + 1) = LocalOffset(o, v) - 1
    BY <2>5, ChildrenOf
  <2>8. PICK l \in Nat, r \in Nat, n \in Nat :
            /\ l = T[2 * v] /\ r = T[2 * v + 1] /\ n + 1 = LocalOffset(o, v) /\ l <= n /\ r <= n
    <3>1. /\ T[2 * v] \in Nat /\ T[2 * v] <= LocalOffset(o, 2 * v)
          /\ T[2 * v + 1] \in Nat /\ T[2 * v + 1] <= LocalOffset(o, 2 * v + 1)
      BY <2>4, <2>7, StatusIs
    <3>2. LocalOffset(o, v) \in Nat /\ LocalOffset(o, v) >= 1
      BY Family
    <3>3. LocalOffset(o, v) - 1 \in Nat /\ (LocalOffset(o, v) - 1) + 1 = LocalOffset(o, v)
      BY <3>2
    <3> QED
      BY <2>7, <3>1, <3>3
  <2>9. PICK target \in Nat : target = Combine(l, r) /\ target <= LocalOffset(o, v)
    BY <2>8, CombineIs
  <2>10. Combine(f.status, ReadSibling(f.bits, o, p)) = target
    <3>1. /\ ReadSibling(f.bits, o, p) = T[Sibling(p)]
          /\ {p, Sibling(p)} = {2 * v, 2 * v + 1}
      BY <2>3, <2>4, <2>5, ReadSiblingIs, SiblingField
    <3>2. \/ p = 2 * v /\ Sibling(p) = 2 * v + 1
          \/ p = 2 * v + 1 /\ Sibling(p) = 2 * v
      <4>1. v \in Nat
        BY Family
      <4> QED
        BY <3>1, <4>1
    <3>3. Combine(l, r) = Combine(r, l)
      BY <2>8, CombineIs
    <3> QED
      BY <2>4, <2>8, <2>9, <3>1, <3>2, <3>3
  <2>11. Read(f.bits, o, v) = T[v]
    BY <2>4, ReadIs
  <2>12. ChainTurn(o, f) =
           IF target = T[v] THEN [f EXCEPT !.pos = 1]
           ELSE [bits |-> Write(f.bits, o, v, target), pos |-> v, status |-> target]
    BY <2>2, <2>3, <2>5, <2>10, <2>11 DEF ChainTurn, Combine
  <2>13. CASE target = T[v]
    <3>1. NodeSound(o, T, M, v)
      BY <2>5, <2>6, <2>8, <2>9, <2>13 DEF NodeSound
    <3>2. Sound(o, T, M)
      BY <2>4, <2>5, <3>1 DEF Sound
    <3>3. PICK g : g = [f EXCEPT !.pos = 1]
      OBVIOUS
    <3>4. /\ g \in [bits : SUBSET Nat, pos : Positions(o), status : Nat]
          /\ g.bits = f.bits /\ g.pos = 1
      BY <2>3, <3>3, Halving
    <3>5. ChainAt(o, M, g, T)
      BY <2>4, <3>2, <3>4 DEF ChainAt
    <3>6. g \in ChainStates(o, M)
      BY <3>4, <3>5 DEF ChainStates
    <3> QED
      BY <1>2, <2>12, <2>13, <3>3, <3>4, <3>6
  <2>14. CASE target # T[v]
    <3>1. PICK U : U = [T EXCEPT ![v] = target]
      OBVIOUS
    <3>2. PICK g : g = [bits |-> Write(f.bits, o, v, target), pos |-> v, status |-> target]
      OBVIOUS
    <3>3. g.bits = Write(f.bits, o, v, target) /\ g.pos = v /\ g.status = target
      BY <3>2
    <3>4. Holds(g.bits, o, U)
      <4>1. Holds(Write(f.bits, o, v, target), o, [T EXCEPT ![v] = target])
        BY <2>4, <2>9, WriteIs, Zenon
      <4> QED
        BY <3>1, <3>3, <4>1
    <3>5. g \in [bits : SUBSET Nat, pos : Positions(o), status : Nat]
      <4>1. g.bits \in SUBSET Nat
        BY <3>4 DEF Holds
      <4> QED
        BY <3>2, <3>3, <4>1
    <3>6. \A q \in Positions(o) : U[q] = IF q = v THEN target ELSE T[q]
      BY <2>4, <3>1 DEF Statuses
    <3>7. NodeSound(o, U, M, v)
      <4>1. 2 * v # v /\ 2 * v + 1 # v
        BY Family
      <4>2. U[v] = target /\ U[2 * v] = l /\ U[2 * v + 1] = r
        BY <2>7, <2>8, <3>6, <4>1
      <4> QED
        BY <2>5, <2>6, <2>9, <4>2 DEF NodeSound
    <3>8. ASSUME NEW q \in Positions(o), q # v, v = 1 \/ q # v \div 2
          PROVE  NodeSound(o, U, M, q)
      BY <2>4, <2>5, <3>1, <3>8, SoundElsewhere
    <3>9. v = 1 => Sound(o, U, M)
      BY <3>7, <3>8 DEF Sound
    <3>10. ASSUME v # 1
           PROVE  /\ \A q \in Positions(o) : q # v \div 2 => NodeSound(o, U, M, q)
                  /\ \A m \in M : ~Under(o, v, m)
      <4>1. \A m \in M : Under(o, v, m) => Under(o, p, m)
        BY <2>3, <2>5, UnderParent
      <4> QED
        BY <2>4, <3>7, <3>8, <4>1
    <3>11. ChainAt(o, M, g, U)
      BY <3>3, <3>4, <3>6, <3>9, <3>10 DEF ChainAt
    <3>12. g \in ChainStates(o, M)
      BY <3>5, <3>11 DEF ChainStates
    <3>13. Depth(v) \in Nat /\ Depth(v) = Depth(p) - 1
      BY <2>5, Family
    <3> QED
      BY <1>2, <2>2, <2>12, <2>14, <3>2, <3>3, <3>12, <3>13
  <2> QED
    BY <2>13, <2>14
<1> QED
  BY <1>1, <1>2

\* update_parent_chain() makes the statuses sound, whatever it stops at.
LEMMA ChainIs ==
    ASSUME NEW o \in Orders, NEW M \in SUBSET Positions(o), NEW B, NEW S, Holds(B, o, S),
           NEW p \in Positions(o), \A m \in M : ~Under(o, p, m),
           \A q \in Positions(o) : p = 1 \/ q # p \div 2 => NodeSound(o, S, M, q)
    PROVE  \E T : Holds(UpdateParentChain(B, o, p, S[p]), o, T) /\ Sound(o, T, M)
<1> DEFINE a == [bits |-> B, pos |-> p, status |-> S[p]]
           X == ChainStates(o, M)
           F == CHOOSE F : F = [k \in Nat |-> IF k = 0 THEN a ELSE ChainTurn(o, F[k - 1])]
           step == [x \in Nat \X X |-> ChainTurn(o, x[2])]
<1>1. a \in X
  <2>1. S[p] \in Nat /\ B \in SUBSET Nat
    BY StatusIs DEF Holds
  <2>2. ChainAt(o, M, a, S)
    <3>1. a.bits = B /\ a.pos = p /\ a.status = S[p]
      OBVIOUS
    <3> QED
      BY <3>1 DEF ChainAt, Sound
  <2>3. a \in [bits : SUBSET Nat, pos : Positions(o), status : Nat]
    BY <2>1
  <2> QED
    BY <2>2, <2>3 DEF ChainStates
<1>2. step \in [Nat \X X -> X]
  <2>1. ASSUME NEW x \in Nat \X X PROVE step[x] \in X
    <3>1. x[2] \in X
      OBVIOUS
    <3>2. ChainTurn(o, x[2]) \in X
      BY <3>1, ChainTurnIs
    <3> QED
      BY <3>2
  <2> QED
    BY <2>1
<1> HIDE DEF a, X
<1>3. PICK f : Repeats(X, a, step, f)
  <2> HIDE DEF step
  <2> QED
    BY <1>1, <1>2, Repeat
<1>4. f \in [Nat -> X] /\ f[0] = a
  BY <1>3 DEF Repeats
<1>5. ASSUME NEW k \in Nat PROVE f[k + 1] = ChainTurn(o, f[k])
  <2>1. <<k + 1, f[k]>> \in Nat \X X /\ f[k + 1] = step[<<k + 1, f[k]>>]
    <3> HIDE DEF step
    <3> QED
      BY <1>3 DEF Repeats
  <2> QED
    BY <2>1
<1>6. ASSUME NEW k \in Nat PROVE f[k] = IF k = 0 THEN a ELSE ChainTurn(o, f[k - 1])
  <2>1. k # 0 => k - 1 \in Nat /\ (k - 1) + 1 = k
    OBVIOUS
  <2> QED
    BY <1>4, <1>5, <2>1
<1>7. f = [k \in Nat |-> IF k = 0 THEN a ELSE ChainTurn(o, f[k - 1])]
  BY <1>4, <1>6
<1>8. F = [k \in Nat |-> IF k = 0 THEN a ELSE ChainTurn(o, F[k - 1])]
  BY <1>7
<1>9. UpdateParentChain(B, o, p, S[p]) = F[Depth(p)].bits
  BY DEF UpdateParentChain, a
<1> HIDE DEF F, step
<1>10. F[0] = a /\ \A k \in Nat : F[k + 1] = ChainTurn(o, F[k])
  <2>1. F[0] = a
    BY <1>8
  <2>2. ASSUME NEW k \in Nat PROVE F[k + 1] = ChainTurn(o, F[k])
    <3>1. k + 1 \in Nat /\ k + 1 # 0 /\ (k + 1) - 1 = k
      OBVIOUS
    <3> QED
      BY <1>8, <3>1
  <2> QED
    BY <2>1, <2>2
<1> DEFINE G == {k \in Nat : F[k] \in X /\ (F[k].pos = 1 \/ Depth(F[k].pos) + k <= Depth(p))}
<1>11. \A k \in Nat : k \in G
  <2>1. 0 \in G
    <3>1. a.pos = p /\ Depth(p) \in Nat
      BY Family DEF a
    <3> QED
      BY <1>1, <1>10, <3>1
  <2>2. ASSUME NEW k \in Nat, k \in G PROVE k + 1 \in G
    <3>1. F[k] \in X /\ F[k + 1] = ChainTurn(o, F[k])
      BY <1>10, <2>2
    <3>2. /\ F[k + 1] \in X
          /\ F[k].pos = 1 => F[k + 1].pos = 1
          /\ F[k].pos # 1 => F[k + 1].pos = 1 \/ Depth(F[k + 1].pos) = Depth(F[k].pos) - 1
      BY <3>1, ChainTurnIs DEF X
    <3>3. F[k].pos \in Positions(o)
      BY <3>1 DEF X, ChainStates
    <3>4. Depth(F[k].pos) \in Nat /\ Depth(p) \in Nat
      BY <3>3, Family
    <3>5. F[k].pos = 1 \/ Depth(F[k].pos) + k <= Depth(p)
      BY <2>2
    <3>6. k + 1 \in Nat
      OBVIOUS
    <3>7. F[k + 1].pos = 1 \/ Depth(F[k + 1].pos) + (k + 1) <= Depth(p)
      BY <3>2, <3>4, <3>5
    <3> QED
      BY <3>2, <3>6, <3>7
  <2> HIDE DEF G
  <2> QED
    BY <2>1, <2>2, EveryNatural
<1>12. PICK n \in Nat : n = Depth(p)
  BY Family
<1>13. F[n] \in X /\ F[n].pos = 1
  <2>1. F[n] \in X /\ (F[n].pos = 1 \/ Depth(F[n].pos) + n <= n)
    BY <1>11, <1>12
  <2>2. Depth(F[n].pos) \in Nat /\ Depth(F[n].pos) >= 1
    BY <2>1, Family DEF X, ChainStates
  <2> QED
    BY <2>1, <2>2
<1>14. PICK T : ChainAt(o, M, F[n], T)
  BY <1>13 DEF X, ChainStates
<1> QED
  BY <1>9, <1>12, <1>13, <1>14 DEF ChainAt

-----------------------------------------------------------------------------
(* Marking, releasing and testing a position *)

\* To be under a position is to have some of its leaves and not all.
LEMMA UnderIs ==
    ASSUME NEW o \in Orders, NEW p \in Positions(o), NEW q \in Positions(o)
    PROVE  Under(o, q, p) <=> q # p /\ Interval(o, q) \subseteq Interval(o, p)
<1>1. Under(o, q, p) => q # p /\ Interval(o, q) \subseteq Interval(o, p)
  BY UnderParent DEF Under
<1>2. ASSUME q # p, Interval(o, q) \subseteq Interval(o, p) PROVE Under(o, q, p)
  <2>1. Low(o, q) \in Interval(o, q)
    BY IntervalIs
  <2>2. Under(o, q, p) \/ Under(o, p, q)
    BY <1>2, <2>1, Meet
  <2>3. ~Under(o, p, q)
    BY <1>2, UnderSmaller
  <2> QED
    BY <2>2, <2>3
<1> QED
  BY <1>1, <1>2

\* Ancestors have smaller numbers.
LEMMA UnderIsLater ==
    ASSUME NEW o \in Orders, NEW p \in Positions(o), NEW q \in Positions(o), Under(o, q, p)
    PROVE  p <= q
<1>1. /\ p \in Nat /\ q \in Nat /\ Depth(p) \in Nat /\ Depth(q) \in Nat /\ Depth(p) < Depth(q)
      /\ p < TwoTo[Depth(p)] /\ TwoTo[Depth(q) - 1] <= q /\ Depth(q) >= 1
  BY Family DEF Under
<1>2. Depth(q) - 1 \in Nat /\ Depth(p) <= Depth(q) - 1
  BY <1>1
<1>3. /\ TwoTo[Depth(p)] <= TwoTo[Depth(q) - 1] /\ TwoTo[Depth(p)] \in Nat
      /\ TwoTo[Depth(q) - 1] \in Nat
  BY <1>1, <1>2, PowersGrow
<1> QED
  BY <1>1, <1>3

\* Nothing is in use below a mark, or below an unused position.
LEMMA ZeroBelow ==
    ASSUME NEW o \in Orders, NEW S \in Statuses(o), NEW M, Sound(o, S, M),
           NEW p \in Positions(o), p \in M \/ S[p] = 0, NEW q \in Positions(o), Under(o, q, p)
    PROVE  S[q] = 0 /\ q \notin M
<1> DEFINE Z == {x \in Positions(o) : Under(o, x, p) /\ S[x] # 0}
<1>1. ASSUME Z # {} PROVE FALSE
  <2>1. PICK x \in Z : \A z \in Z : x <= z
    BY <1>1, FirstPosition
  <2>2. x \in Positions(o) /\ Under(o, x, p) /\ S[x] # 0
    BY <2>1
  <2>3. x # 1 /\ (x \div 2 = p \/ Under(o, x \div 2, p))
    BY <2>2, UnderParent
  <2>4. PICK z \in Positions(o) : /\ z = x \div 2 /\ z < TwoTo[o - 1] /\ z < x
                                  /\ x = 2 * z \/ x = 2 * z + 1
    BY <2>2, <2>3, ParentOf
  <2>5. NodeSound(o, S, M, z)
    BY DEF Sound
  <2>6. z \in M \/ S[z] = 0
    <3>1. z # p => z \notin Z
      BY <2>1, <2>2, <2>4, Family
    <3> QED
      BY <2>3, <2>4, <3>1
  <2>7. 2 * z \in Positions(o) /\ 2 * z + 1 \in Positions(o)
    BY <2>4, ChildrenOf
  <2>8. S[2 * z] = 0 /\ S[2 * z + 1] = 0
    <3>1. CASE z \in M
      BY <2>4, <2>5, <3>1 DEF NodeSound
    <3>2. CASE z \notin M
      <4>1. Combine(S[2 * z], S[2 * z + 1]) = 0
        BY <2>4, <2>5, <2>6, <3>2 DEF NodeSound
      <4>2. S[2 * z] \in Nat /\ S[2 * z + 1] \in Nat
        BY <2>7, StatusIs
      <4> QED
        BY <4>1, <4>2 DEF Combine, Smaller
    <3> QED
      BY <3>1, <3>2
  <2> QED
    BY <2>2, <2>4, <2>8
<1>2. S[q] = 0
  BY <1>1
<1>3. q \in M => S[q] = LocalOffset(o, q)
  BY DEF Sound, NodeSound
<1> QED
  BY <1>2, <1>3, Family

\* What is in use has a mark at it or below it.
LEMMA UsedHasMark ==
    ASSUME NEW o \in Orders, NEW S \in Statuses(o), NEW M, Sound(o, S, M),
           NEW q \in Positions(o), S[q] # 0
    PROVE  \E m \in M : m = q \/ Under(o, m, q)
<1> DEFINE Z == {x \in Positions(o) : S[x] # 0 /\ \A m \in M : m # x /\ ~Under(o, m, x)}
<1>1. ASSUME Z # {} PROVE FALSE
  <2>1. PICK x \in Z : \A z \in Z : z <= x
    BY <1>1, FirstPosition
  <2>2. x \in Positions(o) /\ S[x] # 0 /\ x \notin M /\ NodeSound(o, S, M, x)
    BY <2>1 DEF Sound
  <2>3. x < TwoTo[o - 1] /\ Combine(S[2 * x], S[2 * x + 1]) # 0
    BY <2>2 DEF NodeSound
  <2>4. PICK c \in {2 * x, 2 * x + 1} : S[c] # 0
    BY <2>3 DEF Combine
  <2>5. c \in Positions(o) /\ c \div 2 = x /\ c # 1 /\ x < c
    BY <2>2, <2>3, ChildrenOf, Family
  <2>6. ASSUME NEW m \in M PROVE m # c /\ ~Under(o, m, c)
    <3>1. m \in Positions(o) /\ ~Under(o, m, x)
      BY <2>1 DEF Sound
    <3>2. Under(o, c, x)
      BY <2>2, <2>5, UnderParent
    <3>3. Under(o, m, c) => Under(o, m, x)
      BY <2>2, <2>5, <3>1, <3>2, Family DEF Under
    <3> QED
      BY <3>1, <3>2, <3>3
  <2>7. c \in Z
    BY <2>4, <2>5, <2>6
  <2>8. c <= x
    BY <2>1, <2>7
  <2> QED
    BY <2>2, <2>5, <2>8, Family
<1> QED
  BY <1>1

\* No two marks share a leaf.
LEMMA MarksApart ==
    ASSUME NEW o \in Orders, NEW S \in Statuses(o), NEW M, Sound(o, S, M),
           NEW m \in M, NEW n \in M, m # n
    PROVE  Interval(o, m) \cap Interval(o, n) = {}
<1>1. m \in Positions(o) /\ n \in Positions(o)
  BY DEF Sound
<1>2. ~Under(o, m, n) /\ ~Under(o, n, m)
  BY <1>1, ZeroBelow
<1> QED
  BY <1>1, <1>2, Meet

\* buddy_tree_mark() where no mark is in the way.
LEMMA MarkIs ==
    ASSUME NEW o \in Orders, NEW B, NEW S, Holds(B, o, S), NEW M, Sound(o, S, M),
           NEW w \in Positions(o), \A m \in M : Interval(o, m) \cap Interval(o, w) = {}
    PROVE  \E T : Holds(Mark(B, o, w), o, T) /\ Sound(o, T, M \cup {w})
<1>1. S \in Statuses(o) /\ M \subseteq Positions(o) /\ S \in [Positions(o) -> Nat]
  BY DEF Holds, Sound, Statuses
<1>2. ASSUME NEW m \in M PROVE m # w /\ ~Under(o, m, w) /\ ~Under(o, w, m)
  <2>1. m \in Positions(o) /\ Low(o, m) \in Interval(o, m) /\ Low(o, w) \in Interval(o, w)
    BY <1>1, IntervalIs
  <2> QED
    BY <2>1 DEF Under
<1>3. S[w] = 0
  BY <1>1, <1>2, UsedHasMark
<1>4. PICK l \in Nat : l = LocalOffset(o, w) /\ l >= 1
  BY Family
<1>5. PICK U : U = [S EXCEPT ![w] = l]
  OBVIOUS
<1>6. PICK C : C = Write(B, o, w, l)
  OBVIOUS
<1>7. Holds(C, o, U)
  <2>1. Holds(Write(B, o, w, l), o, [S EXCEPT ![w] = l])
    BY <1>4, WriteIs
  <2> QED
    BY <1>5, <1>6, <2>1
<1>8. \A q \in Positions(o) : U[q] = IF q = w THEN l ELSE S[q]
  BY <1>1, <1>5
<1>9. PICK N \in SUBSET Positions(o) : N = M \cup {w}
  BY <1>1
<1>10. NodeSound(o, U, N, w)
  <2>1. ASSUME w < TwoTo[o - 1] PROVE U[2 * w] = 0 /\ U[2 * w + 1] = 0
    <3>1. /\ 2 * w \in Positions(o) /\ 2 * w + 1 \in Positions(o)
          /\ (2 * w) \div 2 = w /\ (2 * w + 1) \div 2 = w
      BY <2>1, ChildrenOf
    <3>2. 2 * w # w /\ 2 * w + 1 # w /\ 2 * w # 1 /\ 2 * w + 1 # 1
      BY Family
    <3>3. Under(o, 2 * w, w) /\ Under(o, 2 * w + 1, w)
      BY <3>1, <3>2, UnderParent
    <3>4. S[2 * w] = 0 /\ S[2 * w + 1] = 0
      BY <1>1, <1>3, <3>1, <3>3, ZeroBelow
    <3> QED
      BY <1>8, <3>1, <3>2, <3>4
  <2> QED
    BY <1>4, <1>8, <1>9, <2>1 DEF NodeSound
<1>11. ASSUME NEW q \in Positions(o), q # w, w = 1 \/ q # w \div 2
       PROVE  NodeSound(o, U, N, q)
  <2>1. NodeSound(o, S, M, q)
    BY DEF Sound
  <2>2. NodeSound(o, U, M, q)
    BY <1>1, <1>4, <1>5, <1>11, <2>1, SoundElsewhere
  <2>3. q \in N <=> q \in M
    BY <1>9, <1>11
  <2> QED
    BY <2>2, <2>3 DEF NodeSound
<1>12. \A m \in N : ~Under(o, w, m)
  BY <1>2, <1>9, UnderParent
<1>13. \E T : Holds(UpdateParentChain(C, o, w, U[w]), o, T) /\ Sound(o, T, N)
  <2>1. \A q \in Positions(o) : w = 1 \/ q # w \div 2 => NodeSound(o, U, N, q)
    BY <1>10, <1>11
  <2> QED
    BY <1>7, <1>12, <2>1, ChainIs
<1>14. Mark(B, o, w) = UpdateParentChain(C, o, w, U[w])
  BY <1>4, <1>6, <1>8 DEF Mark
<1> QED
  BY <1>9, <1>13, <1>14

\* buddy_tree_release() of a mark.
LEMMA ReleaseIs ==
    ASSUME NEW o \in Orders, NEW B, NEW S, Holds(B, o, S), NEW M, Sound(o, S, M), NEW w \in M
    PROVE  \E T : Holds(Release(B, o, w), o, T) /\ Sound(o, T, M \ {w})
<1>1. /\ S \in Statuses(o) /\ M \subseteq Positions(o) /\ S \in [Positions(o) -> Nat]
      /\ w \in Positions(o)
  BY DEF Holds, Sound, Statuses
<1>2. /\ S[w] = LocalOffset(o, w) /\ Read(B, o, w) = S[w]
      /\ w < TwoTo[o - 1] => S[2 * w] = 0 /\ S[2 * w + 1] = 0
  BY <1>1, ReadIs DEF Sound, NodeSound
<1>3. PICK U : U = [S EXCEPT ![w] = 0]
  OBVIOUS
<1>4. PICK C : C = Write(B, o, w, 0)
  OBVIOUS
<1>5. Holds(C, o, U)
  <2>1. 0 \in Nat /\ 0 <= LocalOffset(o, w)
    BY <1>1, Family
  <2>2. Holds(Write(B, o, w, 0), o, [S EXCEPT ![w] = 0])
    BY <1>1, <2>1, WriteIs
  <2> QED
    BY <1>3, <1>4, <2>2
<1>6. \A q \in Positions(o) : U[q] = IF q = w THEN 0 ELSE S[q]
  BY <1>1, <1>3
<1>7. PICK N \in SUBSET Positions(o) : N = M \ {w}
  BY <1>1
<1>8. NodeSound(o, U, N, w)
  <2>1. ASSUME w < TwoTo[o - 1] PROVE U[2 * w] = 0 /\ U[2 * w + 1] = 0
    <3>1. 2 * w \in Positions(o) /\ 2 * w + 1 \in Positions(o)
      BY <1>1, <2>1, ChildrenOf
    <3> QED
      BY <1>2, <1>6, <2>1, <3>1
  <2> QED
    BY <1>1, <1>6, <1>7, <2>1 DEF NodeSound, Combine
<1>9. ASSUME NEW q \in Positions(o), q # w, w = 1 \/ q # w \div 2
      PROVE  NodeSound(o, U, N, q)
  <2>1. NodeSound(o, S, M, q)
    BY DEF Sound
  <2>2. NodeSound(o, U, M, q)
    BY <1>1, <1>3, <1>9, <2>1, SoundElsewhere
  <2>3. q \in N <=> q \in M
    BY <1>7, <1>9
  <2> QED
    BY <2>2, <2>3 DEF NodeSound
<1>10. \A m \in N : ~Under(o, w, m)
  <2>1. ASSUME NEW m \in M, Under(o, w, m) PROVE FALSE
    BY <1>1, <2>1, ZeroBelow
  <2> QED
    BY <1>7, <2>1
<1>11. \E T : Holds(UpdateParentChain(C, o, w, U[w]), o, T) /\ Sound(o, T, N)
  <2>1. \A q \in Positions(o) : w = 1 \/ q # w \div 2 => NodeSound(o, U, N, q)
    BY <1>8, <1>9
  <2> QED
    BY <1>1, <1>5, <1>10, <2>1, ChainIs
<1>12. Release(B, o, w) = UpdateParentChain(C, o, w, U[w])
  BY <1>1, <1>2, <1>4, <1>6 DEF Release
<1> QED
  BY <1>7, <1>11, <1>12

\* A leaf that is not marked is left alone.
LEMMA ReleaseNothing ==
    ASSUME NEW o \in Orders, NEW B, NEW S, Holds(B, o, S), NEW M, Sound(o, S, M),
           NEW w \in Positions(o), w \notin M, w >= TwoTo[o - 1]
    PROVE  Release(B, o, w) = B
<1>1. NodeSound(o, S, M, w) /\ Read(B, o, w) = S[w]
  BY ReadIs DEF Sound
<1>2. ~(w < TwoTo[o - 1]) /\ LocalOffset(o, w) >= 1
  BY Family, Halving
<1>3. S[w] = 0
  BY <1>1, <1>2 DEF NodeSound
<1> QED
  BY <1>1, <1>2, <1>3, Family DEF Release

\* buddy_tree_is_free() means that no mark is in the way.
LEMMA TreeIsFreeMeans ==
    ASSUME NEW o \in Orders, NEW B, NEW S, Holds(B, o, S), NEW M, Sound(o, S, M),
           NEW p \in Positions(o), TreeIsFree(B, o, p), NEW m \in M
    PROVE  Interval(o, m) \cap Interval(o, p) = {}
<1>1. S \in Statuses(o) /\ m \in Positions(o)
  BY DEF Holds, Sound
<1>2. S[p] = 0 /\ S[m] = LocalOffset(o, m) /\ S[m] # 0
  <2>1. S[m] = LocalOffset(o, m)
    BY <1>1 DEF Sound, NodeSound
  <2> QED
    BY <1>1, <2>1, ReadIs, Family DEF TreeIsFree
<1>3. m # p /\ ~Under(o, m, p)
  BY <1>1, <1>2, ZeroBelow
<1>4. ASSUME Under(o, p, m) PROVE FALSE
  <2> DEFINE above == {q \in Positions(o) : /\ q # p /\ Interval(o, p) \subseteq Interval(o, q)
                                            /\ Read(B, o, q) # 0}
  <2>1. m \in above
    BY <1>1, <1>2, <1>4, UnderIs, ReadIs
  <2>2. ASSUME NEW x \in above PROVE x <= m
    <3>1. x \in Positions(o) /\ Under(o, p, x) /\ S[x] # 0
      BY UnderIs, ReadIs
    <3>2. ~Under(o, x, m)
      BY <1>1, <3>1, ZeroBelow
    <3>3. x = m \/ Under(o, m, x)
      <4>1. Low(o, p) \in Interval(o, p)
        BY IntervalIs
      <4>2. Low(o, p) \in Interval(o, x) \cap Interval(o, m)
        BY <1>4, <3>1, <4>1 DEF Under
      <4> QED
        BY <1>1, <3>1, <3>2, <4>2, Meet
    <3>4. Under(o, m, x) => x <= m
      BY <1>1, <3>1, UnderIsLater
    <3> QED
      BY <1>1, <3>3, <3>4, Family
  <2>3. Largest(above) \in above /\ \A x \in above : x <= Largest(above)
    BY <2>1, <2>2 DEF Largest
  <2>4. Largest(above) = m
    <3>1. Largest(above) <= m /\ m <= Largest(above) /\ Largest(above) \in Positions(o)
      BY <2>1, <2>2, <2>3
    <3> QED
      BY <1>1, <3>1, Family
  <2>5. Read(B, o, m) # LocalOffset(o, m)
    <3>1. above # {} => Read(B, o, Largest(above)) # LocalOffset(o, Largest(above))
      BY DEF TreeIsFree
    <3> QED
      BY <2>1, <2>4, <3>1
  <2> QED
    BY <1>1, <1>2, <2>5, ReadIs
<1> QED
  BY <1>1, <1>3, <1>4, Meet

-----------------------------------------------------------------------------
(* Arenas and their missing slots *)

\* buddy_tree_order_for_memory() gives the least order with room for n slots.
LEMMA OrderIs ==
    ASSUME NEW n \in Nat, n >= 1
    PROVE  /\ OrderForMemory(n) \in Orders
           /\ TwoTo[OrderForMemory(n) - 1] >= n
           /\ OrderForMemory(n) > 1 => TwoTo[OrderForMemory(n) - 2] < n
<1> DEFINE Z == {k \in Nat : n <= TwoTo[k]}
<1>1. PICK k \in Z : \A x \in Z : k <= x
  <2>1. Z # {} /\ Z \in SUBSET Nat
    BY PowersGrow
  <2> QED
    BY <2>1, LeastNatural
<1>2. PICK o \in Nat : o = k + 1 /\ o >= 1 /\ o - 1 = k
  BY <1>1
<1>3. TwoTo[o - 1] >= n
  BY <1>1, <1>2, Powers
<1>4. ASSUME o > 1 PROVE TwoTo[o - 2] < n /\ o <= n
  <2>1. o - 2 \in Nat /\ o - 2 \notin Z
    BY <1>1, <1>2, <1>4
  <2>2. TwoTo[o - 2] < n /\ o - 2 < TwoTo[o - 2] /\ TwoTo[o - 2] \in Nat
    BY <2>1, PowersGrow
  <2> QED
    BY <2>2
<1>5. o \in 1 .. n
  BY <1>2, <1>4
<1>6. /\ OrderForMemory(n) \in 1 .. n
      /\ TwoTo[OrderForMemory(n) - 1] >= n
      /\ OrderForMemory(n) > 1 => TwoTo[OrderForMemory(n) - 2] < n
  <2>1. \E r \in 1 .. n : TwoTo[r - 1] >= n /\ (r > 1 => TwoTo[r - 2] < n)
    BY <1>3, <1>4, <1>5
  <2> QED
    BY <2>1, Zenon DEF OrderForMemory
<1>7. OrderForMemory(n) \in Orders
  BY <1>6 DEF Orders
<1> QED
  BY <1>6, <1>7

\* A tree of order o for n slots.
Fits(o, n) == o \in Orders /\ n \in Nat /\ n >= 1 /\ o = OrderForMemory(n)

\* The numbers of an arena of n slots and its tree.
LEMMA FitIs ==
    ASSUME NEW o, NEW n, Fits(o, n)
    PROVE  /\ o \in Orders /\ n \in Nat /\ n >= 1
           /\ EffectiveSize(n) = TwoTo[o - 1] /\ TwoTo[o - 1] \in Nat /\ n <= TwoTo[o - 1]
           /\ TwoTo[o - 1] < 2 * n
           /\ \A p \in Positions(o) : SizeForDepth(n, Depth(p)) = Width(o, p)
<1>1. /\ o \in Orders /\ n \in Nat /\ n >= 1
      /\ EffectiveSize(n) = TwoTo[o - 1] /\ TwoTo[o - 1] \in Nat /\ n <= TwoTo[o - 1]
  BY OrderIs, Halving DEF Fits, EffectiveSize
<1>2. TwoTo[o - 1] < 2 * n
  <2>1. CASE o = 1
    BY <1>1, <2>1, Powers
  <2>2. CASE o # 1
    <3>1. o > 1 /\ o - 2 \in Nat /\ (o - 2) + 1 = o - 1
      BY <1>1, <2>2, Halving
    <3>2. TwoTo[o - 2] < n /\ TwoTo[o - 2] \in Nat /\ TwoTo[o - 1] = 2 * TwoTo[o - 2]
      BY <1>1, <3>1, Powers, OrderIs DEF Fits
    <3> QED
      BY <1>1, <3>2
  <2> QED
    BY <2>1, <2>2
<1>3. ASSUME NEW p \in Positions(o) PROVE SizeForDepth(n, Depth(p)) = Width(o, p)
  <2>1. PICK d \in Nat : d = Depth(p) /\ d >= 1 /\ d <= o
    BY <1>1, Family
  <2>2. d - 1 \in Nat /\ o - 1 \in Nat /\ d - 1 <= o - 1 /\ (o - 1) - (d - 1) = o - d
    BY <1>1, <2>1, Halving
  <2>3. TwoTo[o - 1] \div TwoTo[d - 1] = TwoTo[o - d]
    BY <2>2, PowerShift
  <2> QED
    BY <1>1, <2>1, <2>3 DEF SizeForDepth, Width
<1> QED
  BY <1>1, <1>2, <1>3

\* The first leaf past the arena, and the largest positions past it.
PastLeaf(o, n) == TwoTo[o - 1] + n
Virtual(o, n) == {q \in Positions(o) : /\ q # 1 /\ Low(o, q) >= PastLeaf(o, n)
                                       /\ Low(o, q \div 2) < PastLeaf(o, n)}

\* What is below a position does not begin before it.
LEMMA LowBelow ==
    ASSUME NEW o \in Orders, NEW p \in Positions(o), NEW q \in Positions(o),
           q = p \/ Under(o, q, p)
    PROVE  /\ Low(o, p) <= Low(o, q)
           /\ Low(o, q) + Width(o, q) <= Low(o, p) + Width(o, p)
<1>1. /\ Low(o, p) \in Nat /\ Width(o, p) \in Nat /\ Width(o, p) >= 1
      /\ Interval(o, p) = Low(o, p) .. (Low(o, p) + Width(o, p) - 1)
  BY IntervalIs
<1>2. /\ Low(o, q) \in Nat /\ Width(o, q) \in Nat /\ Width(o, q) >= 1
      /\ Interval(o, q) = Low(o, q) .. (Low(o, q) + Width(o, q) - 1)
  BY IntervalIs
<1>3. Interval(o, q) \subseteq Interval(o, p)
  BY DEF Under
<1>4. Low(o, q) \in Interval(o, q) /\ Low(o, q) + Width(o, q) - 1 \in Interval(o, q)
  BY <1>2
<1>5. Low(o, q) \in Interval(o, p) /\ Low(o, q) + Width(o, q) - 1 \in Interval(o, p)
  BY <1>3, <1>4
<1> QED
  BY <1>1, <1>2, <1>5

\* They do not overlap.
LEMMA VirtualApart ==
    ASSUME NEW o, NEW n, Fits(o, n), NEW w \in Virtual(o, n), NEW q \in Virtual(o, n),
           Low(o, q) >= Low(o, w), Low(o, q) < Low(o, w) + Width(o, w)
    PROVE  q = w
<1>1. /\ o \in Orders /\ w \in Positions(o) /\ q \in Positions(o) /\ w # 1 /\ q # 1
      /\ PastLeaf(o, n) \in Nat
      /\ w \div 2 \in Positions(o) /\ q \div 2 \in Positions(o)
  BY FitIs, ParentOf DEF Virtual, PastLeaf
<1>2. /\ Low(o, q) \in Interval(o, w) /\ Low(o, q) \in Interval(o, q)
      /\ Low(o, q) \in Nat /\ Low(o, w) \in Nat
      /\ Low(o, q \div 2) \in Nat /\ Low(o, w \div 2) \in Nat
  <2>1. Low(o, q) \in Interval(o, q) /\ Low(o, q) \in Nat
    BY <1>1, IntervalIs
  <2>2. /\ Low(o, w) \in Nat /\ Width(o, w) \in Nat
        /\ Interval(o, w) = Low(o, w) .. (Low(o, w) + Width(o, w) - 1)
    BY <1>1, IntervalIs
  <2>3. Low(o, q \div 2) \in Nat /\ Low(o, w \div 2) \in Nat
    BY <1>1, IntervalIs
  <2> QED
    BY <2>1, <2>2, <2>3
<1>3. ASSUME Under(o, q, w) PROVE FALSE
  <2>1. q \div 2 = w \/ Under(o, q \div 2, w)
    BY <1>1, <1>3, UnderParent
  <2>2. Low(o, w) <= Low(o, q \div 2)
    BY <1>1, <2>1, LowBelow
  <2> QED
    BY <1>1, <1>2, <2>2 DEF Virtual
<1>4. ASSUME Under(o, w, q) PROVE FALSE
  <2>1. w \div 2 = q \/ Under(o, w \div 2, q)
    BY <1>1, <1>4, UnderParent
  <2>2. Low(o, q) <= Low(o, w \div 2)
    BY <1>1, <2>1, LowBelow
  <2> QED
    BY <1>1, <1>2, <2>2 DEF Virtual
<1> QED
  BY <1>1, <1>2, <1>3, <1>4, Meet

\* And everything past the arena lies in one of them.
LEMMA VirtualComplete ==
    ASSUME NEW o, NEW n, Fits(o, n), NEW p \in Positions(o), Low(o, p) >= PastLeaf(o, n)
    PROVE  \E v \in Virtual(o, n) : p = v \/ Under(o, p, v)
<1> DEFINE Z == {x \in Positions(o) : (p = x \/ Under(o, p, x)) /\ Low(o, x) >= PastLeaf(o, n)}
<1>1. o \in Orders /\ n \in Nat /\ n >= 1 /\ TwoTo[o - 1] \in Nat
  BY FitIs
<1>2. PICK x \in Z : \A z \in Z : x <= z
  <2>1. Z # {} /\ Z \subseteq Positions(o)
    OBVIOUS
  <2> HIDE DEF Z
  <2> QED
    BY <1>1, <2>1, FirstPosition
<1>3. x \in Positions(o) /\ (p = x \/ Under(o, p, x)) /\ Low(o, x) >= PastLeaf(o, n)
  BY <1>2
<1>4. x # 1
  BY <1>1, <1>3, RootInterval DEF PastLeaf
<1>5. x \div 2 \in Positions(o) /\ x \div 2 < x /\ x \in Nat /\ x \div 2 \in Nat
  BY <1>1, <1>3, <1>4, ParentOf, Family
<1>6. x \div 2 \notin Z
  BY <1>2, <1>5
<1>7. Under(o, p, x \div 2)
  <2>1. Under(o, x, x \div 2)
    BY <1>1, <1>3, <1>4, <1>5, UnderParent
  <2> QED
    BY <1>1, <1>3, <1>5, <2>1, Family DEF Under
<1>8. Low(o, x \div 2) \in Nat /\ PastLeaf(o, n) \in Nat
  <2>1. Low(o, x \div 2) \in Nat
    BY <1>1, <1>5, IntervalIs
  <2> QED
    BY <1>1, <2>1 DEF PastLeaf
<1>9. x \in Virtual(o, n)
  BY <1>3, <1>4, <1>5, <1>6, <1>7, <1>8 DEF Virtual
<1> QED
  BY <1>3, <1>9

-----------------------------------------------------------------------------
(* buddy_toggle_virtual_slots() *)

\* Marks that lie in the arena of n slots.
Kept(o, n, M) ==
    M \subseteq Positions(o) /\ \A m \in M : Low(o, m) + Width(o, m) <= PastLeaf(o, n)

\* The marks while buddy_toggle_virtual_slots() works from the end of the tree
\* down to the arena: delta slots past the arena are still to be done.
Toggled(o, n, M, state, delta) ==
    M \cup {q \in Virtual(o, n) : IF state THEN Low(o, q) >= PastLeaf(o, n) + delta
                                  ELSE Low(o, q) < PastLeaf(o, n) + delta}

\* Masking or unmasking one more position of missing slots.
LEMMA ToggleOne ==
    ASSUME NEW o, NEW n, Fits(o, n), NEW M, Kept(o, n, M), NEW state \in BOOLEAN,
           NEW w \in Virtual(o, n), NEW d \in Nat, NEW e \in Nat,
           Low(o, w) = PastLeaf(o, n) + e, Low(o, w) + Width(o, w) = PastLeaf(o, n) + d,
           NEW B, NEW S, Holds(B, o, S), Sound(o, S, Toggled(o, n, M, state, d))
    PROVE  \E T : Holds(Toggle(B, o, w, state), o, T) /\ Sound(o, T, Toggled(o, n, M, state, e))
<1>1. /\ o \in Orders /\ w \in Positions(o) /\ PastLeaf(o, n) \in Nat
      /\ Low(o, w) \in Nat /\ Width(o, w) \in Nat /\ Width(o, w) >= 1
      /\ Interval(o, w) = Low(o, w) .. (Low(o, w) + Width(o, w) - 1)
  <2>1. o \in Orders /\ w \in Positions(o) /\ PastLeaf(o, n) \in Nat
    BY FitIs DEF Virtual, PastLeaf
  <2> QED
    BY <2>1, IntervalIs
<1>2. PICK a \in Nat : a = PastLeaf(o, n)
  BY <1>1
<1>3. e < d
  BY <1>1
<1>4. ASSUME NEW m \in M
      PROVE  /\ m \in Positions(o) /\ Low(o, m) \in Nat /\ Width(o, m) >= 1 /\ Width(o, m) \in Nat
             /\ Low(o, m) + Width(o, m) <= a
             /\ Interval(o, m) = Low(o, m) .. (Low(o, m) + Width(o, m) - 1)
  BY <1>1, <1>2, IntervalIs DEF Kept
<1>5. w \notin M
  BY <1>1, <1>2, <1>4
<1>6. ASSUME NEW q \in Virtual(o, n)
      PROVE  /\ q \in Positions(o) /\ Low(o, q) \in Nat
             /\ q # w => Low(o, q) < a + e \/ Low(o, q) >= a + d
  <2>1. q \in Positions(o) /\ Low(o, q) \in Nat
    BY <1>1, IntervalIs DEF Virtual
  <2> QED
    BY <1>1, <1>2, <2>1, VirtualApart, SMTT(40)
<1>7. CASE state
  <2>1. ASSUME NEW m \in Toggled(o, n, M, state, d) PROVE Interval(o, m) \cap Interval(o, w) = {}
    <3>1. CASE m \in M
      <4>1. PICK l \in Nat, x \in Nat : l = Low(o, m) /\ x = Width(o, m) /\ l + x <= a
                 /\ Interval(o, m) = l .. (l + x - 1)
        BY <1>4, <3>1
      <4>2. PICK k \in Nat, y \in Nat : /\ k = Low(o, w) /\ y = Width(o, w)
                                       /\ Interval(o, w) = k .. (k + y - 1)
        BY <1>1
      <4>3. k >= a
        BY <1>2, <4>2
      <4>4. ASSUME NEW x1 \in Interval(o, m), NEW x2 \in Interval(o, w) PROVE x1 # x2
        <5>1. x1 \in l .. (l + x - 1)
          BY <4>1
        <5>2. x2 \in k .. (k + y - 1)
          BY <4>2
        <5>3. l + x <= a
          BY <4>1
        <5>4. x1 \in Int /\ x1 < a
          BY <5>1, <5>3
        <5>5. x2 \in Int /\ x2 >= a
          BY <4>3, <5>2
        <5> QED
          BY <5>4, <5>5
      <4> QED
        BY <4>4
    <3>2. CASE m \in Virtual(o, n) /\ Low(o, m) >= a + d
      <4>1. m \in Positions(o) /\ Low(o, m) \in Nat
        BY <1>6, <3>2
      <4>2. Width(o, m) \in Nat /\ Interval(o, m) = Low(o, m) .. (Low(o, m) + Width(o, m) - 1)
        BY <1>1, <4>1, IntervalIs
      <4>3. PICK l \in Nat, x \in Nat : l >= a + d /\ Interval(o, m) = l .. (l + x - 1)
        BY <3>2, <4>1, <4>2
      <4>4. PICK k \in Nat, y \in Nat : k + y = a + d /\ Interval(o, w) = k .. (k + y - 1)
        BY <1>1, <1>2
      <4> QED
        BY <1>2, <4>3, <4>4
    <3> QED
      BY <1>2, <1>7, <3>1, <3>2 DEF Toggled
  <2>2. Toggled(o, n, M, state, d) \cup {w} = Toggled(o, n, M, state, e)
    BY <1>1, <1>2, <1>3, <1>6, <1>7, SMTT(40) DEF Toggled
  <2>3. \E T : Holds(Mark(B, o, w), o, T) /\ Sound(o, T, Toggled(o, n, M, state, d) \cup {w})
    BY <1>1, <2>1, MarkIs
  <2> QED
    BY <1>7, <2>2, <2>3 DEF Toggle
<1>8. CASE ~state
  <2>1. w \in Toggled(o, n, M, state, d)
    BY <1>1, <1>2, <1>3, <1>8 DEF Toggled
  <2>2. Toggled(o, n, M, state, d) \ {w} = Toggled(o, n, M, state, e)
    BY <1>1, <1>2, <1>3, <1>5, <1>6, <1>8, SMTT(40) DEF Toggled
  <2>3. \E T : Holds(Release(B, o, w), o, T) /\ Sound(o, T, Toggled(o, n, M, state, d) \ {w})
    BY <1>1, <2>1, ReleaseIs
  <2> QED
    BY <1>8, <2>2, <2>3 DEF Toggle
<1> QED
  BY <1>7, <1>8

VirtualAt(o, n, M, state, t) ==
    /\ \E T : Holds(t.bits, o, T) /\ Sound(o, T, Toggled(o, n, M, state, t.delta))
    /\ t.delta # 0 => /\ t.pos \in Positions(o) /\ t.pos # 1
                      /\ t.delta <= Width(o, t.pos)
                      /\ Low(o, t.pos) + Width(o, t.pos) = PastLeaf(o, n) + t.delta
                      /\ Low(o, t.pos \div 2) < PastLeaf(o, n)
VirtualStates(o, n, M, state) ==
    {t \in [bits : SUBSET Nat, pos : Nat, delta : Nat] : VirtualAt(o, n, M, state, t)}

\* A turn of buddy_toggle_virtual_slots() keeps its loop invariant and goes one row
\* down.
LEMMA VirtualTurnIs ==
    ASSUME NEW o, NEW n, Fits(o, n), NEW M, Kept(o, n, M), NEW state \in BOOLEAN,
           NEW t \in VirtualStates(o, n, M, state)
    PROVE  /\ VirtualTurn(o, n, state, t) \in VirtualStates(o, n, M, state)
           /\ t.delta = 0 => VirtualTurn(o, n, state, t).delta = 0
           /\ t.delta # 0 => \/ VirtualTurn(o, n, state, t).delta = 0
                             \/ Depth(VirtualTurn(o, n, state, t).pos) = Depth(t.pos) + 1
<1>1. CASE t.delta = 0
  BY <1>1 DEF VirtualTurn
<1>2. CASE t.delta # 0
  <2>1. t \in [bits : SUBSET Nat, pos : Nat, delta : Nat] /\ VirtualAt(o, n, M, state, t)
    BY DEF VirtualStates
  <2>2. PICK S : Holds(t.bits, o, S) /\ Sound(o, S, Toggled(o, n, M, state, t.delta))
    BY <2>1 DEF VirtualAt
  <2>3. PICK p \in Positions(o), d \in Nat, a \in Nat, l \in Nat, w \in Nat :
            /\ p = t.pos /\ d = t.delta /\ a = PastLeaf(o, n) /\ l = Low(o, p) /\ w = Width(o, p)
            /\ p # 1 /\ d # 0 /\ d <= w /\ l + w = a + d /\ Low(o, p \div 2) < a
    <3>1. o \in Orders /\ PastLeaf(o, n) \in Nat /\ t.pos \in Positions(o) /\ t.delta \in Nat
      BY <1>2, <2>1, FitIs DEF PastLeaf, VirtualAt
    <3>2. Low(o, t.pos) \in Nat /\ Width(o, t.pos) \in Nat
      BY <3>1, IntervalIs
    <3> QED
      BY <1>2, <2>1, <3>1, <3>2 DEF VirtualAt
  <2>4. o \in Orders /\ SizeForDepth(n, Depth(p)) = w /\ p \in Nat /\ Depth(p) \in Nat
    BY <2>3, FitIs, Family
  <2>5. VirtualTurn(o, n, state, t) =
          IF d = w THEN [t EXCEPT !.bits = Toggle(t.bits, o, p, state), !.delta = 0]
          ELSE IF d <= w \div 2 THEN [t EXCEPT !.pos = 2 * p + 1]
          ELSE [bits |-> Toggle(t.bits, o, 2 * p + 1, state), pos |-> 2 * p,
                delta |-> d - w \div 2]
    BY <2>3, <2>4 DEF VirtualTurn, Left, Right
  <2>6. CASE d = w
    <3>1. p \in Virtual(o, n)
      BY <2>3, <2>6 DEF Virtual
    <3>2. PICK C : C = Toggle(t.bits, o, p, state)
      OBVIOUS
    <3>3. PICK T : Holds(C, o, T) /\ Sound(o, T, Toggled(o, n, M, state, 0))
      <4>1. Low(o, p) = PastLeaf(o, n) + 0 /\ Low(o, p) + Width(o, p) = PastLeaf(o, n) + d
        BY <2>3, <2>6
      <4> QED
        BY <2>2, <2>3, <3>1, <3>2, <4>1, ToggleOne
    <3>4. PICK u : u = [t EXCEPT !.bits = C, !.delta = 0]
      OBVIOUS
    <3>5. u.bits = C /\ u.delta = 0 /\ u \in [bits : SUBSET Nat, pos : Nat, delta : Nat]
      <4>1. C \in SUBSET Nat
        BY <3>3 DEF Holds
      <4> QED
        BY <2>1, <3>4, <4>1
    <3>6. VirtualAt(o, n, M, state, u)
      BY <3>3, <3>5 DEF VirtualAt
    <3> QED
      BY <1>2, <2>5, <2>6, <3>2, <3>4, <3>5, <3>6 DEF VirtualStates
  <2>7. CASE d # w
    <3>1. p < TwoTo[o - 1] /\ w >= 2
      <4>1. w >= 2
        BY <2>3, <2>7
      <4>2. p >= TwoTo[o - 1] => w = 1
        BY <2>3, <2>4, IntervalIs
      <4>3. TwoTo[o - 1] \in Nat
        BY <2>4, Halving
      <4> QED
        BY <2>4, <4>1, <4>2, <4>3
    <3>2. /\ 2 * p \in Positions(o) /\ 2 * p + 1 \in Positions(o)
          /\ (2 * p) \div 2 = p /\ (2 * p + 1) \div 2 = p
          /\ Depth(2 * p) = Depth(p) + 1 /\ Depth(2 * p + 1) = Depth(p) + 1
      BY <2>4, <3>1, ChildrenOf
    <3>3. PICK h \in Nat : /\ w = 2 * h /\ Width(o, 2 * p) = h /\ Width(o, 2 * p + 1) = h
                           /\ Low(o, 2 * p) = l /\ Low(o, 2 * p + 1) = l + h
      <4>1. Width(o, 2 * p) \in Nat
        BY <2>4, <3>2, IntervalIs
      <4>2. /\ Width(o, p) = 2 * Width(o, 2 * p) /\ Width(o, p) = 2 * Width(o, 2 * p + 1)
            /\ Low(o, 2 * p) = Low(o, p) /\ Low(o, 2 * p + 1) = Low(o, p) + Width(o, 2 * p)
            /\ Width(o, 2 * p + 1) \in Nat
        BY <2>4, <3>1, <3>2, Halves, IntervalIs
      <4> QED
        BY <2>3, <4>1, <4>2
    <3>4. w \div 2 = h /\ l < a /\ 2 * p # 1 /\ 2 * p + 1 # 1
      <4>1. w \div 2 = h
        BY <3>3
      <4>2. l < a
        BY <2>3, <2>7
      <4>3. p >= 1
        BY <2>3, <2>4, Family
      <4> QED
        BY <2>4, <4>1, <4>2, <4>3
    <3>5. CASE d <= h
      <4>1. PICK u : u = [t EXCEPT !.pos = 2 * p + 1]
        OBVIOUS
      <4>2. /\ u.bits = t.bits /\ u.delta = d /\ u.pos = 2 * p + 1
            /\ u \in [bits : SUBSET Nat, pos : Nat, delta : Nat]
        BY <2>1, <2>3, <2>4, <4>1
      <4>3. (l + h) + h = a + d
        BY <2>3, <3>3
      <4>4. VirtualAt(o, n, M, state, u)
        BY <2>2, <2>3, <3>2, <3>3, <3>4, <3>5, <4>2, <4>3 DEF VirtualAt
      <4>5. VirtualTurn(o, n, state, t) = u
        BY <2>5, <2>7, <3>4, <3>5, <4>1
      <4> QED
        BY <1>2, <2>3, <3>2, <4>2, <4>4, <4>5 DEF VirtualStates
    <3>6. CASE ~(d <= h)
      <4>1. d - h \in Nat /\ d - h <= h /\ l + h = a + (d - h) /\ (l + h) + h = a + d
        BY <2>3, <3>3, <3>6, <2>7
      <4>2. 2 * p + 1 \in Virtual(o, n)
        BY <2>3, <3>2, <3>3, <3>4, <4>1 DEF Virtual
      <4>3. PICK C : C = Toggle(t.bits, o, 2 * p + 1, state)
        OBVIOUS
      <4>4. PICK T : Holds(C, o, T) /\ Sound(o, T, Toggled(o, n, M, state, d - h))
        <5>1. /\ Low(o, 2 * p + 1) = PastLeaf(o, n) + (d - h)
              /\ Low(o, 2 * p + 1) + Width(o, 2 * p + 1) = PastLeaf(o, n) + d
          BY <2>3, <3>3, <4>1
        <5> QED
          BY <2>2, <2>3, <4>1, <4>2, <4>3, <5>1, ToggleOne
      <4>5. PICK u : u = [bits |-> C, pos |-> 2 * p, delta |-> d - h]
        OBVIOUS
      <4>6. /\ u.bits = C /\ u.delta = d - h /\ u.pos = 2 * p
            /\ u \in [bits : SUBSET Nat, pos : Nat, delta : Nat]
        <5>1. C \in SUBSET Nat
          BY <4>4 DEF Holds
        <5> QED
          BY <2>4, <4>1, <4>5, <5>1
      <4>7. VirtualAt(o, n, M, state, u)
        BY <2>3, <3>2, <3>3, <3>4, <4>1, <4>4, <4>6 DEF VirtualAt
      <4>8. VirtualTurn(o, n, state, t) = u
        BY <2>5, <2>7, <3>4, <3>6, <4>3, <4>5
      <4> QED
        BY <1>2, <2>3, <3>2, <4>6, <4>7, <4>8 DEF VirtualStates
    <3> QED
      BY <3>5, <3>6
  <2> QED
    BY <2>6, <2>7
<1> QED
  BY <1>1, <1>2

\* Every leaf lies below the root.
LEMMA InRoot ==
    ASSUME NEW o \in Orders, NEW p \in Positions(o)
    PROVE  Interval(o, p) \subseteq TwoTo[o - 1] .. (2 * TwoTo[o - 1] - 1)
<1> DEFINE Bad == {q \in Positions(o) : ~(Interval(o, q) \subseteq Interval(o, 1))}
<1>1. Bad = {}
  <2>1. SUFFICES ASSUME Bad # {} PROVE FALSE
    OBVIOUS
  <2>2. PICK q \in Bad : \A r \in Bad : q <= r
    <3>1. Bad \subseteq Positions(o)
      OBVIOUS
    <3> HIDE DEF Bad
    <3> QED
      BY <2>1, <3>1, FirstPosition
  <2>3. q \in Positions(o) /\ q # 1
    BY <2>2
  <2>4. q \div 2 \in Positions(o) /\ q \div 2 < q
    BY <2>3, ParentOf
  <2>5. q \div 2 \notin Bad
    <3>1. q \in Nat /\ q \div 2 \in Nat
      BY <2>3, <2>4, Family
    <3> QED
      BY <2>2, <2>4, <3>1
  <2>6. Interval(o, q \div 2) \subseteq Interval(o, 1)
    BY <2>4, <2>5
  <2>7. Interval(o, q) \subseteq Interval(o, q \div 2)
    BY <2>3, InParent
  <2> QED
    BY <2>2, <2>6, <2>7
<1> QED
  BY <1>1, RootInterval

\* Before the first slot past the arena is done, and when all are.
LEMMA ToggledEnds ==
    ASSUME NEW o, NEW n, Fits(o, n), NEW M, NEW state \in BOOLEAN
    PROVE  /\ state => Toggled(o, n, M, state, EffectiveSize(n) - n) = M
           /\ state => Toggled(o, n, M, state, 0) = M \cup Virtual(o, n)
           /\ ~state => Toggled(o, n, M, state, EffectiveSize(n) - n) = M \cup Virtual(o, n)
           /\ ~state => Toggled(o, n, M, state, 0) = M
<1>1. PICK e \in Nat : /\ e = TwoTo[o - 1] /\ e = EffectiveSize(n) /\ n <= e
                       /\ o \in Orders /\ n \in Nat
  BY FitIs
<1>2. ASSUME NEW q \in Virtual(o, n)
      PROVE  Low(o, q) \in Nat /\ Low(o, q) < 2 * e /\ Low(o, q) >= e + n
  <2>1. q \in Positions(o) /\ Low(o, q) >= e + n
    BY <1>1 DEF Virtual, PastLeaf
  <2>2. Low(o, q) \in Nat /\ Low(o, q) \in Interval(o, q)
    BY <1>1, <2>1, IntervalIs
  <2>3. Interval(o, q) \subseteq e .. (2 * e - 1)
    BY <1>1, <2>1, InRoot
  <2>4. Low(o, q) \in e .. (2 * e - 1)
    BY <2>2, <2>3
  <2> QED
    BY <1>1, <2>1, <2>4
<1>3. PastLeaf(o, n) + (EffectiveSize(n) - n) = 2 * e /\ PastLeaf(o, n) + 0 = e + n
  BY <1>1 DEF PastLeaf
<1>4. ASSUME NEW q \in Virtual(o, n)
      PROVE  /\ ~(Low(o, q) >= PastLeaf(o, n) + (EffectiveSize(n) - n))
             /\ Low(o, q) < PastLeaf(o, n) + (EffectiveSize(n) - n)
             /\ Low(o, q) >= PastLeaf(o, n) + 0
             /\ ~(Low(o, q) < PastLeaf(o, n) + 0)
  BY <1>1, <1>2, <1>3
<1> QED
  BY <1>4 DEF Toggled

\* buddy_toggle_virtual_slots() marks or releases what covers the slots past the
\* arena, and nothing else.
LEMMA ToggleVirtualSlotsIs ==
    ASSUME NEW o, NEW n, Fits(o, n), NEW M, Kept(o, n, M), NEW state \in BOOLEAN,
           NEW B, NEW S, Holds(B, o, S),
           Sound(o, S, IF state THEN M ELSE M \cup Virtual(o, n))
    PROVE  \E T : /\ Holds(ToggleVirtualSlots(B, o, n, state), o, T)
                  /\ Sound(o, T, IF state THEN M \cup Virtual(o, n) ELSE M)
<1>0. /\ state => Toggled(o, n, M, state, EffectiveSize(n) - n) = M
      /\ state => Toggled(o, n, M, state, 0) = M \cup Virtual(o, n)
      /\ ~state => Toggled(o, n, M, state, EffectiveSize(n) - n) = M \cup Virtual(o, n)
      /\ ~state => Toggled(o, n, M, state, 0) = M
  BY ToggledEnds
<1> DEFINE a == [bits |-> B, pos |-> Right(1), delta |-> EffectiveSize(n) - n]
           X == VirtualStates(o, n, M, state)
           F == CHOOSE F : F = [k \in Nat |-> IF k = 0 THEN a
                                              ELSE VirtualTurn(o, n, state, F[k - 1])]
           step == [x \in Nat \X X |-> VirtualTurn(o, n, state, x[2])]
<1>1. PICK e \in Nat : /\ e = TwoTo[o - 1] /\ e = EffectiveSize(n) /\ n <= e /\ e < 2 * n
                       /\ o \in Orders /\ n \in Nat /\ o \in Nat
  BY FitIs, Halving
<1>2. a \in X /\ (a.delta = 0 \/ Depth(a.pos) = 2)
  <2>1. a.bits = B /\ a.pos = 3 /\ a.delta = e - n /\ e - n \in Nat
    BY <1>1 DEF Right
  <2>2. a \in [bits : SUBSET Nat, pos : Nat, delta : Nat]
    <3>1. B \in SUBSET Nat
      BY DEF Holds
    <3> QED
      BY <2>1, <3>1
  <2>3. Holds(B, o, S) /\ Sound(o, S, Toggled(o, n, M, state, e - n))
    <3>1. CASE state
      <4>1. Toggled(o, n, M, state, EffectiveSize(n) - n) = M
        BY <3>1, <1>0
      <4> QED
        BY <1>1, <3>1, <4>1
    <3>2. CASE ~state
      <4>1. Toggled(o, n, M, state, EffectiveSize(n) - n) = M \cup Virtual(o, n)
        BY <3>2, <1>0
      <4> QED
        BY <1>1, <3>2, <4>1
    <3> QED
      BY <3>1, <3>2
  <2>4. CASE e - n # 0
    <3>1. 1 \in Positions(o) /\ 1 < TwoTo[o - 1] /\ Depth(1) = 1
      <4>1. n >= 1
        BY FitIs
      <4> QED
        BY <1>1, <2>4, <4>1, Halving, RootIs
    <3>2. 3 \in Positions(o) /\ 3 \div 2 = 1 /\ Depth(3) = 2
      <4>1. 2 * 1 + 1 \in Positions(o) /\ Depth(2 * 1 + 1) = Depth(1) + 1
        BY <1>1, <3>1, ChildrenOf
      <4> QED
        BY <3>1, <4>1
    <3>3. PICK h \in Nat : Width(o, 3) = h /\ e = 2 * h /\ Low(o, 3) = e + h /\ Low(o, 1) = e
      <4>1. Width(o, 3) \in Nat
        BY <1>1, <3>2, IntervalIs
      <4>2. /\ Width(o, 1) = 2 * Width(o, 2 * 1) /\ Width(o, 1) = 2 * Width(o, 2 * 1 + 1)
            /\ Low(o, 2 * 1 + 1) = Low(o, 1) + Width(o, 2 * 1)
        BY <1>1, <3>1, Halves
      <4>3. Low(o, 1) = e /\ Width(o, 1) = e
        BY <1>1, RootInterval
      <4>4. Width(o, 2 * 1) \in Nat
        <5>1. 2 * 1 \in Positions(o)
          BY <1>1, <3>1, ChildrenOf
        <5> QED
          BY <1>1, <5>1, IntervalIs
      <4>5. 2 * 1 + 1 = 3
        OBVIOUS
      <4> QED
        BY <4>1, <4>2, <4>3, <4>4, <4>5
    <3>4. e - n <= h /\ (e + h) + h = (e + n) + (e - n) /\ e < e + n
      BY <1>1, <2>4, <3>3
    <3>5. VirtualAt(o, n, M, state, a)
      <4>1. PastLeaf(o, n) = e + n
        BY <1>1 DEF PastLeaf
      <4> HIDE DEF a
      <4> QED
        BY <2>1, <2>3, <3>2, <3>3, <3>4, <4>1 DEF VirtualAt
    <3> HIDE DEF a
    <3> QED
      BY <2>1, <2>2, <3>2, <3>5 DEF VirtualStates
  <2>5. CASE e - n = 0
    <3>1. VirtualAt(o, n, M, state, a)
      <4> HIDE DEF a
      <4> QED
        BY <2>1, <2>3, <2>5 DEF VirtualAt
    <3> HIDE DEF a
    <3> QED
      BY <2>1, <2>2, <2>5, <3>1 DEF VirtualStates
  <2> QED
    BY <2>4, <2>5
<1>3. step \in [Nat \X X -> X]
  <2>1. ASSUME NEW x \in Nat \X X PROVE step[x] \in X
    <3>1. x[2] \in X
      OBVIOUS
    <3>2. VirtualTurn(o, n, state, x[2]) \in X
      BY <3>1, VirtualTurnIs
    <3> QED
      BY <3>2
  <2> QED
    BY <2>1
<1> HIDE DEF a, X
<1>4. PICK f : Repeats(X, a, step, f)
  <2> HIDE DEF step
  <2> QED
    BY <1>2, <1>3, Repeat
<1>5. f \in [Nat -> X] /\ f[0] = a
  BY <1>4 DEF Repeats
<1>6. ASSUME NEW k \in Nat PROVE f[k + 1] = VirtualTurn(o, n, state, f[k])
  <2>1. <<k + 1, f[k]>> \in Nat \X X /\ f[k + 1] = step[<<k + 1, f[k]>>]
    <3> HIDE DEF step
    <3> QED
      BY <1>4 DEF Repeats
  <2> QED
    BY <2>1
<1>7. ASSUME NEW k \in Nat PROVE f[k] = IF k = 0 THEN a ELSE VirtualTurn(o, n, state, f[k - 1])
  <2>1. k # 0 => k - 1 \in Nat /\ (k - 1) + 1 = k
    OBVIOUS
  <2> QED
    BY <1>5, <1>6, <2>1
<1>8. f = [k \in Nat |-> IF k = 0 THEN a ELSE VirtualTurn(o, n, state, f[k - 1])]
  BY <1>5, <1>7
<1>9. F = [k \in Nat |-> IF k = 0 THEN a ELSE VirtualTurn(o, n, state, F[k - 1])]
  BY <1>8
<1>10. ToggleVirtualSlots(B, o, n, state) = F[o].bits
  BY DEF ToggleVirtualSlots, a
<1> HIDE DEF F, step
<1>11. F[0] = a /\ \A k \in Nat : F[k + 1] = VirtualTurn(o, n, state, F[k])
  <2>1. F[0] = a
    BY <1>9
  <2>2. ASSUME NEW k \in Nat PROVE F[k + 1] = VirtualTurn(o, n, state, F[k])
    <3>1. k + 1 \in Nat /\ k + 1 # 0 /\ (k + 1) - 1 = k
      OBVIOUS
    <3> QED
      BY <1>9, <3>1
  <2> QED
    BY <2>1, <2>2
<1> DEFINE G == {k \in Nat : F[k] \in X /\ (F[k].delta = 0 \/ Depth(F[k].pos) = k + 2)}
<1>12. \A k \in Nat : k \in G
  <2>1. 0 \in G
    BY <1>2, <1>11
  <2>2. ASSUME NEW k \in Nat, k \in G PROVE k + 1 \in G
    <3>1. F[k] \in X /\ F[k + 1] = VirtualTurn(o, n, state, F[k])
      BY <1>11, <2>2
    <3>2. /\ F[k + 1] \in X
          /\ F[k].delta = 0 => F[k + 1].delta = 0
          /\ F[k].delta # 0 => F[k + 1].delta = 0 \/ Depth(F[k + 1].pos) = Depth(F[k].pos) + 1
      BY <3>1, VirtualTurnIs DEF X
    <3>3. F[k].delta = 0 \/ Depth(F[k].pos) = k + 2
      BY <2>2
    <3>4. k + 1 \in Nat /\ (k + 2) + 1 = (k + 1) + 2
      OBVIOUS
    <3>5. F[k + 1].delta = 0 \/ Depth(F[k + 1].pos) = (k + 1) + 2
      BY <3>2, <3>3, <3>4
    <3> QED
      BY <3>2, <3>4, <3>5
  <2> HIDE DEF G
  <2> QED
    BY <2>1, <2>2, EveryNatural
<1>13. F[o] \in X /\ (F[o].delta = 0 \/ Depth(F[o].pos) = o + 2)
  BY <1>1, <1>12
<1>14. VirtualAt(o, n, M, state, F[o])
  BY <1>13 DEF X, VirtualStates
<1>15. F[o].delta = 0
  <2>1. SUFFICES ASSUME F[o].delta # 0 PROVE FALSE
    OBVIOUS
  <2>2. F[o].pos \in Positions(o)
    BY <1>14, <2>1 DEF VirtualAt
  <2>3. Depth(F[o].pos) \in Nat /\ Depth(F[o].pos) <= o
    BY <1>1, <2>2, Family
  <2> QED
    BY <1>1, <1>13, <2>1, <2>3
<1>16. \E T : Holds(F[o].bits, o, T) /\ Sound(o, T, Toggled(o, n, M, state, 0))
  BY <1>14, <1>15 DEF VirtualAt
<1>17. CASE state
  <2>1. Toggled(o, n, M, state, 0) = M \cup Virtual(o, n)
    BY <1>17, <1>0
  <2> QED
    BY <1>10, <1>16, <1>17, <2>1
<1>18. CASE ~state
  <2>1. Toggled(o, n, M, state, 0) = M
    BY <1>18, <1>0
  <2> QED
    BY <1>10, <1>16, <1>18, <2>1
<1> QED
  BY <1>17, <1>18

-----------------------------------------------------------------------------
(* buddy_reserve_range() and buddy_unsafe_release_range() *)

\* Repetition up to a bound.
RepeatsTo(n, S, a, step, f) ==
    /\ f \in [0 .. n -> S] /\ f[0] = a
    /\ \A k \in 0 .. (n - 1) : f[k + 1] = step[<<k + 1, f[k]>>]

\* The same up to a bound.
LEMMA RepeatTo ==
    ASSUME NEW n \in Nat, NEW S, NEW a \in S, NEW step \in [Nat \X S -> S]
    PROVE  \E f : RepeatsTo(n, S, a, step, f)
<1>1. PICK h : Repeats(S, a, step, h)
  BY Repeat
<1> DEFINE g == [k \in 0 .. n |-> h[k]]
<1>2. h \in [Nat -> S] /\ h[0] = a /\ \A k \in Nat : h[k + 1] = step[<<k + 1, h[k]>>]
  BY <1>1 DEF Repeats
<1>3. g \in [0 .. n -> S] /\ g[0] = a
  BY <1>2
<1>4. ASSUME NEW k \in 0 .. (n - 1) PROVE g[k + 1] = step[<<k + 1, g[k]>>]
  <2>1. k \in Nat /\ k \in 0 .. n /\ k + 1 \in 0 .. n
    OBVIOUS
  <2>2. g[k] = h[k] /\ g[k + 1] = h[k + 1]
    BY <2>1
  <2> HIDE DEF g
  <2> QED
    BY <1>2, <2>1, <2>2
<1> HIDE DEF g
<1> QED
  BY <1>3, <1>4 DEF RepeatsTo

\* Induction as far as n.
LEMMA UpTo ==
    ASSUME NEW n \in Nat, NEW G, 0 \in G, \A k \in 0 .. (n - 1) : k \in G => k + 1 \in G
    PROVE  \A k \in 0 .. n : k \in G
<1> DEFINE H == {k \in Nat : k <= n => k \in G}
<1>1. 0 \in H
  OBVIOUS
<1>2. ASSUME NEW k \in Nat, k \in H PROVE k + 1 \in H
  <2>1. CASE k + 1 <= n
    <3>1. k \in 0 .. (n - 1) /\ k <= n
      BY <2>1
    <3>2. k \in G
      BY <1>2, <3>1
    <3> QED
      BY <3>1, <3>2
  <2>2. CASE ~(k + 1 <= n)
    BY <2>2
  <2> QED
    BY <2>1, <2>2
<1>3. \A k \in Nat : k \in H
  <2> HIDE DEF H
  <2> QED
    BY <1>1, <1>2, EveryNatural
<1>4. ASSUME NEW k \in 0 .. n PROVE k \in G
  <2>1. k \in Nat /\ k <= n
    OBVIOUS
  <2> QED
    BY <1>3, <2>1
<1> QED
  BY <1>4

\* The leaf of slot i, and the marks after k turns of a range loop.
Leaf(o, i) == TwoTo[o - 1] + i
Leaves(o, s, k) == {Leaf(o, i) : i \in s .. (s + k - 1)}
Ranged(o, M, s, k, reserve) == IF reserve THEN M \cup Leaves(o, s, k) ELSE M \ Leaves(o, s, k)

\* The leaf of a slot.
LEMMA LeafIs ==
    ASSUME NEW o \in Orders, NEW i \in Nat, i < TwoTo[o - 1]
    PROVE  /\ Leaf(o, i) \in Positions(o) /\ Leaf(o, i) \in Nat /\ Leaf(o, i) >= TwoTo[o - 1]
           /\ Depth(Leaf(o, i)) = o /\ Interval(o, Leaf(o, i)) = {Leaf(o, i)}
           /\ Low(o, Leaf(o, i)) = Leaf(o, i) /\ Width(o, Leaf(o, i)) = 1
<1>1. PICK e \in Nat : e = TwoTo[o - 1] /\ TwoTo[o] = 2 * e /\ e >= 1
  BY Halving
<1>2. Leaf(o, i) \in Nat /\ Leaf(o, i) >= e /\ Leaf(o, i) < 2 * e
  BY <1>1 DEF Leaf
<1>3. Leaf(o, i) \in Positions(o)
  BY <1>1, <1>2 DEF Positions
<1>4. Depth(Leaf(o, i)) = o
  BY <1>1, <1>2, <1>3, Family
<1>5. PICK l \in Nat : l = Leaf(o, i) /\ Low(o, l) = l /\ Width(o, l) = 1 /\ l \in Positions(o)
  BY <1>1, <1>2, <1>3, IntervalIs
<1>6. Interval(o, l) = Low(o, l) .. (Low(o, l) + Width(o, l) - 1)
  BY <1>5, IntervalIs
<1>7. Interval(o, l) = {l}
  BY <1>5, <1>6
<1> QED
  BY <1>1, <1>2, <1>3, <1>4, <1>5, <1>7

\* A turn of the loop over a range marks or releases one more leaf.
LEMMA RangeTurn ==
    ASSUME NEW o \in Orders, NEW M, NEW s \in Nat, NEW k \in Nat, s + k < TwoTo[o - 1],
           NEW reserve \in BOOLEAN,
           reserve => \A m \in M : Interval(o, m) \cap Interval(o, Leaf(o, s + k)) = {},
           NEW C, NEW S, Holds(C, o, S), Sound(o, S, Ranged(o, M, s, k, reserve))
    PROVE  \E T : /\ Holds(Toggle(C, o, Leaf(o, s + k), reserve), o, T)
                  /\ Sound(o, T, Ranged(o, M, s, k + 1, reserve))
<1>1. PICK e \in Nat : e = TwoTo[o - 1]
  BY Halving
<1>2. PICK w : w = Leaf(o, s + k)
  OBVIOUS
<1>3. /\ w \in Positions(o) /\ w \in Nat /\ w >= TwoTo[o - 1] /\ Depth(w) = o /\ Interval(o, w) = {w}
  BY <1>1, <1>2, LeafIs
<1>4. Leaves(o, s, k + 1) = Leaves(o, s, k) \cup {w}
  <2>1. s .. (s + (k + 1) - 1) = (s .. (s + k - 1)) \cup {s + k}
    OBVIOUS
  <2> QED
    BY <1>2, <2>1 DEF Leaves
<1>5. ASSUME NEW m \in Leaves(o, s, k) PROVE m # w /\ Interval(o, m) = {m}
  <2>1. PICK i \in s .. (s + k - 1) : m = Leaf(o, i)
    BY DEF Leaves
  <2>2. i \in Nat /\ i < TwoTo[o - 1] /\ i # s + k
    BY <1>1, <2>1
  <2>3. m # w
    BY <1>1, <1>2, <2>1, <2>2 DEF Leaf
  <2> QED
    BY <2>1, <2>2, <2>3, LeafIs
<1>6. CASE reserve
  <2>1. Ranged(o, M, s, k, reserve) = M \cup Leaves(o, s, k)
    BY <1>6 DEF Ranged
  <2>2. ASSUME NEW m \in M \cup Leaves(o, s, k) PROVE Interval(o, m) \cap Interval(o, w) = {}
    BY <1>2, <1>3, <1>5, <1>6
  <2>3. \E T : Holds(Mark(C, o, w), o, T) /\ Sound(o, T, (M \cup Leaves(o, s, k)) \cup {w})
    <3>1. Sound(o, S, M \cup Leaves(o, s, k))
      BY <2>1
    <3> QED
      BY <1>3, <2>2, <3>1, MarkIs
  <2>4. (M \cup Leaves(o, s, k)) \cup {w} = Ranged(o, M, s, k + 1, reserve)
    BY <1>4, <1>6 DEF Ranged
  <2>5. Toggle(C, o, w, reserve) = Mark(C, o, w)
    BY <1>6 DEF Toggle
  <2> QED
    BY <1>2, <2>3, <2>4, <2>5
<1>7. CASE ~reserve
  <2>1. PICK N : N = Ranged(o, M, s, k, reserve) /\ N = M \ Leaves(o, s, k) /\ Sound(o, S, N)
    BY <1>7 DEF Ranged
  <2>2. Ranged(o, M, s, k + 1, reserve) = N \ {w}
    BY <1>4, <1>7, <2>1 DEF Ranged
  <2>3. Toggle(C, o, w, reserve) = Release(C, o, w)
    BY <1>7 DEF Toggle
  <2>4. CASE w \in N
    <3>1. \E T : Holds(Release(C, o, w), o, T) /\ Sound(o, T, N \ {w})
      BY <2>1, <2>4, ReleaseIs
    <3> QED
      BY <1>2, <2>2, <2>3, <3>1
  <2>5. CASE w \notin N
    <3>1. Release(C, o, w) = C
      BY <1>3, <2>1, <2>5, ReleaseNothing
    <3>2. N \ {w} = N
      BY <2>5
    <3> QED
      BY <1>2, <2>1, <2>2, <2>3, <3>1, <3>2
  <2> QED
    BY <2>4, <2>5
<1> QED
  BY <1>6, <1>7

\* buddy_reserve_range() marks every slot of the range, and
\* buddy_unsafe_release_range() releases those that are marked.
LEMMA ToggleRangeIs ==
    ASSUME order \in Orders, NEW M, NEW s \in Nat, NEW n \in Nat, s + n <= TwoTo[order - 1],
           NEW reserve \in BOOLEAN,
           reserve => \A m \in M : \A i \in s .. (s + n - 1) :
                         Interval(order, m) \cap Interval(order, Leaf(order, i)) = {},
           NEW S, Holds(bits, order, S), Sound(order, S, M)
    PROVE  \E T : /\ Holds(ToggleRange(s, n, reserve), order, T)
                  /\ Sound(order, T, Ranged(order, M, s, n, reserve))
<1>1. PICK o \in Orders : o = order
  OBVIOUS
<1> DEFINE Turn(k, C) == Toggle(C, order, DeepestPosition(s + k - 1), reserve)
           Good(k, C) == \E T : Holds(C, o, T) /\ Sound(o, T, Ranged(o, M, s, k, reserve))
           X == SUBSET Nat
           step == [x \in Nat \X X |-> IF Turn(x[1], x[2]) \in X THEN Turn(x[1], x[2]) ELSE {}]
           F == CHOOSE F : F = [k \in 0 .. n |-> IF k = 0 THEN bits ELSE Turn(k, F[k - 1])]
<1>2. ASSUME NEW k \in 0 .. (n - 1), NEW C, Good(k, C) PROVE Good(k + 1, Turn(k + 1, C))
  <2>1. PICK e \in Nat : e = TwoTo[o - 1]
    BY Halving
  <2>2. k \in Nat /\ s + k < TwoTo[o - 1] /\ s + k \in s .. (s + n - 1) /\ s + (k + 1) - 1 = s + k
    BY <1>1, <2>1
  <2>3. PICK T : Holds(C, o, T) /\ Sound(o, T, Ranged(o, M, s, k, reserve))
    BY <1>2
  <2>4. reserve => \A m \in M : Interval(o, m) \cap Interval(o, Leaf(o, s + k)) = {}
    BY <1>1, <2>2
  <2>5. Turn(k + 1, C) = Toggle(C, o, Leaf(o, s + k), reserve)
    BY <1>1, <2>2 DEF DeepestPosition, Leaf
  <2>6. \E U : /\ Holds(Toggle(C, o, Leaf(o, s + k), reserve), o, U)
               /\ Sound(o, U, Ranged(o, M, s, k + 1, reserve))
    <3> HIDE DEF Turn, Good, step, F
    <3> QED
      BY <2>2, <2>3, <2>4, RangeTurn
  <2> QED
    BY <2>5, <2>6
<1>3. ASSUME NEW k, NEW C, Good(k, C) PROVE C \in X
  BY <1>3 DEF Holds
<1>4. Good(0, bits) /\ bits \in X
  <2>1. Leaves(o, s, 0) = {}
    <3>1. s .. (s + 0 - 1) = {}
      OBVIOUS
    <3> QED
      BY <3>1 DEF Leaves
  <2>2. Ranged(o, M, s, 0, reserve) = M
    BY <2>1 DEF Ranged
  <2>3. bits \in X
    BY DEF Holds
  <2> QED
    BY <1>1, <2>2, <2>3
<1>5. step \in [Nat \X X -> X]
  <2> HIDE DEF Turn
  <2> QED
    OBVIOUS
<1>6. PICK f : RepeatsTo(n, X, bits, step, f)
  <2> HIDE DEF X, step, Good, Turn, F
  <2>1. bits \in X
    BY <1>4
  <2> QED
    BY <1>5, <2>1, RepeatTo
<1>7. \A k \in 0 .. n : Good(k, f[k])
  <2> DEFINE G == {k \in 0 .. n : Good(k, f[k])}
  <2>1. 0 \in G
    BY <1>4, <1>6 DEF RepeatsTo
  <2>2. ASSUME NEW k \in 0 .. (n - 1), k \in G PROVE k + 1 \in G
    <3>1. Good(k, f[k])
      BY <2>2
    <3> HIDE DEF Good, Turn
    <3>2. Good(k + 1, Turn(k + 1, f[k])) /\ Turn(k + 1, f[k]) \in X
      <4> HIDE DEF X
      <4> QED
        BY <1>2, <1>3, <3>1
    <3>3. <<k + 1, f[k]>> \in Nat \X X /\ k + 1 \in 0 .. n
      BY <1>6 DEF RepeatsTo
    <3>4. f[k + 1] = Turn(k + 1, f[k])
      BY <1>6, <3>2, <3>3 DEF RepeatsTo
    <3> QED
      BY <3>2, <3>3, <3>4
  <2> HIDE DEF G
  <2>3. \A k \in 0 .. n : k \in G
    BY <2>1, <2>2, UpTo
  <2> USE DEF G
  <2> HIDE DEF Good
  <2> QED
    BY <2>3
<1> HIDE DEF Good
<1>8. ASSUME NEW k \in 0 .. n PROVE f[k] = IF k = 0 THEN bits ELSE Turn(k, f[k - 1])
  <2> HIDE DEF Turn
  <2>1. CASE k = 0
    BY <1>6, <2>1 DEF RepeatsTo
  <2>2. CASE k # 0
    <3>1. k - 1 \in 0 .. (n - 1) /\ k - 1 \in 0 .. n /\ (k - 1) + 1 = k
      BY <2>2
    <3>2. PICK j \in 0 .. (n - 1) : j = k - 1 /\ j + 1 = k /\ j \in 0 .. n
      BY <3>1
    <3>3. Turn(j + 1, f[j]) \in X
      <4> HIDE DEF X
      <4> QED
        BY <1>2, <1>3, <1>7, <3>2
    <3>4. <<j + 1, f[j]>> \in Nat \X X
      BY <1>6, <3>2 DEF RepeatsTo
    <3>5. f[j + 1] = step[<<j + 1, f[j]>>]
      <4> HIDE DEF X, step
      <4> QED
        BY <1>6, <3>2 DEF RepeatsTo
    <3>6. f[j + 1] = Turn(j + 1, f[j])
      <4> HIDE DEF X
      <4> QED
        BY <3>3, <3>4, <3>5
    <3> QED
      BY <2>2, <3>2, <3>6
  <2> QED
    BY <2>1, <2>2
<1>9. f = [k \in 0 .. n |-> IF k = 0 THEN bits ELSE Turn(k, f[k - 1])]
  <2> HIDE DEF Turn, X
  <2> QED
    BY <1>6, <1>8 DEF RepeatsTo
<1>10. F = [k \in 0 .. n |-> IF k = 0 THEN bits ELSE Turn(k, F[k - 1])]
  BY <1>9
<1>11. ToggleRange(s, n, reserve) = F[n]
  BY DEF ToggleRange
<1> HIDE DEF F, Turn, step, X
<1>12. \A k \in 0 .. n : Good(k, F[k])
  <2> DEFINE G == {k \in 0 .. n : Good(k, F[k])}
  <2>1. 0 \in G
    <3>1. 0 \in 0 .. n
      OBVIOUS
    <3> QED
      BY <1>4, <1>10, <3>1
  <2>2. ASSUME NEW k \in 0 .. (n - 1), k \in G PROVE k + 1 \in G
    <3>1. k + 1 \in 0 .. n /\ k + 1 # 0 /\ (k + 1) - 1 = k
      OBVIOUS
    <3>2. F[k + 1] = Turn(k + 1, F[k])
      BY <1>10, <3>1
    <3> QED
      BY <1>2, <2>2, <3>1, <3>2
  <2> HIDE DEF G
  <2>3. \A k \in 0 .. n : k \in G
    BY <2>1, <2>2, UpTo
  <2> USE DEF G
  <2> QED
    BY <2>3
<1>13. Good(n, F[n])
  BY <1>12
<1> QED
  BY <1>1, <1>11, <1>13 DEF Good

-----------------------------------------------------------------------------
(* buddy_tree_grow(): the rows move *)

\* The bits after buddy_tree_grow() has moved the rows from depth c on.
Moved(B, o, c) ==
    {y \in Nat : \/ y \in B /\ y < RowAt(o, c)
                 \/ \E e \in c .. o, x \in B :
                       /\ RowAt(o, e) <= x /\ x < RowAt(o, e + 1)
                       /\ y = x + (RowAt(o + 1, e + 1) - RowAt(o, e))}

\* Where the row of depth d begins, its bits, and where they go.
LEMMA RowMoves ==
    ASSUME NEW o \in Orders, NEW d \in 1 .. o
    PROVE  \E a \in Nat, b \in Nat, w \in Nat :
              /\ a = RowAt(o, d) /\ b = RowAt(o + 1, d + 1)
              /\ w = (o - d + 1) * TwoTo[d - 1] /\ w >= 1
              /\ a + w = RowAt(o, d + 1) /\ b + 2 * w = RowAt(o + 1, d + 2)
              /\ a < b
<1>1. o \in Nat /\ d \in Nat /\ d >= 1 /\ o + 1 \in Nat /\ d + 1 \in Nat /\ d - 1 \in Nat
  BY DEF Orders
<1>2. PICK n \in Nat, l \in Nat : n = TwoTo[d - 1] /\ n >= 1 /\ l = o - d + 1 /\ l >= 1
  BY <1>1, PowersGrow
<1>3. TwoTo[d] = 2 * n
  <2>1. TwoTo[(d - 1) + 1] = 2 * TwoTo[d - 1]
    BY <1>1, Powers
  <2>2. (d - 1) + 1 = d
    BY <1>1
  <2> QED
    BY <1>2, <2>1, <2>2
<1>4. l * n \in Nat /\ l * n >= 1 /\ l * (2 * n) = 2 * (l * n)
  BY <1>2
<1>5. RowAt(o, d) \in Nat /\ RowAt(o, d + 1) = RowAt(o, d) + l * n
  <2>1. RowAt(o, d) \in Nat
    BY <1>1, RowsGrow
  <2>2. RowAt(o, d + 1) = RowAt(o, d) + (o - d + 1) * TwoTo[d - 1]
    BY <1>1, RowsFollow
  <2> QED
    BY <1>2, <2>1, <2>2
<1>6. RowAt(o + 1, d + 1) \in Nat /\ RowAt(o + 1, d + 2) = RowAt(o + 1, d + 1) + 2 * (l * n)
  <2>1. RowAt(o + 1, d + 1) \in Nat
    <3>1. d + 1 <= (o + 1) + 1 /\ d + 1 >= 1
      BY <1>1
    <3> QED
      BY <1>1, <3>1, RowsGrow
  <2>2. RowAt(o + 1, (d + 1) + 1) = RowAt(o + 1, d + 1)
                                      + ((o + 1) - (d + 1) + 1) * TwoTo[(d + 1) - 1]
    <3>1. d + 1 >= 1
      BY <1>1
    <3> QED
      BY <1>1, <3>1, RowsFollow
  <2>3. (d + 1) + 1 = d + 2 /\ (o + 1) - (d + 1) + 1 = l /\ (d + 1) - 1 = d
    BY <1>1, <1>2
  <2> QED
    BY <1>3, <1>4, <2>1, <2>2, <2>3
<1>7. RowAt(o, d) < RowAt(o + 1, d + 1)
  <2> DEFINE G == {k \in Nat : k < o => RowAt(o, k + 1) < RowAt(o + 1, k + 2)}
  <2>1. 0 \in G
    <3>1. RowAt(o, 1) = 0 /\ RowAt(o + 1, 1) = 0
      BY <1>1, RowsFollow
    <3>2. RowAt(o + 1, 1 + 1) = RowAt(o + 1, 1) + ((o + 1) - 1 + 1) * TwoTo[1 - 1]
      BY <1>1, RowsFollow
    <3>3. TwoTo[1 - 1] = 1 /\ ((o + 1) - 1 + 1) * 1 = o + 1
      BY <1>1, Powers
    <3> QED
      BY <1>1, <3>1, <3>2, <3>3
  <2>2. ASSUME NEW k \in Nat, k \in G PROVE k + 1 \in G
    <3>1. SUFFICES ASSUME k + 1 < o PROVE RowAt(o, (k + 1) + 1) < RowAt(o + 1, (k + 1) + 2)
      OBVIOUS
    <3>2. RowAt(o, k + 1) < RowAt(o + 1, k + 2)
      BY <1>1, <2>2, <3>1
    <3>3. PICK x \in Int, m \in Nat, h \in Nat :
             x = RowAt(o, k + 1) /\ m = o - k /\ h = TwoTo[k] /\ h >= 1 /\ m >= 1
      <4>1. RowAt(o, k + 1) \in Int
        BY <1>1, RowsFollow
      <4>2. TwoTo[k] \in Nat /\ TwoTo[k] >= 1
        BY PowersGrow
      <4> QED
        BY <1>1, <3>1, <4>1, <4>2
    <3>4. RowAt(o, (k + 1) + 1) = x + m * h
      <4>1. RowAt(o, (k + 1) + 1) = RowAt(o, k + 1) + (o - (k + 1) + 1) * TwoTo[(k + 1) - 1]
        BY <1>1, RowsFollow
      <4>2. o - (k + 1) + 1 = m /\ (k + 1) - 1 = k
        BY <1>1, <3>3
      <4> QED
        BY <3>3, <4>1, <4>2
    <3>5. PICK y \in Int : y = RowAt(o + 1, k + 2) /\ RowAt(o + 1, (k + 1) + 2) = y + m * (2 * h)
      <4>1. RowAt(o + 1, k + 2) \in Int
        BY <1>1, RowsFollow
      <4>2. RowAt(o + 1, (k + 2) + 1) = RowAt(o + 1, k + 2)
                                          + ((o + 1) - (k + 2) + 1) * TwoTo[(k + 2) - 1]
        BY <1>1, RowsFollow
      <4>3. (k + 2) + 1 = (k + 1) + 2 /\ (o + 1) - (k + 2) + 1 = m /\ (k + 2) - 1 = k + 1
        BY <1>1, <3>3
      <4>4. TwoTo[k + 1] = 2 * h
        BY <3>3, Powers
      <4> QED
        BY <4>1, <4>2, <4>3, <4>4
    <3>6. m * h \in Nat /\ m * (2 * h) >= m * h /\ m * (2 * h) \in Nat
      BY <3>3
    <3> QED
      BY <3>2, <3>3, <3>4, <3>5, <3>6
  <2> HIDE DEF G
  <2>3. \A k \in Nat : k \in G
    BY <2>1, <2>2, EveryNatural
  <2>4. d - 1 \in G
    BY <1>1, <2>3
  <2> USE DEF G
  <2>5. (d - 1) + 1 = d /\ (d - 1) + 2 = d + 1 /\ d - 1 < o
    BY <1>1
  <2> QED
    BY <2>4, <2>5
<1> QED
  BY <1>2, <1>4, <1>5, <1>6, <1>7

\* A row of w bits at a, moved to b; the w bits behind it are cleared.
Shifted(C, a, b, w) ==
    {x \in C : x < a \/ x >= b + 2 * w} \cup {x + (b - a) : x \in C \cap (a .. (a + w - 1))}

\* Shifting a row to the right and clearing the second half of its new place moves
\* it and nothing else.
LEMMA ShiftIs ==
    ASSUME NEW C \in SUBSET Nat, NEW a \in Nat, NEW b \in Nat, NEW w \in Nat, a < b, w >= 1
    PROVE  ClearRange(ShiftRight(C, a, a + w, b - a), b + w, b + 2 * w - 1)
             = Shifted(C, a, b, w)
<1> DEFINE E == ClearRange(ShiftRight(C, a, a + w, b - a), b + w, b + 2 * w - 1)
           D == {x \in C : x < a \/ x >= b + 2 * w} \cup {x + (b - a) : x \in C \cap (a .. (a + w - 1))}
<1>1. a + (b - a) = b /\ (a + w) + (b - a) = b + w /\ a + (b - a) - 1 = b - 1
  OBVIOUS
<1>2. E = (((C \ (b .. (b + w))) \cup {x + (b - a) : x \in C \cap (a .. (a + w))}) \ (a .. (b - 1)))
            \ ((b + w) .. (b + 2 * w - 1))
  BY <1>1 DEF ClearRange, ShiftRight
<1>3. ASSUME NEW y \in E PROVE y \in D
  <2>1. y \notin a .. (b - 1) /\ y \notin (b + w) .. (b + 2 * w - 1)
    BY <1>2
  <2>2. CASE y \in C /\ y \notin b .. (b + w)
    <3>1. y < a \/ y >= b + 2 * w
      BY <2>1, <2>2
    <3> QED
      BY <2>2, <3>1
  <2>3. CASE \E x \in C \cap (a .. (a + w)) : y = x + (b - a)
    <3>1. PICK x \in C \cap (a .. (a + w)) : y = x + (b - a)
      BY <2>3
    <3>2. x # a + w
      BY <2>1, <3>1
    <3>3. x \in C \cap (a .. (a + w - 1))
      BY <3>1, <3>2
    <3> QED
      BY <3>1, <3>3
  <2> QED
    BY <1>2, <2>2, <2>3
<1>4. ASSUME NEW y \in D PROVE y \in E
  <2>1. CASE y \in C /\ (y < a \/ y >= b + 2 * w)
    BY <1>2, <2>1
  <2>2. CASE \E x \in C \cap (a .. (a + w - 1)) : y = x + (b - a)
    <3>1. PICK x \in C \cap (a .. (a + w - 1)) : y = x + (b - a)
      BY <2>2
    <3>2. x \in C \cap (a .. (a + w))
      BY <3>1
    <3>3. y \notin a .. (b - 1) /\ y \notin (b + w) .. (b + 2 * w - 1)
      BY <3>1
    <3> QED
      BY <1>2, <3>1, <3>2, <3>3
  <2> QED
    BY <2>1, <2>2
<1> QED
  BY <1>3, <1>4 DEF Shifted

\* The first position of a row is where the row begins.
LEMMA RowStart ==
    ASSUME NEW o \in Orders, NEW d \in 1 .. o
    PROVE  Location(o, TwoTo[d - 1]) = RowAt(o, d)
<1>1. o \in Nat /\ d \in Nat /\ d >= 1 /\ d - 1 \in Nat /\ d <= o
  BY DEF Orders
<1>2. PICK n \in Nat : n = TwoTo[d - 1] /\ n >= 1
  BY <1>1, PowersGrow
<1>3. n < TwoTo[d] /\ TwoTo[d] <= TwoTo[o] /\ TwoTo[d] \in Nat /\ TwoTo[o] \in Nat
  <2>1. TwoTo[d] \in Nat /\ TwoTo[o] \in Nat /\ TwoTo[d] <= TwoTo[o]
    BY <1>1, PowersGrow
  <2>2. 2 * TwoTo[d - 1] <= TwoTo[d]
    BY <1>1, PowersGrow
  <2> QED
    BY <1>2, <2>1, <2>2
<1>4. Depth(n) = d
  BY <1>1, <1>2, <1>3, DepthIs
<1>5. n \in Positions(o)
  BY <1>2, <1>3 DEF Positions
<1>6. Location(o, n) = RowAt(o, d) + LocalOffset(o, n) * (n - TwoTo[d - 1]) /\ LocalOffset(o, n) \in Nat
  BY <1>4, <1>5, FieldIs, Family
<1>7. n - TwoTo[d - 1] = 0
  BY <1>2
<1>8. RowAt(o, d) \in Nat
  BY <1>1, RowsGrow
<1> QED
  BY <1>2, <1>6, <1>7, <1>8

\* A turn of buddy_tree_grow() moves one more row.
LEMMA GrowRowIs ==
    ASSUME NEW o \in Orders, NEW B \in SUBSET Nat, NEW d \in 1 .. o
    PROVE  GrowRow(Moved(B, o, d + 1), o, d) = Moved(B, o, d)
<1>1. PICK a \in Nat, b \in Nat, w \in Nat :
              /\ a = RowAt(o, d) /\ b = RowAt(o + 1, d + 1)
              /\ w = (o - d + 1) * TwoTo[d - 1] /\ w >= 1
              /\ a + w = RowAt(o, d + 1) /\ b + 2 * w = RowAt(o + 1, d + 2)
              /\ a < b
  BY RowMoves
<1>2. o \in Nat /\ d \in Nat /\ d >= 1 /\ d <= o /\ o + 1 \in Orders /\ d + 1 \in 1 .. (o + 1)
  BY DEF Orders
<1>3. Location(o, TwoTo[d - 1]) = a
  BY <1>1, RowStart
<1>4. Location(o + 1, TwoTo[d]) = b
  <2>1. Location(o + 1, TwoTo[(d + 1) - 1]) = RowAt(o + 1, d + 1)
    BY <1>2, RowStart
  <2>2. (d + 1) - 1 = d
    BY <1>2
  <2> QED
    BY <1>1, <2>1, <2>2
<1>5. PICK C : C = Moved(B, o, d + 1)
  OBVIOUS
<1>6. C \in SUBSET Nat
  BY <1>5 DEF Moved
<1>7. GrowRow(C, o, d) = ClearRange(ShiftRight(C, a, a + w, b - a), b + w, b + 2 * w - 1)
  BY <1>1, <1>3, <1>4 DEF GrowRow
<1>8. GrowRow(C, o, d)
        = {x \in C : x < a \/ x >= b + 2 * w} \cup {x + (b - a) : x \in C \cap (a .. (a + w - 1))}
  <2>1. ClearRange(ShiftRight(C, a, a + w, b - a), b + w, b + 2 * w - 1) = Shifted(C, a, b, w)
    BY <1>1, <1>6, ShiftIs
  <2> QED
    BY <1>7, <2>1 DEF Shifted
\* What the later rows hold lies behind this one.
<1>9. ASSUME NEW e \in (d + 1) .. o, NEW x \in B, RowAt(o, e) <= x
      PROVE  /\ x + (RowAt(o + 1, e + 1) - RowAt(o, e)) \in Nat
             /\ x + (RowAt(o + 1, e + 1) - RowAt(o, e)) >= b + 2 * w
  <2>1. e \in Nat /\ e \in 1 .. o /\ d + 2 <= e + 1 /\ e + 1 <= (o + 1) + 1 /\ d + 2 \in Nat /\ d + 2 >= 1
    BY <1>2
  <2>2. RowAt(o + 1, d + 2) <= RowAt(o + 1, e + 1)
    <3>1. o + 1 \in Nat /\ e + 1 \in Nat
      BY <1>2, <2>1
    <3> QED
      BY <2>1, <3>1, RowsGrow
  <2>3. PICK s \in Nat, t \in Nat : s = RowAt(o, e) /\ t = RowAt(o + 1, e + 1)
    BY <2>1, RowMoves
  <2>4. x \in Nat
    OBVIOUS
  <2> QED
    BY <1>1, <1>9, <2>2, <2>3, <2>4
<1>10. ASSUME NEW y \in GrowRow(C, o, d) PROVE y \in Moved(B, o, d)
  <2>1. CASE y \in C /\ (y < a \/ y >= b + 2 * w)
    <3>1. y \in Nat
      BY <1>6, <2>1
    <3>2. CASE y \in B /\ y < RowAt(o, d + 1)
      <4>1. y < a
        BY <1>1, <2>1, <3>1, <3>2
      <4> QED
        BY <1>1, <3>1, <3>2, <4>1 DEF Moved
    <3>3. CASE \E e \in (d + 1) .. o, x \in B :
                       /\ RowAt(o, e) <= x /\ x < RowAt(o, e + 1)
                       /\ y = x + (RowAt(o + 1, e + 1) - RowAt(o, e))
      <4>1. (d + 1) .. o \subseteq d .. o
        BY <1>2
      <4> QED
        BY <3>1, <3>3, <4>1 DEF Moved
    <3> QED
      BY <1>5, <2>1, <3>2, <3>3 DEF Moved
  <2>2. CASE \E x \in C \cap (a .. (a + w - 1)) : y = x + (b - a)
    <3>1. PICK x \in C \cap (a .. (a + w - 1)) : y = x + (b - a)
      BY <2>2
    <3>2. x \in Nat /\ a <= x /\ x < a + w
      BY <1>6, <3>1
    <3>3. x \in B
      <4>1. CASE x \in B /\ x < RowAt(o, d + 1)
        BY <4>1
      <4>2. CASE \E e \in (d + 1) .. o, z \in B :
                       /\ RowAt(o, e) <= z /\ z < RowAt(o, e + 1)
                       /\ x = z + (RowAt(o + 1, e + 1) - RowAt(o, e))
        <5>1. x >= b + 2 * w
          BY <1>9, <4>2
        <5> QED
          BY <1>1, <3>2, <5>1
      <4> QED
        BY <1>5, <3>1, <4>1, <4>2 DEF Moved
    <3>4. y \in Nat /\ d \in d .. o
      BY <1>1, <1>2, <3>1, <3>2
    <3>5. RowAt(o, d) <= x /\ x < RowAt(o, d + 1) /\ y = x + (RowAt(o + 1, d + 1) - RowAt(o, d))
      BY <1>1, <3>1, <3>2
    <3> QED
      BY <3>3, <3>4, <3>5 DEF Moved
  <2> QED
    BY <1>8, <2>1, <2>2
<1>11. ASSUME NEW y \in Moved(B, o, d) PROVE y \in GrowRow(C, o, d)
  <2>1. y \in Nat
    BY DEF Moved
  <2>2. CASE y \in B /\ y < RowAt(o, d)
    <3>1. y < a /\ y < RowAt(o, d + 1)
      BY <1>1, <2>1, <2>2
    <3>2. y \in C
      BY <1>5, <2>1, <2>2, <3>1 DEF Moved
    <3> QED
      BY <1>8, <3>1, <3>2
  <2>3. ASSUME NEW e \in d .. o, NEW x \in B,
               /\ RowAt(o, e) <= x /\ x < RowAt(o, e + 1)
               /\ y = x + (RowAt(o + 1, e + 1) - RowAt(o, e))
        PROVE  y \in GrowRow(C, o, d)
    <3>1. CASE e = d
      <4>1. x \in Nat /\ x \in a .. (a + w - 1) /\ y = x + (b - a)
        BY <1>1, <2>3, <3>1
      <4>2. x \in C
        BY <1>5, <2>3, <3>1, <4>1 DEF Moved
      <4> QED
        BY <1>8, <4>1, <4>2
    <3>2. CASE e # d
      <4>1. e \in (d + 1) .. o
        BY <1>2, <3>2
      <4>2. y \in C
        BY <1>5, <2>1, <2>3, <4>1 DEF Moved
      <4>3. y >= b + 2 * w
        BY <1>9, <2>3, <4>1
      <4> QED
        BY <1>8, <4>2, <4>3
    <3> QED
      BY <3>1, <3>2
  <2> QED
    BY <2>2, <2>3 DEF Moved
<1> QED
  BY <1>5, <1>10, <1>11

\* Before the loop and after it.
LEMMA MovedEnds ==
    ASSUME NEW o \in Orders, NEW B, B \subseteq 0 .. (SizeForOrder(o, 0) - 1)
    PROVE  Moved(B, o, o + 1) = B
<1>1. o \in Nat /\ RowAt(o, o + 1) = SizeForOrder(o, 0)
  <2>1. o \in Nat /\ o - (o + 1) + 1 = 0
    BY DEF Orders
  <2> QED
    BY <2>1 DEF RowAt
<1>2. RowAt(o, o + 1) \in Nat
  <2>1. o + 1 \in Nat /\ o + 1 >= 1
    BY <1>1
  <2> QED
    BY <1>1, <2>1, RowsGrow
<1>3. (o + 1) .. o = {}
  BY <1>1
<1>4. ASSUME NEW y \in B PROVE y \in Nat /\ y < RowAt(o, o + 1)
  BY <1>1, <1>2
<1> QED
  BY <1>3, <1>4 DEF Moved

\* The rows all moved, the status of the new root is set.
LEMMA GrowIsMoved ==
    ASSUME NEW o \in Orders, NEW B, B \subseteq 0 .. (SizeForOrder(o, 0) - 1)
    PROVE  Grow(B, o) = UpdateParentChain(Moved(B, o, 1), o + 1, 3, 0)
<1> DEFINE g == [k \in 0 .. o |-> Moved(B, o, o - k + 1)]
           R == CHOOSE R : R = [k \in 0 .. o |-> IF k = 0 THEN B
                                                 ELSE GrowRow(R[k - 1], o, o - k + 1)]
<1>1. o \in Nat /\ o >= 1 /\ B \in SUBSET Nat
  <2>1. o \in Nat /\ o >= 1
    BY DEF Orders
  <2>2. 0 .. (SizeForOrder(o, 0) - 1) \subseteq Nat
    BY <2>1, Halving, FieldIs
  <2> QED
    BY <2>1, <2>2
<1>2. ASSUME NEW k \in 0 .. o, k # 0
      PROVE  Moved(B, o, o - k + 1) = GrowRow(Moved(B, o, o - (k - 1) + 1), o, o - k + 1)
  <2>1. PICK d \in 1 .. o : d = o - k + 1 /\ o - (k - 1) + 1 = d + 1
    BY <1>1, <1>2
  <2>2. GrowRow(Moved(B, o, d + 1), o, d) = Moved(B, o, d)
    BY <1>1, GrowRowIs
  <2> QED
    BY <2>1, <2>2
<1>3. Moved(B, o, o - 0 + 1) = B
  <2>1. o - 0 + 1 = o + 1
    BY <1>1
  <2> QED
    BY <2>1, MovedEnds
<1>4. ASSUME NEW k \in 0 .. o PROVE g[k] = IF k = 0 THEN B ELSE GrowRow(g[k - 1], o, o - k + 1)
  <2>1. CASE k = 0
    BY <1>3, <2>1
  <2>2. CASE k # 0
    <3>1. k - 1 \in 0 .. o
      BY <1>1, <2>2
    <3>2. g[k - 1] = Moved(B, o, o - (k - 1) + 1) /\ g[k] = Moved(B, o, o - k + 1)
      BY <3>1
    <3> HIDE DEF g
    <3> QED
      BY <1>2, <2>2, <3>2
  <2> QED
    BY <2>1, <2>2
<1>5. g = [k \in 0 .. o |-> IF k = 0 THEN B ELSE GrowRow(g[k - 1], o, o - k + 1)]
  BY <1>4
<1>6. R = [k \in 0 .. o |-> IF k = 0 THEN B ELSE GrowRow(R[k - 1], o, o - k + 1)]
  <2> HIDE DEF g
  <2> QED
    BY <1>5
<1>7. Grow(B, o) = UpdateParentChain(R[o], o + 1, 2 * 1 + 1, 0)
  BY DEF Grow, Right
<1> HIDE DEF R
<1>8. \A k \in 0 .. o : R[k] = g[k]
  <2> DEFINE G == {k \in 0 .. o : R[k] = g[k]}
  <2>1. 0 \in G
    <3>1. 0 \in 0 .. o
      BY <1>1
    <3> HIDE DEF g
    <3> QED
      BY <1>4, <1>6, <3>1
  <2>2. ASSUME NEW k \in 0 .. (o - 1), k \in G PROVE k + 1 \in G
    <3>1. k + 1 \in 0 .. o /\ k + 1 # 0 /\ (k + 1) - 1 = k
      BY <1>1
    <3> HIDE DEF g
    <3>2. R[k + 1] = GrowRow(R[k], o, o - (k + 1) + 1)
      BY <1>6, <3>1
    <3>3. g[k + 1] = GrowRow(g[k], o, o - (k + 1) + 1)
      BY <1>4, <3>1
    <3> QED
      BY <2>2, <3>1, <3>2, <3>3
  <2> HIDE DEF G
  <2>3. \A k \in 0 .. o : k \in G
    BY <1>1, <2>1, <2>2, UpTo
  <2> USE DEF G
  <2> HIDE DEF g
  <2> QED
    BY <2>3
<1>9. R[o] = Moved(B, o, 1)
  <2>1. o \in 0 .. o /\ o - o + 1 = 1
    BY <1>1
  <2>2. g[o] = Moved(B, o, o - o + 1)
    BY <2>1
  <2> HIDE DEF g
  <2> QED
    BY <1>8, <2>1, <2>2
<1>10. 2 * 1 + 1 = 3
  OBVIOUS
<1> QED
  BY <1>7, <1>9, <1>10

\* Where a position goes when the tree gets a new root above it.
Up(p) == p + TwoTo[Depth(p) - 1]

\* The numbers of a position in the grown tree.
LEMMA UpIs ==
    ASSUME NEW o \in Orders, NEW p \in Positions(o)
    PROVE  /\ o + 1 \in Orders
           /\ Up(p) \in Positions(o + 1) /\ Up(p) \in Nat /\ Up(p) >= 2
           /\ Depth(Up(p)) = Depth(p) + 1
           /\ LocalOffset(o + 1, Up(p)) = LocalOffset(o, p)
           /\ Up(p) < TwoTo[o] <=> p < TwoTo[o - 1]
           /\ Width(o + 1, Up(p)) = Width(o, p)
           /\ Low(o + 1, Up(p)) = Low(o, p) + TwoTo[o - 1]
           /\ Location(o + 1, Up(p))
                = Location(o, p) + (RowAt(o + 1, Depth(p) + 1) - RowAt(o, Depth(p)))
<1>1. o \in Nat /\ o >= 1 /\ o + 1 \in Orders /\ (o + 1) - 1 = o
  BY DEF Orders
<1>2. PICK d \in Nat, n \in Nat :
          /\ d = Depth(p) /\ d >= 1 /\ d <= o /\ n = TwoTo[d - 1] /\ n >= 1
          /\ n <= p /\ p < TwoTo[d] /\ p \in Nat /\ (p >= TwoTo[o - 1] <=> d = o)
  <2>1. Depth(p) \in Nat /\ Depth(p) >= 1
    BY Family
  <2>2. TwoTo[Depth(p) - 1] \in Nat /\ TwoTo[Depth(p) - 1] >= 1
    BY <2>1, PowersGrow
  <2> QED
    BY <2>1, <2>2, Family
<1>3. TwoTo[d] = 2 * n /\ TwoTo[d + 1] = 2 * TwoTo[d]
  <2>1. TwoTo[(d - 1) + 1] = 2 * TwoTo[d - 1] /\ (d - 1) + 1 = d
    BY <1>2, Powers
  <2>2. TwoTo[d + 1] = 2 * TwoTo[d]
    BY <1>2, Powers
  <2> QED
    BY <1>2, <2>1, <2>2
<1>4. PICK u \in Nat : u = Up(p) /\ u = p + n /\ u >= TwoTo[d] /\ u < TwoTo[d + 1] /\ u >= 2
  BY <1>2, <1>3 DEF Up
<1>5. Depth(u) = d + 1
  <2>1. d + 1 \in Nat /\ d + 1 >= 1 /\ (d + 1) - 1 = d
    BY <1>2
  <2> QED
    BY <1>4, <2>1, DepthIs
<1>6. u \in Positions(o + 1)
  <2>1. TwoTo[d + 1] \in Nat /\ TwoTo[o + 1] \in Nat /\ TwoTo[d + 1] <= TwoTo[o + 1]
    BY <1>1, <1>2, PowersGrow
  <2> QED
    BY <1>4, <2>1 DEF Positions
<1>7. LocalOffset(o + 1, u) = LocalOffset(o, p) /\ LocalOffset(o, p) = o - d + 1
  <2>1. LocalOffset(o + 1, u) = (o + 1) - (d + 1) + 1
    BY <1>5 DEF LocalOffset
  <2>2. LocalOffset(o, p) = o - d + 1
    BY <1>2 DEF LocalOffset
  <2> QED
    BY <1>1, <1>2, <2>1, <2>2
<1>8. u < TwoTo[o] <=> p < TwoTo[o - 1]
  <2>1. u >= TwoTo[(o + 1) - 1] <=> d + 1 = o + 1
    BY <1>1, <1>5, <1>6, Family
  <2>2. TwoTo[o] \in Nat /\ TwoTo[o - 1] \in Nat
    BY <1>1, Powers
  <2> QED
    BY <1>1, <1>2, <1>4, <2>1, <2>2
<1>9. PICK w \in Nat : w = Width(o, p) /\ Width(o + 1, u) = w /\ n * w = TwoTo[o - 1]
  <2>1. (o + 1) - (d + 1) = o - d /\ o - d \in Nat /\ d - 1 \in Nat /\ (d - 1) + (o - d) = o - 1
    BY <1>1, <1>2
  <2>2. TwoTo[(d - 1) + (o - d)] = TwoTo[d - 1] * TwoTo[o - d] /\ TwoTo[o - d] \in Nat
    BY <2>1, PowerSum, Powers
  <2> QED
    BY <1>2, <1>5, <2>1, <2>2 DEF Width
<1>10. Low(o + 1, u) = Low(o, p) + TwoTo[o - 1]
  <2>1. (p + n) * w = p * w + n * w
    BY <1>2, <1>9
  <2> QED
    BY <1>4, <1>9, <2>1 DEF Low
<1>11. Location(o + 1, u) = Location(o, p) + (RowAt(o + 1, d + 1) - RowAt(o, d))
  <2>1. Location(o + 1, u) = RowAt(o + 1, d + 1) + (o - d + 1) * (u - TwoTo[(d + 1) - 1])
    BY <1>1, <1>5, <1>6, <1>7, FieldIs
  <2>2. Location(o, p) = RowAt(o, d) + (o - d + 1) * (p - TwoTo[d - 1])
    BY <1>2, <1>7, FieldIs
  <2>3. u - TwoTo[(d + 1) - 1] = p - n /\ p - TwoTo[d - 1] = p - n
    <3>1. (d + 1) - 1 = d
      BY <1>2
    <3> QED
      BY <1>2, <1>3, <1>4, <3>1
  <2>4. PICK x \in Int, y \in Int : x = RowAt(o + 1, d + 1) /\ y = RowAt(o, d)
    <3>1. d \in 1 .. o
      BY <1>1, <1>2
    <3> QED
      BY <3>1, RowMoves
  <2>5. PICK z \in Int : z = (o - d + 1) * (p - n)
    BY <1>1, <1>2
  <2> QED
    BY <2>1, <2>2, <2>3, <2>4, <2>5
<1> QED
  BY <1>1, <1>2, <1>4, <1>5, <1>6, <1>7, <1>8, <1>9, <1>10, <1>11

\* The children of a position go with it.
LEMMA UpChildren ==
    ASSUME NEW o \in Orders, NEW p \in Positions(o), p < TwoTo[o - 1]
    PROVE  /\ 2 * p \in Positions(o) /\ 2 * p + 1 \in Positions(o)
           /\ 2 * Up(p) = Up(2 * p) /\ 2 * Up(p) + 1 = Up(2 * p + 1)
<1>1. PICK d \in Nat, n \in Nat : d = Depth(p) /\ d >= 1 /\ n = TwoTo[d - 1] /\ TwoTo[d] = 2 * n
                                  /\ p \in Nat
  <2>1. Depth(p) \in Nat /\ Depth(p) >= 1 /\ p \in Nat
    BY Family
  <2>2. TwoTo[Depth(p) - 1] \in Nat /\ TwoTo[(Depth(p) - 1) + 1] = 2 * TwoTo[Depth(p) - 1]
    BY <2>1, Powers
  <2>3. (Depth(p) - 1) + 1 = Depth(p)
    BY <2>1
  <2> QED
    BY <2>1, <2>2, <2>3
<1>2. /\ 2 * p \in Positions(o) /\ 2 * p + 1 \in Positions(o)
      /\ Depth(2 * p) = d + 1 /\ Depth(2 * p + 1) = d + 1
  BY <1>1, ChildrenOf
<1>3. (d + 1) - 1 = d
  BY <1>1
<1>4. Up(p) = p + n /\ Up(2 * p) = 2 * p + 2 * n /\ Up(2 * p + 1) = (2 * p + 1) + 2 * n
  BY <1>1, <1>2, <1>3 DEF Up
<1> QED
  BY <1>1, <1>2, <1>4

\* No two positions go to the same place.
LEMMA UpOne ==
    ASSUME NEW o \in Orders, NEW p \in Positions(o), NEW q \in Positions(o), Up(p) = Up(q)
    PROVE  p = q
<1>1. Depth(Up(p)) = Depth(p) + 1 /\ Depth(Up(q)) = Depth(q) + 1
  BY UpIs
<1>2. Depth(p) \in Nat /\ Depth(q) \in Nat /\ Depth(p) >= 1 /\ p \in Nat /\ q \in Nat
  BY Family
<1>3. Depth(p) = Depth(q)
  BY <1>1, <1>2
<1>4. TwoTo[Depth(p) - 1] \in Nat
  BY <1>2, Powers
<1> QED
  BY <1>2, <1>3, <1>4 DEF Up

\* Every position of the larger tree is the new root, comes from the smaller one
\* or lies in the right half of its row.
LEMMA UpOrRight ==
    ASSUME NEW o \in Orders, NEW q \in Positions(o + 1), q # 1,
           \A p \in Positions(o) : q # Up(p)
    PROVE  \E d \in 1 .. o : Depth(q) = d + 1 /\ q - TwoTo[d] >= TwoTo[d - 1]
<1>1. o \in Nat /\ o >= 1 /\ o + 1 \in Orders
  BY DEF Orders
<1>2. /\ q \in Nat /\ q >= 1 /\ Depth(q) \in Nat /\ Depth(q) >= 1 /\ Depth(q) <= o + 1
      /\ TwoTo[Depth(q) - 1] <= q /\ q < TwoTo[Depth(q)]
  BY <1>1, Family
<1>3. Depth(q) # 1
  BY <1>1, RootDepth
<1>4. PICK d \in 1 .. o : Depth(q) = d + 1
  <2>1. Depth(q) - 1 \in 1 .. o /\ Depth(q) = (Depth(q) - 1) + 1
    BY <1>1, <1>2, <1>3
  <2> QED
    BY <2>1
<1>5. d \in Nat /\ d >= 1 /\ d - 1 \in Nat /\ (d + 1) - 1 = d /\ (d - 1) + 1 = d
  BY <1>1
<1>6. PICK n \in Nat : n = TwoTo[d - 1] /\ n >= 1 /\ TwoTo[d] = 2 * n
  <2>1. TwoTo[d - 1] \in Nat /\ TwoTo[d - 1] >= 1
    BY <1>5, PowersGrow
  <2>2. TwoTo[(d - 1) + 1] = 2 * TwoTo[d - 1]
    BY <1>5, Powers
  <2> QED
    BY <1>5, <2>1, <2>2
<1>7. q >= 2 * n /\ q < TwoTo[d + 1]
  BY <1>2, <1>4, <1>5, <1>6
<1>8. SUFFICES ASSUME ~(q - TwoTo[d] >= TwoTo[d - 1]) PROVE FALSE
  BY <1>4
<1>9. PICK p \in Nat : p = q - n /\ p >= n /\ p < 2 * n /\ p >= 1
  BY <1>2, <1>6, <1>7, <1>8
<1>10. Depth(p) = d
  BY <1>5, <1>6, <1>9, DepthIs
<1>11. p \in Positions(o)
  <2>1. TwoTo[d] <= TwoTo[o] /\ TwoTo[o] \in Nat
    BY <1>1, <1>5, PowersGrow
  <2> QED
    BY <1>6, <1>9, <2>1 DEF Positions
<1>12. Up(p) = q
  BY <1>2, <1>6, <1>9, <1>10 DEF Up
<1> QED
  BY <1>11, <1>12

Raised(o, S) ==
    [q \in Positions(o + 1) |->
        IF \E p \in Positions(o) : q = Up(p) THEN S[CHOOSE p \in Positions(o) : q = Up(p)] ELSE 0]

\* The statuses of the grown tree are those of the old one.
LEMMA RaisedIs ==
    ASSUME NEW o \in Orders, NEW S \in Statuses(o)
    PROVE  /\ Raised(o, S) \in Statuses(o + 1)
           /\ \A p \in Positions(o) : Up(p) \in Positions(o + 1) /\ Raised(o, S)[Up(p)] = S[p]
           /\ \A q \in Positions(o + 1) :
                 (\A p \in Positions(o) : q # Up(p)) => Raised(o, S)[q] = 0
<1>1. o + 1 \in Orders
  BY DEF Orders
<1>2. ASSUME NEW p \in Positions(o)
      PROVE  Up(p) \in Positions(o + 1) /\ Raised(o, S)[Up(p)] = S[p]
  <2>1. Up(p) \in Positions(o + 1)
    BY UpIs
  <2>2. (CHOOSE r \in Positions(o) : Up(p) = Up(r)) = p
    <3>1. PICK r : r = CHOOSE z \in Positions(o) : Up(p) = Up(z)
      OBVIOUS
    <3>2. r \in Positions(o) /\ Up(p) = Up(r)
      BY <3>1
    <3> QED
      BY <3>1, <3>2, UpOne
  <2> QED
    BY <2>1, <2>2 DEF Raised
<1>3. ASSUME NEW q \in Positions(o + 1), \A p \in Positions(o) : q # Up(p)
      PROVE  Raised(o, S)[q] = 0
  BY <1>3 DEF Raised
<1>4. ASSUME NEW q \in Positions(o + 1)
      PROVE  Raised(o, S)[q] \in Nat /\ Raised(o, S)[q] <= LocalOffset(o + 1, q)
  <2>1. CASE \E p \in Positions(o) : q = Up(p)
    <3>1. PICK p \in Positions(o) : q = Up(p)
      BY <2>1
    <3>2. S[p] \in Nat /\ S[p] <= LocalOffset(o, p) /\ LocalOffset(o + 1, q) = LocalOffset(o, p)
      BY <3>1, StatusIs, UpIs
    <3> QED
      BY <1>2, <3>1, <3>2
  <2>2. CASE \A p \in Positions(o) : q # Up(p)
    <3>1. LocalOffset(o + 1, q) \in Nat
      BY <1>1, Family
    <3> QED
      BY <1>3, <2>2, <3>1
  <2> QED
    BY <2>1, <2>2
<1>5. Raised(o, S) \in [Positions(o + 1) -> Nat]
  <2>1. Raised(o, S) = [q \in Positions(o + 1) |-> Raised(o, S)[q]]
    BY DEF Raised
  <2> QED
    BY <1>4, <2>1
<1> QED
  BY <1>2, <1>3, <1>4, <1>5 DEF Statuses

\* A bit of the grown tree comes from a row of the old one and lies in the left
\* half of the row below.
LEMMA MovedBit ==
    ASSUME NEW o \in Orders, NEW B \in SUBSET Nat, NEW y \in Moved(B, o, 1)
    PROVE  \E e \in 1 .. o, x \in B, w \in Nat :
              /\ RowAt(o, e) <= x /\ x < RowAt(o, e + 1)
              /\ y = x + (RowAt(o + 1, e + 1) - RowAt(o, e))
              /\ w = (o - e + 1) * TwoTo[e - 1]
              /\ RowAt(o + 1, e + 1) <= y /\ y < RowAt(o + 1, e + 1) + w
              /\ RowAt(o + 1, e + 2) = RowAt(o + 1, e + 1) + 2 * w
<1>1. o \in Nat /\ RowAt(o, 1) = 0 /\ y \in Nat
  <2>1. o \in Nat
    BY DEF Orders
  <2> QED
    BY <2>1, RowsFollow DEF Moved
<1>2. PICK e \in 1 .. o, x \in B : /\ RowAt(o, e) <= x /\ x < RowAt(o, e + 1)
                                   /\ y = x + (RowAt(o + 1, e + 1) - RowAt(o, e))
  BY <1>1 DEF Moved
<1>3. PICK a \in Nat, b \in Nat, w \in Nat :
              /\ a = RowAt(o, e) /\ b = RowAt(o + 1, e + 1)
              /\ w = (o - e + 1) * TwoTo[e - 1] /\ w >= 1
              /\ a + w = RowAt(o, e + 1) /\ b + 2 * w = RowAt(o + 1, e + 2)
              /\ a < b
  BY RowMoves
<1>4. x \in Nat
  OBVIOUS
<1>5. b <= y /\ y < b + w
  BY <1>2, <1>3, <1>4
<1> QED
  BY <1>2, <1>3, <1>5

\* Rows of the grown tree do not overlap.
LEMMA RowsApart ==
    ASSUME NEW o \in Orders, NEW e \in 1 .. o, NEW d \in 1 .. o, e < d
    PROVE  RowAt(o + 1, e + 2) <= RowAt(o + 1, d + 1)
<1>1. /\ o + 1 \in Nat /\ e + 2 \in Nat /\ e + 2 >= 1 /\ d + 1 \in Nat
      /\ e + 2 <= d + 1 /\ d + 1 <= (o + 1) + 1
  BY DEF Orders
<1> QED
  BY <1>1, RowsGrow

\* The moved rows hold the statuses of the old tree, one row lower.
LEMMA MovedHolds ==
    ASSUME NEW o \in Orders, NEW B, NEW S, Holds(B, o, S)
    PROVE  Holds(Moved(B, o, 1), o + 1, Raised(o, S))
<1>1. o \in Nat /\ o >= 1 /\ o + 1 \in Orders /\ o + 1 \in Nat
  BY DEF Orders
<1>2. B \in SUBSET Nat /\ S \in Statuses(o)
  BY DEF Holds
<1>3. PICK C : C = Moved(B, o, 1)
  OBVIOUS
<1>4. C \in SUBSET Nat
  BY <1>3 DEF Moved
\* The rows of the new tree do not meet.
<1>5. ASSUME NEW y \in C, NEW d \in 1 .. o,
             RowAt(o + 1, d + 1) <= y, y < RowAt(o + 1, d + 2)
      PROVE  \E x \in B, w \in Nat : /\ y = x + (RowAt(o + 1, d + 1) - RowAt(o, d))
                                     /\ w = (o - d + 1) * TwoTo[d - 1]
                                     /\ y < RowAt(o + 1, d + 1) + w
  <2>1. PICK e \in 1 .. o, x \in B, w \in Nat :
              /\ RowAt(o, e) <= x /\ x < RowAt(o, e + 1)
              /\ y = x + (RowAt(o + 1, e + 1) - RowAt(o, e))
              /\ w = (o - e + 1) * TwoTo[e - 1]
              /\ RowAt(o + 1, e + 1) <= y /\ y < RowAt(o + 1, e + 1) + w
              /\ RowAt(o + 1, e + 2) = RowAt(o + 1, e + 1) + 2 * w
    BY <1>2, <1>3, MovedBit
  <2>2. y \in Nat /\ d \in Nat /\ e \in Nat
    BY <1>1, <1>4
  <2>3. RowAt(o + 1, e + 1) \in Nat /\ RowAt(o + 1, d + 1) \in Nat /\ RowAt(o + 1, d + 2) \in Nat
    <3>1. RowAt(o + 1, e + 1) \in Nat
      BY RowMoves
    <3>2. PICK b \in Nat, v \in Nat : b = RowAt(o + 1, d + 1) /\ b + 2 * v = RowAt(o + 1, d + 2)
      BY RowMoves
    <3> QED
      BY <3>1, <3>2
  <2>4. ~(e < d)
    <3>1. SUFFICES ASSUME e < d PROVE FALSE
      OBVIOUS
    <3>2. RowAt(o + 1, e + 2) <= RowAt(o + 1, d + 1)
      BY <3>1, RowsApart
    <3> QED
      BY <1>5, <2>1, <2>2, <2>3, <3>2
  <2>5. ~(d < e)
    <3>1. SUFFICES ASSUME d < e PROVE FALSE
      OBVIOUS
    <3>2. RowAt(o + 1, d + 2) <= RowAt(o + 1, e + 1)
      BY <3>1, RowsApart
    <3> QED
      BY <1>5, <2>1, <2>2, <2>3, <3>2
  <2>6. e = d
    BY <2>2, <2>4, <2>5
  <2> QED
    BY <2>1, <2>6
<1>6. ASSUME NEW p \in Positions(o), NEW q, q = Up(p)
      PROVE  C \cap (Location(o + 1, q) .. (Location(o + 1, q) + LocalOffset(o + 1, q) - 1))
               = Location(o + 1, q) .. (Location(o + 1, q) + S[p] - 1)
  <2>1. PICK d \in 1 .. o : d = Depth(p)
    BY <1>1, Family
  <2>2. PICK a \in Nat, b \in Nat, w \in Nat :
            /\ a = RowAt(o, d) /\ b = RowAt(o + 1, d + 1) /\ a < b
            /\ a + w = RowAt(o, d + 1) /\ b + 2 * w = RowAt(o + 1, d + 2)
    BY RowMoves
  <2>3. PICK l \in Nat, n \in Nat :
            /\ l = Location(o, p) /\ n = LocalOffset(o, p) /\ n >= 1
            /\ a <= l /\ l + n <= RowAt(o, d + 1)
    BY <2>1, <2>2, FieldIs, Family
  <2>4. /\ Location(o + 1, q) = l + (b - a) /\ LocalOffset(o + 1, q) = n
        /\ q \in Positions(o + 1) /\ Depth(q) = d + 1
    BY <1>6, <2>1, <2>2, <2>3, UpIs
  <2>5. PICK s \in Nat : s = S[p] /\ s <= n
    BY <1>2, <2>3, StatusIs
  <2>6. B \cap (l .. (l + n - 1)) = l .. (l + s - 1)
    BY <2>3, <2>5 DEF Holds
  <2>7. PICK g \in Nat : g = b - a
    BY <2>2
  <2>8. b <= l + g /\ (l + g) + n <= RowAt(o + 1, d + 2) /\ RowAt(o + 1, d + 2) \in Nat
    BY <2>2, <2>3, <2>7
  <2>9. ASSUME NEW y \in C, y \in (l + g) .. (l + g + n - 1) PROVE y \in (l + g) .. (l + g + s - 1)
    <3>1. RowAt(o + 1, d + 1) <= y /\ y < RowAt(o + 1, d + 2)
      BY <2>2, <2>8, <2>9
    <3>2. PICK x \in B : y = x + (b - a)
      BY <1>5, <2>2, <3>1
    <3>3. x \in Nat
      BY <1>2
    <3>4. x \in l .. (l + n - 1)
      BY <2>7, <2>9, <3>2, <3>3
    <3>5. x \in l .. (l + s - 1)
      BY <2>6, <3>4
    <3> QED
      BY <2>7, <3>2, <3>5
  <2>10. ASSUME NEW y \in (l + g) .. (l + g + s - 1) PROVE y \in C /\ y \in (l + g) .. (l + g + n - 1)
    <3>1. PICK x \in Nat : x = y - g /\ x \in l .. (l + s - 1) /\ y \in Nat
      <4>1. y \in Int /\ y >= l + g /\ y <= l + g + s - 1
        OBVIOUS
      <4> QED
        BY <4>1
    <3>2. x \in B /\ x \in l .. (l + n - 1)
      BY <2>6, <3>1
    <3>3. y = x + (RowAt(o + 1, d + 1) - RowAt(o, d))
      BY <2>2, <2>7, <3>1
    <3>4. RowAt(o, d) <= x /\ x < RowAt(o, d + 1)
      <4>1. RowAt(o, d + 1) \in Nat
        BY <2>2
      <4> QED
        BY <2>2, <2>3, <3>2, <4>1
    <3>5. y \in C
      BY <1>3, <3>1, <3>2, <3>3, <3>4 DEF Moved
    <3> QED
      BY <2>5, <3>5
  <2>11. Location(o + 1, q) = l + g
    BY <2>4, <2>7
  <2> QED
    BY <2>4, <2>5, <2>9, <2>10, <2>11
<1>7. ASSUME NEW q \in Positions(o + 1), \A p \in Positions(o) : q # Up(p)
      PROVE  C \cap (Location(o + 1, q) .. (Location(o + 1, q) + LocalOffset(o + 1, q) - 1)) = {}
  <2>1. PICK l \in Nat, n \in Nat : /\ l = Location(o + 1, q) /\ n = LocalOffset(o + 1, q)
                                    /\ l + n <= RowAt(o + 1, Depth(q) + 1)
    BY <1>1, FieldIs, Family
  <2>2. SUFFICES ASSUME NEW y \in C, y \in l .. (l + n - 1) PROVE FALSE
    BY <2>1
  <2>3. y \in Nat /\ l <= y /\ y < l + n
    BY <1>4, <2>2
  <2>4. CASE q = 1
    <3>1. Depth(q) + 1 = 2
      BY <2>4, RootIs
    <3>2. y < RowAt(o + 1, 2) /\ RowAt(o + 1, 2) \in Nat
      <4>1. RowAt(o + 1, 1 + 1) \in Nat
        <5>1. 1 \in 1 .. o
          BY <1>1
        <5> QED
          BY <5>1, RowMoves
      <4> QED
        BY <2>1, <2>3, <3>1, <4>1
    <3>3. PICK e \in 1 .. o : RowAt(o + 1, e + 1) <= y
      BY <1>2, <1>3, MovedBit
    <3>4. RowAt(o + 1, 2) <= RowAt(o + 1, e + 1)
      <4>1. 2 \in Nat /\ 2 >= 1 /\ e + 1 \in Nat /\ 2 <= e + 1 /\ e + 1 <= (o + 1) + 1
        BY <1>1
      <4> QED
        BY <1>1, <4>1, RowsGrow
    <3>5. RowAt(o + 1, e + 1) \in Nat
      BY RowMoves
    <3> QED
      BY <2>3, <3>2, <3>3, <3>4, <3>5
  <2>5. CASE q # 1
    <3>1. PICK d \in 1 .. o : Depth(q) = d + 1 /\ q - TwoTo[d] >= TwoTo[d - 1]
      BY <1>7, <2>5, UpOrRight
    <3>2. PICK b \in Nat, w \in Nat : /\ b = RowAt(o + 1, d + 1) /\ w = (o - d + 1) * TwoTo[d - 1]
                                      /\ b + 2 * w = RowAt(o + 1, d + 2)
      BY RowMoves
    <3>3. l >= b + w
      <4>1. /\ Location(o + 1, q) = RowAt(o + 1, d + 1) + n * (q - TwoTo[(d + 1) - 1])
            /\ n = (o + 1) - (d + 1) + 1
        BY <1>1, <2>1, <3>1, FieldIs DEF LocalOffset
      <4>2. (d + 1) - 1 = d /\ (o + 1) - (d + 1) + 1 = o - d + 1
        BY <1>1
      <4>3. PICK h \in Nat, j \in Nat : h = TwoTo[d - 1] /\ j = q - TwoTo[d] /\ h <= j
        <5>1. TwoTo[d] \in Nat /\ TwoTo[d - 1] \in Nat
          BY Powers
        <5>2. q \in Nat
          BY <1>1, Family
        <5> QED
          BY <3>1, <5>1, <5>2
      <4>4. n * h <= n * j /\ n * h \in Nat /\ n * j \in Nat
        BY <2>1, <4>3, ProductFacts
      <4>5. w = n * h /\ l = b + n * j
        BY <2>1, <3>2, <4>1, <4>2, <4>3
      <4> QED
        BY <3>2, <4>4, <4>5
    <3>4. (d + 1) + 1 = d + 2
      OBVIOUS
    <3>5. b <= y /\ y < RowAt(o + 1, d + 2)
      BY <2>1, <2>3, <3>1, <3>2, <3>3, <3>4
    <3>6. y < b + w
      BY <1>5, <3>2, <3>5
    <3> QED
      BY <2>1, <2>3, <3>2, <3>3, <3>6
  <2> QED
    BY <2>4, <2>5
<1>8. C \subseteq 0 .. (SizeForOrder(o + 1, 0) - 1)
  <2>1. SUFFICES ASSUME NEW y \in C PROVE y < SizeForOrder(o + 1, 0) /\ SizeForOrder(o + 1, 0) \in Nat
    BY <1>4
  <2>2. PICK e \in 1 .. o, w \in Nat :
              /\ y < RowAt(o + 1, e + 1) + w
              /\ RowAt(o + 1, e + 2) = RowAt(o + 1, e + 1) + 2 * w
    BY <1>2, <1>3, MovedBit
  <2>3. RowAt(o + 1, e + 1) \in Nat
    BY RowMoves
  <2>4. RowAt(o + 1, e + 2) <= RowAt(o + 1, o + 2) /\ RowAt(o + 1, o + 2) \in Nat
    <3>1. /\ e + 2 \in Nat /\ e + 2 >= 1 /\ o + 2 \in Nat /\ o + 2 >= 1
          /\ e + 2 <= o + 2 /\ o + 2 <= (o + 1) + 1
      BY <1>1
    <3>2. RowAt(o + 1, e + 2) <= RowAt(o + 1, o + 2)
      BY <1>1, <3>1, RowsGrow
    <3>3. RowAt(o + 1, o + 2) \in Nat
      BY <1>1, <3>1, RowsGrow
    <3> QED
      BY <3>2, <3>3
  <2>5. RowAt(o + 1, o + 2) = SizeForOrder(o + 1, 0)
    <3>1. (o + 1) - (o + 2) + 1 = 0
      BY <1>1
    <3> QED
      BY <3>1 DEF RowAt
  <2>6. y \in Nat
    BY <1>4
  <2> QED
    BY <2>2, <2>3, <2>4, <2>5, <2>6
<1>9. ASSUME NEW q \in Positions(o + 1)
      PROVE  C \cap (Location(o + 1, q) .. (Location(o + 1, q) + LocalOffset(o + 1, q) - 1))
               = Location(o + 1, q) .. (Location(o + 1, q) + Raised(o, S)[q] - 1)
  <2>1. CASE \E p \in Positions(o) : q = Up(p)
    <3>1. PICK p \in Positions(o) : q = Up(p)
      BY <2>1
    <3>2. Raised(o, S)[q] = S[p]
      BY <1>2, <3>1, RaisedIs
    <3> QED
      BY <1>6, <3>1, <3>2
  <2>2. CASE \A p \in Positions(o) : q # Up(p)
    <3>1. Raised(o, S)[q] = 0
      BY <1>2, <2>2, RaisedIs
    <3>2. Location(o + 1, q) \in Nat
      BY <1>1, FieldIs
    <3>3. Location(o + 1, q) .. (Location(o + 1, q) + Raised(o, S)[q] - 1) = {}
      BY <3>1, <3>2
    <3> QED
      BY <1>7, <2>2, <3>3
  <2> QED
    BY <2>1, <2>2
<1>10. Raised(o, S) \in Statuses(o + 1)
  BY <1>2, RaisedIs
<1> QED
  BY <1>3, <1>8, <1>9, <1>10 DEF Holds

-----------------------------------------------------------------------------
(* Blocks and their positions; a grown tree keeps them *)

\* The block at p as a caller sees it, the positions of the blocks of L, and
\* that they all have one.
Place(o, p) == <<Low(o, p) - TwoTo[o - 1], Width(o, p)>>
Marks(o, L) == {p \in Positions(o) : Place(o, p) \in L}
Placed(o, L) == \A b \in L : \E p \in Positions(o) : b = Place(o, p)

\* No two positions are the same block.
LEMMA PlaceOne ==
    ASSUME NEW o \in Orders, NEW p \in Positions(o), NEW q \in Positions(o), Place(o, p) = Place(o, q)
    PROVE  p = q
<1>1. TwoTo[o - 1] \in Nat /\ Low(o, p) \in Nat /\ Low(o, q) \in Nat
  BY Halving, IntervalIs
<1>2. Low(o, p) - TwoTo[o - 1] = Low(o, q) - TwoTo[o - 1] /\ Width(o, p) = Width(o, q)
  BY DEF Place
<1>3. Low(o, p) = Low(o, q)
  BY <1>1, <1>2
<1>4. Interval(o, p) = Interval(o, q) /\ Interval(o, p) # {}
  BY <1>2, <1>3, IntervalIs
<1>5. p = q \/ Under(o, p, q) \/ Under(o, q, p)
  BY <1>4, Meet
<1> QED
  BY <1>4, <1>5, UnderSmaller

\* A block is the same block in the grown tree.
LEMMA PlaceUp ==
    ASSUME NEW o \in Orders, NEW p \in Positions(o)
    PROVE  Place(o + 1, Up(p)) = Place(o, p)
<1>1. PICK e \in Nat : e = TwoTo[o - 1] /\ TwoTo[o] = 2 * e
  BY Halving
<1>2. (o + 1) - 1 = o
  BY DEF Orders
<1>3. Low(o + 1, Up(p)) = Low(o, p) + e /\ Width(o + 1, Up(p)) = Width(o, p) /\ Low(o, p) \in Nat
  BY <1>1, UpIs, IntervalIs
<1>4. Low(o + 1, Up(p)) - TwoTo[(o + 1) - 1] = Low(o, p) - TwoTo[o - 1]
  BY <1>1, <1>2, <1>3
<1> QED
  BY <1>3, <1>4 DEF Place

\* A block keeps its address and its size when the tree grows.
LEMMA MarksUp ==
    ASSUME NEW o \in Orders, NEW L, Placed(o, L)
    PROVE  Placed(o + 1, L) /\ Marks(o + 1, L) = {Up(p) : p \in Marks(o, L)}
<1>1. o + 1 \in Orders
  BY DEF Orders
<1>2. ASSUME NEW b \in L
      PROVE  \E p \in Positions(o) : /\ b = Place(o, p) /\ p \in Marks(o, L)
                                     /\ Up(p) \in Positions(o + 1) /\ b = Place(o + 1, Up(p))
  <2>1. PICK p \in Positions(o) : b = Place(o, p)
    BY DEF Placed
  <2> QED
    BY <2>1, UpIs, PlaceUp DEF Marks
<1>3. Placed(o + 1, L)
  BY <1>2 DEF Placed
<1>4. ASSUME NEW q \in Marks(o + 1, L) PROVE \E p \in Marks(o, L) : q = Up(p)
  <2>1. q \in Positions(o + 1) /\ Place(o + 1, q) \in L
    BY DEF Marks
  <2>2. PICK p \in Positions(o) : /\ p \in Marks(o, L) /\ Up(p) \in Positions(o + 1)
                                  /\ Place(o + 1, q) = Place(o + 1, Up(p))
    BY <1>2, <2>1
  <2>3. q = Up(p)
    BY <1>1, <2>1, <2>2, PlaceOne
  <2> QED
    BY <2>2, <2>3
<1>5. ASSUME NEW p \in Marks(o, L) PROVE Up(p) \in Marks(o + 1, L)
  <2>1. p \in Positions(o) /\ Place(o, p) \in L
    BY DEF Marks
  <2>2. Up(p) \in Positions(o + 1) /\ Place(o + 1, Up(p)) = Place(o, p)
    BY <2>1, UpIs, PlaceUp
  <2> QED
    BY <2>1, <2>2 DEF Marks
<1> QED
  BY <1>3, <1>4, <1>5

\* The statuses of the raised tree are sound but for the new root.
LEMMA RaisedSound ==
    ASSUME NEW o \in Orders, NEW S \in Statuses(o), NEW M, Sound(o, S, M),
           NEW q \in Positions(o + 1), q # 1
    PROVE  NodeSound(o + 1, Raised(o, S), {Up(p) : p \in M}, q)
<1>1. o \in Nat /\ o + 1 \in Orders /\ (o + 1) - 1 = o
  BY DEF Orders
<1>2. M \subseteq Positions(o)
  BY DEF Sound
<1>3. PICK R : R = Raised(o, S)
  OBVIOUS
<1>4. /\ \A p \in Positions(o) : Up(p) \in Positions(o + 1) /\ R[Up(p)] = S[p]
      /\ \A r \in Positions(o + 1) : (\A p \in Positions(o) : r # Up(p)) => R[r] = 0
  BY <1>3, RaisedIs
<1>5. PICK N : N = {Up(p) : p \in M}
  OBVIOUS
<1>6. CASE \E p \in Positions(o) : q = Up(p)
  <2>1. PICK p \in Positions(o) : q = Up(p)
    BY <1>6
  <2>2. q \in N <=> p \in M
    BY <1>2, <1>5, <2>1, UpOne
  <2>3. R[q] = S[p] /\ LocalOffset(o + 1, q) = LocalOffset(o, p)
    BY <1>4, <2>1, UpIs
  <2>4. q < TwoTo[o] <=> p < TwoTo[o - 1]
    BY <2>1, UpIs
  <2>5. p < TwoTo[o - 1] => R[2 * q] = S[2 * p] /\ R[2 * q + 1] = S[2 * p + 1]
    <3>1. SUFFICES ASSUME p < TwoTo[o - 1] PROVE R[2 * q] = S[2 * p] /\ R[2 * q + 1] = S[2 * p + 1]
      OBVIOUS
    <3>2. /\ 2 * p \in Positions(o) /\ 2 * p + 1 \in Positions(o)
          /\ 2 * q = Up(2 * p) /\ 2 * q + 1 = Up(2 * p + 1)
      BY <2>1, <3>1, UpChildren
    <3> QED
      BY <1>4, <3>2
  <2>6. NodeSound(o, S, M, p)
    BY DEF Sound
  <2> QED
    BY <1>1, <1>3, <1>5, <2>2, <2>3, <2>4, <2>5, <2>6 DEF NodeSound
<1>7. CASE \A p \in Positions(o) : q # Up(p)
  <2>1. q \notin N /\ R[q] = 0
    BY <1>2, <1>4, <1>5, <1>7
  <2>2. ASSUME q < TwoTo[o] PROVE R[2 * q] = 0 /\ R[2 * q + 1] = 0
    <3>1. /\ 2 * q \in Positions(o + 1) /\ 2 * q + 1 \in Positions(o + 1)
          /\ (2 * q) \div 2 = q /\ (2 * q + 1) \div 2 = q
      BY <1>1, <2>2, ChildrenOf
    <3>2. ASSUME NEW c \in {2 * q, 2 * q + 1}, NEW r \in Positions(o), c = Up(r) PROVE FALSE
      <4>1. c \in Positions(o + 1) /\ c \div 2 = q /\ q \in Nat /\ q >= 1
        BY <1>1, <3>1, Family
      <4>2. r # 1
        <5>1. SUFFICES ASSUME r = 1 PROVE FALSE
          OBVIOUS
        <5>2. Up(1) = 1 + TwoTo[1 - 1] /\ TwoTo[0] = 1
          BY RootIs, Powers DEF Up
        <5>3. c = 2
          BY <3>2, <5>1, <5>2
        <5> QED
          BY <4>1, <5>3
      <4>3. PICK s \in Positions(o) : /\ s = r \div 2 /\ s < TwoTo[o - 1]
                                      /\ r = 2 * s \/ r = 2 * s + 1
        BY <4>2, ParentOf
      <4>4. 2 * Up(s) = Up(2 * s) /\ 2 * Up(s) + 1 = Up(2 * s + 1) /\ Up(s) \in Nat
        BY <4>3, UpChildren, UpIs
      <4>5. c = 2 * Up(s) \/ c = 2 * Up(s) + 1
        BY <3>2, <4>3, <4>4
      <4>6. q = Up(s)
        BY <4>1, <4>4, <4>5
      <4> QED
        BY <1>7, <4>6
    <3> QED
      BY <1>4, <3>1, <3>2
  <2>3. Combine(0, 0) = 0
    BY DEF Combine
  <2> QED
    BY <1>1, <1>3, <1>5, <2>1, <2>2, <2>3 DEF NodeSound
<1> QED
  BY <1>6, <1>7

\* buddy_tree_grow() by an order.
LEMMA GrowIs ==
    ASSUME NEW o \in Orders, NEW B, NEW S, Holds(B, o, S), NEW L, Placed(o, L),
           Sound(o, S, Marks(o, L))
    PROVE  /\ Placed(o + 1, L)
           /\ \E T : Holds(Grow(B, o), o + 1, T) /\ Sound(o + 1, T, Marks(o + 1, L))
<1>1. o \in Nat /\ o >= 1 /\ o + 1 \in Orders /\ (o + 1) - 1 = o
  BY DEF Orders
<1>2. S \in Statuses(o) /\ B \subseteq 0 .. (SizeForOrder(o, 0) - 1)
  BY DEF Holds
<1>3. PICK R, N : R = Raised(o, S) /\ N = Marks(o + 1, L)
  OBVIOUS
<1>4. N = {Up(p) : p \in Marks(o, L)} /\ Placed(o + 1, L) /\ N \in SUBSET Positions(o + 1)
  <2>1. N \in SUBSET Positions(o + 1)
    BY <1>3 DEF Marks
  <2> QED
    BY <1>3, <2>1, MarksUp
<1>5. Holds(Moved(B, o, 1), o + 1, R)
  BY <1>3, MovedHolds
<1>6. 3 \in Positions(o + 1) /\ 3 \div 2 = 1 /\ Depth(3) = 2
  <2>1. 1 \in Positions(o + 1) /\ Depth(1) = 1
    BY <1>1, Halving, RootIs
  <2>2. 1 < TwoTo[o]
    BY <1>1, PowersGrow
  <2>3. 2 * 1 + 1 \in Positions(o + 1) /\ Depth(2 * 1 + 1) = Depth(1) + 1
    BY <1>1, <2>1, <2>2, ChildrenOf
  <2> QED
    BY <2>1, <2>3
<1>7. R[3] = 0
  <2>1. ASSUME NEW p \in Positions(o) PROVE 3 # Up(p)
    <3>1. SUFFICES ASSUME 3 = Up(p) PROVE FALSE
      OBVIOUS
    <3>2. Depth(p) \in Nat /\ Depth(Up(p)) = Depth(p) + 1
      BY Family, UpIs
    <3>3. Depth(p) = 1
      BY <1>6, <3>1, <3>2
    <3>4. p = 1
      BY <3>3, RootDepth
    <3>5. Up(1) = 1 + TwoTo[1 - 1] /\ TwoTo[0] = 1
      BY RootIs, Powers DEF Up
    <3> QED
      BY <3>1, <3>4, <3>5
  <2> QED
    BY <1>2, <1>3, <1>6, <2>1, RaisedIs
<1>8. ASSUME NEW m \in N PROVE ~Under(o + 1, 3, m)
  <2>1. PICK p \in Positions(o) : m = Up(p)
    BY <1>4 DEF Marks
  <2>2. Depth(m) = Depth(p) + 1 /\ Depth(p) \in Nat /\ Depth(p) >= 1
    BY <2>1, UpIs, Family
  <2> QED
    BY <1>6, <2>2 DEF Under
<1>9. ASSUME NEW q \in Positions(o + 1), 3 = 1 \/ q # 3 \div 2 PROVE NodeSound(o + 1, R, N, q)
  <2>1. q # 1
    BY <1>6, <1>9
  <2> QED
    BY <1>2, <1>3, <1>4, <2>1, RaisedSound
<1>10. \E T : /\ Holds(UpdateParentChain(Moved(B, o, 1), o + 1, 3, R[3]), o + 1, T)
              /\ Sound(o + 1, T, N)
  BY <1>1, <1>4, <1>5, <1>6, <1>8, <1>9, ChainIs
<1>11. Grow(B, o) = UpdateParentChain(Moved(B, o, 1), o + 1, 3, R[3])
  BY <1>2, <1>7, GrowIsMoved
<1> QED
  BY <1>3, <1>4, <1>10, <1>11

\* buddy_tree_grow(): every block keeps its mark, however many orders are added.
LEMMA TreeGrowIs ==
    ASSUME NEW o \in Orders, NEW desired \in Orders, o <= desired, NEW B, NEW S, Holds(B, o, S),
           NEW L, Placed(o, L), Sound(o, S, Marks(o, L))
    PROVE  /\ Placed(desired, L)
           /\ \E T : /\ Holds(TreeGrow(B, o, desired).bits, desired, T)
                     /\ Sound(desired, T, Marks(desired, L))
<1>1. PICK n \in Nat : /\ n = desired - o /\ o + n = desired /\ o + 0 = o /\ o \in Nat
                       /\ \A k \in Nat : o + k \in Orders
  BY DEF Orders
<1> DEFINE Turn(k, C) == Grow(C, o + k - 1)
           Good(k, C) == /\ Placed(o + k, L)
                         /\ \E T : Holds(C, o + k, T) /\ Sound(o + k, T, Marks(o + k, L))
           X == SUBSET Nat
           step == [x \in Nat \X X |-> IF Turn(x[1], x[2]) \in X THEN Turn(x[1], x[2]) ELSE {}]
           F == CHOOSE F : F = [k \in 0 .. (desired - o) |-> IF k = 0 THEN B ELSE Turn(k, F[k - 1])]
<1>2. ASSUME NEW k \in 0 .. (n - 1), NEW C, Good(k, C) PROVE Good(k + 1, Turn(k + 1, C))
  <2>1. k \in Nat /\ o + k \in Orders /\ o + (k + 1) - 1 = o + k /\ o + (k + 1) = (o + k) + 1
    BY <1>1
  <2>2. PICK T : Holds(C, o + k, T) /\ Sound(o + k, T, Marks(o + k, L)) /\ Placed(o + k, L)
    BY <1>2
  <2>3. /\ Placed((o + k) + 1, L)
        /\ \E U : /\ Holds(Grow(C, o + k), (o + k) + 1, U)
                  /\ Sound((o + k) + 1, U, Marks((o + k) + 1, L))
    <3> HIDE DEF Turn, Good, step, F
    <3> QED
      BY <2>1, <2>2, GrowIs
  <2> QED
    BY <2>1, <2>3
<1>3. ASSUME NEW k, NEW C, Good(k, C) PROVE C \in X
  BY <1>3 DEF Holds
<1>4. Good(0, B) /\ B \in X
  <2>1. B \in X
    BY DEF Holds
  <2> QED
    BY <1>1, <2>1
<1>5. step \in [Nat \X X -> X]
  <2> HIDE DEF Turn
  <2> QED
    OBVIOUS
<1>6. PICK f : RepeatsTo(n, X, B, step, f)
  <2> HIDE DEF X, step, Good, Turn, F
  <2>1. B \in X
    BY <1>4
  <2> QED
    BY <1>5, <2>1, RepeatTo
<1>7. \A k \in 0 .. n : Good(k, f[k])
  <2> DEFINE G == {k \in 0 .. n : Good(k, f[k])}
  <2>1. 0 \in G
    BY <1>4, <1>6 DEF RepeatsTo
  <2>2. ASSUME NEW k \in 0 .. (n - 1), k \in G PROVE k + 1 \in G
    <3>1. Good(k, f[k])
      BY <2>2
    <3> HIDE DEF Good, Turn
    <3>2. Good(k + 1, Turn(k + 1, f[k])) /\ Turn(k + 1, f[k]) \in X
      <4> HIDE DEF X
      <4> QED
        BY <1>2, <1>3, <3>1
    <3>3. <<k + 1, f[k]>> \in Nat \X X /\ k + 1 \in 0 .. n
      BY <1>6 DEF RepeatsTo
    <3>4. f[k + 1] = Turn(k + 1, f[k])
      BY <1>6, <3>2, <3>3 DEF RepeatsTo
    <3> QED
      BY <3>2, <3>3, <3>4
  <2> HIDE DEF G
  <2>3. \A k \in 0 .. n : k \in G
    BY <2>1, <2>2, UpTo
  <2> USE DEF G
  <2> HIDE DEF Good
  <2> QED
    BY <2>3
<1> HIDE DEF Good
<1>8. ASSUME NEW k \in 0 .. n PROVE f[k] = IF k = 0 THEN B ELSE Turn(k, f[k - 1])
  <2> HIDE DEF Turn
  <2>1. CASE k = 0
    BY <1>6, <2>1 DEF RepeatsTo
  <2>2. CASE k # 0
    <3>1. k - 1 \in 0 .. (n - 1) /\ k - 1 \in 0 .. n /\ (k - 1) + 1 = k
      BY <2>2
    <3>2. PICK j \in 0 .. (n - 1) : j = k - 1 /\ j + 1 = k /\ j \in 0 .. n
      BY <3>1
    <3>3. Turn(j + 1, f[j]) \in X
      <4> HIDE DEF X
      <4> QED
        BY <1>2, <1>3, <1>7, <3>2
    <3>4. <<j + 1, f[j]>> \in Nat \X X
      BY <1>6, <3>2 DEF RepeatsTo
    <3>5. f[j + 1] = step[<<j + 1, f[j]>>]
      <4> HIDE DEF X, step
      <4> QED
        BY <1>6, <3>2 DEF RepeatsTo
    <3>6. f[j + 1] = Turn(j + 1, f[j])
      <4> HIDE DEF X
      <4> QED
        BY <3>3, <3>4, <3>5
    <3> QED
      BY <2>2, <3>2, <3>6
  <2> QED
    BY <2>1, <2>2
<1>9. f = [k \in 0 .. n |-> IF k = 0 THEN B ELSE Turn(k, f[k - 1])]
  <2> HIDE DEF Turn, X
  <2> QED
    BY <1>6, <1>8 DEF RepeatsTo
<1>10. F = [k \in 0 .. n |-> IF k = 0 THEN B ELSE Turn(k, F[k - 1])]
  <2> HIDE DEF Turn
  <2> QED
    BY <1>1, <1>9
<1>11. TreeGrow(B, o, desired).bits = F[n]
  BY <1>1 DEF TreeGrow
<1> HIDE DEF F, Turn, step, X
<1>12. \A k \in 0 .. n : Good(k, F[k])
  <2> DEFINE G == {k \in 0 .. n : Good(k, F[k])}
  <2>1. 0 \in G
    <3>1. 0 \in 0 .. n
      OBVIOUS
    <3> QED
      BY <1>4, <1>10, <3>1
  <2>2. ASSUME NEW k \in 0 .. (n - 1), k \in G PROVE k + 1 \in G
    <3>1. k + 1 \in 0 .. n /\ k + 1 # 0 /\ (k + 1) - 1 = k
      OBVIOUS
    <3>2. F[k + 1] = Turn(k + 1, F[k])
      BY <1>10, <3>1
    <3> QED
      BY <1>2, <2>2, <3>1, <3>2
  <2> HIDE DEF G
  <2>3. \A k \in 0 .. n : k \in G
    BY <2>1, <2>2, UpTo
  <2> USE DEF G
  <2> QED
    BY <2>3
<1>13. Good(n, F[n])
  BY <1>12
<1> QED
  BY <1>1, <1>11, <1>13 DEF Good

-----------------------------------------------------------------------------
(* buddy_is_free() *)

\* buddy_is_free(): no mark meets the slots from `from` on.
LEMMA IsFreeMeans ==
    ASSUME NEW o, NEW n, Fits(o, n), NEW B, NEW S, Holds(B, o, S), NEW M, Sound(o, S, M),
           NEW from \in Nat, IsFree(B, o, n, from),
           n = EffectiveSize(n) => from # n - 1,
           NEW m \in M, NEW x \in Interval(o, m), x >= TwoTo[o - 1] + from
    PROVE  x >= PastLeaf(o, n)
<1>1. PICK e \in Nat : /\ e = TwoTo[o - 1] /\ e = EffectiveSize(n) /\ n <= e /\ e < 2 * n
                       /\ o \in Orders /\ n \in Nat /\ n >= 1 /\ o \in Nat
  BY FitIs, Halving
<1>2. m \in Positions(o) /\ M \subseteq Positions(o)
  BY DEF Sound
<1>3. x \in Nat
  <2>1. Low(o, m) \in Nat /\ Interval(o, m) = Low(o, m) .. (Low(o, m) + Width(o, m) - 1)
    BY <1>1, <1>2, IntervalIs
  <2> QED
    BY <2>1
<1> DEFINE first == e + from
           last == e + e - (IF e - n = 0 THEN 1 ELSE e - n)
           Above(leaf) == {q \in Positions(o) : /\ leaf \in Interval(o, q)
                                                /\ Interval(o, q) \subseteq first .. last}
<1>4. ASSUME NEW leaf \in first .. (last - 1) PROVE TreeIsFree(B, o, Smallest(Above(leaf)))
  BY <1>1 DEF IsFree
<1>5. last \in Nat /\ first \in Nat /\ first >= e
  BY <1>1
<1>6. SUFFICES ASSUME x < e + n PROVE FALSE
  BY <1>1, <1>3 DEF PastLeaf
<1>7. ASSUME NEW leaf \in first .. (last - 1), leaf < 2 * e
      PROVE  \E q \in Above(leaf) : /\ \A r \in Above(leaf) : q <= r
                                    /\ Interval(o, m) \cap Interval(o, q) = {}
  <2>1. leaf \in Nat /\ leaf >= e /\ leaf <= last
    BY <1>5
  <2>2. leaf \in Above(leaf)
    <3>1. leaf = Leaf(o, leaf - e) /\ leaf - e \in Nat /\ leaf - e < TwoTo[o - 1]
      BY <1>1, <1>7, <2>1 DEF Leaf
    <3>2. leaf \in Positions(o) /\ Interval(o, leaf) = {leaf}
      BY <1>1, <3>1, LeafIs
    <3>3. leaf \in first .. last
      BY <1>5
    <3> QED
      BY <3>2, <3>3
  <2> DEFINE A == Above(leaf)
  <2>3. A \subseteq Positions(o) /\ A # {}
    BY <2>2
  <2>4. TreeIsFree(B, o, Smallest(A))
    BY <1>4
  <2> HIDE DEF A
  <2>5. PICK q \in A : \A r \in A : q <= r
    BY <1>1, <2>3, FirstPosition
  <2>6. PICK s : s = Smallest(A) /\ s \in A /\ \A r \in A : s <= r
    BY <2>5 DEF Smallest
  <2>7. Interval(o, m) \cap Interval(o, s) = {}
    BY <1>1, <2>3, <2>4, <2>6, TreeIsFreeMeans
  <2> USE DEF A
  <2> QED
    BY <2>6, <2>7
<1>8. CASE x <= last - 1
  <2>1. x \in first .. (last - 1) /\ x < 2 * e
    BY <1>1, <1>3, <1>5, <1>6, <1>8
  <2>2. PICK q \in Above(x) : Interval(o, m) \cap Interval(o, q) = {}
    BY <1>7, <2>1
  <2>3. x \in Interval(o, q)
    BY <2>2
  <2> QED
    BY <2>2, <2>3
<1>9. CASE ~(x <= last - 1)
  <2>1. n = e /\ last = 2 * e - 1 /\ x = 2 * e - 1
    BY <1>1, <1>3, <1>6, <1>9
  <2>2. from < n - 1 /\ e >= 2
    <3>1. from # n - 1
      BY <1>1, <2>1
    <3>2. x >= e + from
      BY <1>1
    <3>3. from <= e - 1
      BY <2>1, <3>2
    <3> QED
      BY <2>1, <3>1, <3>3
  <2>3. PICK p \in Nat : p = e - 1 /\ p >= 1 /\ 2 * p = 2 * e - 2 /\ 2 * p + 1 = 2 * e - 1
    BY <2>2
  <2>4. 2 * p \in first .. (last - 1) /\ 2 * p < 2 * e
    BY <1>1, <2>1, <2>2, <2>3
  <2>5. PICK q \in Above(2 * p) : /\ \A r \in Above(2 * p) : q <= r
                                  /\ Interval(o, m) \cap Interval(o, q) = {}
    BY <1>7, <2>4
  <2>6. p \in Positions(o) /\ p < TwoTo[o - 1]
    <3>1. TwoTo[o] = 2 * e
      BY <1>1, Halving
    <3> QED
      BY <1>1, <2>2, <2>3, <3>1 DEF Positions
  <2>7. Interval(o, p) = {2 * p, 2 * p + 1}
    <3>1. Interval(o, 2 * p) \cup Interval(o, 2 * p + 1) = Interval(o, p)
      BY <1>1, <2>6, Halves
    <3>2. 2 * p = Leaf(o, e - 2) /\ 2 * p + 1 = Leaf(o, e - 1)
      BY <1>1, <2>3 DEF Leaf
    <3>3. Interval(o, 2 * p) = {2 * p} /\ Interval(o, 2 * p + 1) = {2 * p + 1}
      <4>1. e - 2 \in Nat /\ e - 1 \in Nat /\ e - 2 < TwoTo[o - 1] /\ e - 1 < TwoTo[o - 1]
        BY <1>1, <2>2
      <4>2. Interval(o, Leaf(o, e - 2)) = {Leaf(o, e - 2)}
        BY <1>1, <4>1, LeafIs
      <4>3. Interval(o, Leaf(o, e - 1)) = {Leaf(o, e - 1)}
        BY <1>1, <4>1, LeafIs
      <4> QED
        BY <3>2, <4>2, <4>3
    <3> QED
      BY <3>1, <3>3
  <2>8. p \in Above(2 * p)
    <3>1. 2 * p + 1 \in first .. last /\ 2 * p \in first .. last
      BY <1>1, <2>1, <2>2, <2>3
    <3> QED
      BY <2>6, <2>7, <3>1
  <2>9. q \in Positions(o) /\ 2 * p \in Interval(o, q) /\ q <= p
    BY <2>5, <2>8
  <2>10. x \in Interval(o, q)
    <3>1. Interval(o, p) \cap Interval(o, q) # {}
      BY <2>7, <2>9
    <3>2. p = q \/ Under(o, p, q) \/ Under(o, q, p)
      BY <1>1, <2>6, <2>9, <3>1, Meet
    <3>3. Under(o, q, p) => p = q
      <4>1. Under(o, q, p) => p <= q
        BY <1>1, <2>6, <2>9, UnderIsLater
      <4>2. q \in Nat
        BY <1>1, <2>9, Family
      <4> QED
        BY <2>3, <2>9, <4>1, <4>2
    <3>4. Interval(o, p) \subseteq Interval(o, q)
      BY <3>2, <3>3 DEF Under
    <3> QED
      BY <2>1, <2>3, <2>7, <3>4
  <2> QED
    BY <2>5, <2>10
<1> QED
  BY <1>8, <1>9

-----------------------------------------------------------------------------
(* The inductive invariant *)

\* The inductive invariant: the statuses are those that the blocks and the
\* missing slots call for, and every block has a position inside the arena.
TreeInv ==
    /\ Fits(order, slots)
    /\ Placed(order, live)
    /\ \A b \in live : b[1] + b[2] <= slots /\ b[2] \in Sizes
    /\ \E S : /\ Holds(bits, order, S)
              /\ Sound(order, S, Marks(order, live) \cup Virtual(order, slots))

\* address_for_position() and size_for_depth() give the place of a position.
LEMMA BlockIs ==
    ASSUME Fits(order, slots), NEW p \in Positions(order)
    PROVE  BlockOf(p) = Place(order, p) /\ SizeOf(p) = Width(order, p)
<1>1. PICK o \in Orders : o = order
  BY FitIs
<1>2. SizeOf(p) = Width(o, p)
  BY <1>1, FitIs DEF SizeOf
<1>3. PICK d \in Nat, w \in Nat, h \in Nat :
          /\ d = Depth(p) /\ d >= 1 /\ d <= o /\ w = Width(o, p) /\ h = TwoTo[d - 1] /\ p \in Nat
  <2>1. Depth(p) \in Nat /\ Depth(p) >= 1 /\ Depth(p) <= o /\ Width(o, p) \in Nat /\ p \in Nat
    BY <1>1, Family, IntervalIs
  <2>2. TwoTo[Depth(p) - 1] \in Nat
    BY <2>1, Powers
  <2> QED
    BY <2>1, <2>2
<1>4. h * w = TwoTo[o - 1]
  <2>1. o \in Nat /\ d - 1 \in Nat /\ o - d \in Nat /\ (d - 1) + (o - d) = o - 1
    BY <1>3 DEF Orders
  <2>2. TwoTo[(d - 1) + (o - d)] = TwoTo[d - 1] * TwoTo[o - d]
    BY <2>1, PowerSum
  <2> QED
    BY <1>3, <2>1, <2>2 DEF Width
<1>5. w * (p - h) = p * w - h * w
  BY <1>3
<1> QED
  BY <1>1, <1>2, <1>3, <1>4, <1>5 DEF BlockOf, Place, Low

\* What a block of L says of its position.
LEMMA MarkBounds ==
    ASSUME NEW o \in Orders, NEW n \in Nat, NEW L, \A b \in L : b[1] + b[2] <= n, NEW p \in Marks(o, L)
    PROVE  p \in Positions(o) /\ Low(o, p) + Width(o, p) <= PastLeaf(o, n) /\ p \notin Virtual(o, n)
<1>1. p \in Positions(o) /\ Place(o, p) \in L
  BY DEF Marks
<1>2. PICK l \in Nat, w \in Nat, e \in Nat : l = Low(o, p) /\ w = Width(o, p) /\ e = TwoTo[o - 1] /\ w >= 1
  BY <1>1, Halving, IntervalIs
<1>3. Place(o, p)[1] = l - e /\ Place(o, p)[2] = w
  BY <1>2 DEF Place
<1>4. (l - e) + w <= n
  BY <1>1, <1>3
<1>5. l + w <= e + n
  BY <1>2, <1>4
<1>6. ~(l >= e + n)
  BY <1>2, <1>5
<1> QED
  BY <1>1, <1>2, <1>5, <1>6 DEF PastLeaf, Virtual

\* Blocks inside the arena have their marks there.
LEMMA KeptIs ==
    ASSUME NEW o \in Orders, NEW n \in Nat, NEW L, \A b \in L : b[1] + b[2] <= n
    PROVE  Kept(o, n, Marks(o, L))
BY MarkBounds DEF Kept

\* A position that meets no missing slot lies inside the arena.
LEMMA ClearOfVirtual ==
    ASSUME NEW o, NEW n, Fits(o, n), NEW p \in Positions(o),
           \A v \in Virtual(o, n) : Interval(o, v) \cap Interval(o, p) = {}
    PROVE  Low(o, p) + Width(o, p) <= PastLeaf(o, n)
<1>1. PICK e \in Nat : /\ e = TwoTo[o - 1] /\ o \in Orders /\ n \in Nat
  BY FitIs, Halving
<1>2. PICK l \in Nat, w \in Nat : /\ l = Low(o, p) /\ w = Width(o, p) /\ w >= 1
                                  /\ Interval(o, p) = l .. (l + w - 1)
  BY <1>1, IntervalIs
<1>3. SUFFICES ASSUME ~(l + w <= e + n) PROVE FALSE
  BY <1>1, <1>2 DEF PastLeaf
<1>4. PICK y \in Nat : y = l + w - 1 /\ y >= e + n /\ y \in Interval(o, p)
  <2>1. l + w - 1 \in Nat /\ l + w - 1 >= e + n
    BY <1>1, <1>2, <1>3, SMTT(40)
  <2>2. l + w - 1 \in l .. (l + w - 1)
    BY <1>2
  <2> QED
    BY <1>2, <2>1, <2>2
<1>5. Interval(o, p) \subseteq e .. (2 * e - 1)
  BY <1>1, InRoot
<1>6. y < 2 * e /\ y >= e
  BY <1>1, <1>4, <1>5
<1>7. y = Leaf(o, y - e) /\ y - e \in Nat /\ y - e < TwoTo[o - 1]
  BY <1>1, <1>4, <1>6 DEF Leaf
<1>8. y \in Positions(o) /\ Interval(o, y) = {y} /\ Low(o, y) = y
  BY <1>1, <1>7, LeafIs
<1>9. Low(o, y) >= PastLeaf(o, n)
  BY <1>1, <1>4, <1>8 DEF PastLeaf
<1>10. PICK v \in Virtual(o, n) : y = v \/ Under(o, y, v)
  BY <1>8, <1>9, VirtualComplete
<1>11. y \in Interval(o, v)
  BY <1>8, <1>10 DEF Under
<1> QED
  BY <1>4, <1>11

\* buddy_init() masks the missing slots of an unused tree.
LEMMA InitInv == Init => TreeInv
<1>1. SUFFICES ASSUME Init PROVE TreeInv
  OBVIOUS
<1>2. Fits(order, slots)
  <2>1. Slots \in Nat /\ Slots >= 1
    BY ResizesOK
  <2>2. OrderForMemory(Slots) \in Orders
    BY <2>1, OrderIs
  <2> QED
    BY <1>1, <2>1, <2>2 DEF Init, Fits
<1>3. PICK o \in Orders, n \in Nat : o = order /\ n = slots /\ Fits(o, n)
  BY <1>2, FitIs
<1>4. live = {} /\ bits = ToggleVirtualSlots({}, o, n, TRUE)
  BY <1>1, <1>3 DEF Init, MaskVirtualSlots
<1>5. Placed(o, {}) /\ Marks(o, {}) = {} /\ Kept(o, n, {})
  BY DEF Placed, Marks, Kept
<1> DEFINE S == [p \in Positions(o) |-> 0]
<1>6. Holds({}, o, S)
  <2>1. ASSUME NEW p \in Positions(o)
        PROVE  /\ S[p] \in Nat /\ S[p] <= LocalOffset(o, p)
               /\ Location(o, p) .. (Location(o, p) + S[p] - 1) = {}
    <3>1. Location(o, p) \in Nat /\ LocalOffset(o, p) \in Nat
      BY FieldIs, Family
    <3> QED
      BY <3>1
  <2>2. S \in Statuses(o)
    BY <2>1 DEF Statuses
  <2> HIDE DEF S
  <2> QED
    BY <2>1, <2>2 DEF Holds
<1>7. Sound(o, S, {})
  <2>1. ASSUME NEW p \in Positions(o) PROVE NodeSound(o, S, {}, p)
    <3>1. p < TwoTo[o - 1] => 2 * p \in Positions(o) /\ 2 * p + 1 \in Positions(o)
      BY ChildrenOf
    <3> QED
      BY <3>1 DEF NodeSound, Combine
  <2> QED
    BY <2>1 DEF Sound
<1> HIDE DEF S
<1>8. \E T : Holds(bits, o, T) /\ Sound(o, T, {} \cup Virtual(o, n))
  <2>1. Sound(o, S, IF TRUE THEN {} ELSE {} \cup Virtual(o, n))
    BY <1>7
  <2>2. \E T : /\ Holds(ToggleVirtualSlots({}, o, n, TRUE), o, T)
               /\ Sound(o, T, IF TRUE THEN {} \cup Virtual(o, n) ELSE {})
    BY <1>3, <1>5, <1>6, <2>1, ToggleVirtualSlotsIs
  <2> QED
    BY <1>4, <2>2
<1> QED
  BY <1>3, <1>4, <1>5, <1>8 DEF TreeInv

\* The marks of the arena.
Used == Marks(order, live) \cup Virtual(order, slots)

\* buddy_malloc() marks a position that nothing meets.
LEMMA MallocInv ==
    ASSUME TreeInv, NEW p \in Positions(order), Malloc(p)
    PROVE  TreeInv'
<1>1. PICK o, n : o = order /\ n = slots /\ Fits(o, n) /\ o \in Orders /\ n \in Nat
  BY FitIs DEF TreeInv
<1>2. PICK S : Holds(bits, o, S) /\ Sound(o, S, Used)
  BY <1>1 DEF TreeInv, Used
<1>3. BlockOf(p) = Place(o, p) /\ SizeOf(p) = Width(o, p) /\ p \in Positions(o)
  BY <1>1, BlockIs
<1>4. ASSUME NEW m \in Used PROVE Interval(o, m) \cap Interval(o, p) = {}
  BY <1>1, <1>2, <1>3, TreeIsFreeMeans DEF Malloc
<1>5. Low(o, p) + Width(o, p) <= PastLeaf(o, n)
  BY <1>1, <1>3, <1>4, ClearOfVirtual DEF Used
<1>6. PICK b : b = BlockOf(p)
  OBVIOUS
<1>7. b[1] + b[2] <= n /\ b[2] \in Sizes
  <2>1. PICK l \in Nat, w \in Nat, e \in Nat : l = Low(o, p) /\ w = Width(o, p) /\ e = TwoTo[o - 1]
    BY <1>1, <1>3, Halving, IntervalIs
  <2>2. b[1] = l - e /\ b[2] = w
    BY <1>3, <1>6, <2>1 DEF Place
  <2>3. l + w <= e + n
    BY <1>5, <2>1 DEF PastLeaf
  <2>4. w \in Sizes
    BY <1>3, <2>1 DEF Malloc
  <2> QED
    BY <1>1, <2>1, <2>2, <2>3, <2>4
<1>8. Marks(o, live \cup {b}) = Marks(o, live) \cup {p}
  <2>1. ASSUME NEW q \in Positions(o) PROVE Place(o, q) = b <=> q = p
    BY <1>1, <1>3, <1>6, PlaceOne
  <2> QED
    BY <1>3, <2>1 DEF Marks
<1>9. \E T : Holds(Mark(bits, o, p), o, T) /\ Sound(o, T, Used \cup {p})
  BY <1>1, <1>2, <1>3, <1>4, MarkIs
<1>10. Used \cup {p} = Marks(o, live \cup {b}) \cup Virtual(o, n)
  BY <1>1, <1>8 DEF Used
<1>11. bits' = Mark(bits, o, p) /\ live' = live \cup {b} /\ order' = o /\ slots' = n
  BY <1>1, <1>6 DEF Malloc
<1>12. Placed(o, live \cup {b})
  BY <1>1, <1>3, <1>6 DEF TreeInv, Placed
<1>13. \A c \in live \cup {b} : c[1] + c[2] <= n /\ c[2] \in Sizes
  BY <1>1, <1>7 DEF TreeInv
<1> QED
  BY <1>1, <1>9, <1>10, <1>11, <1>12, <1>13 DEF TreeInv

\* buddy_free() releases the position of a block.
LEMMA FreeInv ==
    ASSUME TreeInv, NEW p \in Positions(order), Free(p)
    PROVE  TreeInv'
<1>1. PICK o, n : o = order /\ n = slots /\ Fits(o, n) /\ o \in Orders /\ n \in Nat
  BY FitIs DEF TreeInv
<1>2. PICK S : Holds(bits, o, S) /\ Sound(o, S, Used)
  BY <1>1 DEF TreeInv, Used
<1>3. BlockOf(p) = Place(o, p) /\ p \in Positions(o)
  BY <1>1, BlockIs
<1>4. PICK b : b = BlockOf(p) /\ b \in live
  BY DEF Free
<1>5. p \in Marks(o, live)
  BY <1>3, <1>4 DEF Marks
<1>6. p \notin Virtual(o, n)
  BY <1>1, <1>5, MarkBounds DEF TreeInv
<1>7. Marks(o, live \ {b}) = Marks(o, live) \ {p}
  <2>1. ASSUME NEW q \in Positions(o) PROVE Place(o, q) = b <=> q = p
    BY <1>1, <1>3, <1>4, PlaceOne
  <2> QED
    BY <1>3, <2>1 DEF Marks
<1>8. \E T : Holds(Release(bits, o, p), o, T) /\ Sound(o, T, Used \ {p})
  <2>1. p \in Used
    BY <1>1, <1>5 DEF Used
  <2> QED
    BY <1>1, <1>2, <2>1, ReleaseIs
<1>9. Used \ {p} = Marks(o, live \ {b}) \cup Virtual(o, n)
  BY <1>1, <1>6, <1>7 DEF Used
<1>10. bits' = Release(bits, o, p) /\ live' = live \ {b} /\ order' = o /\ slots' = n
  BY <1>1, <1>4 DEF Free
<1>11. Placed(o, live \ {b}) /\ \A c \in live \ {b} : c[1] + c[2] <= n /\ c[2] \in Sizes
  BY <1>1 DEF TreeInv, Placed
<1> QED
  BY <1>1, <1>8, <1>9, <1>10, <1>11 DEF TreeInv

\* A slot reserved by itself is the block at its leaf.
LEMMA LeafPlace ==
    ASSUME NEW o, NEW n, Fits(o, n), NEW s \in Nat, NEW k \in Nat, s + k <= n
    PROVE  /\ \A i \in s .. (s + k - 1) : /\ i \in Nat /\ i < TwoTo[o - 1]
                                          /\ Leaf(o, i) \in Positions(o)
                                          /\ Place(o, Leaf(o, i)) = <<i, 1>>
                                          /\ Leaf(o, i) \notin Virtual(o, n)
           /\ Leaves(o, s, k) = {p \in Positions(o) : Place(o, p) \in ReservedSlots(s, k)}
<1>1. PICK e \in Nat : e = TwoTo[o - 1] /\ n <= e /\ o \in Orders /\ n \in Nat
  BY FitIs
<1>2. ASSUME NEW i \in s .. (s + k - 1)
      PROVE  /\ i \in Nat /\ i < TwoTo[o - 1] /\ Leaf(o, i) \in Positions(o)
             /\ Place(o, Leaf(o, i)) = <<i, 1>> /\ Leaf(o, i) \notin Virtual(o, n)
  <2>1. i \in Nat /\ i < n /\ i < TwoTo[o - 1]
    BY <1>1
  <2>2. PICK p : p = Leaf(o, i) /\ p \in Positions(o) /\ Low(o, p) = p /\ Width(o, p) = 1
    BY <1>1, <2>1, LeafIs
  <2>3. p = e + i
    BY <1>1, <2>2 DEF Leaf
  <2>4. Low(o, p) - TwoTo[o - 1] = i
    BY <1>1, <2>1, <2>2, <2>3
  <2>5. ~(Low(o, p) >= PastLeaf(o, n))
    BY <1>1, <2>1, <2>2, <2>3 DEF PastLeaf
  <2> QED
    BY <2>1, <2>2, <2>4, <2>5 DEF Place, Virtual
<1>3. ASSUME NEW p \in Leaves(o, s, k)
      PROVE  p \in Positions(o) /\ Place(o, p) \in ReservedSlots(s, k)
  BY <1>2 DEF Leaves, ReservedSlots
<1>4. ASSUME NEW p \in Positions(o), Place(o, p) \in ReservedSlots(s, k)
      PROVE  p \in Leaves(o, s, k)
  <2>1. PICK i \in s .. (s + k - 1) : Place(o, p) = <<i, 1>>
    BY <1>4 DEF ReservedSlots
  <2>2. p = Leaf(o, i)
    BY <1>1, <1>2, <2>1, PlaceOne
  <2> QED
    BY <2>1, <2>2 DEF Leaves
<1> QED
  BY <1>2, <1>3, <1>4

\* buddy_reserve_range() marks leaves that nothing meets.
LEMMA ReserveInv ==
    ASSUME TreeInv, NEW s \in 0 .. (slots - 1), NEW k \in Ranges, ReserveRange(s, k)
    PROVE  TreeInv'
<1>1. PICK o, n : o = order /\ n = slots /\ Fits(o, n) /\ o \in Orders /\ n \in Nat
  BY FitIs DEF TreeInv
<1>2. PICK S : Holds(bits, o, S) /\ Sound(o, S, Used)
  BY <1>1 DEF TreeInv, Used
<1>3. s \in Nat /\ k \in Nat /\ s + k <= n
  BY <1>1, ResizesOK DEF ReserveRange
<1>4. ASSUME NEW i \in s .. (s + k - 1)
      PROVE  /\ i \in Nat /\ i < TwoTo[o - 1] /\ Leaf(o, i) \in Positions(o)
             /\ Place(o, Leaf(o, i)) = <<i, 1>> /\ i + 1 <= n
             /\ \A m \in Used : Interval(o, m) \cap Interval(o, Leaf(o, i)) = {}
  <2>1. /\ i \in Nat /\ i < TwoTo[o - 1] /\ Leaf(o, i) \in Positions(o)
        /\ Place(o, Leaf(o, i)) = <<i, 1>>
    BY <1>1, <1>3, LeafPlace
  <2>2. TreeIsFree(bits, o, Leaf(o, i))
    BY <1>1 DEF ReserveRange, DeepestPosition, Leaf
  <2>3. \A m \in Used : Interval(o, m) \cap Interval(o, Leaf(o, i)) = {}
    BY <1>1, <1>2, <2>1, <2>2, TreeIsFreeMeans
  <2>4. i + 1 <= n
    BY <1>1, <1>3
  <2> QED
    BY <2>1, <2>3, <2>4
<1>5. s + k <= TwoTo[o - 1]
  BY <1>1, <1>3, FitIs
<1>6. \E T : Holds(ToggleRange(s, k, TRUE), o, T) /\ Sound(o, T, Ranged(o, Used, s, k, TRUE))
  BY <1>1, <1>2, <1>3, <1>4, <1>5, ToggleRangeIs
<1>7. PICK N : N = live \cup ReservedSlots(s, k)
  OBVIOUS
<1>8. Ranged(o, Used, s, k, TRUE) = Marks(o, N) \cup Virtual(o, n)
  <2>1. Leaves(o, s, k) = {p \in Positions(o) : Place(o, p) \in ReservedSlots(s, k)}
    BY <1>1, <1>3, LeafPlace
  <2> QED
    BY <1>1, <1>7, <2>1 DEF Ranged, Used, Marks
<1>9. bits' = ToggleRange(s, k, TRUE) /\ live' = N /\ order' = o /\ slots' = n
  BY <1>1, <1>7 DEF ReserveRange
<1>10. ASSUME NEW b \in ReservedSlots(s, k)
       PROVE  /\ b[1] + b[2] <= n /\ b[2] \in Sizes
              /\ \E p \in Positions(o) : b = Place(o, p)
  <2>1. PICK i \in s .. (s + k - 1) : b = <<i, 1>>
    BY DEF ReservedSlots
  <2>2. b[1] + b[2] <= n
    BY <1>4, <2>1
  <2>3. b[2] \in Sizes
    BY <2>1, ResizesOK
  <2>4. Leaf(o, i) \in Positions(o) /\ b = Place(o, Leaf(o, i))
    BY <1>4, <2>1
  <2> QED
    BY <2>2, <2>3, <2>4
<1>11. Placed(o, N) /\ \A b \in N : b[1] + b[2] <= n /\ b[2] \in Sizes
  BY <1>1, <1>7, <1>10 DEF TreeInv, Placed
<1> QED
  BY <1>1, <1>6, <1>8, <1>9, <1>11 DEF TreeInv

\* buddy_unsafe_release_range() releases the leaves that are marked.
LEMMA ReleaseInv ==
    ASSUME TreeInv, NEW s \in 0 .. (slots - 1), NEW k \in Ranges, ReleaseRange(s, k)
    PROVE  TreeInv'
<1>1. PICK o, n : o = order /\ n = slots /\ Fits(o, n) /\ o \in Orders /\ n \in Nat
  BY FitIs DEF TreeInv
<1>2. PICK S : Holds(bits, o, S) /\ Sound(o, S, Used)
  BY <1>1 DEF TreeInv, Used
<1>3. s \in Nat /\ k \in Nat /\ s + k <= n
  BY <1>1, ResizesOK DEF ReleaseRange
<1>4. s + k <= TwoTo[o - 1]
  BY <1>1, <1>3, FitIs
<1>5. \E T : Holds(ToggleRange(s, k, FALSE), o, T) /\ Sound(o, T, Ranged(o, Used, s, k, FALSE))
  BY <1>1, <1>2, <1>3, <1>4, ToggleRangeIs
<1>6. PICK N : N = live \ ReservedSlots(s, k)
  OBVIOUS
<1>7. Ranged(o, Used, s, k, FALSE) = Marks(o, N) \cup Virtual(o, n)
  <2>1. Leaves(o, s, k) = {p \in Positions(o) : Place(o, p) \in ReservedSlots(s, k)}
    BY <1>1, <1>3, LeafPlace
  <2>2. ASSUME NEW p \in Leaves(o, s, k) PROVE p \notin Virtual(o, n)
    BY <1>1, <1>3, LeafPlace DEF Leaves
  <2> QED
    BY <1>1, <1>6, <2>1, <2>2 DEF Ranged, Used, Marks
<1>8. bits' = ToggleRange(s, k, FALSE) /\ live' = N /\ order' = o /\ slots' = n
  BY <1>1, <1>6 DEF ReleaseRange
<1>9. Placed(o, N) /\ \A b \in N : b[1] + b[2] <= n /\ b[2] \in Sizes
  BY <1>1, <1>6 DEF TreeInv, Placed
<1> QED
  BY <1>1, <1>5, <1>7, <1>8, <1>9 DEF TreeInv

\* When buddy_is_free() finds nothing from slot n on, every block ends before it.
LEMMA BlocksFit ==
    ASSUME TreeInv, NEW n \in Nat, slots = EffectiveSize(slots) => n # slots - 1,
           IsFree(bits, order, slots, n), NEW b \in live
    PROVE  b[1] + b[2] <= n
<1>1. PICK o \in Orders, k \in Nat : o = order /\ k = slots /\ Fits(o, k)
  BY FitIs DEF TreeInv
<1>2. PICK S : Holds(bits, o, S) /\ Sound(o, S, Used)
  BY <1>1 DEF TreeInv, Used
<1>3. PICK p \in Positions(o) : b = Place(o, p)
  BY <1>1 DEF TreeInv, Placed
<1>4. p \in Used
  BY <1>1, <1>3 DEF Used, Marks
<1>5. PICK l \in Nat, w \in Nat, e \in Nat :
          /\ l = Low(o, p) /\ w = Width(o, p) /\ e = TwoTo[o - 1] /\ w >= 1
          /\ Interval(o, p) = l .. (l + w - 1) /\ e = EffectiveSize(k)
  <2>1. Low(o, p) \in Nat /\ Width(o, p) \in Nat /\ Width(o, p) >= 1
    BY <1>3, IntervalIs
  <2>2. Interval(o, p) = Low(o, p) .. (Low(o, p) + Width(o, p) - 1)
    BY <1>3, IntervalIs
  <2>3. TwoTo[o - 1] \in Nat /\ EffectiveSize(k) = TwoTo[o - 1]
    BY <1>1, FitIs
  <2> QED
    BY <2>1, <2>2, <2>3
<1>6. b[1] = l - e /\ b[2] = w
  BY <1>3, <1>5 DEF Place
<1>7. l + w <= e + k
  <2>1. (l - e) + w <= k
    BY <1>1, <1>6 DEF TreeInv
  <2> QED
    BY <1>5, <2>1
<1>8. SUFFICES ASSUME ~(l + w <= e + n) PROVE FALSE
  <2>1. l + w <= e + n => (l - e) + w <= n
    BY <1>5
  <2> QED
    BY <1>6, <1>8, <2>1
<1>9. n < k
  BY <1>7, <1>8
<1>10. k = EffectiveSize(k) => n # k - 1
  BY <1>1
<1>11. PICK x \in Nat : x = l + w - 1 /\ x >= e + n /\ x \in Interval(o, p)
  <2>1. l + w - 1 \in Nat /\ l + w - 1 >= e + n
    BY <1>5, <1>8, SMTT(40)
  <2>2. l + w - 1 \in l .. (l + w - 1)
    BY <1>5
  <2> QED
    BY <1>5, <2>1, <2>2
<1>12. x >= PastLeaf(o, k)
  BY <1>1, <1>2, <1>4, <1>5, <1>10, <1>11, IsFreeMeans
<1>13. x >= e + k
  BY <1>5, <1>12 DEF PastLeaf
<1>14. x < e + k
  BY <1>5, <1>7, <1>11
<1> QED
  BY <1>1, <1>11, <1>13, <1>14

\* buddy_resize(): unmask, grow, mask.
LEMMA ResizeInv ==
    ASSUME TreeInv, NEW r \in Resizes, \A t \in Resizes : KeepsOrder(t), Resize(r[2])
    PROVE  TreeInv'
<1>1. PICK o \in Orders, k \in Nat : o = order /\ k = slots /\ Fits(o, k)
  BY FitIs DEF TreeInv
<1>2. PICK n : n = r[2] /\ n \in Nat /\ n >= 1
  BY ResizesOK
<1>3. <<slots, n>> \in Resizes
  BY <1>2 DEF Resize
<1>4. KeepsOrder(<<slots, n>>)
  BY <1>3
<1>5. PICK d \in Orders : d = OrderForMemory(n) /\ Fits(d, n)
  BY <1>2, OrderIs DEF Fits
<1>6. o <= d
  <2>1. <<slots, n>>[1] = k /\ <<slots, n>>[2] = n
    BY <1>1
  <2>2. o = OrderForMemory(k)
    BY <1>1 DEF Fits
  <2> QED
    BY <1>4, <1>5, <2>1, <2>2 DEF KeepsOrder
<1>7. ASSUME NEW b \in live PROVE b[1] + b[2] <= n /\ b[2] \in Sizes
  <2>1. IsFree(bits, order, slots, n)
    BY <1>2 DEF Resize
  <2>2. slots = EffectiveSize(slots) => n # slots - 1
    <3>1. <<slots, n>>[1] = slots /\ <<slots, n>>[2] = n
      OBVIOUS
    <3> QED
      BY <1>4, <3>1 DEF KeepsOrder
  <2>3. b[1] + b[2] <= n
    BY <1>2, <2>1, <2>2, BlocksFit
  <2> QED
    BY <2>3 DEF TreeInv
<1>8. PICK U : U = UnmaskVirtualSlots(bits, o, k)
  OBVIOUS
<1>9. PICK S : Holds(U, o, S) /\ Sound(o, S, Marks(o, live))
  <2>1. PICK T : Holds(bits, o, T) /\ Sound(o, T, Marks(o, live) \cup Virtual(o, k))
    BY <1>1 DEF TreeInv
  <2>2. Kept(o, k, Marks(o, live))
    BY <1>1, KeptIs DEF TreeInv
  <2>3. Sound(o, T, IF FALSE THEN Marks(o, live) ELSE Marks(o, live) \cup Virtual(o, k))
    BY <2>1
  <2>4. \E V : /\ Holds(ToggleVirtualSlots(bits, o, k, FALSE), o, V)
               /\ Sound(o, V, IF FALSE THEN Marks(o, live) \cup Virtual(o, k) ELSE Marks(o, live))
    BY <1>1, <2>1, <2>2, <2>3, ToggleVirtualSlotsIs
  <2> QED
    BY <1>8, <2>4 DEF UnmaskVirtualSlots
<1>10. PICK t : t = TreeResize(U, o, d)
  OBVIOUS
<1>11. /\ t.order = d /\ Placed(d, live)
       /\ \E T : Holds(t.bits, d, T) /\ Sound(d, T, Marks(d, live))
  <2>1. Placed(o, live)
    BY <1>1 DEF TreeInv
  <2>2. CASE o < d
    <3>1. t = TreeGrow(U, o, d)
      BY <1>10, <2>2 DEF TreeResize
    <3>2. t.order = d
      BY <3>1 DEF TreeGrow
    <3>3. /\ Placed(d, live)
          /\ \E T : Holds(TreeGrow(U, o, d).bits, d, T) /\ Sound(d, T, Marks(d, live))
      BY <1>5, <1>6, <1>9, <2>1, TreeGrowIs
    <3> QED
      BY <3>1, <3>2, <3>3
  <2>3. CASE ~(o < d)
    <3>1. o = d /\ ~(o > d)
      BY <1>5, <1>6, <2>3 DEF Orders
    <3>2. t = [bits |-> U, order |-> o]
      BY <1>10, <2>3, <3>1 DEF TreeResize
    <3>3. t.bits = U /\ t.order = d
      BY <3>1, <3>2
    <3> QED
      BY <1>9, <2>1, <3>1, <3>3
  <2> QED
    BY <2>2, <2>3
<1>12. \E T : /\ Holds(MaskVirtualSlots(t.bits, d, n), d, T)
              /\ Sound(d, T, Marks(d, live) \cup Virtual(d, n))
  <2>1. PICK T : Holds(t.bits, d, T) /\ Sound(d, T, Marks(d, live))
    BY <1>11
  <2>2. Kept(d, n, Marks(d, live))
    BY <1>2, <1>5, <1>7, KeptIs
  <2>3. Sound(d, T, IF TRUE THEN Marks(d, live) ELSE Marks(d, live) \cup Virtual(d, n))
    BY <2>1
  <2>4. \E V : /\ Holds(ToggleVirtualSlots(t.bits, d, n, TRUE), d, V)
               /\ Sound(d, V, IF TRUE THEN Marks(d, live) \cup Virtual(d, n) ELSE Marks(d, live))
    BY <1>5, <2>1, <2>2, <2>3, ToggleVirtualSlotsIs
  <2> QED
    BY <2>4 DEF MaskVirtualSlots
<1>13. slots' = n /\ order' = d /\ bits' = MaskVirtualSlots(t.bits, d, n) /\ live' = live
  BY <1>1, <1>2, <1>5, <1>8, <1>10, <1>11 DEF Resize
<1> QED
  BY <1>5, <1>7, <1>11, <1>12, <1>13 DEF TreeInv

\* Every call keeps the invariant.
LEMMA NextInv ==
    ASSUME \A t \in Resizes : KeepsOrder(t)
    PROVE  TreeInv /\ [Next]_vars => TreeInv'
<1> SUFFICES ASSUME TreeInv, [Next]_vars PROVE TreeInv'
  OBVIOUS
<1>1. ASSUME NEW p \in Positions(order), Malloc(p) PROVE TreeInv'
  BY <1>1, MallocInv
<1>2. ASSUME NEW p \in Positions(order), Free(p) PROVE TreeInv'
  BY <1>2, FreeInv
<1>3. ASSUME NEW s \in 0 .. slots - 1, NEW n \in Ranges, ReserveRange(s, n) PROVE TreeInv'
  BY <1>3, ReserveInv
<1>4. ASSUME NEW s \in 0 .. slots - 1, NEW n \in Ranges, ReleaseRange(s, n) PROVE TreeInv'
  BY <1>4, ReleaseInv
<1>5. ASSUME NEW r \in Resizes, Resize(r[2]) PROVE TreeInv'
  BY <1>5, ResizeInv
<1>6. CASE UNCHANGED vars
  BY <1>6 DEF vars, TreeInv
<1> QED
  BY <1>1, <1>2, <1>3, <1>4, <1>5, <1>6 DEF Next

\* The statuses are those the blocks and the missing slots call for, after any
\* sequence of buddy_malloc(), buddy_free(), buddy_reserve_range(),
\* buddy_unsafe_release_range() and buddy_resize(), in arenas of every size.
THEOREM TreeInvariant ==
    ASSUME \A t \in Resizes : KeepsOrder(t)
    PROVE  Spec => []TreeInv
<1>1. TreeInv /\ [Next]_vars => TreeInv'
  BY NextInv
<1> QED
  BY <1>1, InitInv, PTL DEF Spec

\* The invariant gives the types.
LEMMA TypeFromInv == TreeInv => TypeOK
<1> SUFFICES ASSUME TreeInv PROVE TypeOK
  OBVIOUS
<1>1. PICK o \in Orders, n \in Nat : o = order /\ n = slots /\ Fits(o, n) /\ n >= 1
  BY FitIs DEF TreeInv
<1>2. order = OrderForMemory(slots) /\ slots \in Nat \ {0}
  BY <1>1 DEF Fits
<1>3. bits \subseteq 0 .. (SizeForOrder(order, 0) - 1)
  BY DEF TreeInv, Holds
<1>4. ASSUME NEW b \in live PROVE b \in (0 .. slots - 1) \X Sizes
  <2>1. PICK p \in Positions(o) : b = Place(o, p)
    BY <1>1 DEF TreeInv, Placed
  <2>2. PICK l \in Nat, w \in Nat, e \in Nat :
            l = Low(o, p) /\ w = Width(o, p) /\ e = TwoTo[o - 1] /\ w >= 1 /\ l >= e
    <3>1. PICK l \in Nat, w \in Nat, e \in Nat :
             l = Low(o, p) /\ w = Width(o, p) /\ e = TwoTo[o - 1] /\ w >= 1 /\ l \in Interval(o, p)
      BY Halving, IntervalIs
    <3>2. Interval(o, p) \subseteq e .. (2 * e - 1)
      BY <3>1, InRoot
    <3>3. l >= e
      BY <3>1, <3>2
    <3> QED
      BY <3>1, <3>3
  <2>3. b = <<l - e, w>>
    BY <2>1, <2>2 DEF Place
  <2>4. (l - e) + w <= n /\ w \in Sizes
    BY <1>1, <2>3 DEF TreeInv
  <2>5. l - e \in 0 .. n - 1
    BY <2>2, <2>4
  <2> QED
    BY <1>1, <2>3, <2>4, <2>5
<1> QED
  BY <1>2, <1>3, <1>4 DEF TypeOK

\* The tree always has the order the arena needs and its bits lie inside the bitset
\* of that order (buddy_resize(), buddy_tree_resize()).
THEOREM TypeCorrect ==
    ASSUME \A t \in Resizes : KeepsOrder(t)
    PROVE  Spec => []TypeOK
BY TreeInvariant, TypeFromInv, PTL

\* A status is a run of ones from the first bit of its field on.
LEMMA CompareFromInv == TreeInv => CompareAgreesWithRead
<1> SUFFICES ASSUME TreeInv, NEW p \in Positions(order), NEW v \in 1 .. LocalOffset(order, p)
             PROVE  Compare(bits, order, p, v) <=> Read(bits, order, p) >= v
  BY DEF CompareAgreesWithRead
<1>1. order \in Orders
  BY FitIs DEF TreeInv
<1>2. PICK S : Holds(bits, order, S)
  BY DEF TreeInv
<1> QED
  BY <1>1, <1>2, ReadIs, CompareIs

\* The test of a single bit agrees with the count of bits, at every position and for
\* every status (compare_with_internal_position(), read_from_internal_position()).
THEOREM CompareReads ==
    ASSUME \A t \in Resizes : KeepsOrder(t)
    PROVE  Spec => []CompareAgreesWithRead
BY TreeInvariant, CompareFromInv, PTL

\* A block's position is marked.
LEMMA SurviveFromInv == TreeInv => BlocksSurviveResize
<1> SUFFICES ASSUME TreeInv, NEW b \in live
             PROVE  \E p \in Positions(order) :
                       BlockOf(p) = b /\ Read(bits, order, p) = LocalOffset(order, p)
  BY DEF BlocksSurviveResize
<1>1. order \in Orders /\ Fits(order, slots)
  BY FitIs DEF TreeInv
<1>2. PICK p \in Positions(order) : b = Place(order, p)
  BY DEF TreeInv, Placed
<1>3. PICK S : /\ Holds(bits, order, S)
               /\ Sound(order, S, Marks(order, live) \cup Virtual(order, slots))
  BY DEF TreeInv
<1>4. S[p] = LocalOffset(order, p)
  BY <1>2, <1>3 DEF Sound, NodeSound, Marks
<1> QED
  BY <1>1, <1>2, <1>3, <1>4, ReadIs, BlockIs

\* A block in use stays marked as such through every resize that keeps the order or
\* adds to it (buddy_resize()); the resizes that take an order away are those of the
\* run that fails.
THEOREM BlocksSurvive ==
    ASSUME \A t \in Resizes : KeepsOrder(t)
    PROVE  Spec => []BlocksSurviveResize
BY TreeInvariant, SurviveFromInv, PTL

-----------------------------------------------------------------------------
(* What a status says of the blocks *)

\* No mark meets q.
Clear(o, M, q) == \A m \in M : Interval(o, m) \cap Interval(o, q) = {}

\* The largest unused positions from p down have the order that p's status
\* leaves.
RoomAt(o, S, M, p) ==
    /\ \A q \in Positions(o) : (q = p \/ Under(o, q, p)) /\ Clear(o, M, q)
                                 => LocalOffset(o, q) + S[p] <= LocalOffset(o, p)
    /\ S[p] < LocalOffset(o, p) =>
          \E q \in Positions(o) : /\ q = p \/ Under(o, q, p)
                                  /\ Clear(o, M, q)
                                  /\ LocalOffset(o, q) + S[p] = LocalOffset(o, p)

\* What is unused, and below no mark, is clear of the marks.
LEMMA ZeroIsClear ==
    ASSUME NEW o \in Orders, NEW S \in Statuses(o), NEW M, Sound(o, S, M),
           NEW p \in Positions(o), S[p] = 0, \A m \in M : ~Under(o, p, m)
    PROVE  Clear(o, M, p)
<1> SUFFICES ASSUME NEW m \in M, Interval(o, m) \cap Interval(o, p) # {} PROVE FALSE
  BY DEF Clear
<1>1. m \in Positions(o)
  BY DEF Sound
<1>2. m = p \/ Under(o, m, p) \/ Under(o, p, m)
  BY <1>1, Meet
<1>3. m # p
  <2>1. m = p => S[p] = LocalOffset(o, p) /\ LocalOffset(o, p) >= 1
    BY <1>1, Family DEF Sound, NodeSound
  <2>2. LocalOffset(o, p) \in Nat
    BY Family
  <2> QED
    BY <2>1, <2>2
<1>4. ~Under(o, m, p)
  BY <1>1, ZeroBelow
<1> QED
  BY <1>2, <1>3, <1>4

\* A status leaves exactly the room there is: it is computed from the leaves up by
\* update_parent_chain().
LEMMA RoomIs ==
    ASSUME NEW o \in Orders, NEW S \in Statuses(o), NEW M, Sound(o, S, M),
           NEW p \in Positions(o), \A m \in M : ~Under(o, p, m)
    PROVE  RoomAt(o, S, M, p)
<1> DEFINE Bad == {x \in Positions(o) : (\A m \in M : ~Under(o, x, m)) /\ ~RoomAt(o, S, M, x)}
<1>1. SUFFICES ASSUME Bad # {} PROVE FALSE
  OBVIOUS
<1>2. PICK x \in Bad : \A y \in Bad : y <= x
  <2>1. Bad \subseteq Positions(o)
    OBVIOUS
  <2> HIDE DEF Bad
  <2> QED
    BY <1>1, <2>1, FirstPosition
<1>3. x \in Positions(o) /\ (\A m \in M : ~Under(o, x, m)) /\ ~RoomAt(o, S, M, x)
  BY <1>2
<1>4. PICK s \in Nat, t \in Nat : s = S[x] /\ t = LocalOffset(o, x) /\ t >= 1 /\ s <= t
  BY <1>3, StatusIs, Family
<1>5. NodeSound(o, S, M, x) /\ M \subseteq Positions(o)
  BY <1>3 DEF Sound
<1>6. ASSUME NEW q \in Positions(o), q = x \/ Under(o, q, x)
      PROVE  LocalOffset(o, q) \in Nat /\ LocalOffset(o, q) >= 1 /\ LocalOffset(o, q) <= t
  <2>1. /\ LocalOffset(o, q) \in Nat /\ LocalOffset(o, q) >= 1 /\ LocalOffset(o, q) = o - Depth(q) + 1
        /\ LocalOffset(o, x) = o - Depth(x) + 1 /\ Depth(q) \in Nat /\ Depth(x) \in Nat /\ o \in Nat
    BY <1>3, Family DEF Orders
  <2>2. Depth(x) <= Depth(q)
    BY <1>6, <2>1 DEF Under
  <2> QED
    BY <1>4, <2>1, <2>2
<1>7. CASE x \in M
  <2>1. s = t
    BY <1>4, <1>5, <1>7 DEF NodeSound
  <2>2. ASSUME NEW q \in Positions(o), q = x \/ Under(o, q, x) PROVE ~Clear(o, M, q)
    <3>1. Interval(o, q) \subseteq Interval(o, x)
      BY <2>2 DEF Under
    <3>2. Interval(o, q) # {}
      BY IntervalIs
    <3> QED
      BY <1>7, <3>1, <3>2 DEF Clear
  <2>3. ~(s < t)
    BY <2>1
  <2> QED
    BY <1>3, <1>4, <2>2, <2>3 DEF RoomAt
<1>8. CASE x \notin M /\ s = 0
  <2>1. Clear(o, M, x)
    BY <1>3, <1>4, <1>8, ZeroIsClear
  <2>2. ASSUME NEW q \in Positions(o), q = x \/ Under(o, q, x)
        PROVE  LocalOffset(o, q) + s <= t
    BY <1>4, <1>6, <1>8, <2>2
  <2>3. LocalOffset(o, x) + s = t
    BY <1>4, <1>8
  <2> QED
    BY <1>3, <1>4, <2>1, <2>2, <2>3 DEF RoomAt
<1>9. CASE x \notin M /\ s # 0
  <2>1. x < TwoTo[o - 1] /\ S[x] = Combine(S[2 * x], S[2 * x + 1])
    BY <1>4, <1>5, <1>9 DEF NodeSound
  <2>2. /\ 2 * x \in Positions(o) /\ 2 * x + 1 \in Positions(o)
        /\ (2 * x) \div 2 = x /\ (2 * x + 1) \div 2 = x
        /\ LocalOffset(o, 2 * x) = t - 1 /\ LocalOffset(o, 2 * x + 1) = t - 1
    BY <1>3, <1>4, <2>1, ChildrenOf
  <2>3. PICK l \in Nat, r \in Nat : l = S[2 * x] /\ r = S[2 * x + 1]
    BY <2>2, StatusIs
  <2>4. s = Smaller(l, r) + 1
    BY <1>4, <1>9, <2>1, <2>3 DEF Combine
  <2>5. ASSUME NEW c \in {2 * x, 2 * x + 1} PROVE RoomAt(o, S, M, c) /\ Under(o, c, x)
    <3>1. x \in Nat /\ x >= 1
      BY <1>3, Family
    <3>2. c \in Positions(o) /\ c \div 2 = x /\ c > x /\ c # 1
      BY <2>2, <3>1
    <3>3. Under(o, c, x)
      BY <1>3, <3>2, UnderParent
    <3>4. ASSUME NEW m \in M, Under(o, c, m) PROVE FALSE
      <4>1. m \in Positions(o)
        BY <1>5
      <4>2. x = m \/ Under(o, x, m)
        BY <3>2, <3>4, <4>1, UnderParent
      <4> QED
        BY <1>3, <1>9, <4>2
    <3>5. c \notin Bad
      <4>1. c \in Nat
        BY <3>2, Family
      <4> QED
        BY <1>2, <3>1, <3>2, <4>1
    <3> QED
      BY <3>2, <3>3, <3>4, <3>5
  <2>6. ASSUME NEW q \in Positions(o), q = x \/ Under(o, q, x), Clear(o, M, q)
        PROVE  LocalOffset(o, q) + s <= t
    <3>1. q # x
      <4>1. PICK m \in M : m = x \/ Under(o, m, x)
        BY <1>3, <1>4, <1>9, UsedHasMark
      <4>2. Interval(o, m) \subseteq Interval(o, x) /\ Interval(o, m) # {}
        BY <1>5, <4>1, IntervalIs DEF Under
      <4> QED
        BY <2>6, <4>2 DEF Clear
    <3>2. PICK c \in {2 * x, 2 * x + 1} : q = c \/ Under(o, q, c)
      BY <1>3, <2>6, <3>1, ChildToward
    <3>3. LocalOffset(o, q) + S[c] <= LocalOffset(o, c)
      BY <2>5, <2>6, <3>2 DEF RoomAt
    <3>4. PICK v \in Nat : v = S[c] /\ Smaller(l, r) <= v /\ LocalOffset(o, c) = t - 1
      BY <2>2, <2>3, <3>2 DEF Smaller
    <3>5. LocalOffset(o, q) \in Nat
      BY <1>6, <2>6
    <3>6. Smaller(l, r) \in Nat
      BY <2>3 DEF Smaller
    <3> QED
      BY <1>4, <2>4, <3>3, <3>4, <3>5, <3>6
  <2>7. ASSUME s < t
        PROVE  \E q \in Positions(o) : /\ q = x \/ Under(o, q, x)
                                       /\ Clear(o, M, q) /\ LocalOffset(o, q) + s = t
    <3>1. PICK c \in {2 * x, 2 * x + 1} : S[c] = Smaller(l, r) /\ LocalOffset(o, c) = t - 1
      BY <2>2, <2>3 DEF Smaller
    <3>2. PICK v \in Nat : v = S[c] /\ s = v + 1
      BY <2>3, <2>4, <3>1 DEF Smaller
    <3>3. S[c] < LocalOffset(o, c)
      BY <1>4, <2>7, <3>1, <3>2
    <3>4. PICK q \in Positions(o) : /\ q = c \/ Under(o, q, c)
                                    /\ Clear(o, M, q) /\ LocalOffset(o, q) + S[c] = LocalOffset(o, c)
      BY <2>5, <3>3 DEF RoomAt
    <3>5. Under(o, q, x)
      <4>1. Under(o, c, x) /\ c \in Positions(o)
        BY <2>2, <2>5
      <4>2. Depth(c) \in Nat /\ Depth(q) \in Nat /\ Depth(x) \in Nat
        BY <1>3, <4>1, Family
      <4> QED
        BY <3>4, <4>1, <4>2 DEF Under
    <3>6. LocalOffset(o, q) \in Nat
      BY <1>6, <3>5
    <3>7. LocalOffset(o, q) + s = t
      BY <1>4, <3>1, <3>2, <3>4, <3>6
    <3> QED
      BY <3>4, <3>5, <3>7
  <2> QED
    BY <1>3, <1>4, <2>6, <2>7 DEF RoomAt
<1> QED
  BY <1>4, <1>7, <1>8, <1>9

\* The leaves of a position, by two numbers.
LEMMA SpanIs ==
    ASSUME NEW o \in Orders, NEW p \in Positions(o)
    PROVE  \E l \in Nat, w \in Nat : /\ l = Low(o, p) /\ w = Width(o, p) /\ w >= 1
                                      /\ Interval(o, p) = l .. (l + w - 1)
<1>1. Low(o, p) \in Nat /\ Width(o, p) \in Nat /\ Width(o, p) >= 1
  BY IntervalIs
<1>2. Interval(o, p) = Low(o, p) .. (Low(o, p) + Width(o, p) - 1)
  BY IntervalIs
<1> QED
  BY <1>1, <1>2

\* The slots of a position are its leaves, counted from the first leaf.
LEMMA SlotsAre ==
    ASSUME Fits(order, slots), NEW p \in Positions(order)
    PROVE  /\ SlotsOf(p) \subseteq Int /\ TwoTo[order - 1] \in Nat /\ Interval(order, p) \subseteq Nat
           /\ \A s \in Int : s \in SlotsOf(p) <=> s + TwoTo[order - 1] \in Interval(order, p)
<1>1. PICK o \in Orders : o = order
  BY FitIs
<1>2. PICK l \in Nat, w \in Nat, e \in Nat :
          l = Low(o, p) /\ w = Width(o, p) /\ e = TwoTo[o - 1] /\ Interval(o, p) = l .. (l + w - 1)
  <2>1. Low(o, p) \in Nat /\ Width(o, p) \in Nat /\ TwoTo[o - 1] \in Nat
    BY <1>1, IntervalIs, Halving
  <2>2. Interval(o, p) = Low(o, p) .. (Low(o, p) + Width(o, p) - 1)
    BY <1>1, IntervalIs
  <2> QED
    BY <2>1, <2>2
<1>3. SlotsOf(p) = (l - e) .. ((l - e) + w - 1)
  BY <1>1, <1>2, BlockIs DEF SlotsOf, Place
<1>4. ASSUME NEW s \in Int PROVE s \in SlotsOf(p) <=> s + e \in l .. (l + w - 1)
  <2>1. s \in (l - e) .. ((l - e) + w - 1) <=> s + e \in l .. (l + w - 1)
    <3>1. s >= l - e <=> s + e >= l
      BY <1>2
    <3>2. s <= (l - e) + w - 1 <=> s + e <= l + w - 1
      BY <1>2, SMTT(40)
    <3>3. s + e \in Int /\ l - e \in Int /\ (l - e) + w - 1 \in Int /\ l + w - 1 \in Int
      BY <1>2
    <3> QED
      BY <3>1, <3>2, <3>3
  <2> QED
    BY <1>3, <2>1
<1>5. SlotsOf(p) \subseteq Int /\ l .. (l + w - 1) \subseteq Nat
  BY <1>2, <1>3
<1> QED
  BY <1>1, <1>2, <1>4, <1>5

\* Slots are within or apart from each other as leaves are.
LEMMA SlotsWithin ==
    ASSUME Fits(order, slots), NEW p \in Positions(order), NEW q \in Positions(order)
    PROVE  /\ SlotsOf(q) \subseteq SlotsOf(p) <=> Interval(order, q) \subseteq Interval(order, p)
           /\ SlotsOf(q) \cap SlotsOf(p) = {} <=> Interval(order, q) \cap Interval(order, p) = {}
<1>1. PICK e \in Nat : e = TwoTo[order - 1]
  BY SlotsAre
<1>2. /\ SlotsOf(p) \subseteq Int /\ SlotsOf(q) \subseteq Int
      /\ Interval(order, p) \subseteq Nat /\ Interval(order, q) \subseteq Nat
      /\ \A s \in Int : s \in SlotsOf(p) <=> s + e \in Interval(order, p)
      /\ \A s \in Int : s \in SlotsOf(q) <=> s + e \in Interval(order, q)
  BY <1>1, SlotsAre
<1>3. ASSUME NEW x \in Nat
      PROVE  /\ x - e \in SlotsOf(p) <=> x \in Interval(order, p)
             /\ x - e \in SlotsOf(q) <=> x \in Interval(order, q)
  <2>1. x - e \in Int /\ (x - e) + e = x
    BY <1>1
  <2> QED
    BY <1>2, <2>1
<1>4. ASSUME SlotsOf(q) \subseteq SlotsOf(p) PROVE Interval(order, q) \subseteq Interval(order, p)
  BY <1>2, <1>3, <1>4
<1>5. ASSUME Interval(order, q) \subseteq Interval(order, p) PROVE SlotsOf(q) \subseteq SlotsOf(p)
  BY <1>2, <1>5
<1>6. ASSUME SlotsOf(q) \cap SlotsOf(p) = {} PROVE Interval(order, q) \cap Interval(order, p) = {}
  BY <1>2, <1>3, <1>6
<1>7. ASSUME Interval(order, q) \cap Interval(order, p) = {} PROVE SlotsOf(q) \cap SlotsOf(p) = {}
  BY <1>2, <1>7
<1> QED
  BY <1>4, <1>5, <1>6, <1>7

\* The slots of a live block are those of its position.
LEMMA LiveSlots ==
    ASSUME TreeInv, NEW b \in live
    PROVE  \E m \in Positions(order) : /\ m \in Marks(order, live)
                                       /\ b = BlockOf(m) /\ b[1] .. (b[1] + b[2] - 1) = SlotsOf(m)
<1>1. Fits(order, slots)
  BY DEF TreeInv
<1>2. PICK m \in Positions(order) : b = Place(order, m)
  BY DEF TreeInv, Placed
<1>3. b = BlockOf(m)
  BY <1>1, <1>2, BlockIs
<1> QED
  BY <1>2, <1>3 DEF Marks, SlotsOf

\* A position without a block or a missing slot is one that no mark meets.
LEMMA UnusedIs ==
    ASSUME TreeInv, NEW q \in Positions(order)
    PROVE  Unused(q) <=> Clear(order, Used, q)
<1>1. Fits(order, slots) /\ order \in Orders /\ slots \in Nat
  BY FitIs DEF TreeInv
<1>2. PICK e \in Nat, n \in Nat : e = TwoTo[order - 1] /\ n = slots /\ PastLeaf(order, slots) = e + n
  BY <1>1, Halving DEF PastLeaf
<1>3. ASSUME Unused(q), NEW m \in Used PROVE Interval(order, m) \cap Interval(order, q) = {}
  <2>1. CASE m \in Marks(order, live)
    <3>1. m \in Positions(order) /\ Place(order, m) \in live
      BY <2>1 DEF Marks
    <3>2. BlockOf(m) \in live
      BY <1>1, <3>1, BlockIs
    <3>3. SlotsOf(q) \cap SlotsOf(m) = {}
      BY <1>3, <3>2 DEF Unused, SlotsOf
    <3> QED
      BY <1>1, <3>1, <3>3, SlotsWithin
  <2>2. CASE m \in Virtual(order, slots)
    <3>1. m \in Positions(order) /\ Low(order, m) >= e + n
      BY <1>2, <2>2 DEF Virtual
    <3>2. PICK l \in Nat, w \in Nat : l = Low(order, m) /\ Interval(order, m) = l .. (l + w - 1)
      BY <1>1, <3>1, SpanIs
    <3>3. SUFFICES ASSUME NEW x \in Interval(order, m), x \in Interval(order, q) PROVE FALSE
      OBVIOUS
    <3>4. x \in Int /\ x >= e + n
      BY <1>2, <3>1, <3>2, <3>3
    <3>5. x - e \in Int /\ (x - e) + e = x /\ x - e >= n
      BY <1>2, <3>4
    <3>6. x - e \in SlotsOf(q)
      BY <1>1, <1>2, <3>3, <3>5, SlotsAre
    <3>7. x - e < n
      BY <1>2, <1>3, <3>6 DEF Unused
    <3> QED
      BY <1>2, <3>5, <3>7
  <2> QED
    BY <2>1, <2>2 DEF Used
<1>4. ASSUME Clear(order, Used, q) PROVE Unused(q)
  <2>1. \A v \in Virtual(order, slots) : Interval(order, v) \cap Interval(order, q) = {}
    BY <1>4 DEF Clear, Used
  <2>2. Low(order, q) + Width(order, q) <= e + n
    BY <1>1, <1>2, <2>1, ClearOfVirtual
  <2>3. ASSUME NEW s \in SlotsOf(q) PROVE s < slots
    <3>1. s \in Int /\ s + e \in Interval(order, q)
      BY <1>1, <1>2, SlotsAre
    <3>2. PICK l \in Nat, w \in Nat : /\ l = Low(order, q) /\ w = Width(order, q)
                                      /\ Interval(order, q) = l .. (l + w - 1)
      BY <1>1, SpanIs
    <3>3. l + w <= e + n
      BY <2>2, <3>2
    <3>4. s + e \in l .. (l + w - 1)
      BY <3>1, <3>2
    <3>5. s \in Int
      BY <3>1
    <3>6. s < n
      BY <3>3, <3>4, <3>5
    <3> QED
      BY <1>2, <3>6
  <2>4. ASSUME NEW b \in live PROVE SlotsOf(q) \cap (b[1] .. (b[1] + b[2] - 1)) = {}
    <3>1. PICK m \in Positions(order) : /\ m \in Marks(order, live)
                                        /\ b[1] .. (b[1] + b[2] - 1) = SlotsOf(m)
      BY LiveSlots
    <3>2. Interval(order, m) \cap Interval(order, q) = {}
      BY <1>4, <3>1 DEF Clear, Used
    <3>3. SlotsOf(q) \cap SlotsOf(m) = {}
      BY <1>1, <3>1, <3>2, SlotsWithin
    <3> QED
      BY <3>1, <3>3
  <2> QED
    BY <2>3, <2>4 DEF Unused
<1> QED
  BY <1>3, <1>4 DEF Clear

\* A position inside a block or among missing slots is one under a mark.
LEMMA InsideIs ==
    ASSUME TreeInv, NEW p \in Positions(order)
    PROVE  Inside(p) <=> \E m \in Used : Under(order, p, m)
<1>1. Fits(order, slots) /\ order \in Orders /\ slots \in Nat
  BY FitIs DEF TreeInv
<1>2. PICK e \in Nat, n \in Nat : e = TwoTo[order - 1] /\ n = slots /\ PastLeaf(order, slots) = e + n
  BY <1>1, Halving DEF PastLeaf
<1>3. ASSUME NEW q \in Positions(order)
      PROVE  (\A s \in SlotsOf(q) : s >= slots) <=> Low(order, q) >= PastLeaf(order, slots)
  <2>1. PICK l \in Nat, w \in Nat : /\ l = Low(order, q) /\ w >= 1
                                    /\ Interval(order, q) = l .. (l + w - 1)
    BY <1>1, SpanIs
  <2>2. SlotsOf(q) \subseteq Int /\ \A s \in Int : s \in SlotsOf(q) <=> s + e \in l .. (l + w - 1)
    BY <1>1, <1>2, <2>1, SlotsAre
  <2>3. ASSUME \A s \in SlotsOf(q) : s >= n PROVE l >= e + n
    <3>1. l - e \in Int /\ (l - e) + e \in l .. (l + w - 1)
      BY <1>2, <2>1
    <3>2. l - e >= n
      BY <2>2, <2>3, <3>1
    <3> QED
      BY <1>2, <2>1, <3>2
  <2>4. ASSUME l >= e + n, NEW s \in SlotsOf(q) PROVE s >= n
    <3>1. s \in Int /\ s + e >= l
      BY <2>1, <2>2
    <3> QED
      BY <1>2, <2>1, <2>4, <3>1
  <2> QED
    BY <1>2, <2>1, <2>3, <2>4
<1>4. ASSUME NEW q \in Positions(order)
      PROVE  /\ q # p /\ SlotsOf(p) \subseteq SlotsOf(q) <=> Under(order, p, q)
             /\ BlockOf(q) \in live <=> q \in Marks(order, live)
  <2>1. q # p /\ SlotsOf(p) \subseteq SlotsOf(q) <=> Under(order, p, q)
    BY <1>1, SlotsWithin, UnderIs
  <2>2. BlockOf(q) \in live <=> q \in Marks(order, live)
    BY <1>1, BlockIs DEF Marks
  <2> QED
    BY <2>1, <2>2
<1>5. ASSUME Inside(p) PROVE \E m \in Used : Under(order, p, m)
  <2>1. PICK q \in Positions(order) :
            /\ Under(order, p, q)
            /\ q \in Marks(order, live) \/ Low(order, q) >= PastLeaf(order, slots)
    BY <1>3, <1>4, <1>5 DEF Inside
  <2>2. CASE q \in Marks(order, live)
    BY <2>1, <2>2 DEF Used
  <2>3. CASE Low(order, q) >= PastLeaf(order, slots)
    <3>1. PICK v \in Virtual(order, slots) : q = v \/ Under(order, q, v)
      BY <1>1, <2>3, VirtualComplete
    <3>2. Depth(p) \in Nat /\ Depth(q) \in Nat /\ Depth(v) \in Nat
      BY <1>1, <3>1, Family DEF Virtual
    <3>3. Under(order, p, v)
      BY <2>1, <3>1, <3>2 DEF Under
    <3> QED
      BY <3>1, <3>3 DEF Used
  <2> QED
    BY <2>1, <2>2, <2>3
<1>6. ASSUME NEW m \in Used, Under(order, p, m) PROVE Inside(p)
  <2>1. m \in Positions(order) /\ (m \in Marks(order, live) \/ Low(order, m) >= PastLeaf(order, slots))
    BY DEF Used, Marks, Virtual
  <2>2. /\ m # p /\ SlotsOf(p) \subseteq SlotsOf(m)
        /\ BlockOf(m) \in live \/ \A s \in SlotsOf(m) : s >= slots
    BY <1>3, <1>4, <1>6, <2>1
  <2> QED
    BY <2>1, <2>2 DEF Inside
<1> QED
  BY <1>5, <1>6

\* The invariant determines every status.
LEMMA BitsFromInv == TreeInv => BitsMatchBlocks
<1> SUFFICES ASSUME TreeInv, NEW p \in Positions(order)
             PROVE  LET unused == {q \in Positions(order) : SlotsOf(q) \subseteq SlotsOf(p) /\ Unused(q)}
                        room == {0} \cup {LocalOffset(order, q) : q \in unused}
                    IN  Read(bits, order, p) =
                            IF Inside(p) THEN 0 ELSE LocalOffset(order, p) - Largest(room)
  BY DEF BitsMatchBlocks
<1> DEFINE unused == {q \in Positions(order) : SlotsOf(q) \subseteq SlotsOf(p) /\ Unused(q)}
           room == {0} \cup {LocalOffset(order, q) : q \in unused}
<1>1. Fits(order, slots) /\ order \in Orders
  BY FitIs DEF TreeInv
<1>2. PICK S : Holds(bits, order, S) /\ Sound(order, S, Used) /\ S \in Statuses(order)
  BY DEF TreeInv, Used, Holds
<1>3. Read(bits, order, p) = S[p]
  BY <1>1, <1>2, ReadIs
<1>4. CASE Inside(p)
  <2>1. PICK m \in Used : Under(order, p, m)
    BY <1>4, InsideIs
  <2>2. m \in Positions(order)
    BY <1>2 DEF Sound
  <2>3. S[p] = 0
    BY <1>1, <1>2, <2>1, <2>2, ZeroBelow
  <2> QED
    BY <1>3, <1>4, <2>3
<1>5. CASE ~Inside(p)
  <2>1. \A m \in Used : ~Under(order, p, m)
    BY <1>5, InsideIs
  <2>2. RoomAt(order, S, Used, p)
    BY <1>1, <1>2, <2>1, RoomIs
  <2>3. PICK s \in Nat, t \in Nat : s = S[p] /\ t = LocalOffset(order, p) /\ s <= t
    BY <1>1, <1>2, StatusIs, Family
  <2>4. ASSUME NEW q \in Positions(order)
        PROVE  /\ q \in unused <=> (q = p \/ Under(order, q, p)) /\ Clear(order, Used, q)
               /\ LocalOffset(order, q) \in Nat /\ LocalOffset(order, q) >= 1
    <3>1. SlotsOf(q) \subseteq SlotsOf(p) <=> q = p \/ Under(order, q, p)
      BY <1>1, SlotsWithin, UnderIs
    <3>2. Unused(q) <=> Clear(order, Used, q)
      BY UnusedIs
    <3> QED
      BY <1>1, <3>1, <3>2, Family
  <2>5. unused \subseteq Positions(order)
    OBVIOUS
  <2> HIDE DEF unused
  <2>6. ASSUME NEW x \in room PROVE x \in Nat /\ x <= t - s
    <3>1. CASE x = 0
      BY <2>3, <3>1
    <3>2. CASE x # 0
      <4>1. PICK q \in unused : x = LocalOffset(order, q)
        BY <3>2
      <4>2. x + s <= t /\ x \in Nat
        BY <2>2, <2>3, <2>4, <2>5, <4>1 DEF RoomAt
      <4> QED
        BY <2>3, <4>2
    <3> QED
      BY <3>1, <3>2
  <2>7. t - s \in room
    <3>1. CASE s = t
      BY <2>3, <3>1
    <3>2. CASE s # t
      <4>1. s < t
        BY <2>3, <3>2
      <4>2. PICK q \in Positions(order) : /\ q = p \/ Under(order, q, p)
                                          /\ Clear(order, Used, q)
                                          /\ LocalOffset(order, q) + s = t
        BY <2>2, <2>3, <4>1 DEF RoomAt
      <4>3. q \in unused /\ LocalOffset(order, q) = t - s
        BY <2>3, <2>4, <4>2
      <4> QED
        BY <4>3
    <3> QED
      BY <3>1, <3>2
  <2> HIDE DEF room
  <2>8. Largest(room) = t - s
    <3>1. PICK m : m = Largest(room) /\ m \in room /\ \A x \in room : x <= m
      BY <2>6, <2>7 DEF Largest
    <3>2. m \in Nat /\ m <= t - s /\ t - s <= m
      BY <2>6, <2>7, <3>1
    <3> QED
      BY <2>3, <3>1, <3>2
  <2>9. t - (t - s) = s
    BY <2>3
  <2> USE DEF room, unused
  <2> QED
    BY <1>3, <1>5, <2>3, <2>8, <2>9
<1> QED
  BY <1>4, <1>5

\* The bits tell exactly which blocks there are, in arenas of every size
\* (buddy_tree_grow(), buddy_toggle_virtual_slots(), update_parent_chain()).
THEOREM BitsTellBlocks ==
    ASSUME \A t \in Resizes : KeepsOrder(t)
    PROVE  Spec => []BitsMatchBlocks
BY TreeInvariant, BitsFromInv, PTL

-----------------------------------------------------------------------------
(* buddy_arena_free_size(), buddy_is_full(), buddy_is_empty() *)

\* The leaves below p that no mark at p or below it has.
Open(o, M, p) == {x \in Interval(o, p) :
                    \A m \in M : m = p \/ Under(o, m, p) => x \notin Interval(o, m)}

\* Leaves can be counted.
LEMMA OpenIsFinite ==
    ASSUME NEW o \in Orders, NEW M, NEW p \in Positions(o)
    PROVE  /\ IsFiniteSet(Open(o, M, p)) /\ Cardinality(Open(o, M, p)) \in Nat
           /\ IsFiniteSet(Interval(o, p)) /\ Cardinality(Interval(o, p)) = Width(o, p)
<1>1. PICK l \in Nat, w \in Nat : /\ l = Low(o, p) /\ w = Width(o, p) /\ w >= 1
                                  /\ Interval(o, p) = l .. (l + w - 1)
  BY SpanIs
<1>2. IsFiniteSet(l .. (l + w - 1)) /\ Cardinality(l .. (l + w - 1)) = w
  <2>1. l \in Int /\ l + w - 1 \in Int /\ (l + w - 1) - l + 1 = w /\ ~(l > l + w - 1)
    BY <1>1
  <2> QED
    BY <2>1, FS_Interval
<1>3. Open(o, M, p) \subseteq Interval(o, p)
  BY DEF Open
<1> QED
  BY <1>1, <1>2, <1>3, FS_Subset, FS_CardinalityType

\* A full position has no open leaf, an unused one nothing else, and a partly
\* used one what its children have.
LEMMA OpenIs ==
    ASSUME NEW o \in Orders, NEW S \in Statuses(o), NEW M, Sound(o, S, M), NEW p \in Positions(o)
    PROVE  /\ S[p] = LocalOffset(o, p) => Open(o, M, p) = {}
           /\ S[p] = 0 => Open(o, M, p) = Interval(o, p)
           /\ S[p] # 0 /\ S[p] # LocalOffset(o, p) =>
                 /\ p < TwoTo[o - 1]
                 /\ Open(o, M, p) = Open(o, M, 2 * p) \cup Open(o, M, 2 * p + 1)
                 /\ Open(o, M, 2 * p) \cap Open(o, M, 2 * p + 1) = {}
<1>1. M \subseteq Positions(o) /\ NodeSound(o, S, M, p)
  BY DEF Sound
<1>2. PICK s \in Nat, t \in Nat : s = S[p] /\ t = LocalOffset(o, p) /\ t >= 1
  BY StatusIs, Family
<1>3. ASSUME s = t PROVE Open(o, M, p) = {}
  <2>1. SUFFICES ASSUME NEW x \in Open(o, M, p) PROVE FALSE
    OBVIOUS
  <2>2. \A m \in M : ~Under(o, p, m)
    <3>1. SUFFICES ASSUME NEW m \in M, Under(o, p, m) PROVE FALSE
      OBVIOUS
    <3>2. m \in Positions(o)
      BY <1>1
    <3>3. S[p] = 0
      BY <3>1, <3>2, ZeroBelow
    <3>4. s = 0
      BY <1>2, <3>3
    <3> QED
      BY <1>2, <1>3, <3>4
  <2>3. RoomAt(o, S, M, p)
    BY <2>2, RoomIs
  <2>4. x \in Interval(o, p)
    BY DEF Open
  <2>5. x \in Positions(o) /\ Interval(o, x) = {x}
    <3>1. PICK e \in Nat : e = TwoTo[o - 1]
      BY Halving
    <3>2. x \in e .. (2 * e - 1)
      BY <2>4, <3>1, InRoot
    <3>3. x - e \in Nat /\ x - e < TwoTo[o - 1] /\ x = Leaf(o, x - e)
      BY <3>1, <3>2 DEF Leaf
    <3> QED
      BY <3>3, LeafIs
  <2>6. x = p \/ Under(o, x, p)
    BY <2>4, <2>5, UnderIs
  <2>7. Clear(o, M, x)
    <3>1. SUFFICES ASSUME NEW m \in M, x \in Interval(o, m) PROVE FALSE
      BY <2>5 DEF Clear
    <3>2. m = p \/ Under(o, m, p) \/ Under(o, p, m)
      <4>1. Interval(o, m) \cap Interval(o, p) # {}
        BY <2>4, <3>1
      <4> QED
        BY <1>1, <4>1, Meet
    <3> QED
      BY <2>2, <3>1, <3>2 DEF Open
  <2>8. LocalOffset(o, x) + S[p] <= LocalOffset(o, p)
    BY <2>3, <2>5, <2>6, <2>7 DEF RoomAt
  <2>9. LocalOffset(o, x) \in Nat /\ LocalOffset(o, x) >= 1
    BY <2>5, Family
  <2> QED
    BY <1>2, <1>3, <2>8, <2>9
<1>4. ASSUME s = 0 PROVE Open(o, M, p) = Interval(o, p)
  <2>1. ASSUME NEW m \in M, m = p \/ Under(o, m, p) PROVE FALSE
    <3>1. m # p
      BY <1>1, <1>2, <1>4 DEF NodeSound
    <3>2. S[p] = 0 /\ m \in Positions(o) /\ Under(o, m, p)
      BY <1>1, <1>2, <1>4, <2>1, <3>1
    <3> QED
      BY <3>2, ZeroBelow
  <2> QED
    BY <2>1 DEF Open
<1>5. ASSUME s # 0, s # t
      PROVE  /\ p < TwoTo[o - 1]
             /\ Open(o, M, p) = Open(o, M, 2 * p) \cup Open(o, M, 2 * p + 1)
             /\ Open(o, M, 2 * p) \cap Open(o, M, 2 * p + 1) = {}
  <2>1. p \notin M /\ p < TwoTo[o - 1]
    BY <1>1, <1>2, <1>5 DEF NodeSound
  <2>2. /\ 2 * p \in Positions(o) /\ 2 * p + 1 \in Positions(o)
        /\ (2 * p) \div 2 = p /\ (2 * p + 1) \div 2 = p
    BY <2>1, ChildrenOf
  <2>3. /\ Interval(o, 2 * p) \cup Interval(o, 2 * p + 1) = Interval(o, p)
        /\ Interval(o, 2 * p) \cap Interval(o, 2 * p + 1) = {}
    BY <2>1, Halves
  <2>4. ASSUME NEW m \in M
        PROVE  m = p \/ Under(o, m, p) <=> \E c \in {2 * p, 2 * p + 1} : m = c \/ Under(o, m, c)
    <3>1. ASSUME m = p \/ Under(o, m, p) PROVE \E c \in {2 * p, 2 * p + 1} : m = c \/ Under(o, m, c)
      BY <1>1, <2>1, <3>1, ChildToward
    <3>2. ASSUME NEW c \in {2 * p, 2 * p + 1}, m = c \/ Under(o, m, c) PROVE Under(o, m, p)
      <4>1. c \in Positions(o) /\ c \div 2 = p /\ c # 1
        <5>1. p \in Nat /\ p >= 1
          BY Family
        <5> QED
          BY <2>2, <5>1
      <4>2. Under(o, c, p)
        BY <4>1, UnderParent
      <4>3. Depth(m) \in Nat /\ Depth(c) \in Nat /\ Depth(p) \in Nat
        BY <1>1, <4>1, Family
      <4> QED
        BY <3>2, <4>2, <4>3 DEF Under
    <3> QED
      BY <3>1, <3>2
  <2>5. ASSUME NEW m \in M, NEW c \in {2 * p, 2 * p + 1}, m = c \/ Under(o, m, c)
        PROVE  Interval(o, m) \subseteq Interval(o, c)
    BY <2>5 DEF Under
  <2>6. ASSUME NEW x \in Open(o, M, p) PROVE x \in Open(o, M, 2 * p) \cup Open(o, M, 2 * p + 1)
    BY <2>3, <2>4 DEF Open
  <2>7. ASSUME NEW c \in {2 * p, 2 * p + 1}, NEW x \in Open(o, M, c) PROVE x \in Open(o, M, p)
    <3>1. x \in Interval(o, c) /\ x \in Interval(o, p)
      BY <2>3 DEF Open
    <3>2. ASSUME NEW m \in M, m = p \/ Under(o, m, p), x \in Interval(o, m) PROVE FALSE
      <4>1. PICK d \in {2 * p, 2 * p + 1} : m = d \/ Under(o, m, d)
        BY <2>4, <3>2
      <4>2. x \in Interval(o, d)
        BY <2>5, <3>2, <4>1
      <4>3. d = c
        BY <2>3, <3>1, <4>2
      <4> QED
        BY <3>2, <4>1, <4>3 DEF Open
    <3> QED
      BY <3>1, <3>2 DEF Open
  <2>8. Open(o, M, 2 * p) \cap Open(o, M, 2 * p + 1) = {}
    BY <2>3 DEF Open
  <2> QED
    BY <2>1, <2>6, <2>7, <2>8
<1> QED
  BY <1>2, <1>3, <1>4, <1>5

\* buddy_arena_free_size() counts the open leaves.
LEMMA ArenaFreeSizeIs ==
    ASSUME NEW o, NEW n, Fits(o, n), NEW B, NEW S, Holds(B, o, S), NEW M, Sound(o, S, M)
    PROVE  ArenaFreeSize(B, o, n) = Cardinality(Open(o, M, 1))
<1>1. o \in Orders /\ S \in Statuses(o)
  BY FitIs DEF Holds
<1> DEFINE Body(p, l, r) == IF Read(B, o, p) = LocalOffset(o, p) THEN 0
                            ELSE IF Read(B, o, p) = 0 THEN SizeForDepth(n, Depth(p))
                            ELSE IF p < TwoTo[o - 1] THEN l + r
                            ELSE 0
           g == [p \in Positions(o) |-> Cardinality(Open(o, M, p))]
           W == CHOOSE W : W = [p \in Positions(o) |-> Body(p, W[Left(p)], W[Right(p)])]
<1>2. ASSUME NEW p \in Positions(o)
      PROVE  g[p] = Body(p, g[Left(p)], g[Right(p)])
  <2>1. Read(B, o, p) = S[p] /\ SizeForDepth(n, Depth(p)) = Width(o, p)
    BY <1>1, ReadIs, FitIs
  <2>2. g[p] = Cardinality(Open(o, M, p))
    OBVIOUS
  <2>3. CASE S[p] = LocalOffset(o, p)
    <3>1. Open(o, M, p) = {}
      BY <1>1, <2>3, OpenIs
    <3>2. g[p] = 0
      BY <2>2, <3>1, FS_EmptySet
    <3> HIDE DEF g
    <3> QED
      BY <2>1, <2>3, <3>2
  <2>4. CASE S[p] # LocalOffset(o, p) /\ S[p] = 0
    <3>1. Open(o, M, p) = Interval(o, p)
      BY <1>1, <2>4, OpenIs
    <3>2. g[p] = Width(o, p)
      BY <1>1, <2>2, <3>1, OpenIsFinite
    <3> HIDE DEF g
    <3> QED
      BY <2>1, <2>4, <3>2
  <2>5. CASE S[p] # LocalOffset(o, p) /\ S[p] # 0
    <3>1. /\ p < TwoTo[o - 1]
          /\ Open(o, M, p) = Open(o, M, 2 * p) \cup Open(o, M, 2 * p + 1)
          /\ Open(o, M, 2 * p) \cap Open(o, M, 2 * p + 1) = {}
      BY <1>1, <2>5, OpenIs
    <3>2. 2 * p \in Positions(o) /\ 2 * p + 1 \in Positions(o)
      BY <1>1, <3>1, ChildrenOf
    <3>3. /\ IsFiniteSet(Open(o, M, 2 * p)) /\ IsFiniteSet(Open(o, M, 2 * p + 1))
          /\ Cardinality(Open(o, M, 2 * p)) \in Nat /\ Cardinality(Open(o, M, 2 * p + 1)) \in Nat
      BY <1>1, <3>2, OpenIsFinite
    <3>4. Cardinality(Open(o, M, p)) = Cardinality(Open(o, M, 2 * p)) + Cardinality(Open(o, M, 2 * p + 1))
      <4>1. Cardinality({}) = 0
        BY FS_EmptySet
      <4>2. Cardinality(Open(o, M, 2 * p) \cup Open(o, M, 2 * p + 1))
              = Cardinality(Open(o, M, 2 * p)) + Cardinality(Open(o, M, 2 * p + 1))
                  - Cardinality(Open(o, M, 2 * p) \cap Open(o, M, 2 * p + 1))
        BY <3>3, FS_Union
      <4> QED
        BY <3>1, <3>3, <4>1, <4>2
    <3>5. g[2 * p] = Cardinality(Open(o, M, 2 * p)) /\ g[2 * p + 1] = Cardinality(Open(o, M, 2 * p + 1))
      BY <3>2
    <3> HIDE DEF g
    <3>6. Body(p, g[Left(p)], g[Right(p)]) = g[2 * p] + g[2 * p + 1]
      BY <2>1, <2>5, <3>1 DEF Left, Right
    <3> QED
      BY <2>2, <3>4, <3>5, <3>6
  <2> QED
    BY <2>3, <2>4, <2>5
<1>3. g = [p \in Positions(o) |-> Body(p, g[Left(p)], g[Right(p)])]
  <2> HIDE DEF Body
  <2> QED
    BY <1>2
<1>4. W = [p \in Positions(o) |-> Body(p, W[Left(p)], W[Right(p)])]
  <2> HIDE DEF Body, g
  <2> QED
    BY <1>3
<1>5. ArenaFreeSize(B, o, n) = W[1]
  BY DEF ArenaFreeSize
<1> HIDE DEF W
<1> DEFINE Bad == {p \in Positions(o) : W[p] # g[p]}
<1>6. Bad = {}
  <2>1. SUFFICES ASSUME Bad # {} PROVE FALSE
    OBVIOUS
  <2>2. PICK p \in Bad : \A q \in Bad : q <= p
    <3>1. Bad \subseteq Positions(o)
      OBVIOUS
    <3> HIDE DEF Bad
    <3> QED
      BY <1>1, <2>1, <3>1, FirstPosition
  <2>3. p \in Positions(o) /\ W[p] # g[p]
    BY <2>2
  <2> HIDE DEF g
  <2>4. W[p] = Body(p, W[Left(p)], W[Right(p)]) /\ g[p] = Body(p, g[Left(p)], g[Right(p)])
    <3> HIDE DEF Body
    <3> QED
      BY <1>2, <1>4, <2>3
  <2>5. p < TwoTo[o - 1] => W[2 * p] = g[2 * p] /\ W[2 * p + 1] = g[2 * p + 1]
    <3>1. SUFFICES ASSUME p < TwoTo[o - 1] PROVE W[2 * p] = g[2 * p] /\ W[2 * p + 1] = g[2 * p + 1]
      OBVIOUS
    <3>2. 2 * p \in Positions(o) /\ 2 * p + 1 \in Positions(o)
      BY <1>1, <2>3, <3>1, ChildrenOf
    <3>3. p \in Nat /\ p >= 1
      BY <1>1, <2>3, Family
    <3>4. 2 * p \notin Bad /\ 2 * p + 1 \notin Bad
      <4> HIDE DEF Bad
      <4> QED
        BY <2>2, <3>3
    <3> QED
      BY <3>2, <3>4
  <2>6. W[p] = g[p]
    BY <2>4, <2>5 DEF Left, Right
  <2> QED
    BY <2>3, <2>6
<1>7. 1 \in Positions(o)
  BY <1>1, Halving
<1>8. W[1] = g[1]
  BY <1>6, <1>7
<1> QED
  BY <1>5, <1>7, <1>8

\* The open leaves of the tree are the free slots, counted from the first leaf.
LEMMA OpenSlots ==
    ASSUME TreeInv
    PROVE  /\ \A x \in Open(order, Used, 1) : x \in Nat /\ x - TwoTo[order - 1] \in FreeSlots
           /\ \A s \in FreeSlots : s \in Nat /\ s + TwoTo[order - 1] \in Open(order, Used, 1)
<1>1. Fits(order, slots) /\ order \in Orders /\ slots \in Nat
  BY FitIs DEF TreeInv
<1>2. PICK e \in Nat, n \in Nat : /\ e = TwoTo[order - 1] /\ n = slots
                                  /\ PastLeaf(order, slots) = e + n /\ n <= e /\ e >= 1
  BY <1>1, FitIs, Halving DEF PastLeaf
<1>3. Interval(order, 1) = e .. (2 * e - 1) /\ 1 \in Positions(order)
  BY <1>1, <1>2, RootInterval, Halving
<1>4. \A m \in Used : m \in Positions(order) /\ (m = 1 \/ Under(order, m, 1))
  <2>1. SUFFICES ASSUME NEW m \in Used PROVE m \in Positions(order) /\ (m = 1 \/ Under(order, m, 1))
    OBVIOUS
  <2>2. m \in Positions(order)
    BY DEF Used, Marks, Virtual
  <2>3. Interval(order, m) \subseteq Interval(order, 1)
    BY <1>1, <1>2, <1>3, <2>2, InRoot
  <2> QED
    BY <1>1, <1>3, <2>2, <2>3, UnderIs
<1>5. ASSUME NEW x PROVE x \in Open(order, Used, 1) <=>
          x \in e .. (2 * e - 1) /\ \A m \in Used : x \notin Interval(order, m)
  BY <1>3, <1>4 DEF Open
<1>6. ASSUME NEW x \in Open(order, Used, 1) PROVE x \in Nat /\ x - e \in FreeSlots
  <2>1. x \in e .. (2 * e - 1) /\ \A m \in Used : x \notin Interval(order, m)
    BY <1>5
  <2>2. x \in Nat /\ x >= e /\ x < 2 * e /\ x - e \in Nat /\ x - e < e /\ x = Leaf(order, x - e)
    BY <1>2, <2>1 DEF Leaf
  <2>3. x \in Positions(order) /\ Low(order, x) = x /\ Interval(order, x) = {x}
    BY <1>1, <1>2, <2>2, LeafIs
  <2>4. x < e + n
    <3>1. SUFFICES ASSUME ~(x < e + n) PROVE FALSE
      OBVIOUS
    <3>2. Low(order, x) >= PastLeaf(order, slots)
      BY <1>2, <2>2, <2>3, <3>1
    <3>3. PICK v \in Virtual(order, slots) : x = v \/ Under(order, x, v)
      BY <1>1, <2>3, <3>2, VirtualComplete
    <3>4. x \in Interval(order, v) /\ v \in Used
      BY <2>3, <3>3 DEF Under, Used
    <3> QED
      BY <2>1, <3>4
  <2>5. ASSUME NEW b \in live PROVE x - e \notin b[1] .. (b[1] + b[2] - 1)
    <3>1. PICK m \in Positions(order) : /\ m \in Marks(order, live)
                                        /\ b[1] .. (b[1] + b[2] - 1) = SlotsOf(m)
      BY LiveSlots
    <3>2. x \notin Interval(order, m)
      BY <2>1, <3>1 DEF Used
    <3>3. x - e \in Int /\ (x - e) + e = x
      BY <1>2, <2>2
    <3>4. x - e \notin SlotsOf(m)
      BY <1>1, <1>2, <3>1, <3>2, <3>3, SlotsAre
    <3> QED
      BY <3>1, <3>4
  <2>6. x - e \in 0 .. (n - 1)
    BY <1>2, <2>2, <2>4
  <2>7. x - e \in 0 .. (slots - 1)
    BY <1>2, <2>6
  <2> QED
    BY <2>2, <2>5, <2>7 DEF FreeSlots
<1>7. ASSUME NEW s \in FreeSlots PROVE s \in Nat /\ s + e \in Open(order, Used, 1)
  <2>1. s \in 0 .. (slots - 1) /\ \A b \in live : s \notin b[1] .. (b[1] + b[2] - 1)
    BY DEF FreeSlots
  <2>2. s \in Nat /\ s < n /\ s + e \in Nat /\ s + e \in e .. (2 * e - 1) /\ s + e < e + n
    BY <1>2, <2>1
  <2>3. ASSUME NEW m \in Used, s + e \in Interval(order, m) PROVE FALSE
    <3>1. CASE m \in Marks(order, live)
      <4>1. m \in Positions(order) /\ BlockOf(m) \in live
        BY <1>1, <3>1, BlockIs DEF Marks
      <4>2. s \in SlotsOf(m)
        BY <1>1, <1>2, <2>2, <2>3, <4>1, SlotsAre
      <4> QED
        BY <2>1, <4>1, <4>2 DEF SlotsOf
    <3>2. CASE m \in Virtual(order, slots)
      <4>1. m \in Positions(order) /\ Low(order, m) >= e + n
        BY <1>2, <3>2 DEF Virtual
      <4>2. PICK l \in Nat, w \in Nat : l = Low(order, m) /\ Interval(order, m) = l .. (l + w - 1)
        BY <1>1, <4>1, SpanIs
      <4>3. s + e >= l /\ l >= e + n
        BY <2>3, <4>1, <4>2
      <4> QED
        BY <2>2, <4>3
    <3> QED
      BY <3>1, <3>2 DEF Used
  <2> QED
    BY <1>5, <2>2, <2>3
<1> QED
  BY <1>2, <1>6, <1>7

\* buddy_arena_free_size() is the number of free slots, and buddy_is_full() says
\* that there is none.
LEMMA FreeSizeIs ==
    ASSUME TreeInv
    PROVE  /\ ArenaFreeSize(bits, order, slots) = Cardinality(FreeSlots)
           /\ IsFull(bits, order) <=> ArenaFreeSize(bits, order, slots) = 0
<1>1. Fits(order, slots) /\ order \in Orders /\ order \in Nat
  BY FitIs, Halving DEF TreeInv
<1>2. PICK S : Holds(bits, order, S) /\ Sound(order, S, Used) /\ S \in Statuses(order)
  BY DEF TreeInv, Used, Holds
<1>3. 1 \in Positions(order) /\ Read(bits, order, 1) = S[1]
  BY <1>1, <1>2, Halving, ReadIs
<1> DEFINE O == Open(order, Used, 1)
<1>4. ArenaFreeSize(bits, order, slots) = Cardinality(O)
  BY <1>1, <1>2, ArenaFreeSizeIs
<1>5. IsFiniteSet(O) /\ Cardinality(O) \in Nat
  BY <1>1, <1>3, OpenIsFinite
<1>6. PICK e \in Nat : e = TwoTo[order - 1]
  BY <1>1, Halving
<1>7. /\ \A x \in O : x \in Nat /\ x - e \in FreeSlots
      /\ \A s \in FreeSlots : s \in Nat /\ s + e \in O
  BY <1>6, OpenSlots
<1>8. LocalOffset(order, 1) = order
  BY <1>1, <1>3, RootIs, Family
<1>9. S[1] = order => O = {}
  BY <1>1, <1>2, <1>3, <1>8, OpenIs
<1>10. S[1] # order => O # {}
  <2>1. SUFFICES ASSUME S[1] # order PROVE O # {}
    OBVIOUS
  <2>2. \A m \in Used : ~Under(order, 1, m)
    <3>1. SUFFICES ASSUME NEW m \in Used, Under(order, 1, m) PROVE FALSE
      OBVIOUS
    <3>2. m \in Positions(order)
      BY <1>2 DEF Sound
    <3>3. Depth(m) \in Nat /\ Depth(m) >= 1
      BY <1>1, <3>2, Family
    <3> QED
      BY <3>1, <3>3, RootIs DEF Under
  <2>3. RoomAt(order, S, Used, 1)
    BY <1>1, <1>2, <1>3, <2>2, RoomIs
  <2>4. PICK s \in Nat : s = S[1] /\ s <= order
    BY <1>1, <1>2, <1>3, <1>8, StatusIs
  <2>5. S[1] < LocalOffset(order, 1)
    BY <1>1, <1>8, <2>1, <2>4
  <2>6. PICK q \in Positions(order) : (q = 1 \/ Under(order, q, 1)) /\ Clear(order, Used, q)
    BY <2>3, <2>5 DEF RoomAt
  <2>7. PICK x : x \in Interval(order, q) /\ x \in Interval(order, 1)
    <3>1. Low(order, q) \in Interval(order, q)
      BY <1>1, IntervalIs
    <3> QED
      BY <2>6, <3>1 DEF Under
  <2>8. x \in O
    BY <2>6, <2>7 DEF Open, Clear
  <2> QED
    BY <2>8
<1> HIDE DEF O
<1>11. Cardinality(FreeSlots) = Cardinality(O)
  <2> DEFINE f == [x \in O |-> x - e]
  <2>1. f \in [O -> FreeSlots]
    BY <1>7
  <2>2. \A a, b \in O : f[a] = f[b] => a = b
    <3>1. SUFFICES ASSUME NEW a \in O, NEW b \in O, a - e = b - e PROVE a = b
      OBVIOUS
    <3>2. a \in Nat /\ b \in Nat
      BY <1>7
    <3> QED
      BY <3>1, <3>2
  <2>3. ASSUME NEW s \in FreeSlots PROVE \E x \in O : f[x] = s
    <3>1. s \in Nat /\ s + e \in O
      BY <1>7
    <3>2. f[s + e] = s
      BY <3>1
    <3> QED
      BY <3>1, <3>2
  <2> HIDE DEF f
  <2>4. f \in Bijection(O, FreeSlots)
    BY <2>1, <2>2, <2>3 DEF Bijection, Injection, Surjection, IsInjective
  <2>5. ExistsBijection(O, FreeSlots)
    BY <2>4 DEF ExistsBijection
  <2> QED
    BY <1>5, <2>5, FS_Bijection
<1>12. O = {} <=> Cardinality(O) = 0
  BY <1>5, FS_EmptySet
<1>13. IsFull(bits, order) <=> S[1] = order
  BY <1>3 DEF IsFull
<1> QED
  BY <1>4, <1>9, <1>10, <1>11, <1>12, <1>13

\* buddy_is_free() and buddy_is_empty() overlook no block.
LEMMA FreeMeansFree ==
    ASSUME TreeInv, NEW from \in 0 .. (slots - 1), IsFree(bits, order, slots, from),
           slots = EffectiveSize(slots) => from < slots - 1
    PROVE  /\ \A b \in live : b[1] + b[2] <= from
           /\ from = 0 => live = {}
<1>1. PICK n \in Nat : n = slots /\ n >= 1
  BY FitIs DEF TreeInv
<1>2. from \in Nat /\ (slots = EffectiveSize(slots) => from # slots - 1)
  <2>1. from \in Nat /\ (from < n - 1 => from # n - 1)
    BY <1>1
  <2> QED
    BY <1>1, <2>1
<1>3. ASSUME NEW b \in live PROVE b[1] + b[2] <= from
  BY <1>2, BlocksFit
<1>4. ASSUME NEW b \in live PROVE b[1] + b[2] # 0 /\ b[1] + b[2] \in Nat
  <2>1. order \in Orders
    BY FitIs DEF TreeInv
  <2>2. PICK p \in Positions(order) : b = Place(order, p)
    BY DEF TreeInv, Placed
  <2>3. PICK l \in Nat, w \in Nat : /\ l = Low(order, p) /\ w = Width(order, p) /\ w >= 1
                                    /\ Interval(order, p) = l .. (l + w - 1)
    BY <2>1, SpanIs
  <2>4. PICK e \in Nat : e = TwoTo[order - 1]
    BY <2>1, Halving
  <2>5. l >= e
    <3>1. l \in l .. (l + w - 1)
      BY <2>3
    <3>2. l \in e .. (2 * e - 1)
      BY <2>1, <2>3, <2>4, <3>1, InRoot
    <3> QED
      BY <2>3, <2>4, <3>2
  <2>6. b[1] = l - e /\ b[2] = w
    BY <2>2, <2>3, <2>4 DEF Place
  <2>7. (l - e) + w # 0 /\ (l - e) + w \in Nat
    BY <2>3, <2>4, <2>5
  <2> QED
    BY <2>6, <2>7
<1>5. ASSUME from = 0, NEW b \in live PROVE FALSE
  BY <1>3, <1>4, <1>5
<1> QED
  BY <1>3, <1>5

-----------------------------------------------------------------------------
(* buddy_tree_walk() and buddy_walk() *)

\* A turn of buddy_tree_walk() on its way up, and the positions it passes: they
\* end where p ends.
UpTurn(q) == IF q # 1 /\ q % 2 = 1 THEN q \div 2 ELSE q
Rising(o, p) == {q \in Positions(o) : /\ q = p \/ Under(o, p, q)
                                      /\ Low(o, q) + Width(o, q) = Low(o, p) + Width(o, p)}

\* A turn up stays among these positions, and is over at the root or a left child.
LEMMA UpTurnIs ==
    ASSUME NEW o \in Orders, NEW p \in Positions(o), NEW q \in Rising(o, p)
    PROVE  /\ UpTurn(q) \in Rising(o, p)
           /\ q = 1 \/ q % 2 = 0 => UpTurn(q) = q
           /\ ~(q = 1 \/ q % 2 = 0) => Depth(UpTurn(q)) = Depth(q) - 1
<1>1. q \in Positions(o) /\ q \in Nat
  BY Family DEF Rising
<1>2. CASE q = 1 \/ q % 2 = 0
  <2>1. UpTurn(q) = q
    BY <1>1, <1>2 DEF UpTurn
  <2> QED
    BY <1>2, <2>1
<1>3. CASE ~(q = 1 \/ q % 2 = 0)
  <2>1. q # 1 /\ q % 2 = 1 /\ UpTurn(q) = q \div 2
    BY <1>1, <1>3 DEF UpTurn
  <2>2. PICK t \in Positions(o) : /\ t = q \div 2 /\ t < TwoTo[o - 1]
                                  /\ q = 2 * t + 1 /\ Depth(q) = Depth(t) + 1
    BY <1>1, <2>1, ParentOf
  <2>3. Under(o, p, t)
    <3>1. Under(o, q, t)
      BY <1>1, <2>1, <2>2, UnderParent
    <3>2. Depth(p) \in Nat /\ Depth(q) \in Nat /\ Depth(t) \in Nat
      BY <1>1, <2>2, Family
    <3> QED
      BY <3>1, <3>2 DEF Rising, Under
  <2>4. Low(o, t) + Width(o, t) = Low(o, q) + Width(o, q)
    <3>1. PICK l \in Nat, w \in Nat : l = Low(o, t) /\ w = Width(o, q)
      BY <1>1, <2>2, IntervalIs
    <3>2. Width(o, t) = 2 * Width(o, 2 * t + 1) /\ Low(o, 2 * t + 1) = Low(o, t) + Width(o, 2 * t + 1)
      <4>1. /\ Low(o, 2 * t + 1) = Low(o, t) + Width(o, 2 * t)
            /\ Width(o, t) = 2 * Width(o, 2 * t) /\ Width(o, t) = 2 * Width(o, 2 * t + 1)
        BY <2>2, Halves
      <4>2. Width(o, 2 * t) \in Nat /\ Width(o, 2 * t + 1) \in Nat
        BY <2>2, ChildrenOf, IntervalIs
      <4> QED
        BY <4>1, <4>2
    <3>3. Width(o, t) = 2 * w /\ Low(o, q) = l + w
      BY <2>2, <3>1, <3>2, Zenon
    <3> QED
      BY <3>1, <3>3
  <2>5. Depth(t) = Depth(q) - 1
    BY <1>1, <2>2, Family
  <2>6. t \in Rising(o, p)
    BY <2>2, <2>3, <2>4 DEF Rising
  <2> QED
    BY <1>3, <2>1, <2>2, <2>5, <2>6
<1> QED
  BY <1>2, <1>3

\* The way up ends at the root, or at a left child that ends where p ends.
LEMMA TopIs ==
    ASSUME NEW o \in Orders, NEW p \in Positions(o)
    PROVE  \E top \in Rising(o, p) : /\ top = 1 \/ top % 2 = 0
                                     /\ WalkUp(p) = IF top = 1 THEN 0 ELSE top + 1
<1> DEFINE X == Rising(o, p)
           F == CHOOSE F : F = [k \in Nat |-> IF k = 0 THEN p ELSE UpTurn(F[k - 1])]
           step == [x \in Nat \X X |-> UpTurn(x[2])]
<1>1. p \in X /\ p \in Nat /\ p >= 1
  BY Family DEF Rising
<1>2. step \in [Nat \X X -> X]
  <2>1. ASSUME NEW x \in Nat \X X PROVE step[x] \in X
    <3>1. x[2] \in X
      OBVIOUS
    <3>2. UpTurn(x[2]) \in X
      BY <3>1, UpTurnIs
    <3> QED
      BY <3>2
  <2> QED
    BY <2>1
<1> HIDE DEF X
<1>3. PICK f : Repeats(X, p, step, f)
  <2> HIDE DEF step
  <2> QED
    BY <1>1, <1>2, Repeat
<1>4. f \in [Nat -> X] /\ f[0] = p
  BY <1>3 DEF Repeats
<1>5. ASSUME NEW k \in Nat PROVE f[k + 1] = UpTurn(f[k])
  <2>1. <<k + 1, f[k]>> \in Nat \X X /\ f[k + 1] = step[<<k + 1, f[k]>>]
    <3> HIDE DEF step
    <3> QED
      BY <1>3 DEF Repeats
  <2> QED
    BY <2>1
<1>6. ASSUME NEW k \in Nat PROVE f[k] = IF k = 0 THEN p ELSE UpTurn(f[k - 1])
  <2>1. k # 0 => k - 1 \in Nat /\ (k - 1) + 1 = k
    OBVIOUS
  <2> QED
    BY <1>4, <1>5, <2>1
<1>7. f = [k \in Nat |-> IF k = 0 THEN p ELSE UpTurn(f[k - 1])]
  BY <1>4, <1>6
<1>8. F = [k \in Nat |-> IF k = 0 THEN p ELSE UpTurn(F[k - 1])]
  BY <1>7
<1>9. WalkUp(p) = IF F[p] = 1 THEN 0 ELSE F[p] + 1
  BY DEF WalkUp, UpTurn
<1> HIDE DEF F, step
<1>10. F[0] = p /\ \A k \in Nat : F[k + 1] = UpTurn(F[k])
  <2>1. F[0] = p
    BY <1>8
  <2>2. ASSUME NEW k \in Nat PROVE F[k + 1] = UpTurn(F[k])
    <3>1. k + 1 \in Nat /\ k + 1 # 0 /\ (k + 1) - 1 = k
      OBVIOUS
    <3> QED
      BY <1>8, <3>1
  <2> QED
    BY <2>1, <2>2
<1> DEFINE Done(q) == q = 1 \/ q % 2 = 0
           G == {k \in Nat : F[k] \in X /\ (Done(F[k]) \/ Depth(F[k]) + k <= Depth(p))}
<1>11. \A k \in Nat : k \in G
  <2>1. 0 \in G
    <3>1. Depth(p) \in Nat
      BY Family
    <3> QED
      BY <1>1, <1>10, <3>1
  <2>2. ASSUME NEW k \in Nat, k \in G PROVE k + 1 \in G
    <3>1. F[k] \in X /\ F[k + 1] = UpTurn(F[k])
      BY <1>10, <2>2
    <3>2. UpTurn(F[k]) \in X /\ (Done(F[k]) => UpTurn(F[k]) = F[k])
      BY <3>1, UpTurnIs DEF X
    <3>3. ~Done(F[k]) => Depth(UpTurn(F[k])) = Depth(F[k]) - 1
      BY <3>1, UpTurnIs DEF X
    <3>4. Depth(F[k]) \in Nat
      BY <3>1, Family DEF X, Rising
    <3>5. CASE Done(F[k])
      BY <3>1, <3>2, <3>5
    <3>6. CASE ~Done(F[k])
      <4>1. Depth(F[k]) + k <= Depth(p) /\ Depth(p) \in Nat
        BY <2>2, <3>6, Family
      <4>2. Depth(F[k + 1]) + (k + 1) <= Depth(p)
        BY <3>1, <3>3, <3>4, <3>6, <4>1
      <4> QED
        BY <3>1, <3>2, <4>2
    <3> QED
      BY <3>5, <3>6
  <2> HIDE DEF G
  <2> QED
    BY <2>1, <2>2, EveryNatural
<1>12. p \in G
  BY <1>1, <1>11
<1>13. F[p] \in X /\ Done(F[p])
  <2>1. Depth(F[p]) \in Nat /\ Depth(F[p]) >= 1
    BY <1>12, Family DEF X, Rising
  <2>2. Depth(p) \in Nat /\ Depth(p) >= 1 /\ TwoTo[Depth(p) - 1] <= p
    BY Family
  <2>3. Depth(p) - 1 < TwoTo[Depth(p) - 1] /\ TwoTo[Depth(p) - 1] \in Nat
    <3>1. Depth(p) - 1 \in Nat
      BY <2>2
    <3> QED
      BY <3>1, PowersGrow
  <2>4. Depth(p) <= p
    BY <1>1, <2>2, <2>3
  <2>5. ~(Depth(F[p]) + p <= Depth(p))
    BY <1>1, <2>1, <2>2, <2>4
  <2> QED
    BY <1>12, <2>5
<1> QED
  BY <1>9, <1>13 DEF X

\* The next position on the way up begins where p ends and is inside no position
\* that p is not in; there is none when p ends with the tree.
LEMMA WalkUpIs ==
    ASSUME NEW o \in Orders, NEW p \in Positions(o)
    PROVE  \/ /\ WalkUp(p) = 0
              /\ Low(o, p) + Width(o, p) = 2 * TwoTo[o - 1]
           \/ /\ WalkUp(p) \in Positions(o)
              /\ Low(o, WalkUp(p)) = Low(o, p) + Width(o, p)
              /\ \A m \in Positions(o) : Under(o, WalkUp(p), m) => Under(o, p, m)
<1>1. PICK top \in Rising(o, p) : /\ top = 1 \/ top % 2 = 0
                                  /\ WalkUp(p) = IF top = 1 THEN 0 ELSE top + 1
  BY TopIs
<1>2. top \in Positions(o) /\ Low(o, top) + Width(o, top) = Low(o, p) + Width(o, p)
  BY DEF Rising
<1>3. CASE top = 1
  <2>1. TwoTo[o - 1] \in Nat /\ Low(o, top) = TwoTo[o - 1] /\ Width(o, top) = TwoTo[o - 1]
    BY <1>3, RootInterval, Halving
  <2>2. Low(o, p) + Width(o, p) = TwoTo[o - 1] + TwoTo[o - 1]
    BY <1>2, <2>1
  <2>3. WalkUp(p) = 0
    BY <1>1, <1>3
  <2> QED
    BY <2>1, <2>2, <2>3
<1>4. CASE top # 1
  <2>1. PICK t \in Positions(o) : /\ t = top \div 2 /\ t < TwoTo[o - 1] /\ top = 2 * t
    BY <1>1, <1>2, <1>4, ParentOf
  <2>2. PICK r : r = top + 1 /\ r = 2 * t + 1 /\ WalkUp(p) = r
    BY <1>1, <1>4, <2>1
  <2>3. r \in Positions(o) /\ r \div 2 = t
    BY <2>1, <2>2, ChildrenOf
  <2>4. Low(o, r) = Low(o, p) + Width(o, p)
    <3>1. PICK l \in Nat, w \in Nat : l = Low(o, t) /\ w = Width(o, r)
      BY <2>1, <2>3, IntervalIs
    <3>2. /\ Width(o, t) = 2 * Width(o, 2 * t) /\ Width(o, t) = 2 * Width(o, 2 * t + 1)
          /\ Low(o, 2 * t) = Low(o, t) /\ Low(o, 2 * t + 1) = Low(o, t) + Width(o, 2 * t + 1)
      <4>1. Low(o, 2 * t + 1) = Low(o, t) + Width(o, 2 * t)
        BY <2>1, Halves
      <4>2. /\ Width(o, t) = 2 * Width(o, 2 * t) /\ Width(o, t) = 2 * Width(o, 2 * t + 1)
            /\ Low(o, 2 * t) = Low(o, t)
        BY <2>1, Halves
      <4>3. Width(o, 2 * t) \in Nat /\ Width(o, 2 * t + 1) \in Nat
        BY <2>1, ChildrenOf, IntervalIs
      <4> QED
        BY <4>1, <4>2, <4>3
    <3>3. Low(o, top) = l /\ Low(o, r) = l + w /\ Width(o, t) = 2 * w /\ Width(o, t) = 2 * Width(o, top)
      BY <2>1, <2>2, <3>1, <3>2, Zenon
    <3>4. Width(o, top) \in Nat
      BY <1>2, IntervalIs
    <3>5. Width(o, top) = w
      BY <3>1, <3>3, <3>4
    <3> QED
      BY <1>2, <3>3, <3>5
  <2>5. ASSUME NEW m \in Positions(o), Under(o, r, m) PROVE Under(o, p, m)
    <3>1. t = m \/ Under(o, t, m)
      BY <2>3, <2>5, UnderParent
    <3>2. Under(o, top, m)
      BY <1>2, <1>4, <2>1, <3>1, UnderParent
    <3>3. Depth(p) \in Nat /\ Depth(top) \in Nat /\ Depth(m) \in Nat
      BY <1>2, Family
    <3> QED
      BY <3>2, <3>3 DEF Rising, Under
  <2> QED
    BY <2>2, <2>3, <2>4, <2>5
<1> QED
  BY <1>3, <1>4

\* Where a walk that has come to position p stands: the slot it has reached.
Reach(o, p) == IF p = 0 THEN TwoTo[o - 1] ELSE Low(o, p) - TwoTo[o - 1]

\* A position is full for one block exactly when it is marked.
LEMMA SingleIs ==
    ASSUME NEW o \in Orders, NEW B, NEW S, Holds(B, o, S), NEW M, Sound(o, S, M), NEW p \in Positions(o)
    PROVE  /\ (/\ Read(B, o, p) = LocalOffset(o, p)
               /\ Left(p) \in Positions(o) => Read(B, o, Left(p)) = 0) <=> p \in M
           /\ Left(p) \in Positions(o) <=> p < TwoTo[o - 1]
<1>1. S \in Statuses(o) /\ NodeSound(o, S, M, p) /\ Read(B, o, p) = S[p]
  <2>1. Read(B, o, p) = S[p]
    BY ReadIs
  <2> QED
    BY <2>1 DEF Holds, Sound
<1>2. p \in Nat /\ p >= 1 /\ LocalOffset(o, p) \in Nat /\ LocalOffset(o, p) >= 1
  BY Family
<1>3. Left(p) \in Positions(o) <=> p < TwoTo[o - 1]
  <2>1. PICK e \in Nat : e = TwoTo[o - 1] /\ TwoTo[o] = 2 * e
    BY Halving
  <2>2. 2 * p \in 1 .. (2 * e - 1) <=> p < e
    BY <1>2, <2>1
  <2> QED
    BY <2>1, <2>2 DEF Left, Positions
<1>4. CASE p < TwoTo[o - 1]
  <2>1. /\ 2 * p \in Positions(o) /\ 2 * p + 1 \in Positions(o)
        /\ LocalOffset(o, 2 * p) = LocalOffset(o, p) - 1
    BY <1>4, ChildrenOf
  <2>2. Read(B, o, Left(p)) = S[2 * p]
    BY <2>1, ReadIs DEF Left
  <2>3. LocalOffset(o, p) >= 2
    <3>1. LocalOffset(o, 2 * p) >= 1 /\ LocalOffset(o, 2 * p) \in Nat
      BY <2>1, Family
    <3> QED
      BY <1>2, <2>1, <3>1
  <2>4. PICK l \in Nat, r \in Nat : l = S[2 * p] /\ r = S[2 * p + 1]
    BY <1>1, <2>1, StatusIs
  <2>5. CASE p \in M
    BY <1>1, <1>3, <1>4, <2>2, <2>5 DEF NodeSound
  <2>6. CASE p \notin M
    <3>1. S[p] = Combine(l, r)
      BY <1>1, <1>4, <2>4, <2>6 DEF NodeSound
    <3>2. l = 0 => Combine(l, r) <= 1 /\ Combine(l, r) \in Nat
      BY <2>4 DEF Combine, Smaller
    <3>3. l = 0 => S[p] # LocalOffset(o, p)
      BY <1>2, <2>3, <3>1, <3>2
    <3> QED
      BY <1>1, <1>3, <1>4, <2>2, <2>4, <2>6, <3>3
  <2> QED
    BY <1>3, <2>5, <2>6
<1>5. CASE ~(p < TwoTo[o - 1])
  <2>1. p \in M => S[p] = LocalOffset(o, p)
    BY <1>1 DEF NodeSound
  <2>2. p \notin M => S[p] = 0
    BY <1>1, <1>5 DEF NodeSound
  <2> QED
    BY <1>1, <1>2, <1>3, <1>5, <2>1, <2>2
<1> QED
  BY <1>4, <1>5

\* A live block, by its position and two numbers.
LEMMA LiveIs ==
    ASSUME TreeInv, NEW b \in live
    PROVE  \E m \in Marks(order, live), l \in Nat, w \in Nat, e \in Nat :
              /\ e = TwoTo[order - 1] /\ l = Low(order, m) /\ w = Width(order, m) /\ w >= 1
              /\ m \in Positions(order) /\ b = Place(order, m) /\ b = <<l - e, w>>
              /\ l >= e /\ l + w <= e + slots /\ l + w <= 2 * e
<1>1. Fits(order, slots) /\ order \in Orders
  BY FitIs DEF TreeInv
<1>2. PICK m \in Positions(order) : b = Place(order, m)
  BY DEF TreeInv, Placed
<1>3. m \in Marks(order, live)
  BY <1>2 DEF Marks
<1>4. PICK l \in Nat, w \in Nat : /\ l = Low(order, m) /\ w = Width(order, m) /\ w >= 1
                                  /\ Interval(order, m) = l .. (l + w - 1)
  BY <1>1, SpanIs
<1>5. PICK e \in Nat, n \in Nat : e = TwoTo[order - 1] /\ n = slots /\ n <= e
  BY <1>1, FitIs
<1>6. l >= e
  <2>1. l \in l .. (l + w - 1)
    BY <1>4
  <2>2. l \in e .. (2 * e - 1)
    BY <1>1, <1>4, <1>5, <2>1, InRoot
  <2> QED
    BY <1>4, <1>5, <2>2
<1>7. b = <<l - e, w>>
  BY <1>2, <1>4, <1>5 DEF Place
<1>8. l + w <= e + n
  <2>1. b[1] + b[2] <= n
    BY <1>5 DEF TreeInv
  <2>2. (l - e) + w <= n
    BY <1>7, <2>1
  <2> QED
    BY <2>2
<1>9. l + w <= 2 * e
  <2>1. n <= e
    BY <1>5
  <2> QED
    BY <1>8, <2>1
<1> QED
  BY <1>2, <1>3, <1>4, <1>5, <1>6, <1>7, <1>8, <1>9

\* Of the blocks that begin inside p there is p's own at most, when p is marked or
\* a leaf and lies inside no mark.
LEMMA BlocksStart ==
    ASSUME TreeInv, NEW p \in Positions(order), \A m \in Used : ~Under(order, p, m),
           p \in Used \/ ~(p < TwoTo[order - 1]),
           NEW b \in live
    PROVE  b[1] < Low(order, p) + Width(order, p) - TwoTo[order - 1] <=>
              b[1] < Low(order, p) - TwoTo[order - 1] \/ (p \in Used /\ b = Place(order, p))
<1>1. Fits(order, slots) /\ order \in Orders
  BY FitIs DEF TreeInv
<1>2. PICK S : Holds(bits, order, S) /\ Sound(order, S, Used) /\ S \in Statuses(order)
  BY DEF TreeInv, Used, Holds
<1>3. PICK m \in Marks(order, live), l \in Nat, w \in Nat, e \in Nat :
              /\ e = TwoTo[order - 1] /\ l = Low(order, m) /\ w = Width(order, m) /\ w >= 1
              /\ m \in Positions(order) /\ b = Place(order, m) /\ b = <<l - e, w>>
  BY LiveIs
<1>4. PICK c \in Nat, v \in Nat : /\ c = Low(order, p) /\ v = Width(order, p) /\ v >= 1
                                  /\ Interval(order, p) = c .. (c + v - 1)
  BY <1>1, SpanIs
<1>5. b[1] = l - e
  BY <1>3
<1>6. ASSUME p \in Used, b = Place(order, p) PROVE l = c
  <2>1. m = p
    BY <1>1, <1>3, <1>6, PlaceOne
  <2> QED
    BY <1>3, <1>4, <2>1
<1>7. ASSUME l >= c, l < c + v PROVE p \in Used /\ b = Place(order, p)
  <2>1. l \in Interval(order, p)
    BY <1>4, <1>7
  <2>2. l \in Interval(order, m)
    BY <1>1, <1>3, IntervalIs
  <2>3. m \in Used
    BY <1>3 DEF Used
  <2>4. p = m \/ Under(order, m, p)
    <3>1. Interval(order, p) \cap Interval(order, m) # {}
      BY <2>1, <2>2
    <3>2. p = m \/ Under(order, p, m) \/ Under(order, m, p)
      BY <1>1, <1>3, <3>1, Meet
    <3> QED
      BY <2>3, <3>2
  <2>5. p = m
    <3>1. CASE p \in Used
      BY <1>1, <1>2, <2>1, <2>2, <2>3, <3>1, MarksApart
    <3>2. CASE ~(p < TwoTo[order - 1])
      <4>1. ~Under(order, m, p)
        <5>1. SUFFICES ASSUME Under(order, m, p) PROVE FALSE
          OBVIOUS
        <5>2. p < TwoTo[order - 1]
          BY <1>1, <1>3, <5>1, ChildToward
        <5> QED
          BY <3>2, <5>2
      <4> QED
        BY <2>4, <4>1
    <3> QED
      BY <3>1, <3>2
  <2> QED
    BY <1>3, <2>3, <2>5
<1>8. l - e < c + v - e <=> l < c + v
  OBVIOUS
<1>9. l - e < c - e <=> l < c
  OBVIOUS
<1>10. l < c => l < c + v
  BY <1>3, <1>4
<1>11. l = c => l < c + v
  BY <1>3, <1>4
<1>12. l >= c <=> ~(l < c)
  BY <1>3, <1>4
<1> QED
  BY <1>3, <1>4, <1>5, <1>6, <1>7, <1>8, <1>9, <1>10, <1>11, <1>12

\* What the walk has found when it has reached slot lim.
Visited(found, lim) ==
    /\ found \in Seq(live)
    /\ {found[i] : i \in DOMAIN found} = {b \in live : b[1] < lim}
    /\ \A i \in 1 .. (Len(found) - 1) : found[i][1] + found[i][2] <= found[i + 1][1]
    /\ \A i \in 1 .. Len(found) : found[i][1] + found[i][2] <= lim

\* Addresses and sizes of live blocks.
LEMMA LiveNumbers ==
    ASSUME TreeInv, NEW b \in live
    PROVE  /\ b[1] \in Nat /\ b[2] \in Nat /\ b[2] >= 1
           /\ b[1] < TwoTo[order - 1] /\ TwoTo[order - 1] \in Nat
<1>1. PICK m \in Marks(order, live), l \in Nat, w \in Nat, e \in Nat :
              /\ e = TwoTo[order - 1] /\ w >= 1
              /\ b = <<l - e, w>> /\ l >= e /\ l + w <= 2 * e
  BY LiveIs
<1>2. b[1] = l - e /\ b[2] = w /\ e = TwoTo[order - 1]
  BY <1>1
<1>3. w >= 1 /\ l >= e /\ l + w <= 2 * e
  BY <1>1
<1>4. l - e \in Nat /\ l - e < e
  BY <1>3
<1> QED
  BY <1>2, <1>3, <1>4

\* Going on past slots at which no block begins finds nothing.
LEMMA VisitedSame ==
    ASSUME TreeInv, NEW found, NEW lim \in Int, NEW more \in Int, Visited(found, lim), lim <= more,
           \A b \in live : b[1] < more <=> b[1] < lim
    PROVE  Visited(found, more)
<1>1. found \in Seq(live)
  BY DEF Visited
<1>2. {b \in live : b[1] < more} = {b \in live : b[1] < lim}
  OBVIOUS
<1>3. ASSUME NEW i \in 1 .. Len(found) PROVE found[i][1] + found[i][2] <= more
  <2>1. found[i] \in live
    BY <1>1, ElementOfSeq
  <2>2. found[i][1] + found[i][2] \in Nat
    BY <2>1, LiveNumbers
  <2>3. found[i][1] + found[i][2] <= lim
    BY DEF Visited
  <2> QED
    BY <2>2, <2>3
<1> QED
  BY <1>2, <1>3 DEF Visited

\* The callback is given the block that begins at the slot reached.
LEMMA VisitedMore ==
    ASSUME TreeInv, NEW found, NEW b \in live, Visited(found, b[1]),
           \A c \in live : c[1] < b[1] + b[2] <=> c[1] < b[1] \/ c = b
    PROVE  Visited(Append(found, b), b[1] + b[2])
<1>1. found \in Seq(live) /\ DOMAIN found = 1 .. Len(found) /\ Len(found) \in Nat
  BY LenProperties DEF Visited
<1>2. PICK n \in Nat : n = Len(found)
  BY <1>1
<1>3. PICK g : g = Append(found, b)
  OBVIOUS
<1>4. /\ g \in Seq(live) /\ Len(g) = n + 1 /\ g[n + 1] = b
      /\ \A i \in 1 .. n : g[i] = found[i]
  BY <1>1, <1>2, <1>3, AppendProperties
<1>5. DOMAIN g = 1 .. (n + 1)
  BY <1>4, LenProperties
<1>6. b[1] \in Nat /\ b[2] \in Nat
  BY LiveNumbers
<1>7. 1 .. (n + 1) = (1 .. n) \cup {n + 1}
  OBVIOUS
<1>8. {g[i] : i \in DOMAIN g} = {c \in live : c[1] < b[1] + b[2]}
  <2>1. {g[i] : i \in DOMAIN g} = {found[i] : i \in 1 .. n} \cup {b}
    BY <1>4, <1>5, <1>7
  <2>2. {found[i] : i \in 1 .. n} = {c \in live : c[1] < b[1]}
    BY <1>1, <1>2 DEF Visited
  <2> QED
    BY <2>1, <2>2
<1>9. ASSUME NEW i \in 1 .. (Len(g) - 1) PROVE g[i][1] + g[i][2] <= g[i + 1][1]
  <2>1. i \in 1 .. n /\ g[i] = found[i] /\ i + 1 \in 1 .. (n + 1)
    BY <1>4
  <2>2. CASE i = n
    <3>1. found[i][1] + found[i][2] <= b[1]
      BY <1>2, <2>1 DEF Visited
    <3> QED
      BY <1>4, <2>1, <2>2, <3>1
  <2>3. CASE i # n
    <3>1. i + 1 \in 1 .. n /\ i \in 1 .. (n - 1)
      BY <2>1, <2>3
    <3>2. found[i][1] + found[i][2] <= found[i + 1][1]
      BY <1>2, <3>1 DEF Visited
    <3> QED
      BY <1>4, <2>1, <3>1, <3>2
  <2> QED
    BY <2>2, <2>3
<1>10. ASSUME NEW i \in 1 .. Len(g) PROVE g[i][1] + g[i][2] <= b[1] + b[2]
  <2>1. CASE i = n + 1
    BY <1>4, <1>6, <2>1
  <2>2. CASE i # n + 1
    <3>1. i \in 1 .. n /\ g[i] = found[i]
      BY <1>4, <1>7, <2>2
    <3>2. found[i] \in live
      BY <1>1, <1>2, <3>1, ElementOfSeq
    <3>3. found[i][1] + found[i][2] \in Nat
      BY <3>2, LiveNumbers
    <3>4. found[i][1] + found[i][2] <= b[1]
      BY <1>2, <3>1 DEF Visited
    <3> QED
      BY <1>6, <3>1, <3>3, <3>4
  <2> QED
    BY <2>1, <2>2
<1>11. g \in Seq(live)
  BY <1>4
<1>12. Visited(g, b[1] + b[2])
  BY <1>8, <1>9, <1>10, <1>11, Zenon DEF Visited
<1> QED
  BY <1>3, <1>12

\* The most turns a walk can have taken when it stands at p.
Turns(o, p) == o * (Low(o, p) - TwoTo[o - 1]) + Depth(p)

\* There are as many turns as slots times rows, and each step of the walk uses one.
LEMMA TurnsAre ==
    ASSUME NEW o \in Orders, NEW p \in Positions(o), NEW q \in Positions(o)
    PROVE  /\ Turns(o, p) \in Nat /\ Turns(o, p) <= TwoTo[o - 1] * o
           /\ Low(o, p) < Low(o, q) => Turns(o, p) + 1 <= Turns(o, q)
           /\ Low(o, p) = Low(o, q) /\ Depth(q) = Depth(p) + 1 => Turns(o, p) + 1 <= Turns(o, q)
           /\ Turns(o, 1) = 1
<1>1. PICK n \in Nat, e \in Nat : n = o /\ n >= 1 /\ e = TwoTo[o - 1] /\ e >= 1
  BY Halving
<1>2. ASSUME NEW r \in Positions(o)
      PROVE  \E a \in Nat, d \in Nat : /\ a = Low(o, r) - e /\ a + 1 <= e
                                       /\ d = Depth(r) /\ d >= 1 /\ d <= n
                                       /\ Low(o, r) = a + e /\ Turns(o, r) = n * a + d
  <2>1. PICK l \in Nat, w \in Nat : l = Low(o, r) /\ w >= 1 /\ Interval(o, r) = l .. (l + w - 1)
    BY SpanIs
  <2>2. l \in e .. (2 * e - 1)
    <3>1. l \in l .. (l + w - 1)
      BY <2>1
    <3> QED
      BY <1>1, <2>1, <3>1, InRoot
  <2>3. l - e \in Nat /\ (l - e) + 1 <= e /\ l = (l - e) + e
    BY <2>2
  <2>4. Depth(r) \in Nat /\ Depth(r) >= 1 /\ Depth(r) <= n
    BY <1>1, Family
  <2>5. Turns(o, r) = n * (l - e) + Depth(r) /\ l = Low(o, r)
    BY <1>1, <2>1 DEF Turns
  <2> QED
    BY <2>3, <2>4, <2>5
<1>3. PICK a \in Nat, d \in Nat : /\ a = Low(o, p) - e /\ a + 1 <= e
                                  /\ d = Depth(p) /\ d >= 1 /\ d <= n
                                  /\ Low(o, p) = a + e /\ Turns(o, p) = n * a + d
  BY <1>2
<1>4. PICK b \in Nat, f \in Nat : /\ b = Low(o, q) - e /\ b + 1 <= e
                                  /\ f = Depth(q) /\ f >= 1 /\ f <= n
                                  /\ Low(o, q) = b + e /\ Turns(o, q) = n * b + f
  BY <1>2
<1>5. PICK x \in Nat : x = n * a
  BY ProductFacts
<1>6. PICK y \in Nat : y = n * b
  BY ProductFacts
<1>7. n * (a + 1) = x + n
  BY <1>5, ProductFacts
<1>8. Turns(o, p) = x + d /\ Turns(o, q) = y + f
  BY <1>3, <1>4, <1>5, <1>6
<1>9. d <= n /\ d >= 1 /\ f >= 1
  BY <1>3, <1>4
<1>10. PICK z \in Nat : z = n * e /\ x + n <= z
  <2>1. n * e \in Nat /\ n * (a + 1) <= n * e
    <3>1. a + 1 \in Nat /\ a + 1 <= e
      BY <1>3
    <3> QED
      BY <3>1, ProductFacts
  <2> QED
    BY <1>7, <2>1
<1>11. Turns(o, p) \in Nat /\ Turns(o, p) <= z
  BY <1>8, <1>9, <1>10
<1>12. z = TwoTo[o - 1] * o
  <2>1. n * e = e * n
    OBVIOUS
  <2> QED
    BY <1>1, <1>10, <2>1
<1>13. ASSUME Low(o, p) < Low(o, q) PROVE Turns(o, p) + 1 <= Turns(o, q)
  <2>1. a + e < b + e
    BY <1>3, <1>4, <1>13
  <2>2. a + 1 <= b /\ a + 1 \in Nat
    BY <2>1
  <2>3. n * (a + 1) <= n * b
    BY <2>2, ProductFacts
  <2>4. x + n <= y
    BY <1>6, <1>7, <2>3
  <2> QED
    BY <1>8, <1>9, <2>4
<1>14. ASSUME Low(o, p) = Low(o, q), Depth(q) = Depth(p) + 1 PROVE Turns(o, p) + 1 <= Turns(o, q)
  <2>1. a = b
    <3>1. a + e = b + e
      BY <1>3, <1>4, <1>14
    <3> QED
      BY <3>1
  <2>2. x = y
    BY <1>5, <1>6, <2>1
  <2>3. f = d + 1
    BY <1>3, <1>4, <1>14
  <2> QED
    BY <1>8, <2>2, <2>3
<1>15. Turns(o, 1) = 1
  <2>1. Low(o, 1) - TwoTo[o - 1] = 0
    BY <1>1, RootInterval
  <2>2. o * 0 = 0
    BY <1>1
  <2> QED
    BY <2>1, <2>2, RootIs DEF Turns
<1> QED
  BY <1>11, <1>12, <1>13, <1>14, <1>15

\* The states of buddy_walk(): at the end, or at a position inside no mark, with
\* the blocks before it found.
WalkStates ==
    {w \in [pos : {0} \cup Positions(order), found : Seq(live)] :
        /\ Visited(w.found, Reach(order, w.pos))
        /\ w.pos # 0 => \A m \in Used : ~Under(order, w.pos, m)}

\* Where a way up from p leads the walk.
LEMMA Onward ==
    ASSUME TreeInv, NEW p \in Positions(order), \A m \in Used : ~Under(order, p, m),
           NEW found \in Seq(live),
           Visited(found, Low(order, p) + Width(order, p) - TwoTo[order - 1])
    PROVE  /\ [pos |-> WalkUp(p), found |-> found] \in WalkStates
           /\ WalkUp(p) # 0 => Turns(order, p) + 1 <= Turns(order, WalkUp(p))
<1>1. order \in Orders
  BY FitIs DEF TreeInv
<1>2. PICK l \in Nat, w \in Nat, e \in Nat :
          l = Low(order, p) /\ w = Width(order, p) /\ w >= 1 /\ e = TwoTo[order - 1]
  BY <1>1, IntervalIs, Halving
<1>3. PICK r : r = WalkUp(p)
  OBVIOUS
<1>4. w >= 1
  BY <1>2
<1>5. CASE r = 0 /\ Low(order, p) + Width(order, p) = 2 * TwoTo[order - 1]
  <2>1. l + w = 2 * e
    BY <1>2, <1>5
  <2>2. l + w - e = e
    BY <2>1
  <2>3. Reach(order, r) = Low(order, p) + Width(order, p) - TwoTo[order - 1]
    BY <1>2, <1>5, <2>2 DEF Reach
  <2> QED
    BY <1>3, <1>5, <2>3 DEF WalkStates
<1>6. CASE /\ r \in Positions(order)
           /\ Low(order, r) = Low(order, p) + Width(order, p)
           /\ \A m \in Positions(order) : Under(order, r, m) => Under(order, p, m)
  <2>1. r # 0
    BY <1>1, <1>6, Family
  <2>2. Reach(order, r) = Low(order, p) + Width(order, p) - TwoTo[order - 1]
    <3>1. Reach(order, r) = Low(order, r) - TwoTo[order - 1]
      BY <2>1 DEF Reach
    <3>2. Low(order, r) = Low(order, p) + Width(order, p)
      BY <1>6, Zenon
    <3>3. (l + w) - e = l + w - e
      OBVIOUS
    <3> QED
      BY <1>2, <3>1, <3>2, <3>3
  <2>3. \A m \in Used : ~Under(order, r, m)
    BY <1>6 DEF Used, Marks, Virtual
  <2>4. Low(order, r) = l + w
    BY <1>2, <1>6
  <2>5. l < l + w
    BY <1>4
  <2>6. Low(order, p) < Low(order, r)
    BY <1>2, <2>4, <2>5
  <2>7. Turns(order, p) + 1 <= Turns(order, r)
    BY <1>1, <1>6, <2>6, TurnsAre
  <2> QED
    BY <1>3, <1>6, <2>2, <2>3, <2>7 DEF WalkStates
<1> QED
  BY <1>1, <1>3, <1>5, <1>6, WalkUpIs

\* A turn of buddy_walk() keeps its state and goes on, to the end or by one of
\* the turns there are.
LEMMA WalkTurnIs ==
    ASSUME TreeInv, NEW w \in WalkStates
    PROVE  /\ WalkTurn(bits, order, w) \in WalkStates
           /\ w.pos = 0 => WalkTurn(bits, order, w).pos = 0
           /\ w.pos # 0 => \/ WalkTurn(bits, order, w).pos = 0
                           \/ Turns(order, w.pos) + 1 <= Turns(order, WalkTurn(bits, order, w).pos)
<1>1. Fits(order, slots) /\ order \in Orders
  BY FitIs DEF TreeInv
<1>2. PICK S : Holds(bits, order, S) /\ Sound(order, S, Used) /\ S \in Statuses(order)
  BY DEF TreeInv, Used, Holds
<1>3. PICK t : t = WalkTurn(bits, order, w)
  OBVIOUS
<1>4. CASE w.pos = 0
  <2>1. t = w
    BY <1>3, <1>4 DEF WalkTurn
  <2> QED
    BY <1>3, <1>4, <2>1
<1>5. CASE w.pos # 0
  <2>1. PICK p \in Positions(order) : p = w.pos
    BY <1>5 DEF WalkStates
  <2>2. PICK f \in Seq(live) : f = w.found
    BY DEF WalkStates
  <2>3. w = [pos |-> p, found |-> f]
    BY <2>1, <2>2 DEF WalkStates
  <2>4. \A m \in Used : ~Under(order, p, m)
    BY <1>5, <2>1 DEF WalkStates
  <2>5. Visited(f, Low(order, p) - TwoTo[order - 1])
    BY <1>5, <2>1, <2>2 DEF WalkStates, Reach
  <2>6. PICK l \in Nat, v \in Nat, e \in Nat :
            l = Low(order, p) /\ v = Width(order, p) /\ v >= 1 /\ e = TwoTo[order - 1]
    BY <1>1, IntervalIs, Halving
  <2>7. p # 0
    BY <1>5, <2>1
  <2> DEFINE single == /\ Read(bits, order, p) = LocalOffset(order, p)
                       /\ Left(p) \in Positions(order) => Read(bits, order, Left(p)) = 0
  <2>8. single <=> p \in Used
    BY <1>1, <1>2, SingleIs
  <2>9. Left(p) \in Positions(order) <=> p < TwoTo[order - 1]
    BY <1>1, <1>2, SingleIs
  <2>10. t = IF ~single THEN [w EXCEPT !.pos = WalkNext(order, p, FALSE)]
             ELSE IF BlockOf(p)[1] + BlockOf(p)[2] > slots THEN [w EXCEPT !.pos = 0]
             ELSE [pos |-> WalkNext(order, p, TRUE), found |-> Append(w.found, BlockOf(p))]
    BY <1>3, <2>1, <2>7 DEF WalkTurn
  <2> HIDE DEF single
  <2>11. SUFFICES /\ t \in WalkStates
                  /\ t.pos = 0 \/ Turns(order, p) + 1 <= Turns(order, t.pos)
    BY <1>3, <1>5, <2>1
  <2>12. CASE p \notin Used /\ p < TwoTo[order - 1]
    <3>1. t = [pos |-> 2 * p, found |-> f]
      BY <2>3, <2>8, <2>9, <2>10, <2>12 DEF WalkNext, Left
    <3>2. /\ 2 * p \in Positions(order) /\ (2 * p) \div 2 = p
          /\ Depth(2 * p) = Depth(p) + 1 /\ 2 * p # 0
      <4>1. p \in Nat /\ p >= 1
        BY <1>1, Family
      <4>2. 2 * p # 0
        BY <4>1
      <4> QED
        BY <1>1, <2>12, <4>2, ChildrenOf
    <3>3. Low(order, 2 * p) = Low(order, p)
      BY <1>1, <2>12, Halves
    <3>4. ASSUME NEW m \in Used, Under(order, 2 * p, m) PROVE FALSE
      <4>1. m \in Positions(order)
        BY DEF Used, Marks, Virtual
      <4>2. p = m \/ Under(order, p, m)
        BY <1>1, <3>2, <3>4, <4>1, UnderParent
      <4> QED
        BY <2>4, <2>12, <3>4, <4>2
    <3>5. Visited(f, Reach(order, 2 * p))
      BY <2>5, <3>2, <3>3 DEF Reach
    <3>6. Turns(order, p) + 1 <= Turns(order, 2 * p)
      BY <1>1, <3>2, <3>3, TurnsAre
    <3>7. t \in WalkStates
      <4>1. t.pos = 2 * p /\ t.found = f
        BY <3>1
      <4>2. t \in [pos : {0} \cup Positions(order), found : Seq(live)]
        BY <3>1, <3>2
      <4> QED
        BY <3>4, <3>5, <4>1, <4>2 DEF WalkStates
    <3> QED
      BY <3>1, <3>6, <3>7
  <2>13. CASE p \notin Used /\ ~(p < TwoTo[order - 1])
    <3>1. t = [pos |-> WalkUp(p), found |-> f]
      BY <2>3, <2>8, <2>9, <2>10, <2>13 DEF WalkNext
    <3>2. \A b \in live : b[1] < Low(order, p) + Width(order, p) - TwoTo[order - 1] <=>
                          b[1] < Low(order, p) - TwoTo[order - 1]
      BY <2>4, <2>13, BlocksStart
    <3>3. Visited(f, Low(order, p) + Width(order, p) - TwoTo[order - 1])
      <4>1. l - e \in Int /\ l + v - e \in Int /\ l - e <= l + v - e
        OBVIOUS
      <4>2. Visited(f, l - e) /\ \A b \in live : b[1] < l + v - e <=> b[1] < l - e
        BY <2>5, <2>6, <3>2
      <4>3. Visited(f, l + v - e)
        BY <4>1, <4>2, VisitedSame
      <4> QED
        BY <2>6, <4>3
    <3> QED
      BY <2>4, <3>1, <3>3, Onward
  <2>14. CASE p \in Used
    <3>1. BlockOf(p) = Place(order, p) /\ Place(order, p) = <<l - e, v>>
      BY <1>1, <2>6, BlockIs DEF Place
    <3>2. PICK b : b = BlockOf(p) /\ b = Place(order, p) /\ b[1] = l - e /\ b[2] = v
      BY <3>1
    <3>3. PICK n \in Nat : n = slots /\ n <= e
      BY <1>1, <2>6, FitIs
    <3>4. \A c \in live : c[1] < l + v - e <=> c[1] < l - e \/ c = b
      BY <2>4, <2>6, <2>14, <3>2, BlocksStart
    <3>5. CASE b[1] + b[2] > slots
      <4>1. t = [pos |-> 0, found |-> f]
        BY <2>3, <2>8, <2>10, <2>14, <3>2, <3>5
      <4>2. l + v > e + n
        <5>1. (l - e) + v > n
          BY <3>2, <3>3, <3>5
        <5> QED
          BY <5>1
      <4>3. p \in Virtual(order, slots)
        <5>1. ASSUME p \in Marks(order, live) PROVE FALSE
          <6>1. b \in live
            BY <3>2, <5>1 DEF Marks
          <6>2. b[1] + b[2] <= slots
            BY <6>1 DEF TreeInv
          <6>3. (l - e) + v <= n
            BY <3>2, <3>3, <6>2
          <6> QED
            BY <4>2, <6>3
        <5> QED
          BY <2>14, <5>1 DEF Used
      <4>4. l >= e + n
        BY <2>6, <3>3, <4>3 DEF Virtual, PastLeaf
      <4>5. ASSUME NEW c \in live PROVE c[1] < e <=> c[1] < l - e
        <5>1. PICK x \in Nat, y \in Nat : c[1] = x /\ c[2] = y /\ y >= 1 /\ x < e
          BY <2>6, LiveNumbers
        <5>2. x + y <= n
          BY <3>3, <5>1 DEF TreeInv
        <5>3. y >= 1 /\ x < e
          BY <5>1
        <5>4. x < l - e
          BY <4>4, <5>2, <5>3
        <5> QED
          BY <5>1, <5>4
      <4>6. Visited(f, e)
        <5>1. l - e <= e
          <6>1. PICK k \in Nat, u \in Nat : /\ k = Low(order, p) /\ u >= 1
                                            /\ Interval(order, p) = k .. (k + u - 1)
            BY <1>1, SpanIs
          <6>2. k \in k .. (k + u - 1)
            BY <6>1
          <6>3. k \in e .. (2 * e - 1) /\ k = l
            BY <1>1, <2>6, <6>1, <6>2, InRoot
          <6>4. k <= 2 * e - 1
            BY <6>3
          <6> QED
            BY <6>3, <6>4
        <5>2. l - e \in Int /\ e \in Int /\ Visited(f, l - e)
          BY <2>5, <2>6
        <5> QED
          BY <4>5, <5>1, <5>2, VisitedSame
      <4>7. Visited(f, Reach(order, 0))
        BY <2>6, <4>6 DEF Reach
      <4>8. t \in WalkStates
        BY <4>1, <4>7 DEF WalkStates
      <4> QED
        BY <4>1, <4>8
    <3>6. CASE ~(b[1] + b[2] > slots)
      <4>1. t = [pos |-> WalkUp(p), found |-> Append(f, b)]
        BY <2>3, <2>8, <2>10, <2>14, <3>2, <3>6 DEF WalkNext
      <4>2. b \in live
        <5>1. ASSUME p \in Virtual(order, slots) PROVE FALSE
          <6>1. l >= e + n
            BY <2>6, <3>3, <5>1 DEF Virtual, PastLeaf
          <6>2. ~((l - e) + v > n)
            BY <3>2, <3>3, <3>6
          <6>3. v >= 1
            BY <2>6
          <6> QED
            BY <6>1, <6>2, <6>3
        <5> QED
          BY <2>14, <3>2, <5>1 DEF Used, Marks
      <4>3. b[1] + b[2] = l + v - e
        <5>1. (l - e) + v = l + v - e
          OBVIOUS
        <5> QED
          BY <3>2, <5>1
      <4>4. Visited(f, b[1])
        BY <2>5, <2>6, <3>2
      <4>5. \A c \in live : c[1] < b[1] + b[2] <=> c[1] < b[1] \/ c = b
        BY <3>2, <3>4, <4>3
      <4>6. Visited(Append(f, b), b[1] + b[2])
        BY <4>2, <4>4, <4>5, VisitedMore
      <4>7. Append(f, b) \in Seq(live)
        BY <4>2, AppendProperties
      <4>8. Visited(Append(f, b), Low(order, p) + Width(order, p) - TwoTo[order - 1])
        BY <2>6, <4>3, <4>6
      <4> QED
        BY <2>4, <4>1, <4>7, <4>8, Onward
    <3> QED
      BY <3>5, <3>6
  <2> QED
    BY <2>12, <2>13, <2>14
<1> QED
  BY <1>4, <1>5

\* buddy_walk() finds the live blocks, in the order of their addresses.
LEMMA WalkIs ==
    ASSUME TreeInv
    PROVE  Visited(BuddyWalk(bits, order), TwoTo[order - 1])
<1> DEFINE a == [pos |-> 1, found |-> <<>>]
           X == WalkStates
           F == CHOOSE F : F = [k \in Nat |-> IF k = 0 THEN a ELSE WalkTurn(bits, order, F[k - 1])]
           step == [x \in Nat \X X |-> WalkTurn(bits, order, x[2])]
<1>1. order \in Orders /\ 1 \in Positions(order)
  BY FitIs, Halving DEF TreeInv
<1>2. a \in X
  <2>1. Reach(order, 1) = 0
    <3>1. Reach(order, 1) = Low(order, 1) - TwoTo[order - 1]
      BY DEF Reach
    <3> QED
      BY <1>1, <3>1, RootInterval, Halving
  <2>2. Visited(<<>>, 0)
    <3>1. {b \in live : b[1] < 0} = {}
      BY LiveNumbers
    <3>2. <<>> \in Seq(live) /\ Len(<<>>) = 0 /\ DOMAIN <<>> = {}
      OBVIOUS
    <3> QED
      BY <3>1, <3>2 DEF Visited
  <2>3. ASSUME NEW m \in Used, Under(order, 1, m) PROVE FALSE
    <3>1. m \in Positions(order)
      BY DEF Used, Marks, Virtual
    <3>2. Depth(m) \in Nat /\ Depth(m) >= 1
      BY <1>1, <3>1, Family
    <3> QED
      BY <2>3, <3>2, RootIs DEF Under
  <2>4. a.pos = 1 /\ a.found = <<>> /\ a \in [pos : {0} \cup Positions(order), found : Seq(live)]
    BY <1>1
  <2> QED
    BY <2>1, <2>2, <2>3, <2>4 DEF WalkStates
<1>3. step \in [Nat \X X -> X]
  <2>1. ASSUME NEW x \in Nat \X X PROVE step[x] \in X
    <3>1. x[2] \in X
      OBVIOUS
    <3>2. WalkTurn(bits, order, x[2]) \in X
      BY <3>1, WalkTurnIs
    <3> QED
      BY <3>2
  <2> QED
    BY <2>1
<1> HIDE DEF a, X
<1>4. PICK f : Repeats(X, a, step, f)
  <2> HIDE DEF step
  <2> QED
    BY <1>2, <1>3, Repeat
<1>5. f \in [Nat -> X] /\ f[0] = a
  BY <1>4 DEF Repeats
<1>6. ASSUME NEW k \in Nat PROVE f[k + 1] = WalkTurn(bits, order, f[k])
  <2>1. <<k + 1, f[k]>> \in Nat \X X /\ f[k + 1] = step[<<k + 1, f[k]>>]
    <3> HIDE DEF step
    <3> QED
      BY <1>4 DEF Repeats
  <2> QED
    BY <2>1
<1>7. ASSUME NEW k \in Nat PROVE f[k] = IF k = 0 THEN a ELSE WalkTurn(bits, order, f[k - 1])
  <2>1. k # 0 => k - 1 \in Nat /\ (k - 1) + 1 = k
    OBVIOUS
  <2> QED
    BY <1>5, <1>6, <2>1
<1>8. f = [k \in Nat |-> IF k = 0 THEN a ELSE WalkTurn(bits, order, f[k - 1])]
  BY <1>5, <1>7
<1>9. F = [k \in Nat |-> IF k = 0 THEN a ELSE WalkTurn(bits, order, F[k - 1])]
  BY <1>8
<1>10. BuddyWalk(bits, order) = F[TwoTo[order - 1] * order].found
  BY DEF BuddyWalk, a
<1> HIDE DEF F, step
<1>11. F[0] = a /\ \A k \in Nat : F[k + 1] = WalkTurn(bits, order, F[k])
  <2>1. F[0] = a
    BY <1>9
  <2>2. ASSUME NEW k \in Nat PROVE F[k + 1] = WalkTurn(bits, order, F[k])
    <3>1. k + 1 \in Nat /\ k + 1 # 0 /\ (k + 1) - 1 = k
      OBVIOUS
    <3> QED
      BY <1>9, <3>1
  <2> QED
    BY <2>1, <2>2
<1> DEFINE G == {k \in Nat : F[k] \in X /\ (F[k].pos = 0 \/ k + 1 <= Turns(order, F[k].pos))}
<1>12. \A k \in Nat : k \in G
  <2>1. 0 \in G
    <3>1. a.pos = 1 /\ Turns(order, 1) = 1
      BY <1>1, TurnsAre DEF a
    <3> QED
      BY <1>2, <1>11, <3>1
  <2>2. ASSUME NEW k \in Nat, k \in G PROVE k + 1 \in G
    <3>1. F[k] \in X /\ F[k + 1] = WalkTurn(bits, order, F[k])
      BY <1>11, <2>2
    <3>2. /\ F[k + 1] \in X /\ (F[k].pos = 0 => F[k + 1].pos = 0)
          /\ F[k].pos # 0 => \/ F[k + 1].pos = 0
                             \/ Turns(order, F[k].pos) + 1 <= Turns(order, F[k + 1].pos)
      BY <3>1, WalkTurnIs DEF X
    <3>3. CASE F[k + 1].pos = 0
      BY <3>2, <3>3
    <3>4. CASE F[k + 1].pos # 0
      <4>1. /\ k + 1 <= Turns(order, F[k].pos)
            /\ Turns(order, F[k].pos) + 1 <= Turns(order, F[k + 1].pos)
            /\ F[k].pos # 0
        BY <2>2, <3>2, <3>4
      <4>2. F[k].pos \in Positions(order) /\ F[k + 1].pos \in Positions(order)
        BY <3>1, <3>2, <3>4, <4>1 DEF X, WalkStates
      <4>3. Turns(order, F[k].pos) \in Nat /\ Turns(order, F[k + 1].pos) \in Nat
        BY <1>1, <4>2, TurnsAre
      <4>4. (k + 1) + 1 <= Turns(order, F[k + 1].pos)
        BY <4>1, <4>3
      <4> QED
        BY <3>2, <4>4
    <3> QED
      BY <3>3, <3>4
  <2> HIDE DEF G
  <2> QED
    BY <2>1, <2>2, EveryNatural
<1>13. PICK n \in Nat : n = TwoTo[order - 1] * order
  <2>1. TwoTo[order - 1] \in Nat /\ order \in Nat
    BY <1>1, Halving
  <2> QED
    BY <2>1
<1>14. n \in G
  BY <1>12
<1>15. F[n] \in X /\ F[n].pos = 0
  <2>1. SUFFICES ASSUME F[n].pos # 0 PROVE FALSE
    BY <1>14
  <2>2. F[n].pos \in Positions(order)
    BY <1>14, <2>1 DEF X, WalkStates
  <2>3. Turns(order, F[n].pos) \in Nat /\ Turns(order, F[n].pos) <= n
    BY <1>1, <1>13, <2>2, TurnsAre
  <2>4. n + 1 <= Turns(order, F[n].pos)
    BY <1>14, <2>1
  <2> QED
    BY <2>3, <2>4
<1> QED
  BY <1>10, <1>13, <1>15 DEF X, WalkStates, Reach

\* From the last slot of a power of two buddy_is_free() looks at nothing.
LEMMA LastLooksAtNone ==
    ASSUME TreeInv, EffectiveSize(slots) = slots
    PROVE  IsFree(bits, order, slots, slots - 1)
<1>1. order \in Orders /\ slots \in Nat
  BY FitIs DEF TreeInv
<1>2. PICK k \in Nat : k = TwoTo[order - 1]
  BY <1>1, Powers DEF Orders
<1>3. PICK e \in Nat : slots = e /\ EffectiveSize(slots) = e
  BY <1>1
<1> DEFINE virtual == EffectiveSize(slots) - slots
           first == TwoTo[order - 1] + (slots - 1)
           last == TwoTo[order - 1] + EffectiveSize(slots) - (IF virtual = 0 THEN 1 ELSE virtual)
<1>4. virtual = 0
  BY <1>3
<1>5. first = k + (e - 1) /\ last = k + (e - 1)
  <2> HIDE DEF virtual
  <2>1. (IF virtual = 0 THEN 1 ELSE virtual) = 1
    BY <1>4
  <2> QED
    BY <1>2, <1>3, <2>1
<1>6. first .. (last - 1) = {}
  BY <1>5
<1> HIDE DEF virtual, first, last
<1>7. ASSUME NEW leaf \in first .. (last - 1) PROVE FALSE
  BY <1>6, <1>7
<1> QED
  BY <1>7 DEF IsFree, virtual, first, last

\* The invariant makes what the queries say true.
LEMMA QueriesFromInv == TreeInv => QueriesAgree
<1> SUFFICES ASSUME TreeInv PROVE QueriesAgree
  OBVIOUS
<1>1. PICK walk : walk = BuddyWalk(bits, order)
  OBVIOUS
<1>2. Visited(walk, TwoTo[order - 1])
  BY <1>1, WalkIs
<1>3. {walk[i] : i \in DOMAIN walk} = live
  BY <1>2, LiveNumbers DEF Visited
<1>4. \A i \in 1 .. (Len(walk) - 1) : walk[i][1] + walk[i][2] <= walk[i + 1][1]
  BY <1>2 DEF Visited
<1>5. /\ ArenaFreeSize(bits, order, slots) = Cardinality(FreeSlots)
      /\ IsFull(bits, order) <=> ArenaFreeSize(bits, order, slots) = 0
  BY FreeSizeIs
<1>6. slots \in Nat /\ slots >= 1
  BY FitIs DEF TreeInv
<1>7. ASSUME NEW from \in 0 .. (slots - 1), IsFree(bits, order, slots, from),
             ~(slots = EffectiveSize(slots) /\ from = slots - 1)
      PROVE  /\ \A b \in live : b[1] + b[2] <= from
             /\ from = 0 => live = {}
  <2>1. slots = EffectiveSize(slots) => from < slots - 1
    BY <1>6, <1>7
  <2> QED
    BY <1>7, <2>1, FreeMeansFree
<1>8. ASSUME NEW from \in 0 .. (slots - 1), EffectiveSize(slots) = slots, from = slots - 1
      PROVE  IsFree(bits, order, slots, from)
  BY <1>8, LastLooksAtNone
<1>9. 0 \in 0 .. (slots - 1)
  BY <1>6
<1>10. IsEmpty(bits, order, slots) =>
          live = {} \/ (slots = EffectiveSize(slots) /\ 0 = slots - 1)
  BY <1>7, <1>9 DEF IsEmpty
<1> QED
  BY <1>1, <1>3, <1>4, <1>5, <1>7, <1>8, <1>10 DEF QueriesAgree

\* What the queries say of arenas of every size: buddy_walk() calls back for each
\* block in use once and in order, and for no free slot; buddy_arena_free_size() is
\* the room that is left, buddy_is_full() means there is none; buddy_is_free() and
\* buddy_is_empty() overlook no block, but from the last slot of a power of two
\* they look at none.
THEOREM QueriesTrue ==
    ASSUME \A t \in Resizes : KeepsOrder(t)
    PROVE  Spec => []QueriesAgree
BY TreeInvariant, QueriesFromInv, PTL
=============================================================================
