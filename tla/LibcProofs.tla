----------------------------- MODULE LibcProofs -----------------------------
(***************************************************************************)
(* The copies and comparisons of the kernel's C library (libc/string/) for *)
(* every word size, address space, alignment, overlap and length, its      *)
(* number parsing (libc/stdlib/) for every text, base and width of long,   *)
(* and that the parsing undoes the printing of a plain number.             *)
(*                                                                         *)
(* A copy in progress has moved the bytes lo .. hi - 1 of the block        *)
(* (Moved), the words it has read all touch the source (Carried), and the  *)
(* bytes it has still to read are the original ones, because it runs in    *)
(* the direction that is safe for the overlap (FwdSafe, BwdSafe).  Every   *)
(* loop carries this from one turn to the next, the pairs of words and the *)
(* word kept from one pair to the next included.                           *)
(*                                                                         *)
(* The number functions are compared with the values of the digits read so *)
(* far, computed without a limit (Values).  They only grow, so the digits  *)
(* whose value fits are the first ones (LastThatFits) and the loop is at   *)
(* every turn in the state StateAt gives from that last place: the test    *)
(* against cutoff and cutlim is the comparison with the limit (NextDigit). *)
(*                                                                         *)
(* print_integer() divides: the quotients it goes through (Quotients) are, *)
(* read from the last one back, the values of the digits read so far.      *)
(*                                                                         *)
(* A comparison has either found the first difference or none so far       *)
(* (Compared), which adds up over the bytes before the first word, the     *)
(* words and the bytes behind them.  The turns of the unrolled loop of     *)
(* memcmp read the words one after the other, whatever place it is entered *)
(* at (AtTurnIs), and it is left behind the last word and no earlier       *)
(* (LastTurn), although the count goes down by four.                       *)
(***************************************************************************)
EXTENDS Libc, TLAPS, NaturalsInduction, WellFoundedInduction, SequenceTheorems

-----------------------------------------------------------------------------
(* Loops and addresses *)

\* A loop that agrees with g before its first turn, and after a turn whenever it
\* did before the turn, agrees with g at its end.
LEMMA LoopIs ==
    ASSUME NEW n \in Nat, NEW f, NEW g, f[0] = g[0],
           \A k \in 1 .. n : f[k - 1] = g[k - 1] => f[k] = g[k]
    PROVE  \A k \in 0 .. n : f[k] = g[k]
<1> DEFINE S == {k \in Nat : k <= n /\ f[k] # g[k]}
           Less == {ss \in Nat \X Nat : ss[1] < ss[2]}
<1>1. IsWellFoundedOn(Less, Nat)
  BY NatLessThanWellFounded, Zenon DEF OpToRel
<1>2. ASSUME S # {} PROVE FALSE
  <2>1. PICK m \in S : \A x \in S : ~(<<x, m>> \in Less)
    <3>1. S \in SUBSET Nat
      OBVIOUS
    <3> HIDE DEF Less, S
    <3> QED
      BY <1>1, <1>2, <3>1, WFMin
  <2>2. m \in Nat /\ m <= n /\ f[m] # g[m] /\ m # 0
    BY <2>1
  <2>3. m - 1 \in Nat /\ m - 1 < m /\ m \in 1 .. n
    BY <2>2
  <2>4. m - 1 \notin S
    <3>1. <<m - 1, m>> \in Nat \X Nat /\ <<m - 1, m>>[1] = m - 1 /\ <<m - 1, m>>[2] = m
      BY <2>2, <2>3
    <3>2. <<m - 1, m>> \in Less
      BY <2>3, <3>1
    <3> HIDE DEF Less, S
    <3> QED
      BY <2>1, <3>2
  <2> QED
    BY <2>2, <2>3, <2>4
<1> QED
  BY <1>2

\* What is left by a division of a number less than one turn outside the range.
LEMMA ModOnce ==
    ASSUME NEW m \in Nat \ {0}, NEW x \in Int
    PROVE  /\ 0 <= x /\ x < m => x % m = x
           /\ m <= x /\ x < 2 * m => x % m = x - m
           /\ -m <= x /\ x < 0 => x % m = x + m
OBVIOUS

\* Adding to a pointer, and the distance between two, when neither goes round
\* more than once.
LEMMA Ring ==
    ASSUME NEW a \in Addr, NEW n \in 0 .. SIZE
    PROVE  /\ Plus(a, n) = IF a + n < SIZE THEN a + n ELSE a + n - SIZE
           /\ Minus(a, n) = IF n <= a THEN a - n ELSE a - n + SIZE
           /\ Plus(a, n) \in Addr /\ Minus(a, n) \in Addr
<1>1. SIZE \in Nat \ {0} /\ a \in Nat /\ n \in Nat /\ a < SIZE /\ n <= SIZE
  BY MemoryFunctionsAssumption DEF Addr
<1>2. \A x \in Int :
          /\ 0 <= x /\ x < SIZE => x % SIZE = x
          /\ SIZE <= x /\ x < 2 * SIZE => x % SIZE = x - SIZE
          /\ -SIZE <= x /\ x < 0 => x % SIZE = x + SIZE
  BY <1>1, ModOnce
<1>3. a + n \in Int /\ 0 <= a + n /\ a + n < 2 * SIZE
  BY <1>1
<1>4. a - n \in Int /\ -SIZE <= a - n /\ a - n < SIZE
  BY <1>1
<1>5. (a + n) % SIZE = IF a + n < SIZE THEN a + n ELSE a + n - SIZE
  BY <1>1, <1>2, <1>3
<1>6. (a - n) % SIZE = IF n <= a THEN a - n ELSE a - n + SIZE
  BY <1>1, <1>2, <1>4
<1> QED
  BY <1>1, <1>5, <1>6 DEF Plus, Minus, Addr

\* Every address is its distance from any other one.
LEMMA Offset ==
    ASSUME NEW a \in Addr, NEW d \in Addr
    PROVE  Minus(a, d) \in Addr /\ Plus(d, Minus(a, d)) = a
<1>1. Addr \subseteq 0 .. SIZE
  BY MemoryFunctionsAssumption DEF Addr
<1>2. Minus(a, d) = IF d <= a THEN a - d ELSE a - d + SIZE
  BY <1>1, Ring
<1>3. Minus(a, d) \in Addr
  BY <1>1, Ring
<1>4. Plus(d, Minus(a, d)) = IF d + Minus(a, d) < SIZE THEN d + Minus(a, d) ELSE d + Minus(a, d) - SIZE
  BY <1>1, <1>3, Ring
<1>5. SIZE \in Nat /\ a \in Nat /\ d \in Nat /\ a < SIZE /\ d < SIZE
  BY MemoryFunctionsAssumption DEF Addr
<1>6. CASE d <= a
  BY <1>2, <1>4, <1>5, <1>6, <1>3
<1>7. CASE ~(d <= a)
  BY <1>2, <1>4, <1>5, <1>7, <1>3
<1> QED
  BY <1>6, <1>7

\* The distance to an address is what was added.
LEMMA OffsetOf ==
    ASSUME NEW d \in Addr, NEW x \in Addr
    PROVE  Plus(d, x) \in Addr /\ Minus(Plus(d, x), d) = x
<1>1. Addr \subseteq 0 .. SIZE
  BY MemoryFunctionsAssumption DEF Addr
<1>2. Plus(d, x) \in Addr /\ Plus(d, x) = IF d + x < SIZE THEN d + x ELSE d + x - SIZE
  BY <1>1, Ring
<1>3. Minus(Plus(d, x), d) = IF d <= Plus(d, x) THEN Plus(d, x) - d ELSE Plus(d, x) - d + SIZE
  BY <1>1, <1>2, Ring
<1> QED
  BY <1>2, <1>3, MemoryFunctionsAssumption DEF Addr

\* Two steps along the addresses are one, and a step can be taken back.
LEMMA Along ==
    ASSUME NEW d \in Addr, NEW x \in Nat, NEW y \in Nat, x + y <= SIZE
    PROVE  /\ Plus(d, x) \in Addr /\ Plus(Plus(d, x), y) = Plus(d, x + y)
           /\ Plus(d, x + y) \in Addr /\ Minus(Plus(d, x + y), y) = Plus(d, x)
<1> USE MemoryFunctionsAssumption
<1>1. x \in 0 .. SIZE /\ y \in 0 .. SIZE /\ x + y \in 0 .. SIZE
  OBVIOUS
<1>2. Plus(d, x) \in Addr /\ Plus(d, x) = IF d + x < SIZE THEN d + x ELSE d + x - SIZE
  BY <1>1, Ring
<1>3. Plus(d, x + y) \in Addr
      /\ Plus(d, x + y) = IF d + (x + y) < SIZE THEN d + (x + y) ELSE d + (x + y) - SIZE
  BY <1>1, Ring
<1>4. Plus(Plus(d, x), y) = IF Plus(d, x) + y < SIZE THEN Plus(d, x) + y ELSE Plus(d, x) + y - SIZE
  BY <1>1, <1>2, Ring
<1>5. Minus(Plus(d, x + y), y)
        = IF y <= Plus(d, x + y) THEN Plus(d, x + y) - y ELSE Plus(d, x + y) - y + SIZE
  BY <1>1, <1>3, Ring
<1> QED
  BY <1>1, <1>2, <1>3, <1>4, <1>5 DEF Addr

\* Distances from a later address.
LEMMA Window ==
    ASSUME NEW a \in Addr, NEW d \in Addr, NEW x \in Nat, NEW n \in Nat, x + n <= SIZE
    PROVE  /\ Minus(a, Plus(d, x)) < n <=> x <= Minus(a, d) /\ Minus(a, d) < x + n
           /\ x <= Minus(a, d) => Minus(a, Plus(d, x)) = Minus(a, d) - x
           /\ Minus(a, Plus(d, x)) \in Addr
<1> USE MemoryFunctionsAssumption
<1>1. x \in 0 .. SIZE /\ d \in 0 .. SIZE
  BY DEF Addr
<1>2. Plus(d, x) \in Addr /\ Plus(d, x) = IF d + x < SIZE THEN d + x ELSE d + x - SIZE
  BY <1>1, Ring
<1>3. Minus(a, d) \in Addr /\ Minus(a, d) = IF d <= a THEN a - d ELSE a - d + SIZE
  BY <1>1, Ring
<1>4. Plus(d, x) \in 0 .. SIZE
  BY <1>2 DEF Addr
<1>5. /\ Minus(a, Plus(d, x)) = IF Plus(d, x) <= a THEN a - Plus(d, x) ELSE a - Plus(d, x) + SIZE
      /\ Minus(a, Plus(d, x)) \in Addr
  BY <1>4, Ring
<1> QED
  BY <1>1, <1>2, <1>3, <1>5 DEF Addr

\* The bytes at distances lo .. hi - 1 are those of the source.
Moved(B, d, s, lo, hi) ==
    [a \in Addr |-> IF lo <= Minus(a, d) /\ Minus(a, d) < hi THEN B[Plus(s, Minus(a, d))] ELSE B[a]]

Memory(B, W) == [b |-> B, words |-> W]

\* A word stored behind or in front of the bytes moved so far moves OPSIZ more.
LEMMA StoreWordMoves ==
    ASSUME NEW B, NEW W, NEW w, NEW d \in Addr, NEW s \in Addr,
           NEW lo \in Nat, NEW hi \in Nat, NEW x \in Nat, x + OPSIZ <= SIZE, lo <= hi,
           \A i \in 0 .. OPSIZ - 1 : w[i] = B[Plus(s, x + i)]
    PROVE  /\ x = hi => StoreWord(Memory(Moved(B, d, s, lo, hi), W), Plus(d, x), w)
                          = Memory(Moved(B, d, s, lo, hi + OPSIZ), W)
           /\ x + OPSIZ = lo => StoreWord(Memory(Moved(B, d, s, lo, hi), W), Plus(d, x), w)
                                  = Memory(Moved(B, d, s, x, hi), W)
<1>0. OPSIZ \in Nat /\ OPSIZ > 0 /\ SIZE \in Nat
  BY MemoryFunctionsAssumption
<1> DEFINE M == Moved(B, d, s, lo, hi)
           N == [a \in Addr |-> IF Minus(a, Plus(d, x)) < OPSIZ THEN w[Minus(a, Plus(d, x))] ELSE M[a]]
<1>1. StoreWord(Memory(M, W), Plus(d, x), w) = Memory(N, W)
  BY DEF StoreWord, Memory
<1>2. ASSUME NEW a \in Addr
      PROVE  /\ x = hi => N[a] = Moved(B, d, s, lo, hi + OPSIZ)[a]
             /\ x + OPSIZ = lo => N[a] = Moved(B, d, s, x, hi)[a]
  <2> DEFINE z == Minus(a, d)
             y == Minus(a, Plus(d, x))
  <2>1. z \in Nat /\ y \in Nat
    <3>1. z \in Addr /\ y \in Addr
      BY <1>0, <1>2, Offset, Window
    <3> QED
      BY <1>0, <3>1 DEF Addr
  <2>2. (y < OPSIZ <=> x <= z /\ z < x + OPSIZ) /\ (x <= z => y = z - x)
    BY <1>0, <1>2, Window
  <2>3. y < OPSIZ => w[y] = B[Plus(s, z)]
    <3>1. y < OPSIZ => y \in 0 .. OPSIZ - 1 /\ x + y = z
      BY <1>0, <2>1, <2>2
    <3> QED
      BY <3>1
  <2>4. N[a] = IF y < OPSIZ THEN w[y] ELSE M[a]
    BY <1>2
  <2>5. M[a] = IF lo <= z /\ z < hi THEN B[Plus(s, z)] ELSE B[a]
    BY <1>2 DEF Moved
  <2>6. /\ Moved(B, d, s, lo, hi + OPSIZ)[a] = IF lo <= z /\ z < hi + OPSIZ THEN B[Plus(s, z)] ELSE B[a]
        /\ Moved(B, d, s, x, hi)[a] = IF x <= z /\ z < hi THEN B[Plus(s, z)] ELSE B[a]
    BY <1>2 DEF Moved
  <2> HIDE DEF z, y, N, M
  <2> QED
    BY <1>0, <2>1, <2>2, <2>3, <2>4, <2>5, <2>6
<1>3. x = hi => N = Moved(B, d, s, lo, hi + OPSIZ)
  BY <1>2 DEF Moved
<1>4. x + OPSIZ = lo => N = Moved(B, d, s, x, hi)
  BY <1>2 DEF Moved
<1> QED
  BY <1>1, <1>3, <1>4

\* So does a byte.
LEMMA StoreByteMoves ==
    ASSUME NEW B, NEW W, NEW v, NEW d \in Addr, NEW s \in Addr,
           NEW lo \in Nat, NEW hi \in Nat, NEW x \in Nat, x < SIZE, lo <= hi, v = B[Plus(s, x)]
    PROVE  /\ x = hi => StoreByte(Memory(Moved(B, d, s, lo, hi), W), Plus(d, x), v)
                          = Memory(Moved(B, d, s, lo, hi + 1), W)
           /\ x + 1 = lo => StoreByte(Memory(Moved(B, d, s, lo, hi), W), Plus(d, x), v)
                              = Memory(Moved(B, d, s, x, hi), W)
<1>0. SIZE \in Nat /\ x \in Addr
  BY MemoryFunctionsAssumption DEF Addr
<1> DEFINE M == Moved(B, d, s, lo, hi)
           N == [a \in Addr |-> IF a = Plus(d, x) THEN v ELSE M[a]]
<1>1. StoreByte(Memory(M, W), Plus(d, x), v) = Memory(N, W)
  <2>1. [M EXCEPT ![Plus(d, x)] = v] = N
    BY DEF Moved
  <2>2. StoreByte(Memory(M, W), Plus(d, x), v)
          = Memory([M EXCEPT ![Plus(d, x)] = v], W)
    BY DEF StoreByte, Memory
  <2> QED
    BY <2>1, <2>2
<1>2. ASSUME NEW a \in Addr
      PROVE  /\ x = hi => N[a] = Moved(B, d, s, lo, hi + 1)[a]
             /\ x + 1 = lo => N[a] = Moved(B, d, s, x, hi)[a]
  <2> DEFINE z == Minus(a, d)
  <2>1. z \in Nat
    <3>1. z \in Addr
      BY <1>2, Offset
    <3> QED
      BY <1>0, <3>1 DEF Addr
  <2>2. a = Plus(d, x) <=> z = x
    BY <1>0, <1>2, Offset, OffsetOf
  <2>4. N[a] = IF a = Plus(d, x) THEN v ELSE M[a]
    BY <1>2
  <2>5. M[a] = IF lo <= z /\ z < hi THEN B[Plus(s, z)] ELSE B[a]
    BY <1>2 DEF Moved
  <2>6. /\ Moved(B, d, s, lo, hi + 1)[a] = IF lo <= z /\ z < hi + 1 THEN B[Plus(s, z)] ELSE B[a]
        /\ Moved(B, d, s, x, hi)[a] = IF x <= z /\ z < hi THEN B[Plus(s, z)] ELSE B[a]
    BY <1>2 DEF Moved
  <2> HIDE DEF z, N, M
  <2> QED
    BY <1>0, <2>1, <2>2, <2>4, <2>5, <2>6
<1>3. x = hi => N = Moved(B, d, s, lo, hi + 1)
  BY <1>2 DEF Moved
<1>4. x + 1 = lo => N = Moved(B, d, s, x, hi)
  BY <1>2 DEF Moved
<1> QED
  BY <1>1, <1>3, <1>4

\* A byte stored behind the bytes moved so far.
LEMMA StoreByteBehind ==
    ASSUME NEW B, NEW W, NEW d \in Addr, NEW s \in Addr,
           NEW lo \in Nat, NEW hi \in Nat, hi < SIZE, lo <= hi
    PROVE  StoreByte(Memory(Moved(B, d, s, lo, hi), W), Plus(d, hi), B[Plus(s, hi)])
             = Memory(Moved(B, d, s, lo, hi + 1), W)
  BY StoreByteMoves

\* A byte stored in front of them.
LEMMA StoreByteBefore ==
    ASSUME NEW B, NEW W, NEW d \in Addr, NEW s \in Addr,
           NEW x \in Nat, NEW hi \in Nat, x < SIZE, x + 1 <= hi
    PROVE  StoreByte(Memory(Moved(B, d, s, x + 1, hi), W), Plus(d, x), B[Plus(s, x)])
             = Memory(Moved(B, d, s, x, hi), W)
<1>1. x + 1 \in Nat
  OBVIOUS
<1> QED
  BY <1>1, StoreByteMoves

\* A word stored behind the bytes moved so far.
LEMMA StoreWordBehind ==
    ASSUME NEW B, NEW W, NEW w, NEW d \in Addr, NEW s \in Addr,
           NEW lo \in Nat, NEW hi \in Nat, hi + OPSIZ <= SIZE, lo <= hi,
           \A i \in 0 .. OPSIZ - 1 : w[i] = B[Plus(s, hi + i)]
    PROVE  StoreWord(Memory(Moved(B, d, s, lo, hi), W), Plus(d, hi), w)
             = Memory(Moved(B, d, s, lo, hi + OPSIZ), W)
  BY StoreWordMoves

\* A word stored in front of them.
LEMMA StoreWordBefore ==
    ASSUME NEW B, NEW W, NEW w, NEW d \in Addr, NEW s \in Addr,
           NEW x \in Nat, NEW hi \in Nat, x + OPSIZ <= SIZE, x + OPSIZ <= hi,
           \A i \in 0 .. OPSIZ - 1 : w[i] = B[Plus(s, x + i)]
    PROVE  StoreWord(Memory(Moved(B, d, s, x + OPSIZ, hi), W), Plus(d, x), w)
             = Memory(Moved(B, d, s, x, hi), W)
<1>1. x + OPSIZ \in Nat
  BY MemoryFunctionsAssumption
<1> QED
  BY <1>1, StoreWordMoves

-----------------------------------------------------------------------------
(* Copying bytes *)

\* A copy of L bytes from the front, or from the end, overwrites no byte of the
\* source that it has still to read.
FwdSafe(d, s, L) == \A i, j \in 0 .. L - 1 : j < i => Plus(s, i) # Plus(d, j)
BwdSafe(d, s, L) == \A i, j \in 0 .. L - 1 : i < j => Plus(s, i) # Plus(d, j)

\* The next bytes of the source are still what they were.
LEMMA SourceKept ==
    ASSUME NEW B, NEW d \in Addr, NEW s \in Addr, NEW L \in Nat, L <= SIZE,
           NEW k \in Nat, k <= L, NEW x \in Nat, x < L
    PROVE  /\ FwdSafe(d, s, L) /\ k <= x => Moved(B, d, s, 0, k)[Plus(s, x)] = B[Plus(s, x)]
           /\ BwdSafe(d, s, L) /\ x < k => Moved(B, d, s, k, L)[Plus(s, x)] = B[Plus(s, x)]
<1>0. SIZE \in Nat /\ x \in Addr
  BY MemoryFunctionsAssumption DEF Addr
<1> DEFINE a == Plus(s, x)
           j == Minus(a, d)
<1>1. a \in Addr
  BY <1>0, OffsetOf
<1>2. j \in Addr /\ Plus(d, j) = a
  BY <1>1, Offset
<1>3. j \in Nat
  BY <1>0, <1>2 DEF Addr
<1>4. /\ Moved(B, d, s, 0, k)[a] = IF 0 <= j /\ j < k THEN B[Plus(s, j)] ELSE B[a]
      /\ Moved(B, d, s, k, L)[a] = IF k <= j /\ j < L THEN B[Plus(s, j)] ELSE B[a]
  BY <1>1 DEF Moved
<1> HIDE DEF j
<1>5. ASSUME FwdSafe(d, s, L), k <= x, j < k PROVE FALSE
  <2>1. j \in 0 .. L - 1 /\ x \in 0 .. L - 1 /\ j < x
    BY <1>3, <1>5
  <2> QED
    BY <1>2, <1>5, <2>1 DEF FwdSafe
<1>6. ASSUME BwdSafe(d, s, L), x < k, k <= j, j < L PROVE FALSE
  <2>1. j \in 0 .. L - 1 /\ x \in 0 .. L - 1 /\ x < j
    BY <1>3, <1>6
  <2> QED
    BY <1>2, <1>6, <2>1 DEF BwdSafe
<1> QED
  BY <1>4, <1>5, <1>6

\* BYTE_COPY_FWD copies the next n bytes.
LEMMA ByteFwd ==
    ASSUME NEW B, NEW W, NEW d \in Addr, NEW s \in Addr, NEW x \in Nat, NEW n \in Nat,
           x + n <= SIZE, FwdSafe(d, s, x + n)
    PROVE  BYTE_COPY_FWD(Memory(Moved(B, d, s, 0, x), W), Plus(d, x), Plus(s, x), n)
             = Memory(Moved(B, d, s, 0, x + n), W)
<1> DEFINE L == x + n
<1>0. SIZE \in Nat /\ n \in Nat
  BY MemoryFunctionsAssumption
<1> DEFINE m == Memory(Moved(B, d, s, 0, x), W)
           Turn(now, k) == StoreByte(now, Plus(Plus(d, x), k - 1), now.b[Plus(Plus(s, x), k - 1)])
           g == [k \in 0 .. n |-> Memory(Moved(B, d, s, 0, x + k), W)]
           f == CHOOSE f : f = [k \in 0 .. n |-> IF k = 0 THEN m ELSE Turn(f[k - 1], k)]
<1>1. ASSUME NEW k \in 1 .. n PROVE Turn(g[k - 1], k) = g[k]
  <2> DEFINE y == x + (k - 1)
  <2>0. L \in Nat /\ L <= SIZE /\ FwdSafe(d, s, L)
    OBVIOUS
  <2>1. /\ k - 1 \in Nat /\ k - 1 \in 0 .. n /\ y \in Nat /\ y < L /\ y < SIZE /\ x + (k - 1) <= SIZE
        /\ y + 1 = x + k /\ k \in 0 .. n /\ 0 \in Nat /\ y <= L /\ 0 <= y
    BY <1>0, <1>1, <2>0
  <2>2. g[k - 1] = Memory(Moved(B, d, s, 0, y), W) /\ g[k] = Memory(Moved(B, d, s, 0, y + 1), W)
    BY <2>1
  <2>3. Plus(Plus(d, x), k - 1) = Plus(d, y) /\ Plus(Plus(s, x), k - 1) = Plus(s, y)
    BY <2>1, Along
  <2>4. Moved(B, d, s, 0, y)[Plus(s, y)] = B[Plus(s, y)]
    <3> HIDE DEF y, L
    <3> QED
      BY <2>0, <2>1, SourceKept
  <2>5. g[k - 1].b[Plus(s, y)] = B[Plus(s, y)]
    BY <2>2, <2>4 DEF Memory
  <2>6. StoreByte(g[k - 1], Plus(d, y), B[Plus(s, y)]) = g[k]
    <3> HIDE DEF y, g
    <3>1. StoreByte(Memory(Moved(B, d, s, 0, y), W), Plus(d, y), B[Plus(s, y)])
            = Memory(Moved(B, d, s, 0, y + 1), W)
      BY <2>1, StoreByteBehind
    <3> QED
      BY <2>2, <3>1
  <2> QED
    BY <2>3, <2>5, <2>6
<1>2. g[0] = m
  <2>1. x + 0 = x /\ 0 \in 0 .. n
    OBVIOUS
  <2> QED
    BY <2>1
<1>3. g = [k \in 0 .. n |-> IF k = 0 THEN m ELSE Turn(g[k - 1], k)]
  <2>1. ASSUME NEW k \in 0 .. n PROVE g[k] = IF k = 0 THEN m ELSE Turn(g[k - 1], k)
    <3>1. k # 0 => k \in 1 .. n
      BY <1>0
    <3> HIDE DEF g, Turn, m
    <3> QED
      BY <1>1, <1>2, <3>1
  <2> DEFINE h == [k \in 0 .. n |-> IF k = 0 THEN m ELSE Turn(g[k - 1], k)]
  <2>2. \A k \in 0 .. n : h[k] = g[k]
    <3> HIDE DEF g, Turn, m
    <3> QED
      BY <2>1
  <2>3. g = [k \in 0 .. n |-> g[k]] /\ h = [k \in 0 .. n |-> h[k]]
    <3> HIDE DEF Turn, m
    <3> QED
      OBVIOUS
  <2> HIDE DEF h, g
  <2>4. g = h
    BY <2>2, <2>3
  <2> QED
    BY <2>4 DEF h
<1>4. f = [k \in 0 .. n |-> IF k = 0 THEN m ELSE Turn(f[k - 1], k)]
  <2> HIDE DEF g, Turn, m
  <2> QED
    BY <1>3
<1>5. f[0] = g[0] /\ \A k \in 1 .. n : f[k - 1] = g[k - 1] => f[k] = g[k]
  <2> HIDE DEF f, g, Turn, m
  <2>0. 0 \in 0 .. n /\ \A k \in 1 .. n : k \in 0 .. n /\ k # 0
    BY <1>0
  <2>1. f[0] = m
    BY <1>4, <2>0
  <2>2. \A k \in 1 .. n : f[k] = Turn(f[k - 1], k)
    BY <1>4, <2>0
  <2> QED
    BY <1>1, <1>2, <2>1, <2>2
<1>6. f[n] = g[n]
  <2> HIDE DEF f, g
  <2>1. n \in Nat /\ n \in 0 .. n
    BY <1>0
  <2>2. \A k \in 0 .. n : f[k] = g[k]
    BY <1>5, <2>1, LoopIs
  <2> QED
    BY <2>1, <2>2
<1>7. BYTE_COPY_FWD(m, Plus(d, x), Plus(s, x), n) = f[n]
  BY DEF BYTE_COPY_FWD, Loop
<1> QED
  BY <1>6, <1>7

\* BYTE_COPY_BWD copies the n bytes in front of the ones copied.
LEMMA ByteBwd ==
    ASSUME NEW B, NEW W, NEW d \in Addr, NEW s \in Addr, NEW L \in Nat, L <= SIZE,
           BwdSafe(d, s, L), NEW x \in Nat, NEW n \in Nat, n <= x, x <= L
    PROVE  BYTE_COPY_BWD(Memory(Moved(B, d, s, x, L), W), Plus(d, x), Plus(s, x), n)
             = Memory(Moved(B, d, s, x - n, L), W)
<1>0. SIZE \in Nat /\ n \in Nat
  BY MemoryFunctionsAssumption
<1> DEFINE m == Memory(Moved(B, d, s, x, L), W)
           Turn(now, k) == StoreByte(now, Minus(Plus(d, x), k), now.b[Minus(Plus(s, x), k)])
           g == [k \in 0 .. n |-> Memory(Moved(B, d, s, x - k, L), W)]
           f == CHOOSE f : f = [k \in 0 .. n |-> IF k = 0 THEN m ELSE Turn(f[k - 1], k)]
<1>1. ASSUME NEW k \in 1 .. n PROVE Turn(g[k - 1], k) = g[k]
  <2> DEFINE y == x - k
  <2>1. /\ k - 1 \in 0 .. n /\ y \in Nat /\ y < L /\ y < SIZE /\ y + k = x /\ k \in Nat /\ y + k <= SIZE
        /\ y + 1 = x - (k - 1) /\ k \in 0 .. n /\ y + 1 <= L /\ y + 1 \in Nat
    BY <1>0, <1>1
  <2>2. g[k - 1] = Memory(Moved(B, d, s, y + 1, L), W) /\ g[k] = Memory(Moved(B, d, s, y, L), W)
    BY <2>1
  <2>3. Minus(Plus(d, x), k) = Plus(d, y) /\ Minus(Plus(s, x), k) = Plus(s, y)
    <3> HIDE DEF y
    <3>1. Minus(Plus(d, y + k), k) = Plus(d, y) /\ Minus(Plus(s, y + k), k) = Plus(s, y)
      BY <2>1, Along
    <3> QED
      BY <2>1, <3>1
  <2>4. Moved(B, d, s, y + 1, L)[Plus(s, y)] = B[Plus(s, y)]
    <3> HIDE DEF y
    <3> QED
      BY <2>1, SourceKept
  <2>5. g[k - 1].b[Plus(s, y)] = B[Plus(s, y)]
    BY <2>2, <2>4 DEF Memory
  <2>6. StoreByte(g[k - 1], Plus(d, y), B[Plus(s, y)]) = g[k]
    <3> HIDE DEF y, g
    <3>1. StoreByte(Memory(Moved(B, d, s, y + 1, L), W), Plus(d, y), B[Plus(s, y)])
            = Memory(Moved(B, d, s, y, L), W)
      BY <2>1, StoreByteBefore
    <3> QED
      BY <2>2, <3>1
  <2> QED
    BY <2>3, <2>5, <2>6
<1>2. g[0] = m
  <2>1. x - 0 = x /\ 0 \in 0 .. n
    OBVIOUS
  <2> QED
    BY <2>1
<1>3. g = [k \in 0 .. n |-> IF k = 0 THEN m ELSE Turn(g[k - 1], k)]
  <2>1. ASSUME NEW k \in 0 .. n PROVE g[k] = IF k = 0 THEN m ELSE Turn(g[k - 1], k)
    <3>1. k # 0 => k \in 1 .. n
      BY <1>0
    <3> HIDE DEF g, Turn, m
    <3> QED
      BY <1>1, <1>2, <3>1
  <2> DEFINE h == [k \in 0 .. n |-> IF k = 0 THEN m ELSE Turn(g[k - 1], k)]
  <2>2. \A k \in 0 .. n : h[k] = g[k]
    <3> HIDE DEF g, Turn, m
    <3> QED
      BY <2>1
  <2>3. g = [k \in 0 .. n |-> g[k]] /\ h = [k \in 0 .. n |-> h[k]]
    <3> HIDE DEF Turn, m
    <3> QED
      OBVIOUS
  <2> HIDE DEF h, g
  <2>4. g = h
    BY <2>2, <2>3
  <2> QED
    BY <2>4 DEF h
<1>4. f = [k \in 0 .. n |-> IF k = 0 THEN m ELSE Turn(f[k - 1], k)]
  <2> HIDE DEF g, Turn, m
  <2> QED
    BY <1>3
<1>5. f[0] = g[0] /\ \A k \in 1 .. n : f[k - 1] = g[k - 1] => f[k] = g[k]
  <2> HIDE DEF f, g, Turn, m
  <2>0. 0 \in 0 .. n /\ \A k \in 1 .. n : k \in 0 .. n /\ k # 0
    BY <1>0
  <2>1. f[0] = m
    BY <1>4, <2>0
  <2>2. \A k \in 1 .. n : f[k] = Turn(f[k - 1], k)
    BY <1>4, <2>0
  <2> QED
    BY <1>1, <1>2, <2>1, <2>2
<1>6. f[n] = g[n]
  <2> HIDE DEF f, g
  <2>1. n \in Nat /\ n \in 0 .. n
    BY <1>0
  <2>2. \A k \in 0 .. n : f[k] = g[k]
    BY <1>5, <2>1, LoopIs
  <2> QED
    BY <2>1, <2>2
<1>7. BYTE_COPY_BWD(m, Plus(d, x), Plus(s, x), n) = f[n]
  BY DEF BYTE_COPY_BWD, Loop
<1>8. g[n] = Memory(Moved(B, d, s, x - n, L), W)
  BY <1>0
<1> QED
  BY <1>6, <1>7, <1>8

-----------------------------------------------------------------------------
(* Copying words *)

\* The bytes of a word of the source.
LEMMA WordReads ==
    ASSUME NEW M, NEW W, NEW s \in Addr, NEW z \in Nat, z + OPSIZ <= SIZE, NEW i \in 0 .. OPSIZ - 1
    PROVE  Word(Memory(M, W), Plus(s, z))[i] = M[Plus(s, z + i)]
<1>1. OPSIZ \in Nat /\ SIZE \in Nat /\ i \in Nat /\ z + i <= SIZE
  BY MemoryFunctionsAssumption
<1>2. Plus(Plus(s, z), i) = Plus(s, z + i)
  BY <1>1, Along
<1> QED
  BY <1>2 DEF Word, Memory

\* A word of the source that has still to be copied, in either direction.
LEMMA WordKeptFwd ==
    ASSUME NEW B, NEW W, NEW d \in Addr, NEW s \in Addr, NEW L \in Nat, L <= SIZE, FwdSafe(d, s, L),
           NEW k \in Nat, k <= L, NEW z \in Nat, z + OPSIZ <= L, k <= z
    PROVE  \A i \in 0 .. OPSIZ - 1 :
             Word(Memory(Moved(B, d, s, 0, k), W), Plus(s, z))[i] = B[Plus(s, z + i)]
<1> TAKE i \in 0 .. OPSIZ - 1
<1>1. OPSIZ \in Nat /\ SIZE \in Nat
  BY MemoryFunctionsAssumption
<1>2. z + i \in Nat /\ z + i < L /\ k <= z + i /\ z + OPSIZ <= SIZE
  BY <1>1
<1>3. Word(Memory(Moved(B, d, s, 0, k), W), Plus(s, z))[i] = Moved(B, d, s, 0, k)[Plus(s, z + i)]
  BY <1>2, WordReads
<1>4. Moved(B, d, s, 0, k)[Plus(s, z + i)] = B[Plus(s, z + i)]
  BY <1>2, SourceKept
<1> QED
  BY <1>3, <1>4

\* The same from the end.
LEMMA WordKeptBwd ==
    ASSUME NEW B, NEW W, NEW d \in Addr, NEW s \in Addr, NEW L \in Nat, L <= SIZE, BwdSafe(d, s, L),
           NEW k \in Nat, k <= L, NEW z \in Nat, z + OPSIZ <= L, z + OPSIZ <= k
    PROVE  \A i \in 0 .. OPSIZ - 1 :
             Word(Memory(Moved(B, d, s, k, L), W), Plus(s, z))[i] = B[Plus(s, z + i)]
<1> TAKE i \in 0 .. OPSIZ - 1
<1>1. OPSIZ \in Nat /\ SIZE \in Nat
  BY MemoryFunctionsAssumption
<1>2. z + i \in Nat /\ z + i < L /\ z + i < k /\ z + OPSIZ <= SIZE
  BY <1>1
<1>3. Word(Memory(Moved(B, d, s, k, L), W), Plus(s, z))[i] = Moved(B, d, s, k, L)[Plus(s, z + i)]
  BY <1>2, WordReads
<1>4. Moved(B, d, s, k, L)[Plus(s, z + i)] = B[Plus(s, z + i)]
  BY <1>2, SourceKept
<1> QED
  BY <1>3, <1>4

\* The next word to be copied, in either direction.
LEMMA NextWordFwd ==
    ASSUME NEW B, NEW W, NEW d \in Addr, NEW s \in Addr, NEW L \in Nat, L <= SIZE, FwdSafe(d, s, L),
           NEW k \in Nat, k + OPSIZ <= L
    PROVE  \A i \in 0 .. OPSIZ - 1 :
             Word(Memory(Moved(B, d, s, 0, k), W), Plus(s, k))[i] = B[Plus(s, k + i)]
<1>1. k <= L /\ k <= k
  BY MemoryFunctionsAssumption
<1> QED
  BY <1>1, WordKeptFwd

\* The same from the end.
LEMMA NextWordBwd ==
    ASSUME NEW B, NEW W, NEW d \in Addr, NEW s \in Addr, NEW L \in Nat, L <= SIZE, BwdSafe(d, s, L),
           NEW z \in Nat, z + OPSIZ <= L
    PROVE  \A i \in 0 .. OPSIZ - 1 :
             Word(Memory(Moved(B, d, s, z + OPSIZ, L), W), Plus(s, z))[i] = B[Plus(s, z + i)]
<1>1. z + OPSIZ \in Nat /\ z + OPSIZ <= z + OPSIZ
  BY MemoryFunctionsAssumption
<1> QED
  BY <1>1, WordKeptBwd

\* The bytes of a word that may pass the ends of the source.
LEMMA WordByte ==
    ASSUME NEW M, NEW W, NEW r \in Addr, NEW u \in Nat, NEW j \in 0 .. OPSIZ - 1, u + j <= SIZE
    PROVE  Word(Memory(M, W), Plus(r, u))[j] = M[Plus(r, u + j)]
<1>1. OPSIZ \in Nat /\ SIZE \in Nat /\ j \in Nat
  BY MemoryFunctionsAssumption
<1>2. Plus(Plus(r, u), j) = Plus(r, u + j)
  BY <1>1, Along
<1> QED
  BY <1>2 DEF Word, Memory

\* Two ways to one address stay together.
LEMMA Together ==
    ASSUME NEW r \in Addr, NEW s \in Addr, NEW off \in Nat, NEW v \in Nat, Plus(r, off) = Plus(s, v),
           NEW z \in Nat, off + z <= SIZE, v + z <= SIZE
    PROVE  Plus(r, off + z) = Plus(s, v + z)
<1>1. Plus(Plus(r, off), z) = Plus(r, off + z)
  BY Along
<1>2. Plus(Plus(s, v), z) = Plus(s, v + z)
  BY Along
<1> QED
  BY <1>1, <1>2

\* The pairs of words of the loops that copy two at a time.
LEMMA PairsAre ==
    ASSUME NEW n \in Nat, n >= 2, n % 2 = 0, n * OPSIZ < SIZE
    PROVE  /\ Pairs(n) \in Nat /\ 2 * Pairs(n) = n
           /\ n * OPSIZ \in Nat /\ Before(Pairs(n) + 1) = n * OPSIZ /\ Before(1) = 0
           /\ \A k \in 1 .. Pairs(n) :
                /\ Before(k) \in Nat /\ Before(k + 1) = Before(k) + 2 * OPSIZ
                /\ Before(k) + 2 * OPSIZ <= n * OPSIZ
                /\ Before(k) = (2 * k - 2) * OPSIZ
                /\ Before(k) + OPSIZ = (2 * k - 1) * OPSIZ
                /\ Before(k) + 2 * OPSIZ = (2 * k) * OPSIZ
<1>1. OPSIZ \in Nat /\ OPSIZ >= 1 /\ SIZE \in Nat
  BY MemoryFunctionsAssumption
<1>2. n <= n * OPSIZ /\ n * OPSIZ \in Nat
  BY <1>1
<1>3. n \in Addr /\ 2 \in 0 .. SIZE
  BY <1>1, <1>2 DEF Addr
<1>4. Minus(n, 2) = n - 2
  BY <1>3, Ring
<1>5. Pairs(n) \in Nat /\ 2 * Pairs(n) = n
  BY <1>4 DEF Pairs
<1>6. ASSUME NEW p \in Nat, 2 * p = n
      PROVE  2 * ((p + 1) - 1) * OPSIZ = n * OPSIZ /\ 2 * (1 - 1) * OPSIZ = 0
  <2>1. (p + 1) - 1 = p
    OBVIOUS
  <2> QED
    BY <1>1, <1>6, <2>1
<1>7. ASSUME NEW p \in Nat, 2 * p = n, NEW k \in 1 .. p
      PROVE  /\ 2 * (k - 1) * OPSIZ \in Nat
             /\ 2 * ((k + 1) - 1) * OPSIZ = 2 * (k - 1) * OPSIZ + 2 * OPSIZ
             /\ 2 * (k - 1) * OPSIZ + 2 * OPSIZ <= n * OPSIZ
             /\ 2 * (k - 1) * OPSIZ = (2 * k - 2) * OPSIZ
             /\ 2 * (k - 1) * OPSIZ + OPSIZ = (2 * k - 1) * OPSIZ
             /\ 2 * (k - 1) * OPSIZ + 2 * OPSIZ = (2 * k) * OPSIZ
  <2>1. k - 1 \in Nat /\ k \in Nat /\ k <= p
    BY <1>7
  <2>2. (k - 1) * OPSIZ \in Nat
    BY <1>1, <2>1
  <2>3. 2 * (k - 1) * OPSIZ = 2 * ((k - 1) * OPSIZ)
    BY <1>1, <2>1
  <2>4. (k - 1) * OPSIZ = k * OPSIZ - OPSIZ
    BY <1>1, <2>1
  <2>5. k * OPSIZ <= p * OPSIZ
    <3>1. p = k + (p - k) /\ p - k \in Nat
      BY <1>7, <2>1
    <3>2. p * OPSIZ = k * OPSIZ + (p - k) * OPSIZ
      BY <1>1, <2>1, <3>1
    <3>3. (p - k) * OPSIZ \in Nat
      BY <1>1, <3>1
    <3> QED
      BY <1>1, <2>1, <3>2, <3>3
  <2>6. n * OPSIZ = 2 * (p * OPSIZ)
    BY <1>1, <1>7
  <2>7. 2 * ((k + 1) - 1) * OPSIZ = 2 * (k * OPSIZ)
    <3>1. (k + 1) - 1 = k
      BY <2>1
    <3> QED
      BY <1>1, <2>1, <3>1
  <2>8. /\ (2 * k - 2) * OPSIZ = 2 * (k * OPSIZ) - 2 * OPSIZ
        /\ (2 * k - 1) * OPSIZ = 2 * (k * OPSIZ) - OPSIZ
        /\ (2 * k) * OPSIZ = 2 * (k * OPSIZ)
    BY <1>1, <2>1
  <2>9. k * OPSIZ \in Int /\ p * OPSIZ \in Int
    BY <1>1, <2>1
  <2> QED
    BY <1>1, <2>2, <2>3, <2>4, <2>5, <2>6, <2>7, <2>8, <2>9
<1> QED
  BY <1>2, <1>5, <1>6, <1>7 DEF Before

\* The words lo .. hi from an address on, and in front of it.
WordsFrom(e, lo, hi) == {Plus(e, j * OPSIZ) : j \in lo .. hi}
WordsBefore(e, lo, hi) == {Minus(e, j * OPSIZ) : j \in lo .. hi}

\* A pair more of words.
LEMMA WordsGrowFrom ==
    ASSUME NEW e, NEW W, NEW k \in Nat, k >= 1
    PROVE  (W \cup WordsFrom(e, 1, 2 * k - 2))
             \cup {Plus(e, (2 * k - 1) * OPSIZ), Plus(e, (2 * k) * OPSIZ)}
             = W \cup WordsFrom(e, 1, 2 * k)
<1>1. 1 .. (2 * k) = (1 .. (2 * k - 2)) \cup {2 * k - 1, 2 * k}
  OBVIOUS
<1> QED
  BY <1>1 DEF WordsFrom

\* A pair more of words in front of an address.
LEMMA WordsGrowBefore ==
    ASSUME NEW e, NEW W, NEW k \in Nat, k >= 1
    PROVE  (W \cup WordsBefore(e, 1, 2 * k - 2))
             \cup {Minus(e, (2 * k) * OPSIZ), Minus(e, (2 * k - 1) * OPSIZ)}
             = W \cup WordsBefore(e, 1, 2 * k)
<1>1. 1 .. (2 * k) = (1 .. (2 * k - 2)) \cup {2 * k - 1, 2 * k}
  OBVIOUS
<1> QED
  BY <1>1 DEF WordsBefore

\* Two more words have been read from a memory.
LEMMA ReadingIs ==
    ASSUME NEW M, NEW W, NEW R
    PROVE  Reading(Memory(M, W), R) = Memory(M, W \cup R)
  BY DEF Reading, Memory

\* The pairs of _wordcopy_fwd_aligned() copy n words.
LEMMA FwdAlignedPairsCopy ==
    ASSUME NEW B, NEW W, NEW d \in Addr, NEW s \in Addr, NEW L \in Nat, L + OPSIZ <= SIZE,
           FwdSafe(d, s, L), NEW x \in Nat, NEW n \in Nat, n >= 2, n % 2 = 0, x + n * OPSIZ <= L
    PROVE  FwdAlignedPairs(Memory(Moved(B, d, s, 0, x), W), Plus(d, x), Plus(s, x), n)
             = Memory(Moved(B, d, s, 0, x + n * OPSIZ), W \cup WordsFrom(Plus(s, x), 0, n - 1))
<1>a. OPSIZ \in Nat /\ OPSIZ >= 1 /\ SIZE \in Nat /\ L <= SIZE /\ L < SIZE /\ n * OPSIZ \in Nat
  BY MemoryFunctionsAssumption
<1>b. n * OPSIZ < SIZE
  BY <1>a
<1> DEFINE p == Pairs(n)
<1>0. p \in Nat /\ 2 * p = n
  BY <1>b, PairsAre
<1> DEFINE
           e == Plus(s, x)
           m == Memory(Moved(B, d, s, 0, x), W)
           Turn(now, k) ==
             LET at == Before(k)
                 s0 == Plus(e, at)
                 s1 == Plus(e, at + OPSIZ)
                 m1 == StoreWord(Reading(now, {s0, s1}), Plus(Plus(d, x), at), Word(now, s0))
             IN  StoreWord(m1, Plus(Plus(d, x), at + OPSIZ), Word(now, s1))
           g == [k \in 0 .. p |-> Memory(Moved(B, d, s, 0, x + Before(k + 1)),
                                        W \cup WordsFrom(e, 0, 2 * k - 1))]
           f == CHOOSE f : f = [k \in 0 .. p |-> IF k = 0 THEN m ELSE Turn(f[k - 1], k)]
<1>1. ASSUME NEW k \in 1 .. p PROVE Turn(g[k - 1], k) = g[k]
  <2> DEFINE at == Before(k)
             y == x + at
             V == W \cup WordsFrom(e, 0, 2 * k - 3)
             U == W \cup WordsFrom(e, 0, 2 * k - 1)
             now == Memory(Moved(B, d, s, 0, y), V)
  <2>1. /\ at \in Nat /\ Before(k + 1) = at + 2 * OPSIZ /\ at + 2 * OPSIZ <= n * OPSIZ
        /\ at = (2 * k - 2) * OPSIZ /\ at + OPSIZ = (2 * k - 1) * OPSIZ
    BY <1>b, PairsAre
  <2>2. k \in 0 .. p /\ k - 1 \in 0 .. p /\ (k - 1) + 1 = k /\ 2 * (k - 1) - 1 = 2 * k - 3
    BY <1>0
  <2>3. g[k - 1] = now /\ g[k] = Memory(Moved(B, d, s, 0, x + (at + 2 * OPSIZ)), U)
    BY <2>1, <2>2
  <2> HIDE DEF g, at
  <2>4. /\ y \in Nat /\ y + OPSIZ \in Nat /\ y + 2 * OPSIZ <= L /\ y + OPSIZ <= SIZE
        /\ (y + OPSIZ) + OPSIZ <= SIZE /\ (y + OPSIZ) + OPSIZ <= L /\ y + OPSIZ <= L /\ y <= L
        /\ (y + OPSIZ) + OPSIZ = x + (at + 2 * OPSIZ) /\ x + (at + OPSIZ) = y + OPSIZ
        /\ at + OPSIZ \in Nat /\ y <= y + OPSIZ /\ x + at <= SIZE /\ x + (at + OPSIZ) <= SIZE
        /\ 0 <= y /\ 0 <= y + OPSIZ
    BY <1>a, <2>1
  <2>5. /\ Plus(e, at) = Plus(s, y) /\ Plus(e, at + OPSIZ) = Plus(s, y + OPSIZ)
        /\ Plus(Plus(d, x), at) = Plus(d, y) /\ Plus(Plus(d, x), at + OPSIZ) = Plus(d, y + OPSIZ)
    <3>1. /\ Plus(Plus(s, x), at) = Plus(s, x + at) /\ Plus(Plus(d, x), at) = Plus(d, x + at)
      BY <2>1, <2>4, Along
    <3>2. /\ Plus(Plus(s, x), at + OPSIZ) = Plus(s, x + (at + OPSIZ))
          /\ Plus(Plus(d, x), at + OPSIZ) = Plus(d, x + (at + OPSIZ))
      BY <2>1, <2>4, Along
    <3> QED
      BY <2>4, <3>1, <3>2
  <2>6. V \cup {Plus(e, at), Plus(e, at + OPSIZ)} = U
    <3>1. WordsFrom(e, 0, 2 * k - 1)
            = WordsFrom(e, 0, 2 * k - 3) \cup {Plus(e, (2 * k - 2) * OPSIZ), Plus(e, (2 * k - 1) * OPSIZ)}
      <4>1. 0 .. (2 * k - 1) = (0 .. (2 * k - 3)) \cup {2 * k - 2, 2 * k - 1}
        BY <1>0
      <4> QED
        BY <4>1 DEF WordsFrom
    <3> QED
      BY <2>1, <3>1
  <2> HIDE DEF y, U, V, e
  <2>7. Reading(now, {Plus(e, at), Plus(e, at + OPSIZ)}) = Memory(Moved(B, d, s, 0, y), U)
    BY <2>6, ReadingIs
  <2>8. \A i \in 0 .. OPSIZ - 1 : /\ Word(now, Plus(s, y))[i] = B[Plus(s, y + i)]
                                 /\ Word(now, Plus(s, y + OPSIZ))[i] = B[Plus(s, (y + OPSIZ) + i)]
    <3>1. \A i \in 0 .. OPSIZ - 1 : Word(now, Plus(s, y))[i] = B[Plus(s, y + i)]
      BY <1>a, <2>4, WordKeptFwd
    <3>2. \A i \in 0 .. OPSIZ - 1 : Word(now, Plus(s, y + OPSIZ))[i] = B[Plus(s, (y + OPSIZ) + i)]
      BY <1>a, <2>4, WordKeptFwd
    <3> QED
      BY <3>1, <3>2
  <2> HIDE DEF now
  <2>9. StoreWord(Memory(Moved(B, d, s, 0, y), U), Plus(d, y), Word(now, Plus(s, y)))
          = Memory(Moved(B, d, s, 0, y + OPSIZ), U)
    BY <2>4, <2>8, StoreWordBehind
  <2>10. StoreWord(Memory(Moved(B, d, s, 0, y + OPSIZ), U), Plus(d, y + OPSIZ), Word(now, Plus(s, y + OPSIZ)))
          = Memory(Moved(B, d, s, 0, (y + OPSIZ) + OPSIZ), U)
    BY <2>4, <2>8, StoreWordBehind
  <2> QED
    BY <2>3, <2>4, <2>5, <2>7, <2>9, <2>10 DEF at
<1>2. g[0] = m
  <2>1. 0 \in 0 .. p /\ 0 .. (2 * 0 - 1) = {} /\ 0 + 1 = 1
    BY <1>0
  <2>2. WordsFrom(e, 0, 2 * 0 - 1) = {}
    BY <2>1 DEF WordsFrom
  <2>3. Before(1) = 0 /\ x + 0 = x
    BY <1>b, PairsAre
  <2>4. g[0] = Memory(Moved(B, d, s, 0, x + Before(0 + 1)), W \cup WordsFrom(e, 0, 2 * 0 - 1))
    BY <2>1
  <2> HIDE DEF e, g
  <2> QED
    BY <2>1, <2>2, <2>3, <2>4
<1>3. g = [k \in 0 .. p |-> IF k = 0 THEN m ELSE Turn(g[k - 1], k)]
  <2>1. ASSUME NEW k \in 0 .. p PROVE g[k] = IF k = 0 THEN m ELSE Turn(g[k - 1], k)
    <3>1. k # 0 => k \in 1 .. p
      BY <1>0
    <3> HIDE DEF p, g, Turn, m
    <3> QED
      BY <1>1, <1>2, <3>1
  <2> DEFINE h == [k \in 0 .. p |-> IF k = 0 THEN m ELSE Turn(g[k - 1], k)]
  <2>2. \A k \in 0 .. p : h[k] = g[k]
    <3> HIDE DEF p, g, Turn, m
    <3> QED
      BY <2>1
  <2>3. g = [k \in 0 .. p |-> g[k]] /\ h = [k \in 0 .. p |-> h[k]]
    <3> HIDE DEF Turn, m
    <3> QED
      OBVIOUS
  <2> HIDE DEF h, g, p
  <2>4. g = h
    BY <2>2, <2>3
  <2> QED
    BY <2>4 DEF h
<1>4. f = [k \in 0 .. p |-> IF k = 0 THEN m ELSE Turn(f[k - 1], k)]
  <2> HIDE DEF p, g, Turn, m
  <2> QED
    BY <1>3
<1>5. f[0] = g[0] /\ \A k \in 1 .. p : f[k - 1] = g[k - 1] => f[k] = g[k]
  <2> HIDE DEF f, p, g, Turn, m
  <2>0. 0 \in 0 .. p /\ \A k \in 1 .. p : k \in 0 .. p /\ k # 0
    BY <1>0
  <2>1. f[0] = m
    BY <1>4, <2>0
  <2>2. \A k \in 1 .. p : f[k] = Turn(f[k - 1], k)
    BY <1>4, <2>0
  <2> QED
    BY <1>1, <1>2, <2>1, <2>2
<1>6. f[p] = g[p]
  <2> HIDE DEF f, g, p
  <2>1. p \in Nat /\ p \in 0 .. p
    BY <1>0
  <2>2. \A k \in 0 .. p : f[k] = g[k]
    BY <1>5, <2>1, LoopIs
  <2> QED
    BY <2>1, <2>2
<1>7. FwdAlignedPairs(m, Plus(d, x), e, n) = f[p]
  BY DEF FwdAlignedPairs, Loop
<1>8. g[p] = Memory(Moved(B, d, s, 0, x + n * OPSIZ), W \cup WordsFrom(e, 0, n - 1))
  <2>1. Before(p + 1) = n * OPSIZ /\ 2 * p - 1 = n - 1 /\ p \in 0 .. p
    BY <1>0, <1>b, PairsAre
  <2> QED
    BY <2>1
<1> QED
  BY <1>6, <1>7, <1>8

\* The pairs of _wordcopy_bwd_aligned() copy n words.
LEMMA BwdAlignedPairsCopy ==
    ASSUME NEW B, NEW W, NEW d \in Addr, NEW s \in Addr, NEW L \in Nat, L + OPSIZ <= SIZE,
           BwdSafe(d, s, L), NEW x \in Nat, x <= L, NEW n \in Nat, n >= 2, n % 2 = 0, n * OPSIZ <= x
    PROVE  BwdAlignedPairs(Memory(Moved(B, d, s, x, L), W), Plus(d, x), Plus(s, x), n)
             = Memory(Moved(B, d, s, x - n * OPSIZ, L), W \cup WordsBefore(Plus(s, x), 1, n))
<1>a. OPSIZ \in Nat /\ OPSIZ >= 1 /\ SIZE \in Nat /\ L <= SIZE /\ L < SIZE /\ n * OPSIZ \in Nat
  BY MemoryFunctionsAssumption
<1>b. n * OPSIZ < SIZE
  BY <1>a
<1> DEFINE p == Pairs(n)
<1>0. p \in Nat /\ 2 * p = n
  BY <1>b, PairsAre
<1> DEFINE e == Plus(s, x)
           m == Memory(Moved(B, d, s, x, L), W)
           Turn(now, k) ==
             LET at == Before(k)
                 s1 == Minus(e, at + OPSIZ)
                 s0 == Minus(e, at + 2 * OPSIZ)
                 m1 == StoreWord(Reading(now, {s0, s1}), Minus(Plus(d, x), at + OPSIZ), Word(now, s1))
             IN  StoreWord(m1, Minus(Plus(d, x), at + 2 * OPSIZ), Word(now, s0))
           g == [k \in 0 .. p |-> Memory(Moved(B, d, s, x - Before(k + 1), L),
                                        W \cup WordsBefore(e, 1, 2 * k))]
           f == CHOOSE f : f = [k \in 0 .. p |-> IF k = 0 THEN m ELSE Turn(f[k - 1], k)]
<1>1. ASSUME NEW k \in 1 .. p PROVE Turn(g[k - 1], k) = g[k]
  <2> DEFINE at == Before(k)
             z == x - (at + 2 * OPSIZ)
             V == W \cup WordsBefore(e, 1, 2 * k - 2)
             U == W \cup WordsBefore(e, 1, 2 * k)
             now == Memory(Moved(B, d, s, (z + OPSIZ) + OPSIZ, L), V)
  <2>1. /\ at \in Nat /\ Before(k + 1) = at + 2 * OPSIZ /\ at + 2 * OPSIZ <= n * OPSIZ
        /\ at + OPSIZ = (2 * k - 1) * OPSIZ /\ at + 2 * OPSIZ = (2 * k) * OPSIZ
    BY <1>b, PairsAre
  <2>2. /\ k \in 0 .. p /\ k - 1 \in 0 .. p /\ (k - 1) + 1 = k /\ 2 * (k - 1) = 2 * k - 2
        /\ k \in Nat /\ k >= 1 /\ 1 <= 2 * k - 1
    BY <1>0
  <2>3. /\ g[k - 1] = Memory(Moved(B, d, s, x - at, L), V)
        /\ g[k] = Memory(Moved(B, d, s, x - (at + 2 * OPSIZ), L), U)
    BY <2>1, <2>2
  <2> HIDE DEF g, at
  <2>4. /\ z \in Nat /\ z + OPSIZ \in Nat /\ (z + OPSIZ) + OPSIZ \in Nat /\ (z + OPSIZ) + OPSIZ <= L
        /\ z + OPSIZ <= L /\ z + OPSIZ <= SIZE /\ (z + OPSIZ) + OPSIZ <= SIZE
        /\ z + OPSIZ <= (z + OPSIZ) + OPSIZ
        /\ x - at = (z + OPSIZ) + OPSIZ /\ z + (at + 2 * OPSIZ) = x /\ (z + OPSIZ) + (at + OPSIZ) = x
        /\ at + OPSIZ \in Nat /\ at + 2 * OPSIZ \in Nat /\ x <= SIZE
        /\ z + (at + 2 * OPSIZ) <= SIZE /\ (z + OPSIZ) + (at + OPSIZ) <= SIZE
    BY <1>a, <2>1
  <2> HIDE DEF z
  <2>5. /\ Minus(Plus(s, x), at + OPSIZ) = Plus(s, z + OPSIZ) /\ Minus(Plus(s, x), at + 2 * OPSIZ) = Plus(s, z)
        /\ Minus(Plus(d, x), at + OPSIZ) = Plus(d, z + OPSIZ) /\ Minus(Plus(d, x), at + 2 * OPSIZ) = Plus(d, z)
    <3>1. /\ Minus(Plus(s, (z + OPSIZ) + (at + OPSIZ)), at + OPSIZ) = Plus(s, z + OPSIZ)
          /\ Minus(Plus(d, (z + OPSIZ) + (at + OPSIZ)), at + OPSIZ) = Plus(d, z + OPSIZ)
      BY <2>4, Along
    <3>2. /\ Minus(Plus(s, z + (at + 2 * OPSIZ)), at + 2 * OPSIZ) = Plus(s, z)
          /\ Minus(Plus(d, z + (at + 2 * OPSIZ)), at + 2 * OPSIZ) = Plus(d, z)
      BY <2>4, Along
    <3> QED
      BY <2>4, <3>1, <3>2
  <2>6. V \cup {Minus(e, at + 2 * OPSIZ), Minus(e, at + OPSIZ)} = U
    <3> HIDE DEF e
    <3>2. V \cup {Minus(e, (2 * k) * OPSIZ), Minus(e, (2 * k - 1) * OPSIZ)} = U
      BY <2>2, WordsGrowBefore
    <3> QED
      BY <2>1, <3>2
  <2> HIDE DEF U, V
  <2>7. Reading(now, {Minus(e, at + 2 * OPSIZ), Minus(e, at + OPSIZ)})
          = Memory(Moved(B, d, s, (z + OPSIZ) + OPSIZ, L), U)
    BY <2>6, ReadingIs
  <2>8. /\ \A i \in 0 .. OPSIZ - 1 : Word(now, Plus(s, z))[i] = B[Plus(s, z + i)]
        /\ \A i \in 0 .. OPSIZ - 1 : Word(now, Plus(s, z + OPSIZ))[i] = B[Plus(s, (z + OPSIZ) + i)]
    <3>1. \A i \in 0 .. OPSIZ - 1 : Word(now, Plus(s, z))[i] = B[Plus(s, z + i)]
      BY <1>a, <2>4, WordKeptBwd
    <3>2. \A i \in 0 .. OPSIZ - 1 : Word(now, Plus(s, z + OPSIZ))[i] = B[Plus(s, (z + OPSIZ) + i)]
      BY <1>a, <2>4, WordKeptBwd
    <3> QED
      BY <3>1, <3>2
  <2> HIDE DEF now
  <2>9. StoreWord(Memory(Moved(B, d, s, (z + OPSIZ) + OPSIZ, L), U), Plus(d, z + OPSIZ),
                  Word(now, Plus(s, z + OPSIZ)))
          = Memory(Moved(B, d, s, z + OPSIZ, L), U)
    BY <2>4, <2>8, StoreWordBefore
  <2>10. StoreWord(Memory(Moved(B, d, s, z + OPSIZ, L), U), Plus(d, z), Word(now, Plus(s, z)))
          = Memory(Moved(B, d, s, z, L), U)
    BY <2>4, <2>8, StoreWordBefore
  <2>11. g[k - 1] = now
    BY <2>3, <2>4 DEF now
  <2>12. x - (at + 2 * OPSIZ) = z
    BY DEF z
  <2> QED
    BY <2>3, <2>5, <2>7, <2>9, <2>10, <2>11, <2>12 DEF at
<1>2. g[0] = m
  <2>1. 0 \in 0 .. p /\ 1 .. (2 * 0) = {} /\ 0 + 1 = 1
    BY <1>0
  <2>2. WordsBefore(e, 1, 2 * 0) = {}
    BY <2>1 DEF WordsBefore
  <2>3. Before(1) = 0 /\ x - 0 = x
    BY <1>b, PairsAre
  <2>4. g[0] = Memory(Moved(B, d, s, x - Before(0 + 1), L), W \cup WordsBefore(e, 1, 2 * 0))
    BY <2>1
  <2> HIDE DEF e, g
  <2> QED
    BY <2>1, <2>2, <2>3, <2>4
<1>3. g = [k \in 0 .. p |-> IF k = 0 THEN m ELSE Turn(g[k - 1], k)]
  <2>1. ASSUME NEW k \in 0 .. p PROVE g[k] = IF k = 0 THEN m ELSE Turn(g[k - 1], k)
    <3>1. k # 0 => k \in 1 .. p
      BY <1>0
    <3> HIDE DEF p, g, Turn, m
    <3> QED
      BY <1>1, <1>2, <3>1
  <2> DEFINE h == [k \in 0 .. p |-> IF k = 0 THEN m ELSE Turn(g[k - 1], k)]
  <2>2. \A k \in 0 .. p : h[k] = g[k]
    <3> HIDE DEF p, g, Turn, m
    <3> QED
      BY <2>1
  <2>3. g = [k \in 0 .. p |-> g[k]] /\ h = [k \in 0 .. p |-> h[k]]
    <3> HIDE DEF Turn, m
    <3> QED
      OBVIOUS
  <2> HIDE DEF h, g, p
  <2>4. g = h
    BY <2>2, <2>3
  <2> QED
    BY <2>4 DEF h
<1>4. f = [k \in 0 .. p |-> IF k = 0 THEN m ELSE Turn(f[k - 1], k)]
  <2> HIDE DEF p, g, Turn, m
  <2> QED
    BY <1>3
<1>5. f[0] = g[0] /\ \A k \in 1 .. p : f[k - 1] = g[k - 1] => f[k] = g[k]
  <2> HIDE DEF f, p, g, Turn, m
  <2>0. 0 \in 0 .. p /\ \A k \in 1 .. p : k \in 0 .. p /\ k # 0
    BY <1>0
  <2>1. f[0] = m
    BY <1>4, <2>0
  <2>2. \A k \in 1 .. p : f[k] = Turn(f[k - 1], k)
    BY <1>4, <2>0
  <2> QED
    BY <1>1, <1>2, <2>1, <2>2
<1>6. f[p] = g[p]
  <2> HIDE DEF f, g, p
  <2>1. p \in Nat /\ p \in 0 .. p
    BY <1>0
  <2>2. \A k \in 0 .. p : f[k] = g[k]
    BY <1>5, <2>1, LoopIs
  <2> QED
    BY <2>1, <2>2
<1>7. BwdAlignedPairs(m, Plus(d, x), e, n) = f[p]
  BY DEF BwdAlignedPairs, Loop
<1>8. g[p] = Memory(Moved(B, d, s, x - n * OPSIZ, L), W \cup WordsBefore(e, 1, n))
  <2>1. Before(p + 1) = n * OPSIZ /\ 2 * p = n /\ p \in 0 .. p
    BY <1>0, <1>b, PairsAre
  <2> QED
    BY <2>1
<1> QED
  BY <1>6, <1>7, <1>8

-----------------------------------------------------------------------------
\* A byte of the merged words.
LEMMA MergeIs ==
    ASSUME NEW w0, NEW w1, NEW off \in 0 .. OPSIZ - 1, NEW i \in 0 .. OPSIZ - 1
    PROVE  MERGE(w0, w1, off)[i] = IF i + off < OPSIZ THEN w0[i + off] ELSE w1[i + off - OPSIZ]
  BY DEF MERGE

\* Bytes lo .. hi - 1 of the source are what they were, read as parts of words
\* from r on; byte v of the source lies off bytes behind r.
Kept(m, B, r, off, s, v, lo, hi) ==
    \A u \in Nat, j \in 0 .. OPSIZ - 1 :
      off <= u + j /\ u + j <= SIZE /\ lo <= v + (u + j - off) /\ v + (u + j - off) < hi
        => Word(m, Plus(r, u))[j] = B[Plus(s, v + (u + j - off))]

\* Bytes of words across the grid of the copy, still to be copied.
LEMMA PieceFwd ==
    ASSUME NEW B, NEW W, NEW d \in Addr, NEW s \in Addr, NEW L \in Nat, L <= SIZE, FwdSafe(d, s, L),
           NEW r \in Addr, NEW off \in Nat, NEW v \in Nat, Plus(r, off) = Plus(s, v),
           NEW y \in Nat, y <= L
    PROVE  Kept(Memory(Moved(B, d, s, 0, y), W), B, r, off, s, v, y, L)
<1>1. SUFFICES ASSUME NEW u \in Nat, NEW j \in 0 .. OPSIZ - 1, off <= u + j, u + j <= SIZE,
                      y <= v + (u + j - off), v + (u + j - off) < L
               PROVE  Word(Memory(Moved(B, d, s, 0, y), W), Plus(r, u))[j] = B[Plus(s, v + (u + j - off))]
  BY DEF Kept
<1> DEFINE z == u + j - off
<1>2. SIZE \in Nat /\ OPSIZ \in Nat
  BY MemoryFunctionsAssumption
<1>3. z \in Nat /\ u + j = z + off /\ v + z <= SIZE /\ v + z \in Nat /\ v + z < L /\ v + z < L /\ y <= v + z
  BY <1>1, <1>2
<1> HIDE DEF z
<1>4. \A M : Word(Memory(M, W), Plus(r, u))[j] = M[Plus(s, v + z)]
  <2> TAKE M
  <2>1. u + j <= SIZE /\ u \in Nat /\ j \in 0 .. OPSIZ - 1
    BY <1>1
  <2>2. Word(Memory(M, W), Plus(r, u))[j] = M[Plus(r, u + j)]
    BY <2>1, WordByte
  <2>3. z \in Nat /\ u + j = off + z /\ off + z <= SIZE /\ v + z <= SIZE
    BY <1>1, <1>3
  <2>4. Plus(r, off + z) = Plus(s, v + z)
    BY <2>3, Together
  <2> QED
    BY <2>2, <2>3, <2>4
<1>5. Moved(B, d, s, 0, y)[Plus(s, v + z)] = B[Plus(s, v + z)]
  BY <1>3, SourceKept
<1>6. Word(Memory(Moved(B, d, s, 0, y), W), Plus(r, u))[j] = B[Plus(s, v + z)]
  BY <1>4, <1>5
<1> QED
  BY <1>6 DEF z

\* The same from the end.
LEMMA PieceBwd ==
    ASSUME NEW B, NEW W, NEW d \in Addr, NEW s \in Addr, NEW L \in Nat, L <= SIZE, BwdSafe(d, s, L),
           NEW r \in Addr, NEW off \in Nat, NEW v \in Nat, Plus(r, off) = Plus(s, v),
           NEW y \in Nat, y <= L
    PROVE  Kept(Memory(Moved(B, d, s, y, L), W), B, r, off, s, v, 0, y)
<1>1. SUFFICES ASSUME NEW u \in Nat, NEW j \in 0 .. OPSIZ - 1, off <= u + j, u + j <= SIZE,
                      0 <= v + (u + j - off), v + (u + j - off) < y
               PROVE  Word(Memory(Moved(B, d, s, y, L), W), Plus(r, u))[j] = B[Plus(s, v + (u + j - off))]
  BY DEF Kept
<1> DEFINE z == u + j - off
<1>2. SIZE \in Nat /\ OPSIZ \in Nat
  BY MemoryFunctionsAssumption
<1>3. z \in Nat /\ u + j = z + off /\ v + z <= SIZE /\ v + z \in Nat /\ v + z < L /\ v + z < y
  BY <1>1, <1>2
<1> HIDE DEF z
<1>4. \A M : Word(Memory(M, W), Plus(r, u))[j] = M[Plus(s, v + z)]
  <2> TAKE M
  <2>1. u + j <= SIZE /\ u \in Nat /\ j \in 0 .. OPSIZ - 1
    BY <1>1
  <2>2. Word(Memory(M, W), Plus(r, u))[j] = M[Plus(r, u + j)]
    BY <2>1, WordByte
  <2>3. z \in Nat /\ u + j = off + z /\ off + z <= SIZE /\ v + z <= SIZE
    BY <1>1, <1>3
  <2>4. Plus(r, off + z) = Plus(s, v + z)
    BY <2>3, Together
  <2> QED
    BY <2>2, <2>3, <2>4
<1>5. Moved(B, d, s, y, L)[Plus(s, v + z)] = B[Plus(s, v + z)]
  BY <1>3, SourceKept
<1>6. Word(Memory(Moved(B, d, s, y, L), W), Plus(r, u))[j] = B[Plus(s, v + z)]
  BY <1>4, <1>5
<1> QED
  BY <1>6 DEF z

\* The pairs of _wordcopy_fwd_dest_aligned() copy n words; a0 holds the bytes in
\* front of the first word boundary of the source.
LEMMA FwdDestAlignedPairsCopy ==
    ASSUME NEW B, NEW W, NEW d \in Addr, NEW s \in Addr, NEW L \in Nat, L + OPSIZ <= SIZE,
           FwdSafe(d, s, L), NEW x \in Nat, NEW n \in Nat, n >= 2, n % 2 = 0, x + n * OPSIZ <= L,
           NEW r \in Addr, NEW off \in 0 .. OPSIZ - 1, Plus(r, off) = Plus(s, x),
           NEW a0, \A j \in off .. OPSIZ - 1 : a0[j] = B[Plus(s, x + (j - off))]
    PROVE  FwdDestAlignedPairs(Memory(Moved(B, d, s, 0, x), W), Plus(d, x), r, a0, off, n)
             = Memory(Moved(B, d, s, 0, x + n * OPSIZ), W \cup WordsFrom(r, 1, n))
<1>a. /\ OPSIZ \in Nat /\ OPSIZ >= 1 /\ SIZE \in Nat /\ L <= SIZE /\ L < SIZE /\ n * OPSIZ \in Nat
      /\ off \in Nat /\ off < OPSIZ
  BY MemoryFunctionsAssumption
<1>b. n * OPSIZ < SIZE
  BY <1>a
<1> DEFINE p == Pairs(n)
<1>0. p \in Nat /\ 2 * p = n
  BY <1>b, PairsAre
<1> DEFINE m == [m |-> Memory(Moved(B, d, s, 0, x), W), a |-> a0]
           Turn(now, k) ==
             LET at == Before(k)
                 s1 == Plus(r, at + OPSIZ)
                 s2 == Plus(r, at + 2 * OPSIZ)
                 a1 == Word(now.m, s1)
                 a2 == Word(now.m, s2)
                 m1 == StoreWord(Reading(now.m, {s1, s2}), Plus(Plus(d, x), at), MERGE(now.a, a1, off))
             IN  [m |-> StoreWord(m1, Plus(Plus(d, x), at + OPSIZ), MERGE(a1, a2, off)), a |-> a2]
           M(k) == Memory(Moved(B, d, s, 0, x + Before(k + 1)), W \cup WordsFrom(r, 1, 2 * k))
           A(k) == IF k = 0 THEN a0 ELSE Word(M(k - 1), Plus(r, (2 * k) * OPSIZ))
           g == [k \in 0 .. p |-> [m |-> M(k), a |-> A(k)]]
           f == CHOOSE f : f = [k \in 0 .. p |-> IF k = 0 THEN m ELSE Turn(f[k - 1], k)]
<1>c. Before(1) = 0 /\ Before(p + 1) = n * OPSIZ
  BY <1>b, PairsAre
<1>1. ASSUME NEW k \in 1 .. p PROVE Turn(g[k - 1], k) = g[k]
  <2> DEFINE at == Before(k)
             y == x + at
             V == W \cup WordsFrom(r, 1, 2 * k - 2)
             U == W \cup WordsFrom(r, 1, 2 * k)
             now == Memory(Moved(B, d, s, 0, y), V)
             a == A(k - 1)
  <2>1. /\ at \in Nat /\ Before(k + 1) = at + 2 * OPSIZ /\ at + 2 * OPSIZ <= n * OPSIZ
        /\ at = (2 * k - 2) * OPSIZ
        /\ at + OPSIZ = (2 * k - 1) * OPSIZ /\ at + 2 * OPSIZ = (2 * k) * OPSIZ
    BY <1>b, PairsAre
  <2>2. k \in 0 .. p /\ k - 1 \in 0 .. p /\ (k - 1) + 1 = k /\ 2 * (k - 1) = 2 * k - 2
        /\ k \in Nat /\ k >= 1 /\ k # 0
    BY <1>0
  <2>3. M(k - 1) = now /\ M(k) = Memory(Moved(B, d, s, 0, x + (at + 2 * OPSIZ)), U)
    BY <2>1, <2>2
  <2>4. g[k - 1] = [m |-> now, a |-> a]
    BY <2>2, <2>3
  <2>5. A(k) = Word(now, Plus(r, at + 2 * OPSIZ))
    BY <2>1, <2>2, <2>3
  <2>6. g[k] = [m |-> Memory(Moved(B, d, s, 0, x + (at + 2 * OPSIZ)), U),
                a |-> Word(now, Plus(r, at + 2 * OPSIZ))]
    BY <2>2, <2>3, <2>5
  <2>7. /\ y \in Nat /\ y + OPSIZ \in Nat /\ y + 2 * OPSIZ <= L /\ y + OPSIZ <= SIZE
        /\ (y + OPSIZ) + OPSIZ <= SIZE /\ y <= L
        /\ (y + OPSIZ) + OPSIZ = x + (at + 2 * OPSIZ) /\ x + (at + OPSIZ) = y + OPSIZ
        /\ at + OPSIZ \in Nat /\ at + 2 * OPSIZ \in Nat /\ x + at <= SIZE /\ x + (at + OPSIZ) <= SIZE
        /\ 0 <= y /\ 0 <= y + OPSIZ /\ (at + 2 * OPSIZ) + OPSIZ <= SIZE
    BY <1>a, <2>1
  <2>8. /\ Plus(Plus(d, x), at) = Plus(d, y) /\ Plus(Plus(d, x), at + OPSIZ) = Plus(d, y + OPSIZ)
    <3>1. Plus(Plus(d, x), at) = Plus(d, x + at)
      BY <2>1, <2>7, Along
    <3>2. Plus(Plus(d, x), at + OPSIZ) = Plus(d, x + (at + OPSIZ))
      BY <2>1, <2>7, Along
    <3> QED
      BY <2>7, <3>1, <3>2
  <2>9. V \cup {Plus(r, at + OPSIZ), Plus(r, at + 2 * OPSIZ)} = U
    <3>1. V \cup {Plus(r, (2 * k - 1) * OPSIZ), Plus(r, (2 * k) * OPSIZ)} = U
      BY <2>2, WordsGrowFrom
    <3> QED
      BY <2>1, <3>1
  <2>10. \A j \in off .. OPSIZ - 1 : a[j] = B[Plus(s, y + (j - off))]
    <3>1. CASE k = 1
      <4>1. k - 1 = 0 /\ at = 0 /\ y = x
        BY <1>c, <3>1
      <4> QED
        BY <4>1
    <3>2. CASE k # 1
      <4>1. k - 1 \in 1 .. p /\ k - 1 # 0 /\ (k - 1) - 1 + 1 = k - 1 /\ 2 * (k - 1) = 2 * k - 2
            /\ (k - 1) + 1 = k
        BY <1>0, <3>2
      <4> DEFINE y2 == x + Before(k - 1)
                 V2 == W \cup WordsFrom(r, 1, 2 * ((k - 1) - 1))
      <4>2. Before(k - 1) \in Nat /\ at = Before(k - 1) + 2 * OPSIZ
        <5>1. Before(k - 1) \in Nat /\ Before((k - 1) + 1) = Before(k - 1) + 2 * OPSIZ
          BY <1>b, <4>1, PairsAre
        <5> QED
          BY <4>1, <5>1
      <4>3. a = Word(Memory(Moved(B, d, s, 0, y2), V2), Plus(r, at))
        BY <2>1, <4>1
      <4>4. ASSUME NEW j \in off .. OPSIZ - 1
            PROVE  a[j] = B[Plus(s, y + (j - off))]
        <5> DEFINE z == at + (j - off)
        <5>1. /\ z \in Nat /\ at + j = z + off /\ at + j <= SIZE /\ x + z < L /\ y2 <= x + z
              /\ y2 \in Nat /\ y2 <= L /\ j \in 0 .. OPSIZ - 1 /\ x + z = y + (j - off)
          BY <1>a, <2>1, <2>7, <4>2
        <5> HIDE DEF y2, V2, z, a, at, y
        <5>2. Kept(Memory(Moved(B, d, s, 0, y2), V2), B, r, off, s, x, y2, L)
          BY <1>a, <5>1, PieceFwd
        <5>3. off <= at + j /\ at + j - off = z
          BY <1>a, <2>1, <5>1
        <5>4. Word(Memory(Moved(B, d, s, 0, y2), V2), Plus(r, at))[j] = B[Plus(s, x + z)]
          BY <2>1, <5>1, <5>2, <5>3 DEF Kept
        <5> QED
          BY <4>3, <5>1, <5>4
      <4> QED
        BY <4>4
    <3> QED
      BY <3>1, <3>2
  <2> HIDE DEF y, U, V, at, a, g
  <2>11. Reading(now, {Plus(r, at + OPSIZ), Plus(r, at + 2 * OPSIZ)}) = Memory(Moved(B, d, s, 0, y), U)
    BY <2>9, ReadingIs
  <2>20. y = x + at
    BY DEF y
  <2>21. Kept(now, B, r, off, s, x, y, L)
    BY <1>a, <2>7, PieceFwd
  <2> HIDE DEF now
  <2> DEFINE a1 == Word(now, Plus(r, at + OPSIZ))
             a2 == Word(now, Plus(r, at + 2 * OPSIZ))
  <2>12. ASSUME NEW i \in 0 .. OPSIZ - 1, ~(i + off < OPSIZ)
         PROVE  /\ a1[i + off - OPSIZ] = B[Plus(s, y + i)]
                /\ a2[i + off - OPSIZ] = B[Plus(s, (y + OPSIZ) + i)]
    <3> DEFINE j == i + off - OPSIZ
    <3>1. /\ j \in 0 .. OPSIZ - 1 /\ at + i \in Nat /\ (at + OPSIZ) + j = (at + i) + off
          /\ (at + OPSIZ) + j <= SIZE /\ x + (at + i) < L /\ y <= x + (at + i) /\ x + (at + i) = y + i
          /\ (at + OPSIZ) + i \in Nat /\ (at + 2 * OPSIZ) + j = ((at + OPSIZ) + i) + off
          /\ (at + 2 * OPSIZ) + j <= SIZE /\ x + ((at + OPSIZ) + i) < L /\ y <= x + ((at + OPSIZ) + i)
          /\ x + ((at + OPSIZ) + i) = (y + OPSIZ) + i
      BY <1>a, <2>1, <2>7, <2>12, <2>20
    <3> HIDE DEF j
    <3>4. /\ (at + OPSIZ) + j - off = at + i /\ off <= (at + OPSIZ) + j
          /\ (at + 2 * OPSIZ) + j - off = (at + OPSIZ) + i /\ off <= (at + 2 * OPSIZ) + j
      BY <1>a, <2>1, <3>1
    <3>2. a1[j] = B[Plus(s, x + (at + i))]
      BY <2>7, <2>21, <3>1, <3>4 DEF Kept
    <3>3. a2[j] = B[Plus(s, x + ((at + OPSIZ) + i))]
      BY <2>7, <2>21, <3>1, <3>4 DEF Kept
    <3> QED
      BY <3>1, <3>2, <3>3 DEF j
  <2>13. ASSUME NEW i \in 0 .. OPSIZ - 1, i + off < OPSIZ
         PROVE  a1[i + off] = B[Plus(s, (y + OPSIZ) + i)] /\ a[i + off] = B[Plus(s, y + i)]
    <3> DEFINE j == i + off
    <3>1. /\ j \in 0 .. OPSIZ - 1 /\ (at + OPSIZ) + i \in Nat /\ (at + OPSIZ) + j = ((at + OPSIZ) + i) + off
          /\ (at + OPSIZ) + j <= SIZE /\ x + ((at + OPSIZ) + i) < L /\ y <= x + ((at + OPSIZ) + i)
          /\ x + ((at + OPSIZ) + i) = (y + OPSIZ) + i /\ j \in off .. OPSIZ - 1 /\ j - off = i
      BY <1>a, <2>1, <2>7, <2>13, <2>20
    <3> HIDE DEF j
    <3>4. (at + OPSIZ) + j - off = (at + OPSIZ) + i /\ off <= (at + OPSIZ) + j
      BY <1>a, <2>1, <3>1
    <3>2. a1[j] = B[Plus(s, x + ((at + OPSIZ) + i))]
      BY <2>7, <2>21, <3>1, <3>4 DEF Kept
    <3>3. a[j] = B[Plus(s, y + i)]
      BY <2>10, <3>1
    <3> QED
      BY <3>1, <3>2, <3>3 DEF j
  <2> HIDE DEF a1, a2
  <2>14. \A i \in 0 .. OPSIZ - 1 : MERGE(a, a1, off)[i] = B[Plus(s, y + i)]
    BY <2>12, <2>13, MergeIs
  <2>15. \A i \in 0 .. OPSIZ - 1 : MERGE(a1, a2, off)[i] = B[Plus(s, (y + OPSIZ) + i)]
    BY <2>12, <2>13, MergeIs
  <2>16. StoreWord(Memory(Moved(B, d, s, 0, y), U), Plus(d, y), MERGE(a, a1, off))
          = Memory(Moved(B, d, s, 0, y + OPSIZ), U)
    BY <2>7, <2>14, StoreWordBehind
  <2>17. StoreWord(Memory(Moved(B, d, s, 0, y + OPSIZ), U), Plus(d, y + OPSIZ), MERGE(a1, a2, off))
          = Memory(Moved(B, d, s, 0, (y + OPSIZ) + OPSIZ), U)
    BY <2>7, <2>15, StoreWordBehind
  <2>18. g[k - 1].m = now /\ g[k - 1].a = a
    BY <2>4
  <2>19. Turn(g[k - 1], k) = [m |-> Memory(Moved(B, d, s, 0, (y + OPSIZ) + OPSIZ), U), a |-> a2]
    BY <2>8, <2>11, <2>16, <2>17, <2>18 DEF at, a1, a2
  <2> QED
    BY <2>6, <2>7, <2>19 DEF a2
<1>2. g[0] = m
  <2>1. 0 \in 0 .. p /\ 1 .. (2 * 0) = {} /\ 0 + 1 = 1
    BY <1>0
  <2>2. WordsFrom(r, 1, 2 * 0) = {}
    BY <2>1 DEF WordsFrom
  <2>3. Before(1) = 0 /\ x + 0 = x
    BY <1>c
  <2>4. M(0) = Memory(Moved(B, d, s, 0, x), W) /\ A(0) = a0
    BY <2>1, <2>2, <2>3
  <2> HIDE DEF M, A
  <2> QED
    BY <2>1, <2>4
<1> HIDE DEF M, A
<1>3. g = [k \in 0 .. p |-> IF k = 0 THEN m ELSE Turn(g[k - 1], k)]
  <2>1. ASSUME NEW k \in 0 .. p PROVE g[k] = IF k = 0 THEN m ELSE Turn(g[k - 1], k)
    <3>1. k # 0 => k \in 1 .. p
      BY <1>0
    <3> HIDE DEF p, g, Turn, m
    <3> QED
      BY <1>1, <1>2, <3>1
  <2> DEFINE h == [k \in 0 .. p |-> IF k = 0 THEN m ELSE Turn(g[k - 1], k)]
  <2>2. \A k \in 0 .. p : h[k] = g[k]
    <3> HIDE DEF p, g, Turn, m
    <3> QED
      BY <2>1
  <2>3. g = [k \in 0 .. p |-> g[k]] /\ h = [k \in 0 .. p |-> h[k]]
    <3> HIDE DEF Turn, m
    <3> QED
      OBVIOUS
  <2> HIDE DEF h, g, p
  <2>4. g = h
    BY <2>2, <2>3
  <2> QED
    BY <2>4 DEF h
<1>4. f = [k \in 0 .. p |-> IF k = 0 THEN m ELSE Turn(f[k - 1], k)]
  <2> HIDE DEF p, g, Turn, m
  <2> QED
    BY <1>3
<1>5. f[0] = g[0] /\ \A k \in 1 .. p : f[k - 1] = g[k - 1] => f[k] = g[k]
  <2> HIDE DEF f, p, g, Turn, m
  <2>0. 0 \in 0 .. p /\ \A k \in 1 .. p : k \in 0 .. p /\ k # 0
    BY <1>0
  <2>1. f[0] = m
    BY <1>4, <2>0
  <2>2. \A k \in 1 .. p : f[k] = Turn(f[k - 1], k)
    BY <1>4, <2>0
  <2> QED
    BY <1>1, <1>2, <2>1, <2>2
<1>6. f[p] = g[p]
  <2> HIDE DEF f, g, p
  <2>1. p \in Nat /\ p \in 0 .. p
    BY <1>0
  <2>2. \A k \in 0 .. p : f[k] = g[k]
    BY <1>5, <2>1, LoopIs
  <2> QED
    BY <2>1, <2>2
<1>7. FwdDestAlignedPairs(Memory(Moved(B, d, s, 0, x), W), Plus(d, x), r, a0, off, n) = f[p].m
  BY DEF FwdDestAlignedPairs, Loop
<1>8. g[p].m = Memory(Moved(B, d, s, 0, x + n * OPSIZ), W \cup WordsFrom(r, 1, n))
  <2>1. p \in 0 .. p
    BY <1>0
  <2>2. g[p].m = M(p)
    BY <2>1
  <2> QED
    BY <1>0, <1>c, <2>2 DEF M
<1> QED
  BY <1>6, <1>7, <1>8

\* The start of a block of n bytes that ends at r.
LEMMA Back ==
    ASSUME NEW r \in Addr, NEW n \in Nat, n <= SIZE
    PROVE  Minus(r, n) \in Addr /\ Plus(Minus(r, n), n) = r
<1>1. SIZE \in Nat /\ n \in 0 .. SIZE
  BY MemoryFunctionsAssumption
<1>2. Minus(r, n) \in Addr /\ Minus(r, n) = IF n <= r THEN r - n ELSE r - n + SIZE
  BY <1>1, Ring
<1>3. Plus(Minus(r, n), n) = IF Minus(r, n) + n < SIZE THEN Minus(r, n) + n ELSE Minus(r, n) + n - SIZE
  BY <1>1, <1>2, Ring
<1> QED
  BY <1>1, <1>2, <1>3 DEF Addr

\* The pairs of _wordcopy_bwd_dest_aligned() copy n words; a2 holds the bytes
\* behind the last word boundary of the source.
LEMMA BwdDestAlignedPairsCopy ==
    ASSUME NEW B, NEW W, NEW d \in Addr, NEW s \in Addr, NEW L \in Nat, L + OPSIZ <= SIZE,
           BwdSafe(d, s, L), NEW x \in Nat, x <= L, NEW n \in Nat, n >= 2, n % 2 = 0, n * OPSIZ <= x,
           NEW r \in Addr, NEW off \in 0 .. OPSIZ - 1, Plus(r, off) = Plus(s, x),
           NEW a2, \A j \in 0 .. off - 1 : a2[j] = B[Plus(s, (x + j) - off)]
    PROVE  BwdDestAlignedPairs(Memory(Moved(B, d, s, x, L), W), Plus(d, x), r, a2, off, n)
             = Memory(Moved(B, d, s, x - n * OPSIZ, L), W \cup WordsBefore(r, 1, n))
<1>a. /\ OPSIZ \in Nat /\ OPSIZ >= 1 /\ SIZE \in Nat /\ L <= SIZE /\ L < SIZE /\ n * OPSIZ \in Nat
      /\ off \in Nat /\ off < OPSIZ /\ n * OPSIZ <= SIZE
  BY MemoryFunctionsAssumption
<1>b. n * OPSIZ < SIZE
  BY <1>a
<1> DEFINE p == Pairs(n)
           N == n * OPSIZ
           e == Minus(r, N)
           v == x - N
<1>0. p \in Nat /\ 2 * p = n
  BY <1>b, PairsAre
<1>d. e \in Addr /\ Plus(e, N) = r /\ v \in Nat /\ v + N = x /\ off + N <= SIZE /\ v + N <= SIZE /\ N \in Nat
      /\ N + off <= SIZE /\ N + off = off + N
  <2>1. e \in Addr /\ Plus(e, N) = r
    BY <1>a, Back
  <2> QED
    BY <1>a, <2>1
<1>e. Plus(e, off) = Plus(s, v)
  <2> HIDE DEF N, e, v
  <2>1. Plus(Plus(e, N), off) = Plus(e, N + off)
    BY <1>a, <1>d, Along
  <2>2. Plus(e, off + N) = Plus(s, v + N)
    BY <1>d, <2>1
  <2>3. Minus(Plus(e, off + N), N) = Plus(e, off)
    BY <1>a, <1>d, Along
  <2>4. Minus(Plus(s, v + N), N) = Plus(s, v)
    BY <1>a, <1>d, Along
  <2> QED
    BY <2>2, <2>3, <2>4
<1> DEFINE m == [m |-> Memory(Moved(B, d, s, x, L), W), a |-> a2]
           Turn(now, k) ==
             LET at == Before(k)
                 s1 == Minus(r, at + OPSIZ)
                 s0 == Minus(r, at + 2 * OPSIZ)
                 a1 == Word(now.m, s1)
                 a0 == Word(now.m, s0)
                 m1 == StoreWord(Reading(now.m, {s0, s1}), Minus(Plus(d, x), at + OPSIZ), MERGE(a1, now.a, off))
             IN  [m |-> StoreWord(m1, Minus(Plus(d, x), at + 2 * OPSIZ), MERGE(a0, a1, off)), a |-> a0]
           M(k) == Memory(Moved(B, d, s, x - Before(k + 1), L), W \cup WordsBefore(r, 1, 2 * k))
           A(k) == IF k = 0 THEN a2 ELSE Word(M(k - 1), Minus(r, (2 * k) * OPSIZ))
           g == [k \in 0 .. p |-> [m |-> M(k), a |-> A(k)]]
           f == CHOOSE f : f = [k \in 0 .. p |-> IF k = 0 THEN m ELSE Turn(f[k - 1], k)]
<1>c. Before(1) = 0 /\ Before(p + 1) = n * OPSIZ
  BY <1>b, PairsAre
<1>f. \A c \in Nat : c <= N => Minus(r, c) = Plus(e, N - c)
  <2> HIDE DEF N, e, v
  <2> TAKE c \in Nat
  <2> HAVE c <= N
  <2> DEFINE q == N - c
  <2>1. q \in Nat /\ q + c = N /\ q + c <= SIZE
    BY <1>a, <1>d
  <2> HIDE DEF q
  <2>2. Minus(Plus(e, q + c), c) = Plus(e, q)
    BY <1>d, <2>1, Along
  <2> QED
    BY <1>d, <2>1, <2>2 DEF q
<1>1. ASSUME NEW k \in 1 .. p PROVE Turn(g[k - 1], k) = g[k]
  <2> DEFINE at == Before(k)
             y == x - at
             z == x - (at + 2 * OPSIZ)
             V == W \cup WordsBefore(r, 1, 2 * k - 2)
             U == W \cup WordsBefore(r, 1, 2 * k)
             now == Memory(Moved(B, d, s, y, L), V)
             a == A(k - 1)
  <2>1. /\ at \in Nat /\ Before(k + 1) = at + 2 * OPSIZ /\ at + 2 * OPSIZ <= N
        /\ at = (2 * k - 2) * OPSIZ
        /\ at + OPSIZ = (2 * k - 1) * OPSIZ /\ at + 2 * OPSIZ = (2 * k) * OPSIZ
    BY <1>b, PairsAre
  <2>2. k \in 0 .. p /\ k - 1 \in 0 .. p /\ (k - 1) + 1 = k /\ 2 * (k - 1) = 2 * k - 2
        /\ k \in Nat /\ k >= 1 /\ k # 0
    BY <1>0
  <2>3. M(k - 1) = now /\ M(k) = Memory(Moved(B, d, s, z, L), U)
    BY <2>1, <2>2
  <2>4. g[k - 1] = [m |-> now, a |-> a]
    BY <2>2, <2>3
  <2>5. A(k) = Word(now, Minus(r, at + 2 * OPSIZ))
    BY <2>1, <2>2, <2>3
  <2>6. g[k] = [m |-> Memory(Moved(B, d, s, z, L), U), a |-> Word(now, Minus(r, at + 2 * OPSIZ))]
    BY <2>2, <2>3, <2>5
  <2> HIDE DEF N, e, v
  <2>7. /\ y \in Nat /\ z \in Nat /\ z + OPSIZ \in Nat /\ (z + OPSIZ) + OPSIZ = y /\ y <= L
        /\ z + OPSIZ <= SIZE /\ (z + OPSIZ) + OPSIZ <= SIZE /\ z + OPSIZ <= L /\ z + OPSIZ <= (z + OPSIZ) + OPSIZ
        /\ z + (at + 2 * OPSIZ) = x /\ (z + OPSIZ) + (at + OPSIZ) = x /\ x <= SIZE
        /\ at + OPSIZ \in Nat /\ at + 2 * OPSIZ \in Nat
        /\ v + (N - (at + 2 * OPSIZ)) = z /\ v + (N - (at + OPSIZ)) = z + OPSIZ
        /\ N - (at + 2 * OPSIZ) \in Nat /\ N - (at + OPSIZ) \in Nat /\ N - (at + OPSIZ) >= OPSIZ
        /\ at + OPSIZ <= N /\ N <= SIZE - OPSIZ /\ at \in Nat
        /\ z + (at + 2 * OPSIZ) <= SIZE /\ (z + OPSIZ) + (at + OPSIZ) <= SIZE
    BY <1>a, <1>d, <2>1
  <2>8. /\ Minus(Plus(d, x), at + OPSIZ) = Plus(d, z + OPSIZ)
        /\ Minus(Plus(d, x), at + 2 * OPSIZ) = Plus(d, z)
    <3> HIDE DEF z, at
    <3>1. Minus(Plus(d, (z + OPSIZ) + (at + OPSIZ)), at + OPSIZ) = Plus(d, z + OPSIZ)
      BY <2>7, Along
    <3>2. Minus(Plus(d, z + (at + 2 * OPSIZ)), at + 2 * OPSIZ) = Plus(d, z)
      BY <2>7, Along
    <3> QED
      BY <2>7, <3>1, <3>2
  <2>9. V \cup {Minus(r, at + 2 * OPSIZ), Minus(r, at + OPSIZ)} = U
    <3>1. V \cup {Minus(r, (2 * k) * OPSIZ), Minus(r, (2 * k - 1) * OPSIZ)} = U
      BY <2>2, WordsGrowBefore
    <3> QED
      BY <2>1, <3>1
  <2>10. \A j \in 0 .. off - 1 : a[j] = B[Plus(s, (y + j) - off)]
    <3>1. CASE k = 1
      <4>1. k - 1 = 0 /\ at = 0 /\ y = x
        BY <1>c, <3>1
      <4> QED
        BY <4>1
    <3>2. CASE k # 1
      <4>1. k - 1 \in 1 .. p /\ k - 1 # 0 /\ (k - 1) - 1 + 1 = k - 1 /\ 2 * (k - 1) = 2 * k - 2
            /\ (k - 1) + 1 = k
        BY <1>0, <3>2
      <4> DEFINE y2 == x - Before(k - 1)
                 V2 == W \cup WordsBefore(r, 1, 2 * ((k - 1) - 1))
      <4>2. Before(k - 1) \in Nat /\ at = Before(k - 1) + 2 * OPSIZ
        <5>1. Before(k - 1) \in Nat /\ Before((k - 1) + 1) = Before(k - 1) + 2 * OPSIZ
          BY <1>b, <4>1, PairsAre
        <5> QED
          BY <4>1, <5>1
      <4>3. a = Word(Memory(Moved(B, d, s, y2, L), V2), Minus(r, at))
        BY <2>1, <4>1
      <4>4. ASSUME NEW j \in 0 .. off - 1
            PROVE  a[j] = B[Plus(s, (y + j) - off)]
        <5> DEFINE u == N - at
        <5>1. /\ u \in Nat /\ off <= u + j /\ u + j <= SIZE /\ 0 <= v + (u + j - off)
              /\ v + (u + j - off) < y2 /\ v + (u + j - off) = (y + j) - off
              /\ y2 \in Nat /\ y2 <= L /\ j \in 0 .. OPSIZ - 1 /\ at <= N /\ at \in Nat
          BY <1>a, <1>d, <2>1, <2>7, <4>2
        <5>2. Minus(r, at) = Plus(e, u)
          BY <1>f, <5>1
        <5> HIDE DEF y2, V2, a, at, y, u
        <5>3. Kept(Memory(Moved(B, d, s, y2, L), V2), B, e, off, s, v, 0, y2)
          BY <1>a, <1>d, <1>e, <5>1, PieceBwd
        <5>4. Word(Memory(Moved(B, d, s, y2, L), V2), Plus(e, u))[j] = B[Plus(s, v + (u + j - off))]
          BY <5>1, <5>3 DEF Kept
        <5> QED
          BY <4>3, <5>1, <5>2, <5>4
      <4> QED
        BY <4>4
    <3> QED
      BY <3>1, <3>2
  <2> HIDE DEF y, U, V, at, a, g, z
  <2>11. Reading(now, {Minus(r, at + 2 * OPSIZ), Minus(r, at + OPSIZ)}) = Memory(Moved(B, d, s, y, L), U)
    BY <2>9, ReadingIs
  <2>21. Kept(now, B, e, off, s, v, 0, y)
    BY <1>a, <1>d, <1>e, <2>7, PieceBwd
  <2> HIDE DEF now
  <2> DEFINE u1 == N - (at + OPSIZ)
             u0 == N - (at + 2 * OPSIZ)
             a1 == Word(now, Minus(r, at + OPSIZ))
             a0 == Word(now, Minus(r, at + 2 * OPSIZ))
  <2>22. a1 = Word(now, Plus(e, u1)) /\ a0 = Word(now, Plus(e, u0))
    BY <1>f, <2>1, <2>7
  <2>12. ASSUME NEW i \in 0 .. OPSIZ - 1, ~(i + off < OPSIZ)
         PROVE  /\ a1[i + off - OPSIZ] = B[Plus(s, z + i)]
                /\ a[i + off - OPSIZ] = B[Plus(s, (z + OPSIZ) + i)]
    <3> DEFINE j == i + off - OPSIZ
    <3>1. /\ j \in 0 .. OPSIZ - 1 /\ u1 \in Nat /\ off <= u1 + j /\ u1 + j <= SIZE
          /\ v + (u1 + j - off) = z + i /\ 0 <= z + i /\ z + i < y
          /\ j \in 0 .. off - 1 /\ (y + j) - off = (z + OPSIZ) + i
      BY <1>a, <1>d, <2>7, <2>12
    <3> HIDE DEF j, u1
    <3>2. a1[j] = B[Plus(s, z + i)]
      BY <2>21, <2>22, <3>1 DEF Kept
    <3>3. a[j] = B[Plus(s, (z + OPSIZ) + i)]
      BY <2>10, <3>1
    <3> QED
      BY <3>2, <3>3 DEF j
  <2>13. ASSUME NEW i \in 0 .. OPSIZ - 1, i + off < OPSIZ
         PROVE  a0[i + off] = B[Plus(s, z + i)] /\ a1[i + off] = B[Plus(s, (z + OPSIZ) + i)]
    <3> DEFINE j == i + off
    <3>1. /\ j \in 0 .. OPSIZ - 1 /\ u1 \in Nat /\ off <= u1 + j /\ u1 + j <= SIZE
          /\ v + (u1 + j - off) = (z + OPSIZ) + i /\ 0 <= (z + OPSIZ) + i /\ (z + OPSIZ) + i < y
          /\ u0 \in Nat /\ off <= u0 + j /\ u0 + j <= SIZE
          /\ v + (u0 + j - off) = z + i /\ 0 <= z + i /\ z + i < y
      BY <1>a, <1>d, <2>7, <2>13
    <3> HIDE DEF j, u1, u0
    <3>2. a1[j] = B[Plus(s, (z + OPSIZ) + i)]
      BY <2>21, <2>22, <3>1 DEF Kept
    <3>3. a0[j] = B[Plus(s, z + i)]
      BY <2>21, <2>22, <3>1 DEF Kept
    <3> QED
      BY <3>2, <3>3 DEF j
  <2> HIDE DEF a1, a0
  <2>14. \A i \in 0 .. OPSIZ - 1 : MERGE(a1, a, off)[i] = B[Plus(s, (z + OPSIZ) + i)]
    BY <2>12, <2>13, MergeIs
  <2>15. \A i \in 0 .. OPSIZ - 1 : MERGE(a0, a1, off)[i] = B[Plus(s, z + i)]
    BY <2>12, <2>13, MergeIs
  <2>16. StoreWord(Memory(Moved(B, d, s, (z + OPSIZ) + OPSIZ, L), U), Plus(d, z + OPSIZ), MERGE(a1, a, off))
          = Memory(Moved(B, d, s, z + OPSIZ, L), U)
    BY <2>7, <2>14, StoreWordBefore
  <2>17. StoreWord(Memory(Moved(B, d, s, z + OPSIZ, L), U), Plus(d, z), MERGE(a0, a1, off))
          = Memory(Moved(B, d, s, z, L), U)
    BY <2>7, <2>15, StoreWordBefore
  <2>18. g[k - 1].m = now /\ g[k - 1].a = a
    BY <2>4
  <2>23. (z + OPSIZ) + OPSIZ = y
    BY <2>7
  <2>19. Turn(g[k - 1], k) = [m |-> Memory(Moved(B, d, s, z, L), U), a |-> a0]
    BY <2>8, <2>11, <2>16, <2>17, <2>18, <2>23 DEF at, a1, a0
  <2> QED
    BY <2>6, <2>19 DEF a0
<1>2. g[0] = m
  <2>1. 0 \in 0 .. p /\ 1 .. (2 * 0) = {} /\ 0 + 1 = 1
    BY <1>0
  <2>2. WordsBefore(r, 1, 2 * 0) = {}
    BY <2>1 DEF WordsBefore
  <2>3. Before(1) = 0 /\ x - 0 = x
    BY <1>c
  <2>4. M(0) = Memory(Moved(B, d, s, x, L), W) /\ A(0) = a2
    BY <2>1, <2>2, <2>3
  <2> HIDE DEF M, A
  <2> QED
    BY <2>1, <2>4
<1> HIDE DEF M, A
<1>3. g = [k \in 0 .. p |-> IF k = 0 THEN m ELSE Turn(g[k - 1], k)]
  <2>1. ASSUME NEW k \in 0 .. p PROVE g[k] = IF k = 0 THEN m ELSE Turn(g[k - 1], k)
    <3>1. k # 0 => k \in 1 .. p
      BY <1>0
    <3> HIDE DEF p, g, Turn, m
    <3> QED
      BY <1>1, <1>2, <3>1
  <2> DEFINE h == [k \in 0 .. p |-> IF k = 0 THEN m ELSE Turn(g[k - 1], k)]
  <2>2. \A k \in 0 .. p : h[k] = g[k]
    <3> HIDE DEF p, g, Turn, m
    <3> QED
      BY <2>1
  <2>3. g = [k \in 0 .. p |-> g[k]] /\ h = [k \in 0 .. p |-> h[k]]
    <3> HIDE DEF Turn, m
    <3> QED
      OBVIOUS
  <2> HIDE DEF h, g, p
  <2>4. g = h
    BY <2>2, <2>3
  <2> QED
    BY <2>4 DEF h
<1>4. f = [k \in 0 .. p |-> IF k = 0 THEN m ELSE Turn(f[k - 1], k)]
  <2> HIDE DEF p, g, Turn, m
  <2> QED
    BY <1>3
<1>5. f[0] = g[0] /\ \A k \in 1 .. p : f[k - 1] = g[k - 1] => f[k] = g[k]
  <2> HIDE DEF f, p, g, Turn, m
  <2>0. 0 \in 0 .. p /\ \A k \in 1 .. p : k \in 0 .. p /\ k # 0
    BY <1>0
  <2>1. f[0] = m
    BY <1>4, <2>0
  <2>2. \A k \in 1 .. p : f[k] = Turn(f[k - 1], k)
    BY <1>4, <2>0
  <2> QED
    BY <1>1, <1>2, <2>1, <2>2
<1>6. f[p] = g[p]
  <2> HIDE DEF f, g, p
  <2>1. p \in Nat /\ p \in 0 .. p
    BY <1>0
  <2>2. \A k \in 0 .. p : f[k] = g[k]
    BY <1>5, <2>1, LoopIs
  <2> QED
    BY <2>1, <2>2
<1>7. BwdDestAlignedPairs(Memory(Moved(B, d, s, x, L), W), Plus(d, x), r, a2, off, n) = f[p].m
  BY DEF BwdDestAlignedPairs, Loop
<1>8. g[p].m = Memory(Moved(B, d, s, x - n * OPSIZ, L), W \cup WordsBefore(r, 1, n))
  <2>1. p \in 0 .. p
    BY <1>0
  <2>2. g[p].m = M(p)
    BY <2>1
  <2> QED
    BY <1>0, <1>c, <2>2 DEF M
<1> QED
  BY <1>6, <1>7, <1>8

-----------------------------------------------------------------------------
(* The words that are read *)

\* Fewer words, fewer bytes.
LEMMA FewerWords ==
    ASSUME NEW q \in Nat, NEW n \in Nat, q + 1 <= n
    PROVE  q * OPSIZ \in Nat /\ q * OPSIZ + OPSIZ <= n * OPSIZ /\ n * OPSIZ \in Nat
<1>1. OPSIZ \in Nat
  BY MemoryFunctionsAssumption
<1>2. n = (q + 1) + (n - (q + 1)) /\ n - (q + 1) \in Nat /\ q + 1 \in Nat
  OBVIOUS
<1> DEFINE k == n - (q + 1)
<1>3. n * OPSIZ = (q + 1) * OPSIZ + k * OPSIZ
  BY <1>1, <1>2
<1>4. k * OPSIZ \in Nat /\ (q + 1) * OPSIZ = q * OPSIZ + OPSIZ /\ q * OPSIZ \in Nat
  BY <1>1, <1>2
<1> HIDE DEF k
<1> QED
  BY <1>1, <1>3, <1>4

\* An address less than twice around the ring away, from both ends.
LEMMA TogetherBack ==
    ASSUME NEW r \in Addr, NEW s \in Addr, NEW off \in Nat, NEW x \in Nat, NEW c \in Nat,
           Plus(r, off) = Plus(s, x), c <= x, x <= SIZE, off + c <= SIZE
    PROVE  Minus(r, c) \in Addr /\ Plus(Minus(r, c), off) = Plus(s, x - c)
<1> DEFINE e == Minus(r, c)
           v == x - c
<1>1. SIZE \in Nat /\ c <= SIZE /\ v \in Nat /\ v + c = x /\ v + c <= SIZE /\ c + off <= SIZE
      /\ c + off = off + c
  BY MemoryFunctionsAssumption
<1>2. e \in Addr /\ Plus(e, c) = r
  BY <1>1, Back
<1> HIDE DEF e, v
<1>3. Plus(Plus(e, c), off) = Plus(e, c + off)
  BY <1>1, <1>2, Along
<1>4. Plus(e, off + c) = Plus(s, v + c)
  BY <1>1, <1>2, <1>3
<1>5. Minus(Plus(e, off + c), c) = Plus(e, off)
  BY <1>1, <1>2, Along
<1>6. Minus(Plus(s, v + c), c) = Plus(s, v)
  BY <1>1, Along
<1>7. Plus(e, off) = Plus(s, v)
  BY <1>4, <1>5, <1>6
<1> QED
  BY <1>2, <1>7 DEF e, v

\* A step of no bytes.
LEMMA PlusZero ==
    ASSUME NEW w \in Addr
    PROVE  Plus(w, 0) = w /\ Minus(w, 0) = w
<1>1. SIZE \in Nat /\ 0 \in 0 .. SIZE
  BY MemoryFunctionsAssumption
<1> QED
  BY <1>1, Ring DEF Addr

\* A word with one byte in common with the operand touches it.
LEMMA TouchAt ==
    ASSUME NEW w, NEW s, NEW L, NEW j \in 0 .. OPSIZ - 1, NEW i \in 0 .. L - 1, Plus(w, j) = Plus(s, i)
    PROVE  Touches(w, s, L)
  BY DEF Touches, Range0

\* A word that starts at a byte of the operand touches it.
LEMMA TouchStart ==
    ASSUME NEW s \in Addr, NEW L \in Nat, L <= SIZE, NEW i \in Nat, i < L
    PROVE  Touches(Plus(s, i), s, L)
<1>1. SIZE \in Nat /\ OPSIZ \in Nat /\ OPSIZ >= 1
  BY MemoryFunctionsAssumption
<1>2. i \in 0 .. L - 1 /\ 0 \in 0 .. OPSIZ - 1 /\ i + 0 <= SIZE
  BY <1>1
<1>3. Plus(s, i) \in Addr
  BY <1>2, Along
<1>4. Plus(Plus(s, i), 0) = Plus(s, i)
  BY <1>3, PlusZero
<1> QED
  BY <1>2, <1>4, TouchAt

\* The words the loops read touch the source: those from an address on, on the
\* grid of the copy.
LEMMA TouchFrom ==
    ASSUME NEW s \in Addr, NEW L \in Nat, L <= SIZE, NEW x \in Nat, NEW n \in Nat, x + n * OPSIZ <= L
    PROVE  \A w \in WordsFrom(Plus(s, x), 0, n - 1) : Touches(w, s, L)
<1>1. SUFFICES ASSUME NEW q \in 0 .. n - 1 PROVE Touches(Plus(Plus(s, x), q * OPSIZ), s, L)
  BY DEF WordsFrom
<1>2. SIZE \in Nat /\ OPSIZ \in Nat /\ OPSIZ >= 1 /\ q \in Nat /\ q + 1 <= n
  BY <1>1, MemoryFunctionsAssumption
<1>3. q * OPSIZ \in Nat /\ q * OPSIZ + OPSIZ <= n * OPSIZ /\ n * OPSIZ \in Nat
  BY <1>2, FewerWords
<1> DEFINE c == q * OPSIZ
<1>4. c \in Nat /\ x + c <= SIZE /\ x + c < L /\ x + c \in Nat
  BY <1>2, <1>3
<1> HIDE DEF c
<1>5. Plus(Plus(s, x), c) = Plus(s, x + c)
  BY <1>4, Along
<1>6. Touches(Plus(s, x + c), s, L)
  BY <1>4, TouchStart
<1> QED
  BY <1>5, <1>6 DEF c

\* Those in front of an address, on the grid of the copy.
LEMMA TouchBefore ==
    ASSUME NEW s \in Addr, NEW L \in Nat, L <= SIZE, NEW x \in Nat, x <= L, NEW n \in Nat, n * OPSIZ <= x
    PROVE  \A w \in WordsBefore(Plus(s, x), 1, n) : Touches(w, s, L)
<1>1. SUFFICES ASSUME NEW q \in 1 .. n PROVE Touches(Minus(Plus(s, x), q * OPSIZ), s, L)
  BY DEF WordsBefore
<1>2. SIZE \in Nat /\ OPSIZ \in Nat /\ OPSIZ >= 1 /\ q - 1 \in Nat /\ (q - 1) + 1 <= n /\ q \in Nat
  BY <1>1, MemoryFunctionsAssumption
<1>3. (q - 1) * OPSIZ \in Nat /\ (q - 1) * OPSIZ + OPSIZ <= n * OPSIZ /\ n * OPSIZ \in Nat
  BY <1>2, FewerWords
<1>0. (q - 1) * OPSIZ + OPSIZ = q * OPSIZ
  BY <1>2
<1> DEFINE c == q * OPSIZ
           v == x - c
<1>4. c \in Nat /\ v \in Nat /\ v + c = x /\ v < L /\ v + c <= SIZE
  BY <1>2, <1>3, <1>0
<1> HIDE DEF c, v
<1>5. Minus(Plus(s, v + c), c) = Plus(s, v)
  BY <1>4, Along
<1>6. Touches(Plus(s, v), s, L)
  BY <1>2, <1>4, TouchStart
<1> QED
  BY <1>4, <1>5, <1>6 DEF c

\* Those from an address on, across the grid of the copy: the first and the last
\* of them pass the ends of the bytes to be copied.
LEMMA TouchFromAcross ==
    ASSUME NEW s \in Addr, NEW L \in Nat, L <= SIZE, NEW x \in Nat, NEW n \in Nat, n >= 1,
           x + n * OPSIZ <= L, NEW r \in Addr, NEW off \in 1 .. OPSIZ - 1, Plus(r, off) = Plus(s, x)
    PROVE  \A w \in WordsFrom(r, 0, n) : Touches(w, s, L)
<1>1. SUFFICES ASSUME NEW q \in 0 .. n PROVE Touches(Plus(r, q * OPSIZ), s, L)
  BY DEF WordsFrom
<1>2. SIZE \in Nat /\ OPSIZ \in Nat /\ OPSIZ >= 1 /\ off \in Nat /\ off >= 1 /\ off < OPSIZ
      /\ off \in 0 .. OPSIZ - 1
  BY MemoryFunctionsAssumption
<1>3. n - 1 \in Nat /\ (n - 1) + 1 <= n
  OBVIOUS
<1>4. (n - 1) * OPSIZ + OPSIZ <= n * OPSIZ /\ n * OPSIZ \in Nat /\ (n - 1) * OPSIZ \in Nat
  BY <1>3, FewerWords
<1>5. CASE q = 0
  <2>1. x \in 0 .. L - 1
    BY <1>2, <1>4
  <2>2. Touches(r, s, L)
    BY <1>2, <2>1, TouchAt
  <2>3. q * OPSIZ = 0 /\ Plus(r, 0) = r
    BY <1>2, <1>5, PlusZero
  <2> QED
    BY <2>2, <2>3
<1>6. CASE q # 0
  <2>1. q - 1 \in Nat /\ (q - 1) + 1 <= n /\ q \in Nat
    BY <1>1, <1>6
  <2>2. (q - 1) * OPSIZ \in Nat /\ (q - 1) * OPSIZ + OPSIZ <= n * OPSIZ
    BY <2>1, FewerWords
  <2>3. (q - 1) * OPSIZ + OPSIZ = q * OPSIZ
    BY <1>2, <2>1
  <2> DEFINE z == q * OPSIZ - off
  <2>4. z \in Nat /\ off + z = q * OPSIZ /\ off + z <= SIZE /\ x + z <= SIZE /\ x + z < L /\ x + z \in Nat
    BY <1>2, <1>4, <2>2, <2>3
  <2> HIDE DEF z
  <2>5. Plus(r, off + z) = Plus(s, x + z)
    BY <1>2, <2>4, Together
  <2>6. Touches(Plus(s, x + z), s, L)
    BY <2>4, TouchStart
  <2> QED
    BY <2>4, <2>5, <2>6
<1> QED
  BY <1>5, <1>6

\* Those in front of an address, across the grid of the copy.
LEMMA TouchBeforeAcross ==
    ASSUME NEW s \in Addr, NEW L \in Nat, L + OPSIZ <= SIZE, NEW x \in Nat, x <= L, NEW n \in Nat, n >= 1,
           n * OPSIZ <= x, NEW r \in Addr, NEW off \in 1 .. OPSIZ - 1, Plus(r, off) = Plus(s, x)
    PROVE  \A w \in WordsBefore(r, 0, n) : Touches(w, s, L)
<1>1. SUFFICES ASSUME NEW q \in 0 .. n PROVE Touches(Minus(r, q * OPSIZ), s, L)
  BY DEF WordsBefore
<1>2. SIZE \in Nat /\ OPSIZ \in Nat /\ OPSIZ >= 1 /\ off \in Nat /\ off >= 1 /\ off < OPSIZ
      /\ off \in 0 .. OPSIZ - 1 /\ L <= SIZE
  BY MemoryFunctionsAssumption
<1>3. n - 1 \in Nat /\ (n - 1) + 1 <= n
  OBVIOUS
<1>4. (n - 1) * OPSIZ + OPSIZ <= n * OPSIZ /\ n * OPSIZ \in Nat /\ (n - 1) * OPSIZ \in Nat
  BY <1>3, FewerWords
<1>5. CASE q = 0
  <2> DEFINE v == x - off
  <2>1. v \in Nat /\ v < L /\ 0 + off <= SIZE /\ v + off <= SIZE /\ v + off = x /\ 0 + off = off /\ 0 \in Nat
    BY <1>2, <1>4
  <2> HIDE DEF v
  <2>2. Minus(Plus(r, 0 + off), off) = Plus(r, 0)
    BY <1>2, <2>1, Along
  <2>3. Minus(Plus(s, v + off), off) = Plus(s, v)
    BY <1>2, <2>1, Along
  <2>4. q * OPSIZ = 0 /\ Plus(r, 0) = r /\ Minus(r, 0) = r
    BY <1>2, <1>5, PlusZero
  <2>5. Touches(Plus(s, v), s, L)
    BY <1>2, <2>1, TouchStart
  <2> QED
    BY <2>1, <2>2, <2>3, <2>4, <2>5
<1>6. CASE q # 0
  <2>1. q - 1 \in Nat /\ (q - 1) + 1 <= n /\ q \in Nat
    BY <1>1, <1>6
  <2>2. (q - 1) * OPSIZ \in Nat /\ (q - 1) * OPSIZ + OPSIZ <= n * OPSIZ
    BY <2>1, FewerWords
  <2>3. (q - 1) * OPSIZ + OPSIZ = q * OPSIZ
    BY <1>2, <2>1
  <2> DEFINE c == q * OPSIZ
  <2>4. c \in Nat /\ c <= x /\ x <= SIZE /\ off + c <= SIZE /\ x - c \in 0 .. L - 1
    BY <1>2, <1>4, <2>2, <2>3
  <2> HIDE DEF c
  <2>5. Plus(Minus(r, c), off) = Plus(s, x - c)
    BY <1>2, <2>4, TogetherBack
  <2>6. Touches(Minus(r, c), s, L)
    BY <1>2, <2>4, <2>5, TouchAt
  <2> QED
    BY <2>6 DEF c
<1> QED
  BY <1>5, <1>6

-----------------------------------------------------------------------------
(* The four loops over words *)

\* The bytes lo .. hi - 1 have been copied, and the words read touch the source.
Carried(m, B, d, s, lo, hi, L) ==
    \E V : m = Memory(Moved(B, d, s, lo, hi), V) /\ \A w \in V : Touches(w, s, L)

\* What has been carried, from the memory it left.
LEMMA CarriedIs ==
    ASSUME NEW B, NEW d, NEW s, NEW lo, NEW hi, NEW L, NEW V, \A w \in V : Touches(w, s, L)
    PROVE  Carried(Memory(Moved(B, d, s, lo, hi), V), B, d, s, lo, hi, L)
  BY DEF Carried

\* The counts of words: one, or one and pairs, or pairs.
LEMMA OddEven ==
    ASSUME NEW n \in Nat, n >= 1
    PROVE  /\ n * OPSIZ \in Nat /\ n * OPSIZ >= OPSIZ
           /\ n = 1 => n * OPSIZ = OPSIZ
           /\ n # 1 /\ n % 2 = 1 => /\ n - 1 \in Nat /\ n - 1 >= 2 /\ (n - 1) % 2 = 0
                                    /\ OPSIZ + (n - 1) * OPSIZ = n * OPSIZ /\ (n - 1) * OPSIZ \in Nat
           /\ n # 1 /\ n % 2 # 1 => n >= 2 /\ n % 2 = 0
<1>1. OPSIZ \in Nat
  BY MemoryFunctionsAssumption
<1>2. n - 1 \in Nat /\ (n - 1) + 1 <= n
  OBVIOUS
<1>3. (n - 1) * OPSIZ \in Nat /\ n * OPSIZ \in Nat /\ (n - 1) * OPSIZ + OPSIZ <= n * OPSIZ
  BY <1>2, FewerWords
<1>4. OPSIZ + (n - 1) * OPSIZ = n * OPSIZ
  BY <1>1, <1>2
<1>5. n = 1 => n * OPSIZ = OPSIZ
  BY <1>1
<1>6. n # 1 /\ n % 2 = 1 => n - 1 >= 2 /\ (n - 1) % 2 = 0
  OBVIOUS
<1>7. n # 1 /\ n % 2 # 1 => n >= 2 /\ n % 2 = 0
  OBVIOUS
<1> DEFINE a == (n - 1) * OPSIZ
           b == n * OPSIZ
<1>8. a \in Nat /\ b \in Nat /\ OPSIZ + a = b
  BY <1>3, <1>4
<1> HIDE DEF a, b
<1>9. b >= OPSIZ
  BY <1>1, <1>8
<1> QED
  BY <1>2, <1>3, <1>4, <1>5, <1>6, <1>7, <1>9 DEF b

\* _wordcopy_fwd_aligned() copies n words.
LEMMA FwdAlignedCopies ==
    ASSUME NEW B, NEW m, NEW d \in Addr, NEW s \in Addr, NEW L \in Nat, L + OPSIZ <= SIZE,
           FwdSafe(d, s, L), NEW x \in Nat, NEW n \in Nat, n >= 1, x + n * OPSIZ <= L,
           Carried(m, B, d, s, 0, x, L)
    PROVE  Carried(wordcopy_fwd_aligned(m, Plus(d, x), Plus(s, x), n), B, d, s, 0, x + n * OPSIZ, L)
<1>1. PICK V : m = Memory(Moved(B, d, s, 0, x), V) /\ \A w \in V : Touches(w, s, L)
  BY DEF Carried
<1> DEFINE e == Plus(s, x)
           m1 == StoreWord(Reading(m, {e}), Plus(d, x), Word(m, e))
           V1 == V \cup {e}
<1>2. /\ OPSIZ \in Nat /\ OPSIZ >= 1 /\ SIZE \in Nat /\ L <= SIZE
      /\ n * OPSIZ \in Nat /\ n * OPSIZ >= OPSIZ
  BY OddEven, MemoryFunctionsAssumption
<1>3. x + OPSIZ <= SIZE /\ x + OPSIZ <= L /\ x <= L /\ x < L /\ x <= x /\ 0 <= x /\ x + OPSIZ \in Nat
  BY <1>2
<1>4. \A w \in V1 : Touches(w, s, L)
  BY <1>1, <1>2, <1>3, TouchStart
<1>5. m1 = Memory(Moved(B, d, s, 0, x + OPSIZ), V1)
  <2>1. Reading(m, {e}) = Memory(Moved(B, d, s, 0, x), V1)
    BY <1>1, ReadingIs
  <2> DEFINE now == Memory(Moved(B, d, s, 0, x), V)
             w == Word(now, Plus(s, x))
  <2>2. \A i \in 0 .. OPSIZ - 1 : w[i] = B[Plus(s, x + i)]
    <3>1. L <= SIZE /\ x + OPSIZ <= L
      BY <1>2, <1>3
    <3>2. \A i \in 0 .. OPSIZ - 1 : Word(Memory(Moved(B, d, s, 0, x), V), Plus(s, x))[i] = B[Plus(s, x + i)]
      BY <3>1, NextWordFwd
    <3> QED
      BY <3>2
  <2>0. m = now
    BY <1>1
  <2> HIDE DEF w, V1, now
  <2>3. StoreWord(Memory(Moved(B, d, s, 0, x), V1), Plus(d, x), w) = Memory(Moved(B, d, s, 0, x + OPSIZ), V1)
    BY <1>3, <2>2, StoreWordBehind
  <2> QED
    BY <2>0, <2>1, <2>3 DEF w
<1>6. Plus(Plus(d, x), OPSIZ) = Plus(d, x + OPSIZ) /\ Plus(e, OPSIZ) = Plus(s, x + OPSIZ)
  BY <1>2, <1>3, Along
<1>7. CASE n = 1
  <2>1. wordcopy_fwd_aligned(m, Plus(d, x), e, n) = m1 /\ n * OPSIZ = OPSIZ
    BY <1>7, OddEven DEF wordcopy_fwd_aligned
  <2> HIDE DEF m1, V1
  <2> QED
    BY <1>4, <1>5, <2>1, CarriedIs
<1>8. CASE n # 1 /\ n % 2 = 1
  <2>1. /\ n - 1 \in Nat /\ n - 1 >= 2 /\ (n - 1) % 2 = 0 /\ OPSIZ + (n - 1) * OPSIZ = n * OPSIZ
        /\ (n - 1) * OPSIZ \in Nat
    BY <1>8, OddEven
  <2>2. wordcopy_fwd_aligned(m, Plus(d, x), e, n) = FwdAlignedPairs(m1, Plus(Plus(d, x), OPSIZ), Plus(e, OPSIZ), n - 1)
    BY <1>8 DEF wordcopy_fwd_aligned
  <2> HIDE DEF m1, V1, e
  <2> DEFINE x1 == x + OPSIZ
             k == n - 1
             W1 == V1 \cup WordsFrom(Plus(s, x1), 0, k - 1)
  <2>3. x1 \in Nat /\ x1 + k * OPSIZ <= L /\ x1 + k * OPSIZ = x + n * OPSIZ /\ k \in Nat /\ k >= 2 /\ k % 2 = 0
    BY <1>2, <1>3, <2>1
  <2> HIDE DEF x1, k
  <2>4. FwdAlignedPairs(Memory(Moved(B, d, s, 0, x1), V1), Plus(d, x1), Plus(s, x1), k)
          = Memory(Moved(B, d, s, 0, x1 + k * OPSIZ), W1)
    BY <2>3, FwdAlignedPairsCopy
  <2>5. \A w \in WordsFrom(Plus(s, x1), 0, k - 1) : Touches(w, s, L)
    BY <1>2, <2>3, TouchFrom
  <2>6. \A w \in W1 : Touches(w, s, L)
    BY <1>4, <2>5
  <2> HIDE DEF W1
  <2>7. wordcopy_fwd_aligned(m, Plus(d, x), e, n) = Memory(Moved(B, d, s, 0, x + n * OPSIZ), W1)
    BY <1>5, <1>6, <2>2, <2>3, <2>4 DEF x1, k
  <2> QED
    BY <2>6, <2>7, CarriedIs DEF e
<1>9. CASE n # 1 /\ n % 2 # 1
  <2>1. n >= 2 /\ n % 2 = 0
    BY <1>9, OddEven
  <2>2. wordcopy_fwd_aligned(m, Plus(d, x), e, n) = FwdAlignedPairs(m, Plus(d, x), e, n)
    BY <1>9 DEF wordcopy_fwd_aligned
  <2> DEFINE W1 == V \cup WordsFrom(Plus(s, x), 0, n - 1)
  <2>4. FwdAlignedPairs(Memory(Moved(B, d, s, 0, x), V), Plus(d, x), Plus(s, x), n)
          = Memory(Moved(B, d, s, 0, x + n * OPSIZ), W1)
    BY <2>1, FwdAlignedPairsCopy
  <2>5. \A w \in WordsFrom(Plus(s, x), 0, n - 1) : Touches(w, s, L)
    BY <1>2, TouchFrom
  <2>6. \A w \in W1 : Touches(w, s, L)
    BY <1>1, <2>5
  <2> HIDE DEF W1
  <2> QED
    BY <1>1, <2>2, <2>4, <2>6, CarriedIs
<1> QED
  BY <1>7, <1>8, <1>9

\* _wordcopy_bwd_aligned() copies n words.
LEMMA BwdAlignedCopies ==
    ASSUME NEW B, NEW m, NEW d \in Addr, NEW s \in Addr, NEW L \in Nat, L + OPSIZ <= SIZE,
           BwdSafe(d, s, L), NEW x \in Nat, x <= L, NEW n \in Nat, n >= 1, n * OPSIZ <= x,
           Carried(m, B, d, s, x, L, L)
    PROVE  Carried(wordcopy_bwd_aligned(m, Plus(d, x), Plus(s, x), n), B, d, s, x - n * OPSIZ, L, L)
<1>1. PICK V : m = Memory(Moved(B, d, s, x, L), V) /\ \A w \in V : Touches(w, s, L)
  BY DEF Carried
<1> DEFINE e == Plus(s, x)
           z == x - OPSIZ
           e1 == Minus(e, OPSIZ)
           m1 == StoreWord(Reading(m, {e1}), Minus(Plus(d, x), OPSIZ), Word(m, e1))
           V1 == V \cup {e1}
<1>2. /\ OPSIZ \in Nat /\ OPSIZ >= 1 /\ SIZE \in Nat /\ L <= SIZE
      /\ n * OPSIZ \in Nat /\ n * OPSIZ >= OPSIZ
  BY OddEven, MemoryFunctionsAssumption
<1>3. z \in Nat /\ z + OPSIZ = x /\ z + OPSIZ <= SIZE /\ z + OPSIZ <= L /\ z < L /\ z + OPSIZ \in Nat
      /\ z + OPSIZ <= z + OPSIZ /\ z <= L
  BY <1>2
<1> HIDE DEF z
<1>6. Minus(Plus(d, x), OPSIZ) = Plus(d, z) /\ e1 = Plus(s, z)
  <2>1. Minus(Plus(d, z + OPSIZ), OPSIZ) = Plus(d, z) /\ Minus(Plus(s, z + OPSIZ), OPSIZ) = Plus(s, z)
    BY <1>2, <1>3, Along
  <2> QED
    BY <1>3, <2>1
<1>4. \A w \in V1 : Touches(w, s, L)
  <2>1. Touches(Plus(s, z), s, L)
    BY <1>2, <1>3, TouchStart
  <2> QED
    BY <1>1, <1>6, <2>1
<1>5. m1 = Memory(Moved(B, d, s, z, L), V1)
  <2>1. Reading(m, {e1}) = Memory(Moved(B, d, s, z + OPSIZ, L), V1)
    BY <1>1, <1>3, ReadingIs
  <2> DEFINE now == Memory(Moved(B, d, s, z + OPSIZ, L), V)
             w == Word(now, Plus(s, z))
  <2>2. \A i \in 0 .. OPSIZ - 1 : w[i] = B[Plus(s, z + i)]
    <3>1. L <= SIZE /\ z \in Nat /\ z + OPSIZ <= L
      BY <1>2, <1>3
    <3>2. \A i \in 0 .. OPSIZ - 1 :
            Word(Memory(Moved(B, d, s, z + OPSIZ, L), V), Plus(s, z))[i] = B[Plus(s, z + i)]
      BY <3>1, NextWordBwd
    <3> QED
      BY <3>2
  <2>0. m = now
    BY <1>1, <1>3
  <2> HIDE DEF w, e1, V1, now
  <2>3. StoreWord(Memory(Moved(B, d, s, z + OPSIZ, L), V1), Plus(d, z), w) = Memory(Moved(B, d, s, z, L), V1)
    BY <1>3, <2>2, StoreWordBefore
  <2> QED
    BY <1>6, <2>0, <2>1, <2>3 DEF w
<1>7. CASE n = 1
  <2>1. wordcopy_bwd_aligned(m, Plus(d, x), e, n) = m1 /\ n * OPSIZ = OPSIZ
    BY <1>7, OddEven DEF wordcopy_bwd_aligned
  <2> HIDE DEF m1, V1
  <2> QED
    BY <1>4, <1>5, <2>1, CarriedIs DEF z
<1>8. CASE n # 1 /\ n % 2 = 1
  <2>1. /\ n - 1 \in Nat /\ n - 1 >= 2 /\ (n - 1) % 2 = 0 /\ OPSIZ + (n - 1) * OPSIZ = n * OPSIZ
        /\ (n - 1) * OPSIZ \in Nat
    BY <1>8, OddEven
  <2>2. wordcopy_bwd_aligned(m, Plus(d, x), e, n) = BwdAlignedPairs(m1, Minus(Plus(d, x), OPSIZ), e1, n - 1)
    BY <1>8 DEF wordcopy_bwd_aligned
  <2> HIDE DEF m1, V1, e1
  <2> DEFINE k == n - 1
             W1 == V1 \cup WordsBefore(Plus(s, z), 1, k)
  <2>3. k * OPSIZ <= z /\ z - k * OPSIZ = x - n * OPSIZ /\ k \in Nat /\ k >= 2 /\ k % 2 = 0
    BY <1>2, <1>3, <2>1
  <2> HIDE DEF k
  <2>4. BwdAlignedPairs(Memory(Moved(B, d, s, z, L), V1), Plus(d, z), Plus(s, z), k)
          = Memory(Moved(B, d, s, z - k * OPSIZ, L), W1)
    BY <1>3, <2>3, BwdAlignedPairsCopy
  <2>5. \A w \in WordsBefore(Plus(s, z), 1, k) : Touches(w, s, L)
    BY <1>2, <1>3, <2>3, TouchBefore
  <2>6. \A w \in W1 : Touches(w, s, L)
    BY <1>4, <2>5
  <2> HIDE DEF W1
  <2>7. wordcopy_bwd_aligned(m, Plus(d, x), e, n) = Memory(Moved(B, d, s, x - n * OPSIZ, L), W1)
    BY <1>5, <1>6, <2>2, <2>3, <2>4 DEF k
  <2> QED
    BY <2>6, <2>7, CarriedIs DEF e
<1>9. CASE n # 1 /\ n % 2 # 1
  <2>1. n >= 2 /\ n % 2 = 0
    BY <1>9, OddEven
  <2>2. wordcopy_bwd_aligned(m, Plus(d, x), e, n) = BwdAlignedPairs(m, Plus(d, x), e, n)
    BY <1>9 DEF wordcopy_bwd_aligned
  <2> DEFINE W1 == V \cup WordsBefore(Plus(s, x), 1, n)
  <2>4. BwdAlignedPairs(Memory(Moved(B, d, s, x, L), V), Plus(d, x), Plus(s, x), n)
          = Memory(Moved(B, d, s, x - n * OPSIZ, L), W1)
    BY <2>1, BwdAlignedPairsCopy
  <2>5. \A w \in WordsBefore(Plus(s, x), 1, n) : Touches(w, s, L)
    BY <1>2, TouchBefore
  <2>6. \A w \in W1 : Touches(w, s, L)
    BY <1>1, <2>5
  <2> HIDE DEF W1
  <2> QED
    BY <1>1, <2>2, <2>4, <2>6, CarriedIs
<1> QED
  BY <1>7, <1>8, <1>9

\* A pointer is the start of its word and its offset.
LEMMA RoundIs ==
    ASSUME NEW q \in Addr
    PROVE  /\ q % OPSIZ \in 0 .. OPSIZ - 1 /\ RoundDown(q) \in Addr
           /\ Plus(RoundDown(q), q % OPSIZ) = q
<1>1. SIZE \in Nat /\ OPSIZ \in Nat /\ OPSIZ >= 1 /\ q \in Nat /\ q < SIZE
  BY MemoryFunctionsAssumption DEF Addr
<1>2. q % OPSIZ \in Nat /\ q % OPSIZ <= OPSIZ - 1 /\ q % OPSIZ <= q
  BY <1>1
<1> DEFINE o == q % OPSIZ
<1> HIDE DEF o
<1>3. o \in Nat /\ o <= OPSIZ - 1 /\ o <= q
  BY <1>2 DEF o
<1>4. q - o \in Addr /\ o \in 0 .. SIZE /\ o \in 0 .. OPSIZ - 1
  BY <1>1, <1>3 DEF Addr
<1>5. Plus(q - o, o) = q
  <2>1. Plus(q - o, o) = IF (q - o) + o < SIZE THEN (q - o) + o ELSE (q - o) + o - SIZE
    BY <1>4, Ring
  <2> QED
    BY <1>1, <1>3, <2>1
<1> QED
  BY <1>4, <1>5 DEF RoundDown, o

\* _wordcopy_fwd_dest_aligned() copies n words.
LEMMA FwdDestAlignedCopies ==
    ASSUME NEW B, NEW m, NEW d \in Addr, NEW s \in Addr, NEW L \in Nat, L + OPSIZ <= SIZE,
           FwdSafe(d, s, L), NEW x \in Nat, NEW n \in Nat, n >= 1, x + n * OPSIZ <= L,
           Carried(m, B, d, s, 0, x, L), Plus(s, x) % OPSIZ # 0
    PROVE  Carried(wordcopy_fwd_dest_aligned(m, Plus(d, x), Plus(s, x), n), B, d, s, 0, x + n * OPSIZ, L)
<1>1. PICK V : m = Memory(Moved(B, d, s, 0, x), V) /\ \A w \in V : Touches(w, s, L)
  BY DEF Carried
<1> DEFINE e == Plus(s, x)
           off == e % OPSIZ
           r == RoundDown(e)
           r1 == Plus(r, OPSIZ)
           now == Memory(Moved(B, d, s, 0, x), V)
           a0 == Word(now, r)
           a1 == Word(now, r1)
           V0 == V \cup {r}
           V1 == V0 \cup {r1}
           m0 == Reading(m, {r})
           m1 == StoreWord(Reading(m0, {r1}), Plus(d, x), MERGE(Word(m, r), Word(m, r1), off))
<1>2. /\ OPSIZ \in Nat /\ OPSIZ >= 1 /\ SIZE \in Nat /\ L <= SIZE
      /\ n * OPSIZ \in Nat /\ n * OPSIZ >= OPSIZ
  BY OddEven, MemoryFunctionsAssumption
<1>3. x + OPSIZ <= SIZE /\ x + OPSIZ <= L /\ x <= L /\ x < L /\ x <= x /\ 0 <= x /\ x + OPSIZ \in Nat
      /\ x + 0 <= SIZE
  BY <1>2
<1>4. e \in Addr
  BY <1>3, Along
<1>5. off \in 0 .. OPSIZ - 1 /\ r \in Addr /\ Plus(r, off) = Plus(s, x) /\ off # 0
  BY <1>4, RoundIs
<1> HIDE DEF off, r, e
<1>6. off \in 1 .. OPSIZ - 1 /\ off \in Nat /\ off < OPSIZ /\ OPSIZ + off <= SIZE /\ off + OPSIZ <= SIZE
      /\ OPSIZ + off = off + OPSIZ
  BY <1>2, <1>3, <1>5
<1>7. r1 \in Addr /\ Plus(r1, off) = Plus(s, x + OPSIZ)
  <2>1. r1 \in Addr /\ Plus(r1, off) = Plus(r, OPSIZ + off)
    BY <1>2, <1>5, <1>6, Along
  <2>2. Plus(r, off + OPSIZ) = Plus(s, x + OPSIZ)
    BY <1>2, <1>3, <1>5, <1>6, Together
  <2> QED
    BY <1>6, <2>1, <2>2
<1>8. Plus(r, 0) = r
  BY <1>5, PlusZero
<1>9. Kept(now, B, r, off, s, x, x, L)
  BY <1>2, <1>3, <1>5, <1>6, PieceFwd
<1> HIDE DEF now
<1>10. m = now /\ m0 = Memory(Moved(B, d, s, 0, x), V0)
  BY <1>1, ReadingIs DEF now
<1>11. \A j \in off .. OPSIZ - 1 : a0[j] = B[Plus(s, x + (j - off))]
  <2> TAKE j \in off .. OPSIZ - 1
  <2>1. j \in 0 .. OPSIZ - 1 /\ off <= 0 + j /\ 0 + j <= SIZE /\ x <= x + (0 + j - off) /\ x + (0 + j - off) < L
        /\ 0 \in Nat /\ x + (0 + j - off) = x + (j - off)
    BY <1>2, <1>3, <1>6
  <2>2. Word(now, Plus(r, 0))[j] = B[Plus(s, x + (0 + j - off))]
    BY <1>9, <2>1 DEF Kept
  <2> QED
    BY <1>8, <2>1, <2>2
<1>12. \A i \in 0 .. OPSIZ - 1 : MERGE(a0, a1, off)[i] = B[Plus(s, x + i)]
  <2> TAKE i \in 0 .. OPSIZ - 1
  <2>1. CASE i + off < OPSIZ
    <3>1. i + off \in off .. OPSIZ - 1 /\ (i + off) - off = i
      BY <1>2, <1>6, <2>1
    <3>2. a0[i + off] = B[Plus(s, x + i)]
      BY <1>11, <3>1
    <3> QED
      BY <1>5, <2>1, <3>2, MergeIs
  <2>2. CASE ~(i + off < OPSIZ)
    <3> DEFINE j == i + off - OPSIZ
    <3>1. /\ j \in 0 .. OPSIZ - 1 /\ off <= OPSIZ + j /\ OPSIZ + j <= SIZE
          /\ x + (OPSIZ + j - off) = x + i /\ x <= x + i /\ x + i < L
      BY <1>2, <1>3, <1>6, <2>2
    <3> HIDE DEF j
    <3>2. Word(now, Plus(r, OPSIZ))[j] = B[Plus(s, x + i)]
      BY <1>2, <1>9, <3>1 DEF Kept
    <3>3. MERGE(a0, a1, off)[i] = a1[j]
      BY <1>5, <2>2, MergeIs DEF j
    <3> QED
      BY <3>2, <3>3
  <2> QED
    BY <2>1, <2>2
<1>13. /\ \A w \in WordsFrom(r, 0, n) : Touches(w, s, L)
       /\ \A w \in V1 : Touches(w, s, L)
  <2>1. \A w \in WordsFrom(r, 0, n) : Touches(w, s, L)
    BY <1>2, <1>5, <1>6, TouchFromAcross
  <2>2. 0 \in 0 .. n /\ 1 \in 0 .. n /\ 0 * OPSIZ = 0 /\ 1 * OPSIZ = OPSIZ
    BY <1>2
  <2>3. Plus(r, 0 * OPSIZ) \in WordsFrom(r, 0, n) /\ Plus(r, 1 * OPSIZ) \in WordsFrom(r, 0, n)
    BY <2>2 DEF WordsFrom
  <2>4. r \in WordsFrom(r, 0, n) /\ r1 \in WordsFrom(r, 0, n)
    BY <1>8, <2>2, <2>3
  <2> QED
    BY <1>1, <2>1, <2>4
<1> HIDE DEF a0, a1
<1>14. m1 = Memory(Moved(B, d, s, 0, x + OPSIZ), V1)
  <2> DEFINE w == MERGE(a0, a1, off)
  <2>1. Reading(m0, {r1}) = Memory(Moved(B, d, s, 0, x), V1)
    BY <1>10, ReadingIs
  <2> HIDE DEF w, V1, m0
  <2>3. StoreWord(Memory(Moved(B, d, s, 0, x), V1), Plus(d, x), w) = Memory(Moved(B, d, s, 0, x + OPSIZ), V1)
    BY <1>3, <1>12, StoreWordBehind DEF w
  <2> QED
    BY <1>10, <2>1, <2>3 DEF w, a0, a1
<1>15. Plus(Plus(d, x), OPSIZ) = Plus(d, x + OPSIZ)
  BY <1>2, <1>3, Along
<1>16. CASE n = 1
  <2>1. wordcopy_fwd_dest_aligned(m, Plus(d, x), e, n) = m1 /\ n * OPSIZ = OPSIZ
    BY <1>16, OddEven DEF wordcopy_fwd_dest_aligned, off, r
  <2> HIDE DEF m1, V1
  <2> QED
    BY <1>13, <1>14, <2>1, CarriedIs DEF e
<1>17. CASE n # 1 /\ n % 2 = 1
  <2>1. /\ n - 1 \in Nat /\ n - 1 >= 2 /\ (n - 1) % 2 = 0 /\ OPSIZ + (n - 1) * OPSIZ = n * OPSIZ
        /\ (n - 1) * OPSIZ \in Nat
    BY <1>17, OddEven
  <2>2. wordcopy_fwd_dest_aligned(m, Plus(d, x), e, n)
          = FwdDestAlignedPairs(m1, Plus(Plus(d, x), OPSIZ), r1, a1, off, n - 1)
    BY <1>10, <1>17 DEF wordcopy_fwd_dest_aligned, off, r, a1
  <2> HIDE DEF m1, V1, r1
  <2> DEFINE x1 == x + OPSIZ
             k == n - 1
             W1 == V1 \cup WordsFrom(r1, 1, k)
  <2>3. x1 \in Nat /\ x1 + k * OPSIZ <= L /\ x1 + k * OPSIZ = x + n * OPSIZ /\ k \in Nat /\ k >= 2 /\ k % 2 = 0
        /\ k >= 1
    BY <1>2, <1>3, <2>1
  <2>4. k * OPSIZ \in Nat /\ k * OPSIZ >= OPSIZ
    BY <2>3, OddEven
  <2>5. \A j \in off .. OPSIZ - 1 : a1[j] = B[Plus(s, x1 + (j - off))]
    <3> TAKE j \in off .. OPSIZ - 1
    <3>1. j \in 0 .. OPSIZ - 1 /\ off <= OPSIZ + j /\ OPSIZ + j <= SIZE /\ x <= x + (OPSIZ + j - off)
          /\ x + (OPSIZ + j - off) < L /\ x + (OPSIZ + j - off) = x1 + (j - off)
      <4> HIDE DEF k
      <4> DEFINE c == k * OPSIZ
      <4>1. c \in Nat /\ c >= OPSIZ /\ x1 + c <= L
        BY <2>3, <2>4
      <4> HIDE DEF c
      <4> QED
        BY <1>2, <1>3, <1>6, <4>1
    <3> HIDE DEF x1
    <3>2. Word(now, Plus(r, OPSIZ))[j] = B[Plus(s, x1 + (j - off))]
      BY <1>2, <1>9, <3>1 DEF Kept
    <3> QED
      BY <3>2 DEF a1, r1
  <2> HIDE DEF x1, k
  <2>6. Plus(r1, off) = Plus(s, x1)
    BY <1>7 DEF x1
  <2>7. FwdDestAlignedPairs(Memory(Moved(B, d, s, 0, x1), V1), Plus(d, x1), r1, a1, off, k)
          = Memory(Moved(B, d, s, 0, x1 + k * OPSIZ), W1)
    BY <1>5, <1>7, <2>3, <2>5, <2>6, FwdDestAlignedPairsCopy
  <2>8. \A w \in WordsFrom(r1, 0, k) : Touches(w, s, L)
    BY <1>2, <1>6, <1>7, <2>3, <2>6, TouchFromAcross
  <2>9. \A w \in W1 : Touches(w, s, L)
    BY <1>13, <2>8, <2>3 DEF WordsFrom
  <2> HIDE DEF W1
  <2>10. wordcopy_fwd_dest_aligned(m, Plus(d, x), e, n) = Memory(Moved(B, d, s, 0, x + n * OPSIZ), W1)
    BY <1>14, <1>15, <2>2, <2>3, <2>7 DEF x1, k
  <2> QED
    BY <2>9, <2>10, CarriedIs DEF e
<1>18. CASE n # 1 /\ n % 2 # 1
  <2>1. n >= 2 /\ n % 2 = 0
    BY <1>18, OddEven
  <2>2. wordcopy_fwd_dest_aligned(m, Plus(d, x), e, n)
          = FwdDestAlignedPairs(m0, Plus(d, x), r, a0, off, n)
    BY <1>10, <1>18 DEF wordcopy_fwd_dest_aligned, off, r, a0
  <2> DEFINE W1 == V0 \cup WordsFrom(r, 1, n)
  <2>3. FwdDestAlignedPairs(Memory(Moved(B, d, s, 0, x), V0), Plus(d, x), r, a0, off, n)
          = Memory(Moved(B, d, s, 0, x + n * OPSIZ), W1)
    <3> HIDE DEF V0
    <3> QED
      BY <1>5, <1>11, <2>1, FwdDestAlignedPairsCopy
  <2>4. \A w \in W1 : Touches(w, s, L)
    BY <1>13, <2>1 DEF WordsFrom
  <2> HIDE DEF W1, m0
  <2> QED
    BY <1>10, <2>2, <2>3, <2>4, CarriedIs DEF e
<1> QED
  BY <1>16, <1>17, <1>18

\* _wordcopy_bwd_dest_aligned() copies n words.
LEMMA BwdDestAlignedCopies ==
    ASSUME NEW B, NEW m, NEW d \in Addr, NEW s \in Addr, NEW L \in Nat, L + OPSIZ <= SIZE,
           BwdSafe(d, s, L), NEW x \in Nat, x <= L, NEW n \in Nat, n >= 1, n * OPSIZ <= x,
           Carried(m, B, d, s, x, L, L), Plus(s, x) % OPSIZ # 0
    PROVE  Carried(wordcopy_bwd_dest_aligned(m, Plus(d, x), Plus(s, x), n), B, d, s, x - n * OPSIZ, L, L)
<1>1. PICK V : m = Memory(Moved(B, d, s, x, L), V) /\ \A w \in V : Touches(w, s, L)
  BY DEF Carried
<1> DEFINE e == Plus(s, x)
           off == e % OPSIZ
           r == RoundDown(e)
           r1 == Minus(r, OPSIZ)
           z == x - OPSIZ
           now == Memory(Moved(B, d, s, x, L), V)
           a2 == Word(now, r)
           a1 == Word(now, r1)
           V0 == V \cup {r}
           V1 == V0 \cup {r1}
           m0 == Reading(m, {r})
           m1 == StoreWord(Reading(m0, {r1}), Minus(Plus(d, x), OPSIZ), MERGE(Word(m, r1), Word(m, r), off))
<1>2. /\ OPSIZ \in Nat /\ OPSIZ >= 1 /\ SIZE \in Nat /\ L <= SIZE
      /\ n * OPSIZ \in Nat /\ n * OPSIZ >= OPSIZ
  BY OddEven, MemoryFunctionsAssumption
<1>3. /\ z \in Nat /\ z + OPSIZ = x /\ z + OPSIZ <= SIZE /\ z + OPSIZ <= L /\ z < L /\ z <= L /\ z + OPSIZ \in Nat
      /\ x <= SIZE /\ x + 0 <= SIZE /\ OPSIZ <= x /\ z + OPSIZ <= z + OPSIZ /\ OPSIZ <= SIZE
  BY <1>2
<1>4. e \in Addr
  BY <1>3, Along
<1>5. off \in 0 .. OPSIZ - 1 /\ r \in Addr /\ Plus(r, off) = Plus(s, x) /\ off # 0
  BY <1>4, RoundIs
<1> HIDE DEF off, r, e
<1>6. off \in 1 .. OPSIZ - 1 /\ off \in Nat /\ off < OPSIZ /\ OPSIZ + off <= SIZE /\ off + OPSIZ <= SIZE
      /\ OPSIZ + off = off + OPSIZ
  BY <1>2, <1>3, <1>5
<1>7. r1 \in Addr /\ Plus(r1, off) = Plus(s, z) /\ Plus(r1, OPSIZ) = r
  <2>1. r1 \in Addr /\ Plus(r1, off) = Plus(s, x - OPSIZ)
    BY <1>2, <1>3, <1>5, <1>6, TogetherBack
  <2>2. Plus(r1, OPSIZ) = r
    BY <1>2, <1>3, <1>5, Back
  <2> QED
    BY <2>1, <2>2
<1> HIDE DEF z, r1
<1>8. Plus(r1, 0) = r1
  BY <1>7, PlusZero
<1>9. Kept(now, B, r1, off, s, z, 0, x)
  BY <1>2, <1>3, <1>6, <1>7, PieceBwd
<1>19. \A y \in Nat, q \in Addr : Plus(q, off) = Plus(s, y) => Kept(now, B, q, off, s, y, 0, x)
  BY <1>2, <1>3, <1>6, PieceBwd
<1> HIDE DEF now
<1>10. m = now /\ m0 = Memory(Moved(B, d, s, x, L), V0)
  BY <1>1, ReadingIs DEF now
<1>11. \A j \in 0 .. off - 1 : a2[j] = B[Plus(s, (x + j) - off)]
  <2> TAKE j \in 0 .. off - 1
  <2>1. j \in 0 .. OPSIZ - 1 /\ off <= OPSIZ + j /\ OPSIZ + j <= SIZE /\ 0 <= z + (OPSIZ + j - off)
        /\ z + (OPSIZ + j - off) < x /\ z + (OPSIZ + j - off) = (x + j) - off
    BY <1>2, <1>3, <1>6
  <2>2. Word(now, Plus(r1, OPSIZ))[j] = B[Plus(s, z + (OPSIZ + j - off))]
    BY <1>2, <1>9, <2>1 DEF Kept
  <2> QED
    BY <1>7, <2>1, <2>2
<1>12. \A i \in 0 .. OPSIZ - 1 : MERGE(a1, a2, off)[i] = B[Plus(s, z + i)]
  <2> TAKE i \in 0 .. OPSIZ - 1
  <2>1. CASE i + off < OPSIZ
    <3> DEFINE j == i + off
    <3>1. /\ j \in 0 .. OPSIZ - 1 /\ off <= 0 + j /\ 0 + j <= SIZE /\ z + (0 + j - off) = z + i
          /\ 0 <= z + i /\ z + i < x /\ 0 \in Nat
      BY <1>2, <1>3, <1>6, <2>1
    <3> HIDE DEF j
    <3>2. Word(now, Plus(r1, 0))[j] = B[Plus(s, z + i)]
      BY <1>9, <3>1 DEF Kept
    <3>3. MERGE(a1, a2, off)[i] = a1[j]
      BY <1>5, <2>1, MergeIs DEF j
    <3> QED
      BY <1>8, <3>2, <3>3
  <2>2. CASE ~(i + off < OPSIZ)
    <3> DEFINE j == i + off - OPSIZ
    <3>1. j \in 0 .. off - 1 /\ (x + j) - off = z + i
      BY <1>2, <1>3, <1>6, <2>2
    <3> HIDE DEF j, a1, a2
    <3>2. a2[j] = B[Plus(s, z + i)]
      BY <1>11, <3>1
    <3>3. MERGE(a1, a2, off)[i] = a2[j]
      BY <1>5, <2>2, MergeIs DEF j
    <3> QED
      BY <3>2, <3>3
  <2> QED
    BY <2>1, <2>2
<1>13. /\ \A w \in WordsBefore(r, 0, n) : Touches(w, s, L)
       /\ \A w \in V1 : Touches(w, s, L)
  <2>1. \A w \in WordsBefore(r, 0, n) : Touches(w, s, L)
    BY <1>2, <1>5, <1>6, TouchBeforeAcross
  <2>2. 0 \in 0 .. n /\ 1 \in 0 .. n /\ 0 * OPSIZ = 0 /\ 1 * OPSIZ = OPSIZ
    BY <1>2
  <2>3. Minus(r, 0 * OPSIZ) \in WordsBefore(r, 0, n) /\ Minus(r, 1 * OPSIZ) \in WordsBefore(r, 0, n)
    BY <2>2 DEF WordsBefore
  <2>4. Minus(r, 0) = r
    BY <1>5, PlusZero
  <2>5. r \in WordsBefore(r, 0, n) /\ r1 \in WordsBefore(r, 0, n)
    BY <2>2, <2>3, <2>4 DEF r1
  <2> QED
    BY <1>1, <2>1, <2>5
<1> HIDE DEF a2, a1
<1>15. Minus(Plus(d, x), OPSIZ) = Plus(d, z)
  <2>1. Minus(Plus(d, z + OPSIZ), OPSIZ) = Plus(d, z)
    BY <1>2, <1>3, Along
  <2> QED
    BY <1>3, <2>1
<1>14. m1 = Memory(Moved(B, d, s, z, L), V1)
  <2> DEFINE w == MERGE(a1, a2, off)
  <2>1. Reading(m0, {r1}) = Memory(Moved(B, d, s, z + OPSIZ, L), V1)
    BY <1>3, <1>10, ReadingIs
  <2> HIDE DEF w, V1, m0
  <2>3. StoreWord(Memory(Moved(B, d, s, z + OPSIZ, L), V1), Plus(d, z), w) = Memory(Moved(B, d, s, z, L), V1)
    BY <1>3, <1>12, StoreWordBefore DEF w
  <2> QED
    BY <1>10, <1>15, <2>1, <2>3 DEF w, a2, a1
<1>16. CASE n = 1
  <2>1. wordcopy_bwd_dest_aligned(m, Plus(d, x), e, n) = m1 /\ n * OPSIZ = OPSIZ
    BY <1>16, OddEven DEF wordcopy_bwd_dest_aligned, off, r, r1
  <2> HIDE DEF m1, V1
  <2> QED
    BY <1>13, <1>14, <2>1, CarriedIs DEF e, z
<1>17. CASE n # 1 /\ n % 2 = 1
  <2>1. /\ n - 1 \in Nat /\ n - 1 >= 2 /\ (n - 1) % 2 = 0 /\ OPSIZ + (n - 1) * OPSIZ = n * OPSIZ
        /\ (n - 1) * OPSIZ \in Nat
    BY <1>17, OddEven
  <2>2. wordcopy_bwd_dest_aligned(m, Plus(d, x), e, n)
          = BwdDestAlignedPairs(m1, Minus(Plus(d, x), OPSIZ), r1, a1, off, n - 1)
    BY <1>10, <1>17 DEF wordcopy_bwd_dest_aligned, off, r, a1, r1
  <2> HIDE DEF m1, V1
  <2> DEFINE k == n - 1
             W1 == V1 \cup WordsBefore(r1, 1, k)
  <2>3. k * OPSIZ <= z /\ z - k * OPSIZ = x - n * OPSIZ /\ k \in Nat /\ k >= 2 /\ k % 2 = 0 /\ k >= 1
    BY <1>2, <1>3, <2>1
  <2>4. k * OPSIZ \in Nat /\ k * OPSIZ >= OPSIZ
    BY <2>3, OddEven
  <2>5. \A j \in 0 .. off - 1 : a1[j] = B[Plus(s, (z + j) - off)]
    <3> DEFINE v == z - OPSIZ
               r2 == Minus(r1, OPSIZ)
    <3>1. OPSIZ <= z /\ v \in Nat /\ v + OPSIZ = z
      <4> HIDE DEF k
      <4> DEFINE c == k * OPSIZ
      <4>1. c \in Nat /\ c >= OPSIZ /\ c <= z
        BY <2>3, <2>4
      <4> HIDE DEF c
      <4> QED
        BY <1>2, <1>3, <4>1
    <3>2. r2 \in Addr /\ Plus(r2, off) = Plus(s, v)
      BY <1>2, <1>3, <1>6, <1>7, <3>1, TogetherBack
    <3>3. Plus(r2, OPSIZ) = r1
      BY <1>2, <1>3, <1>7, Back
    <3> HIDE DEF v, r2, k
    <3>4. Kept(now, B, r2, off, s, v, 0, x)
      BY <1>19, <3>1, <3>2
    <3> TAKE j \in 0 .. off - 1
    <3>5. j \in 0 .. OPSIZ - 1 /\ off <= OPSIZ + j /\ OPSIZ + j <= SIZE /\ 0 <= v + (OPSIZ + j - off)
          /\ v + (OPSIZ + j - off) < x /\ v + (OPSIZ + j - off) = (z + j) - off
      BY <1>2, <1>3, <1>6, <3>1
    <3>6. Word(now, Plus(r2, OPSIZ))[j] = B[Plus(s, v + (OPSIZ + j - off))]
      BY <1>2, <3>4, <3>5 DEF Kept
    <3> QED
      BY <3>3, <3>5, <3>6 DEF a1
  <2> HIDE DEF k
  <2>7. BwdDestAlignedPairs(Memory(Moved(B, d, s, z, L), V1), Plus(d, z), r1, a1, off, k)
          = Memory(Moved(B, d, s, z - k * OPSIZ, L), W1)
    BY <1>3, <1>5, <1>7, <2>3, <2>5, BwdDestAlignedPairsCopy
  <2>8. \A w \in WordsBefore(r1, 0, k) : Touches(w, s, L)
    BY <1>3, <1>6, <1>7, <2>3, TouchBeforeAcross
  <2>9. \A w \in W1 : Touches(w, s, L)
    BY <1>13, <2>8, <2>3 DEF WordsBefore
  <2> HIDE DEF W1
  <2>10. wordcopy_bwd_dest_aligned(m, Plus(d, x), e, n) = Memory(Moved(B, d, s, x - n * OPSIZ, L), W1)
    BY <1>14, <1>15, <2>2, <2>3, <2>7 DEF k
  <2> QED
    BY <2>9, <2>10, CarriedIs DEF e
<1>18. CASE n # 1 /\ n % 2 # 1
  <2>1. n >= 2 /\ n % 2 = 0
    BY <1>18, OddEven
  <2>2. wordcopy_bwd_dest_aligned(m, Plus(d, x), e, n)
          = BwdDestAlignedPairs(m0, Plus(d, x), r, a2, off, n)
    BY <1>10, <1>18 DEF wordcopy_bwd_dest_aligned, off, r, a2
  <2> DEFINE W1 == V0 \cup WordsBefore(r, 1, n)
  <2>3. BwdDestAlignedPairs(Memory(Moved(B, d, s, x, L), V0), Plus(d, x), r, a2, off, n)
          = Memory(Moved(B, d, s, x - n * OPSIZ, L), W1)
    <3> HIDE DEF V0
    <3> QED
      BY <1>5, <1>11, <2>1, BwdDestAlignedPairsCopy
  <2>4. \A w \in W1 : Touches(w, s, L)
    BY <1>13, <2>1 DEF WordsBefore
  <2> HIDE DEF W1, m0
  <2> QED
    BY <1>10, <2>2, <2>3, <2>4, CarriedIs DEF e
<1> QED
  BY <1>16, <1>17, <1>18

-----------------------------------------------------------------------------
(* memcpy and memmove *)

\* BYTE_COPY_FWD carries the next n bytes.
LEMMA ByteFwdCarries ==
    ASSUME NEW B, NEW m, NEW d \in Addr, NEW s \in Addr, NEW L \in Nat, L <= SIZE,
           FwdSafe(d, s, L), NEW x \in Nat, NEW n \in Nat, x + n <= L, Carried(m, B, d, s, 0, x, L)
    PROVE  Carried(BYTE_COPY_FWD(m, Plus(d, x), Plus(s, x), n), B, d, s, 0, x + n, L)
<1>1. PICK V : m = Memory(Moved(B, d, s, 0, x), V) /\ \A w \in V : Touches(w, s, L)
  BY DEF Carried
<1>2. BYTE_COPY_FWD(Memory(Moved(B, d, s, 0, x), V), Plus(d, x), Plus(s, x), n)
        = Memory(Moved(B, d, s, 0, x + n), V)
  <2>1. x + n <= SIZE
    BY MemoryFunctionsAssumption
  <2>2. FwdSafe(d, s, x + n)
    BY DEF FwdSafe
  <2> QED
    BY <2>1, <2>2, ByteFwd
<1> QED
  BY <1>1, <1>2, CarriedIs

\* BYTE_COPY_BWD carries the n bytes in front.
LEMMA ByteBwdCarries ==
    ASSUME NEW B, NEW m, NEW d \in Addr, NEW s \in Addr, NEW L \in Nat, L <= SIZE,
           BwdSafe(d, s, L), NEW x \in Nat, NEW n \in Nat, n <= x, x <= L, Carried(m, B, d, s, x, L, L)
    PROVE  Carried(BYTE_COPY_BWD(m, Plus(d, x), Plus(s, x), n), B, d, s, x - n, L, L)
<1>1. PICK V : m = Memory(Moved(B, d, s, x, L), V) /\ \A w \in V : Touches(w, s, L)
  BY DEF Carried
<1>2. BYTE_COPY_BWD(Memory(Moved(B, d, s, x, L), V), Plus(d, x), Plus(s, x), n)
        = Memory(Moved(B, d, s, x - n, L), V)
  BY ByteBwd
<1> QED
  BY <1>1, <1>2, CarriedIs

\* The whole words in n bytes.
LEMMA WholeWords ==
    ASSUME NEW n \in Nat
    PROVE  /\ n \div OPSIZ \in Nat /\ (n \div OPSIZ) * OPSIZ = RoundDown(n)
           /\ RoundDown(n) \in Nat /\ RoundDown(n) <= n /\ n - RoundDown(n) < OPSIZ
           /\ n >= OPSIZ => n \div OPSIZ >= 1
<1>1. OPSIZ \in Nat /\ OPSIZ >= 1
  BY MemoryFunctionsAssumption
<1>2. n \div OPSIZ \in Nat /\ n % OPSIZ \in Nat /\ n % OPSIZ < OPSIZ
  BY <1>1
<1>3. n = OPSIZ * (n \div OPSIZ) + (n % OPSIZ)
  BY <1>1
<1> DEFINE q == n \div OPSIZ
           o == n % OPSIZ
<1> HIDE DEF q, o
<1>4. q \in Nat /\ o \in Nat /\ o < OPSIZ /\ n = OPSIZ * q + o
  BY <1>2, <1>3 DEF q, o
<1>5. OPSIZ * q \in Nat /\ q * OPSIZ = OPSIZ * q
  BY <1>1, <1>4
<1>6. q = 0 => OPSIZ * q = 0
  BY <1>1, <1>4
<1>7. n >= OPSIZ => q >= 1
  BY <1>1, <1>4, <1>6
<1>8. q * OPSIZ = n - o /\ n - o \in Nat /\ n - o <= n /\ n - (n - o) < OPSIZ
  BY <1>1, <1>4, <1>5
<1> QED
  BY <1>4, <1>7, <1>8 DEF q, o, RoundDown

\* WORD_COPY_FWD carries the whole words of the next n bytes, whatever the
\* alignment of the source.
LEMMA WordFwdCarries ==
    ASSUME NEW B, NEW m, NEW d \in Addr, NEW s \in Addr, NEW L \in Nat, L + OPSIZ <= SIZE,
           FwdSafe(d, s, L), NEW x \in Nat, NEW n \in Nat, n >= OPSIZ, x + n <= L,
           Carried(m, B, d, s, 0, x, L)
    PROVE  Carried(WORD_COPY_FWD(m, Plus(d, x), Plus(s, x), n), B, d, s, 0, x + RoundDown(n), L)
<1> DEFINE q == n \div OPSIZ
<1>1. q \in Nat /\ q >= 1 /\ q * OPSIZ = RoundDown(n) /\ RoundDown(n) \in Nat /\ RoundDown(n) <= n
  BY WholeWords
<1>2. x + q * OPSIZ <= L
  BY <1>1
<1> HIDE DEF q
<1>3. CASE Plus(s, x) % OPSIZ = 0
  <2>1. Carried(wordcopy_fwd_aligned(m, Plus(d, x), Plus(s, x), q), B, d, s, 0, x + q * OPSIZ, L)
    BY <1>1, <1>2, FwdAlignedCopies
  <2> QED
    BY <1>1, <1>3, <2>1 DEF WORD_COPY_FWD, q
<1>4. CASE Plus(s, x) % OPSIZ # 0
  <2>1. Carried(wordcopy_fwd_dest_aligned(m, Plus(d, x), Plus(s, x), q), B, d, s, 0, x + q * OPSIZ, L)
    BY <1>1, <1>2, <1>4, FwdDestAlignedCopies
  <2> QED
    BY <1>1, <1>4, <2>1 DEF WORD_COPY_FWD, q
<1> QED
  BY <1>3, <1>4

\* WORD_COPY_BWD carries the whole words of the n bytes in front.
LEMMA WordBwdCarries ==
    ASSUME NEW B, NEW m, NEW d \in Addr, NEW s \in Addr, NEW L \in Nat, L + OPSIZ <= SIZE,
           BwdSafe(d, s, L), NEW x \in Nat, NEW n \in Nat, n >= OPSIZ, n <= x, x <= L,
           Carried(m, B, d, s, x, L, L)
    PROVE  Carried(WORD_COPY_BWD(m, Plus(d, x), Plus(s, x), n), B, d, s, x - RoundDown(n), L, L)
<1> DEFINE q == n \div OPSIZ
<1>1. q \in Nat /\ q >= 1 /\ q * OPSIZ = RoundDown(n) /\ RoundDown(n) \in Nat /\ RoundDown(n) <= n
  BY WholeWords
<1>2. q * OPSIZ <= x
  BY <1>1
<1> HIDE DEF q
<1>3. CASE Plus(s, x) % OPSIZ = 0
  <2>1. Carried(wordcopy_bwd_aligned(m, Plus(d, x), Plus(s, x), q), B, d, s, x - q * OPSIZ, L, L)
    BY <1>1, <1>2, BwdAlignedCopies
  <2> QED
    BY <1>1, <1>3, <2>1 DEF WORD_COPY_BWD, q
<1>4. CASE Plus(s, x) % OPSIZ # 0
  <2>1. Carried(wordcopy_bwd_dest_aligned(m, Plus(d, x), Plus(s, x), q), B, d, s, x - q * OPSIZ, L, L)
    BY <1>1, <1>2, <1>4, BwdDestAlignedCopies
  <2> QED
    BY <1>1, <1>4, <2>1 DEF WORD_COPY_BWD, q
<1> QED
  BY <1>3, <1>4

\* Nothing has been copied yet.
LEMMA NothingMoved ==
    ASSUME NEW B, B = [a \in Addr |-> B[a]], NEW d \in Addr, NEW s \in Addr, NEW L \in Nat
    PROVE  Moved(B, d, s, 0, 0) = B /\ Moved(B, d, s, L, L) = B
<1>1. ASSUME NEW a \in Addr PROVE Moved(B, d, s, 0, 0)[a] = B[a] /\ Moved(B, d, s, L, L)[a] = B[a]
  <2>1. Minus(a, d) \in Addr
    BY <1>1, Offset
  <2>2. Minus(a, d) \in Nat
    BY <2>1, MemoryFunctionsAssumption DEF Addr
  <2> QED
    BY <2>2 DEF Moved
<1>2. /\ Moved(B, d, s, 0, 0) = [a \in Addr |-> Moved(B, d, s, 0, 0)[a]]
      /\ Moved(B, d, s, L, L) = [a \in Addr |-> Moved(B, d, s, L, L)[a]]
  BY DEF Moved
<1> QED
  BY <1>1, <1>2

\* memcpy() copies.
LEMMA MemcpyCopies ==
    ASSUME NEW B, B = [a \in Addr |-> B[a]], NEW d \in Addr, NEW s \in Addr, NEW L \in Nat,
           2 * L <= SIZE, FwdSafe(d, s, L)
    PROVE  Carried(memcpy(Memory(B, {}), d, s, L), B, d, s, 0, L, L)
<1> DEFINE m == Memory(B, {})
<1>0. OPSIZ \in Nat /\ OPSIZ >= 1 /\ SIZE \in Nat /\ OP_T_THRES \in Nat /\ OP_T_THRES >= 2 * OPSIZ
      /\ L <= SIZE /\ 0 \in Nat /\ 0 + L <= L
  BY MemoryFunctionsAssumption
<1>1. Carried(m, B, d, s, 0, 0, L)
  <2>1. Carried(Memory(Moved(B, d, s, 0, 0), {}), B, d, s, 0, 0, L)
    BY CarriedIs
  <2> QED
    BY <2>1, NothingMoved
<1>2. Plus(d, 0) = d /\ Plus(s, 0) = s
  BY PlusZero
<1> HIDE DEF m
<1>3. CASE L < OP_T_THRES
  <2>1. Carried(BYTE_COPY_FWD(m, Plus(d, 0), Plus(s, 0), L), B, d, s, 0, 0 + L, L)
    BY <1>0, <1>1, ByteFwdCarries
  <2>2. 0 + L = L
    OBVIOUS
  <2> QED
    BY <1>2, <1>3, <2>1, <2>2 DEF memcpy, m
<1>4. CASE ~(L < OP_T_THRES)
  <2> DEFINE head == Minus(0, d) % OPSIZ
             rest == L - head
             words == RoundDown(rest)
             m1 == BYTE_COPY_FWD(m, d, s, head)
             m2 == WORD_COPY_FWD(m1, Plus(d, head), Plus(s, head), rest)
             m3 == BYTE_COPY_FWD(m2, Plus(d, head + words), Plus(s, head + words), rest - words)
  <2>1. memcpy(m, d, s, L) = m3
    BY <1>4 DEF memcpy
  <2>2. head \in Nat /\ head < OPSIZ
    <3>1. 0 \in Addr /\ d \in 0 .. SIZE
      BY <1>0, MemoryFunctionsAssumption DEF Addr
    <3>2. Minus(0, d) \in Addr
      BY <3>1, Ring
    <3>3. Minus(0, d) % OPSIZ \in 0 .. OPSIZ - 1
      BY <3>2, RoundIs
    <3> QED
      BY <1>0, <3>3
  <2> HIDE DEF head
  <2>3. /\ rest \in Nat /\ rest >= OPSIZ /\ head + rest = L /\ L + OPSIZ <= SIZE /\ 0 + head <= L /\ 0 + head = head
        /\ head + rest <= L
    BY <1>0, <1>4, <2>2
  <2> HIDE DEF rest
  <2>4. words \in Nat /\ words <= rest
    BY <2>3, WholeWords
  <2>5. Carried(m1, B, d, s, 0, head, L)
    <3>1. Carried(BYTE_COPY_FWD(m, Plus(d, 0), Plus(s, 0), head), B, d, s, 0, 0 + head, L)
      BY <1>0, <1>1, <2>2, <2>3, ByteFwdCarries
    <3> QED
      BY <1>2, <2>3, <3>1
  <2> HIDE DEF m1
  <2>6. Carried(m2, B, d, s, 0, head + words, L)
    BY <2>2, <2>3, <2>5, WordFwdCarries
  <2> HIDE DEF m2, words
  <2>7. head + words \in Nat /\ rest - words \in Nat /\ (head + words) + (rest - words) = L
        /\ (head + words) + (rest - words) <= L
    BY <2>2, <2>3, <2>4
  <2>8. Carried(m3, B, d, s, 0, (head + words) + (rest - words), L)
    BY <1>0, <2>6, <2>7, ByteFwdCarries
  <2> QED
    BY <2>1, <2>7, <2>8 DEF m
<1> QED
  BY <1>3, <1>4

\* The one comparison of memmove() tells the direction in which it is safe to copy.
LEMMA FarIsFwdSafe ==
    ASSUME NEW d \in Addr, NEW s \in Addr, NEW L \in Nat, L <= SIZE, Minus(d, s) >= L
    PROVE  FwdSafe(d, s, L)
<1> DEFINE o == Minus(d, s)
<1>1. SIZE \in Nat /\ d \in Nat /\ s \in Nat /\ d < SIZE /\ s < SIZE /\ s \in 0 .. SIZE
  BY MemoryFunctionsAssumption DEF Addr
<1>2. o = IF s <= d THEN d - s ELSE d - s + SIZE
  BY <1>1, Ring
<1>3. SUFFICES ASSUME NEW i \in 0 .. L - 1, NEW j \in 0 .. L - 1, j < i PROVE Plus(s, i) # Plus(d, j)
  BY DEF FwdSafe
<1>4. i \in 0 .. SIZE /\ j \in 0 .. SIZE
  BY <1>1, <1>3
<1>5. /\ Plus(s, i) = IF s + i < SIZE THEN s + i ELSE s + i - SIZE
      /\ Plus(d, j) = IF d + j < SIZE THEN d + j ELSE d + j - SIZE
  BY <1>4, Ring
<1> QED
  BY <1>1, <1>2, <1>3, <1>5

\* Where it copies from the end.
LEMMA NearIsBwdSafe ==
    ASSUME NEW d \in Addr, NEW s \in Addr, NEW L \in Nat, 2 * L <= SIZE, Minus(d, s) < L
    PROVE  BwdSafe(d, s, L)
<1> DEFINE o == Minus(d, s)
<1>1. SIZE \in Nat /\ d \in Nat /\ s \in Nat /\ d < SIZE /\ s < SIZE /\ s \in 0 .. SIZE
  BY MemoryFunctionsAssumption DEF Addr
<1>2. o = IF s <= d THEN d - s ELSE d - s + SIZE
  BY <1>1, Ring
<1>3. SUFFICES ASSUME NEW i \in 0 .. L - 1, NEW j \in 0 .. L - 1, i < j PROVE Plus(s, i) # Plus(d, j)
  BY DEF BwdSafe
<1>4. i \in 0 .. SIZE /\ j \in 0 .. SIZE
  BY <1>1, <1>3
<1>5. /\ Plus(s, i) = IF s + i < SIZE THEN s + i ELSE s + i - SIZE
      /\ Plus(d, j) = IF d + j < SIZE THEN d + j ELSE d + j - SIZE
  BY <1>4, Ring
<1> QED
  BY <1>1, <1>2, <1>3, <1>5

\* memmove() copies, whatever the overlap.
LEMMA MemmoveCopies ==
    ASSUME NEW B, B = [a \in Addr |-> B[a]], NEW d \in Addr, NEW s \in Addr, NEW L \in Nat,
           2 * L <= SIZE
    PROVE  Carried(memmove(Memory(B, {}), d, s, L), B, d, s, 0, L, L)
<1> DEFINE m == Memory(B, {})
           dend == Plus(d, L)
           send == Plus(s, L)
<1>0. OPSIZ \in Nat /\ OPSIZ >= 1 /\ SIZE \in Nat /\ OP_T_THRES \in Nat /\ OP_T_THRES >= 2 * OPSIZ
      /\ L <= SIZE /\ 0 \in Nat /\ L <= L /\ L + 0 <= SIZE
  BY MemoryFunctionsAssumption
<1>1. Minus(d, s) \in Nat
  <2>1. Minus(d, s) \in Addr
    BY Offset
  <2> QED
    BY <1>0, <2>1 DEF Addr
<1>2. CASE Minus(d, s) >= L
  <2>1. FwdSafe(d, s, L)
    BY <1>0, <1>2, FarIsFwdSafe
  <2>2. Carried(memcpy(Memory(B, {}), d, s, L), B, d, s, 0, L, L)
    BY <2>1, MemcpyCopies
  <2> QED
    BY <1>1, <1>2, <2>2 DEF memmove
<1>3. CASE ~(Minus(d, s) >= L)
  <2>1. BwdSafe(d, s, L)
    BY <1>0, <1>1, <1>3, NearIsBwdSafe
  <2>2. Carried(m, B, d, s, L, L, L)
    <3>1. Carried(Memory(Moved(B, d, s, L, L), {}), B, d, s, L, L, L)
      BY CarriedIs
    <3> QED
      BY <3>1, NothingMoved
  <2>3. CASE L < OP_T_THRES
    <3>1. Carried(BYTE_COPY_BWD(m, dend, send, L), B, d, s, L - L, L, L)
      BY <1>0, <2>1, <2>2, ByteBwdCarries
    <3>2. L - L = 0
      OBVIOUS
    <3> QED
      BY <1>3, <2>3, <1>1, <3>1, <3>2 DEF memmove
  <2>4. CASE ~(L < OP_T_THRES)
    <3> DEFINE tail == dend % OPSIZ
               rest == L - tail
               words == RoundDown(rest)
               m1 == BYTE_COPY_BWD(m, dend, send, tail)
               m2 == WORD_COPY_BWD(m1, Minus(dend, tail), Minus(send, tail), rest)
               m3 == BYTE_COPY_BWD(m2, Minus(dend, tail + words), Minus(send, tail + words), rest - words)
    <3>1. memmove(m, d, s, L) = m3
      BY <1>1, <1>3, <2>4 DEF memmove
    <3>2. tail \in Nat /\ tail < OPSIZ
      <4>1. dend \in Addr
        BY <1>0, Along
      <4>2. dend % OPSIZ \in 0 .. OPSIZ - 1
        BY <4>1, RoundIs
      <4> QED
        BY <1>0, <4>2
    <3> HIDE DEF tail, m
    <3>3. /\ rest \in Nat /\ rest >= OPSIZ /\ rest + tail = L /\ L + OPSIZ <= SIZE /\ rest <= L /\ rest <= rest
          /\ rest + tail <= SIZE /\ tail <= L /\ rest = L - tail
      BY <1>0, <2>4, <3>2
    <3> HIDE DEF rest
    <3>4. words \in Nat /\ words <= rest
      BY <3>3, WholeWords
    <3>5. Carried(m1, B, d, s, rest, L, L)
      <4>1. Carried(BYTE_COPY_BWD(m, Plus(d, L), Plus(s, L), tail), B, d, s, L - tail, L, L)
        BY <1>0, <2>1, <2>2, <3>2, <3>3, ByteBwdCarries
      <4> QED
        BY <3>3, <4>1
    <3>6. Minus(dend, tail) = Plus(d, rest) /\ Minus(send, tail) = Plus(s, rest)
      <4>1. Minus(Plus(d, rest + tail), tail) = Plus(d, rest) /\ Minus(Plus(s, rest + tail), tail) = Plus(s, rest)
        BY <3>2, <3>3, Along
      <4> QED
        BY <3>3, <4>1
    <3> DEFINE left == rest - words
    <3>7. /\ left \in Nat /\ left + (tail + words) = L /\ tail + words \in Nat /\ left + (tail + words) <= SIZE
          /\ left <= L /\ left <= left /\ left - left = 0
      BY <1>0, <3>2, <3>3, <3>4
    <3> HIDE DEF m1, words
    <3>8. Carried(m2, B, d, s, left, L, L)
      <4>1. Carried(WORD_COPY_BWD(m1, Plus(d, rest), Plus(s, rest), rest), B, d, s, rest - RoundDown(rest), L, L)
        BY <2>1, <3>3, <3>5, WordBwdCarries
      <4> QED
        BY <3>6, <4>1 DEF words
    <3> HIDE DEF m2, left
    <3>9. Minus(dend, tail + words) = Plus(d, left) /\ Minus(send, tail + words) = Plus(s, left)
      <4>1. /\ Minus(Plus(d, left + (tail + words)), tail + words) = Plus(d, left)
            /\ Minus(Plus(s, left + (tail + words)), tail + words) = Plus(s, left)
        BY <3>7, Along
      <4> QED
        BY <3>7, <4>1
    <3>10. Carried(BYTE_COPY_BWD(m2, Plus(d, left), Plus(s, left), left), B, d, s, left - left, L, L)
      BY <1>0, <2>1, <3>7, <3>8, ByteBwdCarries
    <3> QED
      BY <3>1, <3>7, <3>9, <3>10 DEF m, left
  <2> QED
    BY <2>3, <2>4
<1> QED
  BY <1>2, <1>3

\* The bytes of a block, by their distance from its start.
LEMMA InRange ==
    ASSUME NEW a \in Addr, NEW p \in Addr, NEW n \in Nat, n <= SIZE
    PROVE  a \in Range0(p, n) <=> Minus(a, p) < n
<1> DEFINE o == Minus(a, p)
<1>0. SIZE \in Nat
  BY MemoryFunctionsAssumption
<1>1. o \in Addr /\ Plus(p, o) = a
  BY Offset
<1>2. o \in Nat
  BY <1>0, <1>1 DEF Addr
<1> HIDE DEF o
<1>3. ASSUME o < n PROVE a \in Range0(p, n)
  <2>1. o \in 0 .. n - 1
    BY <1>2, <1>3
  <2> QED
    BY <1>1, <2>1 DEF Range0
<1>4. ASSUME a \in Range0(p, n) PROVE o < n
  <2>1. PICK i \in 0 .. n - 1 : a = Plus(p, i)
    BY <1>4 DEF Range0
  <2>2. i \in Addr
    BY <1>0 DEF Addr
  <2>3. Minus(Plus(p, i), p) = i
    BY <2>2, OffsetOf
  <2>4. o = i
    BY <2>1, <2>3 DEF o
  <2> QED
    BY <2>4
<1> QED
  BY <1>3, <1>4 DEF o

\* Operands without a byte in common can be copied from the front.
LEMMA ApartIsFwdSafe ==
    ASSUME NEW d, NEW s, NEW L, Range0(d, L) \cap Range0(s, L) = {}
    PROVE  FwdSafe(d, s, L)
  BY DEF FwdSafe, Range0

-----------------------------------------------------------------------------
(* memset *)

\* What memset() fills too many is less than a word.
LEMMA OverrunIs ==
    ASSUME NEW d \in Addr, NEW n \in Nat
    PROVE  Overrun(d, n) \in Nat /\ Overrun(d, n) < OPSIZ
<1>1. OPSIZ \in Nat /\ OPSIZ >= 1 /\ SIZE \in Nat /\ SIZE >= 1 /\ 0 \in Addr
  BY MemoryFunctionsAssumption DEF Addr
<1>2. Minus(0, d) \in Addr
  BY <1>1, Offset
<1>3. Minus(0, d) \in Nat
  BY <1>1, <1>2 DEF Addr
<1>4. Minus(0, d) % OPSIZ \in Nat /\ Minus(0, d) % OPSIZ < OPSIZ
  BY <1>1, <1>3
<1> QED
  BY <1>1, <1>4 DEF Overrun

\* memset() fills its block and the overrun behind it.
LEMMA MemsetFills ==
    ASSUME NEW m, NEW d \in Addr, NEW c, NEW n \in Nat
    PROVE  memset(m, d, c, n) = Fill(m, d, c, n + Overrun(d, n))
<1>1. CASE n < MEMSET_THRES
  <2>1. n + Overrun(d, n) = n
    BY <1>1 DEF Overrun
  <2> QED
    BY <1>1, <2>1 DEF memset
<1>2. CASE ~(n < MEMSET_THRES)
  <2> DEFINE head == Minus(0, d) % OPSIZ
             q == n % (OPSIZ * 8)
             blocks == (n \div (OPSIZ * 8)) * OPSIZ * 8
             words == RoundDown(q)
             tail == q % OPSIZ
  <2>1. memset(m, d, c, n) = Fill(m, d, c, head + blocks + words + tail)
    BY <1>2 DEF memset
  <2>2. head = Overrun(d, n) /\ head \in Nat
    BY <1>2, OverrunIs DEF Overrun
  <2>3. OPSIZ \in Nat /\ OPSIZ >= 1 /\ OPSIZ * 8 \in Nat /\ OPSIZ * 8 >= 1
    BY MemoryFunctionsAssumption
  <2> DEFINE k == OPSIZ * 8
             j == n \div k
  <2>4. q \in Nat /\ j \in Nat /\ n = k * j + q
    <3>1. \A i \in Nat : i >= 1 => n % i \in Nat /\ n \div i \in Nat /\ n = i * (n \div i) + (n % i)
      OBVIOUS
    <3>2. k \in Nat /\ k >= 1
      BY <2>3
    <3>3. n % k \in Nat /\ n \div k \in Nat /\ n = k * (n \div k) + (n % k)
      <4> HIDE DEF k
      <4> QED
        BY <3>1, <3>2
    <3> QED
      BY <3>3
  <2>5. tail \in Nat /\ words = q - tail
    BY <2>3, <2>4 DEF RoundDown
  <2>6. blocks = k * j
    <3> HIDE DEF j
    <3>1. j * OPSIZ * 8 = (OPSIZ * 8) * j
      BY <2>3, <2>4
    <3> QED
      BY <3>1 DEF j
  <2> HIDE DEF head, blocks, words, tail, q, j, k
  <2>7. k * j \in Nat
    BY <2>3, <2>4 DEF k
  <2>8. head + blocks + words + tail = n + head
    BY <2>2, <2>4, <2>5, <2>6, <2>7
  <2> QED
    BY <2>1, <2>2, <2>8
<1> QED
  BY <1>1, <1>2

-----------------------------------------------------------------------------
\* The bytes of B with the text X over them from address p on.
Written(B, p, X) == [a \in Addr |-> IF Minus(a, p) < Len(X) THEN X[Minus(a, p) + 1] ELSE B[a]]

\* The memory the property asks for is the one with the text over it.
LEMMA CellsWritten ==
    ASSUME NEW m, NEW p \in Addr, NEW X, Len(X) \in Nat, Len(X) <= SIZE
    PROVE  Changed(m, AsCells(p, X)) = Written(m.b, p, X)
<1>1. ASSUME NEW a \in Addr PROVE a \in Range0(p, Len(X)) <=> Minus(a, p) < Len(X)
  BY <1>1, InRange
<1>2. DOMAIN AsCells(p, X) = Range0(p, Len(X))
      /\ \A a \in Range0(p, Len(X)) : AsCells(p, X)[a] = X[Minus(a, p) + 1]
  BY DEF AsCells
<1> QED
  BY <1>1, <1>2 DEF Changed, Written

\* What a text of a caller is.
LEMMA TextIs ==
    ASSUME NEW t \in Seq(Nat \ {NUL})
    PROVE  /\ Len(t) \in Nat /\ \A i \in 1 .. Len(t) : t[i] # NUL
           /\ Len(Terminated(t)) = Len(t) + 1
           /\ \A i \in 1 .. Len(t) : Terminated(t)[i] = t[i]
           /\ Terminated(t)[Len(t) + 1] = NUL
<1>1. \A i \in 1 .. Len(t) : t[i] \in Nat \ {NUL}
  OBVIOUS
<1>2. t \in Seq(Nat) /\ NUL \in Nat
  BY DEF NUL
<1>3. Len(Append(t, NUL)) = Len(t) + 1
  BY <1>2
<1>4. \A i \in 1 .. Len(t) : Append(t, NUL)[i] = t[i]
  BY <1>2
<1>5. Append(t, NUL)[Len(t) + 1] = NUL
  BY <1>2
<1> QED
  BY <1>1, <1>3, <1>4, <1>5 DEF Terminated

\* Where the callers keep the two texts.
Apart(d, t1, s, t2, n) ==
    /\ d \in Addr /\ s \in Addr /\ t1 \in Seq(Nat \ {NUL}) /\ t2 \in Seq(Nat \ {NUL}) /\ n \in Nat
    /\ Len(t1) + Len(t2) + 1 + n <= Minus(s, d)
    /\ Len(t2) + 1 <= Minus(d, s)

\* The way there and the way back are once around.
LEMMA Round ==
    ASSUME NEW d \in Addr, NEW s \in Addr, d # s
    PROVE  Minus(s, d) + Minus(d, s) = SIZE /\ Minus(s, d) \in Nat /\ Minus(d, s) \in Nat
<1>1. SIZE \in Nat /\ s \in Nat /\ d \in Nat /\ s < SIZE /\ d < SIZE /\ s \in 0 .. SIZE /\ d \in 0 .. SIZE
  BY MemoryFunctionsAssumption DEF Addr
<1>2. /\ Minus(s, d) = IF d <= s THEN s - d ELSE s - d + SIZE
      /\ Minus(d, s) = IF s <= d THEN d - s ELSE d - s + SIZE
  BY <1>1, Ring
<1> QED
  BY <1>1, <1>2

\* The distance between two bytes of different blocks.
LEMMA Farther ==
    ASSUME NEW d \in Addr, NEW s \in Addr, NEW i \in Nat, Minus(s, d) + i < SIZE
    PROVE  Minus(Plus(s, i), d) = Minus(s, d) + i
<1> DEFINE o == Minus(s, d)
<1>1. SIZE \in Nat /\ o \in Addr /\ Plus(d, o) = s
  BY Offset, MemoryFunctionsAssumption
<1>2. o \in Nat /\ o + i <= SIZE /\ o + i \in Addr
  BY <1>1 DEF Addr
<1> HIDE DEF o
<1>3. Plus(Plus(d, o), i) = Plus(d, o + i)
  BY <1>2, Along
<1>4. Minus(Plus(d, o + i), d) = o + i
  BY <1>2, OffsetOf
<1> QED
  BY <1>1, <1>3, <1>4 DEF o

\* The memory with the texts.
LEMMA TextsAre ==
    ASSUME NEW d, NEW t1, NEW s, NEW t2, NEW n, Apart(d, t1, s, t2, n)
    PROVE  /\ TextMemory(d, t1, s, t2) = Memory(TextMemory(d, t1, s, t2).b, {})
           /\ TextMemory(d, t1, s, t2).b = [a \in Addr |-> TextMemory(d, t1, s, t2).b[a]]
           /\ \A i \in 0 .. Len(t1) : TextMemory(d, t1, s, t2).b[Plus(d, i)] = Terminated(t1)[i + 1]
           /\ \A i \in 0 .. Len(t2) : TextMemory(d, t1, s, t2).b[Plus(s, i)] = Terminated(t2)[i + 1]
<1> DEFINE T == TextMemory(d, t1, s, t2).b
<1>0. /\ d \in Addr /\ s \in Addr /\ t1 \in Seq(Nat \ {NUL}) /\ t2 \in Seq(Nat \ {NUL}) /\ n \in Nat
      /\ Len(t1) + Len(t2) + 1 + n <= Minus(s, d) /\ Len(t2) + 1 <= Minus(d, s)
  BY DEF Apart
<1>1. Len(t1) \in Nat /\ Len(t2) \in Nat /\ Len(Terminated(t1)) = Len(t1) + 1 /\ Len(Terminated(t2)) = Len(t2) + 1
  BY <1>0, TextIs
<1>2. TextMemory(d, t1, s, t2) = Memory(T, {}) /\ T = [a \in Addr |-> T[a]]
  BY DEF TextMemory, Memory
<1>3. \A a \in Addr : T[a] = CASE Holds(a, d, Terminated(t1)) -> Terminated(t1)[Minus(a, d) + 1]
                               [] Holds(a, s, Terminated(t2)) -> Terminated(t2)[Minus(a, s) + 1]
                               [] OTHER -> 9
  BY DEF TextMemory
<1>4. Minus(s, d) + Minus(d, s) = SIZE /\ Minus(s, d) \in Nat /\ Minus(d, s) \in Nat /\ SIZE \in Nat
  <2>0. SIZE \in Nat /\ d \in 0 .. SIZE
    BY <1>0, MemoryFunctionsAssumption DEF Addr
  <2>1. d # s
    <3>1. Minus(d, d) = 0
      BY <1>0, <2>0, Ring DEF Addr
    <3> QED
      BY <1>0, <1>1, <3>1
  <2> QED
    BY <1>0, <2>0, <2>1, Round
<1> HIDE DEF T
<1>5. ASSUME NEW i \in 0 .. Len(t1) PROVE T[Plus(d, i)] = Terminated(t1)[i + 1]
  <2> DEFINE a == Plus(d, i)
  <2>1. i \in Addr /\ i \in Nat /\ Minus(d, s) + i < SIZE
    BY <1>0, <1>1, <1>4, <1>5 DEF Addr
  <2>2. a \in Addr /\ Minus(a, d) = i
    BY <1>0, <2>1, OffsetOf
  <2>3. Minus(a, s) = Minus(d, s) + i
    BY <1>0, <2>1, Farther
  <2> HIDE DEF a
  <2>4. Holds(a, d, Terminated(t1)) /\ ~ Holds(a, s, Terminated(t2))
    BY <1>0, <1>1, <1>4, <2>1, <2>2, <2>3 DEF Holds, Within
  <2>5. T[a] = Terminated(t1)[Minus(a, d) + 1]
    BY <1>3, <2>2, <2>4
  <2> QED
    BY <2>2, <2>5 DEF a
<1>6. ASSUME NEW i \in 0 .. Len(t2) PROVE T[Plus(s, i)] = Terminated(t2)[i + 1]
  <2> DEFINE a == Plus(s, i)
  <2>1. i \in Addr /\ i \in Nat /\ Minus(s, d) + i < SIZE
    BY <1>0, <1>1, <1>4, <1>6 DEF Addr
  <2>2. a \in Addr /\ Minus(a, s) = i
    BY <1>0, <2>1, OffsetOf
  <2>3. Minus(a, d) = Minus(s, d) + i
    BY <1>0, <2>1, Farther
  <2> HIDE DEF a
  <2>4. Holds(a, s, Terminated(t2)) /\ ~ Holds(a, d, Terminated(t1))
    BY <1>0, <1>1, <1>4, <2>1, <2>2, <2>3 DEF Holds, Within
  <2>5. T[a] = Terminated(t2)[Minus(a, s) + 1]
    BY <1>3, <2>2, <2>4
  <2> QED
    BY <2>2, <2>5 DEF a
<1> QED
  BY <1>2, <1>5, <1>6 DEF T

-----------------------------------------------------------------------------
(* The string functions *)

\* strlen() counts the bytes of a terminated text.
LEMMA StrlenIs ==
    ASSUME NEW T, NEW p, NEW k \in Nat, k <= SIZE - 1, T[Plus(p, k)] = NUL,
           \A i \in 0 .. k - 1 : T[Plus(p, i)] # NUL
    PROVE  strlen(Memory(T, {}), p) = k
<1>0. SIZE \in Nat
  BY MemoryFunctionsAssumption
<1> DEFINE P(i) == T[Plus(p, i)] = NUL /\ \A j \in 0 .. i - 1 : ~(T[Plus(p, j)] = NUL)
           c == CHOOSE i \in 0 .. SIZE - 1 : P(i)
<1>1. strlen(Memory(T, {}), p) = c
  BY DEF strlen, First, Memory
<1>2. k \in 0 .. SIZE - 1 /\ P(k)
  BY <1>0
<1>3. c \in 0 .. SIZE - 1 /\ P(c)
  <2> HIDE DEF P
  <2> QED
    BY <1>2
<1> HIDE DEF c
<1>4. ~(c < k)
  <2>1. c < k => c \in 0 .. k - 1
    BY <1>0, <1>3
  <2> QED
    BY <1>3, <2>1
<1>5. ~(k < c)
  <2>1. k < c => k \in 0 .. c - 1
    BY <1>0, <1>3
  <2> QED
    BY <1>2, <1>3, <2>1
<1> QED
  BY <1>0, <1>1, <1>3, <1>4, <1>5

\* strnlen() counts one byte past its limit.
LEMMA StrnlenIs ==
    ASSUME NEW T, NEW p, NEW k \in Nat, NEW n \in Nat, T[Plus(p, k)] = NUL,
           \A i \in 0 .. k - 1 : T[Plus(p, i)] # NUL
    PROVE  strnlen(Memory(T, {}), p, n) = IF k <= n THEN k ELSE n + 1
<1> DEFINE S(i) == T[Plus(p, i)] = NUL \/ i > n
           P(i) == S(i) /\ \A j \in 0 .. i - 1 : ~ S(j)
           c == CHOOSE i \in 0 .. n + 1 : P(i)
           e == IF k <= n THEN k ELSE n + 1
<1>1. strnlen(Memory(T, {}), p, n) = c
  BY DEF strnlen, First, Memory
<1>0. e \in Nat /\ e \in 0 .. n + 1
  OBVIOUS
<1>2. P(e)
  <2>1. S(e)
    OBVIOUS
  <2>2. \A j \in 0 .. e - 1 : j \in 0 .. k - 1 /\ ~(j > n)
    OBVIOUS
  <2> HIDE DEF e
  <2>3. \A j \in 0 .. e - 1 : ~ S(j)
    BY <2>2
  <2> QED
    BY <2>1, <2>3
<1> HIDE DEF S, e
<1>3. c \in 0 .. n + 1 /\ P(c)
  <2> HIDE DEF P
  <2> QED
    BY <1>0, <1>2
<1> HIDE DEF c
<1>4. ~(c < e)
  <2>1. c < e => c \in 0 .. e - 1
    BY <1>0, <1>3
  <2> QED
    BY <1>2, <1>3, <2>1
<1>5. ~(e < c)
  <2>1. e < c => e \in 0 .. c - 1
    BY <1>0, <1>3
  <2> QED
    BY <1>2, <1>3, <2>1
<1>6. c = e
  BY <1>0, <1>3, <1>4, <1>5
<1> QED
  BY <1>1, <1>6 DEF e

\* The copies are away from their source.
LEMMA CopyAway ==
    ASSUME NEW B, B = [a \in Addr |-> B[a]], NEW d \in Addr, NEW s \in Addr, NEW L \in Nat,
           2 * L <= SIZE, Minus(d, s) >= L
    PROVE  \E V : memcpy(Memory(B, {}), d, s, L) = Memory(Moved(B, d, s, 0, L), V)
<1>1. L <= SIZE
  BY MemoryFunctionsAssumption
<1>2. FwdSafe(d, s, L)
  BY <1>1, FarIsFwdSafe
<1>3. Carried(memcpy(Memory(B, {}), d, s, L), B, d, s, 0, L, L)
  BY <1>2, MemcpyCopies
<1> QED
  BY <1>3 DEF Carried

\* A text that was copied whole.
LEMMA MovedText ==
    ASSUME NEW B, NEW d \in Addr, NEW s \in Addr, NEW X, Len(X) \in Nat,
           \A i \in 0 .. Len(X) - 1 : B[Plus(s, i)] = X[i + 1]
    PROVE  Moved(B, d, s, 0, Len(X)) = Written(B, d, X)
<1>1. ASSUME NEW a \in Addr
      PROVE  (IF 0 <= Minus(a, d) /\ Minus(a, d) < Len(X) THEN B[Plus(s, Minus(a, d))] ELSE B[a])
               = IF Minus(a, d) < Len(X) THEN X[Minus(a, d) + 1] ELSE B[a]
  <2>1. Minus(a, d) \in Addr
    BY <1>1, Offset
  <2>2. Minus(a, d) \in Nat
    BY <2>1, MemoryFunctionsAssumption DEF Addr
  <2>3. Minus(a, d) < Len(X) => Minus(a, d) \in 0 .. Len(X) - 1
    BY <2>2
  <2> QED
    BY <2>2, <2>3
<1> QED
  BY <1>1 DEF Moved, Written

\* n bytes from address p on are those of X behind its first k, and the bytes of X
\* from k to n are zero.
Reads(B, p, X, k, n) == \A i \in 0 .. n - 1 : B[Plus(p, i)] = X[(k + i) + 1]
Cleared(X, k, n) == \A i \in k .. n - 1 : X[i + 1] = NUL

\* A text, c bytes copied behind its first k, and a zero behind them.
LEMMA AppendedText ==
    ASSUME NEW B, NEW W, NEW d \in Addr, NEW s \in Addr, NEW k \in Nat, NEW c \in Nat, NEW X,
           Len(X) = k + c + 1, k + c + 1 <= SIZE,
           Reads(B, d, X, 0, k), Reads(B, s, X, k, c), X[k + c + 1] = NUL
    PROVE  StoreByte(Memory(Moved(B, Plus(d, k), s, 0, c), W), Plus(Plus(d, k), c), NUL).b
             = Written(B, d, X)
<1>r. \A i \in 0 .. k - 1 : B[Plus(d, i)] = X[i + 1]
  <2>1. \A i \in 0 .. k - 1 : 0 + i = i
    OBVIOUS
  <2> QED
    BY <2>1 DEF Reads
<1>s. \A i \in 0 .. c - 1 : B[Plus(s, i)] = X[(k + i) + 1]
  BY DEF Reads
<1> DEFINE e == Plus(d, k)
           M == Moved(B, e, s, 0, c)
<1>0. SIZE \in Nat /\ k + c <= SIZE /\ k + c \in Addr /\ k <= SIZE /\ 0 <= k
  BY MemoryFunctionsAssumption DEF Addr
<1>1. Plus(e, c) = Plus(d, k + c) /\ Plus(d, k + c) \in Addr
  BY <1>0, Along
<1>2. StoreByte(Memory(M, W), Plus(e, c), NUL).b = [a \in Addr |-> IF a = Plus(d, k + c) THEN NUL ELSE M[a]]
  <2>1. StoreByte(Memory(M, W), Plus(e, c), NUL).b = [M EXCEPT ![Plus(e, c)] = NUL]
    BY DEF StoreByte, Memory
  <2>2. M = [a \in Addr |-> M[a]]
    BY DEF Moved
  <2> HIDE DEF M
  <2> QED
    BY <1>1, <2>1, <2>2
<1>3. ASSUME NEW a \in Addr
      PROVE  (IF a = Plus(d, k + c) THEN NUL ELSE M[a])
               = IF Minus(a, d) < Len(X) THEN X[Minus(a, d) + 1] ELSE B[a]
  <2> DEFINE o == Minus(a, d)
             u == Minus(a, e)
  <2>1. o \in Addr /\ Plus(d, o) = a
    BY <1>3, Offset
  <2>2. o \in Nat
    BY <1>0, <2>1 DEF Addr
  <2>3. (u < c <=> k <= o /\ o < k + c) /\ (k <= o => u = o - k) /\ u \in Addr
    BY <1>0, <1>3, Window
  <2>4. u \in Nat
    BY <1>0, <2>3 DEF Addr
  <2>5. a = Plus(d, k + c) <=> o = k + c
    BY <1>0, <1>3, <2>1, OffsetOf
  <2>6. M[a] = IF 0 <= u /\ u < c THEN B[Plus(s, u)] ELSE B[a]
    BY <1>3 DEF Moved
  <2> HIDE DEF M, o, u, e
  <2>7. CASE o < k
    <3>1. o \in 0 .. k - 1 /\ o < k + c + 1 /\ o # k + c /\ ~(u < c)
      BY <2>2, <2>3, <2>4, <2>7
    <3> QED
      BY <1>r, <2>1, <2>5, <2>6, <3>1 DEF o
  <2>8. CASE k <= o /\ o < k + c
    <3>1. u \in 0 .. c - 1 /\ k + u = o /\ o < k + c + 1 /\ o # k + c /\ 0 <= u /\ u < c
      BY <2>2, <2>3, <2>4, <2>8
    <3> QED
      BY <1>s, <2>5, <2>6, <3>1 DEF o
  <2>9. CASE o = k + c
    <3>1. o < k + c + 1 /\ o + 1 = k + c + 1
      BY <2>2, <2>9
    <3> QED
      BY <2>5, <2>9, <3>1 DEF o
  <2>10. CASE o > k + c
    <3>1. ~(o < k + c + 1) /\ o # k + c /\ ~(u < c)
      BY <2>2, <2>3, <2>10
    <3> QED
      BY <2>5, <2>6, <3>1 DEF o
  <2> QED
    BY <2>2, <2>7, <2>8, <2>9, <2>10
<1> HIDE DEF M
<1>4. [a \in Addr |-> IF a = Plus(d, k + c) THEN NUL ELSE M[a]] = Written(B, d, X)
  BY <1>3 DEF Written
<1> QED
  BY <1>2, <1>4 DEF M

\* A text filled up with zeros.
LEMMA FilledText ==
    ASSUME NEW B, NEW W, NEW d \in Addr, NEW s \in Addr, NEW k \in Nat, NEW q \in Nat, NEW X,
           Len(X) = k + q, k + q <= SIZE, Reads(B, s, X, 0, k), Cleared(X, k, k + q)
    PROVE  Fill(Memory(Moved(B, d, s, 0, k), W), Plus(d, k), NUL, q).b = Written(B, d, X)
<1> DEFINE n == k + q
<1>r. \A i \in 0 .. k - 1 : B[Plus(s, i)] = X[i + 1]
  <2>1. \A i \in 0 .. k - 1 : 0 + i = i
    OBVIOUS
  <2> QED
    BY <2>1 DEF Reads
<1>n. n \in Nat /\ k + q = n /\ Len(X) = n
  OBVIOUS
<1>s. \A i \in k .. n - 1 : X[i + 1] = NUL
  BY DEF Cleared
<1> DEFINE e == Plus(d, k)
           M == Moved(B, d, s, 0, k)
<1>0. SIZE \in Nat /\ q \in Nat /\ k + q = n /\ k + q <= SIZE /\ n \in Nat /\ Len(X) = n
  BY <1>n, MemoryFunctionsAssumption
<1> HIDE DEF n
<1>2. Fill(Memory(M, W), e, NUL, q).b = [a \in Addr |-> IF Minus(a, e) < q THEN NUL ELSE M[a]]
  BY DEF Fill, Memory
<1>3. ASSUME NEW a \in Addr
      PROVE  (IF Minus(a, e) < q THEN NUL ELSE M[a])
               = IF Minus(a, d) < Len(X) THEN X[Minus(a, d) + 1] ELSE B[a]
  <2> DEFINE o == Minus(a, d)
             u == Minus(a, e)
  <2>1. o \in Addr
    BY <1>3, Offset
  <2>2. o \in Nat
    BY <1>0, <2>1 DEF Addr
  <2>3. u < q <=> k <= o /\ o < k + q
    BY <1>0, <1>3, Window
  <2>6. M[a] = IF 0 <= o /\ o < k THEN B[Plus(s, o)] ELSE B[a]
    BY <1>3 DEF Moved
  <2> HIDE DEF M, o, u, e
  <2>7. CASE o < k
    <3>1. o \in 0 .. k - 1 /\ o < n /\ ~(u < q) /\ 0 <= o
      BY <1>0, <2>2, <2>3, <2>7
    <3> QED
      BY <1>r, <2>6, <2>7, <3>1 DEF o, u
  <2>8. CASE k <= o /\ o < n
    <3>1. o \in k .. n - 1 /\ u < q
      BY <1>0, <2>2, <2>3, <2>8
    <3> QED
      BY <1>0, <1>s, <2>8, <3>1 DEF o, u
  <2>9. CASE ~(o < n)
    <3>1. ~(u < q) /\ ~(o < k)
      BY <1>0, <2>2, <2>3, <2>9
    <3> QED
      BY <1>0, <2>6, <2>9, <3>1 DEF o, u
  <2> QED
    BY <2>2, <2>7, <2>8, <2>9
<1> HIDE DEF M
<1>4. [a \in Addr |-> IF Minus(a, e) < q THEN NUL ELSE M[a]] = Written(B, d, X)
  BY <1>3 DEF Written
<1> QED
  BY <1>2, <1>4 DEF M

\* What a count allows of a text.
LEMMA FirstOfIs ==
    ASSUME NEW t \in Seq(Nat \ {NUL}), NEW n \in Nat
    PROVE  /\ FirstOf(t, n) \in Seq(Nat \ {NUL})
           /\ Len(FirstOf(t, n)) = IF n < Len(t) THEN n ELSE Len(t)
           /\ \A i \in 1 .. Len(FirstOf(t, n)) : FirstOf(t, n)[i] = t[i]
<1> DEFINE k == IF n < Len(t) THEN n ELSE Len(t)
<1>1. k \in Nat /\ k <= Len(t) /\ Len(t) \in Nat /\ k \in 0 .. Len(t)
  OBVIOUS
<1>2. FirstOf(t, n) = SubSeq(t, 1, k)
  BY DEF FirstOf
<1> HIDE DEF k
<1>3. SubSeq(t, 1, k) = [i \in 1 .. k |-> t[i]]
  <2>1. SubSeq(t, 1, k) = [i \in 1 .. ((1 + k) - 1) |-> t[(i + 1) - 1]]
    BY <1>1
  <2>2. (1 + k) - 1 = k /\ \A i \in 1 .. k : (i + 1) - 1 = i
    BY <1>1
  <2> QED
    BY <2>1, <2>2
<1>4. \A i \in 1 .. k : t[i] \in Nat \ {NUL}
  BY <1>1
<1>5. [i \in 1 .. k |-> t[i]] \in Seq(Nat \ {NUL}) /\ Len([i \in 1 .. k |-> t[i]]) = k
  BY <1>1, <1>4
<1> QED
  BY <1>2, <1>3, <1>5 DEF k

\* Two texts, one behind the other.
LEMMA JoinedIs ==
    ASSUME NEW t \in Seq(Nat \ {NUL}), NEW v \in Seq(Nat \ {NUL})
    PROVE  /\ t \o v \in Seq(Nat \ {NUL}) /\ Len(t \o v) = Len(t) + Len(v)
           /\ \A i \in 1 .. Len(t) : (t \o v)[i] = t[i]
           /\ \A i \in 1 .. Len(v) : (t \o v)[Len(t) + i] = v[i]
<1> DEFINE S == Nat \ {NUL}
<1> HIDE DEF S
<1>0. t \in Seq(S) /\ v \in Seq(S)
  BY DEF S
<1>1. t \o v \in Seq(S) /\ Len(t \o v) = Len(t) + Len(v)
  BY <1>0
<1>2. \A i \in 1 .. Len(t) : (t \o v)[i] = t[i]
  BY <1>0
<1>3. \A i \in 1 .. Len(v) : (t \o v)[Len(t) + i] = v[i]
  BY <1>0
<1> QED
  BY <1>1, <1>2, <1>3 DEF S

\* A text cut or filled up with zeros to n bytes.
LEMMA ExtendedIs ==
    ASSUME NEW t \in Seq(Nat \ {NUL}), NEW n \in Nat
    PROVE  /\ Len(Extended(t, n)) = n
           /\ \A i \in 1 .. n : i <= Len(t) => Extended(t, n)[i] = t[i]
           /\ \A i \in 1 .. n : i > Len(t) => Extended(t, n)[i] = NUL
<1> DEFINE f == FirstOf(t, n)
           z == [i \in 1 .. n - Len(t) |-> NUL]
           k == IF n < Len(t) THEN 0 ELSE n - Len(t)
<1>1. f \in Seq(Nat \ {NUL}) /\ Len(f) = (IF n < Len(t) THEN n ELSE Len(t))
      /\ \A i \in 1 .. Len(f) : f[i] = t[i]
  BY FirstOfIs
<1>2. k \in Nat /\ Len(t) \in Nat /\ 1 .. n - Len(t) = 1 .. k
  OBVIOUS
<1>3. NUL \in Nat
  BY DEF NUL
<1>4. z = [i \in 1 .. k |-> NUL]
  BY <1>2
<1>5. z \in Seq(Nat) /\ Len(z) = k /\ \A i \in 1 .. k : z[i] = NUL
  <2> HIDE DEF k, z
  <2>1. [i \in 1 .. k |-> NUL] \in Seq(Nat) /\ Len([i \in 1 .. k |-> NUL]) = k
    BY <1>2, <1>3
  <2> QED
    BY <1>4, <2>1
<1>6. f \in Seq(Nat)
  BY <1>1
<1>7. Extended(t, n) = f \o z
  BY DEF Extended
<1> HIDE DEF f, z
<1>14. f \in Seq(Nat) /\ z \in Seq(Nat)
  BY <1>5, <1>6
<1>8. Len(f \o z) = Len(f) + Len(z)
  BY <1>14
<1>9. \A i \in 1 .. Len(f) : (f \o z)[i] = f[i]
  BY <1>14
<1>10. \A i \in 1 .. Len(z) : (f \o z)[Len(f) + i] = z[i]
  BY <1>14
<1>11. Len(f) + Len(z) = n
  BY <1>1, <1>2, <1>5
<1>12. ASSUME NEW i \in 1 .. n, i <= Len(t) PROVE Extended(t, n)[i] = t[i]
  <2>1. i \in 1 .. Len(f)
    BY <1>1, <1>2, <1>12
  <2> QED
    BY <1>1, <1>7, <1>9, <2>1
<1>13. ASSUME NEW i \in 1 .. n, i > Len(t) PROVE Extended(t, n)[i] = NUL
  <2> DEFINE j == i - Len(f)
  <2>1. j \in 1 .. k /\ Len(f) + j = i
    BY <1>1, <1>2, <1>13
  <2> HIDE DEF j, k
  <2> QED
    BY <1>5, <1>7, <1>10, <2>1
<1> QED
  BY <1>7, <1>8, <1>11, <1>12, <1>13

\* The room there is around the two texts.
LEMMA RoomIs ==
    ASSUME NEW d, NEW t1, NEW s, NEW t2, NEW n, Apart(d, t1, s, t2, n)
    PROVE  /\ d \in Addr /\ s \in Addr /\ Len(t1) \in Nat /\ Len(t2) \in Nat /\ n \in Nat /\ SIZE \in Nat
           /\ 2 * (Len(t2) + 1) <= SIZE /\ Len(t1) + Len(t2) + 1 + n < SIZE
           /\ Minus(d, s) >= Len(t2) + 1 /\ Minus(d, s) \in Nat
           /\ Minus(Plus(d, Len(t1)), s) >= Len(t2) + 1 /\ Plus(d, Len(t1)) \in Addr
<1>0. /\ d \in Addr /\ s \in Addr /\ t1 \in Seq(Nat \ {NUL}) /\ t2 \in Seq(Nat \ {NUL}) /\ n \in Nat
      /\ Len(t1) + Len(t2) + 1 + n <= Minus(s, d) /\ Len(t2) + 1 <= Minus(d, s)
  BY DEF Apart
<1>1. Len(t1) \in Nat /\ Len(t2) \in Nat
  BY <1>0, TextIs
<1>2. SIZE \in Nat /\ d \in 0 .. SIZE
  BY <1>0, MemoryFunctionsAssumption DEF Addr
<1>3. d # s
  <2>1. Minus(d, d) = 0
    BY <1>0, <1>2, Ring DEF Addr
  <2> QED
    BY <1>0, <1>1, <2>1
<1>4. Minus(s, d) + Minus(d, s) = SIZE /\ Minus(s, d) \in Nat /\ Minus(d, s) \in Nat
  BY <1>0, <1>3, Round
<1>5. Minus(d, s) + Len(t1) < SIZE /\ Len(t1) + 0 <= SIZE
  BY <1>0, <1>1, <1>2, <1>4
<1>6. Minus(Plus(d, Len(t1)), s) = Minus(d, s) + Len(t1)
  BY <1>0, <1>1, <1>5, Farther
<1>7. Plus(d, Len(t1)) \in Addr
  BY <1>0, <1>1, <1>5, Along
<1>8. /\ 2 * (Len(t2) + 1) <= SIZE /\ Len(t1) + Len(t2) + 1 + n < SIZE /\ Minus(d, s) >= Len(t2) + 1
      /\ Minus(d, s) + Len(t1) >= Len(t2) + 1
  BY <1>0, <1>1, <1>2, <1>4
<1> QED
  BY <1>0, <1>1, <1>2, <1>4, <1>6, <1>7, <1>8

\* The lengths of the two texts.
LEMMA LengthsAre ==
    ASSUME NEW d, NEW t1, NEW s, NEW t2, NEW n, Apart(d, t1, s, t2, n)
    PROVE  /\ strlen(TextMemory(d, t1, s, t2), d) = Len(t1)
           /\ strlen(TextMemory(d, t1, s, t2), s) = Len(t2)
           /\ strnlen(TextMemory(d, t1, s, t2), s, n) = IF Len(t2) <= n THEN Len(t2) ELSE n + 1
<1> DEFINE T == TextMemory(d, t1, s, t2).b
<1>0. t1 \in Seq(Nat \ {NUL}) /\ t2 \in Seq(Nat \ {NUL})
  BY DEF Apart
<1>1. /\ TextMemory(d, t1, s, t2) = Memory(T, {}) /\ T = [a \in Addr |-> T[a]]
      /\ \A i \in 0 .. Len(t1) : T[Plus(d, i)] = Terminated(t1)[i + 1]
      /\ \A i \in 0 .. Len(t2) : T[Plus(s, i)] = Terminated(t2)[i + 1]
  BY TextsAre
<1>2. Len(t1) \in Nat /\ Len(t2) \in Nat /\ n \in Nat /\ Len(t1) <= SIZE - 1 /\ Len(t2) <= SIZE - 1
  BY RoomIs
<1> HIDE DEF T
<1>3. T[Plus(d, Len(t1))] = NUL /\ \A i \in 0 .. Len(t1) - 1 : T[Plus(d, i)] # NUL
  <2>1. \A i \in 0 .. Len(t1) - 1 : i \in 0 .. Len(t1) /\ i + 1 \in 1 .. Len(t1)
    BY <1>2
  <2>2. Len(t1) \in 0 .. Len(t1)
    BY <1>2
  <2> QED
    BY <1>0, <1>1, <2>1, <2>2, TextIs
<1>4. T[Plus(s, Len(t2))] = NUL /\ \A i \in 0 .. Len(t2) - 1 : T[Plus(s, i)] # NUL
  <2>1. \A i \in 0 .. Len(t2) - 1 : i \in 0 .. Len(t2) /\ i + 1 \in 1 .. Len(t2)
    BY <1>2
  <2>2. Len(t2) \in 0 .. Len(t2)
    BY <1>2
  <2> QED
    BY <1>0, <1>1, <2>1, <2>2, TextIs
<1>5. strlen(Memory(T, {}), d) = Len(t1)
  BY <1>2, <1>3, StrlenIs
<1>6. strlen(Memory(T, {}), s) = Len(t2)
  BY <1>2, <1>4, StrlenIs
<1>7. strnlen(Memory(T, {}), s, n) = IF Len(t2) <= n THEN Len(t2) ELSE n + 1
  BY <1>2, <1>4, StrnlenIs
<1> QED
  BY <1>1, <1>5, <1>6, <1>7

\* strcpy() leaves the text it was given.
LEMMA StrcpyCopies ==
    ASSUME NEW d, NEW t1, NEW s, NEW t2, NEW n, Apart(d, t1, s, t2, n)
    PROVE  strcpy(TextMemory(d, t1, s, t2), d, s).b
             = Written(TextMemory(d, t1, s, t2).b, d, Terminated(t2))
<1> DEFINE T == TextMemory(d, t1, s, t2).b
           L == Len(t2) + 1
           X == Terminated(t2)
<1>0. t2 \in Seq(Nat \ {NUL})
  BY DEF Apart
<1>1. /\ TextMemory(d, t1, s, t2) = Memory(T, {}) /\ T = [a \in Addr |-> T[a]]
      /\ \A i \in 0 .. Len(t2) : T[Plus(s, i)] = Terminated(t2)[i + 1]
  BY TextsAre
<1>2. d \in Addr /\ s \in Addr /\ Len(t2) \in Nat /\ 2 * L <= SIZE /\ Minus(d, s) >= L
  BY RoomIs
<1>3. L \in Nat /\ Len(X) = L /\ 0 .. L - 1 = 0 .. Len(t2)
  BY <1>0, <1>2, TextIs
<1>4. strcpy(TextMemory(d, t1, s, t2), d, s) = memcpy(Memory(T, {}), d, s, L)
  <2>1. strlen(TextMemory(d, t1, s, t2), s) = Len(t2)
    BY LengthsAre
  <2> QED
    BY <1>1, <2>1 DEF strcpy
<1> HIDE DEF T, L, X
<1>5. PICK V : memcpy(Memory(T, {}), d, s, L) = Memory(Moved(T, d, s, 0, L), V)
  BY <1>1, <1>2, <1>3, CopyAway
<1>6. Moved(T, d, s, 0, Len(X)) = Written(T, d, X)
  <2>1. \A i \in 0 .. Len(X) - 1 : T[Plus(s, i)] = X[i + 1]
    BY <1>1, <1>3 DEF X
  <2>2. d \in Addr /\ s \in Addr /\ Len(X) \in Nat
    BY <1>2, <1>3
  <2> QED
    BY <2>1, <2>2, MovedText
<1> QED
  BY <1>3, <1>4, <1>5, <1>6 DEF Memory, T, X

\* The end of strcat() and strncat(), for the c bytes they copy.
LEMMA Appended ==
    ASSUME NEW d, NEW t1, NEW s, NEW t2, NEW n, Apart(d, t1, s, t2, n), NEW c \in 0 .. Len(t2),
           NEW u \in Seq(Nat \ {NUL}), Len(u) = c, \A i \in 1 .. c : u[i] = t2[i]
    PROVE  StoreByte(memcpy(TextMemory(d, t1, s, t2), Plus(d, Len(t1)), s, c),
                     Plus(Plus(d, Len(t1)), c), NUL).b
             = Written(TextMemory(d, t1, s, t2).b, d, Terminated(t1 \o u))
<1> DEFINE T == TextMemory(d, t1, s, t2).b
           X == Terminated(t1 \o u)
           k == Len(t1)
<1>0. t1 \in Seq(Nat \ {NUL}) /\ t2 \in Seq(Nat \ {NUL})
  BY DEF Apart
<1>1. /\ TextMemory(d, t1, s, t2) = Memory(T, {}) /\ T = [a \in Addr |-> T[a]]
      /\ \A i \in 0 .. Len(t1) : T[Plus(d, i)] = Terminated(t1)[i + 1]
      /\ \A i \in 0 .. Len(t2) : T[Plus(s, i)] = Terminated(t2)[i + 1]
  BY TextsAre
<1>2. /\ d \in Addr /\ s \in Addr /\ k \in Nat /\ Len(t2) \in Nat /\ n \in Nat /\ SIZE \in Nat
      /\ 2 * (Len(t2) + 1) <= SIZE /\ Len(t1) + Len(t2) + 1 + n < SIZE
      /\ Minus(Plus(d, k), s) >= Len(t2) + 1 /\ Plus(d, k) \in Addr
  BY RoomIs
<1>3. Minus(Plus(d, k), s) \in Nat
  <2>1. Minus(Plus(d, k), s) \in Addr
    BY <1>2, Offset
  <2> QED
    BY <1>2, <2>1 DEF Addr
<1>4. c \in Nat /\ 2 * c <= SIZE /\ Minus(Plus(d, k), s) >= c /\ k + c + 1 <= SIZE /\ c <= Len(t2)
  BY <1>2, <1>3
<1>5. PICK V : memcpy(Memory(T, {}), Plus(d, k), s, c) = Memory(Moved(T, Plus(d, k), s, 0, c), V)
  <2> HIDE DEF T, k
  <2> QED
    BY <1>1, <1>2, <1>4, CopyAway
<1>6. /\ t1 \o u \in Seq(Nat \ {NUL}) /\ Len(t1 \o u) = k + c
      /\ \A i \in 1 .. k : (t1 \o u)[i] = t1[i]
      /\ \A i \in 1 .. c : (t1 \o u)[k + i] = u[i]
  BY <1>0, JoinedIs
<1>7. Len(X) = k + c + 1 /\ X[k + c + 1] = NUL /\ \A i \in 1 .. k + c : X[i] = (t1 \o u)[i]
  BY <1>2, <1>4, <1>6, TextIs
<1> HIDE DEF X, T
<1>8. ASSUME NEW i \in 0 .. k - 1 PROVE T[Plus(d, i)] = X[i + 1]
  <2>1. i \in 0 .. Len(t1) /\ i + 1 \in 1 .. k /\ i + 1 \in 1 .. k + c
    BY <1>2, <1>4, <1>8
  <2>2. T[Plus(d, i)] = t1[i + 1]
    BY <1>0, <1>1, <2>1, TextIs
  <2> QED
    BY <1>6, <1>7, <2>1, <2>2
<1>9. ASSUME NEW i \in 0 .. c - 1 PROVE T[Plus(s, i)] = X[(k + i) + 1]
  <2>1. i \in 0 .. Len(t2) /\ i + 1 \in 1 .. Len(t2) /\ i + 1 \in 1 .. c /\ k + (i + 1) \in 1 .. k + c
        /\ k + (i + 1) = (k + i) + 1
    BY <1>2, <1>4, <1>9
  <2>2. T[Plus(s, i)] = t2[i + 1]
    BY <1>0, <1>1, <2>1, TextIs
  <2>3. (t1 \o u)[k + (i + 1)] = t2[i + 1]
    BY <1>6, <2>1
  <2> QED
    BY <1>7, <2>1, <2>2, <2>3
<1> HIDE DEF k
<1>10. StoreByte(Memory(Moved(T, Plus(d, k), s, 0, c), V), Plus(Plus(d, k), c), NUL).b = Written(T, d, X)
  <2>0. \A i \in 0 .. k - 1 : 0 + i = i
    OBVIOUS
  <2>1. Reads(T, d, X, 0, k)
    BY <1>8, <2>0 DEF Reads
  <2>2. Reads(T, s, X, k, c)
    BY <1>9 DEF Reads
  <2>3. /\ d \in Addr /\ s \in Addr /\ k \in Nat /\ c \in Nat /\ Len(X) = k + c + 1 /\ k + c + 1 <= SIZE
        /\ X[k + c + 1] = NUL
    BY <1>2, <1>4, <1>7
  <2> QED
    BY <2>1, <2>2, <2>3, AppendedText
<1> QED
  BY <1>1, <1>5, <1>10 DEF k, T, X

\* strcat() leaves the two texts, one behind the other.
LEMMA StrcatCopies ==
    ASSUME NEW d, NEW t1, NEW s, NEW t2, NEW n, Apart(d, t1, s, t2, n)
    PROVE  strcat(TextMemory(d, t1, s, t2), d, s).b
             = Written(TextMemory(d, t1, s, t2).b, d, Terminated(t1 \o t2))
<1>1. strlen(TextMemory(d, t1, s, t2), d) = Len(t1) /\ strlen(TextMemory(d, t1, s, t2), s) = Len(t2)
  BY LengthsAre
<1>2. Len(t2) \in 0 .. Len(t2) /\ t2 \in Seq(Nat \ {NUL})
  BY RoomIs DEF Apart
<1>3. StoreByte(memcpy(TextMemory(d, t1, s, t2), Plus(d, Len(t1)), s, Len(t2)),
                Plus(Plus(d, Len(t1)), Len(t2)), NUL).b
        = Written(TextMemory(d, t1, s, t2).b, d, Terminated(t1 \o t2))
  BY <1>2, Appended
<1> QED
  BY <1>1, <1>3 DEF strcat

\* strncat() leaves the first text and what the count allows of the second.
LEMMA StrncatCopies ==
    ASSUME NEW d, NEW t1, NEW s, NEW t2, NEW n, Apart(d, t1, s, t2, n)
    PROVE  strncat(TextMemory(d, t1, s, t2), d, s, n).b
             = Written(TextMemory(d, t1, s, t2).b, d, Terminated(t1 \o FirstOf(t2, n)))
<1> DEFINE c == IF n < Len(t2) THEN n ELSE Len(t2)
           len == IF Len(t2) <= n THEN Len(t2) ELSE n + 1
           u == FirstOf(t2, n)
<1>1. strlen(TextMemory(d, t1, s, t2), d) = Len(t1) /\ strnlen(TextMemory(d, t1, s, t2), s, n) = len
  BY LengthsAre
<1>2. Len(t2) \in Nat /\ n \in Nat /\ t2 \in Seq(Nat \ {NUL})
  BY RoomIs DEF Apart
<1>3. c \in 0 .. Len(t2) /\ c = IF len < n THEN len ELSE n
  BY <1>2
<1>4. u \in Seq(Nat \ {NUL}) /\ Len(u) = c /\ \A i \in 1 .. c : u[i] = t2[i]
  BY <1>2, FirstOfIs
<1>5. strncat(TextMemory(d, t1, s, t2), d, s, n)
        = StoreByte(memcpy(TextMemory(d, t1, s, t2), Plus(d, Len(t1)), s, c), Plus(Plus(d, Len(t1)), c), NUL)
  <2> HIDE DEF c, len
  <2> QED
    BY <1>1, <1>3 DEF strncat
<1> HIDE DEF c, u
<1>6. StoreByte(memcpy(TextMemory(d, t1, s, t2), Plus(d, Len(t1)), s, c),
                Plus(Plus(d, Len(t1)), c), NUL).b
        = Written(TextMemory(d, t1, s, t2).b, d, Terminated(t1 \o u))
  BY <1>3, <1>4, Appended
<1> QED
  BY <1>5, <1>6 DEF u

\* What strncpy() writes in all, the overrun of its memset() included.
LEMMA PaddedLength ==
    ASSUME NEW d, NEW t1, NEW s, NEW t2, NEW n, Apart(d, t1, s, t2, n), n + OPSIZ <= SIZE
    PROVE  /\ Spanned(d, t2, n) \in Nat /\ n <= Spanned(d, t2, n) /\ Spanned(d, t2, n) <= SIZE
           /\ Len(t2) < n => /\ Plus(d, Len(t2)) \in Addr
                             /\ Spanned(d, t2, n) = n + Overrun(Plus(d, Len(t2)), n - Len(t2))
           /\ ~(Len(t2) < n) => Spanned(d, t2, n) = n
           /\ Len(Extended(t2, Spanned(d, t2, n))) \in Nat
           /\ Len(Extended(t2, Spanned(d, t2, n))) <= SIZE
<1> DEFINE N == Spanned(d, t2, n)
           k == Len(t2)
<1>1. t2 \in Seq(Nat \ {NUL})
  BY DEF Apart
<1>2. d \in Addr /\ k \in Nat /\ n \in Nat /\ SIZE \in Nat /\ k + 1 + n < SIZE
  BY RoomIs
<1>3. OPSIZ \in Nat
  BY MemoryFunctionsAssumption
<1>6. /\ N \in Nat /\ n <= N /\ N <= SIZE
      /\ k < n => Plus(d, k) \in Addr /\ N = n + Overrun(Plus(d, k), n - k)
      /\ ~(k < n) => N = n
  <2>1. CASE k < n
    <3>1. k + 0 <= SIZE /\ n - k \in Nat
      BY <1>2, <2>1
    <3>2. Plus(d, k) \in Addr
      BY <1>2, <3>1, Along
    <3> DEFINE o == Overrun(Plus(d, k), n - k)
    <3>3. o \in Nat /\ o < OPSIZ
      BY <3>1, <3>2, OverrunIs
    <3>4. N = n + o
      BY <2>1 DEF Spanned
    <3> HIDE DEF N, k, o
    <3>5. N \in Nat /\ n <= N /\ N <= SIZE
      BY <1>2, <1>3, <3>3, <3>4
    <3> QED
      BY <2>1, <3>2, <3>4, <3>5 DEF o
  <2>2. CASE ~(k < n)
    <3>1. N = n + 0
      BY <2>2 DEF Spanned
    <3> HIDE DEF N, k
    <3> QED
      BY <1>2, <1>3, <2>2, <3>1
  <2> QED
    BY <2>1, <2>2
<1>7. Len(Extended(t2, N)) = N
  BY <1>1, <1>6, ExtendedIs
<1> QED
  BY <1>6, <1>7

\* strncpy() leaves the text, cut or filled up to the count and past it.
LEMMA StrncpyCopies ==
    ASSUME NEW d, NEW t1, NEW s, NEW t2, NEW n, Apart(d, t1, s, t2, n),
           n + OPSIZ <= SIZE
    PROVE  strncpy(TextMemory(d, t1, s, t2), d, s, n).b
             = Written(TextMemory(d, t1, s, t2).b, d, Extended(t2, Spanned(d, t2, n)))
<1> DEFINE T == TextMemory(d, t1, s, t2).b
           N == Spanned(d, t2, n)
           X == Extended(t2, N)
           k == Len(t2)
           len == IF k <= n THEN k ELSE n + 1
<1>0. t2 \in Seq(Nat \ {NUL})
  BY DEF Apart
<1>1. /\ TextMemory(d, t1, s, t2) = Memory(T, {}) /\ T = [a \in Addr |-> T[a]]
      /\ \A i \in 0 .. Len(t2) : T[Plus(s, i)] = Terminated(t2)[i + 1]
  BY TextsAre
<1>2. /\ d \in Addr /\ s \in Addr /\ k \in Nat /\ n \in Nat /\ SIZE \in Nat
      /\ 2 * (k + 1) <= SIZE /\ Len(t1) + k + 1 + n < SIZE /\ Minus(d, s) >= k + 1 /\ Minus(d, s) \in Nat
      /\ Len(t1) \in Nat
  BY RoomIs
<1>3. strnlen(TextMemory(d, t1, s, t2), s, n) = len
  BY LengthsAre
<1>n. /\ N \in Nat /\ n <= N /\ N <= SIZE
      /\ k < n => Plus(d, k) \in Addr /\ N = n + Overrun(Plus(d, k), n - k)
      /\ ~(k < n) => N = n
  BY PaddedLength
<1>4. /\ Len(X) = N
      /\ \A i \in 1 .. N : i <= k => X[i] = t2[i]
      /\ \A i \in 1 .. N : i > k => X[i] = NUL
  BY <1>0, <1>n, ExtendedIs
<1> HIDE DEF T, X, N
<1>5. \A i \in 0 .. k - 1 : i + 1 <= N => T[Plus(s, i)] = X[i + 1]
  <2> TAKE i \in 0 .. k - 1
  <2> HAVE i + 1 <= N
  <2>1. i \in 0 .. Len(t2) /\ i + 1 \in 1 .. k /\ i + 1 \in 1 .. N /\ i + 1 <= k
    BY <1>2, <1>n
  <2>2. T[Plus(s, i)] = t2[i + 1]
    BY <1>0, <1>1, <2>1, TextIs
  <2> QED
    BY <1>4, <2>1, <2>2
<1>6. CASE k < n
  <2>1. strncpy(TextMemory(d, t1, s, t2), d, s, n)
          = memset(memcpy(Memory(T, {}), d, s, k), Plus(d, k), NUL, n - k)
    <3>1. len = k /\ len < n
      BY <1>2, <1>6
    <3> HIDE DEF len
    <3> QED
      BY <1>1, <1>3, <3>1 DEF strncpy
  <2>2. 2 * k <= SIZE /\ Minus(d, s) >= k /\ n - k \in Nat /\ k <= n /\ n <= SIZE /\ k + 0 <= SIZE
    BY <1>2, <1>6
  <2>3. PICK V : memcpy(Memory(T, {}), d, s, k) = Memory(Moved(T, d, s, 0, k), V)
    <3> HIDE DEF k
    <3> QED
      BY <1>1, <1>2, <2>2, CopyAway
  <2>4. Plus(d, k) \in Addr
    BY <1>2, <2>2, Along
  <2>5. (n - k) + Overrun(Plus(d, k), n - k) = N - k
    <3> DEFINE o == Overrun(Plus(d, k), n - k)
    <3>1. o \in Nat
      BY <2>2, <2>4, OverrunIs
    <3>2. N = n + o
      BY <1>6, <1>n
    <3> HIDE DEF k, o
    <3>3. (n - k) + o = N - k
      BY <1>2, <3>1, <3>2
    <3> QED
      BY <3>3 DEF o
  <2>6. \A m : memset(m, Plus(d, k), NUL, n - k) = Fill(m, Plus(d, k), NUL, N - k)
    <3>1. \A m : memset(m, Plus(d, k), NUL, n - k)
                   = Fill(m, Plus(d, k), NUL, (n - k) + Overrun(Plus(d, k), n - k))
      BY <2>2, <2>4, MemsetFills
    <3> QED
      BY <2>5, <3>1
  <2>7. \A i \in 0 .. k - 1 : T[Plus(s, i)] = X[i + 1]
    <3>1. \A i \in 0 .. k - 1 : i + 1 <= N
      BY <1>2, <1>6, <1>n
    <3> QED
      BY <1>5, <3>1
  <2>8. \A i \in k .. N - 1 : X[i + 1] = NUL
    <3>1. \A i \in k .. N - 1 : i + 1 \in 1 .. N /\ i + 1 > k
      BY <1>2, <1>n
    <3> QED
      BY <1>4, <3>1
  <2> HIDE DEF k
  <2>9. \A q \in Nat : k + q = N => Fill(Memory(Moved(T, d, s, 0, k), V), Plus(d, k), NUL, q).b = Written(T, d, X)
    <3> TAKE q \in Nat
    <3> HAVE k + q = N
    <3>1. d \in Addr /\ s \in Addr /\ k \in Nat /\ Len(X) = k + q /\ k + q <= SIZE
      BY <1>2, <1>4, <1>n, <2>2
    <3>2. \A i \in 0 .. k - 1 : 0 + i = i
      OBVIOUS
    <3>3. Reads(T, s, X, 0, k) /\ Cleared(X, k, k + q)
      BY <2>7, <2>8, <3>2 DEF Reads, Cleared
    <3> QED
      BY <3>1, <3>3, FilledText
  <2> DEFINE q == N - k
  <2>10. q \in Nat /\ k + q = N
    BY <1>2, <1>n, <2>2
  <2>11. strncpy(TextMemory(d, t1, s, t2), d, s, n) = Fill(Memory(Moved(T, d, s, 0, k), V), Plus(d, k), NUL, q)
    BY <2>1, <2>3, <2>6
  <2> HIDE DEF q
  <2> QED
    BY <2>9, <2>10, <2>11 DEF T, X, N
<1>7. CASE ~(k < n)
  <2>1. strncpy(TextMemory(d, t1, s, t2), d, s, n) = memcpy(Memory(T, {}), d, s, n)
    <3>1. ~(len < n)
      BY <1>2, <1>7
    <3> HIDE DEF len
    <3> QED
      BY <1>1, <1>3, <3>1 DEF strncpy
  <2>n. N = n
    BY <1>7, <1>n
  <2>2. 2 * n <= SIZE /\ Minus(d, s) >= n
    BY <1>2, <1>7
  <2>3. PICK V : memcpy(Memory(T, {}), d, s, n) = Memory(Moved(T, d, s, 0, n), V)
    BY <1>1, <1>2, <2>2, CopyAway
  <2>4. \A i \in 0 .. n - 1 : T[Plus(s, i)] = X[i + 1]
    <3>1. \A i \in 0 .. n - 1 : i \in 0 .. k - 1 /\ i + 1 <= N
      BY <1>2, <1>7, <2>n
    <3> QED
      BY <1>5, <3>1
  <2>5. Moved(T, d, s, 0, Len(X)) = Written(T, d, X)
    <3>1. Len(X) = n /\ Len(X) \in Nat
      BY <1>2, <1>4, <2>n
    <3>2. \A i \in 0 .. Len(X) - 1 : T[Plus(s, i)] = X[i + 1]
      BY <2>4, <3>1
    <3>3. d \in Addr /\ s \in Addr
      BY <1>2
    <3> QED
      BY <3>1, <3>2, <3>3, MovedText
  <2> QED
    BY <1>4, <2>n, <2>1, <2>3, <2>5 DEF Memory, T, X, N
<1> QED
  BY <1>6, <1>7

-----------------------------------------------------------------------------
(* The calls that copy *)

\* The callers' memory, as memcpy() and memmove() take it.
LEMMA DistinctIs ==
    /\ Distinct = Memory(Distinct.b, {})
    /\ Distinct.b = [a \in Addr |-> Distinct.b[a]]
    /\ \A a \in Addr : Distinct.b[a] = a
  BY DEF Distinct, Memory

\* The bytes moved are the bytes asked for, and no other.
LEMMA MovedIsCopied ==
    ASSUME NEW d \in Addr, NEW s \in Addr, NEW n \in Nat, n <= SIZE, NEW fn
    PROVE  Moved(Distinct.b, d, s, 0, n)
             = Changed(Distinct, Copied([fn |-> fn, d |-> d, s |-> s, n |-> n]))
<1> DEFINE c == [fn |-> fn, d |-> d, s |-> s, n |-> n]
           D == Distinct.b
<1>0. SIZE \in Nat /\ SIZE >= 1
  BY MemoryFunctionsAssumption
<1>1. Copied(c) = [a \in Range0(d, n) |-> Plus(s, Minus(a, d))]
  BY DEF Copied
<1>2. DOMAIN Copied(c) = Range0(d, n) /\ \A a \in Range0(d, n) : Copied(c)[a] = Plus(s, Minus(a, d))
  BY <1>1
<1> HIDE DEF c, D
<1>3. ASSUME NEW a \in Addr
      PROVE  (IF 0 <= Minus(a, d) /\ Minus(a, d) < n THEN D[Plus(s, Minus(a, d))] ELSE D[a])
               = IF a \in DOMAIN Copied(c) THEN Copied(c)[a] ELSE D[a]
  <2>1. a \in Range0(d, n) <=> Minus(a, d) < n
    BY <1>3, InRange
  <2>2. Minus(a, d) \in Addr
    BY <1>3, Offset
  <2>3. 0 <= Minus(a, d)
    BY <1>0, <2>2 DEF Addr
  <2>4. Plus(s, Minus(a, d)) \in Addr
    BY <2>2, OffsetOf
  <2>5. D[Plus(s, Minus(a, d))] = Plus(s, Minus(a, d))
    BY <2>4, DistinctIs DEF D
  <2> QED
    BY <1>2, <2>1, <2>3, <2>5
<1>4. Changed(Distinct, Copied(c)) = [a \in Addr |-> IF a \in DOMAIN Copied(c) THEN Copied(c)[a] ELSE D[a]]
  BY DEF Changed, D
<1>5. Moved(D, d, s, 0, n)
        = [a \in Addr |-> IF 0 <= Minus(a, d) /\ Minus(a, d) < n THEN D[Plus(s, Minus(a, d))] ELSE D[a]]
  BY DEF Moved
<1> QED
  BY <1>3, <1>4, <1>5 DEF c, D

\* The same of the bytes filled.
LEMMA FillIsFilled ==
    ASSUME NEW d \in Addr, NEW n, NEW k \in Nat, k = n + Overrun(d, n), k <= SIZE, NEW fn
    PROVE  Fill(Distinct, d, FillByte, k).b = Changed(Distinct, Filled([fn |-> fn, d |-> d, n |-> n]))
<1> DEFINE c == [fn |-> fn, d |-> d, n |-> n]
           D == Distinct.b
<1>1. Filled(c) = [a \in Range0(d, k) |-> FillByte]
  BY DEF Filled
<1>2. DOMAIN Filled(c) = Range0(d, k) /\ \A a \in Range0(d, k) : Filled(c)[a] = FillByte
  BY <1>1
<1> HIDE DEF c
<1>3. ASSUME NEW a \in Addr PROVE a \in Range0(d, k) <=> Minus(a, d) < k
  BY <1>3, InRange
<1>4. Changed(Distinct, Filled(c)) = [a \in Addr |-> IF a \in DOMAIN Filled(c) THEN Filled(c)[a] ELSE D[a]]
  BY DEF Changed
<1>5. Fill(Distinct, d, FillByte, k).b = [a \in Addr |-> IF Minus(a, d) < k THEN FillByte ELSE D[a]]
  BY DistinctIs DEF Fill, Memory
<1> HIDE DEF D
<1> QED
  BY <1>2, <1>3, <1>4, <1>5 DEF c

\* What a call that has carried its bytes shows to CopiesAgree.
LEMMA CarriedAgrees ==
    ASSUME NEW d \in Addr, NEW s \in Addr, NEW n \in Nat, n <= SIZE, NEW fn, NEW m,
           Carried(m, Distinct.b, d, s, 0, n, n)
    PROVE  /\ m.b = Changed(Distinct, Copied([fn |-> fn, d |-> d, s |-> s, n |-> n]))
           /\ \A w \in m.words : Touches(w, s, n)
<1>1. PICK V : m = Memory(Moved(Distinct.b, d, s, 0, n), V) /\ \A w \in V : Touches(w, s, n)
  BY DEF Carried
<1>2. m.b = Moved(Distinct.b, d, s, 0, n) /\ m.words = V
  BY <1>1 DEF Memory
<1> QED
  BY <1>1, <1>2, MovedIsCopied

\* A call of memcpy().
LEMMA MemcpyAgrees ==
    ASSUME Memcpy PROVE CopiesAgree'
<1>1. PICK d \in CopyDests, s \in CopySrcs, n \in CopyLengths :
        /\ Range0(d, n) \cap Range0(s, n) = {}
        /\ Call([fn |-> "memcpy", d |-> d, s |-> s, n |-> n], memcpy(Distinct, d, s, n))
  BY DEF Memcpy
<1>2. d \in Addr /\ s \in Addr /\ n \in Nat /\ 2 * n <= SIZE
  BY CallersAssumption
<1>3. n <= SIZE
  BY <1>2, MemoryFunctionsAssumption
<1>4. FwdSafe(d, s, n)
  BY <1>1, ApartIsFwdSafe
<1>5. Carried(memcpy(Memory(Distinct.b, {}), d, s, n), Distinct.b, d, s, 0, n, n)
  BY <1>2, <1>4, DistinctIs, MemcpyCopies
<1>6. Carried(memcpy(Distinct, d, s, n), Distinct.b, d, s, 0, n, n)
  BY <1>5, DistinctIs
<1> DEFINE c == [fn |-> "memcpy", d |-> d, s |-> s, n |-> n]
           r == memcpy(Distinct, d, s, n)
<1>7. r.b = Changed(Distinct, Copied(c)) /\ \A w \in r.words : Touches(w, s, n)
  BY <1>2, <1>3, <1>6, CarriedAgrees
<1>8. c.fn = "memcpy" /\ c.s = s /\ c.n = n
  OBVIOUS
<1>9. call' = c /\ result' = r
  BY <1>1 DEF Call
<1> HIDE DEF c, r
<1> QED
  BY <1>7, <1>8, <1>9 DEF CopiesAgree

\* A call of memmove().
LEMMA MemmoveAgrees ==
    ASSUME Memmove PROVE CopiesAgree'
<1>1. PICK d \in CopyDests, s \in CopySrcs, n \in CopyLengths :
        Call([fn |-> "memmove", d |-> d, s |-> s, n |-> n], memmove(Distinct, d, s, n))
  BY DEF Memmove
<1>2. d \in Addr /\ s \in Addr /\ n \in Nat /\ 2 * n <= SIZE
  BY CallersAssumption
<1>3. n <= SIZE
  BY <1>2, MemoryFunctionsAssumption
<1>5. Carried(memmove(Memory(Distinct.b, {}), d, s, n), Distinct.b, d, s, 0, n, n)
  BY <1>2, DistinctIs, MemmoveCopies
<1>6. Carried(memmove(Distinct, d, s, n), Distinct.b, d, s, 0, n, n)
  BY <1>5, DistinctIs
<1> DEFINE c == [fn |-> "memmove", d |-> d, s |-> s, n |-> n]
           r == memmove(Distinct, d, s, n)
<1>7. r.b = Changed(Distinct, Copied(c)) /\ \A w \in r.words : Touches(w, s, n)
  BY <1>2, <1>3, <1>6, CarriedAgrees
<1>8. c.fn = "memmove" /\ c.s = s /\ c.n = n
  OBVIOUS
<1>9. call' = c /\ result' = r
  BY <1>1 DEF Call
<1> HIDE DEF c, r
<1> QED
  BY <1>7, <1>8, <1>9 DEF CopiesAgree

\* A call of memset().
LEMMA MemsetAgrees ==
    ASSUME Memset PROVE CopiesAgree'
<1>1. PICK d \in FillDests, n \in FillLengths :
        Call([fn |-> "memset", d |-> d, n |-> n], memset(Distinct, d, FillByte, n))
  BY DEF Memset
<1>2. d \in Addr /\ n \in Nat /\ 2 * n <= SIZE
  BY CallersAssumption
<1>3. PICK k \in Nat : k = n + Overrun(d, n) /\ k <= SIZE
  <2>1. Overrun(d, n) \in Nat /\ Overrun(d, n) < OPSIZ
    BY <1>2, OverrunIs
  <2>2. OPSIZ \in Nat /\ SIZE \in Nat /\ 2 * OPSIZ <= SIZE
    BY MemoryFunctionsAssumption
  <2> QED
    BY <1>2, <2>1, <2>2
<1> DEFINE c == [fn |-> "memset", d |-> d, n |-> n]
           r == memset(Distinct, d, FillByte, n)
<1>4. r.b = Changed(Distinct, Filled(c))
  <2>1. r = Fill(Distinct, d, FillByte, k)
    BY <1>2, <1>3, MemsetFills
  <2> QED
    BY <1>2, <1>3, <2>1, FillIsFilled
<1>8. c.fn = "memset" /\ c.d = d /\ c.n = n
  OBVIOUS
<1>9. call' = c /\ result' = r
  BY <1>1 DEF Call
<1> HIDE DEF c, r
<1> QED
  BY <1>4, <1>8, <1>9 DEF CopiesAgree

\* A call of a string function whose text is the one TextLeft asks for.
LEMMA TextAgrees ==
    ASSUME NEW fn \in {"strcpy", "strcat", "strncpy", "strncat"}, NEW d, NEW t1, NEW s, NEW t2, NEW n, NEW r,
           Call(StringCall(fn, d, t1, s, t2, n), r),
           r.b = Changed(TextMemory(d, t1, s, t2),
                         AsCells(d, TextLeft(StringCall(fn, d, t1, s, t2, n))))
    PROVE  CopiesAgree'
<1> DEFINE c == StringCall(fn, d, t1, s, t2, n)
<1>1. c.fn = fn /\ c.d = d /\ c.t1 = t1 /\ c.s = s /\ c.t2 = t2 /\ c.n = n
  BY DEF StringCall
<1>2. call' = c /\ result' = r
  BY DEF Call
<1>3. r.b = Changed(TextMemory(d, t1, s, t2), AsCells(d, TextLeft(c)))
  OBVIOUS
<1> HIDE DEF c
<1>4. call'.fn \notin {"memcpy", "memmove", "memset"}
  BY <1>1, <1>2
<1> QED
  BY <1>1, <1>2, <1>3, <1>4 DEF CopiesAgree

\* A call that copies nothing has nothing to agree with.
LEMMA OthersAgree ==
    ASSUME call'.fn \notin {"memcpy", "memmove", "memset", "strcpy", "strcat", "strncpy", "strncat"}
    PROVE  CopiesAgree'
  BY DEF CopiesAgree

\* The lengths of the texts that are left.
LEMMA LeftLengths ==
    ASSUME NEW d, NEW t1, NEW s, NEW t2, NEW n, Apart(d, t1, s, t2, n)
    PROVE  /\ Len(Terminated(t2)) \in Nat /\ Len(Terminated(t2)) <= SIZE
           /\ Len(Terminated(t1 \o t2)) \in Nat /\ Len(Terminated(t1 \o t2)) <= SIZE
           /\ Len(Terminated(t1 \o FirstOf(t2, n))) \in Nat /\ Len(Terminated(t1 \o FirstOf(t2, n))) <= SIZE
<1>1. /\ t1 \in Seq(Nat \ {NUL}) /\ t2 \in Seq(Nat \ {NUL}) /\ n \in Nat
  BY DEF Apart
<1>2. /\ SIZE \in Nat /\ Len(t1) \in Nat /\ Len(t2) \in Nat /\ Len(t1) + Len(t2) + 1 + n < SIZE
  BY RoomIs
<1>4. \A t \in Seq(Nat \ {NUL}) : Len(Terminated(t)) = Len(t) + 1
  BY TextIs
<1>5. FirstOf(t2, n) \in Seq(Nat \ {NUL}) /\ Len(FirstOf(t2, n)) = IF n < Len(t2) THEN n ELSE Len(t2)
  BY <1>1, FirstOfIs
<1>6. t1 \o t2 \in Seq(Nat \ {NUL}) /\ Len(t1 \o t2) = Len(t1) + Len(t2)
  BY <1>1, JoinedIs
<1>7. t1 \o FirstOf(t2, n) \in Seq(Nat \ {NUL}) /\ Len(t1 \o FirstOf(t2, n)) = Len(t1) + Len(FirstOf(t2, n))
  BY <1>1, <1>5, JoinedIs
<1>8. Len(Terminated(t2)) = Len(t2) + 1 /\ Len(Terminated(t1 \o t2)) = Len(t1) + Len(t2) + 1
  BY <1>1, <1>4, <1>6
<1>9. Len(Terminated(t1 \o FirstOf(t2, n))) = Len(t1) + Len(FirstOf(t2, n)) + 1
  BY <1>4, <1>7
<1>10. Len(FirstOf(t2, n)) \in Nat /\ Len(FirstOf(t2, n)) <= Len(t2)
  BY <1>1, <1>2, <1>5
<1>11. Len(t2) + 1 <= SIZE /\ Len(t1) + Len(t2) + 1 <= SIZE /\ n <= SIZE
       /\ Len(t2) + 1 \in Nat /\ Len(t1) + Len(t2) + 1 \in Nat
  BY <1>1, <1>2
<1>12. Len(t1) + Len(FirstOf(t2, n)) + 1 \in Nat /\ Len(t1) + Len(FirstOf(t2, n)) + 1 <= SIZE
  BY <1>2, <1>10, <1>11
<1> QED
  BY <1>1, <1>8, <1>9, <1>11, <1>12

\* A call of one of the string functions.
LEMMA StringsAgree ==
    ASSUME Strings PROVE CopiesAgree'
<1>1. PICK d \in TextDests, s \in TextSrcs, t1 \in Texts, t2 \in Texts, n \in Counts :
        \/ Call(StringCall("strcpy", d, t1, s, t2, n), strcpy(TextMemory(d, t1, s, t2), d, s))
        \/ Call(StringCall("strcat", d, t1, s, t2, n), strcat(TextMemory(d, t1, s, t2), d, s))
        \/ Call(StringCall("strncpy", d, t1, s, t2, n), strncpy(TextMemory(d, t1, s, t2), d, s, n))
        \/ Call(StringCall("strncat", d, t1, s, t2, n), strncat(TextMemory(d, t1, s, t2), d, s, n))
        \/ Call(StringCall("strcmp", d, t1, s, t2, n), [res |-> strcmp(TextMemory(d, t1, s, t2), d, s)])
        \/ Call(StringCall("strncmp", d, t1, s, t2, n), [res |-> strncmp(TextMemory(d, t1, s, t2), d, s, n)])
  BY DEF Strings
<1>2. Apart(d, t1, s, t2, n)
  BY CallersAssumption DEF Apart
<1>3. d \in Addr
  BY <1>2 DEF Apart
<1> DEFINE m == TextMemory(d, t1, s, t2)
           C(fn) == StringCall(fn, d, t1, s, t2, n)
<1>4. /\ TextLeft(C("strcpy")) = Terminated(t2)
      /\ TextLeft(C("strcat")) = Terminated(t1 \o t2)
      /\ TextLeft(C("strncpy")) = Extended(t2, Spanned(d, t2, n))
      /\ TextLeft(C("strncat")) = Terminated(t1 \o FirstOf(t2, n))
  BY DEF TextLeft, StringCall
<1>5. \A X : Len(X) \in Nat /\ Len(X) <= SIZE => Changed(m, AsCells(d, X)) = Written(m.b, d, X)
  BY <1>3, CellsWritten
<1>6. CASE Call(C("strcpy"), strcpy(m, d, s))
  <2>1. strcpy(m, d, s).b = Changed(m, AsCells(d, Terminated(t2)))
    BY <1>2, <1>5, LeftLengths, StrcpyCopies
  <2> QED
    BY <1>4, <1>6, <2>1, TextAgrees
<1>7. CASE Call(C("strcat"), strcat(m, d, s))
  <2>1. strcat(m, d, s).b = Changed(m, AsCells(d, Terminated(t1 \o t2)))
    BY <1>2, <1>5, LeftLengths, StrcatCopies
  <2> QED
    BY <1>4, <1>7, <2>1, TextAgrees
<1>8. CASE Call(C("strncpy"), strncpy(m, d, s, n))
  <2>1. n + OPSIZ <= SIZE
    <3>1. n + OPSIZ <= Minus(s, d) /\ s \in Addr /\ n \in Nat
      BY CallersAssumption
    <3>2. OPSIZ \in Nat /\ SIZE \in Nat
      BY MemoryFunctionsAssumption
    <3>3. Minus(s, d) \in Addr
      BY <1>3, <3>1, Offset
    <3>4. Minus(s, d) \in Nat /\ Minus(s, d) < SIZE
      BY <3>2, <3>3 DEF Addr
    <3> QED
      BY <3>1, <3>2, <3>4
  <2>2. Len(Extended(t2, Spanned(d, t2, n))) \in Nat /\ Len(Extended(t2, Spanned(d, t2, n))) <= SIZE
    BY <1>2, <2>1, PaddedLength
  <2>3. strncpy(m, d, s, n).b = Changed(m, AsCells(d, Extended(t2, Spanned(d, t2, n))))
    BY <1>2, <1>5, <2>1, <2>2, StrncpyCopies
  <2> QED
    BY <1>4, <1>8, <2>3, TextAgrees
<1>9. CASE Call(C("strncat"), strncat(m, d, s, n))
  <2>1. strncat(m, d, s, n).b = Changed(m, AsCells(d, Terminated(t1 \o FirstOf(t2, n))))
    BY <1>2, <1>5, LeftLengths, StrncatCopies
  <2> QED
    BY <1>4, <1>9, <2>1, TextAgrees
<1>10. CASE Call(C("strcmp"), [res |-> strcmp(m, d, s)])
  BY <1>10, OthersAgree DEF Call, StringCall
<1>11. CASE Call(C("strncmp"), [res |-> strncmp(m, d, s, n)])
  BY <1>11, OthersAgree DEF Call, StringCall
<1> HIDE DEF m, C
<1> QED
  BY <1>1, <1>6, <1>7, <1>8, <1>9, <1>10, <1>11 DEF m, C

\* memcpy, memmove and the string copies write the bytes they were asked to write,
\* with the values the source had, and no other byte; memset, and strncpy where it
\* pads, fill exactly Overrun bytes more, none from an aligned address or for a
\* short fill; no word without a byte of the source is read: for every size of a word and of the address
\* space, every alignment, every overlap and every length up to half of the
\* address space (libc/string/memcopy.c, memmove.c, memcpy.c, memset.c).
THEOREM CopiesRight == Spec => []CopiesAgree
<1>1. Init => CopiesAgree
  BY DEF Init, Idle, CopiesAgree
<1>2. CopiesAgree /\ [Next]_vars => CopiesAgree'
  <2> SUFFICES ASSUME CopiesAgree, [Next]_vars PROVE CopiesAgree'
    OBVIOUS
  <2>1. CASE Memcpy \/ Memmove \/ Memset \/ Strings
    BY <2>1, MemcpyAgrees, MemmoveAgrees, MemsetAgrees, StringsAgree
  <2>2. CASE Memcmp
    <3>1. call'.fn = "memcmp"
      BY <2>2 DEF Memcmp, Call
    <3> QED
      BY <3>1, OthersAgree
  <2>3. CASE Numbers
    <3>1. call'.fn \in {"strtol", "strtoul", "strtoll", "strtoull", "atol", "atoll", "atoi", "atou"}
      BY <2>3 DEF Numbers, Call
    <3> QED
      BY <3>1, OthersAgree
  <2>4. CASE Snprintf
    <3>1. call'.fn = "snprintf"
      BY <2>4 DEF Snprintf, Call
    <3> QED
      BY <3>1, OthersAgree
  <2>5. CASE SnprintfCut
    <3>1. call'.fn = "cut"
      BY <2>5 DEF SnprintfCut, Call
    <3> QED
      BY <3>1, OthersAgree
  <2>6. CASE Return
    <3>1. call'.fn = "none"
      BY <2>6 DEF Return, Idle
    <3> QED
      BY <3>1, OthersAgree
  <2>7. CASE UNCHANGED vars
    BY <2>7 DEF vars, CopiesAgree
  <2> QED
    BY <2>1, <2>2, <2>3, <2>4, <2>5, <2>6, <2>7 DEF Next
<1> QED
  BY <1>1, <1>2, PTL DEF Spec

-----------------------------------------------------------------------------
(* Numbers *)

\* A set of numbers with a number in it has a least one.
LEMMA LeastNumber ==
    ASSUME NEW S, S \subseteq Nat, NEW z \in S
    PROVE  \E x \in S : \A y \in S : x <= y
<1> DEFINE Less == {ss \in Nat \X Nat : ss[1] < ss[2]}
<1>1. IsWellFoundedOn(Less, Nat)
  BY NatLessThanWellFounded, Zenon DEF OpToRel
<1>2. PICK x \in S : \A y \in S : ~(<<y, x>> \in Less)
  <2> HIDE DEF Less
  <2>1. S \in SUBSET Nat /\ S # {}
    OBVIOUS
  <2> QED
    BY <1>1, <2>1, WFMin
<1>3. ASSUME NEW y \in S PROVE x <= y
  <2>1. x \in Nat /\ y \in Nat
    BY <1>2, <1>3
  <2>2. <<y, x>> \in Nat \X Nat /\ <<y, x>>[1] = y /\ <<y, x>>[2] = x
    BY <2>1
  <2>3. ~(y < x)
    BY <1>2, <1>3, <2>2
  <2> QED
    BY <2>1, <2>3
<1> QED
  BY <1>2, <1>3

\* Induction.
LEMMA Induct ==
    ASSUME NEW G, 0 \in G, \A k \in Nat : k \in G => k + 1 \in G
    PROVE  \A k \in Nat : k \in G
<1> DEFINE S == {k \in Nat : k \notin G}
<1>1. ASSUME NEW z \in S PROVE FALSE
  <2>1. PICK x \in S : \A y \in S : x <= y
    <3>1. S \subseteq Nat
      OBVIOUS
    <3> HIDE DEF S
    <3> QED
      BY <1>1, <3>1, LeastNumber
  <2>2. x \in Nat /\ x \notin G /\ x # 0
    BY <2>1
  <2>3. x - 1 \in Nat /\ ~(x <= x - 1) /\ (x - 1) + 1 = x
    BY <2>2
  <2>4. x - 1 \notin S
    BY <2>1, <2>3
  <2>5. x - 1 \in G
    BY <2>3, <2>4
  <2> QED
    BY <2>2, <2>3, <2>5
<1> QED
  BY <1>1

\* f repeats a step z times, from a.
Repeats(S, a, step, z, f) ==
    /\ f \in [Nat -> S] /\ f[0] = a
    /\ \A k \in Nat : k < z => f[k + 1] = step[<<k + 1, f[k]>>]

\* A step that leads from S to S can be repeated.
LEMMA Repeat ==
    ASSUME NEW S, NEW a \in S, NEW step \in [Nat \X S -> S], NEW z \in Nat
    PROVE  \E f : Repeats(S, a, step, z, f)
<1> DEFINE Good(n, f) == /\ f \in [Nat -> S] /\ f[0] = a
                         /\ \A k \in Nat : k < n => f[k + 1] = step[<<k + 1, f[k]>>]
           G == {n \in Nat : \E f : Good(n, f)}
<1>1. \A n \in Nat : n \in G
  <2>1. 0 \in G
    <3>1. Good(0, [k \in Nat |-> a])
      OBVIOUS
    <3> QED
      BY <3>1
  <2>2. ASSUME NEW n \in Nat, n \in G PROVE n + 1 \in G
    <3>1. PICK f : Good(n, f)
      BY <2>2
    <3> DEFINE g == [k \in Nat |-> IF k = n + 1 THEN step[<<n + 1, f[n]>>] ELSE f[k]]
    <3>2. f \in [Nat -> S] /\ <<n + 1, f[n]>> \in Nat \X S
      BY <3>1
    <3>3. step[<<n + 1, f[n]>>] \in S
      BY <3>2
    <3>4. g \in [Nat -> S]
      BY <3>2, <3>3
    <3>5. g[0] = a
      BY <3>1
    <3>6. ASSUME NEW k \in Nat, k < n + 1 PROVE g[k + 1] = step[<<k + 1, g[k]>>]
      <4>1. g[k] = f[k]
        BY <3>6
      <4>2. k < n => g[k + 1] = f[k + 1]
        BY <3>6
      <4>3. k = n => g[k + 1] = step[<<n + 1, f[n]>>]
        BY <3>6
      <4> QED
        BY <3>1, <3>6, <4>1, <4>2, <4>3
    <3>7. Good(n + 1, g)
      BY <3>4, <3>5, <3>6
    <3>8. n + 1 \in Nat
      OBVIOUS
    <3> HIDE DEF g, Good
    <3> QED
      BY <3>7, <3>8
  <2> HIDE DEF G
  <2> QED
    BY <2>1, <2>2, Induct
<1> QED
  BY <1>1 DEF Repeats

\* What is left of a multiple and less than one more.
LEMMA Remainder ==
    ASSUME NEW M \in Nat, M >= 1, NEW e \in Int, NEW z \in Int, 0 <= z, z < M
    PROVE  (e * M + z) % M = z
<1> DEFINE x == e * M + z
           d == x \div M
           y == x % M
<1>1. x \in Int
  OBVIOUS
<1>2. x = d * M + y /\ d \in Int /\ y \in Int /\ 0 <= y /\ y < M
  <2> HIDE DEF x
  <2> QED
    BY <1>1
<1>3. x = e * M + z
  OBVIOUS
<1> HIDE DEF x, d, y
<1>4. CASE d = e
  BY <1>2, <1>3, <1>4 DEF x, y
<1>5. CASE d > e
  <2>1. PICK a \in Nat : d = (e + 1) + a
    <3>1. d - (e + 1) \in Nat /\ d = (e + 1) + (d - (e + 1))
      BY <1>2, <1>5
    <3> QED
      BY <3>1
  <2>2. d * M = e * M + M + a * M /\ a * M \in Nat /\ e * M \in Int
    BY <2>1
  <2> QED
    BY <1>2, <1>3, <2>2
<1>6. CASE d < e
  <2>1. PICK a \in Nat : e = (d + 1) + a
    <3>1. e - (d + 1) \in Nat /\ e = (d + 1) + (e - (d + 1))
      BY <1>2, <1>6
    <3> QED
      BY <3>1
  <2>2. e * M = d * M + M + a * M /\ a * M \in Nat /\ d * M \in Int
    BY <1>2, <2>1
  <2> QED
    BY <1>2, <1>3, <2>2
<1> QED
  BY <1>2, <1>4, <1>5, <1>6

-----------------------------------------------------------------------------
(* The digits of a numeral *)

\* The digits of a numeral are first .. stop - 1.
Scanned(t, first, base, stop) ==
    /\ t \in Seq(Nat) /\ first \in 1 .. Len(t) + 1 /\ stop \in first .. Len(t) + 1
    /\ base \in 2 .. 36
    /\ \A i \in first .. stop - 1 : IsDigitOf(t[i], base)
    /\ ~ IsDigitOf(At(t, stop), base)

\* Their values from the first one on.
Values(t, first, base, stop, v) ==
    /\ \A i \in first - 1 .. stop - 1 : v[i] \in Nat
    /\ v[first - 1] = 0
    /\ \A i \in first .. stop - 1 : v[i] = v[i - 1] * base + DigitValue(t[i])

\* A digit is below its base.
LEMMA DigitIs ==
    ASSUME NEW c \in Nat, NEW base \in 2 .. 36, IsDigitOf(c, base)
    PROVE  DigitValue(c) \in 0 .. base - 1
<1>1. CASE isdigit(c)
  <2>1. DigitValue(c) = c - 48
    BY <1>1 DEF DigitValue, isdigit, isupper, islower
  <2> QED
    BY <1>1, <2>1 DEF IsDigitOf, isdigit
<1>2. CASE isupper(c)
  <2>1. DigitValue(c) = c - 65 + 10
    BY <1>2 DEF DigitValue, isdigit, isupper, islower
  <2> QED
    BY <1>2, <2>1 DEF IsDigitOf, isupper
<1>3. CASE islower(c)
  <2>1. DigitValue(c) = c - 97 + 10
    BY <1>3 DEF DigitValue, isdigit, isupper, islower
  <2> QED
    BY <1>3, <2>1 DEF IsDigitOf, islower
<1> QED
  BY <1>1, <1>2, <1>3 DEF IsDigitOf, isalpha

\* For base 10 the digits are those of isdigit().
LEMMA DecimalIs ==
    ASSUME NEW c \in Nat
    PROVE  IsDigitOf(c, 10) <=> isdigit(c)
<1>1. CASE isdigit(c)
  <2>1. DigitValue(c) = c - 48
    BY <1>1 DEF DigitValue, isdigit, isupper, islower
  <2> QED
    BY <1>1, <2>1 DEF IsDigitOf, isdigit
<1>2. CASE isupper(c)
  <2>1. DigitValue(c) = c - 65 + 10
    BY <1>2 DEF DigitValue, isdigit, isupper, islower
  <2> QED
    BY <1>2, <2>1 DEF IsDigitOf, isdigit, isupper
<1>3. CASE islower(c)
  <2>1. DigitValue(c) = c - 97 + 10
    BY <1>3 DEF DigitValue, isdigit, isupper, islower
  <2> QED
    BY <1>3, <2>1 DEF IsDigitOf, isdigit, islower
<1> QED
  BY <1>1, <1>2, <1>3 DEF IsDigitOf, isalpha

\* The characters of a text, the end included.
LEMMA AtIs ==
    ASSUME NEW t \in Seq(Nat), NEW i \in Nat
    PROVE  /\ At(t, i) \in Nat
           /\ i \in 1 .. Len(t) => At(t, i) = t[i]
           /\ i \notin 1 .. Len(t) => At(t, i) = 0
<1>1. DOMAIN t = 1 .. Len(t) /\ \A j \in 1 .. Len(t) : t[j] \in Nat
  OBVIOUS
<1> QED
  BY <1>1 DEF At

\* The end of a text is no digit.
LEMMA EndIsNoDigit ==
    ASSUME NEW base PROVE ~ IsDigitOf(0, base)
  BY DEF IsDigitOf, isdigit, isalpha, isupper, islower

\* The scan for the last digit ends, and the end it finds is the one there is.
LEMMA LastDigitIs ==
    ASSUME NEW t \in Seq(Nat), NEW first \in 1 .. Len(t) + 1, NEW base \in 2 .. 36
    PROVE  Scanned(t, first, base, LastDigitFrom(t, first, base))
<1> DEFINE P(stop) == /\ \A i \in first .. stop - 1 : IsDigitOf(t[i], base)
                      /\ ~ IsDigitOf(At(t, stop), base)
           S == {i \in first .. Len(t) + 1 : ~ IsDigitOf(At(t, i), base)}
<1>0. Len(t) \in Nat /\ first \in Nat
  OBVIOUS
<1>1. Len(t) + 1 \in S
  <2>1. Len(t) + 1 \in first .. Len(t) + 1 /\ Len(t) + 1 \notin 1 .. Len(t) /\ Len(t) + 1 \in Nat
    BY <1>0
  <2>2. At(t, Len(t) + 1) = 0
    BY <2>1, AtIs
  <2> QED
    BY <2>1, <2>2, EndIsNoDigit
<1>2. PICK x \in S : \A y \in S : x <= y
  <2>1. S \subseteq Nat
    BY <1>0
  <2> HIDE DEF S
  <2> QED
    BY <1>1, <2>1, LeastNumber
<1>3. x \in first .. Len(t) + 1 /\ ~ IsDigitOf(At(t, x), base)
  BY <1>2
<1>4. ASSUME NEW i \in first .. x - 1 PROVE IsDigitOf(t[i], base)
  <2>1. i \in first .. Len(t) + 1 /\ i \in 1 .. Len(t) /\ ~(x <= i) /\ i \in Nat
    BY <1>0, <1>3, <1>4
  <2>2. IsDigitOf(At(t, i), base)
    BY <1>2, <2>1
  <2> QED
    BY <2>1, <2>2, AtIs
<1>5. P(x)
  BY <1>3, <1>4
<1>6. LastDigitFrom(t, first, base) = CHOOSE stop \in first .. Len(t) + 1 : P(stop)
  BY DEF LastDigitFrom
<1> DEFINE z == CHOOSE stop \in first .. Len(t) + 1 : P(stop)
<1>7. z \in first .. Len(t) + 1 /\ P(z)
  <2> HIDE DEF P
  <2> QED
    BY <1>3, <1>5
<1> HIDE DEF z
<1>8. Scanned(t, first, base, z)
  BY <1>7 DEF Scanned
<1> QED
  BY <1>6, <1>8 DEF z

\* Every numeral has values.
LEMMA ValuesExist ==
    ASSUME NEW t, NEW first, NEW base, NEW stop, Scanned(t, first, base, stop)
    PROVE  \E v : Values(t, first, base, stop, v) /\ v = [i \in first - 1 .. stop - 1 |-> v[i]]
<1>0. /\ t \in Seq(Nat) /\ first \in Nat /\ first >= 1 /\ stop \in Nat /\ stop >= first /\ stop <= Len(t) + 1
      /\ Len(t) \in Nat /\ base \in Nat /\ base \in 2 .. 36
  BY DEF Scanned
<1>1. ASSUME NEW i \in first .. stop - 1 PROVE DigitValue(t[i]) \in Nat
  <2>1. IsDigitOf(t[i], base) /\ t[i] \in Nat
    BY <1>0, <1>1 DEF Scanned
  <2>2. DigitValue(t[i]) \in 0 .. base - 1
    BY <1>0, <2>1, DigitIs
  <2> QED
    BY <1>0, <2>2
<1> DEFINE digit(i) == IF i \in first .. stop - 1 THEN DigitValue(t[i]) ELSE 0
           step == [kx \in Nat \X Nat |-> kx[2] * base + digit(first - 1 + kx[1])]
           n == stop - first
<1>2. \A i : digit(i) \in Nat
  BY <1>1
<1> HIDE DEF digit
<1>3. step \in [Nat \X Nat -> Nat]
  <2>1. ASSUME NEW kx \in Nat \X Nat PROVE kx[2] * base + digit(first - 1 + kx[1]) \in Nat
    <3>1. kx[2] \in Nat /\ digit(first - 1 + kx[1]) \in Nat
      BY <1>2, <2>1
    <3>2. kx[2] * base \in Nat
      BY <1>0, <3>1
    <3> QED
      BY <3>1, <3>2
  <2> QED
    BY <2>1
<1>4. n \in Nat
  BY <1>0
<1>5. \A k \in Nat, x \in Nat : step[<<k + 1, x>>] = x * base + digit(first + k)
  <2> TAKE k \in Nat, x \in Nat
  <2>1. <<k + 1, x>> \in Nat \X Nat /\ <<k + 1, x>>[1] = k + 1 /\ <<k + 1, x>>[2] = x
    OBVIOUS
  <2>2. first - 1 + (k + 1) = first + k
    BY <1>0
  <2> QED
    BY <2>1, <2>2
<1> HIDE DEF step, n
<1>6. PICK f : f \in [Nat -> Nat] /\ f[0] = 0 /\ \A k \in Nat : k < n => f[k + 1] = step[<<k + 1, f[k]>>]
  <2>1. \E f : Repeats(Nat, 0, step, n, f)
    BY <1>3, <1>4, Repeat
  <2> QED
    BY <2>1 DEF Repeats
<1> DEFINE v == [i \in first - 1 .. stop - 1 |-> f[i - (first - 1)]]
<1>7. ASSUME NEW i \in first - 1 .. stop - 1 PROVE v[i] = f[i - (first - 1)] /\ v[i] \in Nat
  <2>1. i - (first - 1) \in Nat
    BY <1>0, <1>7
  <2> QED
    BY <1>6, <1>7, <2>1
<1>8. v[first - 1] = 0
  <2>1. first - 1 \in first - 1 .. stop - 1 /\ (first - 1) - (first - 1) = 0
    BY <1>0
  <2> HIDE DEF v
  <2> QED
    BY <1>6, <1>7, <2>1
<1>9. ASSUME NEW i \in first .. stop - 1 PROVE v[i] = v[i - 1] * base + DigitValue(t[i])
  <2> DEFINE k == i - first
  <2>1. /\ k \in Nat /\ k < n /\ k + 1 = i - (first - 1) /\ k = (i - 1) - (first - 1) /\ first + k = i
        /\ i \in first - 1 .. stop - 1 /\ i - 1 \in first - 1 .. stop - 1
    BY <1>0, <1>9 DEF n
  <2> HIDE DEF v, k
  <2>2. v[i] = f[k + 1] /\ v[i - 1] = f[k] /\ f[k] \in Nat
    BY <1>6, <1>7, <2>1
  <2>3. f[k + 1] = f[k] * base + digit(first + k)
    BY <1>5, <1>6, <2>1, <2>2
  <2>4. digit(first + k) = DigitValue(t[i])
    BY <1>9, <2>1 DEF digit
  <2> QED
    BY <2>2, <2>3, <2>4
<1>10. v = [i \in first - 1 .. stop - 1 |-> v[i]]
  OBVIOUS
<1>11. Values(t, first, base, stop, v)
  <2> HIDE DEF v
  <2> QED
    BY <1>7, <1>8, <1>9 DEF Values
<1> HIDE DEF v
<1> QED
  BY <1>10, <1>11

\* ValueOf is the last of the values.
LEMMA ValueOfIs ==
    ASSUME NEW t, NEW first, NEW base, NEW stop, Scanned(t, first, base, stop)
    PROVE  \E v : Values(t, first, base, stop, v) /\ ValueOf(t, first, stop, base) = v[stop - 1]
<1>0. first \in Nat /\ first >= 1 /\ stop \in Nat /\ stop >= first /\ Len(t) \in Nat /\ base \in Nat
  BY DEF Scanned
<1>1. PICK g : Values(t, first, base, stop, g) /\ g = [i \in first - 1 .. stop - 1 |-> g[i]]
  BY ValuesExist
<1> DEFINE D == first - 1 .. stop - 1
           Eq(h, i) == IF i = first - 1 THEN 0 ELSE h[i - 1] * base + DigitValue(t[i])
           v == CHOOSE v : v = [i \in D |-> Eq(v, i)]
<1>2. ASSUME NEW i \in D PROVE g[i] = Eq(g, i)
  <2>1. i # first - 1 => i \in first .. stop - 1
    BY <1>0, <1>2
  <2> QED
    BY <1>1, <2>1 DEF Values
<1>3. g = [i \in D |-> Eq(g, i)]
  <2> HIDE DEF Eq, D
  <2>1. g = [i \in D |-> g[i]]
    BY <1>1 DEF D
  <2> QED
    BY <1>2, <2>1
<1>4. v = [i \in D |-> Eq(v, i)]
  <2> HIDE DEF Eq, D
  <2> QED
    BY <1>3
<1>5. ValueOf(t, first, stop, base) = v[stop - 1]
  BY DEF ValueOf
<1> HIDE DEF v
<1>6. v[first - 1] = 0 /\ \A i \in first .. stop - 1 : v[i] = v[i - 1] * base + DigitValue(t[i])
  <2>1. first - 1 \in D /\ \A i \in first .. stop - 1 : i \in D /\ i # first - 1
    BY <1>0
  <2>2. \A i \in D : v[i] = Eq(v, i)
    <3> HIDE DEF D, Eq
    <3> QED
      BY <1>4
  <2> HIDE DEF D
  <2> QED
    BY <2>1, <2>2
<1>7. \A i \in D : v[i] = g[i]
  <2> DEFINE G == {k \in Nat : (first - 1) + k \in D => v[(first - 1) + k] = g[(first - 1) + k]}
  <2>1. 0 \in G
    <3>1. (first - 1) + 0 = first - 1
      BY <1>0
    <3> QED
      BY <1>1, <1>6, <3>1 DEF Values
  <2>2. ASSUME NEW k \in Nat, k \in G PROVE k + 1 \in G
    <3> DEFINE i == (first - 1) + (k + 1)
    <3>1. SUFFICES ASSUME i \in D PROVE v[i] = g[i]
      OBVIOUS
    <3>2. i \in first .. stop - 1 /\ i - 1 = (first - 1) + k /\ (first - 1) + k \in D
      BY <1>0, <3>1
    <3>3. v[i - 1] = g[i - 1]
      BY <2>2, <3>2
    <3> HIDE DEF i
    <3> QED
      BY <1>1, <1>6, <3>2, <3>3 DEF Values
  <2>3. \A k \in Nat : k \in G
    <3> HIDE DEF G
    <3> QED
      BY <2>1, <2>2, Induct
  <2> TAKE i \in D
  <2>4. i - (first - 1) \in Nat /\ (first - 1) + (i - (first - 1)) = i
    BY <1>0
  <2> QED
    BY <2>3, <2>4
<1>8. stop - 1 \in D
  BY <1>0
<1> QED
  BY <1>1, <1>5, <1>7, <1>8

\* A number times a base, and one digit more.
LEMMA NextDigit ==
    ASSUME NEW acc \in Nat, NEW base \in 2 .. 36, NEW c \in 0 .. base - 1, NEW limit \in Nat, NEW any \in {0, 1}
    PROVE  Overflows(acc, any, c, limit, base) <=> acc * base + c > limit
<1> DEFINE q == limit \div base
           r == limit % base
<1>1. /\ base \in Nat /\ base >= 2 /\ c \in Nat /\ c < base /\ q \in Nat /\ r \in Nat /\ r < base
      /\ limit = q * base + r
  OBVIOUS
<1>2. Overflows(acc, any, c, limit, base) <=> acc > q \/ (acc = q /\ c > r)
  BY DEF Overflows
<1> HIDE DEF q, r
<1>3. CASE acc > q
  <2>1. PICK d \in Nat : acc = (q + 1) + d
    <3>1. acc - (q + 1) \in Nat /\ acc = (q + 1) + (acc - (q + 1))
      BY <1>1, <1>3
    <3> QED
      BY <3>1
  <2>2. acc * base = q * base + base + d * base /\ d * base \in Nat /\ q * base \in Nat
    BY <1>1, <2>1
  <2> QED
    BY <1>1, <1>2, <1>3, <2>2
<1>4. CASE acc = q
  BY <1>1, <1>2, <1>4
<1>5. CASE acc < q
  <2>1. PICK d \in Nat : q = (acc + 1) + d
    <3>1. q - (acc + 1) \in Nat /\ q = (acc + 1) + (q - (acc + 1))
      BY <1>1, <1>5
    <3> QED
      BY <3>1
  <2>2. q * base = acc * base + base + d * base /\ d * base \in Nat /\ acc * base \in Nat
    BY <1>1, <2>1
  <2> QED
    BY <1>1, <1>2, <1>5, <2>2
<1> QED
  BY <1>1, <1>3, <1>4, <1>5

\* More digits, no smaller value.
LEMMA ValuesGrow ==
    ASSUME NEW t, NEW first, NEW base, NEW stop, Scanned(t, first, base, stop),
           NEW v, Values(t, first, base, stop, v), NEW i \in first - 1 .. stop - 1, NEW j \in i .. stop - 1
    PROVE  v[i] <= v[j]
<1>0. /\ first \in Nat /\ first >= 1 /\ stop \in Nat /\ stop >= first /\ Len(t) \in Nat /\ base \in Nat /\ base >= 1
      /\ i \in Int /\ j \in Int /\ base \in 2 .. 36 /\ t \in Seq(Nat) /\ stop <= Len(t) + 1
  BY DEF Scanned
<1>1. ASSUME NEW k \in first .. stop - 1 PROVE v[k - 1] <= v[k] /\ v[k - 1] \in Nat /\ v[k] \in Nat
  <2>1. k - 1 \in first - 1 .. stop - 1 /\ k \in first - 1 .. stop - 1
    BY <1>0, <1>1
  <2>2. v[k - 1] \in Nat /\ v[k] \in Nat /\ v[k] = v[k - 1] * base + DigitValue(t[k])
    BY <1>1, <2>1 DEF Values
  <2>3. IsDigitOf(t[k], base) /\ t[k] \in Nat
    BY <1>0, <1>1 DEF Scanned
  <2>4. DigitValue(t[k]) \in 0 .. base - 1
    BY <1>0, <2>3, DigitIs
  <2>5. v[k - 1] * base >= v[k - 1] /\ v[k - 1] * base \in Nat
    <3>1. PICK b \in Nat : base = 1 + b
      <4>1. base - 1 \in Nat /\ base = 1 + (base - 1)
        BY <1>0
      <4> QED
        BY <4>1
    <3>2. v[k - 1] * base = v[k - 1] + v[k - 1] * b /\ v[k - 1] * b \in Nat
      BY <2>2, <3>1
    <3> QED
      BY <2>2, <3>2
  <2>6. DigitValue(t[k]) \in Nat
    BY <1>0, <2>4
  <2> DEFINE x == v[k - 1] * base
             d == DigitValue(t[k])
  <2>7. x \in Nat /\ d \in Nat /\ v[k - 1] <= x /\ v[k] = x + d /\ v[k - 1] \in Nat /\ v[k] \in Nat
    BY <2>2, <2>5, <2>6
  <2> HIDE DEF x, d
  <2>8. v[k - 1] <= v[k]
    BY <2>7
  <2> QED
    BY <2>2, <2>8
<1> DEFINE G == {k \in Nat : i + k <= stop - 1 => v[i] <= v[i + k]}
<1>2. v[i] \in Nat
  BY DEF Values
<1>3. 0 \in G
  <2>1. i + 0 = i
    BY <1>0
  <2> QED
    BY <1>2, <2>1
<1>4. ASSUME NEW k \in Nat, k \in G PROVE k + 1 \in G
  <2> DEFINE y == i + (k + 1)
  <2>1. SUFFICES ASSUME y <= stop - 1 PROVE v[i] <= v[y]
    OBVIOUS
  <2>2. y \in first .. stop - 1 /\ y - 1 = i + k /\ i + k <= stop - 1
    BY <1>0, <2>1
  <2>3. v[i] <= v[y - 1]
    BY <1>4, <2>2
  <2> HIDE DEF y
  <2>4. v[y - 1] <= v[y] /\ v[y - 1] \in Nat /\ v[y] \in Nat
    BY <1>1, <2>2
  <2> QED
    BY <1>2, <2>3, <2>4
<1>5. \A k \in Nat : k \in G
  <2> HIDE DEF G
  <2> QED
    BY <1>3, <1>4, Induct
<1>6. j - i \in Nat /\ i + (j - i) = j /\ j <= stop - 1
  BY <1>0
<1> QED
  BY <1>5, <1>6

\* The digits before the value passes a limit.
LEMMA LastThatFits ==
    ASSUME NEW t, NEW first, NEW base, NEW stop, Scanned(t, first, base, stop),
           NEW v, Values(t, first, base, stop, v), NEW limit \in Nat
    PROVE  \E L \in first - 1 .. stop - 1 : \A i \in first - 1 .. stop - 1 : v[i] <= limit <=> i <= L
<1>0. first \in Nat /\ first >= 1 /\ stop \in Nat /\ stop >= first
  BY DEF Scanned
<1> DEFINE S == {i \in first - 1 .. stop : i = stop \/ v[i] > limit}
<1>1. stop \in S
  BY <1>0
<1>2. PICK x \in S : \A y \in S : x <= y
  <2>1. S \subseteq Nat
    BY <1>0
  <2> HIDE DEF S
  <2> QED
    BY <1>1, <2>1, LeastNumber
<1>3. \A i \in first - 1 .. stop - 1 : v[i] \in Nat
  BY DEF Values
<1>4. x \in first .. stop
  <2>1. v[first - 1] = 0
    BY DEF Values
  <2>2. x # first - 1
    BY <1>0, <1>2, <2>1
  <2> QED
    BY <1>0, <1>2, <2>2
<1>5. x - 1 \in first - 1 .. stop - 1
  BY <1>0, <1>4
<1>6. ASSUME NEW i \in first - 1 .. stop - 1 PROVE v[i] <= limit <=> i <= x - 1
  <2>1. CASE i <= x - 1
    <3>1. i \in first - 1 .. stop /\ ~(x <= i) /\ i # stop
      BY <1>0, <1>4, <1>6, <2>1
    <3>2. ~(v[i] > limit)
      BY <1>2, <3>1
    <3> QED
      BY <1>3, <1>6, <2>1, <3>2
  <2>2. CASE ~(i <= x - 1)
    <3>1. x \in first - 1 .. stop - 1 /\ i \in x .. stop - 1 /\ x # stop
      BY <1>0, <1>4, <1>6, <2>2
    <3>2. v[x] > limit
      BY <1>2, <3>1
    <3>3. v[x] <= v[i]
      BY <3>1, ValuesGrow
    <3>4. v[x] \in Nat /\ v[i] \in Nat
      BY <1>3, <1>6, <3>1
    <3> QED
      BY <2>2, <3>2, <3>3, <3>4
  <2> QED
    BY <2>1, <2>2
<1> QED
  BY <1>5, <1>6

\* What the loop over the digits has done when it stands at place i, and L is the
\* last place whose value fits.
StateAt(v, first, L, i) ==
    [acc  |-> v[IF i - 1 <= L THEN i - 1 ELSE L],
     any  |-> IF i - 1 > L THEN -1 ELSE IF i = first THEN 0 ELSE 1,
     stop |-> i]

Turned(t, base, limit, r) ==
    LET c == At(t, r.stop)
    IN  CASE ~ IsDigitOf(c, base) -> r
          [] IsDigitOf(c, base) /\ Overflows(r.acc, r.any, DigitValue(c), limit, base) ->
               [acc |-> r.acc, any |-> -1, stop |-> r.stop + 1]
          [] OTHER ->
               [acc |-> ULong(r.acc * base + DigitValue(c)), any |-> 1, stop |-> r.stop + 1]

\* A turn of the loop takes the next digit, whether its value fits or not.
LEMMA DigitTurn ==
    ASSUME NEW t, NEW first, NEW base, NEW stop, Scanned(t, first, base, stop),
           NEW v, Values(t, first, base, stop, v), NEW limit \in Nat, limit <= ULONG_MAX,
           NEW L \in first - 1 .. stop - 1, \A i \in first - 1 .. stop - 1 : v[i] <= limit <=> i <= L,
           NEW i \in first .. stop
    PROVE  Turned(t, base, limit, StateAt(v, first, L, i))
             = StateAt(v, first, L, IF i < stop THEN i + 1 ELSE stop)
<1> DEFINE r == StateAt(v, first, L, i)
           c == At(t, i)
<1>0. /\ t \in Seq(Nat) /\ first \in Nat /\ first >= 1 /\ stop \in Nat /\ stop >= first /\ stop <= Len(t) + 1
      /\ Len(t) \in Nat /\ base \in 2 .. 36 /\ i \in Nat /\ L \in Int /\ base \in Nat
  BY DEF Scanned
<1>1. /\ r.stop = i /\ r.acc = v[IF i - 1 <= L THEN i - 1 ELSE L]
      /\ r.any = IF i - 1 > L THEN -1 ELSE IF i = first THEN 0 ELSE 1
  BY DEF StateAt
<1>2. Turned(t, base, limit, r)
        = CASE ~ IsDigitOf(c, base) -> r
            [] IsDigitOf(c, base) /\ Overflows(r.acc, r.any, DigitValue(c), limit, base) ->
                 [acc |-> r.acc, any |-> -1, stop |-> i + 1]
            [] OTHER ->
                 [acc |-> ULong(r.acc * base + DigitValue(c)), any |-> 1, stop |-> i + 1]
  BY <1>1 DEF Turned
<1> HIDE DEF r
<1>3. CASE i = stop
  <2>1. ~ IsDigitOf(c, base)
    BY <1>3 DEF Scanned
  <2>2. Turned(t, base, limit, r) = r
    BY <1>2, <2>1
  <2> QED
    BY <1>0, <1>3, <2>2 DEF r
<1>4. CASE i < stop
  <2>1. i \in first .. stop - 1 /\ i \in 1 .. Len(t) /\ i - 1 \in first - 1 .. stop - 1 /\ i \in first - 1 .. stop - 1
    BY <1>0, <1>4
  <2>2. c = t[i] /\ t[i] \in Nat /\ IsDigitOf(t[i], base)
    BY <1>0, <2>1, AtIs DEF Scanned
  <2>3. DigitValue(c) \in 0 .. base - 1 /\ IsDigitOf(c, base)
    BY <1>0, <2>2, DigitIs
  <2>4. v[i - 1] \in Nat /\ v[i] \in Nat /\ v[i] = v[i - 1] * base + DigitValue(c)
    BY <2>1, <2>2 DEF Values
  <2>5. i + 1 - 1 = i /\ i + 1 # first
    BY <1>0, <2>1
  <2> HIDE DEF c
  <2>6. CASE i - 1 > L
    <3>1. r.any = -1 /\ r.acc = v[L] /\ i > L
      BY <1>0, <1>1, <2>6
    <3>2. Overflows(r.acc, r.any, DigitValue(c), limit, base)
      BY <3>1 DEF Overflows
    <3>3. Turned(t, base, limit, r) = [acc |-> v[L], any |-> -1, stop |-> i + 1]
      BY <1>2, <2>3, <3>1, <3>2
    <3>4. StateAt(v, first, L, i + 1) = [acc |-> v[L], any |-> -1, stop |-> i + 1]
      BY <1>0, <2>5, <3>1 DEF StateAt
    <3> QED
      BY <1>4, <3>3, <3>4 DEF r
  <2>7. CASE ~(i - 1 > L)
    <3>1. r.any \in {0, 1} /\ r.acc = v[i - 1] /\ i - 1 <= L
      BY <1>0, <1>1, <2>7
    <3>2. Overflows(r.acc, r.any, DigitValue(c), limit, base) <=> v[i] > limit
      BY <1>0, <2>3, <2>4, <3>1, NextDigit
    <3>3. v[i] > limit <=> i > L
      BY <1>0, <2>1, <2>4
    <3>4. CASE i > L
      <4>1. Turned(t, base, limit, r) = [acc |-> v[i - 1], any |-> -1, stop |-> i + 1]
        BY <1>2, <2>3, <3>1, <3>2, <3>3, <3>4
      <4>2. i - 1 = L
        BY <1>0, <3>1, <3>4
      <4>3. StateAt(v, first, L, i + 1) = [acc |-> v[L], any |-> -1, stop |-> i + 1]
        BY <1>0, <2>5, <3>4 DEF StateAt
      <4> QED
        BY <1>4, <4>1, <4>2, <4>3 DEF r
    <3>5. CASE ~(i > L)
      <4>1. ULong(v[i]) = v[i]
        <5>1. v[i] <= ULONG_MAX /\ ULONG_MAX \in Nat
          BY <1>0, <2>4, <3>3, <3>5, NumberParsingAssumption
        <5> QED
          BY <2>4, <5>1 DEF ULong
      <4>2. Turned(t, base, limit, r) = [acc |-> v[i], any |-> 1, stop |-> i + 1]
        BY <1>2, <2>3, <2>4, <3>1, <3>2, <3>3, <3>5, <4>1
      <4>3. StateAt(v, first, L, i + 1) = [acc |-> v[i], any |-> 1, stop |-> i + 1]
        BY <1>0, <2>5, <3>5 DEF StateAt
      <4> QED
        BY <1>4, <4>2, <4>3 DEF r
    <3> QED
      BY <3>4, <3>5
  <2> QED
    BY <2>6, <2>7
<1> QED
  BY <1>0, <1>3, <1>4 DEF r

-----------------------------------------------------------------------------
(* The loops over digits *)

\* The loop over the digits ends where they do.
LEMMA AccumulateEnds ==
    ASSUME NEW t, NEW first, NEW base, NEW stop, Scanned(t, first, base, stop),
           NEW v, Values(t, first, base, stop, v), NEW limit \in Nat, limit <= ULONG_MAX,
           NEW L \in first - 1 .. stop - 1, \A i \in first - 1 .. stop - 1 : v[i] <= limit <=> i <= L
    PROVE  Accumulate(t, first, base, limit) = StateAt(v, first, L, stop)
<1> DEFINE n == Len(t)
<1>0. /\ n \in Nat /\ first \in Nat /\ first >= 1 /\ stop \in Nat /\ stop >= first /\ stop <= n + 1
      /\ L \in Int /\ first - 1 <= L /\ v[first - 1] = 0
  BY DEF Scanned, Values
<1>9. /\ Scanned(t, first, base, stop) /\ Values(t, first, base, stop, v) /\ limit \in Nat /\ limit <= ULONG_MAX
      /\ L \in first - 1 .. stop - 1 /\ \A i \in first - 1 .. stop - 1 : v[i] <= limit <=> i <= L
  OBVIOUS
<1> DEFINE at(k) == IF first + k <= stop THEN first + k ELSE stop
           m == [acc |-> 0, any |-> 0, stop |-> first]
           Turn(r, k) ==
             LET c == At(t, r.stop)
             IN  CASE ~ IsDigitOf(c, base) -> r
                   [] IsDigitOf(c, base) /\ Overflows(r.acc, r.any, DigitValue(c), limit, base) ->
                        [acc |-> r.acc, any |-> -1, stop |-> r.stop + 1]
                   [] OTHER ->
                        [acc |-> ULong(r.acc * base + DigitValue(c)), any |-> 1, stop |-> r.stop + 1]
           g == [k \in 0 .. n |-> StateAt(v, first, L, at(k))]
           f == CHOOSE f : f = [k \in 0 .. n |-> IF k = 0 THEN m ELSE Turn(f[k - 1], k)]
<1> HIDE DEF n
<1>1. ASSUME NEW k \in 1 .. n PROVE Turn(g[k - 1], k) = g[k]
  <2>1. k - 1 \in 0 .. n /\ k \in 0 .. n /\ k \in Nat /\ k >= 1
    BY <1>0, <1>1
  <2>2. at(k - 1) \in first .. stop /\ at(k) = IF at(k - 1) < stop THEN at(k - 1) + 1 ELSE stop
    BY <1>0, <2>1
  <2>3. g[k - 1] = StateAt(v, first, L, at(k - 1)) /\ g[k] = StateAt(v, first, L, at(k))
    <3> HIDE DEF at
    <3> QED
      BY <2>1
  <2> HIDE DEF at
  <2>4. Turn(g[k - 1], k) = Turned(t, base, limit, g[k - 1])
    BY DEF Turned
  <2> HIDE DEF Turn, g
  <2> DEFINE i == at(k - 1)
  <2>5. Turned(t, base, limit, StateAt(v, first, L, i)) = StateAt(v, first, L, IF i < stop THEN i + 1 ELSE stop)
    <3> HIDE DEF i
    <3>1. i \in first .. stop
      BY <2>2 DEF i
    <3> QED
      BY <3>1, <1>9, DigitTurn
  <2> QED
    BY <2>2, <2>3, <2>4, <2>5
<1>2. g[0] = m
  <2>1. 0 \in 0 .. n /\ at(0) = first
    BY <1>0
  <2>2. g[0] = StateAt(v, first, L, at(0))
    <3> HIDE DEF at
    <3> QED
      BY <2>1
  <2> QED
    BY <1>0, <2>1, <2>2 DEF StateAt
<1>3. g = [k \in 0 .. n |-> IF k = 0 THEN m ELSE Turn(g[k - 1], k)]
  <2>1. ASSUME NEW k \in 0 .. n PROVE g[k] = IF k = 0 THEN m ELSE Turn(g[k - 1], k)
    <3>1. k # 0 => k \in 1 .. n
      BY <1>0
    <3> HIDE DEF g, Turn, m
    <3> QED
      BY <1>1, <1>2, <3>1
  <2> DEFINE h == [k \in 0 .. n |-> IF k = 0 THEN m ELSE Turn(g[k - 1], k)]
  <2>2. \A k \in 0 .. n : h[k] = g[k]
    <3> HIDE DEF g, Turn, m
    <3> QED
      BY <2>1
  <2>3. g = [k \in 0 .. n |-> g[k]] /\ h = [k \in 0 .. n |-> h[k]]
    <3> HIDE DEF Turn, m
    <3> QED
      OBVIOUS
  <2> HIDE DEF h, g
  <2>4. g = h
    BY <2>2, <2>3
  <2> QED
    BY <2>4 DEF h
<1>4. f = [k \in 0 .. n |-> IF k = 0 THEN m ELSE Turn(f[k - 1], k)]
  <2> HIDE DEF g, Turn, m
  <2> QED
    BY <1>3
<1>5. f[0] = g[0] /\ \A k \in 1 .. n : f[k - 1] = g[k - 1] => f[k] = g[k]
  <2> HIDE DEF f, g, Turn, m
  <2>0. 0 \in 0 .. n /\ \A k \in 1 .. n : k \in 0 .. n /\ k # 0
    BY <1>0
  <2>1. f[0] = m
    BY <1>4, <2>0
  <2>2. \A k \in 1 .. n : f[k] = Turn(f[k - 1], k)
    BY <1>4, <2>0
  <2> QED
    BY <1>1, <1>2, <2>1, <2>2
<1>6. f[n] = g[n]
  <2> HIDE DEF f, g
  <2>1. n \in Nat /\ n \in 0 .. n
    BY <1>0
  <2>2. \A k \in 0 .. n : f[k] = g[k]
    BY <1>5, <2>1, LoopIs
  <2> QED
    BY <2>1, <2>2
<1>7. Accumulate(t, first, base, limit) = f[n]
  BY DEF Accumulate, Loop, n
<1>8. n \in 0 .. n /\ at(n) = stop
  BY <1>0
<1>10. g[n] = StateAt(v, first, L, stop)
  <2> HIDE DEF at
  <2> QED
    BY <1>8
<1> QED
  BY <1>6, <1>7, <1>10

\* What it leaves: all digits consumed, and the value of them or the sign that it
\* passes the limit.
LEMMA AccumulateIs ==
    ASSUME NEW t, NEW first, NEW base, NEW stop, Scanned(t, first, base, stop),
           NEW limit \in Nat, limit <= ULONG_MAX
    PROVE  LET r == Accumulate(t, first, base, limit)
               value == ValueOf(t, first, stop, base)
           IN  /\ value \in Nat /\ r.stop = stop /\ (r.any # 0 <=> stop # first)
               /\ r.any < 0 <=> value > limit
               /\ r.any \in {-1, 0, 1}
               /\ value <= limit => r.acc = value
<1> DEFINE r == Accumulate(t, first, base, limit)
           value == ValueOf(t, first, stop, base)
<1>0. first \in Nat /\ first >= 1 /\ stop \in Nat /\ stop >= first
  BY DEF Scanned
<1>1. PICK v : Values(t, first, base, stop, v) /\ value = v[stop - 1]
  BY ValueOfIs
<1>2. PICK L \in first - 1 .. stop - 1 : \A i \in first - 1 .. stop - 1 : v[i] <= limit <=> i <= L
  BY <1>1, LastThatFits
<1>3. r = StateAt(v, first, L, stop)
  BY <1>1, <1>2, AccumulateEnds
<1>4. stop - 1 \in first - 1 .. stop - 1 /\ L \in Int
  BY <1>0, <1>2
<1>5. v[stop - 1] \in Nat
  BY <1>1, <1>4 DEF Values
<1>6. v[stop - 1] <= limit <=> stop - 1 <= L
  BY <1>2, <1>4
<1>7. /\ r.acc = v[IF stop - 1 <= L THEN stop - 1 ELSE L]
      /\ r.any = IF stop - 1 > L THEN -1 ELSE IF stop = first THEN 0 ELSE 1
      /\ r.stop = stop
  BY <1>3 DEF StateAt
<1> HIDE DEF r, value
<1>8. r.any < 0 <=> value > limit
  BY <1>0, <1>1, <1>4, <1>5, <1>6, <1>7
<1>9. r.any \in {-1, 0, 1} /\ (value <= limit => r.acc = value)
  BY <1>0, <1>1, <1>4, <1>5, <1>6, <1>7
<1>10. r.any # 0 <=> stop # first
  BY <1>0, <1>2, <1>4, <1>7
<1> QED
  BY <1>1, <1>5, <1>7, <1>8, <1>9, <1>10 DEF r, value

\* Multiples of the modulus do not count.
LEMMA Wraps ==
    ASSUME NEW q \in Nat, NEW y \in Nat
    PROVE  ULong(q * (ULONG_MAX + 1) + y) = ULong(y)
<1> DEFINE M == ULONG_MAX + 1
<1>1. M \in Nat /\ M > 0
  BY NumberParsingAssumption
<1> HIDE DEF M
<1>2. (q * M + y) % M = y % M
  <2>1. PICK a \in Nat, b \in Nat : y = a * M + b /\ b < M
    <3>1. y = (y \div M) * M + (y % M) /\ y \div M \in Nat /\ y % M \in Nat /\ y % M < M
      BY <1>1
    <3> QED
      BY <3>1
  <2>2. y % M = b
    BY <1>1, <2>1, Remainder
  <2>3. q * M + y = (q + a) * M + b
    BY <1>1, <2>1
  <2>4. q + a \in Nat
    BY <2>1
  <2>5. ((q + a) * M + b) % M = b
    BY <1>1, <2>1, <2>4, Remainder
  <2> QED
    BY <2>2, <2>3, <2>5
<1> QED
  BY <1>2 DEF ULong, M

\* A value that is reduced before the next digit is added is reduced with it.
LEMMA WrapsEarly ==
    ASSUME NEW x \in Nat, NEW d \in Nat
    PROVE  ULong(ULong(x) * 10 + d) = ULong(x * 10 + d)
<1> DEFINE M == ULONG_MAX + 1
<1>1. M \in Nat /\ M > 0
  BY NumberParsingAssumption
<1>2. ULong(x) = x % M
  BY DEF ULong
<1> HIDE DEF M
<1>3. PICK q \in Nat, y \in Nat : x = q * M + y /\ y = x % M
  <2>1. x = (x \div M) * M + (x % M) /\ x \div M \in Nat /\ x % M \in Nat
    BY <1>1
  <2> QED
    BY <2>1
<1>4. x * 10 + d = (q * 10) * M + (y * 10 + d)
  BY <1>1, <1>3
<1>5. q * 10 \in Nat /\ y * 10 + d \in Nat
  BY <1>3
<1>6. ULong((q * 10) * (ULONG_MAX + 1) + (y * 10 + d)) = ULong(y * 10 + d)
  BY <1>5, Wraps
<1> QED
  BY <1>2, <1>3, <1>4, <1>6 DEF M

\* Where atou() stands, and what one turn of it does.
WrappedAt(v, i) == [val |-> ULong(v[i - 1]), next |-> i]

AtouTurned(t, r) ==
    LET c == At(t, r.next)
    IN  IF isdigit(c) THEN [val |-> ULong(r.val * 10 + DigitValue(c)), next |-> r.next + 1] ELSE r

\* A turn of atou() takes the next digit, or nothing behind the last one.
LEMMA AtouTurn ==
    ASSUME NEW t, NEW first, NEW stop, Scanned(t, first, 10, stop),
           NEW v, Values(t, first, 10, stop, v), NEW i \in first .. stop
    PROVE  AtouTurned(t, WrappedAt(v, i)) = WrappedAt(v, IF i < stop THEN i + 1 ELSE stop)
<1> DEFINE c == At(t, i)
           r == WrappedAt(v, i)
<1>0. /\ t \in Seq(Nat) /\ first \in Nat /\ first >= 1 /\ stop \in Nat /\ stop >= first /\ stop <= Len(t) + 1
      /\ Len(t) \in Nat /\ i \in Nat /\ 10 \in 2 .. 36
  BY DEF Scanned
<1>1. r.next = i /\ r.val = ULong(v[i - 1])
  BY DEF WrappedAt
<1>2. AtouTurned(t, r) = IF isdigit(c) THEN [val |-> ULong(r.val * 10 + DigitValue(c)), next |-> i + 1] ELSE r
  BY <1>1 DEF AtouTurned
<1>3. c \in Nat /\ (IsDigitOf(c, 10) <=> isdigit(c))
  BY <1>0, AtIs, DecimalIs
<1> HIDE DEF r
<1>4. CASE i = stop
  <2>1. ~ IsDigitOf(c, 10)
    BY <1>4 DEF Scanned
  <2> QED
    BY <1>0, <1>2, <1>3, <1>4, <2>1 DEF r
<1>5. CASE i < stop
  <2>1. i \in first .. stop - 1 /\ i \in 1 .. Len(t) /\ i - 1 \in first - 1 .. stop - 1
    BY <1>0, <1>5
  <2>2. c = t[i] /\ IsDigitOf(c, 10)
    BY <1>0, <2>1, AtIs DEF Scanned
  <2>3. DigitValue(c) \in 0 .. 10 - 1
    BY <1>0, <1>3, <2>2, DigitIs
  <2>4. DigitValue(c) \in Nat
    BY <2>3
  <2>5. v[i - 1] \in Nat /\ v[i] = v[i - 1] * 10 + DigitValue(c)
    BY <2>1, <2>2 DEF Values
  <2>6. ULong(ULong(v[i - 1]) * 10 + DigitValue(c)) = ULong(v[i])
    BY <2>4, <2>5, WrapsEarly
  <2> HIDE DEF c
  <2>7. AtouTurned(t, r) = [val |-> ULong(v[i]), next |-> i + 1]
    BY <1>1, <1>2, <1>3, <2>2, <2>6
  <2>8. i + 1 - 1 = i
    BY <1>0
  <2>9. WrappedAt(v, i + 1) = [val |-> ULong(v[i]), next |-> i + 1]
    BY <2>8 DEF WrappedAt
  <2> QED
    BY <1>5, <2>7, <2>9 DEF r
<1> QED
  BY <1>0, <1>4, <1>5

\* atou() wraps at any length.
LEMMA AtouIs ==
    ASSUME NEW t, NEW first, NEW stop, Scanned(t, first, 10, stop)
    PROVE  AtouFrom(t, first).val = ULong(ValueOf(t, first, stop, 10))
<1>a. PICK v : Values(t, first, 10, stop, v) /\ ValueOf(t, first, stop, 10) = v[stop - 1]
  BY ValueOfIs
<1> DEFINE n == Len(t)
<1>0. /\ n \in Nat /\ first \in Nat /\ first >= 1 /\ stop \in Nat /\ stop >= first /\ stop <= n + 1
      /\ v[first - 1] = 0
  BY <1>a DEF Scanned, Values
<1>9. Scanned(t, first, 10, stop) /\ Values(t, first, 10, stop, v)
  BY <1>a
<1> DEFINE at(k) == IF first + k <= stop THEN first + k ELSE stop
           m == [val |-> 0, next |-> first]
           Turn(r, k) ==
             LET c == At(t, r.next)
             IN  IF isdigit(c) THEN [val |-> ULong(r.val * 10 + DigitValue(c)), next |-> r.next + 1] ELSE r
           g == [k \in 0 .. n |-> WrappedAt(v, at(k))]
           f == CHOOSE f : f = [k \in 0 .. n |-> IF k = 0 THEN m ELSE Turn(f[k - 1], k)]
<1> HIDE DEF n
<1>1. ASSUME NEW k \in 1 .. n PROVE Turn(g[k - 1], k) = g[k]
  <2>1. k - 1 \in 0 .. n /\ k \in 0 .. n /\ k \in Nat /\ k >= 1
    BY <1>0, <1>1
  <2>2. at(k - 1) \in first .. stop /\ at(k) = IF at(k - 1) < stop THEN at(k - 1) + 1 ELSE stop
    BY <1>0, <2>1
  <2>3. g[k - 1] = WrappedAt(v, at(k - 1)) /\ g[k] = WrappedAt(v, at(k))
    <3> HIDE DEF at
    <3> QED
      BY <2>1
  <2> HIDE DEF at
  <2>4. Turn(g[k - 1], k) = AtouTurned(t, g[k - 1])
    BY DEF AtouTurned
  <2> HIDE DEF Turn, g
  <2> DEFINE i == at(k - 1)
  <2>5. AtouTurned(t, WrappedAt(v, i)) = WrappedAt(v, IF i < stop THEN i + 1 ELSE stop)
    <3> HIDE DEF i
    <3>1. i \in first .. stop
      BY <2>2 DEF i
    <3> QED
      BY <3>1, <1>9, AtouTurn
  <2> QED
    BY <2>2, <2>3, <2>4, <2>5
<1>2. g[0] = m
  <2>1. 0 \in 0 .. n /\ at(0) = first
    BY <1>0
  <2>2. g[0] = WrappedAt(v, at(0))
    <3> HIDE DEF at
    <3> QED
      BY <2>1
  <2>3. ULong(0) = 0
    BY NumberParsingAssumption DEF ULong
  <2> QED
    BY <1>0, <2>1, <2>2, <2>3 DEF WrappedAt
<1>3. g = [k \in 0 .. n |-> IF k = 0 THEN m ELSE Turn(g[k - 1], k)]
  <2>1. ASSUME NEW k \in 0 .. n PROVE g[k] = IF k = 0 THEN m ELSE Turn(g[k - 1], k)
    <3>1. k # 0 => k \in 1 .. n
      BY <1>0
    <3> HIDE DEF g, Turn, m
    <3> QED
      BY <1>1, <1>2, <3>1
  <2> DEFINE h == [k \in 0 .. n |-> IF k = 0 THEN m ELSE Turn(g[k - 1], k)]
  <2>2. \A k \in 0 .. n : h[k] = g[k]
    <3> HIDE DEF g, Turn, m
    <3> QED
      BY <2>1
  <2>3. g = [k \in 0 .. n |-> g[k]] /\ h = [k \in 0 .. n |-> h[k]]
    <3> HIDE DEF Turn, m
    <3> QED
      OBVIOUS
  <2> HIDE DEF h, g
  <2>4. g = h
    BY <2>2, <2>3
  <2> QED
    BY <2>4 DEF h
<1>4. f = [k \in 0 .. n |-> IF k = 0 THEN m ELSE Turn(f[k - 1], k)]
  <2> HIDE DEF g, Turn, m
  <2> QED
    BY <1>3
<1>5. f[0] = g[0] /\ \A k \in 1 .. n : f[k - 1] = g[k - 1] => f[k] = g[k]
  <2> HIDE DEF f, g, Turn, m
  <2>0. 0 \in 0 .. n /\ \A k \in 1 .. n : k \in 0 .. n /\ k # 0
    BY <1>0
  <2>1. f[0] = m
    BY <1>4, <2>0
  <2>2. \A k \in 1 .. n : f[k] = Turn(f[k - 1], k)
    BY <1>4, <2>0
  <2> QED
    BY <1>1, <1>2, <2>1, <2>2
<1>6. f[n] = g[n]
  <2> HIDE DEF f, g
  <2>1. n \in Nat /\ n \in 0 .. n
    BY <1>0
  <2>2. \A k \in 0 .. n : f[k] = g[k]
    BY <1>5, <2>1, LoopIs
  <2> QED
    BY <2>1, <2>2
<1>7. AtouFrom(t, first) = f[n]
  BY DEF AtouFrom, Loop, n
<1>8. n \in 0 .. n /\ at(n) = stop
  BY <1>0
<1>10. g[n] = WrappedAt(v, stop)
  <2> HIDE DEF at
  <2> QED
    BY <1>8
<1>11. WrappedAt(v, stop).val = ULong(v[stop - 1])
  BY DEF WrappedAt
<1> QED
  BY <1>a, <1>6, <1>7, <1>10, <1>11

-----------------------------------------------------------------------------
(* strtol and strtoul *)

\* The spaces end within the text or at its end.
LEMMA SkipSpacesIs ==
    ASSUME NEW t \in Seq(Nat)
    PROVE  /\ SkipSpaces(t) \in 1 .. Len(t) + 1
           /\ ~ isspace(At(t, SkipSpaces(t)))
           /\ \A j \in 1 .. SkipSpaces(t) - 1 : isspace(At(t, j))
<1> DEFINE Stop(i) == ~ isspace(At(t, i))
           S == {i \in 1 .. Len(t) + 1 : Stop(i)}
           P(i) == Stop(i) /\ \A j \in 1 .. i - 1 : ~ Stop(j)
<1>0. Len(t) \in Nat
  OBVIOUS
<1>1. Len(t) + 1 \in S
  <2>1. At(t, Len(t) + 1) = 0
    BY <1>0, AtIs
  <2>2. Stop(Len(t) + 1)
    BY <2>1 DEF isspace
  <2> QED
    BY <1>0, <2>2
<1>2. PICK x \in S : \A y \in S : x <= y
  <2>1. S \subseteq Nat
    BY <1>0
  <2> HIDE DEF S
  <2> QED
    BY <1>1, <2>1, LeastNumber
<1>3. x \in 1 .. Len(t) + 1 /\ P(x)
  <2> HIDE DEF Stop
  <2>1. ASSUME NEW j \in 1 .. x - 1 PROVE ~ Stop(j)
    <3>1. j \in 1 .. Len(t) + 1 /\ ~(x <= j)
      BY <1>0, <1>2, <2>1
    <3> QED
      BY <1>2, <3>1
  <2> QED
    BY <1>2, <2>1
<1>4. SkipSpaces(t) = CHOOSE i \in 1 .. Len(t) + 1 : P(i)
  BY DEF SkipSpaces, First
<1> HIDE DEF P
<1>5. SkipSpaces(t) \in 1 .. Len(t) + 1 /\ P(SkipSpaces(t))
  BY <1>3, <1>4
<1> QED
  BY <1>5 DEF P

\* The prefix stays within the text and leaves a base that has digits.
LEMMA PrefixIs ==
    ASSUME NEW t \in Seq(Nat), NEW base \in {0} \cup 2 .. 36
    PROVE  /\ Prefix(t, base).first \in 1 .. Len(t) + 1
           /\ Prefix(t, base).base \in 2 .. 36
           /\ Prefix(t, base).neg \in BOOLEAN
<1> DEFINE i == SkipSpaces(t)
           j == SkipSign(t, i)
           d == DigitsFrom(t, j, base)
<1>0. Len(t) \in Nat
  OBVIOUS
<1>1. i \in 1 .. Len(t) + 1
  BY SkipSpacesIs
<1>2. Prefix(t, base).first = d.first /\ Prefix(t, base).base = d.base /\ Prefix(t, base).neg \in BOOLEAN
  BY DEF Prefix
<1> HIDE DEF i
<1>3. j \in 1 .. Len(t) + 1
  <2>1. At(t, i) # 0 => i \in 1 .. Len(t)
    BY <1>0, <1>1, AtIs
  <2> QED
    BY <1>0, <1>1, <2>1 DEF SkipSign, Minus_, Plus_
<1> HIDE DEF j
<1>4. j \in Nat /\ j + 1 \in Nat
  BY <1>0, <1>3
<1>5. HexPrefix(t, j, base) => j + 2 \in 1 .. Len(t) + 1
  <2>1. At(t, j + 1) # 0 => j + 1 \in 1 .. Len(t)
    BY <1>0, <1>4, AtIs
  <2>2. HexPrefix(t, j, base) => At(t, j + 1) # 0
    BY DEF HexPrefix, Letter_x, Letter_X
  <2> QED
    BY <1>0, <1>4, <2>1, <2>2
<1>6. CASE HexPrefix(t, j, base)
  <2>1. d = [first |-> j + 2, base |-> 16]
    BY <1>6 DEF DigitsFrom
  <2> QED
    BY <1>2, <1>5, <1>6, <2>1
<1>7. CASE ~ HexPrefix(t, j, base) /\ base # 0
  <2>1. d = [first |-> j, base |-> base]
    BY <1>7 DEF DigitsFrom
  <2> QED
    BY <1>2, <1>3, <1>7, <2>1
<1>8. CASE ~ HexPrefix(t, j, base) /\ base = 0
  <2>1. d = [first |-> j, base |-> IF At(t, j) = Zero THEN 8 ELSE 10]
    BY <1>8 DEF DigitsFrom
  <2> QED
    BY <1>2, <1>3, <2>1
<1> QED
  BY <1>6, <1>7, <1>8

\* It begins the digits where C lets them begin.
LEMMA PrefixBegins ==
    ASSUME NEW t \in Seq(Nat), NEW base \in {0} \cup 2 .. 36
    PROVE  Prefix(t, base) \in Beginnings(t, base)
<1> DEFINE p == Prefix(t, base)
           i == SkipSpaces(t)
           j == SkipSign(t, i)
           d == DigitsFrom(t, j, base)
           spaces == i - 1
           sign == j - i
           mark == IF HexPrefix(t, j, base) THEN 2 ELSE 0
<1>0. Len(t) \in Nat
  OBVIOUS
<1>1. i \in 1 .. Len(t) + 1 /\ ~ isspace(At(t, i)) /\ \A k \in 1 .. i - 1 : isspace(At(t, k))
  BY SkipSpacesIs
<1>2. p = [neg |-> At(t, i) = Minus_, first |-> d.first, base |-> d.base]
  BY DEF Prefix
<1>3. p.neg = (At(t, i) = Minus_) /\ p.first = d.first /\ p.base = d.base
  BY <1>2
<1>4. p.first \in 1 .. Len(t) + 1
  BY PrefixIs
<1>5. /\ HexPrefix(t, j, base) => p.first = j + 2 /\ p.base = 16
      /\ ~ HexPrefix(t, j, base) => p.first = j
      /\ ~ HexPrefix(t, j, base) /\ base # 0 => p.base = base
      /\ ~ HexPrefix(t, j, base) /\ base = 0 => p.base = IF At(t, j) = 48 THEN 8 ELSE 10
  <2> HIDE DEF p, i, j
  <2> QED
    BY <1>3 DEF DigitsFrom, Zero
<1>6. p \in [neg : BOOLEAN, first : 1 .. Len(t) + 1, base : {8, 10, 16, base}]
  <2>1. p.base \in {8, 10, 16, base} /\ p.neg \in BOOLEAN
    <3> HIDE DEF p, i, j
    <3> QED
      BY <1>3, <1>5
  <2>2. d.base \in {8, 10, 16, base} /\ d.first \in 1 .. Len(t) + 1
    BY <1>3, <1>4, <2>1
  <2> HIDE DEF p, i, j, d
  <2> QED
    BY <1>2, <2>2
<1> HIDE DEF p, i, d
<1>7. (j = i \/ j = i + 1) /\ (j = i + 1 <=> At(t, i) \in {43, 45})
  BY <1>0, <1>1 DEF SkipSign, Minus_, Plus_
<1> HIDE DEF j
<1>8. /\ spaces \in 0 .. Len(t) /\ sign \in 0 .. 1 /\ mark \in {0, 2}
      /\ spaces + 1 = i /\ spaces + sign + 1 = j /\ spaces + sign + 2 = j + 1
      /\ spaces + sign + mark + 1 = j + mark
      /\ (sign = 1 <=> j = i + 1)
  BY <1>0, <1>1, <1>7
<1>9. \A k \in 1 .. spaces : t[k] \in WhiteSpace
  <2> TAKE k \in 1 .. spaces
  <2>1. k \in 1 .. i - 1 /\ k \in 1 .. Len(t)
    BY <1>0, <1>1
  <2>2. isspace(At(t, k)) /\ At(t, k) = t[k]
    BY <1>1, <2>1 DEF At
  <2> QED
    BY <2>2 DEF isspace, WhiteSpace
<1>10. At(t, i) \notin WhiteSpace
  BY <1>1 DEF isspace, WhiteSpace
<1>11. HexPrefix(t, j, base) <=> base \in {0, 16} /\ At(t, j) = 48 /\ At(t, j + 1) \in {88, 120}
  BY DEF HexPrefix, Zero, Letter_x, Letter_X
<1>12. mark = 2 <=> HexPrefix(t, j, base)
  OBVIOUS
<1>13. p.first = j + mark
  BY <1>0, <1>1, <1>5, <1>7
<1>14. p.base = CASE base # 0 -> base
                  [] base = 0 /\ mark = 2 -> 16
                  [] base = 0 /\ mark = 0 /\ At(t, j) = 48 -> 8
                  [] OTHER -> 10
  <2>1. HexPrefix(t, j, base) => base = 0 \/ base = 16
    BY <1>11
  <2> QED
    BY <1>5, <2>1
<1> HIDE DEF spaces, sign, mark
<1>15. Begins(t, base, p)
  <2>1. At(t, spaces + 1) = At(t, i)
    BY <1>8
  <2>2. At(t, spaces + sign + 1) = At(t, j) /\ At(t, spaces + sign + 2) = At(t, j + 1)
    BY <1>8
  <2>3. At(t, spaces + 1) \notin WhiteSpace
    BY <1>10, <2>1
  <2>4. sign = 1 <=> At(t, spaces + 1) \in {43, 45}
    BY <1>7, <1>8, <2>1
  <2>5. p.neg <=> At(t, spaces + 1) = 45
    BY <1>3, <2>1 DEF Minus_
  <2>6. mark = 2 <=> /\ base \in {0, 16}
                     /\ At(t, spaces + sign + 1) = 48
                     /\ At(t, spaces + sign + 2) \in {88, 120}
    BY <1>11, <1>12, <2>2
  <2>7. p.first = spaces + sign + mark + 1
    BY <1>8, <1>13
  <2>8. p.base = CASE base # 0 -> base
                   [] base = 0 /\ mark = 2 -> 16
                   [] base = 0 /\ mark = 0 /\ At(t, spaces + sign + 1) = 48 -> 8
                   [] OTHER -> 10
    BY <1>14, <2>2
  <2> QED
    BY <1>8, <1>9, <2>3, <2>4, <2>5, <2>6, <2>7, <2>8 DEF Begins
<1> QED
  BY <1>6, <1>15 DEF Beginnings, p

\* The limits of long.
LEMMA Limits ==
    /\ ULONG_MAX \in Nat /\ LONG_MAX \in Nat /\ LONG_MIN \in Int
    /\ ULONG_MAX = 2 * LONG_MAX + 1 /\ LONG_MIN = -(LONG_MAX + 1)
  BY NumberParsingAssumption DEF LONG_MAX, LONG_MIN

\* A number that fits in a long is itself.
LEMMA LongIs ==
    ASSUME NEW x \in Int, LONG_MIN <= x, x <= LONG_MAX
    PROVE  Long(x) = x
<1>0. /\ ULONG_MAX \in Nat /\ LONG_MAX \in Nat /\ ULONG_MAX = 2 * LONG_MAX + 1 /\ LONG_MIN = -(LONG_MAX + 1)
  BY Limits
<1>1. CASE x >= 0
  <2>1. x \in Nat /\ x < ULONG_MAX + 1
    BY <1>0, <1>1
  <2>2. ULong(x) = x
    BY <1>0, <2>1 DEF ULong
  <2> QED
    BY <1>0, <2>2 DEF Long
<1>2. CASE x < 0
  <2>1. x + (ULONG_MAX + 1) \in 0 .. ULONG_MAX
    BY <1>0, <1>2
  <2>2. x % (ULONG_MAX + 1) = x + (ULONG_MAX + 1)
    BY <1>0, <2>1
  <2>3. ULong(x) = x + (ULONG_MAX + 1) /\ ULong(x) > LONG_MAX
    BY <1>0, <1>2, <2>2 DEF ULong
  <2> QED
    BY <1>0, <2>3 DEF Long
<1> QED
  BY <1>0, <1>1, <1>2

\* What strtol() and strtoul() should return, and leave in *endptr.
EndOf(t, p) == LastDigitFrom(t, p.first, p.base)
ValueIn(t, p) == ValueOf(t, p.first, EndOf(t, p), p.base)
SignedValue(t, p) == Clamp(IF p.neg THEN -ValueIn(t, p) ELSE ValueIn(t, p), LONG_MIN, LONG_MAX)
UnsignedValue(t, p) ==
    IF ValueIn(t, p) > ULONG_MAX THEN ULONG_MAX ELSE ULong(IF p.neg THEN -ValueIn(t, p) ELSE ValueIn(t, p))
EndLeft(t, p) == IF EndOf(t, p) = p.first THEN 1 ELSE EndOf(t, p)

\* strtol() returns the value of its digits, or the limit it passes.
LEMMA StrtolIs ==
    ASSUME NEW t \in Seq(Nat), NEW base \in {0} \cup 2 .. 36
    PROVE  strtol(t, base)
             = [val |-> SignedValue(t, Prefix(t, base)), end |-> EndLeft(t, Prefix(t, base))]
<1> DEFINE p == Prefix(t, base)
           limit == IF p.neg THEN -LONG_MIN ELSE LONG_MAX
           r == Accumulate(t, p.first, p.base, limit)
           value == ValueIn(t, p)
           stop == EndOf(t, p)
<1>0. p.first \in 1 .. Len(t) + 1 /\ p.base \in 2 .. 36 /\ p.neg \in BOOLEAN
  BY PrefixIs
<1>1. strtol(t, base)
        = [val |-> CASE r.any < 0            -> IF p.neg THEN LONG_MIN ELSE LONG_MAX
                     [] r.any >= 0 /\ p.neg  -> Long(-r.acc)
                     [] OTHER                -> Long(r.acc),
           end |-> EndPtr(r)]
  BY DEF strtol
<1> HIDE DEF p
<1>2. Scanned(t, p.first, p.base, stop)
  BY <1>0, LastDigitIs DEF EndOf
<1>3. /\ ULONG_MAX \in Nat /\ LONG_MAX \in Nat /\ LONG_MIN \in Int
      /\ ULONG_MAX = 2 * LONG_MAX + 1 /\ LONG_MIN = -(LONG_MAX + 1)
  BY Limits
<1>4. limit \in Nat /\ limit <= ULONG_MAX
  BY <1>3
<1> HIDE DEF limit
<1>5. /\ value \in Nat /\ r.stop = stop /\ (r.any # 0 <=> stop # p.first)
      /\ r.any < 0 <=> value > limit
      /\ r.any \in {-1, 0, 1}
      /\ value <= limit => r.acc = value
  BY <1>2, <1>4, AccumulateIs DEF ValueIn
<1> HIDE DEF r, value, stop
<1>6. EndPtr(r) = EndLeft(t, p)
  BY <1>5 DEF EndPtr, EndLeft, stop
<1> DEFINE x == IF p.neg THEN -value ELSE value
<1>7. SignedValue(t, p) = Clamp(x, LONG_MIN, LONG_MAX)
  BY DEF SignedValue, value
<1>8. CASE value > limit
  <2>1. CASE p.neg
    <3>1. limit = LONG_MAX + 1 /\ x < LONG_MIN
      BY <1>3, <1>5, <1>8, <2>1 DEF limit
    <3>2. Clamp(x, LONG_MIN, LONG_MAX) = LONG_MIN
      BY <1>3, <1>5, <3>1 DEF Clamp
    <3> QED
      BY <1>1, <1>5, <1>6, <1>7, <1>8, <2>1, <3>2 DEF p
  <2>2. CASE ~ p.neg
    <3>1. limit = LONG_MAX /\ x > LONG_MAX /\ ~(x < LONG_MIN)
      BY <1>3, <1>5, <1>8, <2>2 DEF limit
    <3>2. Clamp(x, LONG_MIN, LONG_MAX) = LONG_MAX
      BY <1>3, <1>5, <3>1 DEF Clamp
    <3> QED
      BY <1>1, <1>5, <1>6, <1>7, <1>8, <2>2, <3>2 DEF p
  <2> QED
    BY <2>1, <2>2
<1>9. CASE ~(value > limit)
  <2>1. r.acc = value /\ ~(r.any < 0) /\ r.any >= 0
    BY <1>4, <1>5, <1>9
  <2>2. x \in Int /\ LONG_MIN <= x /\ x <= LONG_MAX
    BY <1>0, <1>3, <1>5, <1>9 DEF limit
  <2>3. Long(x) = x
    BY <2>2, LongIs
  <2>4. Clamp(x, LONG_MIN, LONG_MAX) = x
    BY <1>3, <2>2 DEF Clamp
  <2>5. CASE p.neg
    <3>1. x = -r.acc
      BY <2>1, <2>5
    <3> HIDE DEF x
    <3>2. strtol(t, base) = [val |-> Long(x), end |-> EndPtr(r)]
      BY <1>1, <2>1, <2>5, <3>1
    <3> QED
      BY <1>6, <1>7, <2>3, <2>4, <3>2 DEF p
  <2>6. CASE ~ p.neg
    <3>1. x = r.acc
      BY <2>1, <2>6
    <3> HIDE DEF x
    <3>2. strtol(t, base) = [val |-> Long(x), end |-> EndPtr(r)]
      BY <1>1, <2>1, <2>6, <3>1
    <3> QED
      BY <1>6, <1>7, <2>3, <2>4, <3>2 DEF p
  <2> QED
    BY <2>5, <2>6
<1> QED
  BY <1>8, <1>9

\* strtoul() likewise; it negates modulo its range.
LEMMA StrtoulIs ==
    ASSUME NEW t \in Seq(Nat), NEW base \in {0} \cup 2 .. 36
    PROVE  strtoul(t, base)
             = [val |-> UnsignedValue(t, Prefix(t, base)), end |-> EndLeft(t, Prefix(t, base))]
<1> DEFINE p == Prefix(t, base)
           r == Accumulate(t, p.first, p.base, ULONG_MAX)
           value == ValueIn(t, p)
           stop == EndOf(t, p)
<1>0. p.first \in 1 .. Len(t) + 1 /\ p.base \in 2 .. 36 /\ p.neg \in BOOLEAN
  BY PrefixIs
<1>1. strtoul(t, base)
        = [val |-> CASE r.any < 0            -> ULONG_MAX
                     [] r.any >= 0 /\ p.neg  -> ULong(-r.acc)
                     [] OTHER                -> r.acc,
           end |-> EndPtr(r)]
  BY DEF strtoul
<1> HIDE DEF p
<1>2. Scanned(t, p.first, p.base, stop)
  BY <1>0, LastDigitIs DEF EndOf
<1>3. ULONG_MAX \in Nat /\ ULONG_MAX <= ULONG_MAX
  BY Limits
<1>5. /\ value \in Nat /\ r.stop = stop /\ (r.any # 0 <=> stop # p.first)
      /\ r.any < 0 <=> value > ULONG_MAX
      /\ r.any \in {-1, 0, 1}
      /\ value <= ULONG_MAX => r.acc = value
  BY <1>2, <1>3, AccumulateIs DEF ValueIn
<1> HIDE DEF r, value, stop
<1>6. EndPtr(r) = EndLeft(t, p)
  BY <1>5 DEF EndPtr, EndLeft, stop
<1>7. UnsignedValue(t, p) = IF value > ULONG_MAX THEN ULONG_MAX ELSE ULong(IF p.neg THEN -value ELSE value)
  BY DEF UnsignedValue, value
<1>8. CASE value > ULONG_MAX
  <2>1. strtoul(t, base) = [val |-> ULONG_MAX, end |-> EndPtr(r)]
    BY <1>1, <1>5, <1>8
  <2> QED
    BY <1>6, <1>7, <1>8, <2>1 DEF p
<1>9. CASE ~(value > ULONG_MAX)
  <2>1. r.acc = value /\ ~(r.any < 0) /\ r.any >= 0
    BY <1>3, <1>5, <1>9
  <2>2. CASE p.neg
    <3>1. strtoul(t, base) = [val |-> ULong(-value), end |-> EndPtr(r)]
      BY <1>1, <2>1, <2>2
    <3> QED
      BY <1>6, <1>7, <1>9, <2>2, <3>1 DEF p
  <2>3. CASE ~ p.neg
    <3>1. strtoul(t, base) = [val |-> value, end |-> EndPtr(r)]
      BY <1>1, <2>1, <2>3
    <3>2. ULong(value) = value
      BY <1>3, <1>5, <1>9 DEF ULong
    <3> QED
      BY <1>6, <1>7, <1>9, <2>3, <3>1, <3>2 DEF p
  <2> QED
    BY <2>2, <2>3
<1> QED
  BY <1>8, <1>9

-----------------------------------------------------------------------------
(* The calls that parse a number *)

NumberCalls == {"strtol", "strtoul", "strtoll", "strtoull", "atol", "atoll", "atoi"}

PrefixOf(c) == Prefix(c.t, BaseAsked(c))

\* NumbersAgree of one call and its result.
NumberAgrees(c, r) ==
    /\ c.fn \in NumberCalls =>
         /\ PrefixOf(c) \in Beginnings(c.t, BaseAsked(c))
         /\ "end" \in DOMAIN r => r.end = EndLeft(c.t, PrefixOf(c))
         /\ r.val = CASE c.fn = "atoi" -> Signed(SignedValue(c.t, PrefixOf(c)), UINT_MAX)
                      [] c.fn # "atoi" /\ IsSigned(c.fn) -> SignedValue(c.t, PrefixOf(c))
                      [] OTHER -> UnsignedValue(c.t, PrefixOf(c))
    /\ c.fn = "atou" => r.val = ULong(ValueOf(c.t, 1, LastDigitFrom(c.t, 1, 10), 10))

\* It is what the property says of the call.
LEMMA NumbersAgreeIs ==
    NumberAgrees(call, result) => NumbersAgree
  BY DEF NumbersAgree, NumberAgrees, NumberCalls, PrefixOf, EndLeft, SignedValue, UnsignedValue, ValueIn, EndOf

\* The same of the state after a step.
LEMMA NumbersAgreeNext ==
    NumberAgrees(call', result') => NumbersAgree'
  BY DEF NumbersAgree, NumberAgrees, NumberCalls, PrefixOf, EndLeft, SignedValue, UnsignedValue, ValueIn, EndOf

\* The calls for signed numbers with an end pointer.
LEMMA SignedCall ==
    ASSUME NEW t \in Seq(Nat), NEW base \in {0} \cup 2 .. 36, NEW fn \in {"strtol", "strtoll"}
    PROVE  NumberAgrees([fn |-> fn, t |-> t, base |-> base], strtol(t, base))
<1> DEFINE c == [fn |-> fn, t |-> t, base |-> base]
           r == strtol(t, base)
           p == Prefix(t, base)
<1>1. r = [val |-> SignedValue(t, p), end |-> EndLeft(t, p)]
  BY StrtolIs
<1>2. c.fn = fn /\ c.t = t /\ c.base = base
  OBVIOUS
<1>3. r.val = SignedValue(t, p) /\ r.end = EndLeft(t, p)
  BY <1>1
<1> HIDE DEF c, r
<1>4. PrefixOf(c) = p /\ PrefixOf(c) \in Beginnings(c.t, BaseAsked(c))
  BY <1>2, PrefixBegins DEF PrefixOf, BaseAsked
<1> HIDE DEF p
<1>5. c.fn # "atoi" /\ IsSigned(c.fn) /\ c.fn # "atou"
  BY <1>2 DEF IsSigned
<1> QED
  BY <1>2, <1>3, <1>4, <1>5 DEF NumberAgrees, c, r

\* Those for unsigned numbers.
LEMMA UnsignedCall ==
    ASSUME NEW t \in Seq(Nat), NEW base \in {0} \cup 2 .. 36, NEW fn \in {"strtoul", "strtoull"}
    PROVE  NumberAgrees([fn |-> fn, t |-> t, base |-> base], strtoul(t, base))
<1> DEFINE c == [fn |-> fn, t |-> t, base |-> base]
           r == strtoul(t, base)
           p == Prefix(t, base)
<1>1. r = [val |-> UnsignedValue(t, p), end |-> EndLeft(t, p)]
  BY StrtoulIs
<1>2. c.fn = fn /\ c.t = t /\ c.base = base
  OBVIOUS
<1>3. r.val = UnsignedValue(t, p) /\ r.end = EndLeft(t, p)
  BY <1>1
<1> HIDE DEF c, r
<1>4. PrefixOf(c) = p /\ PrefixOf(c) \in Beginnings(c.t, BaseAsked(c))
  BY <1>2, PrefixBegins DEF PrefixOf, BaseAsked
<1> HIDE DEF p
<1>5. c.fn # "atoi" /\ ~ IsSigned(c.fn) /\ c.fn # "atou"
  BY <1>2 DEF IsSigned
<1> QED
  BY <1>2, <1>3, <1>4, <1>5 DEF NumberAgrees, c, r

\* atol() and atoll().
LEMMA AtolCall ==
    ASSUME NEW t \in Seq(Nat), NEW fn \in {"atol", "atoll"}
    PROVE  NumberAgrees([fn |-> fn, t |-> t], [val |-> strtol(t, 10).val])
<1> DEFINE c == [fn |-> fn, t |-> t]
           r == [val |-> strtol(t, 10).val]
           p == Prefix(t, 10)
<1>1. strtol(t, 10) = [val |-> SignedValue(t, p), end |-> EndLeft(t, p)]
  BY StrtolIs
<1>2. c.fn = fn /\ c.t = t
  OBVIOUS
<1>3. r.val = SignedValue(t, p) /\ "end" \notin DOMAIN r
  BY <1>1
<1> HIDE DEF c, r
<1>4. PrefixOf(c) = p /\ PrefixOf(c) \in Beginnings(c.t, BaseAsked(c))
  <2>1. BaseAsked(c) = 10
    BY <1>2 DEF BaseAsked
  <2>2. p \in Beginnings(t, 10)
    BY PrefixBegins
  <2> QED
    BY <1>2, <2>1, <2>2 DEF PrefixOf
<1> HIDE DEF p
<1>5. c.fn # "atoi" /\ IsSigned(c.fn) /\ c.fn # "atou"
  BY <1>2 DEF IsSigned
<1> QED
  BY <1>2, <1>3, <1>4, <1>5 DEF NumberAgrees, c, r

\* atoi().
LEMMA AtoiCall ==
    ASSUME NEW t \in Seq(Nat)
    PROVE  NumberAgrees([fn |-> "atoi", t |-> t], [val |-> atoi(t)])
<1> DEFINE c == [fn |-> "atoi", t |-> t]
           r == [val |-> atoi(t)]
           p == Prefix(t, 10)
<1>1. strtol(t, 10) = [val |-> SignedValue(t, p), end |-> EndLeft(t, p)]
  BY StrtolIs
<1>2. c.fn = "atoi" /\ c.t = t
  OBVIOUS
<1>3. r.val = Signed(SignedValue(t, p), UINT_MAX) /\ "end" \notin DOMAIN r
  BY <1>1 DEF atoi
<1> HIDE DEF c, r
<1>4. PrefixOf(c) = p /\ PrefixOf(c) \in Beginnings(c.t, BaseAsked(c))
  BY <1>2, PrefixBegins DEF PrefixOf, BaseAsked
<1> HIDE DEF p
<1> QED
  BY <1>2, <1>3, <1>4 DEF NumberAgrees, c, r

\* atou().
LEMMA AtouCall ==
    ASSUME NEW t \in Seq(Nat)
    PROVE  NumberAgrees([fn |-> "atou", t |-> t], [val |-> atou(t)])
<1> DEFINE c == [fn |-> "atou", t |-> t]
           r == [val |-> atou(t)]
           stop == LastDigitFrom(t, 1, 10)
<1>0. Len(t) \in Nat
  OBVIOUS
<1>1. 1 \in 1 .. Len(t) + 1 /\ 10 \in 2 .. 36
  BY <1>0
<1>2. Scanned(t, 1, 10, stop)
  BY <1>1, LastDigitIs
<1>3. r.val = ULong(ValueOf(t, 1, stop, 10))
  BY <1>2, AtouIs DEF atou
<1>4. c.fn = "atou" /\ c.t = t
  OBVIOUS
<1>5. c.fn \notin NumberCalls
  BY <1>4 DEF NumberCalls
<1> HIDE DEF c, r
<1> QED
  BY <1>3, <1>4, <1>5 DEF NumberAgrees, c, r

\* A call of a number function.
LEMMA NumbersStep ==
    ASSUME Numbers PROVE NumbersAgree'
<1>1. PICK t \in Numerals :
        \/ \E base \in Bases : Call([fn |-> "strtol", t |-> t, base |-> base], strtol(t, base))
        \/ \E base \in Bases : Call([fn |-> "strtoul", t |-> t, base |-> base], strtoul(t, base))
        \/ \E base \in Bases : Call([fn |-> "strtoll", t |-> t, base |-> base], strtoll(t, base))
        \/ \E base \in Bases : Call([fn |-> "strtoull", t |-> t, base |-> base], strtoull(t, base))
        \/ Call([fn |-> "atol", t |-> t], [val |-> atol(t)])
        \/ Call([fn |-> "atoll", t |-> t], [val |-> atoll(t)])
        \/ Call([fn |-> "atoi", t |-> t], [val |-> atoi(t)])
        \/ Call([fn |-> "atou", t |-> t], [val |-> atou(t)])
  BY DEF Numbers
<1>2. t \in Seq(Nat) /\ \A base \in Bases : base \in {0} \cup 2 .. 36
  BY CallersAssumption
<1>3. ASSUME NEW base \in Bases, Call([fn |-> "strtol", t |-> t, base |-> base], strtol(t, base))
      PROVE  NumberAgrees(call', result')
  <2>1. NumberAgrees([fn |-> "strtol", t |-> t, base |-> base], strtol(t, base))
    BY <1>2, SignedCall
  <2> QED
    BY <1>3, <2>1 DEF Call
<1>4. ASSUME NEW base \in Bases, Call([fn |-> "strtoul", t |-> t, base |-> base], strtoul(t, base))
      PROVE  NumberAgrees(call', result')
  <2>1. NumberAgrees([fn |-> "strtoul", t |-> t, base |-> base], strtoul(t, base))
    BY <1>2, UnsignedCall
  <2> QED
    BY <1>4, <2>1 DEF Call
<1>5. ASSUME NEW base \in Bases, Call([fn |-> "strtoll", t |-> t, base |-> base], strtoll(t, base))
      PROVE  NumberAgrees(call', result')
  <2>1. NumberAgrees([fn |-> "strtoll", t |-> t, base |-> base], strtol(t, base))
    BY <1>2, SignedCall
  <2> QED
    BY <1>5, <2>1 DEF Call, strtoll
<1>6. ASSUME NEW base \in Bases, Call([fn |-> "strtoull", t |-> t, base |-> base], strtoull(t, base))
      PROVE  NumberAgrees(call', result')
  <2>1. NumberAgrees([fn |-> "strtoull", t |-> t, base |-> base], strtoul(t, base))
    BY <1>2, UnsignedCall
  <2> QED
    BY <1>6, <2>1 DEF Call, strtoull
<1>7. ASSUME Call([fn |-> "atol", t |-> t], [val |-> atol(t)]) PROVE NumberAgrees(call', result')
  <2>1. NumberAgrees([fn |-> "atol", t |-> t], [val |-> strtol(t, 10).val])
    BY <1>2, AtolCall
  <2> QED
    BY <1>7, <2>1 DEF Call, atol
<1>8. ASSUME Call([fn |-> "atoll", t |-> t], [val |-> atoll(t)]) PROVE NumberAgrees(call', result')
  <2>1. NumberAgrees([fn |-> "atoll", t |-> t], [val |-> strtol(t, 10).val])
    BY <1>2, AtolCall
  <2> QED
    BY <1>8, <2>1 DEF Call, atoll, strtoll
<1>9. ASSUME Call([fn |-> "atoi", t |-> t], [val |-> atoi(t)]) PROVE NumberAgrees(call', result')
  <2>1. NumberAgrees([fn |-> "atoi", t |-> t], [val |-> atoi(t)])
    BY <1>2, AtoiCall
  <2> QED
    BY <1>9, <2>1 DEF Call
<1>10. ASSUME Call([fn |-> "atou", t |-> t], [val |-> atou(t)]) PROVE NumberAgrees(call', result')
  <2>1. NumberAgrees([fn |-> "atou", t |-> t], [val |-> atou(t)])
    BY <1>2, AtouCall
  <2> QED
    BY <1>10, <2>1 DEF Call
<1>11. NumberAgrees(call', result')
  BY <1>1, <1>3, <1>4, <1>5, <1>6, <1>7, <1>8, <1>9, <1>10
<1> QED
  BY <1>11, NumbersAgreeNext

\* The other calls parse no number.
LEMMA NoNumber ==
    ASSUME call'.fn \in {"none", "memcpy", "memmove", "memset", "memcmp", "strcpy", "strcat", "strncpy",
                         "strncat", "strcmp", "strncmp", "snprintf", "cut"}
    PROVE  NumbersAgree'
<1>1. call'.fn \notin NumberCalls /\ call'.fn # "atou"
  BY DEF NumberCalls
<1>2. NumberAgrees(call', result')
  BY <1>1 DEF NumberAgrees
<1> QED
  BY <1>2, NumbersAgreeNext

\* strtol, strtoul and the functions on top of them return the value of the whole
\* run of digits or the limit it passes, at every length and base, and leave
\* *endptr behind the last digit; atou wraps (libc/stdlib/strtol.c, strtoul.c,
\* strtoll.c, strtoull.c, atou.c).
THEOREM NumbersRight == Spec => []NumbersAgree
<1>1. Init => NumbersAgree
  <2> SUFFICES ASSUME Init PROVE NumbersAgree
    OBVIOUS
  <2>1. call.fn = "none"
    BY DEF Init, Idle
  <2>2. call.fn \notin NumberCalls /\ call.fn # "atou"
    BY <2>1 DEF NumberCalls
  <2>3. NumberAgrees(call, result)
    BY <2>2 DEF NumberAgrees
  <2> QED
    BY <2>3, NumbersAgreeIs
<1>2. NumbersAgree /\ [Next]_vars => NumbersAgree'
  <2> SUFFICES ASSUME NumbersAgree, [Next]_vars PROVE NumbersAgree'
    OBVIOUS
  <2>1. CASE Numbers
    BY <2>1, NumbersStep
  <2>2. CASE Memcpy
    <3>1. call'.fn = "memcpy"
      BY <2>2 DEF Memcpy, Call
    <3> QED
      BY <3>1, NoNumber
  <2>3. CASE Memmove
    <3>1. call'.fn = "memmove"
      BY <2>3 DEF Memmove, Call
    <3> QED
      BY <3>1, NoNumber
  <2>4. CASE Memset
    <3>1. call'.fn = "memset"
      BY <2>4 DEF Memset, Call
    <3> QED
      BY <3>1, NoNumber
  <2>5. CASE Memcmp
    <3>1. call'.fn = "memcmp"
      BY <2>5 DEF Memcmp, Call
    <3> QED
      BY <3>1, NoNumber
  <2>6. CASE Snprintf
    <3>1. call'.fn = "snprintf"
      BY <2>6 DEF Snprintf, Call
    <3> QED
      BY <3>1, NoNumber
  <2>7. CASE SnprintfCut
    <3>1. call'.fn = "cut"
      BY <2>7 DEF SnprintfCut, Call
    <3> QED
      BY <3>1, NoNumber
  <2>8. CASE Return
    <3>1. call'.fn = "none"
      BY <2>8 DEF Return, Idle
    <3> QED
      BY <3>1, NoNumber
  <2>9. CASE Strings
    <3>1. call'.fn \in {"strcpy", "strcat", "strncpy", "strncat", "strcmp", "strncmp"}
      BY <2>9 DEF Strings, Call, StringCall
    <3> QED
      BY <3>1, NoNumber
  <2>10. CASE UNCHANGED vars
    BY <2>10 DEF vars, NumbersAgree
  <2> QED
    BY <2>1, <2>2, <2>3, <2>4, <2>5, <2>6, <2>7, <2>8, <2>9, <2>10 DEF Next
<1> QED
  BY <1>1, <1>2, PTL DEF Spec

-----------------------------------------------------------------------------
(* The digits of print_integer *)

\* q holds what is left of value after k digits.
Quotients(q, value, base) ==
    q \in [Nat -> Nat] /\ q[0] = value /\ \A k \in Nat : q[k + 1] = q[k] \div base

\* A numeral has n digits when n is where nothing is left, or where the buffer is
\* full; the first digit is there even of zero.
DigitsEnd(q, n) ==
    /\ n \in 1 .. INTEGER_BUFFER_SIZE
    /\ \A k \in 1 .. n - 1 : q[k] # 0
    /\ q[n] = 0 \/ n = INTEGER_BUFFER_SIZE

\* The first j digits, last digit first.
FirstDigits(q, j, base, flags) == [i \in 1 .. j |-> DigitChar(q[i - 1] % base, flags)]

\* A sequence that is one longer than another and otherwise agrees with it.
LEMMA OneLonger ==
    ASSUME NEW d \in Seq(Nat), NEW e \in Seq(Nat), NEW c \in Nat, Len(e) = Len(d) + 1,
           \A i \in 1 .. Len(d) : d[i] = e[i], e[Len(d) + 1] = c
    PROVE  e = Append(d, c)
<1> DEFINE x == Append(d, c)
<1>1. /\ x \in Seq(Nat) /\ Len(x) = Len(e)
      /\ \A i \in 1 .. Len(d) + 1 : x[i] = IF i = Len(d) + 1 THEN c ELSE d[i]
  OBVIOUS
<1> HIDE DEF x
<1>2. ASSUME NEW i \in 1 .. Len(e) PROVE e[i] = x[i]
  <2>1. Len(d) \in Nat /\ i \in 1 .. Len(d) + 1
    BY <1>2
  <2>2. i # Len(d) + 1 => i \in 1 .. Len(d)
    BY <2>1
  <2>3. x[i] = IF i = Len(d) + 1 THEN c ELSE d[i]
    BY <1>1, <2>1
  <2> QED
    BY <2>2, <2>3
<1>3. e = x
  BY <1>1, <1>2, SeqEqual
<1> QED
  BY <1>3 DEF x

\* A digit is printed as a character that stands for it.
LEMMA DigitCharIs ==
    ASSUME NEW base \in 2 .. 36, NEW d \in 0 .. base - 1, NEW flags
    PROVE  /\ DigitChar(d, flags) \in Nat /\ IsDigitOf(DigitChar(d, flags), base)
           /\ DigitValue(DigitChar(d, flags)) = d
<1> DEFINE c == DigitChar(d, flags)
<1>1. CASE d < 10
  <2>1. c = 48 + d
    BY <1>1 DEF DigitChar, Zero
  <2>2. isdigit(c) /\ c \in Nat
    BY <1>1, <2>1 DEF isdigit
  <2>3. DigitValue(c) = c - 48
    BY <2>2 DEF DigitValue, isdigit, isupper, islower
  <2> QED
    BY <2>1, <2>2, <2>3 DEF IsDigitOf
<1>2. CASE d >= 10 /\ "UPPERCASE" \in flags
  <2>1. c = 55 + d
    BY <1>2 DEF DigitChar
  <2>2. isupper(c) /\ c \in Nat
    BY <1>2, <2>1 DEF isupper
  <2>3. DigitValue(c) = c - 65 + 10
    BY <2>2 DEF DigitValue, isdigit, isupper, islower
  <2> QED
    BY <2>1, <2>2, <2>3 DEF IsDigitOf, isalpha
<1>3. CASE d >= 10 /\ "UPPERCASE" \notin flags
  <2>1. c = 87 + d
    BY <1>3 DEF DigitChar
  <2>2. islower(c) /\ c \in Nat
    BY <1>3, <2>1 DEF islower
  <2>3. DigitValue(c) = c - 97 + 10
    BY <2>2 DEF DigitValue, isdigit, isupper, islower
  <2> QED
    BY <2>1, <2>2, <2>3 DEF IsDigitOf, isalpha
<1> QED
  BY <1>1, <1>2, <1>3

\* The quotients of a number.
LEMMA QuotientsExist ==
    ASSUME NEW value \in Nat, NEW base \in Nat, base >= 2
    PROVE  \E q : Quotients(q, value, base)
<1> DEFINE P(q, z) == q \in [Nat -> Nat] /\ q[0] = value /\ \A k \in Nat : k < z => q[k + 1] = q[k] \div base
<1>1. \A x \in Nat : x \div base \in Nat
  OBVIOUS
<1> DEFINE step == [kx \in Nat \X Nat |-> kx[2] \div base]
<1>2. step \in [Nat \X Nat -> Nat]
  <2>1. ASSUME NEW kx \in Nat \X Nat PROVE kx[2] \div base \in Nat
    <3>1. kx[2] \in Nat
      OBVIOUS
    <3> QED
      BY <1>1, <3>1
  <2> QED
    BY <2>1
<1>3. \A k, x \in Nat : step[<<k + 1, x>>] = x \div base
  <2> TAKE k, x \in Nat
  <2>1. <<k + 1, x>> \in Nat \X Nat /\ <<k + 1, x>>[2] = x
    OBVIOUS
  <2> QED
    BY <2>1
<1> HIDE DEF step
<1>4. ASSUME NEW z \in Nat PROVE \E q : P(q, z)
  <2>1. PICK f : Repeats(Nat, value, step, z, f)
    BY <1>2, Repeat
  <2>2. f \in [Nat -> Nat] /\ f[0] = value /\ \A k \in Nat : k < z => f[k + 1] = step[<<k + 1, f[k]>>]
    BY <2>1 DEF Repeats
  <2>3. \A k \in Nat : k < z => f[k + 1] = f[k] \div base
    BY <1>3, <2>2
  <2> QED
    BY <2>2, <2>3
<1> DEFINE g(z) == CHOOSE q : P(q, z)
           q == [z \in Nat |-> g(z)[z]]
<1>5. \A z \in Nat : P(g(z), z)
  <2> HIDE DEF P
  <2> QED
    BY <1>4
<1> HIDE DEF g
<1>6. ASSUME NEW z \in Nat PROVE \A k \in Nat : k <= z => g(z)[k] = g(z + 1)[k]
  <2> DEFINE G == {k \in Nat : k <= z => g(z)[k] = g(z + 1)[k]}
  <2>0. z + 1 \in Nat
    OBVIOUS
  <2>1. P(g(z), z) /\ P(g(z + 1), z + 1)
    <3> HIDE DEF P
    <3> QED
      BY <1>5, <2>0
  <2>2. 0 \in G
    BY <2>1
  <2>3. ASSUME NEW k \in Nat, k \in G PROVE k + 1 \in G
    <3>1. SUFFICES ASSUME k + 1 <= z PROVE g(z)[k + 1] = g(z + 1)[k + 1]
      OBVIOUS
    <3>2. k <= z /\ k < z /\ k < z + 1
      BY <3>1
    <3> QED
      BY <2>1, <2>3, <3>2
  <2>4. \A k \in Nat : k \in G
    <3> HIDE DEF G
    <3> QED
      BY <2>2, <2>3, Induct
  <2> QED
    BY <2>4
<1>7. q \in [Nat -> Nat]
  <2>1. \A z \in Nat : g(z)[z] \in Nat
    BY <1>5
  <2> QED
    BY <2>1
<1>8. q[0] = value
  BY <1>5
<1>9. ASSUME NEW k \in Nat PROVE q[k + 1] = q[k] \div base
  <2>1. q[k + 1] = g(k + 1)[k + 1] /\ q[k] = g(k)[k]
    OBVIOUS
  <2>2. g(k)[k] = g(k + 1)[k]
    BY <1>6
  <2>3. g(k + 1)[k + 1] = g(k + 1)[k] \div base
    BY <1>5
  <2> HIDE DEF q
  <2> QED
    BY <2>1, <2>2, <2>3
<1> HIDE DEF q
<1>10. Quotients(q, value, base)
  BY <1>7, <1>8, <1>9 DEF Quotients
<1> QED
  BY <1>10

\* The digits are characters.
LEMMA DigitsAreChars ==
    ASSUME NEW value, NEW base \in 2 .. 36, NEW flags, NEW q, Quotients(q, value, base), NEW j \in Nat
    PROVE  FirstDigits(q, j, base, flags) \in Seq(Nat) /\ DigitChar(q[j] % base, flags) \in Nat
<1>1. ASSUME NEW k \in Nat PROVE DigitChar(q[k] % base, flags) \in Nat
  <2>1. q[k] \in Nat
    BY <1>1 DEF Quotients
  <2>2. q[k] % base \in 0 .. base - 1
    BY <2>1
  <2> QED
    BY <2>2, DigitCharIs
<1>2. FirstDigits(q, j, base, flags) \in [1 .. j -> Nat]
  <2>1. \A i \in 1 .. j : i - 1 \in Nat
    OBVIOUS
  <2> QED
    BY <1>1, <2>1 DEF FirstDigits
<1> QED
  BY <1>1, <1>2

\* There is an end.
LEMMA DigitsEndExists ==
    ASSUME NEW q, NEW value, NEW base, Quotients(q, value, base)
    PROVE  \E n : DigitsEnd(q, n)
<1> DEFINE S == {n \in 1 .. INTEGER_BUFFER_SIZE : q[n] = 0 \/ n = INTEGER_BUFFER_SIZE}
<1>0. INTEGER_BUFFER_SIZE \in Nat /\ INTEGER_BUFFER_SIZE >= 1
  BY PrintingAssumption
<1>1. PICK n \in S : \A k \in S : n <= k
  <2>1. S \subseteq Nat /\ INTEGER_BUFFER_SIZE \in S
    BY <1>0
  <2> HIDE DEF S
  <2> QED
    BY <2>1, LeastNumber
<1>2. ASSUME NEW k \in 1 .. n - 1 PROVE q[k] # 0
  <2>1. k \in 1 .. INTEGER_BUFFER_SIZE /\ ~(n <= k)
    BY <1>0, <1>1, <1>2
  <2> QED
    BY <1>1, <2>1
<1> QED
  BY <1>1, <1>2 DEF DigitsEnd

\* The do-while takes one digit in each turn up to the last one.
LEMMA DigitsAre ==
    ASSUME NEW value, NEW base \in 2 .. 36, NEW flags, NEW q, Quotients(q, value, base), NEW n, DigitsEnd(q, n)
    PROVE  Digits(value, base, flags) = FirstDigits(q, n, base, flags)
<1> DEFINE N == INTEGER_BUFFER_SIZE
           at(k) == IF k <= n THEN k ELSE n
           m == [value |-> value, buffer |-> <<>>]
           D(j) == FirstDigits(q, j, base, flags)
           State(j) == [value |-> q[j], buffer |-> D(j)]
           Turn(r, k) ==
             IF k > 1 /\ (r.value = 0 \/ Len(r.buffer) >= N) THEN r
             ELSE [value |-> r.value \div base, buffer |-> Append(r.buffer, DigitChar(r.value % base, flags))]
           g == [k \in 0 .. N |-> State(at(k))]
           f == CHOOSE f : f = [k \in 0 .. N |-> IF k = 0 THEN m ELSE Turn(f[k - 1], k)]
<1>0. N \in Nat /\ n \in Nat /\ n >= 1 /\ n <= N /\ q[0] = value
  BY PrintingAssumption DEF DigitsEnd, Quotients
<1>a. \A j \in Nat : Len(D(j)) = j
  BY DEF FirstDigits
<1>b. \A j \in Nat : Append(D(j), DigitChar(q[j] % base, flags)) = D(j + 1)
  <2> TAKE j \in Nat
  <2> DEFINE c == DigitChar(q[j] % base, flags)
  <2>1. D(j) \in Seq(Nat) /\ c \in Nat
    BY DigitsAreChars
  <2>2. D(j + 1) \in Seq(Nat) /\ Len(D(j + 1)) = j + 1 /\ Len(D(j)) = j
    <3>1. j + 1 \in Nat
      OBVIOUS
    <3> QED
      BY <1>a, <3>1, DigitsAreChars
  <2>3. \A i \in 1 .. j + 1 : D(j + 1)[i] = DigitChar(q[i - 1] % base, flags)
    BY DEF FirstDigits
  <2>4. \A i \in 1 .. j : D(j)[i] = DigitChar(q[i - 1] % base, flags)
    BY DEF FirstDigits
  <2> DEFINE d == D(j)
             e == D(j + 1)
  <2>5. /\ d \in Seq(Nat) /\ Len(d) = j /\ e \in Seq(Nat) /\ Len(e) = j + 1 /\ c \in Nat
        /\ (\A i \in 1 .. j : d[i] = e[i]) /\ e[j + 1] = c
    <3>1. (\A i \in 1 .. j : i \in 1 .. j + 1) /\ j + 1 \in 1 .. j + 1 /\ (j + 1) - 1 = j
      OBVIOUS
    <3> HIDE DEF D
    <3> QED
      BY <2>1, <2>2, <2>3, <2>4, <3>1
  <2> HIDE DEF d, e, c
  <2>6. e = Append(d, c)
    BY <2>5, OneLonger
  <2> QED
    BY <2>6 DEF d, e, c
<1> HIDE DEF N, D
<1>1. ASSUME NEW k \in 1 .. N PROVE Turn(g[k - 1], k) = g[k]
  <2>1. k - 1 \in 0 .. N /\ k \in 0 .. N /\ k \in Nat /\ k >= 1 /\ k - 1 \in Nat
    BY <1>0, <1>1
  <2>2. g[k - 1] = State(at(k - 1)) /\ g[k] = State(at(k))
    <3> HIDE DEF at, State
    <3> QED
      BY <2>1
  <2> HIDE DEF g
  <2>3. CASE k <= n
    <3>1. at(k - 1) = k - 1 /\ at(k) = k /\ (k - 1) + 1 = k
      BY <1>0, <2>1, <2>3
    <3> HIDE DEF at
    <3>2. ~(k > 1 /\ (q[k - 1] = 0 \/ Len(D(k - 1)) >= N))
      <4>1. k > 1 => k - 1 \in 1 .. n - 1
        BY <1>0, <2>1, <2>3
      <4>2. k > 1 => q[k - 1] # 0
        BY <4>1 DEF DigitsEnd
      <4>3. Len(D(k - 1)) = k - 1
        BY <1>a, <2>1
      <4> QED
        BY <1>0, <2>1, <2>3, <4>2, <4>3
    <3>3. Turn(State(k - 1), k) = [value |-> q[k - 1] \div base,
                                   buffer |-> Append(D(k - 1), DigitChar(q[k - 1] % base, flags))]
      BY <3>2
    <3>4. q[k] = q[k - 1] \div base /\ D(k) = Append(D(k - 1), DigitChar(q[k - 1] % base, flags))
      BY <1>b, <2>1, <3>1 DEF Quotients
    <3> HIDE DEF Turn
    <3> QED
      BY <2>2, <3>1, <3>3, <3>4
  <2>4. CASE ~(k <= n)
    <3>1. at(k - 1) = n /\ at(k) = n /\ k > 1
      BY <1>0, <2>1, <2>4
    <3> HIDE DEF at
    <3>2. q[n] = 0 \/ Len(D(n)) >= N
      BY <1>a, <1>0 DEF DigitsEnd, N
    <3>3. Turn(State(n), k) = State(n)
      BY <3>1, <3>2
    <3> HIDE DEF Turn, State
    <3> QED
      BY <2>2, <3>1, <3>3
  <2> QED
    BY <2>3, <2>4
<1>2. g[0] = m
  <2>1. 0 \in 0 .. N /\ at(0) = 0
    BY <1>0
  <2>2. g[0] = State(0)
    <3> HIDE DEF State, at
    <3> QED
      BY <2>1
  <2>3. D(0) = <<>>
    BY DEF D, FirstDigits
  <2> HIDE DEF g
  <2> QED
    BY <1>0, <2>2, <2>3
<1> HIDE DEF at, State
<1>3. g = [k \in 0 .. N |-> IF k = 0 THEN m ELSE Turn(g[k - 1], k)]
  <2>1. ASSUME NEW k \in 0 .. N PROVE g[k] = IF k = 0 THEN m ELSE Turn(g[k - 1], k)
    <3>1. k # 0 => k \in 1 .. N
      BY <1>0
    <3> HIDE DEF g, Turn, m
    <3> QED
      BY <1>1, <1>2, <3>1
  <2> DEFINE h == [k \in 0 .. N |-> IF k = 0 THEN m ELSE Turn(g[k - 1], k)]
  <2>2. \A k \in 0 .. N : h[k] = g[k]
    <3> HIDE DEF g, Turn, m
    <3> QED
      BY <2>1
  <2>3. g = [k \in 0 .. N |-> g[k]] /\ h = [k \in 0 .. N |-> h[k]]
    <3> HIDE DEF Turn, m
    <3> QED
      OBVIOUS
  <2> HIDE DEF h, g
  <2>4. g = h
    BY <2>2, <2>3
  <2> QED
    BY <2>4 DEF h
<1>4. f = [k \in 0 .. N |-> IF k = 0 THEN m ELSE Turn(f[k - 1], k)]
  <2> HIDE DEF g, Turn, m
  <2> QED
    BY <1>3
<1>5. f[0] = g[0] /\ \A k \in 1 .. N : f[k - 1] = g[k - 1] => f[k] = g[k]
  <2> HIDE DEF f, g, Turn, m
  <2>0. 0 \in 0 .. N /\ \A k \in 1 .. N : k \in 0 .. N /\ k # 0
    BY <1>0
  <2>1. f[0] = m
    BY <1>4, <2>0
  <2>2. \A k \in 1 .. N : f[k] = Turn(f[k - 1], k)
    BY <1>4, <2>0
  <2> QED
    BY <1>1, <1>2, <2>1, <2>2
<1>6. f[N] = g[N]
  <2> HIDE DEF f, g
  <2>1. N \in Nat /\ N \in 0 .. N
    BY <1>0
  <2>2. \A k \in 0 .. N : f[k] = g[k]
    BY <1>5, <2>1, LoopIs
  <2> QED
    BY <2>1, <2>2
<1>7. Digits(value, base, flags) = f[N].buffer
  BY DEF Digits, Loop, N
<1>8. N \in 0 .. N /\ at(N) = n
  BY <1>0 DEF at
<1>9. g[N].buffer = D(n)
  BY <1>8 DEF State
<1> QED
  BY <1>6, <1>7, <1>9 DEF D

-----------------------------------------------------------------------------
(* Reading a printed number *)

\* t is a numeral of n digits with o characters, none or a minus, before them.
Spelled(t, o, q, n, base, flags) ==
    /\ t \in Seq(Nat) /\ n \in Nat /\ n >= 1 /\ o \in {0, 1} /\ Len(t) = o + n
    /\ o = 1 => t[1] = Minus_
    /\ \A i \in 1 .. n : t[o + i] = DigitChar(q[n - i] % base, flags)

\* Its digits.
LEMMA SpelledDigit ==
    ASSUME NEW t, NEW o, NEW q, NEW value, NEW n, NEW base \in 2 .. 36, NEW flags, Quotients(q, value, base),
           Spelled(t, o, q, n, base, flags), NEW i \in 1 .. n
    PROVE  IsDigitOf(t[o + i], base) /\ DigitValue(t[o + i]) = q[n - i] % base /\ t[o + i] \in Nat
<1>1. n \in Nat /\ n - i \in Nat
  BY DEF Spelled
<1>2. q[n - i] \in Nat
  BY <1>1 DEF Quotients
<1>3. q[n - i] % base \in 0 .. base - 1
  BY <1>2
<1>4. t[o + i] = DigitChar(q[n - i] % base, flags)
  BY DEF Spelled
<1> QED
  BY <1>3, <1>4, DigitCharIs

\* The scan starts at its sign or its first digit.
LEMMA SpelledFirst ==
    ASSUME NEW t, NEW o, NEW q, NEW value, NEW n, NEW base \in 2 .. 36, NEW flags, Quotients(q, value, base),
           Spelled(t, o, q, n, base, flags)
    PROVE  SkipSpaces(t) = 1
<1>0. t \in Seq(Nat) /\ n \in Nat /\ n >= 1 /\ o \in {0, 1} /\ Len(t) = o + n
  BY DEF Spelled
<1> DEFINE P(i) == ~ isspace(At(t, i)) /\ \A j \in 1 .. i - 1 : ~ ~ isspace(At(t, j))
<1>1. ~ isspace(At(t, 1))
  <2>1. At(t, 1) = t[1]
    <3>1. 1 \in 1 .. Len(t)
      BY <1>0
    <3> QED
      BY <1>0, <3>1, AtIs
  <2>2. CASE o = 1
    BY <2>1, <2>2 DEF Spelled, Minus_, isspace
  <2>3. CASE o = 0
    <3>1. 1 \in 1 .. n /\ o + 1 = 1
      BY <1>0, <2>3
    <3>2. IsDigitOf(t[1], base)
      BY <3>1, SpelledDigit
    <3> QED
      BY <2>1, <3>2 DEF IsDigitOf, isdigit, isalpha, isupper, islower, isspace
  <2> QED
    BY <1>0, <2>2, <2>3
<1>2. 1 \in 1 .. Len(t) + 1 /\ P(1)
  BY <1>0, <1>1
<1>3. SkipSpaces(t) = CHOOSE i \in 1 .. Len(t) + 1 : P(i)
  BY DEF SkipSpaces, First
<1> DEFINE z == CHOOSE i \in 1 .. Len(t) + 1 : P(i)
<1>4. z \in 1 .. Len(t) + 1 /\ P(z)
  <2> HIDE DEF P
  <2> QED
    BY <1>2
<1> HIDE DEF z
<1>5. z = 1
  <2>1. z # 1 => 1 \in 1 .. z - 1
    BY <1>0, <1>4
  <2> QED
    BY <1>1, <1>4, <2>1
<1> QED
  BY <1>3, <1>5 DEF z

\* The prefix is the sign, and no digit is taken for one.
LEMMA SpelledPrefix ==
    ASSUME NEW t, NEW o, NEW q, NEW value, NEW n, NEW base \in 2 .. 36, NEW flags, Quotients(q, value, base),
           Spelled(t, o, q, n, base, flags)
    PROVE  Prefix(t, base) = [neg |-> o = 1, first |-> o + 1, base |-> base]
<1>0. t \in Seq(Nat) /\ n \in Nat /\ n >= 1 /\ o \in {0, 1} /\ Len(t) = o + n
  BY DEF Spelled
<1>1. \A i \in 1 .. n : At(t, o + i) = t[o + i] /\ IsDigitOf(t[o + i], base) /\ t[o + i] \in Nat
  <2> TAKE i \in 1 .. n
  <2>1. o + i \in 1 .. Len(t) /\ o + i \in Nat
    BY <1>0
  <2> QED
    BY <1>0, <2>1, AtIs, SpelledDigit
<1>2. At(t, 1) = Minus_ <=> o = 1
  <2>1. CASE o = 1
    <3>1. 1 \in 1 .. Len(t)
      BY <1>0
    <3>2. At(t, 1) = t[1]
      BY <1>0, <3>1, AtIs
    <3> QED
      BY <2>1, <3>2 DEF Spelled
  <2>2. CASE o = 0
    <3>1. 1 \in 1 .. n /\ o + 1 = 1
      BY <1>0, <2>2
    <3>2. At(t, 1) = t[1] /\ IsDigitOf(t[1], base)
      BY <1>1, <3>1
    <3> QED
      BY <2>2, <3>2 DEF IsDigitOf, isdigit, isalpha, isupper, islower, Minus_
  <2> QED
    BY <1>0, <2>1, <2>2
<1>3. SkipSign(t, 1) = o + 1
  <2>1. CASE o = 1
    BY <1>2, <2>1 DEF SkipSign
  <2>2. CASE o = 0
    <3>1. 1 \in 1 .. n /\ o + 1 = 1
      BY <1>0, <2>2
    <3>2. At(t, 1) = t[1] /\ IsDigitOf(t[1], base)
      BY <1>1, <3>1
    <3>3. At(t, 1) # Minus_ /\ At(t, 1) # Plus_
      BY <3>2 DEF IsDigitOf, isdigit, isalpha, isupper, islower, Minus_, Plus_
    <3> QED
      BY <2>2, <3>1, <3>3 DEF SkipSign
  <2> QED
    BY <1>0, <2>1, <2>2
<1>4. ~ HexPrefix(t, o + 1, base)
  <2>1. CASE n = 1
    <3>1. (o + 1) + 1 \in Nat /\ (o + 1) + 1 \notin 1 .. Len(t)
      BY <1>0, <2>1
    <3>2. At(t, (o + 1) + 1) = 0
      BY <1>0, <3>1, AtIs
    <3> QED
      BY <3>2 DEF HexPrefix, Letter_x, Letter_X
  <2>2. CASE n # 1
    <3>1. 2 \in 1 .. n /\ o + 2 = (o + 1) + 1
      BY <1>0, <2>2
    <3> DEFINE c == At(t, (o + 1) + 1)
    <3>2. IsDigitOf(c, base) /\ c \in Nat
      BY <1>1, <3>1
    <3> HIDE DEF c
    <3>3. base = 16 => c # Letter_x /\ c # Letter_X
      <4>1. DigitValue(120) = 33 /\ DigitValue(88) = 33
        BY DEF DigitValue, isdigit, isupper, islower
      <4> QED
        BY <3>2, <4>1 DEF IsDigitOf, Letter_x, Letter_X
    <3> QED
      BY <3>3 DEF HexPrefix, c
  <2> QED
    BY <2>1, <2>2
<1>5. DigitsFrom(t, o + 1, base) = [first |-> o + 1, base |-> base]
  BY <1>4 DEF DigitsFrom
<1>6. SkipSpaces(t) = 1
  BY SpelledFirst
<1> QED
  BY <1>2, <1>3, <1>5, <1>6 DEF Prefix

\* A quotient and a remainder.
LEMMA DividedBack ==
    ASSUME NEW x \in Nat, NEW base \in 2 .. 36
    PROVE  (x \div base) * base + (x % base) = x
<1>1. x \div base \in Int /\ x % base \in Int /\ base \in Int
  OBVIOUS
<1>2. x = base * (x \div base) + (x % base)
  OBVIOUS
<1> DEFINE d == x \div base
           r == x % base
<1> HIDE DEF d, r
<1>3. x = base * d + r /\ d \in Int /\ r \in Int /\ base \in Int
  BY <1>1, <1>2 DEF d, r
<1>4. d * base + r = x
  BY <1>3
<1> QED
  BY <1>4 DEF d, r

\* The n digits are all of value's.
AllDigits(q, value, n, base) == Quotients(q, value, base) /\ q[n] = 0

\* The digits of a text end with it and have a value.
EndsWith(t, o, n, base, value) ==
    /\ LastDigitFrom(t, o + 1, base) = o + n + 1
    /\ ValueOf(t, o + 1, o + n + 1, base) = value

\* Reading it gives the number it was made from.
LEMMA SpelledValue ==
    ASSUME NEW t, NEW o, NEW q, NEW value, NEW n, NEW base \in 2 .. 36, NEW flags,
           AllDigits(q, value, n, base), Spelled(t, o, q, n, base, flags)
    PROVE  EndsWith(t, o, n, base, value)
<1>q. Quotients(q, value, base) /\ q[n] = 0
  BY DEF AllDigits
<1> DEFINE first == o + 1
           stop == LastDigitFrom(t, first, base)
<1>0. t \in Seq(Nat) /\ n \in Nat /\ n >= 1 /\ o \in {0, 1} /\ Len(t) = o + n
  BY DEF Spelled
<1>a. \A p \in 1 .. n : DigitValue(t[o + p]) = q[n - p] % base
  <2> TAKE p \in 1 .. n
  <2>1. q[n - p] \in Nat /\ t[o + p] = DigitChar(q[n - p] % base, flags)
    BY <1>0, <1>q DEF Spelled, Quotients
  <2>2. q[n - p] % base \in 0 .. base - 1
    BY <2>1
  <2> QED
    BY <2>1, <2>2, DigitCharIs
<1>1. Scanned(t, first, base, stop)
  <2>1. first \in 1 .. Len(t) + 1
    BY <1>0
  <2> QED
    BY <1>0, <2>1, LastDigitIs
<1> HIDE DEF stop
<1>2. stop = o + n + 1
  <2>1. stop \in first .. Len(t) + 1 /\ ~ IsDigitOf(At(t, stop), base)
    BY <1>1 DEF Scanned
  <2>2. SUFFICES ASSUME stop # o + n + 1 PROVE FALSE
    OBVIOUS
  <2>3. stop - o \in 1 .. n /\ o + (stop - o) = stop /\ stop \in 1 .. Len(t) /\ stop \in Nat
    BY <1>0, <2>1, <2>2
  <2>4. IsDigitOf(t[stop], base)
    <3> DEFINE i == stop - o
    <3>1. i \in 1 .. n /\ o + i = stop
      BY <2>3
    <3> HIDE DEF i
    <3>2. IsDigitOf(t[o + i], base)
      BY <1>q, <3>1, SpelledDigit
    <3> QED
      BY <3>1, <3>2
  <2>5. At(t, stop) = t[stop]
    BY <1>0, <2>3, AtIs
  <2> QED
    BY <2>1, <2>4, <2>5
<1>3. PICK v : Values(t, first, base, stop, v) /\ ValueOf(t, first, stop, base) = v[stop - 1]
  BY <1>1, ValueOfIs
<1>4. \A k \in Nat : k <= n => v[o + k] = q[n - k]
  <2> DEFINE G == {k \in Nat : k <= n => v[o + k] = q[n - k]}
  <2>1. 0 \in G
    <3>1. first - 1 = o + 0 /\ n - 0 = n
      BY <1>0
    <3> QED
      BY <1>q, <1>3, <3>1 DEF Values
  <2>2. ASSUME NEW k \in Nat, k \in G PROVE k + 1 \in G
    <3>1. SUFFICES ASSUME k + 1 <= n PROVE v[o + (k + 1)] = q[n - (k + 1)]
      OBVIOUS
    <3> DEFINE i == o + (k + 1)
               j == n - (k + 1)
    <3>2. i \in first .. stop - 1 /\ i - 1 = o + k /\ j \in Nat /\ n - k = j + 1 /\ k + 1 \in 1 .. n /\ k <= n
      BY <1>0, <1>2, <3>1
    <3>3. v[i] = v[i - 1] * base + DigitValue(t[i])
      BY <1>3, <3>2 DEF Values
    <3>4. DigitValue(t[i]) = q[j] % base
      <4> DEFINE p == k + 1
      <4>1. p \in 1 .. n /\ i = o + p /\ j = n - p
        BY <3>2
      <4> HIDE DEF p, i, j, G, first
      <4>2. DigitValue(t[o + p]) = q[n - p] % base
        BY <1>a, <4>1
      <4> QED
        BY <4>1, <4>2
    <3>5. v[i - 1] = q[n - k]
      BY <2>2, <3>2
    <3>6. q[n - k] = q[j] \div base /\ q[j] \in Nat
      BY <1>q, <3>2 DEF Quotients
    <3> HIDE DEF i, j
    <3>7. (q[j] \div base) * base + (q[j] % base) = q[j]
      BY <3>6, DividedBack
    <3>8. v[i] = q[j]
      BY <3>3, <3>4, <3>5, <3>6, <3>7
    <3> QED
      BY <3>8 DEF i, j
  <2>3. \A k \in Nat : k \in G
    <3> HIDE DEF G
    <3> QED
      BY <2>1, <2>2, Induct
  <2> QED
    BY <2>3
<1>5. v[stop - 1] = value
  <2>1. stop - 1 = o + n /\ n <= n /\ n - n = 0
    BY <1>0, <1>2
  <2>2. v[o + n] = q[0]
    BY <1>0, <1>4, <2>1
  <2> QED
    BY <1>q, <2>1, <2>2 DEF Quotients
<1> QED
  BY <1>2, <1>3, <1>5 DEF stop, EndsWith

-----------------------------------------------------------------------------
(* Numbers without layout *)

\* Nothing is put behind a number without a sign.
LEMMA PutNone ==
    ASSUME NEW b
    PROVE  FoldLeft(Put, b, <<>>) = b
<1> DEFINE S == SUBSET {}
           f == CHOOSE f : f = [s \in S |-> IF s = {} THEN b ELSE Put(f[s \ {Max(s)}], <<>>[Max(s)])]
           g == [s \in S |-> b]
<1>1. FoldLeft(Put, b, <<>>) = f[{}]
  <2>1. DOMAIN <<>> = {}
    OBVIOUS
  <2> QED
    BY <2>1 DEF FoldLeft, MapThenFoldSet
<1>2. S = {{}}
  OBVIOUS
<1>3. g = [s \in S |-> IF s = {} THEN b ELSE Put(g[s \ {Max(s)}], <<>>[Max(s)])]
  <2> HIDE DEF S
  <2> QED
    BY <1>2
<1>4. f = [s \in S |-> IF s = {} THEN b ELSE Put(f[s \ {Max(s)}], <<>>[Max(s)])]
  <2> HIDE DEF S, g
  <2> QED
    BY <1>3
<1> HIDE DEF S, f
<1> QED
  BY <1>1, <1>2, <1>4

\* A sign is.
LEMMA PutOne ==
    ASSUME NEW b, NEW c
    PROVE  FoldLeft(Put, b, <<c>>) = Put(b, c)
<1> DEFINE S == SUBSET {1}
           f == CHOOSE f : f = [s \in S |-> IF s = {} THEN b ELSE Put(f[s \ {Max(s)}], <<c>>[Max(s)])]
           g == [s \in S |-> IF s = {} THEN b ELSE Put(b, c)]
<1>1. FoldLeft(Put, b, <<c>>) = f[{1}]
  <2>1. DOMAIN <<c>> = {1}
    OBVIOUS
  <2> QED
    BY <2>1 DEF FoldLeft, MapThenFoldSet
<1>2. S = {{}, {1}}
  OBVIOUS
<1>3. Max({1}) = 1
  BY DEF Max
<1>4. {1} \ {1} = {} /\ <<c>>[1] = c /\ {1} # {}
  OBVIOUS
<1>5. g = [s \in S |-> IF s = {} THEN b ELSE Put(g[s \ {Max(s)}], <<c>>[Max(s)])]
  <2> DEFINE h == [s \in S |-> IF s = {} THEN b ELSE Put(g[s \ {Max(s)}], <<c>>[Max(s)])]
  <2> HIDE DEF S
  <2>1. ASSUME NEW s \in S PROVE g[s] = h[s]
    <3>1. CASE s = {}
      BY <2>1, <3>1
    <3>2. CASE s = {1}
      <4>1. g[s] = Put(b, c)
        BY <2>1, <3>2, <1>4
      <4>2. h[s] = Put(g[{}], c)
        BY <2>1, <3>2, <1>3, <1>4
      <4>3. g[{}] = b
        BY <1>2
      <4> QED
        BY <4>1, <4>2, <4>3
    <3> QED
      BY <1>2, <3>1, <3>2
  <2> QED
    BY <2>1
<1>6. f = [s \in S |-> IF s = {} THEN b ELSE Put(f[s \ {Max(s)}], <<c>>[Max(s)])]
  <2> HIDE DEF S, g
  <2> QED
    BY <1>5
<1> HIDE DEF S, f, g
<1>7. f[{1}] = Put(f[{}], c)
  <2>1. {1} \in S
    BY <1>2
  <2>2. f[{1}] = Put(f[{1} \ {Max({1})}], <<c>>[Max({1})])
    BY <1>4, <1>6, <2>1
  <2> QED
    BY <1>3, <1>4, <2>2
<1>8. f[{}] = b
  BY <1>2, <1>6
<1> QED
  BY <1>1, <1>7, <1>8

\* The flags that ask for a prefix, a sign or padding.
Layout == {"HASH", "POINTER", "LEFT", "ZEROPAD", "PLUS", "SPACE", "PRECISION"}

\* A text of no characters behind another.
LEMMA NothingBehind ==
    ASSUME NEW d \in Seq(Nat), NEW e, e = <<>>
    PROVE  d \o e = d /\ e \o d = d
OBVIOUS

\* Padding to no width.
LEMMA NoPadding ==
    ASSUME NEW d \in Seq(Nat), NEW c \in Nat, NEW k \in Int, k <= 0
    PROVE  [i \in 1 .. k |-> c] = <<>>
<1>1. 1 .. k = {}
  OBVIOUS
<1> QED
  BY <1>1

\* ZeroFill() adds nothing where neither a width nor a precision is asked for.
LEMMA NotFilled ==
    ASSUME NEW d \in Seq(Nat)
    PROVE  ZeroFill(d, 0) = d
<1>1. (IF 0 < INTEGER_BUFFER_SIZE THEN 0 ELSE INTEGER_BUFFER_SIZE) = 0
  BY PrintingAssumption
<1>2. 0 - Len(d) \in Int /\ 0 - Len(d) <= 0
  OBVIOUS
<1>3. Zeros(0 - Len(d)) = <<>>
  BY <1>2, NoPadding DEF Zeros, Zero
<1> QED
  BY <1>1, <1>3, NothingBehind DEF ZeroFill

\* output_reverse() without a width puts the characters, last first.
LEMMA OutputReversed ==
    ASSUME NEW d \in Seq(Nat), NEW flags, flags \cap Layout = {}
    PROVE  output_reverse(<<>>, d, 0, flags) = Reverse(d)
<1>1. "LEFT" \notin flags /\ flags \cap {"LEFT", "ZEROPAD"} = {}
  BY DEF Layout
<1>2. 0 - Len(d) \in Int /\ 0 - Len(d) <= 0
  OBVIOUS
<1>3. Spaces(0 - Len(d)) = <<>>
  BY <1>2, NoPadding DEF Spaces, Space
<1>4. Reverse(d) \in Seq(Nat)
  BY DEF Reverse
<1>5. <<>> \o <<>> \o Reverse(d) = Reverse(d)
  BY <1>4
<1> QED
  BY <1>1, <1>3, <1>5 DEF output_reverse

\* The characters finalize_integer() hands on, where there is room for a sign.
WithSign(d, negative) == IF negative THEN Append(d, Minus_) ELSE d

\* A number without layout is its digits and a minus.
LEMMA FinalizedPlain ==
    ASSUME NEW d \in Seq(Nat), NEW negative \in BOOLEAN, NEW base, NEW flags, flags \cap Layout = {},
           Len(d) < INTEGER_BUFFER_SIZE
    PROVE  finalize_integer(<<>>, d, negative, base, 0, 0, flags) = Reverse(WithSign(d, negative))
<1>1. /\ "LEFT" \notin flags /\ "ZEROPAD" \notin flags /\ "PLUS" \notin flags /\ "SPACE" \notin flags
      /\ flags \cap {"HASH", "POINTER"} = {} /\ flags \cap {"PLUS", "SPACE"} = {}
  BY DEF Layout
<1>2. ZeroFill(d, 0) = d
  BY NotFilled
<1>3. (IF base = 8 /\ Len(d) > Len(d) THEN flags \ {"HASH"} ELSE flags) = flags
  <2>1. ~ (Len(d) > Len(d))
    OBVIOUS
  <2> QED
    BY <2>1
<1>4. finalize_integer(<<>>, d, negative, base, 0, 0, flags)
        = output_reverse(<<>>, FoldLeft(Put, d, SignOf(negative, flags)), 0, flags)
  BY <1>1, <1>2, <1>3, Zenon DEF finalize_integer
<1>5. FoldLeft(Put, d, SignOf(negative, flags)) = WithSign(d, negative)
  <2>1. CASE negative
    <3>1. SignOf(negative, flags) = <<Minus_>>
      BY <1>1, <2>1 DEF SignOf
    <3>2. FoldLeft(Put, d, <<Minus_>>) = Put(d, Minus_)
      BY PutOne
    <3>3. Put(d, Minus_) = Append(d, Minus_)
      BY DEF Put
    <3> QED
      BY <2>1, <3>1, <3>2, <3>3 DEF WithSign
  <2>2. CASE ~ negative
    <3>1. SignOf(negative, flags) = <<>>
      BY <1>1, <2>2 DEF SignOf
    <3>2. FoldLeft(Put, d, <<>>) = d
      BY PutNone
    <3> QED
      BY <2>2, <3>1, <3>2 DEF WithSign
  <2> QED
    BY <2>1, <2>2
<1>6. WithSign(d, negative) \in Seq(Nat)
  BY DEF WithSign, Minus_
<1> QED
  BY <1>4, <1>5, <1>6, OutputReversed

-----------------------------------------------------------------------------
(* What is printed reads back *)

\* The characters of a number without layout spell it.
LEMMA ReversedSpelled ==
    ASSUME NEW value, NEW base \in 2 .. 36, NEW flags, NEW q, Quotients(q, value, base), NEW n \in Nat, n >= 1,
           NEW negative \in BOOLEAN
    PROVE  Spelled(Reverse(WithSign(FirstDigits(q, n, base, flags), negative)),
                   IF negative THEN 1 ELSE 0, q, n, base, flags)
<1> DEFINE d == FirstDigits(q, n, base, flags)
           e == WithSign(d, negative)
           o == IF negative THEN 1 ELSE 0
           t == Reverse(e)
<1>1. d \in Seq(Nat)
  BY DigitsAreChars
<1>2. Len(d) = n /\ \A i \in 1 .. n : d[i] = DigitChar(q[i - 1] % base, flags)
  BY <1>1 DEF FirstDigits
<1> HIDE DEF d
<1>3. /\ e \in Seq(Nat) /\ Len(e) = n + o /\ o \in {0, 1}
      /\ \A i \in 1 .. n : e[i] = d[i]
      /\ o = 1 => e[n + 1] = Minus_
  <2>1. CASE negative
    BY <1>1, <1>2, <2>1 DEF WithSign, Minus_
  <2>2. CASE ~ negative
    BY <1>1, <1>2, <2>2 DEF WithSign
  <2> QED
    BY <2>1, <2>2
<1> HIDE DEF e, o
<1>4. t = [i \in 1 .. Len(e) |-> e[(Len(e) - i) + 1]]
  BY DEF Reverse
<1>5. t \in Seq(Nat) /\ Len(t) = o + n
  <2>1. \A i \in 1 .. Len(e) : (Len(e) - i) + 1 \in 1 .. Len(e)
    BY <1>3
  <2>2. \A i \in 1 .. Len(e) : e[(Len(e) - i) + 1] \in Nat
    BY <1>3, <2>1
  <2>3. Len(e) \in Nat /\ Len(e) = o + n
    BY <1>3
  <2> HIDE DEF t
  <2>4. t \in [1 .. Len(e) -> Nat]
    BY <1>4, <2>2
  <2> QED
    BY <2>3, <2>4
<1>6. o = 1 => t[1] = Minus_
  <2> SUFFICES ASSUME o = 1 PROVE t[1] = Minus_
    OBVIOUS
  <2>1. 1 \in 1 .. Len(e) /\ (Len(e) - 1) + 1 = n + 1
    BY <1>3
  <2> HIDE DEF t
  <2> QED
    BY <1>3, <1>4, <2>1
<1>7. ASSUME NEW i \in 1 .. n PROVE t[o + i] = DigitChar(q[n - i] % base, flags)
  <2> DEFINE j == (n - i) + 1
  <2>1. o + i \in 1 .. Len(e) /\ (Len(e) - (o + i)) + 1 = j /\ j \in 1 .. n /\ j - 1 = n - i
    BY <1>3
  <2> HIDE DEF t, j
  <2>2. t[o + i] = e[j]
    BY <1>4, <2>1
  <2> QED
    BY <1>2, <1>3, <2>1, <2>2
<1> HIDE DEF t
<1>8. Spelled(t, o, q, n, base, flags)
  BY <1>3, <1>5, <1>6, <1>7 DEF Spelled
<1> QED
  BY <1>8 DEF t, o, e, d

\* print_integer() without layout puts the digits, the first one of zero included.
LEMMA PrintedPlain ==
    ASSUME NEW value \in Nat, NEW base \in 2 .. 36, NEW flags, flags \cap Layout = {}, NEW negative \in BOOLEAN,
           NEW q, Quotients(q, value, base), NEW n, DigitsEnd(q, n), n < INTEGER_BUFFER_SIZE
    PROVE  print_integer(<<>>, value, negative, base, 0, 0, flags)
             = Reverse(WithSign(FirstDigits(q, n, base, flags), negative))
<1> DEFINE d == FirstDigits(q, n, base, flags)
<1>0. n \in Nat /\ n >= 1
  BY PrintingAssumption DEF DigitsEnd
<1>1. d \in Seq(Nat) /\ Len(d) = n
  <2>1. d \in Seq(Nat)
    BY <1>0, DigitsAreChars
  <2>2. DOMAIN d = 1 .. n
    BY DEF FirstDigits
  <2> HIDE DEF d
  <2> QED
    BY <1>0, <2>1, <2>2
<1>2. finalize_integer(<<>>, d, negative, base, 0, 0, flags) = Reverse(WithSign(d, negative))
  <2> HIDE DEF d
  <2> QED
    BY <1>1, FinalizedPlain
<1>3. "PRECISION" \notin flags /\ flags \ {"HASH"} = flags
  BY DEF Layout
<1>4. CASE value # 0
  <2>1. Digits(value, base, flags) = d
    BY DigitsAre
  <2>2. print_integer(<<>>, value, negative, base, 0, 0, flags)
          = finalize_integer(<<>>, Digits(value, base, flags), negative, base, 0, 0, flags)
    BY <1>4 DEF print_integer
  <2> QED
    BY <1>2, <2>1, <2>2
<1>5. CASE value = 0
  <2>1. n = 1
    <3>1. q[0] = 0 /\ q[0 + 1] = q[0] \div base
      BY <1>5 DEF Quotients
    <3>2. q[1] = 0
      BY <3>1
    <3>3. n # 1 => 1 \in 1 .. n - 1
      BY <1>0
    <3> QED
      BY <3>2, <3>3 DEF DigitsEnd
  <2>2. d = <<Zero>>
    <3>1. q[0] = 0 /\ 0 % base = 0
      BY <1>5 DEF Quotients
    <3>2. DigitChar(0, flags) = Zero
      BY DEF DigitChar, Zero
    <3>3. d[1] = Zero
      BY <2>1, <3>1, <3>2 DEF FirstDigits
    <3> HIDE DEF d
    <3> QED
      BY <1>1, <2>1, <3>3
  <2>3. print_integer(<<>>, value, negative, base, 0, 0, flags)
          = finalize_integer(<<>>, <<Zero>>, negative, base, 0, 0, flags)
    BY <1>3, <1>5 DEF print_integer
  <2> QED
    BY <1>2, <2>2, <2>3
<1> QED
  BY <1>4, <1>5

\* Every number has its digits.
LEMMA SomeDigits ==
    ASSUME NEW value \in Nat, NEW base \in 2 .. 36, NEW flags
    PROVE  \E q, n : /\ Quotients(q, value, base) /\ DigitsEnd(q, n)
                     /\ Digits(value, base, flags) = FirstDigits(q, n, base, flags)
<1>1. PICK q : Quotients(q, value, base)
  BY QuotientsExist
<1>2. PICK n : DigitsEnd(q, n)
  BY <1>1, DigitsEndExists
<1>3. Digits(value, base, flags) = FirstDigits(q, n, base, flags)
  BY <1>1, <1>2, DigitsAre
<1> QED
  BY <1>1, <1>2, <1>3

\* The numeral of a number, with its sign.
SpelledIn(t, o, value, base) == \E q, n, flags : AllDigits(q, value, n, base) /\ Spelled(t, o, q, n, base, flags)

\* A number that leaves room in the buffer has no digit left over.
LEMMA PrintedSpelled ==
    ASSUME NEW value \in Nat, NEW base \in 2 .. 36, NEW flags, flags \cap Layout = {}, NEW negative \in BOOLEAN,
           Len(Digits(value, base, flags)) < INTEGER_BUFFER_SIZE
    PROVE  SpelledIn(print_integer(<<>>, value, negative, base, 0, 0, flags), IF negative THEN 1 ELSE 0, value, base)
<1>1. PICK q, n : /\ Quotients(q, value, base) /\ DigitsEnd(q, n)
                  /\ Digits(value, base, flags) = FirstDigits(q, n, base, flags)
  BY SomeDigits
<1>3. n \in Nat /\ n >= 1
  BY <1>1, PrintingAssumption DEF DigitsEnd
<1>5. Len(FirstDigits(q, n, base, flags)) = n
  BY <1>1, <1>3, DigitsAreChars DEF FirstDigits
<1>6. n < INTEGER_BUFFER_SIZE
  BY <1>1, <1>5
<1>7. AllDigits(q, value, n, base)
  BY <1>1, <1>3, <1>6 DEF DigitsEnd, AllDigits
<1>8. Spelled(print_integer(<<>>, value, negative, base, 0, 0, flags),
              IF negative THEN 1 ELSE 0, q, n, base, flags)
  <2>1. print_integer(<<>>, value, negative, base, 0, 0, flags)
          = Reverse(WithSign(FirstDigits(q, n, base, flags), negative))
    BY <1>1, <1>6, PrintedPlain
  <2>2. Spelled(Reverse(WithSign(FirstDigits(q, n, base, flags), negative)),
                IF negative THEN 1 ELSE 0, q, n, base, flags)
    BY <1>1, <1>3, ReversedSpelled
  <2> QED
    BY <2>1, <2>2
<1> QED
  BY <1>7, <1>8 DEF SpelledIn

\* What the readers take of a text: its sign, the value of its digits and where
\* they end.
Taken(t, o, base, value) ==
    LET p == Prefix(t, base)
    IN  /\ t \in Seq(Nat)
        /\ p.neg = IF o = 1 THEN TRUE ELSE FALSE
        /\ ValueIn(t, p) = value
        /\ EndLeft(t, p) = Len(t) + 1

\* Of the numeral of a number it is the number, to the end of the text.
LEMMA SpelledRead ==
    ASSUME NEW t, NEW o, NEW value, NEW base \in 2 .. 36, SpelledIn(t, o, value, base)
    PROVE  Taken(t, o, base, value)
<1>0. PICK q, n, flags : AllDigits(q, value, n, base) /\ Spelled(t, o, q, n, base, flags)
  BY DEF SpelledIn
<1>1. Prefix(t, base) = [neg |-> o = 1, first |-> o + 1, base |-> base]
  <2>1. Quotients(q, value, base)
    BY <1>0 DEF AllDigits
  <2> QED
    BY <1>0, <2>1, SpelledPrefix
<1>2. EndsWith(t, o, n, base, value)
  BY <1>0, SpelledValue
<1>3. t \in Seq(Nat) /\ n \in Nat /\ n >= 1 /\ o \in {0, 1} /\ Len(t) = o + n
  BY <1>0 DEF Spelled
<1> DEFINE p == Prefix(t, base)
<1>4. p.neg = (o = 1) /\ p.first = o + 1 /\ p.base = base
  BY <1>1
<1> HIDE DEF p
<1>5. EndOf(t, p) = o + n + 1
  BY <1>2, <1>4 DEF EndOf, EndsWith
<1>6. ValueIn(t, p) = value
  BY <1>2, <1>4, <1>5 DEF ValueIn, EndsWith
<1>7. o + n + 1 # o + 1 /\ o + n + 1 = Len(t) + 1
  BY <1>3
<1>8. EndLeft(t, p) = Len(t) + 1
  BY <1>4, <1>5, <1>7 DEF EndLeft
<1>9. p.neg = IF o = 1 THEN TRUE ELSE FALSE
  BY <1>4
<1> QED
  BY <1>3, <1>6, <1>8, <1>9 DEF p, Taken

\* strtoul() reads back, to the end of the text, every number print_integer() has
\* printed in its base without a prefix, a sign or padding, unless its digits
\* filled the buffer, where the code drops the rest (libc/stdio/print.c,
\* libc/stdlib/strtoul.c).
THEOREM UnsignedReadsBack ==
    ASSUME NEW v \in 0 .. ULONG_MAX, NEW base \in 2 .. 36, NEW flags, flags \cap Layout = {},
           Len(Digits(v, base, flags)) < INTEGER_BUFFER_SIZE
    PROVE  LET text == print_integer(<<>>, v, FALSE, base, 0, 0, flags)
           IN  strtoul(text, base) = [val |-> v, end |-> Len(text) + 1]
<1> DEFINE t == print_integer(<<>>, v, FALSE, base, 0, 0, flags)
           p == Prefix(t, base)
<1>0. v \in Nat /\ v <= ULONG_MAX /\ ULONG_MAX \in Nat
  BY NumberParsingAssumption
<1>1. SpelledIn(t, 0, v, base)
  BY <1>0, PrintedSpelled
<1> HIDE DEF t
<1>2. Taken(t, 0, base, v)
  BY <1>1, SpelledRead
<1>3. t \in Seq(Nat) /\ p.neg = FALSE /\ ValueIn(t, p) = v /\ EndLeft(t, p) = Len(t) + 1
  BY <1>2 DEF Taken
<1>4. strtoul(t, base) = [val |-> UnsignedValue(t, p), end |-> EndLeft(t, p)]
  BY <1>3, StrtoulIs
<1> HIDE DEF p
<1>5. UnsignedValue(t, p) = v
  BY <1>0, <1>3 DEF UnsignedValue, ULong
<1>6. strtoul(t, base) = [val |-> v, end |-> Len(t) + 1]
  BY <1>3, <1>4, <1>5
<1> QED
  BY <1>6 DEF t

\* strtol() likewise reads back the signed numbers that are printed as a minus and
\* their STDIO_ABS, LONG_MIN included, whose absolute value no long has
\* (libc/stdio/print.c, libc/stdlib/strtol.c).
THEOREM SignedReadsBack ==
    ASSUME NEW v \in LONG_MIN .. LONG_MAX, NEW base \in 2 .. 36, NEW flags, flags \cap Layout = {},
           Len(Digits(STDIO_ABS(v), base, flags)) < INTEGER_BUFFER_SIZE
    PROVE  LET text == print_integer(<<>>, STDIO_ABS(v), v < 0, base, 0, 0, flags)
           IN  strtol(text, base) = [val |-> v, end |-> Len(text) + 1]
<1> DEFINE a == STDIO_ABS(v)
           t == print_integer(<<>>, a, v < 0, base, 0, 0, flags)
           p == Prefix(t, base)
           o == IF v < 0 THEN 1 ELSE 0
<1>0. v \in Int /\ LONG_MIN \in Int /\ LONG_MAX \in Int /\ LONG_MIN <= v /\ v <= LONG_MAX
  BY NumberParsingAssumption DEF LONG_MIN, LONG_MAX
<1>1. a \in Nat /\ a = IF v < 0 THEN -v ELSE v
  <2>1. (IF v > 0 THEN v ELSE -v) \in 0 .. ULONG_MAX
    BY <1>0, NumberParsingAssumption DEF LONG_MIN, LONG_MAX
  <2>2. a = IF v > 0 THEN v ELSE -v
    BY <2>1, NumberParsingAssumption DEF STDIO_ABS, ULong
  <2> HIDE DEF a
  <2> QED
    BY <1>0, <2>1, <2>2
<1>2. SpelledIn(t, o, a, base)
  <2>1. (v < 0) \in BOOLEAN /\ Len(Digits(a, base, flags)) < INTEGER_BUFFER_SIZE
    OBVIOUS
  <2> HIDE DEF a
  <2> QED
    BY <1>1, <2>1, PrintedSpelled
<1> HIDE DEF t, a
<1>3. Taken(t, o, base, a)
  <2> HIDE DEF o
  <2> QED
    BY <1>2, SpelledRead
<1>4. t \in Seq(Nat) /\ ValueIn(t, p) = a /\ EndLeft(t, p) = Len(t) + 1
  BY <1>3 DEF Taken
<1>5. p.neg = IF o = 1 THEN TRUE ELSE FALSE
  BY <1>3 DEF Taken
<1>6. strtol(t, base) = [val |-> SignedValue(t, p), end |-> EndLeft(t, p)]
  BY <1>4, StrtolIs
<1> HIDE DEF p
<1>7. SignedValue(t, p) = v
  <2>1. (IF p.neg THEN -ValueIn(t, p) ELSE ValueIn(t, p)) = v
    <3>1. CASE v < 0
      <4>1. p.neg = TRUE /\ ValueIn(t, p) = -v
        BY <1>1, <1>4, <1>5, <3>1
      <4> QED
        BY <1>0, <4>1
    <3>2. CASE ~ (v < 0)
      <4>1. o = 0 /\ a = v
        BY <1>1, <3>2
      <4> HIDE DEF o
      <4>2. p.neg = FALSE
        BY <1>5, <4>1
      <4> QED
        BY <1>4, <4>1, <4>2
    <3> QED
      BY <3>1, <3>2
  <2> QED
    BY <1>0, <2>1 DEF SignedValue, Clamp
<1>8. strtol(t, base) = [val |-> v, end |-> Len(t) + 1]
  BY <1>4, <1>6, <1>7
<1> QED
  BY <1>8 DEF t, a

-----------------------------------------------------------------------------
(* Comparing bytes and words *)

\* By how much two operands differ at place i.
Delta(B, s1, s2, i) == B[Plus(s1, i)] - B[Plus(s2, i)]

Same(B, s1, s2, n) == \A i \in 0 .. n - 1 : Delta(B, s1, s2, i) = 0

\* res is what a comparison of n bytes should return: the first difference there
\* is, or zero.
Compared(B, s1, s2, n, res) ==
    \/ res = 0 /\ Same(B, s1, s2, n)
    \/ \E i \in 0 .. n - 1 : res = Delta(B, s1, s2, i) /\ res # 0 /\ Same(B, s1, s2, i)

\* The byte loop finds the first difference.
LEMMA CompareBytesIs ==
    ASSUME NEW m, NEW s1, NEW s2, NEW n \in Nat
    PROVE  Compared(m.b, s1, s2, n, CompareBytes(m, s1, s2, n))
<1> DEFINE D(i) == m.b[Plus(s1, i)] - m.b[Plus(s2, i)]
           Stop(i) == i = n \/ D(i) # 0
           P(i) == Stop(i) /\ \A j \in 0 .. i - 1 : ~ Stop(j)
           z == CHOOSE i \in 0 .. n : P(i)
           S == {i \in 0 .. n : Stop(i)}
<1>1. PICK x \in S : \A y \in S : x <= y
  <2>1. S \subseteq Nat /\ n \in S
    OBVIOUS
  <2> HIDE DEF S
  <2> QED
    BY <2>1, LeastNumber
<1>2. x \in 0 .. n /\ P(x)
  <2> HIDE DEF D
  <2>1. ASSUME NEW j \in 0 .. x - 1 PROVE ~ Stop(j)
    <3>1. j \in 0 .. n /\ ~(x <= j)
      BY <1>1, <2>1
    <3> QED
      BY <1>1, <3>1
  <2> QED
    BY <1>1, <2>1
<1>3. z \in 0 .. n /\ P(z)
  <2> HIDE DEF P
  <2> QED
    BY <1>2
<1>4. CompareBytes(m, s1, s2, n) = IF z = n THEN 0 ELSE D(z)
  BY DEF CompareBytes, First
<1> HIDE DEF z
<1>5. \A i : D(i) = Delta(m.b, s1, s2, i)
  BY DEF Delta
<1> HIDE DEF D
<1>6. Same(m.b, s1, s2, z)
  BY <1>3, <1>5 DEF Same
<1>7. CASE z = n
  BY <1>4, <1>6, <1>7 DEF Compared
<1>8. CASE z # n
  <2>1. z \in 0 .. n - 1 /\ D(z) # 0
    BY <1>3, <1>8
  <2> QED
    BY <1>4, <1>5, <1>6, <1>8, <2>1 DEF Compared
<1> QED
  BY <1>7, <1>8

\* Places of operands that start x bytes further.
LEMMA DeltaAlong ==
    ASSUME NEW B, NEW s1 \in Addr, NEW s2 \in Addr, NEW x \in Nat, NEW i \in Nat, x + i <= SIZE
    PROVE  Delta(B, Plus(s1, x), Plus(s2, x), i) = Delta(B, s1, s2, x + i)
<1>1. Plus(Plus(s1, x), i) = Plus(s1, x + i) /\ Plus(Plus(s2, x), i) = Plus(s2, x + i)
  BY Along
<1> QED
  BY <1>1 DEF Delta

\* Operands that agree in their first x bytes and in the n bytes behind them.
LEMMA SameAlong ==
    ASSUME NEW B, NEW s1 \in Addr, NEW s2 \in Addr, NEW x \in Nat, NEW n \in Nat, x + n <= SIZE,
           Same(B, s1, s2, x), Same(B, Plus(s1, x), Plus(s2, x), n)
    PROVE  Same(B, s1, s2, x + n)
<1>0. SIZE \in Nat
  BY MemoryFunctionsAssumption
<1>1. ASSUME NEW i \in 0 .. (x + n) - 1 PROVE Delta(B, s1, s2, i) = 0
  <2>1. CASE i < x
    <3>1. i \in 0 .. x - 1
      BY <1>1, <2>1
    <3> QED
      BY <3>1 DEF Same
  <2>2. CASE ~(i < x)
    <3>1. PICK j \in Nat : i = x + j
      <4>1. i - x \in Nat /\ i = x + (i - x)
        BY <1>1, <2>2
      <4> QED
        BY <4>1
    <3>2. j \in 0 .. n - 1 /\ x + j <= SIZE
      BY <1>0, <1>1, <3>1
    <3>3. Delta(B, Plus(s1, x), Plus(s2, x), j) = Delta(B, s1, s2, x + j)
      BY <3>2, DeltaAlong
    <3>4. Delta(B, Plus(s1, x), Plus(s2, x), j) = 0
      BY <3>2 DEF Same
    <3> QED
      BY <3>1, <3>3, <3>4
  <2> QED
    BY <2>1, <2>2
<1> QED
  BY <1>1 DEF Same

\* A difference that is found decides, however much follows.
LEMMA ComparedLonger ==
    ASSUME NEW B, NEW s1, NEW s2, NEW n \in Nat, NEW k \in Nat, n <= k, NEW res, res # 0,
           Compared(B, s1, s2, n, res)
    PROVE  Compared(B, s1, s2, k, res)
<1>1. PICK i \in 0 .. n - 1 : res = Delta(B, s1, s2, i) /\ Same(B, s1, s2, i)
  BY DEF Compared
<1>2. i \in 0 .. k - 1
  BY <1>1
<1> QED
  BY <1>1, <1>2 DEF Compared

\* A comparison that finds none is carried on behind it.
LEMMA ComparedAlong ==
    ASSUME NEW B, NEW s1 \in Addr, NEW s2 \in Addr, NEW x \in Nat, NEW n \in Nat, x + n <= SIZE, NEW res,
           Same(B, s1, s2, x), Compared(B, Plus(s1, x), Plus(s2, x), n, res)
    PROVE  Compared(B, s1, s2, x + n, res)
<1>0. SIZE \in Nat
  BY MemoryFunctionsAssumption
<1>1. CASE res = 0
  <2>1. Same(B, Plus(s1, x), Plus(s2, x), n)
    BY <1>1 DEF Compared
  <2>2. Same(B, s1, s2, x + n)
    BY <2>1, SameAlong
  <2> QED
    BY <1>1, <2>2 DEF Compared
<1>2. CASE res # 0
  <2>1. PICK i \in 0 .. n - 1 : res = Delta(B, Plus(s1, x), Plus(s2, x), i) /\ Same(B, Plus(s1, x), Plus(s2, x), i)
    BY <1>2 DEF Compared
  <2>2. i \in Nat /\ x + i <= SIZE /\ x + i \in 0 .. (x + n) - 1
    BY <1>0, <2>1
  <2>3. Same(B, s1, s2, x + i)
    BY <2>1, <2>2, SameAlong
  <2>4. res = Delta(B, s1, s2, x + i)
    BY <2>1, <2>2, DeltaAlong
  <2> QED
    BY <1>2, <2>2, <2>3, <2>4 DEF Compared
<1> QED
  BY <1>1, <1>2

\* A word holds the bytes from p on.
IsWord(w, B, p) == w = [i \in 0 .. OPSIZ - 1 |-> B[Plus(p, i)]]

\* Two words that differ, compared as bytes.
LEMMA WordsDiffer ==
    ASSUME NEW B \in [Addr -> Int], NEW p1 \in Addr, NEW p2 \in Addr, NEW u, NEW w,
           IsWord(u, B, p1), IsWord(w, B, p2), u # w
    PROVE  Compared(B, p1, p2, OPSIZ, memcmp_bytes(u, w)) /\ memcmp_bytes(u, w) # 0
<1> DEFINE W == 0 .. OPSIZ - 1
           P(i) == u[i] # w[i] /\ \A j \in 0 .. i - 1 : u[j] = w[j]
           S == {i \in W : u[i] # w[i]}
           z == CHOOSE i \in W : P(i)
<1>0. OPSIZ \in Nat /\ OPSIZ >= 1 /\ SIZE \in Nat /\ OPSIZ <= SIZE
  BY MemoryFunctionsAssumption
<1>1. \A i \in W : u[i] = B[Plus(p1, i)] /\ w[i] = B[Plus(p2, i)]
  BY DEF IsWord
<1>2. \A i \in W : u[i] \in Int /\ w[i] \in Int /\ Delta(B, p1, p2, i) = u[i] - w[i]
  <2> TAKE i \in W
  <2>1. i \in Nat /\ i \in 0 .. SIZE
    BY <1>0
  <2>2. Plus(p1, i) \in Addr /\ Plus(p2, i) \in Addr
    BY <2>1, Ring
  <2> QED
    BY <1>1, <2>2 DEF Delta
<1>3. \E i \in W : u[i] # w[i]
  <2>1. u = [i \in W |-> u[i]] /\ w = [i \in W |-> w[i]]
    BY <1>1 DEF IsWord
  <2> HIDE DEF W
  <2> QED
    BY <2>1
<1>4. PICK x \in S : \A y \in S : x <= y
  <2>1. S \subseteq Nat /\ S # {}
    BY <1>0, <1>3
  <2> HIDE DEF S
  <2> QED
    BY <2>1, LeastNumber
<1>5. x \in W /\ P(x)
  <2>1. ASSUME NEW j \in 0 .. x - 1 PROVE u[j] = w[j]
    <3>1. j \in W /\ ~(x <= j)
      BY <1>0, <1>4, <2>1
    <3> QED
      BY <1>4, <3>1
  <2> QED
    BY <1>4, <2>1
<1>6. z \in W /\ P(z)
  <2> HIDE DEF P, W
  <2> QED
    BY <1>5
<1>7. memcmp_bytes(u, w) = u[z] - w[z]
  BY DEF memcmp_bytes
<1> HIDE DEF z
<1>8. memcmp_bytes(u, w) = Delta(B, p1, p2, z) /\ memcmp_bytes(u, w) # 0
  BY <1>2, <1>6, <1>7
<1>9. Same(B, p1, p2, z)
  <2>1. \A j \in 0 .. z - 1 : j \in W /\ u[j] = w[j]
    BY <1>0, <1>6
  <2>2. \A j \in 0 .. z - 1 : Delta(B, p1, p2, j) = 0
    <3> HIDE DEF W
    <3> QED
      BY <1>2, <2>1
  <2> QED
    BY <2>2 DEF Same
<1> QED
  BY <1>6, <1>8, <1>9 DEF Compared

\* Two that do not.
LEMMA WordsSame ==
    ASSUME NEW B \in [Addr -> Int], NEW p1 \in Addr, NEW p2 \in Addr, NEW u,
           IsWord(u, B, p1), IsWord(u, B, p2)
    PROVE  Same(B, p1, p2, OPSIZ)
<1>0. OPSIZ \in Nat /\ OPSIZ >= 1 /\ SIZE \in Nat /\ OPSIZ <= SIZE
  BY MemoryFunctionsAssumption
<1>1. ASSUME NEW i \in 0 .. OPSIZ - 1 PROVE Delta(B, p1, p2, i) = 0
  <2>1. u[i] = B[Plus(p1, i)] /\ u[i] = B[Plus(p2, i)]
    BY <1>1 DEF IsWord
  <2>2. i \in 0 .. SIZE
    BY <1>0, <1>1
  <2>3. Plus(p1, i) \in Addr
    BY <2>2, Ring
  <2>4. B[Plus(p1, i)] \in Int
    BY <2>3
  <2> QED
    BY <2>1, <2>4 DEF Delta
<1> QED
  BY <1>1 DEF Same

\* CMP_WORDS finds the first byte that differs in a word.
LEMMA WordsCompared ==
    ASSUME NEW B \in [Addr -> Int], NEW p1 \in Addr, NEW p2 \in Addr, NEW u, NEW w,
           IsWord(u, B, p1), IsWord(w, B, p2)
    PROVE  Compared(B, p1, p2, OPSIZ, CMP_WORDS(u, w))
<1>1. CASE u = w
  <2>1. Same(B, p1, p2, OPSIZ)
    BY <1>1, WordsSame
  <2> QED
    BY <1>1, <2>1 DEF CMP_WORDS, Compared
<1>2. CASE u # w
  BY <1>2, WordsDiffer DEF CMP_WORDS
<1> QED
  BY <1>1, <1>2

-----------------------------------------------------------------------------
(* The unrolled loop of memcmp *)

\* Addresses go round, also backwards.
LEMMA Around ==
    ASSUME NEW a \in Int, NEW c \in Int
    PROVE  ((a % SIZE) + c) % SIZE = (a + c) % SIZE
<1> DEFINE q == a \div SIZE
           y == a % SIZE
           r == (y + c) \div SIZE
           z == (y + c) % SIZE
<1>0. SIZE \in Nat /\ SIZE >= 1
  BY MemoryFunctionsAssumption
<1>1. a = q * SIZE + y /\ q \in Int /\ y \in Int
  BY <1>0
<1> HIDE DEF q, y
<1>2. y + c \in Int /\ y + c = r * SIZE + z /\ r \in Int /\ z \in Int /\ 0 <= z /\ z < SIZE
  BY <1>0, <1>1
<1> HIDE DEF r, z
<1>3. a + c = (q + r) * SIZE + z /\ q + r \in Int
  BY <1>0, <1>1, <1>2
<1>4. ((q + r) * SIZE + z) % SIZE = z
  BY <1>0, <1>2, <1>3, Remainder
<1> QED
  BY <1>3, <1>4 DEF y, z

\* The place the loop is entered at, and where its turns stand.
Turns(k, j) == k + j - 1
AtTurn(s, k, j) == Plus(s, (4 * (Turns(k, j) \div 4) + (Turns(k, j) % 4)) * OPSIZ)

\* The pointers are moved back by the place the loop is entered at, so that its
\* turns read the words one after the other.
LEMMA AtTurnIs ==
    ASSUME NEW s \in Addr, NEW k \in 0 .. 3, NEW c \in 1 .. 2, NEW j \in Nat, j >= 1
    PROVE  AtTurn(Plus(s, (c - k) * OPSIZ), k, j) = Plus(s, (j + c - 1) * OPSIZ)
<1>0. SIZE \in Nat /\ SIZE >= 1 /\ OPSIZ \in Nat /\ s \in Int /\ k \in Int /\ c \in Int /\ j \in Int
  BY MemoryFunctionsAssumption DEF Addr
<1> DEFINE i == Turns(k, j)
<1>1. i \in Nat /\ i = k + j - 1
  BY <1>0 DEF Turns
<1>2. 4 * (i \div 4) + (i % 4) = i
  <2> HIDE DEF i
  <2> QED
    BY <1>1
<1>3. (c - k) * OPSIZ \in Int /\ i * OPSIZ \in Int /\ (c - k) * OPSIZ + i * OPSIZ = (j + c - 1) * OPSIZ
  <2>1. (c - k) + i = j + c - 1 /\ c - k \in Int /\ i \in Int
    BY <1>0, <1>1
  <2> HIDE DEF i
  <2> QED
    BY <1>0, <2>1
<1> DEFINE x == (c - k) * OPSIZ
           y == i * OPSIZ
<1>4. AtTurn(Plus(s, x), k, j) = (((s + x) % SIZE) + y) % SIZE
  BY <1>2 DEF AtTurn, Plus
<1> HIDE DEF x, y, i
<1>5. s + x \in Int /\ y \in Int /\ (s + x) + y = s + (j + c - 1) * OPSIZ
  BY <1>0, <1>3 DEF x, y
<1>6. (((s + x) % SIZE) + y) % SIZE = ((s + x) + y) % SIZE
  BY <1>5, Around
<1> QED
  BY <1>4, <1>5, <1>6 DEF Plus, x

\* The loop is left behind its last place in turn n - 1 and no earlier.
LEMMA LastTurn ==
    ASSUME NEW n \in Nat, n >= 2, n < SIZE, NEW j \in 1 .. n - 1
    PROVE  /\ LoopPlace(n) \in 0 .. 3
           /\ n + LoopPlace(n) - 1 \in Nat /\ n - 1 <= n + LoopPlace(n) - 1
           /\ (/\ Turns(LoopPlace(n), j) % 4 = 3
               /\ Minus(n + LoopPlace(n) - 1, 4 * (Turns(LoopPlace(n), j) \div 4 + 1)) = 0) <=> j = n - 1
<1> DEFINE k == LoopPlace(n)
           N == n + k - 1
           i == Turns(k, j)
<1>0. SIZE \in Nat /\ SIZE >= 1 /\ n \in Int /\ j \in Int
  BY MemoryFunctionsAssumption
<1>1. k \in 0 .. 3 /\ N % 4 = 0
  BY DEF LoopPlace
<1> HIDE DEF k
<1>2. i = k + j - 1 /\ i \in Nat /\ N \in Nat /\ n - 1 <= N /\ N >= 4 /\ k \in Int
  <2>1. i = k + j - 1
    BY DEF Turns
  <2>2. N \in Nat /\ N >= 1 /\ i \in Nat /\ n - 1 <= N
    BY <1>0, <1>1, <2>1
  <2> HIDE DEF N, i
  <2>3. N >= 4
    BY <1>1, <2>2
  <2> QED
    BY <1>1, <2>1, <2>2, <2>3 DEF N
<1> DEFINE q == i \div 4
<1>3. q \in Nat /\ i % 4 \in 0 .. 3 /\ i = 4 * q + (i % 4)
  <2> HIDE DEF i
  <2> QED
    BY <1>2
<1>4. PICK M \in Nat : N = 4 * M
  <2> HIDE DEF N
  <2>1. N = 4 * (N \div 4) /\ N \div 4 \in Nat
    BY <1>1, <1>2
  <2> QED
    BY <2>1
<1>5. i <= N - 1
  BY <1>0, <1>2
<1>6. N - 4 < SIZE
  BY <1>0, <1>1
<1>7. j = n - 1 <=> i = N - 1
  BY <1>0, <1>2
<1> HIDE DEF i, N, q
<1>8. N - 4 * (q + 1) \in 0 .. SIZE - 1
  BY <1>0, <1>2, <1>3, <1>4, <1>5, <1>6
<1> DEFINE y == N - 4 * (q + 1)
<1>9. y % SIZE = y
  <2>0. y \in 0 .. SIZE - 1
    BY <1>8
  <2> HIDE DEF y
  <2> QED
    BY <1>0, <2>0
<1>10. Minus(N, 4 * (q + 1)) = y
  BY <1>9 DEF Minus
<1>11. i = N - 1 <=> i % 4 = 3 /\ y = 0
  <2>1. i = N - 1 => q + 1 = M /\ i % 4 = 3
    BY <1>2, <1>3, <1>4
  <2>2. i % 4 = 3 /\ y = 0 => i = N - 1
    BY <1>2, <1>3, <1>4
  <2> QED
    BY <1>2, <1>4, <2>1, <2>2
<1> HIDE DEF y
<1>12. j = n - 1 <=> i % 4 = 3 /\ Minus(N, 4 * (q + 1)) = 0
  BY <1>7, <1>10, <1>11
<1> QED
  BY <1>1, <1>2, <1>12 DEF k, N, i, q

\* The words the loop compares in turn j.
WordA(m, s1, k, p, q, j) == IF j = 0 THEN p ELSE IF j = 1 THEN q ELSE Word(m, AtTurn(s1, k, j - 1))
WordB(m, s2, k, b, j) == IF j = 1 THEN b ELSE Word(m, AtTurn(s2, k, j - 1))

Compares(U, V, m, s1, s2, n, k, p, q, b, off) ==
    \A j \in 1 .. n : /\ U[j] = LastWord(WordA(m, s1, k, p, q, j - 1), WordA(m, s1, k, p, q, j), off)
                      /\ V[j] = WordB(m, s2, k, b, j)

\* A loop that has compared the words up to l, and what it returns.
LoopEnds(r, U, V, m, s1, s2, n, k, l) ==
    /\ l \in 1 .. n - 1 /\ \A j \in 1 .. l - 1 : U[j] = V[j]
    /\ U[l] # V[l] \/ l = n - 1
    /\ r.res = IF U[l] # V[l] THEN memcmp_bytes(U[l], V[l]) ELSE CMP_WORDS(U[l + 1], V[l + 1])
    /\ r.words = m.words \cup {AtTurn(s1, k, j) : j \in 1 .. l} \cup {AtTurn(s2, k, j) : j \in 1 .. l}

\* It compares until two words differ or there are no more.
LEMMA CompareLoopIs ==
    ASSUME NEW m, NEW s1, NEW s2, NEW n \in Nat, n >= 2, n < SIZE, NEW p, NEW q, NEW b, NEW off, NEW U, NEW V,
           Compares(U, V, m, s1, s2, n, LoopPlace(n), p, q, b, off)
    PROVE  \E l : LoopEnds(CompareLoop(m, s1, s2, n + LoopPlace(n) - 1, LoopPlace(n), p, q, b, off),
                           U, V, m, s1, s2, n, LoopPlace(n), l)
<1> DEFINE k == LoopPlace(n)
           N == n + k - 1
           X(j) == LastWord(WordA(m, s1, k, p, q, j - 1), WordA(m, s1, k, p, q, j), off)
           Y(j) == WordB(m, s2, k, b, j)
           Stop(j) == X(j) # Y(j) \/ (Turns(k, j) % 4 = 3 /\ Minus(N, 4 * (Turns(k, j) \div 4 + 1)) = 0)
           P(i) == Stop(i) /\ \A j \in 1 .. i - 1 : ~ Stop(j)
           z == CHOOSE i \in 1 .. N : P(i)
           r == CompareLoop(m, s1, s2, N, k, p, q, b, off)
<1>0. SIZE \in Nat
  BY MemoryFunctionsAssumption
<1>1. r = [res   |-> IF X(z) # Y(z) THEN memcmp_bytes(X(z), Y(z)) ELSE CMP_WORDS(X(z + 1), Y(z + 1)),
           words |-> m.words \cup {AtTurn(s1, k, j) : j \in 1 .. z} \cup {AtTurn(s2, k, j) : j \in 1 .. z}]
  BY DEF CompareLoop, First, AtTurn, Turns, WordA, WordB
<1>2. /\ N \in Nat /\ n - 1 <= N
      /\ \A j \in 1 .. n - 1 : (Turns(k, j) % 4 = 3 /\ Minus(N, 4 * (Turns(k, j) \div 4 + 1)) = 0) <=> j = n - 1
  <2>1. 1 \in 1 .. n - 1
    OBVIOUS
  <2> QED
    BY <2>1, LastTurn
<1>3. \A j \in 1 .. n : U[j] = X(j) /\ V[j] = Y(j)
  BY DEF Compares
<1> HIDE DEF r, k, N, X, Y
<1>4. \A j \in 1 .. n - 1 : Stop(j) <=> U[j] # V[j] \/ j = n - 1
  <2> TAKE j \in 1 .. n - 1
  <2>1. j \in 1 .. n
    OBVIOUS
  <2> QED
    BY <1>2, <1>3, <2>1
<1> HIDE DEF Stop
<1> DEFINE S == {j \in 1 .. n - 1 : Stop(j)}
<1>5. PICK x \in S : \A y \in S : x <= y
  <2>1. S \subseteq Nat /\ n - 1 \in S
    BY <1>4
  <2> HIDE DEF S
  <2> QED
    BY <2>1, LeastNumber
<1>6. x \in 1 .. N /\ P(x)
  <2>1. ASSUME NEW j \in 1 .. x - 1 PROVE ~ Stop(j)
    <3>1. j \in 1 .. n - 1 /\ ~(x <= j)
      BY <1>5, <2>1
    <3> QED
      BY <1>5, <3>1
  <2> QED
    BY <1>2, <1>5, <2>1
<1>7. z \in 1 .. N /\ P(z)
  <2> HIDE DEF P
  <2> QED
    BY <1>6
<1> HIDE DEF z
<1>8. z \in 1 .. n - 1
  <2>1. z > n - 1 => n - 1 \in 1 .. z - 1
    BY <1>7
  <2>2. Stop(n - 1)
    BY <1>4
  <2> QED
    BY <1>2, <1>7, <2>1, <2>2
<1>9. z \in 1 .. n /\ z + 1 \in 1 .. n
  BY <1>8
<1>10. X(z) = U[z] /\ Y(z) = V[z] /\ X(z + 1) = U[z + 1] /\ Y(z + 1) = V[z + 1]
  BY <1>3, <1>9
<1>11. U[z] # V[z] \/ z = n - 1
  BY <1>4, <1>7, <1>8
<1>12. \A j \in 1 .. z - 1 : U[j] = V[j]
  <2> TAKE j \in 1 .. z - 1
  <2>1. j \in 1 .. n - 1
    BY <1>8
  <2> QED
    BY <1>4, <1>7, <2>1
<1>13. LoopEnds(r, U, V, m, s1, s2, n, k, z)
  BY <1>1, <1>8, <1>10, <1>11, <1>12 DEF LoopEnds
<1> QED
  BY <1>13 DEF r, k, N

\* The first l words of two operands are the same.
SameWords(B, p1, p2, l) ==
    \A i \in 0 .. l - 1 : \E w : IsWord(w, B, Plus(p1, i * OPSIZ)) /\ IsWord(w, B, Plus(p2, i * OPSIZ))

\* Operands whose words agree.
LEMMA SameWordsAre ==
    ASSUME NEW B \in [Addr -> Int], NEW p1 \in Addr, NEW p2 \in Addr, NEW l \in Nat, l * OPSIZ <= SIZE,
           SameWords(B, p1, p2, l)
    PROVE  Same(B, p1, p2, l * OPSIZ)
<1>0. OPSIZ \in Nat /\ OPSIZ >= 1 /\ SIZE \in Nat
  BY MemoryFunctionsAssumption
<1> DEFINE G == {k \in Nat : k <= l => Same(B, p1, p2, k * OPSIZ)}
<1>1. 0 \in G
  <2>1. 0 * OPSIZ = 0
    BY <1>0
  <2>2. Same(B, p1, p2, 0)
    BY DEF Same
  <2> QED
    BY <2>1, <2>2
<1>2. ASSUME NEW k \in Nat, k \in G PROVE k + 1 \in G
  <2>1. SUFFICES ASSUME k + 1 <= l PROVE Same(B, p1, p2, (k + 1) * OPSIZ)
    OBVIOUS
  <2> DEFINE x == k * OPSIZ
  <2>2. x \in Nat /\ (k + 1) * OPSIZ = x + OPSIZ
    BY <1>0
  <2>3. x + OPSIZ <= l * OPSIZ
    BY <2>1, FewerWords
  <2>4. Same(B, p1, p2, x)
    BY <1>2, <2>1
  <2>5. k \in 0 .. l - 1
    BY <2>1
  <2>6. PICK w : IsWord(w, B, Plus(p1, x)) /\ IsWord(w, B, Plus(p2, x))
    BY <2>5 DEF SameWords
  <2> HIDE DEF x
  <2>7. x + OPSIZ <= SIZE /\ x <= SIZE /\ x \in 0 .. SIZE
    <3>1. l * OPSIZ \in Nat
      BY <1>0
    <3> QED
      BY <1>0, <2>2, <2>3, <3>1
  <2>8. Plus(p1, x) \in Addr /\ Plus(p2, x) \in Addr
    BY <2>7, Ring
  <2>9. Same(B, Plus(p1, x), Plus(p2, x), OPSIZ)
    BY <2>6, <2>8, WordsSame
  <2>10. Same(B, p1, p2, x + OPSIZ)
    BY <1>0, <2>2, <2>4, <2>7, <2>9, SameAlong
  <2> QED
    BY <2>2, <2>10
<1>3. \A k \in Nat : k \in G
  <2> HIDE DEF G
  <2> QED
    BY <1>1, <1>2, Induct
<1> QED
  BY <1>3

\* U holds the n words from p on.
WordsOf(U, B, p, n) == \A j \in 1 .. n : IsWord(U[j], B, Plus(p, (j - 1) * OPSIZ))

\* The first two words that differ decide.
LEMMA FirstWordsDecide ==
    ASSUME NEW B \in [Addr -> Int], NEW p1 \in Addr, NEW p2 \in Addr, NEW n \in Nat, n >= 2, n * OPSIZ <= SIZE,
           NEW U, NEW V, WordsOf(U, B, p1, n), WordsOf(V, B, p2, n),
           NEW l \in 1 .. n - 1, \A j \in 1 .. l - 1 : U[j] = V[j], U[l] # V[l] \/ l = n - 1,
           NEW res, res = IF U[l] # V[l] THEN memcmp_bytes(U[l], V[l]) ELSE CMP_WORDS(U[l + 1], V[l + 1])
    PROVE  Compared(B, p1, p2, n * OPSIZ, res)
<1>0. OPSIZ \in Nat /\ OPSIZ >= 1 /\ SIZE \in Nat /\ n * OPSIZ \in Nat /\ l \in Nat /\ l >= 1
  BY MemoryFunctionsAssumption
<1>1. ASSUME NEW c \in Nat, c + 1 <= n, \A j \in 1 .. c : U[j] = V[j]
      PROVE  /\ Same(B, p1, p2, c * OPSIZ) /\ c * OPSIZ \in Nat /\ c * OPSIZ + OPSIZ <= n * OPSIZ
             /\ Plus(p1, c * OPSIZ) \in Addr /\ Plus(p2, c * OPSIZ) \in Addr
             /\ IsWord(U[c + 1], B, Plus(p1, c * OPSIZ)) /\ IsWord(V[c + 1], B, Plus(p2, c * OPSIZ))
  <2>1. c * OPSIZ \in Nat /\ c * OPSIZ + OPSIZ <= n * OPSIZ
    BY <1>1, FewerWords
  <2>2. c * OPSIZ <= SIZE /\ c * OPSIZ \in 0 .. SIZE
    BY <1>0, <2>1
  <2>3. SameWords(B, p1, p2, c)
    <3>1. ASSUME NEW i \in 0 .. c - 1
          PROVE  IsWord(U[i + 1], B, Plus(p1, i * OPSIZ)) /\ IsWord(U[i + 1], B, Plus(p2, i * OPSIZ))
      <4>1. i + 1 \in 1 .. n /\ i + 1 \in 1 .. c /\ (i + 1) - 1 = i
        BY <1>1, <3>1
      <4> QED
        BY <1>1, <4>1 DEF WordsOf
    <3> QED
      BY <3>1 DEF SameWords
  <2>4. Same(B, p1, p2, c * OPSIZ)
    BY <1>1, <2>2, <2>3, SameWordsAre
  <2>5. Plus(p1, c * OPSIZ) \in Addr /\ Plus(p2, c * OPSIZ) \in Addr
    BY <2>2, Ring
  <2>6. c + 1 \in 1 .. n /\ (c + 1) - 1 = c
    BY <1>1
  <2> QED
    BY <2>1, <2>4, <2>5, <2>6 DEF WordsOf
<1>2. CASE U[l] # V[l]
  <2> DEFINE c == l - 1
  <2>1. c \in Nat /\ c + 1 <= n /\ c + 1 = l /\ \A j \in 1 .. c : U[j] = V[j]
    BY <1>0
  <2> HIDE DEF c
  <2>2. /\ Same(B, p1, p2, c * OPSIZ) /\ c * OPSIZ \in Nat /\ c * OPSIZ + OPSIZ <= n * OPSIZ
        /\ Plus(p1, c * OPSIZ) \in Addr /\ Plus(p2, c * OPSIZ) \in Addr
        /\ IsWord(U[l], B, Plus(p1, c * OPSIZ)) /\ IsWord(V[l], B, Plus(p2, c * OPSIZ))
    BY <1>1, <2>1
  <2> DEFINE x == c * OPSIZ
  <2> HIDE DEF x
  <2>3. Compared(B, Plus(p1, x), Plus(p2, x), OPSIZ, res) /\ res # 0
    <3>1. res = memcmp_bytes(U[l], V[l])
      BY <1>2
    <3> QED
      BY <1>2, <2>2, <3>1, WordsDiffer DEF x
  <2>4. x \in Nat /\ x + OPSIZ <= SIZE /\ x + OPSIZ \in Nat /\ x + OPSIZ <= n * OPSIZ /\ Same(B, p1, p2, x)
    BY <1>0, <2>2 DEF x
  <2>5. Compared(B, p1, p2, x + OPSIZ, res)
    BY <1>0, <2>3, <2>4, ComparedAlong
  <2> QED
    BY <1>0, <2>3, <2>4, <2>5, ComparedLonger
<1>3. CASE U[l] = V[l]
  <2>1. l + 1 <= n /\ l + 1 = n
    BY <1>0, <1>3
  <2>2. \A j \in 1 .. l : U[j] = V[j]
    <3> TAKE j \in 1 .. l
    <3>1. j \in 1 .. l - 1 \/ j = l
      BY <1>0
    <3> QED
      BY <1>3, <3>1
  <2>3. /\ Same(B, p1, p2, l * OPSIZ) /\ l * OPSIZ \in Nat /\ l * OPSIZ + OPSIZ <= n * OPSIZ
        /\ Plus(p1, l * OPSIZ) \in Addr /\ Plus(p2, l * OPSIZ) \in Addr
        /\ IsWord(U[l + 1], B, Plus(p1, l * OPSIZ)) /\ IsWord(V[l + 1], B, Plus(p2, l * OPSIZ))
    BY <1>0, <1>1, <2>1, <2>2
  <2> DEFINE x == l * OPSIZ
  <2>4. n * OPSIZ = x + OPSIZ
    BY <1>0, <2>1
  <2> HIDE DEF x
  <2>5. Compared(B, Plus(p1, x), Plus(p2, x), OPSIZ, res)
    <3>1. res = CMP_WORDS(U[l + 1], V[l + 1])
      BY <1>3
    <3> QED
      BY <2>3, <3>1, WordsCompared DEF x
  <2>6. x \in Nat /\ x + OPSIZ <= SIZE /\ Same(B, p1, p2, x)
    BY <1>0, <2>3, <2>4 DEF x
  <2>7. Compared(B, p1, p2, x + OPSIZ, res)
    BY <1>0, <2>5, <2>6, ComparedAlong
  <2> QED
    BY <2>4, <2>7
<1> QED
  BY <1>2, <1>3

\* A comparison of n words: what it returns, and what it has read.
WordsCompare(r, m, p1, p2, n, e1, h1) ==
    /\ Compared(m.b, p1, p2, n * OPSIZ, r.res)
    /\ r.words \subseteq m.words \cup WordsFrom(e1, 0, h1) \cup WordsFrom(p2, 0, n - 1)

\* The word at an address, whatever has been read before.
LEMMA WordIs ==
    ASSUME NEW m, NEW ps, NEW p
    PROVE  IsWord(Word(m, p), m.b, p) /\ Word(Reading(m, ps), p) = Word(m, p)
<1>1. Word(m, p) = [i \in 0 .. OPSIZ - 1 |-> m.b[Plus(p, i)]]
  BY DEF Word
<1>2. Word(Reading(m, ps), p) = [i \in 0 .. OPSIZ - 1 |-> Reading(m, ps).b[Plus(p, i)]]
  BY DEF Word
<1>3. Reading(m, ps).b = m.b
  BY DEF Reading
<1> QED
  BY <1>1, <1>2, <1>3 DEF IsWord

-----------------------------------------------------------------------------
(* memcmp *)

\* As many words as fit are fewer than there are addresses.
LEMMA FewWords ==
    ASSUME NEW n \in Nat, n >= 1, n * OPSIZ + OPSIZ <= SIZE
    PROVE  n < SIZE /\ n * OPSIZ \in Nat /\ n * OPSIZ <= SIZE
<1>0. OPSIZ \in Nat /\ OPSIZ >= 1 /\ SIZE \in Nat
  BY MemoryFunctionsAssumption
<1>1. PICK b \in Nat : OPSIZ = 1 + b
  <2>1. OPSIZ - 1 \in Nat /\ OPSIZ = 1 + (OPSIZ - 1)
    BY <1>0
  <2> QED
    BY <2>1
<1>2. n * OPSIZ = n + n * b /\ n * b \in Nat
  BY <1>1
<1> QED
  BY <1>0, <1>2

\* Operands that are aligned to each other.
LEMMA CommonIs ==
    ASSUME NEW m, m.b \in [Addr -> Int], NEW p1 \in Addr, NEW p2 \in Addr, NEW n \in Nat, n >= 1,
           n * OPSIZ + OPSIZ <= SIZE
    PROVE  WordsCompare(memcmp_common_alignment(m, p1, p2, n), m, p1, p2, n, p1, n - 1)
<1> DEFINE B == m.b
           k == LoopPlace(n)
           now == Reading(m, {p1, p2})
           r == memcmp_common_alignment(m, p1, p2, n)
<1>0. OPSIZ \in Nat /\ OPSIZ >= 1 /\ SIZE \in Nat /\ n < SIZE /\ n * OPSIZ \in Nat /\ n * OPSIZ <= SIZE
  BY MemoryFunctionsAssumption, FewWords
<1>1. now.words = m.words \cup {p1, p2} /\ \A p : Word(now, p) = Word(m, p) /\ IsWord(Word(m, p), B, p)
  <2>1. now.words = m.words \cup {p1, p2}
    BY DEF Reading
  <2> QED
    BY <2>1, WordIs
<1>2. Plus(p1, 0) = p1 /\ Plus(p2, 0) = p2 /\ 0 * OPSIZ = 0
  BY <1>0, PlusZero
<1>3. {p1} \subseteq WordsFrom(p1, 0, n - 1) /\ {p2} \subseteq WordsFrom(p2, 0, n - 1)
  <2>1. 0 \in 0 .. n - 1
    OBVIOUS
  <2> QED
    BY <1>2, <2>1 DEF WordsFrom
<1>4. CASE n = 1
  <2>1. r = [res |-> CMP_WORDS(Word(m, p1), Word(m, p2)), words |-> now.words]
    BY <1>4 DEF memcmp_common_alignment
  <2>2. Compared(B, p1, p2, OPSIZ, CMP_WORDS(Word(m, p1), Word(m, p2)))
    <3> HIDE DEF B
    <3>1. IsWord(Word(m, p1), B, p1) /\ IsWord(Word(m, p2), B, p2) /\ B \in [Addr -> Int]
      BY <1>1 DEF B
    <3> QED
      BY <3>1, WordsCompared
  <2>3. n * OPSIZ = OPSIZ
    BY <1>0, <1>4
  <2> HIDE DEF now
  <2> QED
    BY <1>1, <1>3, <2>1, <2>2, <2>3 DEF WordsCompare
<1>5. CASE n >= 2
  <2> DEFINE s1 == Plus(p1, (1 - k) * OPSIZ)
             s2 == Plus(p2, (1 - k) * OPSIZ)
             U == [j \in 1 .. n |-> Word(m, Plus(p1, (j - 1) * OPSIZ))]
             V == [j \in 1 .. n |-> Word(m, Plus(p2, (j - 1) * OPSIZ))]
  <2>1. r = CompareLoop(now, s1, s2, n + k - 1, k, Word(m, p1), Word(m, p1), Word(m, p2), 0)
    BY <1>5 DEF memcmp_common_alignment
  <2>2. k \in 0 .. 3 /\ 1 \in 1 .. 2
    <3>1. 1 \in 1 .. n - 1
      BY <1>5
    <3> QED
      BY <1>0, <1>5, <3>1, LastTurn
  <2> HIDE DEF k, now, r
  <2>3. \A j \in Nat : j >= 1 => AtTurn(s1, k, j) = Plus(p1, j * OPSIZ) /\ AtTurn(s2, k, j) = Plus(p2, j * OPSIZ)
    <3> TAKE j \in Nat
    <3> HAVE j >= 1
    <3>1. j + 1 - 1 = j
      OBVIOUS
    <3>2. AtTurn(s1, k, j) = Plus(p1, (j + 1 - 1) * OPSIZ)
      BY <2>2, AtTurnIs
    <3>3. AtTurn(s2, k, j) = Plus(p2, (j + 1 - 1) * OPSIZ)
      BY <2>2, AtTurnIs
    <3> HIDE DEF s1, s2
    <3> QED
      BY <3>1, <3>2, <3>3
  <2> HIDE DEF s1, s2
  <2>4. \A j \in 1 .. n : U[j] = Word(m, Plus(p1, (j - 1) * OPSIZ)) /\ V[j] = Word(m, Plus(p2, (j - 1) * OPSIZ))
    OBVIOUS
  <2> HIDE DEF U, V
  <2>5. Compares(U, V, now, s1, s2, n, k, Word(m, p1), Word(m, p1), Word(m, p2), 0)
    <3>1. ASSUME NEW j \in 1 .. n
          PROVE  U[j] = WordA(now, s1, k, Word(m, p1), Word(m, p1), j) /\ V[j] = WordB(now, s2, k, Word(m, p2), j)
      <4>1. CASE j = 1
        <5>1. (1 - 1) * OPSIZ = 0
          BY <1>0
        <5>2. U[1] = Word(m, p1) /\ V[1] = Word(m, p2)
          BY <1>2, <2>4, <3>1, <4>1, <5>1
        <5> QED
          BY <4>1, <5>2 DEF WordA, WordB
      <4>2. CASE j # 1
        <5>1. j - 1 \in Nat /\ j - 1 >= 1 /\ j # 0
          BY <3>1, <4>2
        <5>2. AtTurn(s1, k, j - 1) = Plus(p1, (j - 1) * OPSIZ) /\ AtTurn(s2, k, j - 1) = Plus(p2, (j - 1) * OPSIZ)
          BY <2>3, <5>1
        <5>3. /\ WordA(now, s1, k, Word(m, p1), Word(m, p1), j) = Word(now, AtTurn(s1, k, j - 1))
              /\ WordB(now, s2, k, Word(m, p2), j) = Word(now, AtTurn(s2, k, j - 1))
          BY <4>2, <5>1 DEF WordA, WordB
        <5> QED
          BY <1>1, <2>4, <3>1, <5>2, <5>3
      <4> QED
        BY <4>1, <4>2
    <3>2. \A x, y : LastWord(x, y, 0) = y
      BY DEF LastWord
    <3> QED
      BY <3>1, <3>2 DEF Compares
  <2>6. PICK l : LoopEnds(r, U, V, now, s1, s2, n, k, l)
    <3>1. Compares(U, V, now, s1, s2, n, LoopPlace(n), Word(m, p1), Word(m, p1), Word(m, p2), 0)
      BY <2>5 DEF k
    <3>2. \E l : LoopEnds(CompareLoop(now, s1, s2, n + LoopPlace(n) - 1, LoopPlace(n), Word(m, p1), Word(m, p1),
                                      Word(m, p2), 0), U, V, now, s1, s2, n, LoopPlace(n), l)
      BY <1>0, <1>5, <3>1, CompareLoopIs
    <3> QED
      BY <2>1, <3>2 DEF k
  <2>7. WordsOf(U, B, p1, n) /\ WordsOf(V, B, p2, n)
    BY <1>1, <2>4 DEF WordsOf
  <2>8. /\ l \in 1 .. n - 1 /\ \A j \in 1 .. l - 1 : U[j] = V[j]
        /\ U[l] # V[l] \/ l = n - 1
        /\ r.res = IF U[l] # V[l] THEN memcmp_bytes(U[l], V[l]) ELSE CMP_WORDS(U[l + 1], V[l + 1])
        /\ r.words = now.words \cup {AtTurn(s1, k, j) : j \in 1 .. l} \cup {AtTurn(s2, k, j) : j \in 1 .. l}
    BY <2>6 DEF LoopEnds
  <2>9. Compared(B, p1, p2, n * OPSIZ, r.res)
    <3> HIDE DEF B
    <3>1. B \in [Addr -> Int]
      BY DEF B
    <3> QED
      BY <1>0, <1>5, <2>7, <2>8, <3>1, FirstWordsDecide
  <2>10. r.words \subseteq m.words \cup WordsFrom(p1, 0, n - 1) \cup WordsFrom(p2, 0, n - 1)
    <3>1. ASSUME NEW j \in 1 .. l
          PROVE  AtTurn(s1, k, j) \in WordsFrom(p1, 0, n - 1) /\ AtTurn(s2, k, j) \in WordsFrom(p2, 0, n - 1)
      <4>1. j \in Nat /\ j >= 1 /\ j \in 0 .. n - 1
        BY <2>8, <3>1
      <4> QED
        BY <2>3, <4>1 DEF WordsFrom
    <3> QED
      BY <1>1, <1>3, <2>8, <3>1
  <2> QED
    BY <2>9, <2>10 DEF WordsCompare, r
<1> QED
  BY <1>4, <1>5

\* The word that starts off bytes behind r + x, merged from two words on the grid.
LEMMA MergedIs ==
    ASSUME NEW m, NEW r \in Addr, NEW off \in 0 .. OPSIZ - 1, NEW x \in Nat, x + 2 * OPSIZ <= SIZE
    PROVE  IsWord(MERGE(Word(m, Plus(r, x)), Word(m, Plus(r, x + OPSIZ)), off), m.b, Plus(Plus(r, off), x))
<1> DEFINE w0 == Word(m, Plus(r, x))
           w1 == Word(m, Plus(r, x + OPSIZ))
           w == MERGE(w0, w1, off)
           q == Plus(Plus(r, off), x)
<1>0. OPSIZ \in Nat /\ OPSIZ >= 1 /\ SIZE \in Nat /\ off \in Nat
  BY MemoryFunctionsAssumption
<1>1. /\ \A i \in 0 .. OPSIZ - 1 : w0[i] = m.b[Plus(Plus(r, x), i)]
      /\ \A i \in 0 .. OPSIZ - 1 : w1[i] = m.b[Plus(Plus(r, x + OPSIZ), i)]
  BY DEF Word
<1>2. w = [i \in 0 .. OPSIZ - 1 |-> w[i]]
  BY DEF MERGE
<1>3. \A i \in 0 .. OPSIZ - 1 : w[i] = IF i + off < OPSIZ THEN w0[i + off] ELSE w1[i + off - OPSIZ]
  BY MergeIs
<1> HIDE DEF w0, w1, w
<1>4. ASSUME NEW i \in 0 .. OPSIZ - 1 PROVE w[i] = m.b[Plus(q, i)]
  <2>1. Plus(q, i) = Plus(r, off + (x + i))
    <3>1. Plus(Plus(r, off), x) = Plus(r, off + x)
      BY <1>0, Along
    <3>2. i \in Nat /\ off + x \in Nat /\ (off + x) + i <= SIZE /\ (off + x) + i = off + (x + i)
      BY <1>0, <1>4
    <3>3. Plus(Plus(r, off + x), i) = Plus(r, (off + x) + i)
      BY <3>2, Along
    <3> QED
      BY <3>1, <3>2, <3>3
  <2> HIDE DEF q
  <2>2. CASE i + off < OPSIZ
    <3> DEFINE j == i + off
    <3>1. j \in Nat /\ j \in 0 .. OPSIZ - 1 /\ x + j <= SIZE /\ x + j = off + (x + i)
      BY <1>0, <1>4, <2>2
    <3> HIDE DEF j
    <3>2. w[i] = w0[j] /\ w0[j] = m.b[Plus(Plus(r, x), j)]
      BY <1>1, <1>3, <1>4, <2>2, <3>1 DEF j
    <3>3. Plus(Plus(r, x), j) = Plus(r, x + j)
      BY <3>1, Along
    <3> QED
      BY <2>1, <3>1, <3>2, <3>3
  <2>3. CASE ~(i + off < OPSIZ)
    <3> DEFINE j == i + off - OPSIZ
               y == x + OPSIZ
    <3>1. j \in Nat /\ j \in 0 .. OPSIZ - 1 /\ y \in Nat /\ y + j <= SIZE /\ y + j = off + (x + i)
      BY <1>0, <1>4, <2>3
    <3>2. w[i] = w1[j] /\ w1[j] = m.b[Plus(Plus(r, y), j)]
      BY <1>1, <1>3, <1>4, <2>3, <3>1
    <3> HIDE DEF j, y
    <3>3. Plus(Plus(r, y), j) = Plus(r, y + j)
      BY <3>1, Along
    <3> QED
      BY <2>1, <3>1, <3>2, <3>3
  <2> QED
    BY <2>2, <2>3
<1> HIDE DEF q
<1>5. w = [i \in 0 .. OPSIZ - 1 |-> m.b[Plus(q, i)]]
  BY <1>2, <1>4
<1> QED
  BY <1>5 DEF IsWord, w, w0, w1, q

\* Operands that are not.
LEMMA NotCommonIs ==
    ASSUME NEW m, m.b \in [Addr -> Int], NEW p1 \in Addr, NEW p2 \in Addr, NEW n \in Nat, n >= 1,
           n * OPSIZ + OPSIZ <= SIZE, p1 % OPSIZ # 0
    PROVE  WordsCompare(memcmp_not_common_alignment(m, p1, p2, n), m, p1, p2, n, RoundDown(p1), n)
<1> DEFINE B == m.b
           k == LoopPlace(n)
           off == p1 % OPSIZ
           e == RoundDown(p1)
           q1 == Plus(e, OPSIZ)
           now == Reading(m, {e, q1, p2})
           r == memcmp_not_common_alignment(m, p1, p2, n)
           M(x) == MERGE(Word(m, Plus(e, x)), Word(m, Plus(e, x + OPSIZ)), off)
<1>0. OPSIZ \in Nat /\ OPSIZ >= 1 /\ SIZE \in Nat /\ n < SIZE /\ n * OPSIZ \in Nat /\ n * OPSIZ <= SIZE
  BY MemoryFunctionsAssumption, FewWords
<1>1. now.words = m.words \cup {e, q1, p2} /\ \A p : Word(now, p) = Word(m, p) /\ IsWord(Word(m, p), B, p)
  <2>1. now.words = m.words \cup {e, q1, p2}
    BY DEF Reading
  <2> QED
    BY <2>1, WordIs
<1>2. off \in 0 .. OPSIZ - 1 /\ e \in Addr /\ Plus(e, off) = p1 /\ off # 0
  BY RoundIs
<1>a. r = CASE n = 0 -> [res |-> 0, words |-> m.words]
            [] n = 1 -> [res   |-> CMP_WORDS(MERGE(Word(m, e), Word(m, q1), off), Word(m, p2)),
                         words |-> now.words]
            [] OTHER -> CompareLoop(now, Plus(e, (2 - k) * OPSIZ), Plus(p2, (1 - k) * OPSIZ),
                                    n + k - 1, k, Word(m, e), Word(m, q1), Word(m, p2), off)
  BY DEF memcmp_not_common_alignment
<1> HIDE DEF r, off, e
<1>3. Plus(e, 0) = e /\ Plus(p2, 0) = p2 /\ 0 * OPSIZ = 0 /\ 1 * OPSIZ = OPSIZ /\ 0 + OPSIZ = OPSIZ
  BY <1>0, <1>2, PlusZero
<1>4. {e, q1} \subseteq WordsFrom(e, 0, n) /\ {p2} \subseteq WordsFrom(p2, 0, n - 1)
  <2>1. 0 \in 0 .. n /\ 1 \in 0 .. n /\ 0 \in 0 .. n - 1
    OBVIOUS
  <2>2. e = Plus(e, 0 * OPSIZ) /\ q1 = Plus(e, 1 * OPSIZ) /\ p2 = Plus(p2, 0 * OPSIZ)
    BY <1>3
  <2> HIDE DEF q1
  <2> QED
    BY <2>1, <2>2 DEF WordsFrom
<1>5. ASSUME NEW j \in 1 .. n
      PROVE  IsWord(M((j - 1) * OPSIZ), B, Plus(p1, (j - 1) * OPSIZ)) /\ (j - 1) * OPSIZ + OPSIZ = j * OPSIZ
  <2> DEFINE x == (j - 1) * OPSIZ
  <2>1. j - 1 \in Nat /\ (j - 1) + 1 <= n
    BY <1>5
  <2>2. x \in Nat /\ x + OPSIZ <= n * OPSIZ
    BY <2>1, FewerWords
  <2>3. x + OPSIZ = j * OPSIZ
    BY <1>0, <1>5
  <2> HIDE DEF x
  <2>4. x + 2 * OPSIZ <= SIZE
    BY <1>0, <2>2
  <2>5. IsWord(M(x), B, Plus(Plus(e, off), x))
    BY <1>2, <2>2, <2>4, MergedIs
  <2> QED
    BY <1>2, <2>3, <2>5 DEF x
<1>6. CASE n = 1
  <2>1. r = [res |-> CMP_WORDS(MERGE(Word(m, e), Word(m, q1), off), Word(m, p2)), words |-> now.words]
    BY <1>a, <1>6
  <2>2. IsWord(MERGE(Word(m, e), Word(m, q1), off), B, p1)
    <3>1. 1 \in 1 .. n /\ (1 - 1) * OPSIZ = 0
      BY <1>0
    <3>2. IsWord(M(0), B, Plus(p1, 0))
      BY <1>5, <3>1
    <3>3. Plus(p1, 0) = p1
      BY PlusZero
    <3> QED
      BY <1>3, <3>2, <3>3
  <2>3. Compared(B, p1, p2, OPSIZ, CMP_WORDS(MERGE(Word(m, e), Word(m, q1), off), Word(m, p2)))
    <3>1. IsWord(Word(m, p2), B, p2) /\ B \in [Addr -> Int]
      BY <1>1
    <3> HIDE DEF B
    <3> QED
      BY <2>2, <3>1, WordsCompared
  <2>4. n * OPSIZ = OPSIZ
    BY <1>0, <1>6
  <2> HIDE DEF now, q1
  <2> QED
    BY <1>1, <1>4, <2>1, <2>3, <2>4 DEF WordsCompare, r, e
<1>7. CASE n >= 2
  <2> DEFINE s1 == Plus(e, (2 - k) * OPSIZ)
             s2 == Plus(p2, (1 - k) * OPSIZ)
             U == [j \in 1 .. n |-> M((j - 1) * OPSIZ)]
             V == [j \in 1 .. n |-> Word(m, Plus(p2, (j - 1) * OPSIZ))]
  <2>1. r = CompareLoop(now, s1, s2, n + k - 1, k, Word(m, e), Word(m, q1), Word(m, p2), off)
    BY <1>a, <1>7
  <2>2. k \in 0 .. 3 /\ 1 \in 1 .. 2 /\ 2 \in 1 .. 2
    <3>1. 1 \in 1 .. n - 1
      BY <1>7
    <3> QED
      BY <1>0, <1>7, <3>1, LastTurn
  <2> HIDE DEF k, now
  <2>3. \A j \in Nat : j >= 1 => AtTurn(s1, k, j) = Plus(e, (j + 1) * OPSIZ) /\ AtTurn(s2, k, j) = Plus(p2, j * OPSIZ)
    <3> TAKE j \in Nat
    <3> HAVE j >= 1
    <3>1. j + 1 - 1 = j /\ j + 2 - 1 = j + 1
      OBVIOUS
    <3>2. AtTurn(s1, k, j) = Plus(e, (j + 2 - 1) * OPSIZ)
      BY <1>2, <2>2, AtTurnIs
    <3>3. AtTurn(s2, k, j) = Plus(p2, (j + 1 - 1) * OPSIZ)
      BY <2>2, AtTurnIs
    <3> HIDE DEF s1, s2
    <3> QED
      BY <3>1, <3>2, <3>3
  <2> HIDE DEF s1, s2
  <2>4. \A j \in 1 .. n : U[j] = M((j - 1) * OPSIZ) /\ V[j] = Word(m, Plus(p2, (j - 1) * OPSIZ))
    OBVIOUS
  <2> HIDE DEF U, V
  <2> DEFINE A(j) == WordA(now, s1, k, Word(m, e), Word(m, q1), j)
  <2>5. \A j \in 0 .. n : A(j) = Word(m, Plus(e, j * OPSIZ))
    <3> TAKE j \in 0 .. n
    <3>1. CASE j = 0
      BY <1>3, <3>1 DEF WordA
    <3>2. CASE j = 1
      BY <1>3, <3>2 DEF WordA
    <3>3. CASE j # 0 /\ j # 1
      <4>1. j - 1 \in Nat /\ j - 1 >= 1 /\ (j - 1) + 1 = j
        BY <3>3
      <4>2. AtTurn(s1, k, j - 1) = Plus(e, j * OPSIZ)
        BY <2>3, <4>1
      <4>3. A(j) = Word(now, AtTurn(s1, k, j - 1))
        BY <3>3 DEF WordA
      <4> QED
        BY <1>1, <4>2, <4>3
    <3> QED
      BY <3>1, <3>2, <3>3
  <2>6. Compares(U, V, now, s1, s2, n, k, Word(m, e), Word(m, q1), Word(m, p2), off)
    <3>1. ASSUME NEW j \in 1 .. n PROVE V[j] = WordB(now, s2, k, Word(m, p2), j)
      <4>1. CASE j = 1
        <5>1. (1 - 1) * OPSIZ = 0
          BY <1>0
        <5>2. V[1] = Word(m, p2)
          BY <1>3, <2>4, <3>1, <4>1, <5>1
        <5> QED
          BY <4>1, <5>2 DEF WordB
      <4>2. CASE j # 1
        <5>1. j - 1 \in Nat /\ j - 1 >= 1
          BY <3>1, <4>2
        <5>2. AtTurn(s2, k, j - 1) = Plus(p2, (j - 1) * OPSIZ)
          BY <2>3, <5>1
        <5>3. WordB(now, s2, k, Word(m, p2), j) = Word(now, AtTurn(s2, k, j - 1))
          BY <4>2 DEF WordB
        <5> QED
          BY <1>1, <2>4, <3>1, <5>2, <5>3
      <4> QED
        BY <4>1, <4>2
    <3>2. ASSUME NEW j \in 1 .. n PROVE U[j] = LastWord(A(j - 1), A(j), off)
      <4>1. j - 1 \in 0 .. n /\ j \in 0 .. n
        BY <3>2
      <4>2. A(j - 1) = Word(m, Plus(e, (j - 1) * OPSIZ)) /\ A(j) = Word(m, Plus(e, j * OPSIZ))
        BY <2>5, <4>1
      <4>3. (j - 1) * OPSIZ + OPSIZ = j * OPSIZ
        BY <1>5, <3>2
      <4>4. LastWord(A(j - 1), A(j), off) = MERGE(A(j - 1), A(j), off)
        BY <1>2 DEF LastWord
      <4> HIDE DEF A
      <4>5. U[j] = MERGE(Word(m, Plus(e, (j - 1) * OPSIZ)), Word(m, Plus(e, (j - 1) * OPSIZ + OPSIZ)), off)
        BY <2>4, <3>2
      <4> QED
        BY <4>2, <4>3, <4>4, <4>5
    <3> QED
      BY <3>1, <3>2 DEF Compares
  <2>7. PICK l : LoopEnds(r, U, V, now, s1, s2, n, k, l)
    <3>1. Compares(U, V, now, s1, s2, n, LoopPlace(n), Word(m, e), Word(m, q1), Word(m, p2), off)
      BY <2>6 DEF k
    <3>2. \E l : LoopEnds(CompareLoop(now, s1, s2, n + LoopPlace(n) - 1, LoopPlace(n), Word(m, e), Word(m, q1),
                                      Word(m, p2), off), U, V, now, s1, s2, n, LoopPlace(n), l)
      BY <1>0, <1>7, <3>1, CompareLoopIs
    <3> QED
      BY <2>1, <3>2 DEF k
  <2>8. WordsOf(U, B, p1, n) /\ WordsOf(V, B, p2, n)
    <3> HIDE DEF M
    <3> QED
      BY <1>1, <1>5, <2>4 DEF WordsOf
  <2>9. /\ l \in 1 .. n - 1 /\ \A j \in 1 .. l - 1 : U[j] = V[j]
        /\ U[l] # V[l] \/ l = n - 1
        /\ r.res = IF U[l] # V[l] THEN memcmp_bytes(U[l], V[l]) ELSE CMP_WORDS(U[l + 1], V[l + 1])
        /\ r.words = now.words \cup {AtTurn(s1, k, j) : j \in 1 .. l} \cup {AtTurn(s2, k, j) : j \in 1 .. l}
    BY <2>7 DEF LoopEnds
  <2>10. Compared(B, p1, p2, n * OPSIZ, r.res)
    <3> HIDE DEF B, M, A, q1
    <3>1. B \in [Addr -> Int]
      BY DEF B
    <3> DEFINE res == r.res
    <3>2. /\ l \in 1 .. n - 1 /\ \A j \in 1 .. l - 1 : U[j] = V[j]
          /\ U[l] # V[l] \/ l = n - 1
          /\ res = IF U[l] # V[l] THEN memcmp_bytes(U[l], V[l]) ELSE CMP_WORDS(U[l + 1], V[l + 1])
      BY <2>9
    <3>3. n * OPSIZ <= SIZE /\ WordsOf(U, B, p1, n) /\ WordsOf(V, B, p2, n)
      BY <1>0, <2>8
    <3> HIDE DEF res
    <3>4. Compared(B, p1, p2, n * OPSIZ, res)
      BY <1>7, <3>1, <3>2, <3>3, FirstWordsDecide
    <3> QED
      BY <3>4 DEF res
  <2>11. r.words \subseteq m.words \cup WordsFrom(e, 0, n) \cup WordsFrom(p2, 0, n - 1)
    <3>1. ASSUME NEW j \in 1 .. l
          PROVE  AtTurn(s1, k, j) \in WordsFrom(e, 0, n) /\ AtTurn(s2, k, j) \in WordsFrom(p2, 0, n - 1)
      <4>1. j \in Nat /\ j >= 1 /\ j \in 0 .. n - 1 /\ j + 1 \in 0 .. n
        BY <2>9, <3>1
      <4>2. AtTurn(s1, k, j) = Plus(e, (j + 1) * OPSIZ) /\ AtTurn(s2, k, j) = Plus(p2, j * OPSIZ)
        BY <2>3, <4>1
      <4> QED
        BY <4>1, <4>2 DEF WordsFrom
    <3> HIDE DEF q1
    <3> QED
      BY <1>1, <1>4, <2>9, <3>1
  <2> QED
    BY <2>10, <2>11 DEF WordsCompare, r, e
<1> QED
  BY <1>6, <1>7

\* What memcmp() promises of any two operands: the first difference, and that every
\* word it has read holds a byte of one of them.
RightlyCompared(r, B, s1, s2, L) ==
    /\ Compared(B, s1, s2, L, r.res)
    /\ \A w \in r.words : Touches(w, s1, L) \/ Touches(w, s2, L)

\* The words between the operands' first and last bytes.
LEMMA WordsRightlyCompared ==
    ASSUME NEW m, m.b \in [Addr -> Int], m.words = {}, NEW s1 \in Addr, NEW s2 \in Addr, NEW L \in Nat,
           L + OPSIZ <= SIZE, NEW x \in Nat, NEW n \in Nat, n >= 1, x + n * OPSIZ <= L,
           NEW r, r = IF Plus(s1, x) % OPSIZ = 0 THEN memcmp_common_alignment(m, Plus(s1, x), Plus(s2, x), n)
                      ELSE memcmp_not_common_alignment(m, Plus(s1, x), Plus(s2, x), n)
    PROVE  /\ Compared(m.b, Plus(s1, x), Plus(s2, x), n * OPSIZ, r.res)
           /\ \A w \in r.words : Touches(w, s1, L) \/ Touches(w, s2, L)
<1> DEFINE p1 == Plus(s1, x)
           p2 == Plus(s2, x)
<1>0. SIZE \in Nat /\ OPSIZ \in Nat /\ OPSIZ >= 1 /\ L <= SIZE /\ n * OPSIZ \in Nat
      /\ n * OPSIZ + OPSIZ <= SIZE /\ x <= SIZE
  <2>1. SIZE \in Nat /\ OPSIZ \in Nat /\ OPSIZ >= 1 /\ n * OPSIZ \in Nat
    BY MemoryFunctionsAssumption
  <2> QED
    BY <2>1
<1>1. p1 \in Addr /\ p2 \in Addr
  <2>1. x \in 0 .. SIZE
    BY <1>0
  <2> QED
    BY <2>1, Ring
<1>2. \A w \in WordsFrom(p2, 0, n - 1) : Touches(w, s2, L)
  BY <1>0, TouchFrom
<1>3. CASE p1 % OPSIZ = 0
  <2> HIDE DEF p1, p2
  <2>1. r = memcmp_common_alignment(m, p1, p2, n)
    BY <1>3 DEF p1, p2
  <2>2. WordsCompare(memcmp_common_alignment(m, p1, p2, n), m, p1, p2, n, p1, n - 1)
    BY <1>0, <1>1, CommonIs
  <2>3. Compared(m.b, p1, p2, n * OPSIZ, r.res) /\ r.words \subseteq WordsFrom(p1, 0, n - 1) \cup WordsFrom(p2, 0, n - 1)
    BY <2>1, <2>2 DEF WordsCompare
  <2>4. \A w \in WordsFrom(p1, 0, n - 1) : Touches(w, s1, L)
    BY <1>0, TouchFrom DEF p1
  <2> QED
    BY <1>2, <2>3, <2>4 DEF p1, p2
<1>4. CASE p1 % OPSIZ # 0
  <2> HIDE DEF p1, p2
  <2>1. r = memcmp_not_common_alignment(m, p1, p2, n)
    BY <1>4 DEF p1, p2
  <2>2. WordsCompare(memcmp_not_common_alignment(m, p1, p2, n), m, p1, p2, n, RoundDown(p1), n)
    BY <1>0, <1>1, <1>4, NotCommonIs
  <2>3. Compared(m.b, p1, p2, n * OPSIZ, r.res)
        /\ r.words \subseteq WordsFrom(RoundDown(p1), 0, n) \cup WordsFrom(p2, 0, n - 1)
    BY <2>1, <2>2 DEF WordsCompare
  <2>4. \A w \in WordsFrom(RoundDown(p1), 0, n) : Touches(w, s1, L)
    <3> DEFINE off == p1 % OPSIZ
               e == RoundDown(p1)
    <3>1. off \in 0 .. OPSIZ - 1 /\ e \in Addr /\ Plus(e, off) = p1
      BY <1>1, RoundIs
    <3>2. off # 0
      BY <1>4
    <3> HIDE DEF off, e
    <3>3. off \in 1 .. OPSIZ - 1 /\ Plus(e, off) = Plus(s1, x)
      BY <1>0, <3>1, <3>2 DEF p1
    <3>4. \A w \in WordsFrom(e, 0, n) : Touches(w, s1, L)
      BY <1>0, <3>1, <3>3, TouchFromAcross
    <3> QED
      BY <3>4 DEF e
  <2> QED
    BY <1>2, <2>3, <2>4 DEF p1, p2
<1> QED
  BY <1>3, <1>4

\* memcmp() answers by the first byte that differs, for any memory and any two
\* operands in it, overlapping or not, and reads no word without a byte of one of
\* them (libc/string/memcmp.c).
THEOREM MemcmpRight ==
    ASSUME NEW m, m.b \in [Addr -> Int], m.words = {}, NEW s1 \in Addr, NEW s2 \in Addr, NEW L \in Nat,
           2 * L <= SIZE
    PROVE  RightlyCompared(memcmp(m, s1, s2, L), m.b, s1, s2, L)
<1> DEFINE B == m.b
           head == Minus(0, s2) % OPSIZ
           p1 == Plus(s1, head)
           p2 == Plus(s2, head)
           rest == L - head
           n == rest \div OPSIZ
           words == RoundDown(rest)
           first == CompareBytes(m, s1, s2, head)
           body == IF p1 % OPSIZ = 0 THEN memcmp_common_alignment(m, p1, p2, n)
                                     ELSE memcmp_not_common_alignment(m, p1, p2, n)
           last == CompareBytes(m, Plus(p1, words), Plus(p2, words), rest % OPSIZ)
           r == memcmp(m, s1, s2, L)
<1>0. OPSIZ \in Nat /\ OPSIZ >= 1 /\ SIZE \in Nat /\ OP_T_THRES \in Nat /\ OP_T_THRES >= 2 * OPSIZ /\ L <= SIZE
  BY MemoryFunctionsAssumption
<1>a. r = CASE L < OP_T_THRES -> [res |-> CompareBytes(m, s1, s2, L), words |-> m.words]
            [] L >= OP_T_THRES /\ first # 0 -> [res |-> first, words |-> m.words]
            [] L >= OP_T_THRES /\ first = 0 /\ body.res # 0 -> body
            [] OTHER -> [res |-> last, words |-> body.words]
  <2> HIDE DEF first, body, last
  <2> QED
    BY DEF memcmp, first, body, last
<1>1. CASE L < OP_T_THRES
  <2> HIDE DEF first, body, last, r
  <2>1. r = [res |-> CompareBytes(m, s1, s2, L), words |-> m.words]
    BY <1>0, <1>a, <1>1
  <2>2. Compared(B, s1, s2, L, CompareBytes(m, s1, s2, L))
    BY CompareBytesIs
  <2>3. r.res = CompareBytes(m, s1, s2, L) /\ r.words = {}
    BY <2>1
  <2> QED
    BY <2>2, <2>3 DEF RightlyCompared, r
<1>2. CASE ~(L < OP_T_THRES)
  <2>1. L >= OP_T_THRES
    BY <1>0, <1>2
  <2>2. /\ first # 0 => r = [res |-> first, words |-> m.words]
        /\ first = 0 /\ body.res # 0 => r = body
        /\ first = 0 /\ body.res = 0 => r = [res |-> last, words |-> body.words]
    <3> HIDE DEF first, body, last, r
    <3> QED
      BY <1>a, <1>2, <2>1
  <2>3. head \in Nat /\ head < OPSIZ
    <3>1. 0 \in Addr /\ s2 \in 0 .. SIZE
      BY <1>0, MemoryFunctionsAssumption DEF Addr
    <3>2. Minus(0, s2) \in Addr
      BY <3>1, Ring
    <3>3. Minus(0, s2) % OPSIZ \in 0 .. OPSIZ - 1
      BY <3>2, RoundIs
    <3> QED
      BY <1>0, <3>3
  <2> HIDE DEF r, last, head
  <2>4. rest \in Nat /\ rest >= OPSIZ /\ head + rest = L /\ L + OPSIZ <= SIZE
    BY <1>0, <2>1, <2>3
  <2>5. rest % OPSIZ = rest - words
    <3> HIDE DEF rest
    <3>1. rest % OPSIZ \in Nat
      BY <1>0, <2>4
    <3> QED
      BY <2>4, <3>1 DEF RoundDown
  <2> HIDE DEF rest
  <2>6. n \in Nat /\ n >= 1 /\ n * OPSIZ = words /\ words \in Nat /\ words <= rest
    BY <2>4, WholeWords
  <2> HIDE DEF n, words
  <2>7. Compared(B, s1, s2, head, first)
    BY <2>3, CompareBytesIs
  <2> HIDE DEF first
  <2>8. /\ Compared(B, p1, p2, n * OPSIZ, body.res)
        /\ \A w \in body.words : Touches(w, s1, L) \/ Touches(w, s2, L)
    <3>1. head + n * OPSIZ <= L
      BY <2>3, <2>4, <2>6
    <3> HIDE DEF body
    <3>2. body = IF Plus(s1, head) % OPSIZ = 0 THEN memcmp_common_alignment(m, Plus(s1, head), Plus(s2, head), n)
                 ELSE memcmp_not_common_alignment(m, Plus(s1, head), Plus(s2, head), n)
      BY DEF body
    <3> QED
      BY <2>3, <2>4, <2>6, <3>1, <3>2, WordsRightlyCompared
  <2> HIDE DEF body, B
  <2>9. head <= L /\ head + words \in Nat /\ head + words <= L /\ head + words <= SIZE /\ rest - words \in Nat
        /\ (head + words) + (rest - words) = L
    BY <1>0, <2>3, <2>4, <2>6
  <2>10. CASE first # 0
    <3>1. Compared(B, s1, s2, L, first)
      BY <2>3, <2>7, <2>9, <2>10, ComparedLonger
    <3>2. r.res = first /\ r.words = {}
      BY <2>2, <2>10
    <3> QED
      BY <3>1, <3>2 DEF RightlyCompared, r, B
  <2>11. CASE first = 0
    <3>1. Same(B, s1, s2, head)
      BY <2>7, <2>11 DEF Compared
    <3>2. Compared(B, s1, s2, head + words, body.res)
      <4>1. Compared(B, Plus(s1, head), Plus(s2, head), words, body.res)
        BY <2>6, <2>8
      <4> QED
        BY <2>3, <2>6, <2>9, <3>1, <4>1, ComparedAlong
    <3>3. CASE body.res # 0
      <4>1. Compared(B, s1, s2, L, body.res)
        BY <2>9, <3>2, <3>3, ComparedLonger
      <4>2. r = body
        BY <2>2, <2>11, <3>3
      <4> QED
        BY <2>8, <4>1, <4>2 DEF RightlyCompared, r, B
    <3>4. CASE body.res = 0
      <4>1. Same(B, s1, s2, head + words)
        BY <3>2, <3>4 DEF Compared
      <4>2. Plus(p1, words) = Plus(s1, head + words) /\ Plus(p2, words) = Plus(s2, head + words)
        BY <2>3, <2>6, <2>9, Along
      <4>3. Compared(B, Plus(s1, head + words), Plus(s2, head + words), rest - words, last)
        <5>1. Compared(B, Plus(p1, words), Plus(p2, words), rest - words, last)
          BY <2>5, <2>9, CompareBytesIs DEF last, B
        <5> QED
          BY <4>2, <5>1
      <4>4. Compared(B, s1, s2, L, last)
        <5>1. (head + words) + (rest - words) <= SIZE
          BY <1>0, <2>9
        <5>2. Compared(B, s1, s2, (head + words) + (rest - words), last)
          BY <2>9, <4>1, <4>3, <5>1, ComparedAlong
        <5> QED
          BY <2>9, <5>2
      <4>5. r.res = last /\ r.words = body.words
        BY <2>2, <2>11, <3>4
      <4> QED
        BY <2>8, <4>4, <4>5 DEF RightlyCompared, r, B
    <3> QED
      BY <3>3, <3>4
  <2> QED
    BY <2>10, <2>11
<1> QED
  BY <1>1, <1>2

-----------------------------------------------------------------------------
(* The operands and the texts to compare *)

\* The operands of memcmp() lie apart and differ from place k on.
OperandsApart(s1, s2, n, k, sign) ==
    /\ s1 \in Addr /\ s2 \in Addr /\ n \in Nat /\ 2 * n <= SIZE /\ k \in 0 .. n /\ sign \in {-1, 1}
    /\ n <= Minus(s2, s1) /\ n <= Minus(s1, s2)

\* The bytes of such operands.
LEMMA OperandsAre ==
    ASSUME NEW s1, NEW s2, NEW n, NEW k, NEW sign, OperandsApart(s1, s2, n, k, sign)
    PROVE  /\ Operands(s1, s2, n, k, sign).b \in [Addr -> Int] /\ Operands(s1, s2, n, k, sign).words = {}
           /\ \A i \in 0 .. n - 1 : Delta(Operands(s1, s2, n, k, sign).b, s1, s2, i) =
                                      IF i < k THEN 0 ELSE IF i = k THEN sign ELSE -sign
<1> DEFINE T == Operands(s1, s2, n, k, sign).b
<1>0. s1 \in Addr /\ s2 \in Addr /\ n \in Nat /\ 2 * n <= SIZE /\ k \in Nat /\ sign \in Int
      /\ n <= Minus(s2, s1) /\ n <= Minus(s1, s2) /\ SIZE \in Nat
  BY MemoryFunctionsAssumption DEF OperandsApart
<1>1. \A i : OperandByte(i, k, sign) \in Int
  BY <1>0 DEF OperandByte
<1>2. T \in [Addr -> Int]
  <2>1. ASSUME NEW a \in Addr
        PROVE  (CASE Within(a, s1, n) -> OperandByte(Minus(a, s1), k, sign)
                  [] ~Within(a, s1, n) /\ Within(a, s2, n) -> 5
                  [] OTHER -> IF a < s2 THEN 1 ELSE 9) \in Int
    BY <1>1
  <2> QED
    BY <2>1 DEF Operands
<1>3. \A a \in Addr : /\ Within(a, s1, n) => T[a] = OperandByte(Minus(a, s1), k, sign)
                      /\ ~ Within(a, s1, n) /\ Within(a, s2, n) => T[a] = 5
  BY DEF Operands
<1>4. Operands(s1, s2, n, k, sign).words = {}
  BY DEF Operands
<1> HIDE DEF T
<1>5. ASSUME NEW i \in 0 .. n - 1
      PROVE  Delta(T, s1, s2, i) = IF i < k THEN 0 ELSE IF i = k THEN sign ELSE -sign
  <2> DEFINE a == Plus(s1, i)
             c == Plus(s2, i)
  <2>1. Minus(s2, s1) + Minus(s1, s2) = SIZE /\ Minus(s2, s1) \in Nat /\ Minus(s1, s2) \in Nat
    <3>0. s1 \in 0 .. SIZE
      BY <1>0 DEF Addr
    <3>1. s1 # s2
      <4>1. Minus(s1, s1) = 0
        BY <1>0, <3>0, Ring DEF Addr
      <4> QED
        BY <1>0, <1>5, <4>1
    <3> QED
      BY <1>0, <3>1, Round
  <2>2. i \in Addr /\ i \in Nat /\ i < n /\ Minus(s2, s1) + i < SIZE
    BY <1>0, <1>5, <2>1 DEF Addr
  <2>3. a \in Addr /\ Minus(a, s1) = i /\ c \in Addr /\ Minus(c, s2) = i
    BY <1>0, <2>2, OffsetOf
  <2>4. Minus(c, s1) = Minus(s2, s1) + i
    BY <1>0, <2>2, Farther
  <2> HIDE DEF a, c
  <2>5. Within(a, s1, n) /\ ~ Within(c, s1, n) /\ Within(c, s2, n)
    BY <1>0, <2>1, <2>2, <2>3, <2>4 DEF Within
  <2>6. T[a] = OperandByte(i, k, sign) /\ T[c] = 5
    BY <1>3, <2>3, <2>5
  <2>7. OperandByte(i, k, sign) = IF i < k THEN 5 ELSE IF i = k THEN 5 + sign ELSE 5 - sign
    BY <1>0, <2>2 DEF OperandByte
  <2>8. Delta(T, s1, s2, i) = T[a] - T[c]
    BY DEF Delta, a, c
  <2> QED
    BY <1>0, <2>2, <2>6, <2>7, <2>8
<1> QED
  BY <1>2, <1>4, <1>5 DEF T

\* The first difference of such operands is at place k.
LEMMA OperandsCompared ==
    ASSUME NEW s1, NEW s2, NEW n, NEW k, NEW sign, OperandsApart(s1, s2, n, k, sign), NEW res,
           Compared(Operands(s1, s2, n, k, sign).b, s1, s2, n, res)
    PROVE  SignOfInt(res) = IF k < n THEN sign ELSE 0
<1> DEFINE B == Operands(s1, s2, n, k, sign).b
<1>0. n \in Nat /\ k \in Nat /\ k <= n /\ sign \in {-1, 1}
  BY DEF OperandsApart
<1>1. \A i \in 0 .. n - 1 : Delta(B, s1, s2, i) = IF i < k THEN 0 ELSE IF i = k THEN sign ELSE -sign
  BY OperandsAre
<1> HIDE DEF B
<1>2. CASE res = 0 /\ Same(B, s1, s2, n)
  <2>1. k < n => k \in 0 .. n - 1
    BY <1>0
  <2>2. ~(k < n)
    BY <1>0, <1>1, <1>2, <2>1 DEF Same
  <2> QED
    BY <1>2, <2>2 DEF SignOfInt
<1>3. CASE \E i \in 0 .. n - 1 : res = Delta(B, s1, s2, i) /\ res # 0 /\ Same(B, s1, s2, i)
  <2>1. PICK i \in 0 .. n - 1 : res = Delta(B, s1, s2, i) /\ res # 0 /\ Same(B, s1, s2, i)
    BY <1>3
  <2>2. ~(i < k)
    BY <1>1, <2>1
  <2>3. ~(k < i)
    <3>1. k < i => k \in 0 .. i - 1 /\ k \in 0 .. n - 1
      BY <1>0, <2>1
    <3> QED
      BY <1>0, <1>1, <2>1, <3>1 DEF Same
  <2>4. i = k /\ k < n
    BY <1>0, <2>1, <2>2, <2>3
  <2>5. res = sign
    BY <1>1, <2>1, <2>4
  <2> QED
    BY <1>0, <2>4, <2>5 DEF SignOfInt
<1> QED
  BY <1>2, <1>3 DEF Compared, B

\* The bytes of a text in memory are its characters, the end included.
LEMMA BytesOfText ==
    ASSUME NEW t \in Seq(Nat \ {NUL}), NEW i \in 0 .. Len(t)
    PROVE  Terminated(t)[i + 1] = At(t, i + 1) /\ (At(t, i + 1) = NUL <=> i = Len(t)) /\ At(t, i + 1) \in Nat
<1>1. /\ Len(t) \in Nat /\ \A j \in 1 .. Len(t) : t[j] # NUL
      /\ \A j \in 1 .. Len(t) : Terminated(t)[j] = t[j]
      /\ Terminated(t)[Len(t) + 1] = NUL
  BY TextIs
<1>2. t \in Seq(Nat) /\ i + 1 \in Nat
  BY <1>1
<1>3. /\ At(t, i + 1) \in Nat
      /\ i + 1 \in 1 .. Len(t) => At(t, i + 1) = t[i + 1]
      /\ i + 1 \notin 1 .. Len(t) => At(t, i + 1) = 0
  BY <1>2, AtIs
<1>4. CASE i = Len(t)
  <2>1. i + 1 \notin 1 .. Len(t)
    BY <1>1, <1>4
  <2> QED
    BY <1>1, <1>3, <1>4, <2>1 DEF NUL
<1>5. CASE i # Len(t)
  <2>1. i + 1 \in 1 .. Len(t)
    BY <1>1, <1>5
  <2> QED
    BY <1>1, <1>3, <1>5, <2>1 DEF NUL
<1> QED
  BY <1>4, <1>5

\* strncmp() answers by the first character that differs.
LEMMA StrncmpIs ==
    ASSUME NEW d, NEW t1, NEW s, NEW t2, NEW n, Apart(d, t1, s, t2, n)
    PROVE  SignOfInt(strncmp(TextMemory(d, t1, s, t2), d, s, n)) = FirstDifference(t1, t2, n)
<1> DEFINE T == TextMemory(d, t1, s, t2).b
<1>a. /\ TextMemory(d, t1, s, t2) = Memory(T, {}) /\ T = [a \in Addr |-> T[a]]
      /\ \A i \in 0 .. Len(t1) : T[Plus(d, i)] = Terminated(t1)[i + 1]
      /\ \A i \in 0 .. Len(t2) : T[Plus(s, i)] = Terminated(t2)[i + 1]
  BY TextsAre
<1> DEFINE D(i) == T[Plus(d, i)] - T[Plus(s, i)]
           Stop(i) == i = n \/ D(i) # 0 \/ T[Plus(d, i)] = NUL
           P(i) == Stop(i) /\ \A j \in 0 .. i - 1 : ~ Stop(j)
           z == CHOOSE i \in 0 .. n : P(i)
           S == {i \in 0 .. n : Stop(i)}
           res == strncmp(TextMemory(d, t1, s, t2), d, s, n)
           places == {i \in 1 .. n : At(t1, i) # At(t2, i)}
<1>0. t1 \in Seq(Nat \ {NUL}) /\ t2 \in Seq(Nat \ {NUL}) /\ n \in Nat /\ Len(t1) \in Nat /\ Len(t2) \in Nat
      /\ t1 \in Seq(Nat) /\ t2 \in Seq(Nat)
  BY DEF Apart
<1>1. /\ \A i \in 0 .. Len(t1) : /\ T[Plus(d, i)] = At(t1, i + 1) /\ At(t1, i + 1) \in Nat
                                 /\ At(t1, i + 1) = NUL <=> i = Len(t1)
      /\ \A i \in 0 .. Len(t2) : /\ T[Plus(s, i)] = At(t2, i + 1) /\ At(t2, i + 1) \in Nat
                                 /\ At(t2, i + 1) = NUL <=> i = Len(t2)
  <2> HIDE DEF T
  <2> QED
    BY <1>0, <1>a, BytesOfText
<1>2. PICK x \in S : \A y \in S : x <= y
  <2>1. S \subseteq Nat /\ n \in S
    BY <1>0
  <2> HIDE DEF S
  <2> QED
    BY <2>1, LeastNumber
<1>3. x \in 0 .. n /\ P(x)
  <2> HIDE DEF D, T
  <2>1. ASSUME NEW j \in 0 .. x - 1 PROVE ~ Stop(j)
    <3>1. j \in 0 .. n /\ ~(x <= j)
      BY <1>0, <1>2, <2>1
    <3> QED
      BY <1>2, <3>1
  <2> QED
    BY <1>2, <2>1
<1>4. z \in 0 .. n /\ P(z)
  <2> HIDE DEF P
  <2> QED
    BY <1>3
<1>5. res = IF z = n THEN 0 ELSE D(z)
  BY DEF strncmp, First
<1> HIDE DEF z, T, res
<1>6. z <= Len(t1)
  <2>1. SUFFICES ASSUME Len(t1) < z PROVE FALSE
    BY <1>0, <1>4
  <2>2. Len(t1) \in 0 .. z - 1 /\ Len(t1) \in 0 .. Len(t1)
    BY <1>0, <1>4, <2>1
  <2>3. T[Plus(d, Len(t1))] = NUL
    BY <1>1, <2>2
  <2> QED
    BY <1>4, <2>2, <2>3
<1>7. z <= Len(t2)
  <2>1. SUFFICES ASSUME Len(t2) < z PROVE FALSE
    BY <1>0, <1>4
  <2> DEFINE j == Len(t2)
  <2>2. j \in 0 .. z - 1 /\ j \in 0 .. Len(t1) /\ j \in 0 .. Len(t2)
    BY <1>0, <1>4, <1>6, <2>1
  <2>3. D(j) = 0 /\ T[Plus(d, j)] # NUL
    BY <1>4, <2>2
  <2>4. T[Plus(s, j)] = NUL /\ T[Plus(d, j)] \in Nat
    BY <1>1, <2>2
  <2> QED
    BY <2>3, <2>4 DEF NUL
<1>8. \A i \in 0 .. z - 1 : At(t1, i + 1) = At(t2, i + 1)
  <2> TAKE i \in 0 .. z - 1
  <2>1. i \in 0 .. Len(t1) /\ i \in 0 .. Len(t2) /\ ~ Stop(i)
    BY <1>0, <1>4, <1>6, <1>7
  <2>2. T[Plus(d, i)] = At(t1, i + 1) /\ T[Plus(s, i)] = At(t2, i + 1) /\ At(t1, i + 1) \in Nat /\ At(t2, i + 1) \in Nat
    BY <1>1, <2>1
  <2> QED
    BY <2>1, <2>2
<1>9. \A i \in 1 .. z : At(t1, i) = At(t2, i)
  <2> TAKE i \in 1 .. z
  <2>1. i - 1 \in 0 .. z - 1 /\ (i - 1) + 1 = i
    BY <1>4
  <2> QED
    BY <1>8, <2>1
<1>10. FirstDifference(t1, t2, n) = IF places = {} THEN 0
         ELSE LET i == CHOOSE i \in places : \A j \in places : i <= j
              IN  SignOfInt(At(t1, i) - At(t2, i))
  BY DEF FirstDifference
<1>11. CASE z = n
  <2>1. places = {}
    BY <1>9, <1>11
  <2> HIDE DEF places
  <2>2. res = 0
    BY <1>5, <1>11
  <2> QED
    BY <1>10, <2>1, <2>2 DEF SignOfInt, res
<1>12. CASE z # n
  <2>1. z \in 0 .. Len(t1) /\ z \in 0 .. Len(t2) /\ z + 1 \in 1 .. n
    BY <1>0, <1>4, <1>6, <1>7, <1>12
  <2>2. /\ T[Plus(d, z)] = At(t1, z + 1) /\ T[Plus(s, z)] = At(t2, z + 1)
        /\ At(t1, z + 1) \in Nat /\ At(t2, z + 1) \in Nat
        /\ At(t1, z + 1) = NUL <=> z = Len(t1)
        /\ At(t2, z + 1) = NUL <=> z = Len(t2)
    BY <1>1, <2>1
  <2>3. res = At(t1, z + 1) - At(t2, z + 1) /\ (res # 0 \/ At(t1, z + 1) = NUL)
    BY <1>4, <1>5, <1>12, <2>2
  <2>4. CASE res # 0
    <3>1. z + 1 \in places /\ \A j \in places : z + 1 <= j
      <4>1. At(t1, z + 1) # At(t2, z + 1)
        BY <2>2, <2>3, <2>4
      <4>2. ASSUME NEW j \in places PROVE z + 1 <= j
        <5>1. j \notin 1 .. z /\ j \in 1 .. n
          BY <1>9, <4>2
        <5> QED
          BY <1>4, <5>1
      <4> QED
        BY <2>1, <4>1, <4>2
    <3> DEFINE c == CHOOSE i \in places : \A j \in places : i <= j
    <3>2. places \subseteq Nat
      OBVIOUS
    <3> HIDE DEF places
    <3>3. c \in places /\ \A j \in places : c <= j
      BY <3>1
    <3>4. FirstDifference(t1, t2, n) = SignOfInt(At(t1, c) - At(t2, c))
      BY <1>10, <3>1
    <3> HIDE DEF c
    <3>5. c = z + 1
      BY <1>4, <3>1, <3>2, <3>3
    <3> QED
      BY <2>3, <3>4, <3>5 DEF res
  <2>5. CASE res = 0
    <3>1. z = Len(t1) /\ z = Len(t2)
      BY <2>2, <2>3, <2>5 DEF NUL
    <3>2. ASSUME NEW i \in 1 .. n PROVE At(t1, i) = At(t2, i)
      <4>1. CASE i \in 1 .. z
        BY <1>9, <4>1
      <4>2. CASE i \notin 1 .. z
        <5>1. i \in Nat /\ i \notin 1 .. Len(t1) /\ i \notin 1 .. Len(t2)
          BY <1>0, <3>1, <3>2, <4>2
        <5>2. At(t1, i) = 0 /\ At(t2, i) = 0
          BY <1>0, <5>1, AtIs
        <5> QED
          BY <5>2
      <4> QED
        BY <4>1, <4>2
    <3>3. places = {}
      BY <3>2
    <3> HIDE DEF places
    <3> QED
      BY <1>10, <2>5, <3>3 DEF SignOfInt, res
  <2> QED
    BY <2>4, <2>5
<1> QED
  BY <1>11, <1>12

\* strcmp() answers zero for equal strings.
LEMMA StrcmpIs ==
    ASSUME NEW d, NEW t, NEW s, NEW n, Apart(d, t, s, t, n)
    PROVE  strcmp(TextMemory(d, t, s, t), d, s) = 0
<1> DEFINE T == TextMemory(d, t, s, t).b
<1>a. /\ TextMemory(d, t, s, t) = Memory(T, {}) /\ T = [a \in Addr |-> T[a]]
      /\ \A i \in 0 .. Len(t) : T[Plus(d, i)] = Terminated(t)[i + 1]
      /\ \A i \in 0 .. Len(t) : T[Plus(s, i)] = Terminated(t)[i + 1]
  BY TextsAre
<1> DEFINE Differ(i) == T[Plus(d, i)] # T[Plus(s, i)]
           Stop(i) == Differ(i) \/ T[Plus(d, i)] = NUL
           P(i) == Stop(i) /\ \A j \in 0 .. i - 1 : ~ Stop(j)
           z == CHOOSE i \in 0 .. SIZE - 1 : P(i)
<1>0. t \in Seq(Nat \ {NUL}) /\ Len(t) \in Nat /\ Len(t) + 1 <= Minus(d, s) /\ d \in Addr /\ s \in Addr
  BY DEF Apart
<1>1. Len(t) \in 0 .. SIZE - 1
  <2>1. SIZE \in Nat /\ s \in 0 .. SIZE
    BY <1>0, MemoryFunctionsAssumption DEF Addr
  <2>2. Minus(d, s) \in Addr
    BY <1>0, <2>1, Ring
  <2> QED
    BY <1>0, <2>1, <2>2 DEF Addr
<1>2. \A i \in 0 .. Len(t) : ~ Differ(i) /\ (T[Plus(d, i)] = NUL <=> i = Len(t))
  <2> HIDE DEF T
  <2>1. \A i \in 0 .. Len(t) : Terminated(t)[i + 1] = NUL <=> i = Len(t)
    BY <1>0, BytesOfText
  <2> QED
    BY <1>a, <2>1
<1>3. P(Len(t))
  <2> HIDE DEF Differ, T
  <2>1. Len(t) \in 0 .. Len(t) /\ \A j \in 0 .. Len(t) - 1 : j \in 0 .. Len(t) /\ j # Len(t)
    BY <1>0
  <2> QED
    BY <1>2, <2>1
<1>4. z \in 0 .. SIZE - 1 /\ P(z)
  <2> HIDE DEF P
  <2> QED
    BY <1>1, <1>3
<1>5. strcmp(TextMemory(d, t, s, t), d, s) = IF Differ(z) /\ T[Plus(d, z)] < T[Plus(s, z - 1)] THEN 1 ELSE 0
  BY DEF strcmp, First
<1> HIDE DEF z, Differ, T
<1>6. z <= Len(t)
  <2>1. SUFFICES ASSUME Len(t) < z PROVE FALSE
    BY <1>0, <1>4
  <2>2. Len(t) \in 0 .. z - 1 /\ Stop(Len(t))
    BY <1>0, <1>3, <1>4, <2>1
  <2> QED
    BY <1>4, <2>2
<1>7. ~ Differ(z)
  BY <1>0, <1>2, <1>4, <1>6
<1> QED
  BY <1>5, <1>7

-----------------------------------------------------------------------------
(* The calls that compare *)

\* What the property says of a call and its result.
ComparisonAgrees(c, r) ==
    /\ c.fn = "memcmp" => \A w \in r.words : Touches(w, c.s1, c.n) \/ Touches(w, c.s2, c.n)
    /\ c.fn = "memcmp" => SignOfInt(r.res) = IF c.k < c.n THEN c.sign ELSE 0
    /\ c.fn = "strncmp" => SignOfInt(r.res) = FirstDifference(c.t1, c.t2, c.n)
    /\ c.fn = "strcmp" /\ c.t1 = c.t2 => r.res = 0

\* It is the property, before a step and after it.
LEMMA ComparesAgreeIs ==
    /\ ComparisonAgrees(call, result) => ComparesAgree
    /\ ComparisonAgrees(call', result') => ComparesAgree'
  BY DEF ComparesAgree, ComparisonAgrees

\* The calls that compare nothing.
LEMMA NoComparison ==
    ASSUME call'.fn \in {"none", "memcpy", "memmove", "memset", "strcpy", "strcat", "strncpy", "strncat",
                         "strtol", "strtoul", "strtoll", "strtoull", "atol", "atoll", "atoi", "atou",
                         "snprintf", "cut"}
    PROVE  ComparesAgree'
<1>1. call'.fn # "memcmp" /\ call'.fn # "strncmp" /\ call'.fn # "strcmp"
  OBVIOUS
<1>2. ComparisonAgrees(call', result')
  BY <1>1 DEF ComparisonAgrees
<1> QED
  BY <1>2, ComparesAgreeIs

\* A call of memcmp().
LEMMA MemcmpAgrees ==
    ASSUME Memcmp PROVE ComparesAgree'
<1>1. PICK s1 \in LeftOperands, s2 \in RightOperands, n \in CompareLengths, sign \in {-1, 1} :
        \E k \in 0 .. n : Call([fn |-> "memcmp", s1 |-> s1, s2 |-> s2, n |-> n, k |-> k, sign |-> sign],
                               memcmp(Operands(s1, s2, n, k, sign), s1, s2, n))
  BY DEF Memcmp
<1>2. PICK k \in 0 .. n : Call([fn |-> "memcmp", s1 |-> s1, s2 |-> s2, n |-> n, k |-> k, sign |-> sign],
                               memcmp(Operands(s1, s2, n, k, sign), s1, s2, n))
  BY <1>1
<1> DEFINE m == Operands(s1, s2, n, k, sign)
           r == memcmp(m, s1, s2, n)
           c == [fn |-> "memcmp", s1 |-> s1, s2 |-> s2, n |-> n, k |-> k, sign |-> sign]
<1>3. OperandsApart(s1, s2, n, k, sign)
  BY CallersAssumption DEF OperandsApart
<1>4. m.b \in [Addr -> Int] /\ m.words = {} /\ s1 \in Addr /\ s2 \in Addr /\ n \in Nat /\ 2 * n <= SIZE
  BY <1>3, OperandsAre DEF OperandsApart
<1>5. c.fn = "memcmp" /\ c.s1 = s1 /\ c.s2 = s2 /\ c.n = n /\ c.k = k /\ c.sign = sign
  OBVIOUS
<1>6. call' = c /\ result' = r
  BY <1>2 DEF Call
<1> HIDE DEF c, r, m
<1>7. RightlyCompared(memcmp(m, s1, s2, n), m.b, s1, s2, n)
  BY <1>4, MemcmpRight
<1>8. Compared(m.b, s1, s2, n, r.res) /\ \A w \in r.words : Touches(w, s1, n) \/ Touches(w, s2, n)
  BY <1>7 DEF RightlyCompared, r
<1>9. SignOfInt(r.res) = IF k < n THEN sign ELSE 0
  BY <1>3, <1>8, OperandsCompared DEF m
<1>10. ComparisonAgrees(c, r)
  BY <1>5, <1>8, <1>9 DEF ComparisonAgrees
<1> QED
  BY <1>6, <1>10, ComparesAgreeIs

\* A call of one of the string functions.
LEMMA StringsCompare ==
    ASSUME Strings PROVE ComparesAgree'
<1>1. PICK d \in TextDests, s \in TextSrcs, t1 \in Texts, t2 \in Texts, n \in Counts :
        \/ \E fn \in {"strcpy", "strcat", "strncpy", "strncat"} : \E r : Call(StringCall(fn, d, t1, s, t2, n), r)
        \/ Call(StringCall("strcmp", d, t1, s, t2, n), [res |-> strcmp(TextMemory(d, t1, s, t2), d, s)])
        \/ Call(StringCall("strncmp", d, t1, s, t2, n), [res |-> strncmp(TextMemory(d, t1, s, t2), d, s, n)])
  <2>1. PICK d \in TextDests, s \in TextSrcs, t1 \in Texts, t2 \in Texts, n \in Counts :
        \/ Call(StringCall("strcpy", d, t1, s, t2, n), strcpy(TextMemory(d, t1, s, t2), d, s))
        \/ Call(StringCall("strcat", d, t1, s, t2, n), strcat(TextMemory(d, t1, s, t2), d, s))
        \/ Call(StringCall("strncpy", d, t1, s, t2, n), strncpy(TextMemory(d, t1, s, t2), d, s, n))
        \/ Call(StringCall("strncat", d, t1, s, t2, n), strncat(TextMemory(d, t1, s, t2), d, s, n))
        \/ Call(StringCall("strcmp", d, t1, s, t2, n), [res |-> strcmp(TextMemory(d, t1, s, t2), d, s)])
        \/ Call(StringCall("strncmp", d, t1, s, t2, n), [res |-> strncmp(TextMemory(d, t1, s, t2), d, s, n)])
    BY DEF Strings
  <2> QED
    BY <2>1
<1>2. Apart(d, t1, s, t2, n)
  BY CallersAssumption DEF Apart
<1>3. \A fn : /\ StringCall(fn, d, t1, s, t2, n).fn = fn /\ StringCall(fn, d, t1, s, t2, n).t1 = t1
              /\ StringCall(fn, d, t1, s, t2, n).t2 = t2 /\ StringCall(fn, d, t1, s, t2, n).n = n
  BY DEF StringCall
<1>4. ASSUME NEW fn \in {"strcpy", "strcat", "strncpy", "strncat"}, NEW r, Call(StringCall(fn, d, t1, s, t2, n), r)
      PROVE  ComparesAgree'
  <2>1. call'.fn = fn
    BY <1>3, <1>4 DEF Call
  <2> QED
    BY <1>4, <2>1, NoComparison
<1>5. ASSUME Call(StringCall("strcmp", d, t1, s, t2, n), [res |-> strcmp(TextMemory(d, t1, s, t2), d, s)])
      PROVE  ComparesAgree'
  <2>1. /\ call'.fn = "strcmp" /\ call'.t1 = t1 /\ call'.t2 = t2
        /\ result'.res = strcmp(TextMemory(d, t1, s, t2), d, s)
    BY <1>3, <1>5 DEF Call
  <2>2. t1 = t2 => result'.res = 0
    BY <1>2, <2>1, StrcmpIs
  <2>3. ComparisonAgrees(call', result')
    BY <2>1, <2>2 DEF ComparisonAgrees
  <2> QED
    BY <2>3, ComparesAgreeIs
<1>6. ASSUME Call(StringCall("strncmp", d, t1, s, t2, n), [res |-> strncmp(TextMemory(d, t1, s, t2), d, s, n)])
      PROVE  ComparesAgree'
  <2>1. /\ call'.fn = "strncmp" /\ call'.t1 = t1 /\ call'.t2 = t2 /\ call'.n = n
        /\ result'.res = strncmp(TextMemory(d, t1, s, t2), d, s, n)
    BY <1>3, <1>6 DEF Call
  <2>2. SignOfInt(result'.res) = FirstDifference(t1, t2, n)
    BY <1>2, <2>1, StrncmpIs
  <2>3. ComparisonAgrees(call', result')
    BY <2>1, <2>2 DEF ComparisonAgrees
  <2> QED
    BY <2>3, ComparesAgreeIs
<1> QED
  BY <1>1, <1>4, <1>5, <1>6

\* memcmp answers by the first byte that differs and reads no word without a byte
\* of an operand, wherever that byte lies with respect to the words and to the
\* place at which the unrolled loop is entered: for every size of a word and of
\* the address space, every alignment and every length up to half of the address
\* space; strncmp answers by the first character that differs, strcmp 0 for equal
\* strings (libc/string/memcmp.c, strcmp.c).
THEOREM ComparesRight == Spec => []ComparesAgree
<1>1. Init => ComparesAgree
  <2> SUFFICES ASSUME Init PROVE ComparesAgree
    OBVIOUS
  <2>1. call.fn = "none"
    BY DEF Init, Idle
  <2>2. ComparisonAgrees(call, result)
    BY <2>1 DEF ComparisonAgrees
  <2> QED
    BY <2>2, ComparesAgreeIs
<1>2. ComparesAgree /\ [Next]_vars => ComparesAgree'
  <2> SUFFICES ASSUME ComparesAgree, [Next]_vars PROVE ComparesAgree'
    OBVIOUS
  <2>1. CASE Memcmp
    BY <2>1, MemcmpAgrees
  <2>2. CASE Strings
    BY <2>2, StringsCompare
  <2>3. CASE Memcpy
    <3>1. call'.fn = "memcpy"
      BY <2>3 DEF Memcpy, Call
    <3> QED
      BY <3>1, NoComparison
  <2>4. CASE Memmove
    <3>1. call'.fn = "memmove"
      BY <2>4 DEF Memmove, Call
    <3> QED
      BY <3>1, NoComparison
  <2>5. CASE Memset
    <3>1. call'.fn = "memset"
      BY <2>5 DEF Memset, Call
    <3> QED
      BY <3>1, NoComparison
  <2>6. CASE Snprintf
    <3>1. call'.fn = "snprintf"
      BY <2>6 DEF Snprintf, Call
    <3> QED
      BY <3>1, NoComparison
  <2>7. CASE SnprintfCut
    <3>1. call'.fn = "cut"
      BY <2>7 DEF SnprintfCut, Call
    <3> QED
      BY <3>1, NoComparison
  <2>8. CASE Return
    <3>1. call'.fn = "none"
      BY <2>8 DEF Return, Idle
    <3> QED
      BY <3>1, NoComparison
  <2>9. CASE Numbers
    <3>1. call'.fn \in {"strtol", "strtoul", "strtoll", "strtoull", "atol", "atoll", "atoi", "atou"}
      BY <2>9 DEF Numbers, Call
    <3> QED
      BY <3>1, NoComparison
  <2>10. CASE UNCHANGED vars
    BY <2>10 DEF vars, ComparesAgree
  <2> QED
    BY <2>1, <2>2, <2>3, <2>4, <2>5, <2>6, <2>7, <2>8, <2>9, <2>10 DEF Next
<1> QED
  BY <1>1, <1>2, PTL DEF Spec
=============================================================================
