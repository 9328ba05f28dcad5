-------------------------- MODULE MemoryFunctions --------------------------
(***************************************************************************)
(* The memory functions of the kernel's C library: memcpy, memmove,        *)
(* memset and memcmp with the word loops they share (libc/string/).        *)
(*                                                                         *)
(* The address space is the numbers 0 .. SIZE - 1 and every pointer and    *)
(* every size_t is computed modulo SIZE, so that a count that runs below   *)
(* zero goes on as it does in the code.  A word is the function of its     *)
(* OPSIZ bytes, least significant first: MERGE, two shifts and an or of    *)
(* little-endian words, is then a choice of bytes.                         *)
(*                                                                         *)
(* A memory is a record: b holds the bytes, and words the addresses of the *)
(* words that were read as words, the only reads that can pass the ends of *)
(* the operands.                                                           *)
(***************************************************************************)
EXTENDS Loops

CONSTANTS
  SIZE,          \* 2^64 in the code: one more than the largest size_t
  OPSIZ,         \* sizeof(op_t), 8 in the code
  OP_T_THRES,    \* 16 in the code: shorter operands are handled byte by byte
  MEMSET_THRES   \* the literal 8 of memset

ASSUME MemoryFunctionsAssumption ==
  /\ {SIZE, OPSIZ, OP_T_THRES, MEMSET_THRES} \subseteq Nat \ {0}
  /\ SIZE % OPSIZ = 0            \* both are powers of two in the code
  /\ 2 * OPSIZ <= SIZE
  /\ OP_T_THRES <= 3 * OPSIZ     \* the constant condition memcmp tests
  /\ OP_T_THRES >= 2 * OPSIZ

Addr == 0 .. SIZE - 1

\* size_t and uintptr_t arithmetic.
Plus(a, n) == (a + n) % SIZE
Minus(a, n) == (a - n) % SIZE
RoundDown(n) == n - (n % OPSIZ)

Word(m, p) == [i \in 0 .. OPSIZ - 1 |-> m.b[Plus(p, i)]]
Reading(m, ps) == [m EXCEPT !.words = @ \cup ps]
StoreByte(m, p, x) == [m EXCEPT !.b[p] = x]
StoreWord(m, p, w) ==
  [m EXCEPT !.b = [a \in Addr |-> IF Minus(a, p) < OPSIZ THEN w[Minus(a, p)] ELSE @[a]]]

\* The word that starts `off` bytes into w0 and ends in w1.
MERGE(w0, w1, off) ==
  [i \in 0 .. OPSIZ - 1 |-> IF i + off < OPSIZ THEN w0[i + off] ELSE w1[i + off - OPSIZ]]

----------------------------------------------------------------------------
(***************************************************************************)
(* The byte loops.  Forwards the pointers are those of the next byte,      *)
(* backwards those of the byte after it; the k-th turn is k bytes on.      *)
(***************************************************************************)
BYTE_COPY_FWD(m, d, s, n) ==
  LET Turn(now, k) == StoreByte(now, Plus(d, k - 1), now.b[Plus(s, k - 1)])
  IN  Loop(Turn, m, n)

BYTE_COPY_BWD(m, d, s, n) ==
  LET Turn(now, k) == StoreByte(now, Minus(d, k), now.b[Minus(s, k)])
  IN  Loop(Turn, m, n)

(***************************************************************************)
(* The word loops take an odd word first and go on in pairs, both words of *)
(* a pair read before either is written.  The pairs are a do-while: with   *)
(* no word to copy the count passes zero.                                  *)
(***************************************************************************)
Pairs(n) == Minus(n, 2) \div 2 + 1

\* The bytes in the pairs before the k-th.
Before(k) == 2 * (k - 1) * OPSIZ

FwdAlignedPairs(m, d, s, n) ==
  LET Turn(now, k) ==
        LET at == Before(k)
            s0 == Plus(s, at)
            s1 == Plus(s, at + OPSIZ)
            m1 == StoreWord(Reading(now, {s0, s1}), Plus(d, at), Word(now, s0))
        IN  StoreWord(m1, Plus(d, at + OPSIZ), Word(now, s1))
  IN  Loop(Turn, m, Pairs(n))

wordcopy_fwd_aligned(m, d, s, n) ==
  LET m1 == StoreWord(Reading(m, {s}), d, Word(m, s))
  IN  CASE n = 1     -> m1
        [] n # 1 /\ n % 2 = 1 -> FwdAlignedPairs(m1, Plus(d, OPSIZ), Plus(s, OPSIZ), n - 1)
        [] OTHER     -> FwdAlignedPairs(m, d, s, n)

\* a0, the word at s, is carried from one pair to the next: by then its
\* memory may have been overwritten.
FwdDestAlignedPairs(m, d, s, a0, off, n) ==
  LET Turn(now, k) ==
        LET at == Before(k)
            s1 == Plus(s, at + OPSIZ)
            s2 == Plus(s, at + 2 * OPSIZ)
            a1 == Word(now.m, s1)
            a2 == Word(now.m, s2)
            m1 == StoreWord(Reading(now.m, {s1, s2}), Plus(d, at), MERGE(now.a, a1, off))
        IN  [m |-> StoreWord(m1, Plus(d, at + OPSIZ), MERGE(a1, a2, off)), a |-> a2]
  IN  Loop(Turn, [m |-> m, a |-> a0], Pairs(n)).m

wordcopy_fwd_dest_aligned(m, d, srcp, n) ==
  LET off == srcp % OPSIZ
      s   == RoundDown(srcp)
      s1  == Plus(s, OPSIZ)
      m0  == Reading(m, {s})
      m1  == StoreWord(Reading(m0, {s1}), d, MERGE(Word(m, s), Word(m, s1), off))
  IN  CASE n = 1     -> m1
        [] n # 1 /\ n % 2 = 1 -> FwdDestAlignedPairs(m1, Plus(d, OPSIZ), s1, Word(m, s1), off, n - 1)
        [] OTHER     -> FwdDestAlignedPairs(m0, d, s, Word(m, s), off, n)

BwdAlignedPairs(m, d, s, n) ==
  LET Turn(now, k) ==
        LET at == Before(k)
            s1 == Minus(s, at + OPSIZ)
            s0 == Minus(s, at + 2 * OPSIZ)
            m1 == StoreWord(Reading(now, {s0, s1}), Minus(d, at + OPSIZ), Word(now, s1))
        IN  StoreWord(m1, Minus(d, at + 2 * OPSIZ), Word(now, s0))
  IN  Loop(Turn, m, Pairs(n))

wordcopy_bwd_aligned(m, d, s, n) ==
  LET s1 == Minus(s, OPSIZ)
      m1 == StoreWord(Reading(m, {s1}), Minus(d, OPSIZ), Word(m, s1))
  IN  CASE n = 1     -> m1
        [] n # 1 /\ n % 2 = 1 -> BwdAlignedPairs(m1, Minus(d, OPSIZ), s1, n - 1)
        [] OTHER     -> BwdAlignedPairs(m, d, s, n)

BwdDestAlignedPairs(m, d, s, a2, off, n) ==
  LET Turn(now, k) ==
        LET at == Before(k)
            s1 == Minus(s, at + OPSIZ)
            s0 == Minus(s, at + 2 * OPSIZ)
            a1 == Word(now.m, s1)
            a0 == Word(now.m, s0)
            m1 == StoreWord(Reading(now.m, {s0, s1}), Minus(d, at + OPSIZ), MERGE(a1, now.a, off))
        IN  [m |-> StoreWord(m1, Minus(d, at + 2 * OPSIZ), MERGE(a0, a1, off)), a |-> a0]
  IN  Loop(Turn, [m |-> m, a |-> a2], Pairs(n)).m

wordcopy_bwd_dest_aligned(m, d, srcp, n) ==
  LET off == srcp % OPSIZ
      s   == RoundDown(srcp)
      s1  == Minus(s, OPSIZ)
      m0  == Reading(m, {s})
      m1  == StoreWord(Reading(m0, {s1}), Minus(d, OPSIZ), MERGE(Word(m, s1), Word(m, s), off))
  IN  CASE n = 1     -> m1
        [] n # 1 /\ n % 2 = 1 -> BwdDestAlignedPairs(m1, Minus(d, OPSIZ), s1, Word(m, s1), off, n - 1)
        [] OTHER     -> BwdDestAlignedPairs(m0, d, s, Word(m, s), off, n)

WORD_COPY_FWD(m, d, s, n) ==
  IF s % OPSIZ = 0 THEN wordcopy_fwd_aligned(m, d, s, n \div OPSIZ)
                   ELSE wordcopy_fwd_dest_aligned(m, d, s, n \div OPSIZ)

WORD_COPY_BWD(m, d, s, n) ==
  IF s % OPSIZ = 0 THEN wordcopy_bwd_aligned(m, d, s, n \div OPSIZ)
                   ELSE wordcopy_bwd_dest_aligned(m, d, s, n \div OPSIZ)

----------------------------------------------------------------------------
\* Bytes until dest is aligned, words, and the bytes that are left.
memcpy(m, dest, src, length) ==
  IF length < OP_T_THRES THEN BYTE_COPY_FWD(m, dest, src, length)
  ELSE LET head  == Minus(0, dest) % OPSIZ
           rest  == length - head
           words == RoundDown(rest)
           m1    == BYTE_COPY_FWD(m, dest, src, head)
           m2    == WORD_COPY_FWD(m1, Plus(dest, head), Plus(src, head), rest)
       IN  BYTE_COPY_FWD(m2, Plus(dest, head + words), Plus(src, head + words), rest - words)

\* Mutant: memmove that always copies forwards.
memmove_NoBackward(m, dest, src, length) == memcpy(m, dest, src, length)

\* The same from the end, where a forward copy would overwrite bytes of src
\* that it has still to read; the test is one unsigned comparison.
memmove(m, dest, src, length) ==
  LET dend == Plus(dest, length)
      send == Plus(src, length)
  IN  CASE Minus(dest, src) >= length -> memcpy(m, dest, src, length)
        [] Minus(dest, src) < length /\ length < OP_T_THRES -> BYTE_COPY_BWD(m, dend, send, length)
        [] OTHER ->
             LET tail  == dend % OPSIZ
                 rest  == length - tail
                 words == RoundDown(rest)
                 m1    == BYTE_COPY_BWD(m, dend, send, tail)
                 m2    == WORD_COPY_BWD(m1, Minus(dend, tail), Minus(send, tail), rest)
             IN  BYTE_COPY_BWD(m2, Minus(dend, tail + words), Minus(send, tail + words),
                               rest - words)

(***************************************************************************)
(* memset fills bytes until the pointer is aligned, then words, eight and  *)
(* one at a time, then bytes.  The first loop decrements len, which is     *)
(* assigned afterwards, where length is meant: the bytes it has filled are *)
(* counted again.                                                          *)
(***************************************************************************)
Fill(m, p, c, n) == [m EXCEPT !.b = [a \in Addr |-> IF Minus(a, p) < n THEN c ELSE @[a]]]

memset(m, dest, c, length) ==
  IF length < MEMSET_THRES THEN Fill(m, dest, c, length)
  ELSE LET head   == Minus(0, dest) % OPSIZ
           blocks == (length \div (OPSIZ * 8)) * OPSIZ * 8
           words  == RoundDown(length % (OPSIZ * 8))
           tail   == (length % (OPSIZ * 8)) % OPSIZ
       IN  Fill(m, dest, c, head + blocks + words + tail)

----------------------------------------------------------------------------
(***************************************************************************)
(* memcmp.  A comparison is a record: res is the result, 0 for equal       *)
(* operands, and words the words that were read.                           *)
(***************************************************************************)
CompareBytes(m, s1, s2, n) ==
  LET Difference(i) == m.b[Plus(s1, i)] - m.b[Plus(s2, i)]
      Stop(i) == i = n \/ Difference(i) # 0
      i == First(0, n, Stop)
  IN  IF i = n THEN 0 ELSE Difference(i)

\* Mutant: the words are compared as little-endian numbers.
memcmp_bytes_LastByte(a, b) ==
  LET i == CHOOSE i \in 0 .. OPSIZ - 1 : a[i] # b[i] /\ \A j \in i + 1 .. OPSIZ - 1 : a[j] = b[j]
  IN  a[i] - b[i]

\* The first byte that differs decides; the words do differ.
memcmp_bytes(a, b) ==
  LET i == CHOOSE i \in 0 .. OPSIZ - 1 : a[i] # b[i] /\ \A j \in 0 .. i - 1 : a[j] = b[j]
  IN  a[i] - b[i]

CMP_WORDS(a, b) == IF a = b THEN 0 ELSE memcmp_bytes(a, b)

(***************************************************************************)
(* The loop is unrolled four times, each of its four places reading the    *)
(* next words before the ones read last are compared, and is entered at    *)
(* the place the number of words calls for: the pointers are moved so that *)
(* place k reads the words at index k.  Here n is the code's len, p and q  *)
(* are the last two words of the first operand and b the last of the       *)
(* second; off is where the first operand starts in its words.  In its     *)
(* j-th turn the loop compares X(j) with B(j); it is left when they differ *)
(* or behind the last place, where len reaches zero.                       *)
(***************************************************************************)
LoopPlace(n) == (1 - n) % 4     \* 0: top of the loop, 1: do3, 2: do2, 3: do1

LastWord(p, q, off) == IF off = 0 THEN q ELSE MERGE(p, q, off)

CompareLoop(m, s1, s2, n, k, p, q, b, off) ==
  LET Place(j) == (k + j - 1) % 4
      Round(j) == (k + j - 1) \div 4
      At1(j)   == Plus(s1, (4 * Round(j) + Place(j)) * OPSIZ)
      At2(j)   == Plus(s2, (4 * Round(j) + Place(j)) * OPSIZ)
      A(j)     == IF j = 0 THEN p ELSE IF j = 1 THEN q ELSE Word(m, At1(j - 1))
      B(j)     == IF j = 1 THEN b ELSE Word(m, At2(j - 1))
      X(j)     == LastWord(A(j - 1), A(j), off)
      Stop(j)  == X(j) # B(j) \/ (Place(j) = 3 /\ Minus(n, 4 * (Round(j) + 1)) = 0)
      last     == First(1, n, Stop)
  IN  [res   |-> IF X(last) # B(last) THEN memcmp_bytes(X(last), B(last))
                 ELSE CMP_WORDS(X(last + 1), B(last + 1)),
       words |-> m.words \cup {At1(j) : j \in 1 .. last} \cup {At2(j) : j \in 1 .. last}]

memcmp_common_alignment(m, s1, s2, n) ==
  LET k   == LoopPlace(n)
      now == Reading(m, {s1, s2})
  IN  CASE n = 0 -> [res |-> 0, words |-> m.words]
        [] n = 1 -> [res |-> CMP_WORDS(Word(m, s1), Word(m, s2)), words |-> now.words]
        [] OTHER -> CompareLoop(now, Plus(s1, (1 - k) * OPSIZ), Plus(s2, (1 - k) * OPSIZ),
                                n + k - 1, k, Word(m, s1), Word(m, s1), Word(m, s2), 0)

memcmp_not_common_alignment(m, srcp1, s2, n) ==
  LET k   == LoopPlace(n)
      off == srcp1 % OPSIZ
      s1  == RoundDown(srcp1)
      q1  == Plus(s1, OPSIZ)
      now == Reading(m, {s1, q1, s2})
  IN  CASE n = 0 -> [res |-> 0, words |-> m.words]
        [] n = 1 -> [res   |-> CMP_WORDS(MERGE(Word(m, s1), Word(m, q1), off), Word(m, s2)),
                     words |-> now.words]
        [] OTHER -> CompareLoop(now, Plus(s1, (2 - k) * OPSIZ), Plus(s2, (1 - k) * OPSIZ),
                                n + k - 1, k, Word(m, s1), Word(m, q1), Word(m, s2), off)

memcmp(m, s1, s2, len) ==
  LET Bytes(words, p1, p2, n) == [res |-> CompareBytes(m, p1, p2, n), words |-> words]
      head == Minus(0, s2) % OPSIZ
      p1   == Plus(s1, head)
      p2   == Plus(s2, head)
      rest == len - head
      n    == rest \div OPSIZ
      first == CompareBytes(m, s1, s2, head)
      body  == IF p1 % OPSIZ = 0 THEN memcmp_common_alignment(m, p1, p2, n)
                                 ELSE memcmp_not_common_alignment(m, p1, p2, n)
  IN  CASE len < OP_T_THRES -> Bytes(m.words, s1, s2, len)
        [] len >= OP_T_THRES /\ first # 0 -> [res |-> first, words |-> m.words]
        [] len >= OP_T_THRES /\ first = 0 /\ body.res # 0 -> body
        [] OTHER -> Bytes(body.words, Plus(p1, RoundDown(rest)), Plus(p2, RoundDown(rest)),
                          rest % OPSIZ)
============================================================================
