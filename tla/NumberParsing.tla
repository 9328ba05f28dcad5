--------------------------- MODULE NumberParsing ---------------------------
(***************************************************************************)
(* Reading numbers: strtol, strtoll, strtoul and strtoull of the kernel's  *)
(* C library, atou, and the classes of characters they use (libc/stdlib/,  *)
(* libc/ctype.c).                                                          *)
(*                                                                         *)
(* A string is the sequence of its character codes without the terminating *)
(* zero, a pointer into it an index from 1.  The four functions are the    *)
(* same text but for their type: strtol and strtoll are `signed`, and on   *)
(* amd64 long and long long both have 64 bits.                             *)
(***************************************************************************)
EXTENDS Loops, Sequences

CONSTANT ULONG_MAX     \* 2^64 - 1 in the code

ASSUME NumberParsingAssumption == ULONG_MAX \in Nat /\ ULONG_MAX % 2 = 1 /\ ULONG_MAX > 36

LONG_MAX == ULONG_MAX \div 2
LONG_MIN == -LONG_MAX - 1
ULong(n) == n % (ULONG_MAX + 1)
Long(n) == IF ULong(n) > LONG_MAX THEN ULong(n) - ULONG_MAX - 1 ELSE ULong(n)

At(s, i) == IF i \in DOMAIN s THEN s[i] ELSE 0

\* Character codes.
Zero == 48
Minus_ == 45
Plus_ == 43
Letter_x == 120
Letter_X == 88

isdigit(c) == c \in 48 .. 57
isupper(c) == c \in 65 .. 90
islower(c) == c \in 97 .. 122
isalpha(c) == isupper(c) \/ islower(c)
isspace(c) == c = 32 \/ c \in 9 .. 13

DigitValue(c) ==
  CASE isdigit(c) -> c - 48
    [] isupper(c) -> c - 65 + 10
    [] islower(c) -> c - 97 + 10

IsDigitOf(c, base) == (isdigit(c) \/ isalpha(c)) /\ DigitValue(c) < base

(***************************************************************************)
(* The loop over the digits.  any is 0 before the first digit, 1 while the *)
(* value fits and -1 once it does not; digits are consumed to the last.    *)
(***************************************************************************)
\* Mutant: the last digit is not compared with the remainder of the limit.
Overflows_NoCutlim(acc, any, c, limit, base) ==
  any < 0 \/ acc > limit \div base

Overflows(acc, any, c, limit, base) ==
  \/ any < 0
  \/ acc > limit \div base
  \/ acc = limit \div base /\ c > limit % base

Accumulate(s, first, base, limit) ==
  LET Turn(r, k) ==
        LET c == At(s, r.stop)
        IN  CASE ~ IsDigitOf(c, base) -> r
              [] IsDigitOf(c, base) /\ Overflows(r.acc, r.any, DigitValue(c), limit, base) ->
                   [acc |-> r.acc, any |-> -1, stop |-> r.stop + 1]
              [] OTHER ->
                   [acc |-> ULong(r.acc * base + DigitValue(c)), any |-> 1, stop |-> r.stop + 1]
  IN  Loop(Turn, [acc |-> 0, any |-> 0, stop |-> first], Len(s))

SkipSpaces(s) ==
  LET Stop(i) == ~ isspace(At(s, i))
  IN  First(1, Len(s) + 1, Stop)

\* Spaces, a sign, and for base 16 or a base to be found out the prefix 0x,
\* which is skipped whether or not a digit follows.
SkipSign(s, i) == IF At(s, i) \in {Minus_, Plus_} THEN i + 1 ELSE i

HexPrefix(s, j, base) == base \in {0, 16} /\ At(s, j) = Zero /\ At(s, j + 1) \in {Letter_x, Letter_X}

\* From j on, where the digits start and which base they have.
DigitsFrom(s, j, base) ==
  CASE HexPrefix(s, j, base)                  -> [first |-> j + 2, base |-> 16]
    [] ~ HexPrefix(s, j, base) /\ base # 0    -> [first |-> j, base |-> base]
    [] OTHER                                  -> [first |-> j, base |-> IF At(s, j) = Zero THEN 8 ELSE 10]

\* A number's sign and where its digits start.
Prefix(s, base) ==
  LET i == SkipSpaces(s)
      digits == DigitsFrom(s, SkipSign(s, i), base)
  IN  [neg |-> At(s, i) = Minus_, first |-> digits.first, base |-> digits.base]

\* The result and the index left in *endptr.
EndPtr(r) == IF r.any # 0 THEN r.stop ELSE 1

strtol(s, base) ==
  LET p == Prefix(s, base)
      r == Accumulate(s, p.first, p.base, IF p.neg THEN -LONG_MIN ELSE LONG_MAX)
  IN  [val |-> CASE r.any < 0            -> IF p.neg THEN LONG_MIN ELSE LONG_MAX
                 [] r.any >= 0 /\ p.neg  -> Long(-r.acc)
                 [] OTHER                -> Long(r.acc),
       end |-> EndPtr(r)]

strtoul(s, base) ==
  LET p == Prefix(s, base)
      r == Accumulate(s, p.first, p.base, ULONG_MAX)
  IN  [val |-> CASE r.any < 0            -> ULONG_MAX
                 [] r.any >= 0 /\ p.neg  -> ULong(-r.acc)
                 [] OTHER                -> r.acc,
       end |-> EndPtr(r)]

\* long long has the 64 bits of long.
strtoll(s, base) == strtol(s, base)
strtoull(s, base) == strtoul(s, base)
atol(s) == strtol(s, 10).val
atoll(s) == strtoll(s, 10).val

\* atou, and stdio_atou of print.c, which also moves its pointer.
AtouFrom(s, first) ==
  LET Turn(r, k) ==
        LET c == At(s, r.next)
        IN  IF isdigit(c) THEN [val |-> ULong(r.val * 10 + DigitValue(c)), next |-> r.next + 1] ELSE r
  IN  Loop(Turn, [val |-> 0, next |-> first], Len(s))

atou(s) == AtouFrom(s, 1).val
============================================================================
