------------------------------- MODULE Libc -------------------------------
(***************************************************************************)
(* Calls of the kernel's C library, one action per function, and what      *)
(* their callers rely on.  The functions keep no state: a call takes its   *)
(* arguments from the sets below and leaves its result, which the          *)
(* properties compare with a definition that knows neither words nor       *)
(* alignment nor the order of copying, and the next call starts afresh.    *)
(***************************************************************************)
EXTENDS StringFunctions, Printing, FiniteSets

CONSTANTS
  CopyDests, CopySrcs, CopyLengths,         \* memcpy, memmove
  FillDests, FillLengths,                   \* memset
  LeftOperands, RightOperands, CompareLengths, \* memcmp
  TextDests, TextSrcs, Texts, Counts,       \* the string functions
  Numerals, Bases,                          \* strtol, strtoul, atou
  Specifications, IntegerArgs, StringArgs, Cuts, \* snprintf
  BUFFER                                    \* room behind the buffer of snprintf

\* No object is larger than half of the address space, the strings to copy lie
\* outside the room their copies need, and the word behind it, and a base is one
\* there are digits for: what C asks of a caller, and room for what strncpy writes
\* too many.  The operands to compare, whose bytes Operands
\* chooses one by one, lie apart.
ASSUME CallersAssumption ==
  /\ CopyDests \cup CopySrcs \cup FillDests \cup TextDests \cup TextSrcs \subseteq Addr
  /\ LeftOperands \cup RightOperands \subseteq Addr
  /\ \A n \in CopyLengths \cup FillLengths \cup CompareLengths : n \in Nat /\ 2 * n <= SIZE
  /\ \A s1 \in LeftOperands, s2 \in RightOperands, n \in CompareLengths :
       n <= Minus(s2, s1) /\ n <= Minus(s1, s2)
  /\ Texts \subseteq Seq(Nat \ {NUL}) /\ Counts \subseteq Nat
  /\ \A d \in TextDests, s \in TextSrcs, t1, t2 \in Texts, n \in Counts :
       /\ Len(t1) + Len(t2) + 1 + n <= Minus(s, d)
       /\ n + OPSIZ <= Minus(s, d)
       /\ Len(t2) + 1 <= Minus(d, s)
  /\ Numerals \subseteq Seq(Nat) /\ Bases \subseteq {0} \cup 2 .. 36

VARIABLES call, result

vars == <<call, result>>

Idle == [fn |-> "none"]
Nothing == [none |-> TRUE]

Range0(p, n) == {Plus(p, i) : i \in 0 .. n - 1}
Within(a, p, n) == Minus(a, p) < n

\* Every byte of this memory says which one it is.
Distinct == [b |-> [a \in Addr |-> a], words |-> {}]
FillByte == SIZE

\* Two operands that are equal up to place k, where the left one is larger
\* or smaller by sign; from there on it is the other way round.
OperandByte(i, k, sign) ==
  CASE i < k -> 5 [] i = k -> 5 + sign [] OTHER -> 5 - sign
Operands(s1, s2, n, k, sign) ==
  [b |-> [a \in Addr |-> CASE Within(a, s1, n) -> OperandByte(Minus(a, s1), k, sign)
                           [] ~Within(a, s1, n) /\ Within(a, s2, n) -> 5
                           [] OTHER -> IF a < s2 THEN 1 ELSE 9],
   words |-> {}]

Terminated(t) == Append(t, NUL)
Holds(a, p, t) == Within(a, p, Len(t))
TextMemory(d, t1, s, t2) ==
  [b |-> [a \in Addr |-> CASE Holds(a, d, Terminated(t1)) -> Terminated(t1)[Minus(a, d) + 1]
                           [] Holds(a, s, Terminated(t2)) -> Terminated(t2)[Minus(a, s) + 1]
                           [] OTHER -> 9],
   words |-> {}]

----------------------------------------------------------------------------
Init == call = Idle /\ result = Nothing

Call(c, r) == call' = c /\ result' = r

Memcpy == call = Idle /\ \E d \in CopyDests, s \in CopySrcs, n \in CopyLengths :
  /\ Range0(d, n) \cap Range0(s, n) = {}
  /\ Call([fn |-> "memcpy", d |-> d, s |-> s, n |-> n], memcpy(Distinct, d, s, n))

Memmove == call = Idle /\ \E d \in CopyDests, s \in CopySrcs, n \in CopyLengths :
  Call([fn |-> "memmove", d |-> d, s |-> s, n |-> n], memmove(Distinct, d, s, n))

Memset == call = Idle /\ \E d \in FillDests, n \in FillLengths :
  Call([fn |-> "memset", d |-> d, n |-> n], memset(Distinct, d, FillByte, n))

Memcmp == call = Idle /\ \E s1 \in LeftOperands, s2 \in RightOperands, n \in CompareLengths, sign \in {-1, 1} :
  \E k \in 0 .. n :
    Call([fn |-> "memcmp", s1 |-> s1, s2 |-> s2, n |-> n, k |-> k, sign |-> sign],
         memcmp(Operands(s1, s2, n, k, sign), s1, s2, n))

StringCall(fn, d, t1, s, t2, n) == [fn |-> fn, d |-> d, t1 |-> t1, s |-> s, t2 |-> t2, n |-> n]

Strings == call = Idle /\ \E d \in TextDests, s \in TextSrcs, t1, t2 \in Texts, n \in Counts :
  LET m == TextMemory(d, t1, s, t2)
  IN  \/ n = 0 /\ Call(StringCall("strcpy", d, t1, s, t2, n), strcpy(m, d, s))
      \/ n = 0 /\ Call(StringCall("strcat", d, t1, s, t2, n), strcat(m, d, s))
      \/ t1 = <<>> /\ Call(StringCall("strncpy", d, t1, s, t2, n), strncpy(m, d, s, n))
      \/ Call(StringCall("strncat", d, t1, s, t2, n), strncat(m, d, s, n))
      \/ n = 0 /\ Call(StringCall("strcmp", d, t1, s, t2, n), [res |-> strcmp(m, d, s)])
      \/ Call(StringCall("strncmp", d, t1, s, t2, n), [res |-> strncmp(m, d, s, n)])

\* The long is returned as an int.
atoi(s) == Signed(strtol(s, 10).val, UINT_MAX)

Numbers == call = Idle /\ \E t \in Numerals :
  \/ \E base \in Bases : Call([fn |-> "strtol", t |-> t, base |-> base], strtol(t, base))
  \/ \E base \in Bases : Call([fn |-> "strtoul", t |-> t, base |-> base], strtoul(t, base))
  \/ \E base \in Bases : Call([fn |-> "strtoll", t |-> t, base |-> base], strtoll(t, base))
  \/ \E base \in Bases : Call([fn |-> "strtoull", t |-> t, base |-> base], strtoull(t, base))
  \/ Call([fn |-> "atol", t |-> t], [val |-> atol(t)])
  \/ Call([fn |-> "atoll", t |-> t], [val |-> atoll(t)])
  \/ Call([fn |-> "atoi", t |-> t], [val |-> atoi(t)])
  \/ Call([fn |-> "atou", t |-> t], [val |-> atou(t)])

\* A specification is a record; FormatText spells it.
NumeralText(n) == IF n < 10 THEN <<48 + n>> ELSE <<48 + (n \div 10), 48 + (n % 10)>>
FlagText(flags) ==
  (IF "LEFT" \in flags THEN <<45>> ELSE <<>>) \o (IF "PLUS" \in flags THEN <<43>> ELSE <<>>)
  \o (IF "SPACE" \in flags THEN <<32>> ELSE <<>>) \o (IF "HASH" \in flags THEN <<35>> ELSE <<>>)
  \o (IF "ZEROPAD" \in flags THEN <<48>> ELSE <<>>)
FieldText(x, star) == CASE x = NULL -> <<>> [] x # NULL /\ star -> <<42>> [] OTHER -> NumeralText(x)
FormatText(sp) ==
  <<Percent>> \o FlagText(sp.flags) \o FieldText(sp.width, sp.star)
  \o (IF sp.precision = NULL THEN <<>> ELSE <<46>> \o FieldText(sp.precision, sp.star))
  \o sp.length \o <<sp.conv>>
CountText(sp) == <<Percent>> \o sp.length \o <<Char.n>>
ArgsOf(sp, arg) ==
  (IF sp.star /\ sp.width # NULL THEN <<sp.width>> ELSE <<>>)
  \o (IF sp.star /\ sp.precision # NULL THEN <<sp.precision>> ELSE <<>>) \o <<arg, NULL>>

Untouched == [i \in 0 .. BUFFER - 1 |-> -1]

\* The specification, and a %n that stores what it has printed.
Snprintf == call = Idle /\ \E sp \in Specifications :
  \E arg \in IF sp.conv = Char.s THEN StringArgs ELSE IntegerArgs :
    Call([fn |-> "snprintf", sp |-> sp, arg |-> arg],
         vsnprintf(Untouched, BUFFER, FormatText(sp) \o CountText(sp), ArgsOf(sp, arg)))

\* A text, and a specification that the end of the format cuts off.
SnprintfCut == call = Idle /\ \E text \in StringArgs, cut \in Cuts :
  Call([fn |-> "cut", text |-> text, cut |-> cut],
       vsnprintf(Untouched, BUFFER, text \o <<Percent>> \o cut, <<1, 1, 1>>))

Return == call # Idle /\ call' = Idle /\ result' = Nothing

Next == Memcpy \/ Memmove \/ Memset \/ Memcmp \/ Strings \/ Numbers \/ Snprintf
        \/ SnprintfCut \/ Return

Spec == Init /\ [][Next]_vars

----------------------------------------------------------------------------
(***************************************************************************)
(* What the callers rely on.                                               *)
(***************************************************************************)
Changed(m, cells) == [a \in Addr |-> IF a \in DOMAIN cells THEN cells[a] ELSE m.b[a]]

Copied(c) == [a \in Range0(c.d, c.n) |-> Plus(c.s, Minus(a, c.d))]

\* memset counts the bytes before the first word boundary twice: so many bytes
\* behind the ones asked for are filled as well (memset.c:28 decrements len where
\* length is meant).
Overrun(p, n) == IF n < MEMSET_THRES THEN 0 ELSE Minus(0, p) % OPSIZ
Filled(c) == [a \in Range0(c.d, c.n + Overrun(c.d, c.n)) |-> FillByte]

\* The texts as the string functions should leave them, from address p.
FirstOf(t, n) == SubSeq(t, 1, IF n < Len(t) THEN n ELSE Len(t))
Extended(t, n) == FirstOf(t, n) \o [i \in 1 .. n - Len(t) |-> NUL]
Spanned(d, t, n) ==
  n + IF Len(t) < n THEN Overrun(Plus(d, Len(t)), n - Len(t)) ELSE 0
TextLeft(c) ==
  CASE c.fn = "strcpy"  -> Terminated(c.t2)
    [] c.fn = "strcat"  -> Terminated(c.t1 \o c.t2)
    [] c.fn = "strncpy" -> Extended(c.t2, Spanned(c.d, c.t2, c.n))
    [] c.fn = "strncat" -> Terminated(c.t1 \o FirstOf(c.t2, c.n))
AsCells(p, t) == [a \in Range0(p, Len(t)) |-> t[Minus(a, p) + 1]]

\* The word loops read whole words, also at the ends of the operands: every
\* word they read holds a byte of an operand.
Touches(w, p, n) == Range0(w, OPSIZ) \cap Range0(p, n) # {}

\* memcpy, memmove and the string copies write the bytes they were asked to write,
\* with the values the source had before the call, and no other byte: whatever the
\* alignment of the operands, the distance by which they overlap (memmove) and the
\* number of words, odd or even, in between.  memset fills its bytes and, from an
\* unaligned address and for MEMSET_THRES bytes or more, exactly Overrun bytes
\* behind them that nobody asked for; so does strncpy where it pads.  Every word
\* that is read holds a byte of the source, so no read reaches a page the source
\* does not lie in.
CopiesAgree ==
  /\ call.fn \in {"memcpy", "memmove"} => \A w \in result.words : Touches(w, call.s, call.n)
  /\ call.fn \in {"memcpy", "memmove"} => result.b = Changed(Distinct, Copied(call))
  /\ call.fn = "memset" => result.b = Changed(Distinct, Filled(call))
  /\ call.fn \in {"strcpy", "strcat", "strncpy", "strncat"}
       => result.b = Changed(TextMemory(call.d, call.t1, call.s, call.t2),
                             AsCells(call.d, TextLeft(call)))

SignOfInt(n) == CASE n < 0 -> -1 [] n = 0 -> 0 [] OTHER -> 1

\* The first place, if any, where two texts differ, the end counting as zero.
FirstDifference(t1, t2, n) ==
  LET places == {i \in 1 .. n : At(t1, i) # At(t2, i)}
  IN  IF places = {} THEN 0
      ELSE LET i == CHOOSE i \in places : \A j \in places : i <= j
           IN  SignOfInt(At(t1, i) - At(t2, i))

\* memcmp answers by the first byte that differs among the bytes it was given,
\* wherever that byte lies with respect to the words compared and to the place
\* at which the unrolled loop is entered; strncmp by the first character.
\* strcmp, which compares the wrong bytes, still answers 0 for equal strings.
\* Every word memcmp reads holds a byte of one of its operands.
ComparesAgree ==
  /\ call.fn = "memcmp" =>
       \A w \in result.words : Touches(w, call.s1, call.n) \/ Touches(w, call.s2, call.n)
  /\ call.fn = "memcmp" => SignOfInt(result.res) = IF call.k < call.n THEN call.sign ELSE 0
  /\ call.fn = "strncmp" => SignOfInt(result.res) = FirstDifference(call.t1, call.t2, call.n)
  /\ call.fn = "strcmp" /\ call.t1 = call.t2 => result.res = 0

----------------------------------------------------------------------------
\* The value of the digits first .. stop - 1 as a number, without a limit.
ValueOf(t, first, stop, base) ==
  LET v[i \in first - 1 .. stop - 1] ==
        IF i = first - 1 THEN 0 ELSE v[i - 1] * base + DigitValue(t[i])
  IN  v[stop - 1]

LastDigitFrom(t, first, base) ==
  CHOOSE stop \in first .. Len(t) + 1 :
    /\ \A i \in first .. stop - 1 : IsDigitOf(t[i], base)
    /\ ~ IsDigitOf(At(t, stop), base)

Clamp(v, lo, hi) == CASE v < lo -> lo [] v > hi -> hi [] OTHER -> v

\* Where C lets the digits of a number begin, with which sign and base: behind
\* white space, one sign at most and, if 16 is the base or may be found to be, 0x.
\* A text that has to tell its base is octal from a leading 0 on, else decimal.
BaseAsked(c) == IF c.fn \in {"atol", "atoll", "atoi"} THEN 10 ELSE c.base
WhiteSpace == {32} \cup 9 .. 13
Begins(t, base, p) ==
  \E spaces \in 0 .. Len(t), sign \in 0 .. 1, mark \in {0, 2} :
    /\ \A i \in 1 .. spaces : t[i] \in WhiteSpace
    /\ At(t, spaces + 1) \notin WhiteSpace
    /\ sign = 1 <=> At(t, spaces + 1) \in {43, 45}
    /\ p.neg <=> At(t, spaces + 1) = 45
    /\ mark = 2 <=> /\ base \in {0, 16}
                    /\ At(t, spaces + sign + 1) = 48
                    /\ At(t, spaces + sign + 2) \in {88, 120}
    /\ p.first = spaces + sign + mark + 1
    /\ p.base = CASE base # 0 -> base
                  [] base = 0 /\ mark = 2 -> 16
                  [] base = 0 /\ mark = 0 /\ At(t, spaces + sign + 1) = 48 -> 8
                  [] OTHER -> 10
Beginnings(t, base) ==
  {p \in [neg : BOOLEAN, first : 1 .. Len(t) + 1, base : {8, 10, 16, base}] : Begins(t, base, p)}

IsSigned(fn) == fn \in {"strtol", "strtoll", "atoi", "atol", "atoll"}

\* strtol, strtoul and their long long versions return the value of the
\* longest run of digits behind white space, sign and 0x, or the limit it passes
\* on its side, however many digits follow the one that overflows, and leave
\* *endptr behind the last digit, or where the text starts if there is none (also
\* behind 0x); strtoul negates modulo its range.  atol and atoll are strtol
\* for base 10, atoi what is left of that in an int.  atou wraps at any length.
NumbersAgree ==
  /\ call.fn \in {"strtol", "strtoul", "strtoll", "strtoull", "atol", "atoll", "atoi"} =>
       \E p \in Beginnings(call.t, BaseAsked(call)) :
         LET stop   == LastDigitFrom(call.t, p.first, p.base)
             value  == ValueOf(call.t, p.first, stop, p.base)
             signed == Clamp(IF p.neg THEN -value ELSE value, LONG_MIN, LONG_MAX)
         IN  /\ "end" \in DOMAIN result => result.end = IF stop = p.first THEN 1 ELSE stop
             /\ result.val =
                  CASE call.fn = "atoi"  -> Signed(signed, UINT_MAX)
                    [] call.fn # "atoi" /\ IsSigned(call.fn) -> signed
                    [] OTHER -> IF value > ULONG_MAX THEN ULONG_MAX
                                ELSE ULong(IF p.neg THEN -value ELSE value)
  /\ call.fn = "atou" =>
       result.val = ULong(ValueOf(call.t, 1, LastDigitFrom(call.t, 1, 10), 10))

----------------------------------------------------------------------------
\* The text the C standard asks for.
NumeralOf(v, base, upper) ==
  LET width == CHOOSE n \in 1 .. 16 : base^n > v /\ (n = 1 \/ base^(n - 1) <= v)
  IN  [i \in 1 .. width |->
         LET d == (v \div base^(width - i)) % base
         IN  IF d < 10 THEN 48 + d ELSE (IF upper THEN 55 ELSE 87) + d]

BaseOf(conv) == CASE conv \in {Char.x, Char.X} -> 16 [] conv = Char.o -> 8
                  [] conv = Char.b -> 2 [] OTHER -> 10

MaxOf(length) ==
  CASE length \in {<<Char.h, Char.h>>, <<Char.I, 56>>} -> UCHAR_MAX
    [] length \in {<<Char.h>>, <<Char.I, 49, 54>>}     -> USHRT_MAX
    [] length \in {<<>>, <<Char.I, 51, 50>>}           -> UINT_MAX
    [] OTHER                                            -> ULONG_MAX

IntegerText(sp, arg) ==
  LET signed == sp.conv \in {Char.d, Char.i}
      base   == BaseOf(sp.conv)
      value  == IF signed THEN Signed(arg, MaxOf(sp.length)) ELSE Unsigned(arg, MaxOf(sp.length))
      size   == IF value < 0 THEN -value ELSE value
      given  == sp.precision # NULL
      digits == IF size = 0 /\ given THEN <<>> ELSE NumeralOf(size, base, sp.conv = Char.X)
      long   == Zeros((IF given THEN sp.precision ELSE 0) - Len(digits)) \o digits
      hash   == "HASH" \in sp.flags
      octal  == hash /\ base = 8 /\ (long = <<>> \/ Head(long) # 48)
      sign   == CASE value < 0 -> <<45>>
                  [] value >= 0 /\ signed /\ "PLUS" \in sp.flags -> <<43>>
                  [] value >= 0 /\ signed /\ "PLUS" \notin sp.flags /\ "SPACE" \in sp.flags -> <<32>>
                  [] OTHER -> <<>>
      prefix == CASE hash /\ base = 16 /\ size # 0            -> <<48, sp.conv>>
                  [] hash /\ base = 2 /\ (size # 0 \/ given) -> <<48, sp.conv>>  \* an extension
                  [] OTHER -> <<>>
  IN  [head |-> sign \o prefix, body |-> (IF octal THEN <<48>> ELSE <<>>) \o long]

Justified(sp, head, body, zeropad) ==
  LET pad == (IF sp.width = NULL THEN 0 ELSE sp.width) - Len(head) - Len(body)
  IN  CASE "LEFT" \in sp.flags              -> head \o body \o Spaces(pad)
        [] "LEFT" \notin sp.flags /\ zeropad -> head \o Zeros(pad) \o body
        [] OTHER                            -> Spaces(pad) \o head \o body

\* (nil), or 0x and all the digits a pointer has; only the latter are padded.
PointerText(sp, v) ==
  LET digits == <<48, Char.x>> \o NumeralOf(v, 16, FALSE)
      wide   == [sp EXCEPT !.width = PTR_WIDTH]
  IN  CASE v = 0 /\ "LEFT" \notin sp.flags -> <<40, 110, 105, 108, 41>>
        [] v = 0 /\ "LEFT" \in sp.flags    -> Justified(wide, <<>>, <<40, 110, 105, 108, 41>>, FALSE)
        [] OTHER -> Justified(wide, FirstOf(digits, 2), SubSeq(digits, 3, Len(digits)), TRUE)

ExpectedText(sp, arg) ==
  LET int == IntegerText(sp, arg)
  IN  CASE sp.conv \in IntegerSpecifiers ->
             Justified(sp, int.head, int.body, "ZEROPAD" \in sp.flags /\ sp.precision = NULL)
        [] sp.conv = Char.c -> Justified(sp, <<>>, <<Signed(arg, UCHAR_MAX)>>, FALSE)
        [] sp.conv = Char.s -> Justified(sp, <<>>, FirstOf(arg, IF sp.precision = NULL THEN Len(arg)
                                                               ELSE sp.precision), FALSE)
        [] sp.conv = Char.p -> PointerText(sp, ULong(arg))

\* The number is assembled in a buffer: the comparison stops where its
\* characters, padding zeros included, no longer fit.
FitsIntegerBuffer(sp, arg) ==
  LET int == IntegerText(sp, arg)
  IN  /\ Len(int.head) + Len(int.body) <= INTEGER_BUFFER_SIZE
      /\ "ZEROPAD" \in sp.flags /\ sp.width # NULL => sp.width <= INTEGER_BUFFER_SIZE

\* snprintf writes the text the C standard asks for and a zero behind it, and
\* touches nothing else of its buffer, for every combination of flags, width,
\* precision and length with every integer conversion, and for characters,
\* strings and pointers; %n stores the number of characters.  A format cut off
\* inside a specification is refused after the text before it, unless the cut
\* leaves a flag or a digit last: the parser then runs past the end.
PrintsAgree ==
  /\ (/\ call.fn = "snprintf"
      /\ call.sp.conv \in IntegerSpecifiers => FitsIntegerBuffer(call.sp, call.arg))
     => LET text == ExpectedText(call.sp, call.arg)
        IN  /\ result.r.err = "SYSTEM_OK" /\ ~ result.r.past
            /\ result.r.stored = <<Signed(Len(text), MaxOf(call.sp.length))>>
            /\ result.buffer = [i \in 0 .. BUFFER - 1 |->
                 CASE i < Len(text) -> text[i + 1] [] i = Len(text) -> 0 [] OTHER -> -1]
  /\ call.fn = "cut" =>
       IF result.r.past THEN Last(call.cut) \in {35, 43, 45, 32} \cup 48 .. 57
       ELSE result.r.err = "SYSTEM_ERR_CANCELED" /\ result.r.out = call.text
===========================================================================
