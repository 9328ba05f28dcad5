------------------------------ MODULE Printing ------------------------------
(***************************************************************************)
(* Formatted output of the kernel's C library (libc/stdio/print.c): the    *)
(* parser of conversion specifications and the conversions, up to the      *)
(* characters they hand to putc.                                           *)
(*                                                                         *)
(* `out` is the sequence of characters given to putc so far: fp->position  *)
(* counts exactly these.  Strings and formats are sequences of character   *)
(* codes, flags a set of names, the variable arguments a sequence of       *)
(* integers and strings.  The digits of a number are kept as the code      *)
(* keeps them, last digit first.                                           *)
(***************************************************************************)
EXTENDS NumberParsing, SequencesExt

CONSTANTS
  INTEGER_BUFFER_SIZE,              \* 32 in the code
  PTR_WIDTH,                        \* sizeof(void*) * 2 + 2
  UCHAR_MAX, USHRT_MAX, UINT_MAX,   \* the unsigned types narrower than long
  NULL

ASSUME PrintingAssumption ==
  /\ {INTEGER_BUFFER_SIZE, PTR_WIDTH} \subseteq Nat \ {0}
  /\ \A max \in {UCHAR_MAX, USHRT_MAX, UINT_MAX} : max \in Nat /\ max % 2 = 1
  /\ UCHAR_MAX <= USHRT_MAX /\ USHRT_MAX <= UINT_MAX /\ UINT_MAX <= ULONG_MAX

Space == 32
Percent == 37
Star == 42
Dot == 46
Char == [c |-> 99, d |-> 100, i |-> 105, u |-> 117, x |-> 120, X |-> 88, o |-> 111,
         b |-> 98, s |-> 115, p |-> 112, n |-> 110, h |-> 104, l |-> 108, z |-> 122,
         t |-> 116, j |-> 106, I |-> 73]

Spaces(n) == [i \in 1 .. n |-> Space]
Zeros(n) == [i \in 1 .. n |-> Zero]
Unsigned(n, max) == n % (max + 1)
Signed(n, max) ==
  IF Unsigned(n, max) > max \div 2 THEN Unsigned(n, max) - max - 1 ELSE Unsigned(n, max)

----------------------------------------------------------------------------
\* The characters of buffer, last first, padded with spaces to the width.
output_reverse(out, buffer, width, flags) ==
  LET before == IF flags \cap {"LEFT", "ZEROPAD"} = {} THEN Spaces(width - Len(buffer)) ELSE <<>>
      text   == out \o before \o Reverse(buffer)
  IN  IF "LEFT" \in flags THEN text \o Spaces(width - (Len(text) - Len(out))) ELSE text

\* Zeros until the buffer holds `upto` characters or is full.
ZeroFill(buffer, upto) ==
  buffer \o Zeros((IF upto < INTEGER_BUFFER_SIZE THEN upto ELSE INTEGER_BUFFER_SIZE) - Len(buffer))

\* A character is appended only while there is room for it.
Put(buffer, c) == IF Len(buffer) < INTEGER_BUFFER_SIZE THEN Append(buffer, c) ELSE buffer

\* Mutant: only one zero gives way to a prefix of two characters.
TakeBack_One(buffer, unpadded, base) == IF unpadded < Len(buffer) THEN Front(buffer) ELSE buffer

\* The prefix takes the place of padding zeros where the padding made the
\* number exactly as wide as asked for.
TakeBack(buffer, unpadded, base) ==
  LET one == IF unpadded < Len(buffer) THEN Front(buffer) ELSE buffer
  IN  IF base \in {2, 16} /\ unpadded < Len(one) THEN Front(one) ELSE one

PrefixLetter(base, flags) ==
  CASE base = 16 /\ "UPPERCASE" \notin flags -> <<Char.x>>
    [] base = 16 /\ "UPPERCASE" \in flags    -> <<Char.X>>
    [] base = 2                              -> <<Char.b>>
    [] OTHER                                 -> <<>>

SignOf(negative, flags) ==
  CASE negative                                    -> <<Minus_>>
    [] ~ negative /\ "PLUS" \in flags              -> <<Plus_>>
    [] ~ negative /\ "PLUS" \notin flags /\ "SPACE" \in flags -> <<Space>>
    [] OTHER                                       -> <<>>

finalize_integer(out, digits, negative, base, precision, width0, flags0) ==
  LET signed   == negative \/ flags0 \cap {"PLUS", "SPACE"} # {}
      left     == "LEFT" \in flags0
      zeropad  == "ZEROPAD" \in flags0
      width    == IF ~ left /\ zeropad /\ signed /\ width0 > 0 THEN width0 - 1 ELSE width0
      widened  == IF ~ left /\ zeropad THEN ZeroFill(digits, width) ELSE digits
      padded   == ZeroFill(widened, precision)
      flags    == IF base = 8 /\ Len(padded) > Len(digits) THEN flags0 \ {"HASH"} ELSE flags0
      exact    == "PRECISION" \notin flags /\ padded # <<>> /\ Len(padded) \in {precision, width}
      taken    == IF exact THEN TakeBack(padded, Len(digits), base) ELSE padded
      prefixed == IF flags \cap {"HASH", "POINTER"} = {} THEN padded
                  ELSE Put(FoldLeft(Put, taken, PrefixLetter(base, flags)), Zero)
  IN  output_reverse(out, FoldLeft(Put, prefixed, SignOf(negative, flags)), width, flags)

DigitChar(d, flags) ==
  CASE d < 10                              -> Zero + d
    [] d >= 10 /\ "UPPERCASE" \in flags    -> 65 + d - 10
    [] OTHER                               -> 97 + d - 10

\* A do-while: the first digit is there even of zero.
Digits(value, base, flags) ==
  LET Turn(r, k) ==
        IF k > 1 /\ (r.value = 0 \/ Len(r.buffer) >= INTEGER_BUFFER_SIZE) THEN r
        ELSE [value |-> r.value \div base, buffer |-> Append(r.buffer, DigitChar(r.value % base, flags))]
  IN  Loop(Turn, [value |-> value, buffer |-> <<>>], INTEGER_BUFFER_SIZE).buffer

print_integer(out, value, negative, base, precision, width, flags) ==
  LET Finalize(digits, fs) == finalize_integer(out, digits, negative, base, precision, width, fs)
  IN  CASE value # 0                                  -> Finalize(Digits(value, base, flags), flags)
        [] value = 0 /\ "PRECISION" \notin flags      -> Finalize(<<Zero>>, flags \ {"HASH"})
        [] value = 0 /\ "PRECISION" \in flags /\ base = 16 -> Finalize(<<>>, flags \ {"HASH"})
        [] OTHER                                      -> Finalize(<<>>, flags)

STDIO_ABS(x) == ULong(IF x > 0 THEN x ELSE -x)

----------------------------------------------------------------------------
(***************************************************************************)
(* The parser.  A pointer into the format is an index; 0 stands for the    *)
(* early return SYSTEM_ERR_CANCELED of ADVANCE_IN_FORMAT_STRING, which     *)
(* every later stage passes on.                                            *)
(***************************************************************************)
Canceled == 0
Advance(f, i) == IF i = Canceled \/ At(f, i + 1) = 0 THEN Canceled ELSE i + 1

FlagOf(c) ==
  CASE c = Zero -> {"ZEROPAD"} [] c = Minus_ -> {"LEFT"} [] c = Plus_ -> {"PLUS"}
    [] c = Space -> {"SPACE"} [] c = 35 -> {"HASH"} [] OTHER -> {}

parse_flags(f, i) ==
  LET Stop(j) == FlagOf(At(f, j)) = {}
      at == First(i, Len(f) + 1, Stop)
  IN  [flags |-> UNION {FlagOf(At(f, j)) : j \in i .. at - 1}, at |-> at]

\* p is what has been parsed: the index reached, the flags and numbers found
\* and the number of arguments consumed.
ParseWidth(f, args, p) ==
  LET digits == AtouFrom(f, p.at)
      wide   == Signed(args[p.used + 1], UINT_MAX)
  IN  CASE isdigit(At(f, p.at)) -> [p EXCEPT !.width = digits.val, !.at = digits.next]
        [] At(f, p.at) = Star ->
             [p EXCEPT !.width = IF wide < 0 THEN -wide ELSE wide,
                       !.flags = IF wide < 0 THEN @ \cup {"LEFT"} ELSE @,
                       !.used  = @ + 1,
                       !.at    = Advance(f, @)]
        [] OTHER -> p

\* A negative precision is skipped, and counts as none.
SkipNegative(f, i) ==
  LET Stop(j) == Advance(f, j - 1) = Canceled \/ ~ isdigit(At(f, j))
  IN  Advance(f, First(i + 1, Len(f) + 1, Stop) - 1)

ParsePrecision(f, args, p) ==
  LET i      == Advance(f, p.at)
      digits == AtouFrom(f, i)
      prec   == Signed(args[p.used + 1], UINT_MAX)
      q      == [p EXCEPT !.flags = @ \cup {"PRECISION"}]
  IN  CASE At(f, p.at) # Dot -> p
        [] At(f, p.at) = Dot /\ At(f, i) = Minus_ -> [p EXCEPT !.at = SkipNegative(f, i)]
        [] At(f, p.at) = Dot /\ isdigit(At(f, i)) ->
             [q EXCEPT !.precision = digits.val, !.at = digits.next]
        [] At(f, p.at) = Dot /\ At(f, i) = Star ->
             [IF prec < 0 THEN p ELSE [q EXCEPT !.precision = prec]
                EXCEPT !.used = @ + 1, !.at = Advance(f, i)]
        [] OTHER -> [q EXCEPT !.at = i]

\* h, hh, l, ll, j, z, t and the bit sizes I8, I16, I32, I64.  I16 steps over
\* its last character without the test for the end of the format.
ParseLength(f, p) ==
  LET c    == At(f, p.at)
      i    == Advance(f, p.at)
      j    == Advance(f, i)
      k    == Advance(f, j)
      To(at, flags) == [p EXCEPT !.at = at, !.flags = @ \cup flags]
      Pair(a, b) == At(f, i) = a /\ At(f, j) = b
  IN  CASE c \in {Char.t, Char.j, Char.z}      -> To(i, {"LONG"})
        [] c = Char.l /\ At(f, i) # Char.l     -> To(i, {"LONG"})
        [] c = Char.l /\ At(f, i) = Char.l     -> To(j, {"LONG", "LONG_LONG"})
        [] c = Char.h /\ At(f, i) # Char.h     -> To(i, {"SHORT"})
        [] c = Char.h /\ At(f, i) = Char.h     -> To(j, {"SHORT", "CHAR"})
        [] c = Char.I /\ At(f, i) = 56         -> To(j, {"CHAR"})
        [] c = Char.I /\ Pair(49, 54)          -> To(j + 1, {"SHORT"})
        [] c = Char.I /\ Pair(51, 50)          -> To(k, {})
        [] c = Char.I /\ Pair(54, 52)          -> To(k, {"LONG"})
        [] c = Char.I /\ At(f, i) \in {49, 51, 54} /\ ~ (Pair(49, 54) \/ Pair(51, 50) \/ Pair(54, 52)) -> To(j, {})
        [] c = Char.I /\ At(f, i) \notin {49, 51, 54, 56} -> To(i, {})
        [] OTHER -> p

ParseSpecification(f, args, i, used) ==
  LET flags == parse_flags(f, i)
      p0    == [at |-> flags.at, flags |-> flags.flags, width |-> 0, precision |-> 0, used |-> used]
  IN  ParseLength(f, ParsePrecision(f, args, ParseWidth(f, args, p0)))

----------------------------------------------------------------------------
\* One conversion: the characters put and, for %n, the value stored.
IntegerArg(arg, signed, flags) ==
  LET Cast(max) == IF signed THEN Signed(arg, max) ELSE Unsigned(arg, max)
  IN  CASE "LONG" \in flags                                             -> Cast(ULONG_MAX)
        [] "LONG" \notin flags /\ "CHAR" \in flags                      -> Cast(UCHAR_MAX)
        [] flags \cap {"LONG", "CHAR"} = {} /\ "SHORT" \in flags        -> Cast(USHRT_MAX)
        [] OTHER                                                        -> Cast(UINT_MAX)

ConvertInteger(out, c, arg, p) ==
  LET signed == c \in {Char.d, Char.i}
      base   == CASE c \in {Char.x, Char.X} -> 16 [] c = Char.o -> 8 [] c = Char.b -> 2 [] OTHER -> 10
      drop   == (IF base = 10 THEN {"HASH"} ELSE {})
                \cup (IF "PRECISION" \in p.flags THEN {"ZEROPAD"} ELSE {})
                \cup (IF signed THEN {} ELSE {"PLUS", "SPACE"})
      flags  == (p.flags \ drop) \cup (IF c = Char.X THEN {"UPPERCASE"} ELSE {})
      value  == IntegerArg(arg, signed, p.flags)
  IN  print_integer(out, STDIO_ABS(value), value < 0, base, p.precision, p.width, flags)

Padded(out, text, p) ==
  IF "LEFT" \in p.flags THEN out \o text \o Spaces(p.width - Len(text))
                        ELSE out \o Spaces(p.width - Len(text)) \o text

ConvertString(out, str, p) ==
  IF str = NULL THEN output_reverse(out, <<>>, p.width, p.flags)
  ELSE Padded(out, IF "PRECISION" \in p.flags /\ p.precision < Len(str)
                   THEN SubSeq(str, 1, p.precision) ELSE str, p)

ConvertPointer(out, arg, p) ==
  LET flags == p.flags \cup {"ZEROPAD", "POINTER"}
      value == ULong(arg)
  IN  IF value = 0 THEN output_reverse(out, <<41, 108, 105, 110, 40>>, PTR_WIDTH, flags)
      ELSE print_integer(out, value, FALSE, 16, p.precision, PTR_WIDTH, flags)

StoredPosition(out, flags) ==
  CASE "CHAR" \in flags                                         -> Signed(Len(out), UCHAR_MAX)
    [] "CHAR" \notin flags /\ "SHORT" \in flags                 -> Signed(Len(out), USHRT_MAX)
    [] flags \cap {"CHAR", "SHORT"} = {} /\ "LONG" \in flags    -> Signed(Len(out), ULONG_MAX)
    [] OTHER                                                    -> Signed(Len(out), UINT_MAX)

IntegerSpecifiers == {Char.d, Char.i, Char.u, Char.x, Char.X, Char.o, Char.b}
UsesArgument == IntegerSpecifiers \cup {Char.c, Char.s, Char.p, Char.n}

Convert(out, c, arg, p) ==
  CASE c \in IntegerSpecifiers -> ConvertInteger(out, c, arg, p)
    [] c = Char.c -> Padded(out, <<Signed(arg, UCHAR_MAX)>>, p)
    [] c = Char.s -> ConvertString(out, arg, p)
    [] c = Char.p -> ConvertPointer(out, arg, p)
    [] c = Char.n -> out
    [] OTHER      -> Append(out, c)

(***************************************************************************)
(* The main loop.  past is set when the format pointer steps over the      *)
(* terminating zero: a specification that ends in its flags, its width or  *)
(* I16 is converted like one whose specifier is the zero.                  *)
(***************************************************************************)
Result(err, out, stored, past) == [err |-> err, out |-> out, stored |-> stored, past |-> past]

\* One turn: a character, or a specification and its conversion.
FormatTurn(f, args, r, spec) ==
  LET i == r.i
      c == At(f, spec.at)
      Ended(result) == [r EXCEPT !.result = result]
  IN  CASE r.result # NULL -> r
        [] r.result = NULL /\ At(f, i) = 0 -> Ended(Result("SYSTEM_OK", r.out, r.stored, FALSE))
        [] r.result = NULL /\ At(f, i) \notin {0, Percent} ->
             [r EXCEPT !.i = i + 1, !.out = Append(r.out, At(f, i))]
        [] r.result = NULL /\ At(f, i) = Percent /\ (Advance(f, i) = Canceled \/ spec.at = Canceled) ->
             Ended(Result("SYSTEM_ERR_CANCELED", r.out, r.stored, FALSE))
        [] r.result = NULL /\ At(f, i) = Percent /\ Advance(f, i) # Canceled /\ spec.at # Canceled
           /\ c = 0 -> Ended(Result("SYSTEM_OK", Append(r.out, 0), r.stored, TRUE))
        [] OTHER ->
             [i      |-> spec.at + 1,
              used   |-> IF c \in UsesArgument THEN spec.used + 1 ELSE spec.used,
              out    |-> Convert(r.out, c, args[spec.used + 1], spec),
              stored |-> IF c = Char.n THEN Append(r.stored, StoredPosition(r.out, spec.flags))
                         ELSE r.stored,
              result |-> NULL]

format_string(f, args) ==
  LET Turn(r, k) == FormatTurn(f, args, r, ParseSpecification(f, args, Advance(f, r.i), r.used))
  IN  Loop(Turn, [i |-> 1, used |-> 0, out |-> <<>>, stored |-> <<>>, result |-> NULL], Len(f) + 1).result

(***************************************************************************)
(* snprintf into a buffer of maxlen characters.  putc stores at the        *)
(* position it has reached whether or not that is inside the buffer, and   *)
(* the terminating zero goes behind the text or over its last character.   *)
(***************************************************************************)
append_termination(buffer, position, maxlen) ==
  CASE maxlen = 0                       -> buffer
    [] maxlen > 0 /\ position < maxlen  -> [buffer EXCEPT ![position] = 0]
    [] OTHER                            -> [buffer EXCEPT ![maxlen - 1] = 0]

vsnprintf(buffer, maxlen, f, args) ==
  LET r == format_string(f, args)
      written == [i \in DOMAIN buffer |-> IF i < Len(r.out) THEN r.out[i + 1] ELSE buffer[i]]
  IN  [r |-> r, buffer |-> append_termination(written, Len(r.out), maxlen)]
=============================================================================
