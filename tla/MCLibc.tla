------------------------------ MODULE MCLibc ------------------------------
EXTENDS Libc

MCCopyDests == 0 .. 43
MCCopySrcs == 20 .. 23
MCCopyLengths == 0 .. 20
MCFillDests == 8 .. 15
MCFillLengths == (0 .. 12) \cup (30 .. 42)
MCLeftOperands == 4 .. 7
MCRightOperands == 64 .. 67
MCCompareLengths == 0 .. 32

MCTextDests == {16, 17, 19}
MCTextSrcs == {64, 66}
MCTexts == UNION {[1 .. n -> {1, 2}] : n \in 0 .. 2} \cup {[i \in 1 .. 10 |-> 1 + (i % 2)]}
MCCounts == {0, 1, 2, 3, 9, 10, 11, 20}

\* - 0 1 7 a x in every order, and behind white space and other signs
MCNumerals == UNION {[1 .. n -> {45, 48, 49, 55, 97, 120}] : n \in 0 .. 4}
              \cup {<<32, 43, 54, 51>>, <<32, 9, 45, 54, 52>>, <<49, 50, 55>>, <<49, 50, 56>>, <<54, 52, 57>>,
                    <<32, 32, 48, 88, 49>>, <<43, 45, 49>>, <<45, 43, 49>>, <<13, 45, 48, 120, 55>>, <<9, 43, 48, 55, 56>>,
                    <<43, 48, 120>>, <<45, 32, 49>>, <<8, 49>>}
MCBases == {0, 8, 10, 16}

Spec_(flags, width, precision, length, conv, star) ==
  [flags |-> flags, width |-> width, precision |-> precision, length |-> length, conv |-> conv,
   star |-> star]
MCSpecifications ==
  {Spec_(f, w, p, <<>>, c, FALSE) :
     f \in SUBSET {"LEFT", "PLUS", "SPACE", "HASH", "ZEROPAD"}, w \in {NULL, 1, 5, 12}, p \in {NULL, 0, 4},
     c \in {Char.d, Char.u, Char.x, Char.X, Char.o, Char.b}}
  \cup
  {Spec_(f, w, p, l, c, st) :
     f \in {{}, {"ZEROPAD"}, {"LEFT"}}, w \in {NULL, 3}, p \in {NULL, 2},
     l \in {<<104>>, <<104, 104>>, <<108>>, <<108, 108>>, <<122>>, <<106>>, <<116>>, <<73, 56>>, <<73, 49, 54>>,
            <<73, 51, 50>>, <<73, 54, 52>>},
     c \in {Char.d, Char.i, Char.x}, st \in BOOLEAN}
  \cup
  {Spec_(f, w, p, <<>>, c, FALSE) :
     f \in {{}, {"LEFT"}}, w \in {NULL, 3}, p \in {NULL, 0, 2}, c \in {Char.c, Char.s}}
  \cup
  {Spec_(f, NULL, NULL, <<>>, Char.p, FALSE) : f \in {{}, {"LEFT"}}}
MCIntegerArgs == {0, 1, 8, 10, 63, 64, -1, -64}
MCStringArgs == {<<>>, <<97>>, <<97, 98, 99, 100>>}
\* nothing, - 5 . .5 .- * .* h hh l ll z I I8 I1 I16 I32
MCCuts == {<<>>, <<45>>, <<53>>, <<46>>, <<46, 53>>, <<46, 45>>, <<42>>, <<46, 42>>, <<104>>, <<104, 104>>,
           <<108>>, <<108, 108>>, <<122>>, <<73>>, <<73, 56>>, <<73, 49>>, <<73, 49, 54>>, <<73, 51, 50>>}
===========================================================================
