----------------------------- MODULE G729Frame -----------------------------
(***************************************************************************)
(* What a G.729 frame says: the fifteen parameters of a speech frame and   *)
(* the four of a silence descriptor, how encoder.c packs what it found and *)
(* how decoder.c reads it back.  The vectors that the LSP indexes stand    *)
(* for are not told apart beyond the indexes; the pitch delays, pulses and *)
(* pitch gains are numbers, for their code words have corners.             *)
(***************************************************************************)
EXTENDS Integers, Sequences, FiniteSetsExt, Functions

CONSTANT BelowMin(_)    \* whether a predicted vector's lowest coefficient is below qLSF_MIN

MAXIMUM_INT_PITCH_DELAY == 143
BOUNDED_PITCH_GAIN_MIN == 3277
Low(a, b) == IF a < b THEN a ELSE b
High(a, b) == IF a > b THEN a ELSE b
Shifted(x, mem) == <<x>> \o SubSeq(mem, 1, Len(mem) - 1)

\* MULT16_16_Q15(x, 10923): what the decoder takes for a third,
Third(x) == (x * 10923) \div 2^15
\* and MULT16_16_Q15(x, O2_IN_Q15): what the encoder takes for a fifth.
Fifth(x) == (x * 6554) \div 2^15

\* n bits of x from bit i up; the ten bytes of a speech frame, which its fifteen
\* fields of these widths fill, and the two of a silence descriptor, 15 bits of it.
Field(x, i, n) == (x \div 2^i) % 2^n
ParameterWidths == <<1, 7, 5, 5, 8, 1, 13, 4, 3, 4, 5, 13, 4, 3, 4>>
parametersArray2BitStream(p) ==
  <<Field(p[1], 0, 1) * 128 + Field(p[2], 0, 7),
    Field(p[3], 0, 5) * 8 + Field(p[4], 2, 3),
    Field(p[4], 0, 2) * 64 + Field(p[5], 2, 6),
    Field(p[5], 0, 2) * 64 + Field(p[6], 0, 1) * 32 + Field(p[7], 8, 5),
    Field(p[7], 0, 8),
    Field(p[8], 0, 4) * 16 + Field(p[9], 0, 3) * 2 + Field(p[10], 3, 1),
    Field(p[10], 0, 3) * 32 + Field(p[11], 0, 5),
    Field(p[12], 5, 8),
    Field(p[12], 0, 5) * 8 + Field(p[13], 1, 3),
    Field(p[13], 0, 1) * 128 + Field(p[14], 0, 3) * 16 + Field(p[15], 0, 4)>>
parametersBitStream2Array(b) ==
  <<Field(b[1], 7, 1), Field(b[1], 0, 7), Field(b[2], 3, 5),
    Field(b[2], 0, 3) * 4 + Field(b[3], 6, 2),
    Field(b[3], 0, 6) * 4 + Field(b[4], 6, 2),
    Field(b[4], 5, 1), Field(b[4], 0, 5) * 256 + b[5],
    Field(b[6], 4, 4), Field(b[6], 1, 3), Field(b[6], 0, 1) * 8 + Field(b[7], 5, 3),
    Field(b[7], 0, 5), b[8] * 32 + Field(b[9], 3, 5),
    Field(b[9], 0, 3) * 2 + Field(b[10], 7, 1), Field(b[10], 4, 3), Field(b[10], 0, 4)>>

\* encodeSIDFrame takes the upper two of the four bits of L2 by a remainder of 3,
\* not by a mask; decodeSIDframe reads them as they are.
SIDBitStream(p) ==
  <<Field(p[1], 0, 1) * 128 + Field(p[2], 0, 5) * 4 + ((p[3] \div 4) % 3),
    Field(p[3], 0, 2) * 64 + Field(p[4], 0, 5) * 2>>
SIDBitStream2Array(b) ==
  <<Field(b[1], 7, 1), Field(b[1], 2, 5), Field(b[1], 0, 2) * 4 + Field(b[2], 6, 2),
    Field(b[2], 1, 5)>>

\* The parity bit of a pitch code word, of its six upper bits.
computeParity(index) ==
  (1 + FoldSet(LAMBDA i, n : n + ((index \div 2^i) % 2), 0, 2..7)) % 2

\* The vector that a speech frame's indexes stand for, and the part of the
\* codebooks that a silence descriptor's point into.
L1SubsetIndex ==
  <<96, 52, 20, 54, 86, 114, 82, 68, 36, 121, 48, 92, 18, 120, 94, 124, 50, 125, 4, 100, 28, 76, 12,
    117, 81, 22, 90, 116, 127, 21, 108, 66>>
L2SubsetIndex == <<31, 21, 9, 3, 10, 2, 19, 26, 4, 3, 11, 29, 15, 27, 21, 12>>
L3SubsetIndex == <<16, 1, 0, 0, 8, 25, 22, 20, 19, 23, 20, 31, 4, 31, 20, 31>>
CodeWord(L) == <<L[2], L[3], L[4]>>
NoiseWord(L) == <<L1SubsetIndex[L[2] + 1], L2SubsetIndex[L[3] + 1], L3SubsetIndex[L[3] + 1]>>

\* A vector is predicted, and put in order, from the vector that was found and
\* the four before it.  The decoder then raises its first coefficient to the
\* limit; the encoder, which tests the second, leaves the first where it is.
Predicted(predictor, L0, word, mem) == [ma |-> predictor, l0 |-> L0, words |-> <<word>> \o mem]
computeqLSF(predictor, L0, word, mem) ==
  LET sum == Predicted(predictor, L0, word, mem)
  IN  [sum |-> sum, raised |-> IF BelowMin(sum) THEN "first" ELSE "none"]
LSPQuantization(predictor, L0, word, mem) ==
  [sum |-> Predicted(predictor, L0, word, mem), raised |-> "none"]
\* What the memories hold before the first frame, and in the place of a lost one.
Initial == <<"init">>
MadeUp == <<"made up">>
Init4 == <<Initial, Initial, Initial, Initial>>
NoLSF == LSPQuantization("none", 0, Initial, <<>>)
-----------------------------------------------------------------------------
\* adaptativeCodebookSearch: the delays it looks at, a frame's around the open-
\* loop delay and the second subframe's around the first's.
SearchedFirst(open) ==
  LET min == High(open - 3, 20)
  IN  IF min + 6 > MAXIMUM_INT_PITCH_DELAY
      THEN (MAXIMUM_INT_PITCH_DELAY - 6)..MAXIMUM_INT_PITCH_DELAY ELSE min..(min + 6)
\* Faulty variant: the window of the second delay may end above the longest.
SecondMinUncapped(T) == High(T - 5, 20)

SecondMin(T) ==
  LET min == High(T - 5, 20)
  IN  IF min + 9 > MAXIMUM_INT_PITCH_DELAY THEN MAXIMUM_INT_PITCH_DELAY - 9 ELSE min
SearchedSecond(T) == SecondMin(T)..(SecondMin(T) + 9)
Fractions(T, subframe) == IF subframe = 1 /\ T >= 85 THEN {0} ELSE {-1, 0, 1}

pitchDelayCodeword1(T, frac) == IF T <= 85 THEN 3 * T - 58 + frac ELSE T + 112
pitchDelayCodeword2(T, frac, T1) == 3 * (T - SecondMin(T1)) + frac + 2

\* decodeAdaptativeCodeVector: the delay and its fraction from a code word.
Delay1(P1) ==
  LET T == Third(P1 + 2) + 19
  IN  IF P1 < 197 THEN [int |-> T, frac |-> P1 - 3 * T + 58] ELSE [int |-> P1 - 112, frac |-> 0]
Delay2(P2, T1) ==
  LET t == Third(P2 + 2) - 1
  IN  [int |-> t + High(Low(High(T1 - 5, 20), 134), 20), frac |-> P2 - 3 * t - 2]
-----------------------------------------------------------------------------
\* A pulse on each of four tracks; the fourth track has two, which jx tells apart.
Tracks == <<{5 * i : i \in 0..7}, {5 * i + 1 : i \in 0..7}, {5 * i + 2 : i \in 0..7},
            {5 * i + 3 : i \in 0..7} \cup {5 * i + 4 : i \in 0..7}>>
fixedCodebookParameter(m) ==
  LET jx == (m[4] % 5) - 3
  IN  Fifth(m[1]) + Fifth(m[2]) * 8 + Fifth(m[3]) * 64 + (Fifth(m[4]) * 2 + jx) * 512
positionsArray(C) ==
  <<(C % 8) * 5, (((C \div 8) % 8) * 5) + 1, (((C \div 64) % 8) * 5) + 2,
    (((C \div 1024) % 8) * 5) + 3 + ((C \div 512) % 2)>>
-----------------------------------------------------------------------------
\* The gain indexes are permuted for the channel, by two tables and their reverse.
indexMappingGA == <<5, 1, 4, 7, 3, 0, 6, 2>>
reverseIndexMappingGA == <<5, 1, 7, 4, 2, 0, 6, 3>>
indexMappingGB == <<4, 6, 0, 2, 12, 14, 8, 10, 15, 11, 9, 13, 7, 3, 1, 5>>
reverseIndexMappingGB == <<2, 14, 3, 13, 0, 15, 1, 12, 6, 10, 7, 9, 4, 11, 5, 8>>
\* The pitch gain of a subframe, in Q14.
GACodebook == <<0, 1551, 1831, 57, 1921, 3242, 356, 2678>>
GBCodebook == <<826, 1994, 5142, 6160, 8091, 9120, 10573, 11569, 13260, 14194, 15132, 15161, 15434,
                16112, 17299, 18973>>
PitchGain(ga, gb) == GACodebook[ga + 1] + GBCodebook[gb + 1]
=============================================================================
