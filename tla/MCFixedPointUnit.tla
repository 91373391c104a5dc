-------------------------- MODULE MCFixedPointUnit --------------------------
(* Small words, checked over every accumulator and the boundary operands. *)
EXTENDS FixedPointUnit

MCOperands == {MIN_16, MIN_16 + 1, -Half \div 2 - 1, -1, 0, 1, 2,
               Half \div 2 - 1, Half \div 2, MAX_16}
MCShifts == {0, 1, 2, W - 1, W}
=============================================================================
