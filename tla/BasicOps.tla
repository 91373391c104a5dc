------------------------------ MODULE BasicOps ------------------------------
(***************************************************************************)
(* The ITU-T basic operators of bx16_fixedp/itug191lib/basop32.c and the   *)
(* double-precision operators of itug729ilib/oper_32b.c, on which every    *)
(* line of the BroadVoice16 codec is written.                              *)
(*                                                                         *)
(* The word width is a parameter: a Word16 has W bits, a Word32 has 2W,    *)
(* and each literal of the source is the expression in W it stands for     *)
(* (0x7fff is 2^(W-1)-1, 15 is W-1, 0x00008000L is 2^(W-1), ...).  The     *)
(* library is W = 16.  Small widths make TLC's check of the operators      *)
(* exhaustive; intermediate results are arranged so that W = 16 stays      *)
(* within TLC's own 32-bit integers.                                       *)
(*                                                                         *)
(* The operators return the value.  Those that may set the global flag     *)
(* Overflow have a companion predicate (..._ovf) that says when they do.   *)
(***************************************************************************)
EXTENDS Integers

CONSTANT W

\* A word has a sign bit, and the operators shift by two inside a word.
ASSUME WidthAssumption == W \in 3..16

Half    == 2^(W-1)              \* 0x8000
MAX_16  == Half - 1
MIN_16  == -Half
Quarter == 2^(2*W-2)            \* 0x40000000
MAX_32  == Quarter - 1 + Quarter
MIN_32  == -MAX_32 - 1

Word16 == MIN_16..MAX_16
Word32 == MIN_32..MAX_32

Bit(v, n) == (v \div 2^n) % 2   \* v & (1 << n)

-----------------------------------------------------------------------------
(* Word16 operators. *)
\* Faulty variant: saturate() sets Overflow above the range only.
saturate_high_ovf(v) == v > MAX_16

\* Keep a value in the range of a Word16 (only `saturate` sets Overflow).
saturate_ovf(v) == v \notin Word16
saturate(v) == IF v > MAX_16 THEN MAX_16 ELSE IF v < MIN_16 THEN MIN_16 ELSE v

add(a, b) == saturate(a + b)
sub(a, b) == saturate(a - b)

\* The magnitude and the opposite of MIN_16 are MAX_16, and Overflow is not set.
abs_s(a)  == IF a = MIN_16 THEN MAX_16 ELSE IF a < 0 THEN -a ELSE a
negate(a) == IF a = MIN_16 THEN MAX_16 ELSE -a

\* The low half, with its top bit as the sign, and the high half.
extract_l(L) == LET low == L % 2^W IN IF low >= Half THEN low - 2^W ELSE low
extract_h(L) == L \div 2^W

\* The two shifts call each other with the opposite count, clamped at -W.
Clamp(n, low) == IF n < low THEN low ELSE n
ShiftUp(v, n) ==
  IF n > W - 1 THEN IF v = 0 THEN 0 ELSE IF v > 0 THEN MAX_16 ELSE MIN_16
  ELSE saturate(v * 2^n)
ShiftDown(v, n) == IF n >= W - 1 THEN (IF v < 0 THEN -1 ELSE 0) ELSE v \div 2^n

shl_ovf(v, n) == n > 0 /\ IF n > W - 1 THEN v # 0 ELSE saturate_ovf(v * 2^n)
shl(v, n) == IF n < 0 THEN ShiftDown(v, -Clamp(n, -W)) ELSE ShiftUp(v, n)
shr(v, n) == IF n < 0 THEN ShiftUp(v, -Clamp(n, -W)) ELSE ShiftDown(v, n)

\* Fractional product, truncated or rounded; only MIN_16 * MIN_16 saturates.
mult(a, b)   == saturate((a * b) \div Half)
mult_r(a, b) == saturate((a * b + Half \div 2) \div Half)

\* The integer product of i_mult is computed in an int and then saturated.
i_mult(a, b) == saturate(a * b)
\* Faulty variant: the bit that decides the rounding is one too high.
shr_r_high(v, n) ==
  IF n > W - 1 THEN 0
  ELSE shr(v, n) + IF n > 0 THEN Bit(v, n) ELSE 0

\* Shift right and round on the last bit shifted out.
shr_r(v, n) ==
  IF n > W - 1 THEN 0
  ELSE shr(v, n) + IF n > 0 THEN Bit(v, n - 1) ELSE 0

\* The left shift that normalises a word: 15 for -1, 0 for 0.
Magnitude(v) == IF v < 0 THEN -(v + 1) ELSE v        \* v, or ~v
norm_s(v) ==
  CASE v = 0  -> 0
    [] v = -1 -> W - 1
    [] OTHER  -> CHOOSE n \in 0..(W-2) :
                   /\ Magnitude(v) * 2^n >= Half \div 2
                   /\ \A m \in 0..(n-1) : Magnitude(v) * 2^m < Half \div 2

\* Fractional division.  Outside its domain the function aborts the process.
div_s_aborts(a, b) == a > b \/ a < 0 \/ b < 0 \/ b = 0
DivStep(L_den, s) ==
  LET n == 2 * s.num
  IN IF n >= L_den THEN [num |-> n - L_den, out |-> add(2 * s.out, 1)]
                   ELSE [num |-> n, out |-> 2 * s.out]
Divide(L_num, L_den) ==
  LET step[i \in 0..(W-1)] ==
        IF i = 0 THEN [num |-> L_num, out |-> 0] ELSE DivStep(L_den, step[i-1])
  IN step[W-1].out
div_s(a, b) ==
  CASE a = 0 -> 0
    [] a # 0 /\ a = b -> MAX_16
    [] OTHER -> Divide(a, b)
-----------------------------------------------------------------------------
(* Word32 operators. *)

L_add_ovf(a, b) == \/ a > 0 /\ b > MAX_32 - a
                   \/ a < 0 /\ b < MIN_32 - a
L_add(a, b) ==
  IF L_add_ovf(a, b) THEN IF a < 0 THEN MIN_32 ELSE MAX_32 ELSE a + b

L_sub_ovf(a, b) == \/ a >= 0 /\ b < 0 /\ a > MAX_32 + b
                   \/ a < 0 /\ b > 0 /\ a < MIN_32 + b
L_sub(a, b) ==
  IF L_sub_ovf(a, b) THEN IF a < 0 THEN MIN_32 ELSE MAX_32 ELSE a - b

L_negate(a) == IF a = MIN_32 THEN MAX_32 ELSE -a
L_abs(a)    == IF a = MIN_32 THEN MAX_32 ELSE IF a < 0 THEN -a ELSE a

\* Twice the product; MIN_16 * MIN_16 is the one product that does not fit.
L_mult_ovf(a, b) == a * b = Quarter
L_mult(a, b)  == IF L_mult_ovf(a, b) THEN MAX_32 ELSE 2 * (a * b)
L_mult0(a, b) == a * b

L_mac_ovf(L, a, b) == L_mult_ovf(a, b) \/ L_add_ovf(L, L_mult(a, b))
L_mac(L, a, b) == L_add(L, L_mult(a, b))
L_msu_ovf(L, a, b) == L_mult_ovf(a, b) \/ L_sub_ovf(L, L_mult(a, b))
L_msu(L, a, b) == L_sub(L, L_mult(a, b))

L_mac0_ovf(L, a, b) == L_add_ovf(L, L_mult0(a, b))
L_mac0(L, a, b) == L_add(L, L_mult0(a, b))
L_msu0_ovf(L, a, b) == L_sub_ovf(L, L_mult0(a, b))
L_msu0(L, a, b) == L_sub(L, L_mult0(a, b))

L_deposit_h(a) == a * 2^W
L_deposit_l(a) == a

intround_ovf(L) == L_add_ovf(L, Half)
intround(L) == extract_h(L_add(L, Half))
mac_r(L, a, b) == intround(L_mac(L, a, b))
msu_r(L, a, b) == intround(L_msu(L, a, b))

\* L_shl doubles n times and stops, saturated, at the first that does not fit.
Doubled(L, n) ==
  LET twice[i \in 0..n] ==
        IF i = 0 THEN [v |-> L, ovf |-> FALSE]
        ELSE LET s == twice[i-1] IN
             IF s.ovf THEN s
             ELSE CASE s.v > Quarter - 1 -> [v |-> MAX_32, ovf |-> TRUE]
                    [] s.v < -Quarter    -> [v |-> MIN_32, ovf |-> TRUE]
                    [] OTHER             -> [v |-> 2 * s.v, ovf |-> FALSE]
  IN twice[n]
LongDown(L, n) == IF n >= 2*W - 1 THEN (IF L < 0 THEN -1 ELSE 0) ELSE L \div 2^n

L_shl_ovf(L, n) == n > 0 /\ Doubled(L, n).ovf
L_shl(L, n) == IF n <= 0 THEN LongDown(L, -Clamp(n, -2*W)) ELSE Doubled(L, n).v
L_shr(L, n) == IF n < 0 THEN Doubled(L, -Clamp(n, -2*W)).v ELSE LongDown(L, n)
L_shr_r(L, n) ==
  IF n > 2*W - 1 THEN 0
  ELSE L_shr(L, n) + IF n > 0 THEN Bit(L, n - 1) ELSE 0

norm_l(L) ==
  CASE L = 0  -> 0
    [] L = -1 -> 2*W - 1
    [] OTHER  -> CHOOSE n \in 0..(2*W-2) :
                   /\ Magnitude(L) >= Quarter \div 2^n
                   /\ \A m \in 0..(n-1) : Magnitude(L) < Quarter \div 2^m

\* A 32 by 16 bit fractional product, in two 16-bit halves.
L_mls(L, v) == L_mac(L_shr((L % 2^W) * v, W - 1), v, extract_h(L))

\* Division of a long; it is exit(0) outside its domain.
div_l_exits(L, den) == den <= 0 \/ L < 0
div_l(L, den) ==
  IF L >= L_deposit_h(den) THEN MAX_16
  ELSE Divide(L_shr(L, 1), L_shr(L_deposit_h(den), 1))
-----------------------------------------------------------------------------
(* The operators with the Carry flag: they wrap, and leave the flags.      *)
(* Each yields the value and the two flags.                                *)

Wrap(v) == LET u == v % 2^(2*W) IN IF u > MAX_32 THEN u - 2^(2*W) ELSE u

L_add_c(a, b, f) ==
  LET test  == Wrap(a + b)
      carry == IF \/ a < 0 /\ b < 0
                  \/ /\ (a < 0) # (b < 0)
                     /\ test >= 0
               THEN 1 ELSE 0
      ovf   == \/ a > 0 /\ b > 0 /\ test < 0
               \/ a < 0 /\ b < 0 /\ test >= 0
  IN [v  |-> Wrap(a + b + f.carry),
      ovf |-> ovf \/ (f.carry = 1 /\ test = MAX_32),
      carry |-> IF f.carry = 1 /\ test = -1 THEN 1 ELSE carry]

\* With no borrow pending it adds the opposite; MIN_32 has none.
L_sub_c(a, b, f) ==
  LET test == Wrap(a - b)
      none == [v |-> Wrap(a - b - 1), ovf |-> f.ovf, carry |-> 0]
  IN IF f.carry = 1
     THEN IF b # MIN_32 THEN L_add_c(a, -b, [f EXCEPT !.carry = 0])
          ELSE [v |-> Wrap(a - b), ovf |-> f.ovf \/ a > 0, carry |-> 0]
     ELSE LET out == CASE test < 0 /\ a > 0 /\ b < 0 -> [none EXCEPT !.ovf = TRUE]
                       [] test > 0 /\ a < 0 /\ b > 0 ->
                            [none EXCEPT !.ovf = TRUE, !.carry = 1]
                       [] test > 0 /\ (a < 0) = (b < 0) /\ a # b ->
                            [none EXCEPT !.ovf = FALSE, !.carry = 1]
                       [] OTHER -> none
          IN [out EXCEPT !.ovf = @ \/ test = MIN_32]

L_macNs(L, a, b, f) == L_add_c(L, L_mult(a, b), f)
L_msuNs(L, a, b, f) == L_sub_c(L, L_mult(a, b), f)

\* The saturation that the non-saturating sums leave to their end.
L_sat(L, f) ==
  IF ~f.ovf THEN [v |-> L, ovf |-> FALSE, carry |-> f.carry]
  ELSE [v |-> IF f.carry = 1 THEN MIN_32 ELSE MAX_32, ovf |-> FALSE, carry |-> 0]
-----------------------------------------------------------------------------
(* Double precision format: L_32 = hi<<16 + lo<<1 (oper_32b.c). *)

L_Extract(L) ==
  [hi |-> extract_h(L),
   lo |-> extract_l(L_msu(L_shr(L, 1), extract_h(L), Half \div 2))]
L_Comp(hi, lo) == L_mac(L_deposit_h(hi), lo, 1)
\* Faulty variant: one of the two cross products is left out.
Mpy_32_one_cross(x, y) == L_mac(L_mult(x.hi, y.hi), mult(x.hi, y.lo), 1)

Mpy_32(x, y) ==
  L_mac(L_mac(L_mult(x.hi, y.hi), mult(x.hi, y.lo), 1), mult(x.lo, y.hi), 1)
Mpy_32_16(x, n) == L_mac(L_mult(x.hi, n), mult(x.lo, n), 1)

\* Faulty variant: the 16-bit reciprocal is used as it is, without the Newton step.
Div_32_unrefined(L_num, denom) ==
  LET inverse == L_shr(L_deposit_h(div_s(Half \div 2 - 1, denom.hi)), 1)
  IN L_shl(Mpy_32(L_Extract(L_num), L_Extract(inverse)), 2)

\* L_num / denom by one Newton step on the 16-bit reciprocal of the high half.
Div_32(L_num, denom) ==
  LET approx  == div_s(Half \div 2 - 1, denom.hi)
      inverse == Mpy_32_16(L_Extract(L_sub(MAX_32, Mpy_32_16(denom, approx))), approx)
  IN L_shl(Mpy_32(L_Extract(L_num), L_Extract(inverse)), 2)
=============================================================================
