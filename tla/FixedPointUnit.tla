--------------------------- MODULE FixedPointUnit ---------------------------
(***************************************************************************)
(* A computation written with the basic operators: a Word32 accumulator,   *)
(* the two global flags of basop32.c and, beside them, the integer the     *)
(* same steps compute without any bound.  Overflow is sticky: an operator  *)
(* sets it and only the operators with carry ever clear it, which is what  *)
(* lets a caller test one flag after a whole loop of L_mac.                *)
(***************************************************************************)
EXTENDS BasicOps

CONSTANTS
  Operands,     \* the Word16 values that are loaded, added and multiplied by
  Shifts        \* the counts of L_shl and L_shr

ASSUME OperandsAssumption == Operands \subseteq Word16 /\ Shifts \subseteq -W..W

VARIABLES
  acc,          \* the accumulator
  Overflow,     \* the global flag of the library
  exact         \* the unbounded value of the same computation, while Overflow is 0

vars == <<acc, Overflow, exact>>

Init == acc = 0 /\ Overflow = FALSE /\ exact = 0

\* The caller clears Overflow and loads the accumulator.
Load == \E a \in Operands : \E L \in {L_deposit_h(a), L_deposit_l(a)} :
          acc' = L /\ Overflow' = FALSE /\ exact' = L

\* One operator: its value, whether it saturates, and the exact result.
\* Once Overflow is set the exact value is not followed any more.
Do(value, saturates, result) ==
  /\ acc' = value
  /\ Overflow' = (Overflow \/ saturates)
  /\ exact' = IF Overflow' THEN 0 ELSE result

Mac  == \E a, b \in Operands :
          Do(L_mac(acc, a, b), L_mac_ovf(acc, a, b), exact + 2 * a * b)
Msu  == \E a, b \in Operands :
          Do(L_msu(acc, a, b), L_msu_ovf(acc, a, b), exact - 2 * a * b)
Mac0 == \E a, b \in Operands :
          Do(L_mac0(acc, a, b), L_mac0_ovf(acc, a, b), exact + a * b)
Msu0 == \E a, b \in Operands :
          Do(L_msu0(acc, a, b), L_msu0_ovf(acc, a, b), exact - a * b)
Add  == \E a \in Operands : LET L == L_deposit_h(a) IN
          Do(L_add(acc, L), L_add_ovf(acc, L), exact + L)
Sub  == \E a \in Operands : LET L == L_deposit_h(a) IN
          Do(L_sub(acc, L), L_sub_ovf(acc, L), exact - L)
Shl  == \E n \in Shifts : n > 0 /\
          Do(L_shl(acc, n), L_shl_ovf(acc, n), exact * 2^n)
Shr  == \E n \in Shifts : n >= 0 /\
          Do(L_shr(acc, n), FALSE, exact \div 2^n)
\* L_abs and L_negate saturate MIN_32 in silence; elsewhere they are exact.
Fold == acc # MIN_32 /\
          \/ Do(L_abs(acc), FALSE, IF exact < 0 THEN -exact ELSE exact)
          \/ Do(L_negate(acc), FALSE, -exact)

\* The Word16 operators, on the high half while the low half is empty.
WordOp(value, saturates, result) ==
  acc % 2^W = 0 /\ Do(L_deposit_h(value), saturates, result)
Word == LET h == extract_h(acc) IN
          \/ \E a \in Operands :
               \/ WordOp(add(h, a), saturate_ovf(h + a), exact + a * 2^W)
               \/ WordOp(sub(h, a), saturate_ovf(h - a), exact - a * 2^W)
               \/ WordOp(i_mult(h, a), saturate_ovf(h * a), exact * a)
          \/ \E n \in Shifts : n > 0 /\ WordOp(shl(h, n), shl_ovf(h, n), exact * 2^n)
          \/ h # MIN_16 /\ WordOp(negate(h), FALSE, -exact)
          \/ h # MIN_16 /\ WordOp(abs_s(h), FALSE, IF exact < 0 THEN -exact ELSE exact)

Next == Load \/ Mac \/ Msu \/ Mac0 \/ Msu0 \/ Add \/ Sub \/ Shl \/ Shr \/ Fold \/ Word

Spec == Init /\ [][Next]_vars
-----------------------------------------------------------------------------
TypeOK == acc \in Word32 /\ Overflow \in BOOLEAN /\ exact \in Int

\* A computation that leaves Overflow clear has the exact value, whatever the
\* order of its sums, products and shifts: no operator saturates, wraps or
\* drops a sign without setting the flag (basop32.c: L_mac, L_msu, L_add, ...).
ExactUnlessOverflow == ~Overflow => acc = exact

\* norm_l counts the shifts L_shl can make without loss: the normalised value
\* has its top bit next to the sign, L_shr brings the value back, and one
\* shift more saturates.  norm_s is the same of a word.
Normalises ==
  /\ acc # 0 =>
       LET n == norm_l(acc) IN
       /\ \/ acc = -1
          \/ ~L_shl_ovf(acc, n) /\ Magnitude(L_shl(acc, n)) >= Quarter
       /\ L_shr(L_shl(acc, n), n) = acc
       /\ L_shl_ovf(acc, n + 1)
  /\ LET v == extract_h(acc) IN
       v \notin {0, -1} =>
         /\ shr(shl(v, norm_s(v)), norm_s(v)) = v
         /\ shl(v, norm_s(v) + 1) \in {MAX_16, MIN_16}

\* Two operands as one long: the first is its high half, the second is added.
Longs == {L_add(L_deposit_h(a), b) : a, b \in Operands}

\* The double precision format loses the lowest bit only.  What its operators
\* lose does not grow with the width of the word: a product is at most two
\* units above the exact one, rounded down, and seven below it (oper_32b.c
\* drops the product of the two low halves and truncates the crossed ones).
\* Div_32, for a normalised denominator and a smaller numerator, stays within
\* 2^6 units of the 2^(2W-1) in one: its Newton step leaves 2W-7 bits where
\* the word sized reciprocal it starts from has fewer than W.
DpfIsPrecise ==
  LET x == L_Extract(acc) IN
  /\ L_Comp(x.hi, x.lo) = acc - (acc % 2)
  /\ \A L \in Longs : LET y == L_Extract(L) IN
       ~L_mult_ovf(x.hi, y.hi) =>
         Mpy_32(x, y) - (acc * L) \div 2^(2*W - 1) \in -7..2
  /\ \A a \in Operands :
       ~L_mult_ovf(x.hi, a) => Mpy_32_16(x, a) - (acc * a) \div Half \in -2..1
  /\ x.hi > Half \div 2 =>
       \A L \in Longs \cup {acc - 1} :
         0 < L /\ L < acc =>
           Div_32(L, x) - (L * 2^(2*W - 1)) \div acc \in -(2^6)..1

\* Wherever the dividers do not abort, their quotient is the exact fraction
\* rounded down, saturated at one; L_mls is the exact product rounded down.
QuotientsAreFloors ==
  \A v \in Operands :
    /\ LET a == extract_h(acc) IN
       ~div_s_aborts(a, v) =>
         div_s(a, v) = IF a = v THEN MAX_16 ELSE (a * Half) \div v
    /\ ~div_l_exits(acc, v) =>
         div_l(acc, v) = IF acc >= v * 2^W THEN MAX_16
                         ELSE ((acc \div 2) * Half) \div (v * (2^W \div 2))
    /\ ~L_mult_ovf(v, extract_h(acc)) => L_mls(acc, v) = (acc * v) \div Half

\* The rounding operators round to the nearest, halves up: shr_r and L_shr_r
\* by the last bit shifted out, intround, mac_r and msu_r by half a word.
RoundsToNearest ==
  /\ \A n \in Shifts : n > 0 =>
       /\ L_shr_r(acc, n) = (acc + 2^(n-1)) \div 2^n
       /\ LET v == extract_h(acc) IN
          shr_r(v, n) = IF n > W - 1 THEN 0 ELSE (v + 2^(n-1)) \div 2^n
  /\ \A a, b \in Operands :
       /\ ~saturate_ovf((a * b) \div Half) => mult_r(a, b) = (2 * a * b + Half) \div 2^W
       /\ ~L_mac_ovf(acc, a, b) /\ ~intround_ovf(L_mac(acc, a, b)) =>
            mac_r(acc, a, b) = (acc + 2 * a * b + Half) \div 2^W
       /\ ~L_msu_ovf(acc, a, b) /\ ~intround_ovf(L_msu(acc, a, b)) =>
            msu_r(acc, a, b) = (acc - 2 * a * b + Half) \div 2^W

\* Two L_add_c in a row, the low words first with Carry cleared, add two
\* numbers of two words exactly: Carry is the carry of the unsigned sum.  And
\* a sum left to wrap by L_macNs or L_msuNs, saturated at its end by L_sat
\* from the two flags, is the sum L_mac or L_msu saturates at once.
CarryChains ==
  LET unsigned(v) == v % 2^(2*W)
      flags(c)    == [ovf |-> FALSE, carry |-> c]
  IN
  \A a, b \in Operands :
    /\ \A c \in {0, 1} : LET y == L_add(L_deposit_h(a), b)
                            s == L_add_c(acc, y, flags(c))
         IN unsigned(acc) + unsigned(y) + c = unsigned(s.v) + s.carry * 2^(2*W)
    /\ LET s == L_macNs(acc, a, b, flags(0)) IN L_sat(s.v, s).v = L_mac(acc, a, b)
    /\ LET s == L_msuNs(acc, a, b, flags(1)) IN L_sat(s.v, s).v = L_msu(acc, a, b)

\* Every operator that scales, divides, rounds or carries computes what its
\* comment says of the exact integers, at the corners of its domain too.
OperatorsAreExact == Normalises /\ QuotientsAreFloors /\ RoundsToNearest /\ CarryChains
=============================================================================
