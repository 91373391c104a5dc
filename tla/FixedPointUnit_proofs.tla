------------------------ MODULE FixedPointUnit_proofs ------------------------
(***************************************************************************)
(* The basic operators, at every width from 3 to 16 bits and for any       *)
(* operands: what each computes of the exact integers, and that a          *)
(* computation that leaves Overflow clear is exact from end to end.  The   *)
(* loops of the code (L_shl, the long division) are followed turn by turn  *)
(* by induction on the count.                                              *)
(***************************************************************************)
EXTENDS FixedPointUnit, WellFoundedInduction, TLAPS

-----------------------------------------------------------------------------
(* The widths, induction and division.                                     *)

\* What the literals of the code are, for each width.
LEMMA Widths ==
  /\ Half \in Nat /\ Half >= 4 /\ Quarter = Half * Half /\ 2^W = 2 * Half
  /\ MAX_16 = Half - 1 /\ MIN_16 = -Half
  /\ MAX_32 = 2 * Quarter - 1 /\ MIN_32 = -(2 * Quarter)
  /\ W \in Nat /\ Quarter \in Nat /\ Quarter >= 16
  /\ 2^(2 * W) = 4 * Quarter /\ Half = 2 * (Half \div 2)
<1> DEFINE Ok == Half \in Nat /\ Half >= 4 /\ Quarter = Half * Half /\ 2^W = 2 * Half
                 /\ Quarter \in Nat /\ Quarter >= 16
                 /\ 2^(2 * W) = 4 * Quarter /\ Half = 2 * (Half \div 2)
<1> SUFFICES Ok
  BY WidthAssumption DEF MAX_16, MIN_16, MAX_32, MIN_32
<1>1. CASE W = 3
  BY <1>1, SMT DEF Half, Quarter
<1>2. CASE W = 4
  BY <1>2, SMT DEF Half, Quarter
<1>3. CASE W = 5
  BY <1>3, SMT DEF Half, Quarter
<1>4. CASE W = 6
  BY <1>4, SMT DEF Half, Quarter
<1>5. CASE W = 7
  BY <1>5, SMT DEF Half, Quarter
<1>6. CASE W = 8
  BY <1>6, SMT DEF Half, Quarter
<1>7. CASE W = 9
  BY <1>7, SMT DEF Half, Quarter
<1>8. CASE W = 10
  BY <1>8, SMT DEF Half, Quarter
<1>9. CASE W = 11
  BY <1>9, SMT DEF Half, Quarter
<1>10. CASE W = 12
  BY <1>10, SMT DEF Half, Quarter
<1>11. CASE W = 13
  BY <1>11, SMT DEF Half, Quarter
<1>12. CASE W = 14
  BY <1>12, SMT DEF Half, Quarter
<1>13. CASE W = 15
  BY <1>13, SMT DEF Half, Quarter
<1>14. CASE W = 16
  BY <1>14, SMT DEF Half, Quarter
<1>15. \/ W = 3 \/ W = 4 \/ W = 5 \/ W = 6 \/ W = 7 \/ W = 8 \/ W = 9
       \/ W = 10 \/ W = 11 \/ W = 12 \/ W = 13 \/ W = 14 \/ W = 15 \/ W = 16
  BY WidthAssumption
<1> QED BY <1>1, <1>2, <1>3, <1>4, <1>5, <1>6, <1>7, <1>8, <1>9, <1>10, <1>11, <1>12, <1>13, <1>14, <1>15

\* The powers of two up to the width of a Word32 and a bit more.
LEMMA Powers ==
  /\ 2^0 = 1
  /\ \A n \in 0..33 : 2^n \in Nat /\ 2^n >= 1 /\ 2^(n + 1) = 2 * 2^n
<1> DEFINE Ok(n) == 2^n \in Nat /\ 2^n >= 1 /\ 2^(n + 1) = 2 * 2^n
<1>1. /\ Ok(0) /\ Ok(1) /\ Ok(2) /\ Ok(3) /\ Ok(4) /\ Ok(5) /\ Ok(6) /\ Ok(7) /\ Ok(8)
      /\ Ok(9) /\ Ok(10) /\ Ok(11) /\ Ok(12) /\ Ok(13) /\ Ok(14) /\ Ok(15) /\ Ok(16)
      /\ Ok(17) /\ Ok(18) /\ Ok(19) /\ Ok(20) /\ Ok(21) /\ Ok(22) /\ Ok(23) /\ Ok(24)
      /\ Ok(25) /\ Ok(26) /\ Ok(27) /\ Ok(28) /\ Ok(29) /\ Ok(30) /\ Ok(31) /\ Ok(32) /\ Ok(33)
  BY SMT
<1>2. ASSUME NEW n \in 0..33 PROVE Ok(n)
  <2>1. \/ n = 0 \/ n = 1 \/ n = 2 \/ n = 3 \/ n = 4 \/ n = 5 \/ n = 6 \/ n = 7 \/ n = 8
        \/ n = 9 \/ n = 10 \/ n = 11 \/ n = 12 \/ n = 13 \/ n = 14 \/ n = 15 \/ n = 16
        \/ n = 17 \/ n = 18 \/ n = 19 \/ n = 20 \/ n = 21 \/ n = 22 \/ n = 23 \/ n = 24
        \/ n = 25 \/ n = 26 \/ n = 27 \/ n = 28 \/ n = 29 \/ n = 30 \/ n = 31 \/ n = 32 \/ n = 33
    OBVIOUS
  <2> HIDE DEF Ok
  <2> QED BY <1>1, <2>1
<1>3. 2^0 = 1
  BY SMT
<1> QED BY <1>2, <1>3

\* A set of naturals has a least.
LEMMA Least ==
  ASSUME NEW T \in SUBSET Nat, T # {}
  PROVE  \E x \in T : \A y \in T : ~(y < x)
<1> DEFINE R == OpToRel(<, Nat)
<1>1. \A x, y \in Nat : <<y, x>> \in R <=> y < x
  BY DEF OpToRel
<1>2. IsWellFoundedOn(R, Nat)
  BY NatLessThanWellFounded
<1>3. T \subseteq Nat
  OBVIOUS
<1> HIDE DEF R
<1>4. PICK x \in T : \A y \in T : ~(<<y, x>> \in R)
  BY <1>2, <1>3, WFMin
<1> QED BY <1>1, <1>3, <1>4

\* A set of naturals with 0 and every successor has them all.
LEMMA Induction ==
  ASSUME NEW S \in SUBSET Nat, 0 \in S, \A n \in S : n + 1 \in S
  PROVE  S = Nat
<1> DEFINE T == Nat \ S
<1> SUFFICES ASSUME T # {} PROVE FALSE
  OBVIOUS
<1>1. PICK x \in T : \A y \in T : ~(y < x)
  <2>1. T \in SUBSET Nat
    OBVIOUS
  <2> HIDE DEF T
  <2> QED BY <2>1, Least
<1>2. x \in Nat /\ x \notin S /\ x # 0 /\ x - 1 \in Nat
  OBVIOUS
<1>3. x - 1 \in S
  BY <1>1, <1>2
<1>4. x - 1 + 1 \in S
  BY <1>3
<1>5. x - 1 + 1 = x
  BY <1>2
<1> QED BY <1>2, <1>4, <1>5

\* The powers of two grow, and multiply.
LEMMA PowersGrow ==
  /\ \A n \in 0..33 : \A m \in 0..n : 2^m <= 2^n
  /\ \A m, n \in 0..33 : m + n <= 33 => 2^m * 2^n = 2^(m + n)
<1> DEFINE E(n) == 2^n
<1>1. \A n \in 0..33 : E(n) \in Nat /\ E(n) >= 1 /\ E(n + 1) = 2 * E(n)
  BY Powers, Zenon
<1>2. E(0) = 1
  BY Powers
<1> HIDE DEF E
<1> DEFINE P == {n \in Nat : n <= 33 => \A m \in 0..n : E(m) <= E(n)}
           R == {n \in Nat : n <= 33 => \A m \in 0..33 : m + n <= 33 => E(m) * E(n) = E(m + n)}
<1>3. 0 \in P
  BY <1>2
<1>4. ASSUME NEW n \in P PROVE n + 1 \in P
  <2> SUFFICES ASSUME n + 1 <= 33, NEW m \in 0..(n + 1) PROVE E(m) <= E(n + 1)
    OBVIOUS
  <2>1. n \in 0..33 /\ m \in 0..33
    OBVIOUS
  <2>2. E(n + 1) = 2 * E(n) /\ E(n) \in Nat /\ E(m) \in Nat
    BY <1>1, <2>1
  <2>3. m = n + 1 \/ m \in 0..n
    OBVIOUS
  <2>4. m \in 0..n => E(m) <= E(n)
    OBVIOUS
  <2> QED BY <2>2, <2>3, <2>4
<1>5. 0 \in R
  <2> SUFFICES ASSUME NEW m \in 0..33 PROVE E(m) * E(0) = E(m + 0)
    OBVIOUS
  <2>1. E(m) \in Nat /\ m + 0 = m
    BY <1>1
  <2> QED BY <1>2, <2>1
<1>6. ASSUME NEW n \in R PROVE n + 1 \in R
  <2> SUFFICES ASSUME n + 1 <= 33, NEW m \in 0..33, m + (n + 1) <= 33
               PROVE E(m) * E(n + 1) = E(m + (n + 1))
    OBVIOUS
  <2>1. n \in 0..33 /\ m + n \in 0..33 /\ m + (n + 1) = (m + n) + 1 /\ n <= 33 /\ m + n <= 33
    OBVIOUS
  <2>2. E(m) * E(n) = E(m + n)
    BY <2>1
  <2>3. /\ E(n + 1) = 2 * E(n) /\ E(n) \in Nat /\ E(m) \in Nat /\ E(m + n) \in Nat
        /\ E((m + n) + 1) = 2 * E(m + n)
    BY <1>1, <2>1
  <2> DEFINE x == E(m)
             y == E(n)
             z == E(m + n)
  <2>4. x \in Nat /\ y \in Nat /\ x * y = z
    BY <2>2, <2>3
  <2> HIDE DEF x, y, z
  <2>5. x * (2 * y) = 2 * z
    BY <2>4, SMT
  <2>6. E(n + 1) = 2 * y /\ E(m + (n + 1)) = 2 * z
    BY <2>1, <2>3 DEF y, z
  <2> QED BY <2>5, <2>6 DEF x
<1>7. P = Nat /\ R = Nat
  <2>1. P \subseteq Nat /\ R \subseteq Nat
    OBVIOUS
  <2> HIDE DEF P, R
  <2> QED BY <1>3, <1>4, <1>5, <1>6, <2>1, Induction
<1>8. ASSUME NEW n \in 0..33 PROVE n \in P /\ n \in R /\ n <= 33
  <2> HIDE DEF P, R
  <2> QED BY <1>7
<1>9. /\ \A n \in 0..33 : \A m \in 0..n : E(m) <= E(n)
      /\ \A m, n \in 0..33 : m + n <= 33 => E(m) * E(n) = E(m + n)
  BY <1>8
<1> QED BY <1>9, Zenon DEF E

\* What the quotient and the remainder are known by.
LEMMA DivIs ==
  ASSUME NEW p \in Nat, p >= 1, NEW q \in Int, NEW r \in 0..(p - 1), NEW x \in Int, x = q * p + r
  PROVE  x \div p = q /\ x % p = r
<1> DEFINE d == x \div p
           m == x % p
<1>1. d \in Int /\ m \in 0..(p - 1) /\ x = d * p + m
  BY SMT
<1> HIDE DEF d, m
<1>2. d = q
  <2>1. d < q => d * p + p <= q * p
    BY <1>1, SMT
  <2>2. d > q => q * p + p <= d * p
    BY <1>1, SMT
  <2> DEFINE y == d * p
             z == q * p
  <2>3. y \in Int /\ z \in Int /\ x = y + m /\ x = z + r
    BY <1>1
  <2> HIDE DEF y, z
  <2> QED BY <1>1, <2>1, <2>2, <2>3 DEF y, z
<1>3. m = r
  <2> DEFINE y == d * p
  <2>1. y \in Int /\ x = y + m /\ x = y + r
    BY <1>1, <1>2
  <2> HIDE DEF y
  <2> QED BY <1>1, <2>1
<1> QED BY <1>2, <1>3 DEF d, m

\* Half of the divisor added before the division rounds it to the nearest: it
\* is the quotient rounded down plus the last bit that it drops.
LEMMA HalfUp ==
  ASSUME NEW x \in Int, NEW p \in Nat, p >= 1
  PROVE  x \div (2 * p) + ((x \div p) % 2) = (x + p) \div (2 * p)
<1> DEFINE d == x \div p
           m == x % p
           k == d \div 2
           b == d % 2
<1>1. d \in Int /\ m \in 0..(p - 1) /\ x = d * p + m
  BY SMT
<1> HIDE DEF d, m
<1>2. k \in Int /\ b \in 0..1 /\ d = 2 * k + b
  BY <1>1, SMT
<1> HIDE DEF k, b
<1>3. x = k * (2 * p) + (b * p + m) /\ b * p + m \in 0..(2 * p - 1)
  BY <1>1, <1>2, SMT
<1>4. x \div (2 * p) = k
  BY <1>2, <1>3, DivIs
<1>5. CASE b = 0
  <2>1. x + p = k * (2 * p) + (m + p) /\ m + p \in 0..(2 * p - 1)
    BY <1>1, <1>2, <1>3, <1>5, SMT
  <2> DEFINE y == x + p
             e == 2 * p
             r == m + p
  <2>2. y \in Int /\ e \in Nat /\ e >= 1 /\ r \in 0..(e - 1) /\ y = k * e + r
    BY <2>1
  <2> HIDE DEF y, e, r
  <2>3. y \div e = k
    BY <1>2, <2>2, DivIs
  <2>4. (x + p) \div (2 * p) = k
    BY <2>3 DEF y, e
  <2> QED BY <1>2, <1>4, <1>5, <2>4 DEF b, d
<1>6. CASE b = 1
  <2>1. x + p = (k + 1) * (2 * p) + m /\ m \in 0..(2 * p - 1)
    BY <1>1, <1>2, <1>3, <1>6, SMT
  <2>2. (x + p) \div (2 * p) = k + 1
    BY <1>2, <2>1, DivIs
  <2> QED BY <1>2, <1>4, <1>6, <2>2 DEF b, d
<1> QED BY <1>2, <1>5, <1>6

-----------------------------------------------------------------------------
(* The operators.                                                          *)

\* The counts of the shifts.
LEMMA ShiftsAre ==
  ASSUME NEW n \in Shifts
  PROVE  n \in Int /\ -W <= n /\ n <= W /\ W \in 3..16
BY OperandsAssumption, WidthAssumption

\* A product of two words has twice the bits but one.
LEMMA ProductFits ==
  ASSUME NEW a \in Word16, NEW b \in Word16
  PROVE  /\ a \in Int /\ b \in Int /\ a * b \in Int
         /\ -Quarter <= a * b /\ a * b <= Quarter
<1>1. a \in Int /\ b \in Int /\ -Half <= a /\ a <= Half /\ -Half <= b /\ b <= Half /\ Half \in Nat
  BY Widths DEF Word16
<1>2. -(Half * Half) <= a * b /\ a * b <= Half * Half
  <2> HIDE DEF Half
  <2> QED BY <1>1, SMT
<1> QED BY <1>1, <1>2, Widths

\* Only MIN_16 * MIN_16 comes near the square of Half.
LEMMA ProductBelow ==
  ASSUME NEW a \in Word16, NEW b \in Word16
  PROVE  /\ a * b >= Half - Quarter
         /\ a * b = Quarter \/ a * b <= Quarter - Half
<1> DEFINE H == Half
<1>1. /\ H \in Nat /\ H >= 4 /\ Quarter = H * H
      /\ a \in Int /\ b \in Int /\ -H <= a /\ a <= H - 1 /\ -H <= b /\ b <= H - 1
  BY Widths DEF Word16
<1> HIDE DEF H
<1>2. a * b >= H - H * H
  <2>1. CASE a >= 0 /\ b >= 0
    <3>1. a * b >= 0 /\ H * H >= H
      BY <1>1, <2>1, SMT
    <3> QED BY <1>1, <3>1, SMT
  <2>2. CASE a < 0 /\ b < 0
    <3>1. a * b >= 0 /\ H * H >= H
      BY <1>1, <2>2, SMT
    <3> QED BY <1>1, <3>1, SMT
  <2>3. CASE a < 0 /\ b >= 0
    <3>1. a * b >= (-H) * b /\ (-H) * b >= (-H) * (H - 1)
      BY <1>1, <2>3, SMT
    <3>2. (-H) * (H - 1) = H - H * H
      BY <1>1, SMT
    <3> DEFINE x == a * b
               y == (-H) * b
               z == (-H) * (H - 1)
               w == H * H
    <3>3. x \in Int /\ y \in Int /\ z \in Int /\ w \in Int /\ x >= y /\ y >= z /\ z = H - w
      BY <1>1, <3>1, <3>2
    <3> HIDE DEF x, y, z, w
    <3>4. x >= H - w
      BY <1>1, <3>3
    <3> QED BY <3>4 DEF x, w
  <2>4. CASE a >= 0 /\ b < 0
    <3>1. a * b >= a * (-H) /\ a * (-H) >= (H - 1) * (-H)
      BY <1>1, <2>4, SMT
    <3>2. (H - 1) * (-H) = H - H * H
      BY <1>1, SMT
    <3> DEFINE x == a * b
               y == a * (-H)
               z == (H - 1) * (-H)
               w == H * H
    <3>3. x \in Int /\ y \in Int /\ z \in Int /\ w \in Int /\ x >= y /\ y >= z /\ z = H - w
      BY <1>1, <3>1, <3>2
    <3> HIDE DEF x, y, z, w
    <3>4. x >= H - w
      BY <1>1, <3>3
    <3> QED BY <3>4 DEF x, w
  <2> QED BY <1>1, <2>1, <2>2, <2>3, <2>4
<1>3. a * b = H * H \/ a * b <= H * H - H
  <2>1. CASE a = -H /\ b = -H
    BY <1>1, <2>1, SMT
  <2>2. CASE a <= 0 /\ b <= 0 /\ ~(a = -H /\ b = -H)
    <3>1. CASE a >= 1 - H
      <4>1. (-a) * (-b) <= (H - 1) * (-b) /\ (H - 1) * (-b) <= (H - 1) * H
        BY <1>1, <2>2, <3>1, SMT
      <4>2. (-a) * (-b) = a * b /\ (H - 1) * H = H * H - H
        BY <1>1, SMT
      <4> QED BY <1>1, <4>1, <4>2, SMT
    <3>2. CASE b >= 1 - H
      <4>1. (-a) * (-b) <= (-a) * (H - 1) /\ (-a) * (H - 1) <= H * (H - 1)
        BY <1>1, <2>2, <3>2, SMT
      <4>2. (-a) * (-b) = a * b /\ H * (H - 1) = H * H - H
        BY <1>1, SMT
      <4> QED BY <1>1, <4>1, <4>2, SMT
    <3> QED BY <1>1, <2>2, <3>1, <3>2
  <2>3. CASE a >= 0 /\ b >= 0
    <3>1. a * b <= (H - 1) * b /\ (H - 1) * b <= (H - 1) * H
      BY <1>1, <2>3, SMT
    <3>2. (H - 1) * H = H * H - H
      BY <1>1, SMT
    <3> QED BY <1>1, <3>1, <3>2, SMT
  <2>4. CASE (a < 0 /\ b > 0) \/ (a > 0 /\ b < 0)
    <3>1. a * b <= 0 /\ H * H >= H
      BY <1>1, <2>4, SMT
    <3> QED BY <1>1, <3>1, SMT
  <2> QED BY <1>1, <2>1, <2>2, <2>3, <2>4
<1> QED BY <1>1, <1>2, <1>3 DEF H

\* L_add and L_sub are exact unless they say so, and never leave their range.
LEMMA SumIs ==
  ASSUME NEW x \in Word32, NEW y \in Word32
  PROVE  /\ L_add(x, y) \in Word32 /\ (~L_add_ovf(x, y) => L_add(x, y) = x + y)
         /\ L_sub(x, y) \in Word32 /\ (~L_sub_ovf(x, y) => L_sub(x, y) = x - y)
         /\ L_add_ovf(x, y) <=> ~(x + y \in Word32)
         /\ L_sub_ovf(x, y) <=> ~(x - y \in Word32)
         /\ L_add_ovf(x, y) => L_add(x, y) = IF x < 0 THEN MIN_32 ELSE MAX_32
         /\ L_sub_ovf(x, y) => L_sub(x, y) = IF x < 0 THEN MIN_32 ELSE MAX_32
<1>1. Quarter \in Nat /\ Quarter >= 16 /\ MAX_32 = 2 * Quarter - 1 /\ MIN_32 = -(2 * Quarter)
  BY Widths
<1> HIDE DEF Quarter, MAX_32, MIN_32
<1> QED BY <1>1 DEF Word32, L_add, L_sub, L_add_ovf, L_sub_ovf

\* L_mult is twice the product, but for the one that does not fit.
LEMMA MultIs ==
  ASSUME NEW a \in Word16, NEW b \in Word16
  PROVE  /\ L_mult(a, b) \in Word32 /\ L_mult0(a, b) \in Word32 /\ L_mult0(a, b) = a * b
         /\ ~L_mult_ovf(a, b) => L_mult(a, b) = 2 * (a * b)
<1> DEFINE p == a * b
<1>1. p \in Int /\ -Quarter <= p /\ p <= Quarter
  BY ProductFits
<1>2. Quarter \in Nat /\ Quarter >= 16 /\ MAX_32 = 2 * Quarter - 1 /\ MIN_32 = -(2 * Quarter)
  BY Widths
<1>3. L_mult(a, b) = IF p = Quarter THEN MAX_32 ELSE 2 * p
  BY DEF L_mult, L_mult_ovf
<1>4. L_mult0(a, b) = p /\ (L_mult_ovf(a, b) <=> p = Quarter)
  BY DEF L_mult0, L_mult_ovf
<1> HIDE DEF p
<1>5. /\ L_mult(a, b) \in Word32 /\ L_mult0(a, b) \in Word32 /\ L_mult0(a, b) = p
      /\ ~L_mult_ovf(a, b) => L_mult(a, b) = 2 * p
  BY <1>1, <1>2, <1>3, <1>4 DEF Word32
<1> QED BY <1>5 DEF p

\* A word is deposited in either half, and the high half is found again.
LEMMA DepositIs ==
  ASSUME NEW a \in Word16
  PROVE  /\ L_deposit_h(a) \in Word32 /\ L_deposit_l(a) \in Word32
         /\ L_deposit_h(a) = a * (2 * Half)
<1>1. /\ Half \in Nat /\ Half >= 4 /\ Quarter = Half * Half /\ 2^W = 2 * Half
      /\ MAX_32 = 2 * Quarter - 1 /\ MIN_32 = -(2 * Quarter) /\ Quarter \in Nat
      /\ a \in Int /\ -Half <= a /\ a <= Half - 1
  BY Widths DEF Word16
<1> DEFINE H == Half
<1>2. L_deposit_h(a) = a * (2 * H) /\ L_deposit_l(a) = a
  BY <1>1 DEF L_deposit_h, L_deposit_l
<1>3. -(2 * (H * H)) <= a * (2 * H) /\ a * (2 * H) <= 2 * (H * H) - 1 /\ H <= 2 * (H * H)
  BY <1>1, SMT
<1> QED BY <1>1, <1>2, <1>3 DEF Word32

\* The high half of a Word32 is a Word16.
LEMMA HighHalf ==
  ASSUME NEW x \in Word32
  PROVE  /\ extract_h(x) \in Word16
         /\ x % 2^W \in 0..(2 * Half - 1) /\ x = extract_h(x) * (2 * Half) + (x % 2^W)
<1> DEFINE H == Half
           h == x \div (2 * H)
           l == x % (2 * H)
<1>1. /\ H \in Nat /\ H >= 4 /\ 2^W = 2 * H /\ x \in Int
      /\ -(2 * (H * H)) <= x /\ x <= 2 * (H * H) - 1
  BY Widths DEF Word32
<1>2. h \in Int /\ l \in 0..(2 * H - 1) /\ x = h * (2 * H) + l
  BY <1>1, SMT
<1>3. extract_h(x) = h /\ x % 2^W = l
  BY <1>1 DEF extract_h
<1> HIDE DEF h, l, H
<1>4. -H <= h /\ h <= H - 1
  <2>1. h < -H => h * (2 * H) + 2 * H <= -(2 * (H * H))
    BY <1>1, <1>2, SMT
  <2>2. h > H - 1 => h * (2 * H) >= 2 * (H * H)
    BY <1>1, <1>2, SMT
  <2> DEFINE hh == h * (2 * H)
             q == H * H
  <2>3. hh \in Int /\ q \in Int
    BY <1>1, <1>2
  <2> HIDE DEF hh, q
  <2> QED BY <1>1, <1>2, <2>1, <2>2, <2>3 DEF hh, q
<1> QED BY <1>2, <1>3, <1>4, Widths DEF H, Word16

\* What one turn of the loop of L_shl makes of the value and the flag.
Twice(s) ==
  IF s.ovf THEN s
  ELSE CASE s.v > Quarter - 1 -> [v |-> MAX_32, ovf |-> TRUE]
         [] s.v < -Quarter    -> [v |-> MIN_32, ovf |-> TRUE]
         [] OTHER             -> [v |-> 2 * s.v, ovf |-> FALSE]

\* L_shl is its loop, turn by turn.
LEMMA DoubledByTurns ==
  ASSUME NEW L, NEW n \in Nat
  PROVE  \E t : /\ Doubled(L, n) = t[n] /\ t[0] = [v |-> L, ovf |-> FALSE]
                /\ \A i \in 1..n : t[i] = Twice(t[i - 1])
<1> DEFINE z == [v |-> L, ovf |-> FALSE]
           Ok(t, k) == t = [i \in 0..k |-> IF i = 0 THEN z ELSE Twice(t[i - 1])]
           P == {k \in Nat : \E t : Ok(t, k)}
<1> HIDE DEF z
<1>1. 0 \in P
  <2> DEFINE t == [i \in 0..0 |-> z]
  <2>1. Ok(t, 0)
    OBVIOUS
  <2> HIDE DEF t, Ok
  <2> QED BY <2>1
<1>2. ASSUME NEW k \in P PROVE k + 1 \in P
  <2>1. PICK t : Ok(t, k)
    OBVIOUS
  <2> DEFINE u == [i \in 0..(k + 1) |-> IF i = 0 THEN z ELSE Twice(t[i - 1])]
  <2>2. \A i \in 0..k : u[i] = t[i]
    BY <2>1
  <2>3. \A i \in 0..(k + 1) : i # 0 => i - 1 \in 0..k
    OBVIOUS
  <2>4. \A i \in 0..(k + 1) : i # 0 => u[i - 1] = t[i - 1]
    BY <2>2, <2>3
  <2>5. Ok(u, k + 1)
    BY <2>4
  <2> HIDE DEF u, Ok
  <2> QED BY <2>5
<1>3. P = Nat
  <2>1. P \subseteq Nat
    OBVIOUS
  <2> HIDE DEF P
  <2> QED BY <1>1, <1>2, <2>1, Induction
<1>4. PICK t : Ok(t, n)
  BY <1>3
<1>5. PICK q : q = CHOOSE f : Ok(f, n)
  OBVIOUS
<1>6. Ok(q, n)
  BY <1>4, <1>5, Zenon
<1>7. Doubled(L, n) = q[n]
  BY <1>5, Zenon DEF Doubled, Twice, z
<1>8. q[0] = z /\ \A i \in 1..n : q[i] = Twice(q[i - 1])
  <2>1. 0 \in 0..n /\ \A i \in 1..n : i \in 0..n /\ i # 0
    OBVIOUS
  <2> QED BY <1>6, <2>1
<1> QED BY <1>7, <1>8 DEF z

\* A value kept in the range of a Word32, from above or from below.
Kept(x) == IF x > MAX_32 THEN MAX_32 ELSE IF x < MIN_32 THEN MIN_32 ELSE x

\* The value and the flag that say so.
KeptFlag(x) == IF x \in Word32 THEN [v |-> x, ovf |-> FALSE] ELSE [v |-> Kept(x), ovf |-> TRUE]

\* Twice keeps to that, from a value and its double.
LEMMA TwiceKept ==
  ASSUME NEW x \in Int
  PROVE  Twice(KeptFlag(x)) = KeptFlag(2 * x)
<1> DEFINE Q == Quarter
<1>1. /\ Q \in Nat /\ Q >= 16 /\ MAX_32 = 2 * Q - 1 /\ MIN_32 = -(2 * Q)
      /\ Word32 = -(2 * Q)..(2 * Q - 1)
  BY Widths DEF Word32
<1> HIDE DEF Q
<1>2. CASE x \notin Word32
  <2> DEFINE s == [v |-> Kept(x), ovf |-> TRUE]
  <2>1. KeptFlag(x) = s /\ s.ovf = TRUE
    BY <1>2 DEF KeptFlag
  <2>2. 2 * x \notin Word32 /\ Kept(2 * x) = Kept(x)
    BY <1>1, <1>2 DEF Kept
  <2>3. KeptFlag(2 * x) = s
    BY <2>2 DEF KeptFlag
  <2>4. Twice(s) = s
    <3> HIDE DEF s
    <3> QED BY <2>1 DEF Twice
  <2> QED BY <2>1, <2>3, <2>4
<1>3. CASE x \in Word32
  <2> DEFINE s == [v |-> x, ovf |-> FALSE]
  <2>1. KeptFlag(x) = s /\ s.ovf = FALSE /\ s.v = x
    BY <1>3 DEF KeptFlag
  <2>2. Twice(s) = IF x > Q - 1 THEN [v |-> MAX_32, ovf |-> TRUE]
                   ELSE IF x < -Q THEN [v |-> MIN_32, ovf |-> TRUE]
                   ELSE [v |-> 2 * x, ovf |-> FALSE]
    <3> HIDE DEF s
    <3> QED BY <1>1, <2>1 DEF Twice, Q
  <2>3. CASE x > Q - 1
    <3>1. 2 * x \notin Word32 /\ Kept(2 * x) = MAX_32
      BY <1>1, <2>3 DEF Kept
    <3> QED BY <2>1, <2>2, <2>3, <3>1 DEF KeptFlag
  <2>4. CASE x < -Q
    <3>1. 2 * x \notin Word32 /\ Kept(2 * x) = MIN_32 /\ ~(x > Q - 1)
      BY <1>1, <2>4 DEF Kept
    <3> QED BY <2>1, <2>2, <2>4, <3>1 DEF KeptFlag
  <2>5. CASE ~(x > Q - 1) /\ ~(x < -Q)
    <3>1. 2 * x \in Word32
      BY <1>1, <2>5
    <3> QED BY <2>1, <2>2, <2>5, <3>1 DEF KeptFlag
  <2> QED BY <2>3, <2>4, <2>5
<1> QED BY <1>2, <1>3

\* Doubling n times is multiplying by 2^n, with the flag where that does not fit.
LEMMA DoubledIs ==
  ASSUME NEW L \in Word32, NEW n \in 0..33
  PROVE  /\ L * 2^n \in Int
         /\ Doubled(L, n) = KeptFlag(L * 2^n)
<1>1. PICK t : /\ Doubled(L, n) = t[n] /\ t[0] = [v |-> L, ovf |-> FALSE]
               /\ \A i \in 1..n : t[i] = Twice(t[i - 1])
  <2>1. n \in Nat
    OBVIOUS
  <2> HIDE DEF Twice
  <2> QED BY <2>1, DoubledByTurns
<1>2. L \in Int /\ L * 2^0 = L
  BY Powers, Widths DEF Word32
<1>3. ASSUME NEW i \in 0..33 PROVE L * 2^i \in Int /\ L * 2^(i + 1) = 2 * (L * 2^i)
  <2> DEFINE p == 2^i
  <2>1. p \in Nat /\ 2^(i + 1) = 2 * p
    BY Powers
  <2> HIDE DEF p
  <2>2. L * (2 * p) = 2 * (L * p) /\ L * p \in Int
    BY <1>2, <2>1, SMT
  <2>3. L * 2^(i + 1) = L * (2 * p)
    BY <2>1
  <2> QED BY <2>2, <2>3 DEF p
<1> DEFINE P == {i \in Nat : i \in 0..n => t[i] = KeptFlag(L * 2^i)}
<1>4. 0 \in P
  BY <1>1, <1>2 DEF KeptFlag
<1>5. ASSUME NEW i \in P PROVE i + 1 \in P
  <2> SUFFICES ASSUME i + 1 \in 0..n PROVE t[i + 1] = KeptFlag(L * 2^(i + 1))
    OBVIOUS
  <2>1. i \in 0..n /\ i + 1 \in 1..n /\ (i + 1) - 1 = i /\ i \in 0..33
    OBVIOUS
  <2>2. t[i] = KeptFlag(L * 2^i) /\ t[i + 1] = Twice(t[i])
    BY <1>1, <2>1
  <2>3. Twice(KeptFlag(L * 2^i)) = KeptFlag(2 * (L * 2^i))
    BY <1>3, <2>1, TwiceKept
  <2> QED BY <1>3, <2>1, <2>2, <2>3
<1>6. P = Nat
  <2>1. P \subseteq Nat
    OBVIOUS
  <2> HIDE DEF P
  <2> QED BY <1>4, <1>5, <2>1, Induction
<1>7. t[n] = KeptFlag(L * 2^n)
  <2>1. n \in Nat /\ n \in 0..n
    OBVIOUS
  <2>2. n \in P
    <3> HIDE DEF P
    <3> QED BY <1>6, <2>1
  <2> QED BY <2>1, <2>2
<1> QED BY <1>1, <1>3, <1>7

\* A shift down keeps its place in the range.
LEMMA LongDownIs ==
  ASSUME NEW L \in Word32, NEW n \in 0..16
  PROVE  LongDown(L, n) \in Word32 /\ (n \in 0..W => LongDown(L, n) = L \div 2^n)
<1> DEFINE Q == Quarter
           p == 2^n
           q == L \div p
           r == L % p
<1>1. Q \in Nat /\ Q >= 16 /\ Word32 = -(2 * Q)..(2 * Q - 1) /\ L \in Int
  BY Widths DEF Word32
<1>2. p \in Nat /\ p >= 1
  <2>1. n \in 0..33
    OBVIOUS
  <2> QED BY <2>1, Powers, Zenon
<1> HIDE DEF p, Q
<1>3. q \in Int /\ r \in 0..(p - 1) /\ L = p * q + r
  BY <1>1, <1>2, SMT
<1> HIDE DEF q, r
<1>4. /\ q >= 0 => p * q >= q
      /\ q < 0 => p * (q + 1) <= q + 1 /\ p * (q + 1) = p * q + p
      /\ p * q \in Int
  BY <1>2, <1>3, SMT
<1> DEFINE y == p * q
           z == p * (q + 1)
<1>5. /\ y \in Int /\ L = y + r /\ (q >= 0 => y >= q)
      /\ q < 0 => z <= q + 1 /\ z = y + p
  BY <1>3, <1>4
<1> HIDE DEF y, z
<1>6. -(2 * Q) <= q /\ q <= 2 * Q - 1
  <2>1. q >= 0 => q <= L
    BY <1>1, <1>2, <1>3, <1>5
  <2>2. q < 0 => y + p <= q + 1
    BY <1>1, <1>2, <1>3, <1>5
  <2>3. q < 0 => L < q + 1
    BY <1>1, <1>2, <1>3, <1>5, <2>2
  <2> QED BY <1>1, <1>3, <2>1, <2>3
<1>7. -1 \in Word32 /\ 0 \in Word32 /\ q \in Word32
  BY <1>1, <1>3, <1>6
<1>8. LongDown(L, n) = IF n >= 2 * W - 1 THEN (IF L < 0 THEN -1 ELSE 0) ELSE q
  BY DEF LongDown, q, p
<1>9. n \in 0..W => ~(n >= 2 * W - 1)
  BY WidthAssumption
<1> QED BY <1>7, <1>8, <1>9 DEF q, p

\* saturate keeps a sum or a product in the range, and says when it must.
LEMMA SaturateIs ==
  ASSUME NEW v \in Int
  PROVE  saturate(v) \in Word16 /\ (~saturate_ovf(v) => saturate(v) = v)
<1>1. Half \in Nat /\ Half >= 4 /\ MAX_16 = Half - 1 /\ MIN_16 = -Half
  BY Widths
<1> HIDE DEF Half, MAX_16, MIN_16
<1> QED BY <1>1 DEF Word16, saturate, saturate_ovf

-----------------------------------------------------------------------------
(* The sums with carry.                                                    *)

\* A value a word too far is brought back.
LEMMA WrapIs ==
  ASSUME NEW v \in Int, -(6 * Quarter) <= v, v < 6 * Quarter
  PROVE  /\ v < MIN_32 => Wrap(v) = v + 4 * Quarter
         /\ v \in Word32 => Wrap(v) = v
         /\ v > MAX_32 => Wrap(v) = v - 4 * Quarter
         /\ v \in Word32 => v % 2^(2 * W) = IF v < 0 THEN v + 4 * Quarter ELSE v
<1> DEFINE Q == Quarter
           M == 4 * Q
<1>1. /\ Q \in Nat /\ Q >= 16 /\ MAX_32 = 2 * Q - 1 /\ MIN_32 = -(2 * Q) /\ 2^(2 * W) = M
  BY Widths
<1>2. v % M = IF v < -M THEN v + 2 * M ELSE IF v < 0 THEN v + M ELSE IF v < M THEN v ELSE v - M
  <2>1. M \in Nat /\ M >= 1 /\ v >= -(2 * M) /\ v < 2 * M
    BY <1>1
  <2> HIDE DEF M
  <2>2. CASE v < -M
    <3> DEFINE r == v + 2 * M
    <3>1. v = (-2) * M + r /\ r \in 0..(M - 1)
      BY <2>1, <2>2
    <3> HIDE DEF r
    <3>2. v % M = r
      BY <2>1, <3>1, DivIs
    <3> QED BY <2>1, <2>2, <3>2 DEF r
  <2>3. CASE -M <= v /\ v < 0
    <3> DEFINE r == v + M
    <3>1. v = (-1) * M + r /\ r \in 0..(M - 1)
      BY <2>1, <2>3
    <3> HIDE DEF r
    <3>2. v % M = r
      BY <2>1, <3>1, DivIs
    <3> QED BY <2>1, <2>3, <3>2 DEF r
  <2>4. CASE 0 <= v /\ v < M
    <3>1. v = 0 * M + v /\ v \in 0..(M - 1)
      BY <2>1, <2>4
    <3> QED BY <2>1, <2>4, <3>1, DivIs
  <2>5. CASE M <= v
    <3> DEFINE r == v - M
    <3>1. v = 1 * M + r /\ r \in 0..(M - 1)
      BY <2>1, <2>5
    <3> HIDE DEF r
    <3>2. v % M = r
      BY <2>1, <3>1, DivIs
    <3> QED BY <2>1, <2>5, <3>2 DEF r
  <2> QED BY <2>1, <2>2, <2>3, <2>4, <2>5
<1> DEFINE u == v % M
<1>3. Wrap(v) = (IF u > MAX_32 THEN u - M ELSE u) /\ v % 2^(2 * W) = u
  BY <1>1 DEF Wrap
<1> HIDE DEF u
<1>4. u = IF v < -M THEN v + 2 * M ELSE IF v < 0 THEN v + M ELSE IF v < M THEN v ELSE v - M
  BY <1>2 DEF u
<1> HIDE DEF Q
<1>5. -(6 * Q) <= v /\ v < 6 * Q
  BY DEF Q
<1>6. /\ v < MIN_32 => Wrap(v) = v + 4 * Q
      /\ v \in Word32 => Wrap(v) = v
      /\ v > MAX_32 => Wrap(v) = v - 4 * Q
      /\ v \in Word32 => v % 2^(2 * W) = IF v < 0 THEN v + 4 * Q ELSE v
  BY <1>1, <1>3, <1>4, <1>5 DEF Word32
<1> QED BY <1>6 DEF Q

\* The same, in one expression.
Wrapped(v) == IF v < MIN_32 THEN v + 4 * Quarter ELSE IF v > MAX_32 THEN v - 4 * Quarter ELSE v

\* It holds of the sum of two Word32 and a carry.
LEMMA WrapOfSum ==
  ASSUME NEW x \in Word32, NEW y \in Word32, NEW c \in {0, 1}
  PROVE  /\ Wrap(x + y) = Wrapped(x + y) /\ Wrap(x - y) = Wrapped(x - y)
         /\ Wrap(x + y + c) = Wrapped(x + y + c)
<1>1. ASSUME NEW v \in Int, -(6 * Quarter) <= v, v < 6 * Quarter PROVE Wrap(v) = Wrapped(v)
  <2>1. v \in Word32 \/ v < MIN_32 \/ v > MAX_32
    BY <1>1, Widths DEF Word32
  <2>2. MIN_32 < MAX_32 /\ MIN_32 \in Int /\ MAX_32 \in Int
    BY Widths
  <2>3. v \in Word32 => ~(v < MIN_32) /\ ~(v > MAX_32)
    BY <2>2 DEF Word32
  <2>4. v > MAX_32 => ~(v < MIN_32)
    BY <2>2
  <2> HIDE DEF MIN_32, MAX_32
  <2> QED BY <1>1, <2>1, <2>3, <2>4, WrapIs DEF Wrapped
<1>2. /\ Quarter \in Nat /\ Quarter >= 16 /\ x \in Int /\ y \in Int
      /\ -(2 * Quarter) <= x /\ x < 2 * Quarter /\ -(2 * Quarter) <= y /\ y < 2 * Quarter
  BY Widths DEF Word32
<1> DEFINE u == x + y
           v == x - y
           w == x + y + c
<1>3. /\ u \in Int /\ -(6 * Quarter) <= u /\ u < 6 * Quarter
      /\ v \in Int /\ -(6 * Quarter) <= v /\ v < 6 * Quarter
      /\ w \in Int /\ -(6 * Quarter) <= w /\ w < 6 * Quarter
  BY <1>2
<1> HIDE DEF u, v, w
<1>4. Wrap(u) = Wrapped(u) /\ Wrap(v) = Wrapped(v) /\ Wrap(w) = Wrapped(w)
  BY <1>1, <1>3
<1> QED BY <1>4 DEF u, v, w

\* The wrapped sum, its carry and its overflow.
Carried(s, x, y, c) ==
  LET z == Wrap(x + y)
  IN /\ s.v = Wrap(x + y + c)
     /\ s.carry = IF c = 1 /\ z = -1 THEN 1
                  ELSE IF (x < 0 /\ y < 0) \/ ((x < 0) # (y < 0) /\ z >= 0) THEN 1 ELSE 0
     /\ s.ovf = ((x > 0 /\ y > 0 /\ z < 0) \/ (x < 0 /\ y < 0 /\ z >= 0)
                 \/ (c = 1 /\ z = MAX_32))

\* They are what L_add_c yields.
LEMMA AddCarryIs ==
  ASSUME NEW x \in Word32, NEW y \in Word32, NEW c \in {0, 1}, NEW f, f.carry = c
  PROVE  Carried(L_add_c(x, y, f), x, y, c)
<1> DEFINE s == L_add_c(x, y, f)
           z == Wrap(x + y)
           carry == IF c = 1 /\ z = -1 THEN 1
                    ELSE IF (x < 0 /\ y < 0) \/ ((x < 0) # (y < 0) /\ z >= 0) THEN 1 ELSE 0
           ovf == (x > 0 /\ y > 0 /\ z < 0) \/ (x < 0 /\ y < 0 /\ z >= 0)
                  \/ (c = 1 /\ z = MAX_32)
<1>1. s.v = Wrap(x + y + c)
  BY DEF L_add_c
<1>2. s.carry = carry
  BY Zenon DEF L_add_c
<1>3. s.ovf = ovf
  BY Zenon DEF L_add_c
<1> QED BY <1>1, <1>2, <1>3, Zenon DEF Carried

\* The number that the bits of a Word32 are without a sign.
Unsigned(v) == v % 2^(2 * W)

\* L_add_c loses nothing: the sum of two Word32 and a carry is its value and
\* the carry it leaves.
LEMMA AddCarryExact ==
  ASSUME NEW x \in Word32, NEW y \in Word32, NEW c \in {0, 1}, NEW f, f.carry = c
  PROVE  LET s == L_add_c(x, y, f)
         IN Unsigned(x) + Unsigned(y) + c = Unsigned(s.v) + s.carry * 2^(2 * W)
<1> DEFINE s == L_add_c(x, y, f)
           Q == Quarter
           z == Wrap(x + y)
           w == Wrap(x + y + c)
<1>1. /\ Q \in Nat /\ Q >= 16 /\ MAX_32 = 2 * Q - 1 /\ MIN_32 = -(2 * Q) /\ 2^(2 * W) = 4 * Q
      /\ Word32 = -(2 * Q)..(2 * Q - 1) /\ x \in Int /\ y \in Int
  BY Widths DEF Word32
<1> HIDE DEF Q
<1>2. z = Wrapped(x + y)
  BY WrapOfSum
<1>3. w = Wrapped(x + y + c)
  BY WrapOfSum
<1>4. Carried(s, x, y, c)
  BY AddCarryIs
<1> DEFINE k == s.carry
<1>5. ASSUME NEW v \in Word32 PROVE Unsigned(v) = IF v < 0 THEN v + 4 * Q ELSE v
  <2>1. v \in Int /\ -(6 * Quarter) <= v /\ v < 6 * Quarter
    BY <1>1 DEF Q
  <2> QED BY <2>1, WrapIs DEF Q, Unsigned
<1> HIDE DEF s
<1>6. /\ s.v = w
      /\ k = IF c = 1 /\ z = -1 THEN 1
             ELSE IF (x < 0 /\ y < 0) \/ ((x < 0) # (y < 0) /\ z >= 0) THEN 1 ELSE 0
  BY <1>4, Zenon DEF Carried
<1> HIDE DEF z, w, k
<1>7. w \in Word32
  BY <1>1, <1>3 DEF Wrapped, Q
<1>8. /\ Unsigned(x) = IF x < 0 THEN x + 4 * Q ELSE x
      /\ Unsigned(y) = IF y < 0 THEN y + 4 * Q ELSE y
      /\ Unsigned(w) = IF w < 0 THEN w + 4 * Q ELSE w
  BY <1>5, <1>7
<1> DEFINE ux == Unsigned(x)
           uy == Unsigned(y)
           uw == Unsigned(w)
<1> HIDE DEF ux, uy, uw, k
<1>9. ux + uy + c = uw + (IF k = 1 THEN 4 * Q ELSE 0) /\ k \in {0, 1}
  <2>1. /\ z = IF x + y < -(2 * Q) THEN x + y + 4 * Q
              ELSE IF x + y > 2 * Q - 1 THEN x + y - 4 * Q ELSE x + y
        /\ w = IF x + y + c < -(2 * Q) THEN x + y + c + 4 * Q
              ELSE IF x + y + c > 2 * Q - 1 THEN x + y + c - 4 * Q ELSE x + y + c
    BY <1>1, <1>2, <1>3 DEF Wrapped, Q
  <2>2. ux = (IF x < 0 THEN x + 4 * Q ELSE x) /\ uy = (IF y < 0 THEN y + 4 * Q ELSE y)
        /\ uw = (IF w < 0 THEN w + 4 * Q ELSE w)
    BY <1>8 DEF ux, uy, uw
  <2> QED BY <1>1, <1>6, <2>1, <2>2, SMTT(60)
<1>10. k * 2^(2 * W) = IF k = 1 THEN 4 * Q ELSE 0
  <2> DEFINE M == 2^(2 * W)
  <2>1. M = 4 * Q /\ M \in Nat
    BY <1>1
  <2> HIDE DEF M
  <2>2. k * M = IF k = 1 THEN 4 * Q ELSE 0
    BY <1>9, <2>1
  <2> QED BY <2>2 DEF M
<1> QED BY <1>9, <1>10, <1>6, Zenon DEF ux, uy, uw, k, s

\* A wrapped sum, saturated from the flags it left, is the sum that saturates.
LEMMA SatIs ==
  ASSUME NEW x \in Word32, NEW y \in Word32, NEW s, Carried(s, x, y, 0)
  PROVE  L_sat(s.v, s).v = L_add(x, y)
<1> DEFINE Q == Quarter
           z == Wrap(x + y)
<1>1. /\ Q \in Nat /\ Q >= 16 /\ MAX_32 = 2 * Q - 1 /\ MIN_32 = -(2 * Q)
      /\ Word32 = -(2 * Q)..(2 * Q - 1) /\ x \in Int /\ y \in Int
  BY Widths DEF Word32
<1>2. z = Wrapped(x + y)
  BY WrapOfSum
<1>3. /\ s.v = Wrap(x + y + 0)
      /\ s.carry = IF (x < 0 /\ y < 0) \/ ((x < 0) # (y < 0) /\ z >= 0) THEN 1 ELSE 0
      /\ s.ovf = ((x > 0 /\ y > 0 /\ z < 0) \/ (x < 0 /\ y < 0 /\ z >= 0))
  <2>1. 0 # 1
    OBVIOUS
  <2>2. /\ s.v = Wrap(x + y + 0)
        /\ s.carry = IF 0 = 1 /\ z = -1 THEN 1
                     ELSE IF (x < 0 /\ y < 0) \/ ((x < 0) # (y < 0) /\ z >= 0) THEN 1 ELSE 0
        /\ s.ovf = ((x > 0 /\ y > 0 /\ z < 0) \/ (x < 0 /\ y < 0 /\ z >= 0)
                    \/ (0 = 1 /\ z = MAX_32))
    BY Zenon DEF Carried
  <2> QED BY <2>1, <2>2, Zenon
<1>4. s.v = z
  <2>1. x + y + 0 = x + y
    BY <1>1
  <2> QED BY <1>3, <2>1, Zenon
<1> HIDE DEF Q, z
<1>5. z = IF x + y < -(2 * Q) THEN x + y + 4 * Q
          ELSE IF x + y > 2 * Q - 1 THEN x + y - 4 * Q ELSE x + y
  BY <1>1, <1>2 DEF Wrapped, Q
<1>6. L_add_ovf(x, y) <=> (x > 0 /\ y > 2 * Q - 1 - x) \/ (x < 0 /\ y < -(2 * Q) - x)
  BY <1>1 DEF L_add_ovf
<1>7. CASE L_add_ovf(x, y)
  <2>1. /\ (x > 0 /\ y > 0 /\ z < 0) \/ (x < 0 /\ y < 0 /\ z >= 0)
        /\ (x < 0 /\ y < 0) \/ ((x < 0) # (y < 0) /\ z >= 0) <=> x < 0
    BY <1>1, <1>5, <1>6, <1>7
  <2>2. s.ovf = TRUE
    BY <1>3, <2>1, Zenon
  <2>3. s.carry = IF x < 0 THEN 1 ELSE 0
    BY <1>3, <2>1, Zenon
  <2>4. L_sat(s.v, s).v = IF s.carry = 1 THEN MIN_32 ELSE MAX_32
    BY <2>2, Zenon DEF L_sat
  <2> QED BY <1>7, <2>3, <2>4 DEF L_add
<1>8. CASE ~L_add_ovf(x, y)
  <2>1. ~((x > 0 /\ y > 0 /\ z < 0) \/ (x < 0 /\ y < 0 /\ z >= 0)) /\ z = x + y
    BY <1>1, <1>5, <1>6, <1>8
  <2>2. s.ovf = FALSE
    BY <1>3, <2>1, Zenon
  <2>3. L_sat(s.v, s).v = s.v
    BY <2>2, Zenon DEF L_sat
  <2> QED BY <1>4, <1>8, <2>1, <2>3 DEF L_add
<1> QED BY <1>7, <1>8

\* Sums of two words and a product of two.
LEMMA CarryChainsHold == acc \in Word32 => CarryChains
<1> DEFINE flags(c) == [ovf |-> FALSE, carry |-> c]
<1> SUFFICES ASSUME acc \in Word32, NEW a \in Operands, NEW b \in Operands
             PROVE  /\ \A c \in {0, 1} :
                         LET y == L_add(L_deposit_h(a), b)
                             s == L_add_c(acc, y, flags(c))
                         IN Unsigned(acc) + Unsigned(y) + c = Unsigned(s.v) + s.carry * 2^(2*W)
                    /\ LET s == L_macNs(acc, a, b, flags(0)) IN L_sat(s.v, s).v = L_mac(acc, a, b)
                    /\ LET s == L_msuNs(acc, a, b, flags(1)) IN L_sat(s.v, s).v = L_msu(acc, a, b)
  BY Zenon DEF CarryChains, Unsigned
<1> DEFINE m == L_mult(a, b)
<1>1. a \in Word16 /\ b \in Word16
  BY OperandsAssumption
<1>2. \A c \in {0, 1} : flags(c).carry = c
  BY Zenon
<1>3. ASSUME NEW c \in {0, 1}
      PROVE  LET y == L_add(L_deposit_h(a), b)
                 s == L_add_c(acc, y, flags(c))
             IN Unsigned(acc) + Unsigned(y) + c = Unsigned(s.v) + s.carry * 2^(2*W)
  <2>1. L_deposit_h(a) \in Word32 /\ b \in Word32
    BY <1>1, DepositIs DEF L_deposit_l
  <2>2. L_add(L_deposit_h(a), b) \in Word32
    BY <2>1, SumIs
  <2> HIDE DEF flags
  <2> QED BY <1>2, <2>2, AddCarryExact
<1>4. m \in Word32 /\ m # MIN_32
  <2>1. m \in Word32 /\ (m = MAX_32 \/ m = 2 * (a * b))
    BY <1>1, MultIs DEF L_mult
  <2>2. a * b >= Half - Quarter /\ a * b \in Int
    BY <1>1, ProductBelow, ProductFits
  <2>3. /\ Half \in Nat /\ Half >= 4 /\ Quarter \in Nat /\ MIN_32 = -(2 * Quarter)
        /\ MAX_32 = 2 * Quarter - 1
    BY Widths
  <2> DEFINE p == a * b
  <2> HIDE DEF p, m, Half, Quarter, MIN_32, MAX_32
  <2>4. p >= Half - Quarter /\ p \in Int /\ (m = MAX_32 \/ m = 2 * p)
    BY <2>1, <2>2 DEF p
  <2>5. m # MIN_32
    BY <2>3, <2>4
  <2> QED BY <2>1, <2>5
<1>5. LET s == L_macNs(acc, a, b, flags(0)) IN L_sat(s.v, s).v = L_mac(acc, a, b)
  <2> DEFINE s == L_add_c(acc, m, flags(0))
  <2>1. Carried(s, acc, m, 0)
    <3> HIDE DEF m, flags
    <3> QED BY <1>2, <1>4, AddCarryIs
  <2> HIDE DEF s
  <2>2. L_sat(s.v, s).v = L_add(acc, m)
    <3> HIDE DEF m
    <3> QED BY <1>4, <2>1, SatIs
  <2> QED BY <2>2, Zenon DEF L_macNs, L_mac, s
<1>6. LET s == L_msuNs(acc, a, b, flags(1)) IN L_sat(s.v, s).v = L_msu(acc, a, b)
  <2> DEFINE g == [flags(1) EXCEPT !.carry = 0]
             s == L_add_c(acc, -m, g)
  <2>1. -m \in Word32 /\ L_sub(acc, m) = L_add(acc, -m)
    <3>1. /\ Quarter \in Nat /\ Quarter >= 16 /\ MAX_32 = 2 * Quarter - 1 /\ MIN_32 = -(2 * Quarter)
      BY Widths
    <3> HIDE DEF Quarter, MAX_32, MIN_32, m
    <3> QED BY <1>4, <3>1 DEF Word32, L_sub, L_add, L_sub_ovf, L_add_ovf
  <2>2. g.carry = 0 /\ flags(1).carry = 1
    BY Zenon
  <2>3. L_sub_c(acc, m, flags(1)) = s
    <3> HIDE DEF flags, g
    <3>1. L_sub_c(acc, m, flags(1)) = L_add_c(acc, -m, [flags(1) EXCEPT !.carry = 0])
      BY <1>4, <2>2, Zenon DEF L_sub_c
    <3> QED BY <3>1, Zenon DEF g
  <2>4. Carried(s, acc, -m, 0)
    <3> HIDE DEF m, g
    <3> QED BY <2>1, <2>2, AddCarryIs
  <2> HIDE DEF s
  <2>5. L_sat(s.v, s).v = L_add(acc, -m)
    <3> HIDE DEF m
    <3> QED BY <2>1, <2>4, SatIs
  <2> QED BY <2>1, <2>3, <2>5, Zenon DEF L_msuNs, L_msu
<1> QED BY <1>3, <1>5, <1>6, Zenon

-----------------------------------------------------------------------------
(* The operators that round.                                               *)

\* shr_r of a word and L_shr_r of a Word32.
LEMMA ShiftsRound ==
  ASSUME NEW x \in Word32, NEW v \in Word16, NEW n \in 1..16, n <= W
  PROVE  /\ L_shr_r(x, n) = (x + 2^(n-1)) \div 2^n
         /\ shr_r(v, n) = IF n > W - 1 THEN 0 ELSE (v + 2^(n-1)) \div 2^n
<1> DEFINE p == 2^(n - 1)
<1>1. /\ W \in 3..16 /\ x \in Int /\ v \in Int /\ -Half <= v /\ v <= Half - 1
      /\ Half \in Nat /\ Half >= 4
  BY WidthAssumption, Widths DEF Word16, Word32
<1>2. p \in Nat /\ p >= 1 /\ 2^n = 2 * p
  <2>1. n - 1 \in 0..33 /\ (n - 1) + 1 = n
    OBVIOUS
  <2> QED BY <2>1, Powers, Zenon
<1>3. L_shr_r(x, n) = L_shr(x, n) + Bit(x, n - 1)
  <2>1. ~(n > 2 * W - 1) /\ n > 0
    BY <1>1
  <2> QED BY <2>1, Zenon DEF L_shr_r
<1>4. L_shr(x, n) = x \div (2 * p)
  <2>1. n \in 0..16 /\ n \in 0..W /\ ~(n < 0)
    BY <1>1
  <2>2. L_shr(x, n) = x \div 2^n
    BY <2>1, LongDownIs, Zenon DEF L_shr
  <2> QED BY <1>2, <2>2, Zenon
<1>5. Bit(x, n - 1) = (x \div p) % 2 /\ Bit(v, n - 1) = (v \div p) % 2
  BY Zenon DEF Bit
<1>6. L_shr_r(x, n) = (x + p) \div (2 * p)
  <2>1. x \div (2 * p) + ((x \div p) % 2) = (x + p) \div (2 * p)
    <3> HIDE DEF p
    <3> QED BY <1>1, <1>2, HalfUp
  <2> QED BY <1>3, <1>4, <1>5, <2>1, Zenon
<1>7. shr_r(v, n) = IF n > W - 1 THEN 0 ELSE (v + p) \div (2 * p)
  <2>1. CASE n > W - 1
    BY <2>1, Zenon DEF shr_r
  <2>2. CASE ~(n > W - 1)
    <3>1. n > 0 /\ ~(n < 0)
      OBVIOUS
    <3>2. shr_r(v, n) = ShiftDown(v, n) + Bit(v, n - 1)
      BY <2>2, <3>1, Zenon DEF shr_r, shr
    <3>3. ShiftDown(v, n) = v \div (2 * p)
      <4>1. CASE n >= W - 1
        <5>1. n = W - 1
          BY <1>1, <2>2, <4>1
        <5>2. 2^n = Half
          BY <5>1 DEF Half
        <5> DEFINE H == Half
        <5>3. v = (IF v < 0 THEN -1 ELSE 0) * H + (IF v < 0 THEN v + H ELSE v)
          BY <1>1
        <5>4. v \div H = IF v < 0 THEN -1 ELSE 0
          <6> HIDE DEF H
          <6>1. H \in Nat /\ H >= 1 /\ -H <= v /\ v <= H - 1
            BY <1>1 DEF H
          <6>2. CASE v < 0
            <7> DEFINE r == v + H
            <7>1. r \in 0..(H - 1) /\ v = (-1) * H + r
              BY <1>1, <6>1, <6>2
            <7> HIDE DEF r
            <7> QED BY <1>1, <6>1, <6>2, <7>1, DivIs
          <6>3. CASE v >= 0
            <7>1. v \in 0..(H - 1) /\ v = 0 * H + v
              BY <1>1, <6>1, <6>3
            <7> QED BY <1>1, <6>1, <6>3, <7>1, DivIs
          <6> QED BY <1>1, <6>2, <6>3
        <5> QED BY <1>2, <4>1, <5>2, <5>4, Zenon DEF ShiftDown
      <4>2. CASE ~(n >= W - 1)
        BY <1>2, <4>2, Zenon DEF ShiftDown
      <4> QED BY <4>1, <4>2
    <3>4. v \div (2 * p) + ((v \div p) % 2) = (v + p) \div (2 * p)
      <4> HIDE DEF p
      <4> QED BY <1>1, <1>2, HalfUp
    <3> QED BY <1>5, <2>2, <3>2, <3>3, <3>4, Zenon
  <2> QED BY <2>1, <2>2
<1> QED BY <1>2, <1>6, <1>7, Zenon

\* mult_r, where mult itself does not saturate.
LEMMA ProductRounds ==
  ASSUME NEW a \in Word16, NEW b \in Word16, ~saturate_ovf((a * b) \div Half)
  PROVE  mult_r(a, b) = (2 * a * b + Half) \div 2^W
<1> DEFINE H == Half
           h == Half \div 2
           p == a * b
           q == (p + h) \div H
           r == (p + h) % H
           Q == Quarter
<1>1. /\ H \in Nat /\ H >= 4 /\ H = 2 * h /\ h \in Nat /\ h >= 2 /\ 2^W = 2 * H /\ Q = H * H
      /\ MAX_16 = H - 1 /\ MIN_16 = -H /\ a \in Int /\ b \in Int /\ p \in Int /\ Q \in Nat
  BY Widths, ProductFits DEF Word16
<1>2. p >= H - Q /\ (p = Q \/ p <= Q - H)
  BY ProductBelow
<1>3. p # Q
  <2> SUFFICES ASSUME p = Q PROVE FALSE
    OBVIOUS
  <2>1. p = H * H + 0 /\ 0 \in 0..(H - 1) /\ H >= 1
    BY <1>1
  <2>2. p \div H = H
    <3> HIDE DEF p, H
    <3> QED BY <1>1, <2>1, DivIs
  <2>3. saturate_ovf(p \div H)
    <3>1. H \notin Word16
      <4> HIDE DEF H
      <4> QED BY <1>1 DEF Word16
    <3> QED BY <2>2, <3>1, Zenon DEF saturate_ovf
  <2> QED BY <2>3
<1>4. 2 * a * b + Half = 2 * (p + h)
  <2>1. 2 * a * b = 2 * p
    BY <1>1, SMT
  <2> DEFINE z == 2 * a * b
  <2> HIDE DEF z, p, h, H
  <2>2. z + H = 2 * (p + h)
    BY <1>1, <2>1 DEF z
  <2> QED BY <2>2 DEF z, H
<1> HIDE DEF H, h, p, Q
<1>5. q \in Int /\ r \in 0..(H - 1) /\ p + h = q * H + r
  <2> DEFINE y == p + h
  <2>1. y \in Int /\ H \in Nat /\ H >= 1
    BY <1>1
  <2> HIDE DEF y
  <2>2. y \div H \in Int /\ y % H \in 0..(H - 1) /\ y = (y \div H) * H + (y % H)
    BY <2>1, SMT
  <2> QED BY <2>2 DEF y
<1> HIDE DEF q, r
<1>6. -H <= q /\ q <= H - 1
  <2>1. q >= H => q * H >= H * H
    BY <1>1, <1>5, SMT
  <2>2. q < -H => q * H <= (-H - 1) * H /\ (-H - 1) * H = -(H * H) - H
    BY <1>1, <1>5, SMT
  <2> DEFINE y == q * H
             w == (-H - 1) * H
  <2>3. /\ y \in Int /\ p + h = y + r /\ (q >= H => y >= Q)
        /\ q < -H => y <= -Q - H
    BY <1>1, <1>5, <2>1, <2>2
  <2> HIDE DEF y
  <2> QED BY <1>1, <1>2, <1>3, <1>5, <2>3
<1>7. (2 * (p + h)) \div (2 * H) = q
  <2> DEFINE y == 2 * (p + h)
             e == 2 * H
             s == 2 * r
  <2>1. y = q * e + s
    BY <1>1, <1>5, SMT
  <2>2. y \in Int /\ e \in Nat /\ e >= 1 /\ s \in 0..(e - 1)
    BY <1>1, <1>5
  <2> HIDE DEF y, e, s
  <2>3. y \div e = q
    BY <1>5, <2>1, <2>2, DivIs
  <2> QED BY <2>3 DEF y, e
<1>8. saturate(q) = q
  BY <1>1, <1>5, <1>6 DEF saturate
<1>9. mult_r(a, b) = saturate(q)
  BY Zenon DEF mult_r, q, p, h, H
<1>10. (2 * a * b + Half) \div 2^W = q
  BY <1>1, <1>4, <1>7, Zenon
<1> QED BY <1>8, <1>9, <1>10, Zenon

\* Every rounding operator, on the accumulator.
LEMMA RoundsToNearestHold == acc \in Word32 => RoundsToNearest
<1> SUFFICES ASSUME acc \in Word32 PROVE RoundsToNearest
  OBVIOUS
<1>1. ASSUME NEW n \in Shifts, n > 0
      PROVE  /\ L_shr_r(acc, n) = (acc + 2^(n-1)) \div 2^n
             /\ LET v == extract_h(acc) IN
                shr_r(v, n) = IF n > W - 1 THEN 0 ELSE (v + 2^(n-1)) \div 2^n
  <2>1. n \in 1..16 /\ n <= W
    BY <1>1, ShiftsAre
  <2>2. extract_h(acc) \in Word16
    BY HighHalf
  <2> QED BY <2>1, <2>2, ShiftsRound
<1>2. ASSUME NEW a \in Operands, NEW b \in Operands
      PROVE  /\ ~saturate_ovf((a * b) \div Half) => mult_r(a, b) = (2 * a * b + Half) \div 2^W
             /\ ~L_mac_ovf(acc, a, b) /\ ~intround_ovf(L_mac(acc, a, b)) =>
                  mac_r(acc, a, b) = (acc + 2 * a * b + Half) \div 2^W
             /\ ~L_msu_ovf(acc, a, b) /\ ~intround_ovf(L_msu(acc, a, b)) =>
                  msu_r(acc, a, b) = (acc - 2 * a * b + Half) \div 2^W
  <2> DEFINE m == L_mult(a, b)
             t == 2 * a * b
  <2>1. a \in Word16 /\ b \in Word16
    BY OperandsAssumption
  <2>2. Half \in Word32 /\ acc \in Int /\ Half \in Int
    <3>1. /\ Half \in Nat /\ Half >= 4 /\ Quarter = Half * Half /\ Quarter \in Nat
          /\ MAX_32 = 2 * Quarter - 1 /\ MIN_32 = -(2 * Quarter)
      BY Widths
    <3>2. Half * Half >= Half
      <4> HIDE DEF Half
      <4> QED BY <3>1, SMT
    <3> HIDE DEF Half, Quarter, MAX_32, MIN_32
    <3>3. Half <= Quarter
      BY <3>1, <3>2
    <3> QED BY <3>1, <3>3 DEF Word32
  <2>3. m \in Word32 /\ t \in Int /\ (~L_mult_ovf(a, b) => m = t)
    <3>1. a \in Int /\ b \in Int /\ a * b \in Int
      BY <2>1, ProductFits
    <3>2. t = 2 * (a * b)
      BY <3>1, SMT
    <3> QED BY <2>1, <3>1, <3>2, MultIs
  <2> HIDE DEF m, t
  <2>4. ASSUME NEW x \in Word32, ~intround_ovf(x) PROVE intround(x) = (x + Half) \div 2^W
    <3>1. L_add(x, Half) = x + Half
      BY <2>2, <2>4, SumIs DEF intround_ovf
    <3> QED BY <3>1, Zenon DEF intround, extract_h
  <2>5. ASSUME ~L_mac_ovf(acc, a, b), ~intround_ovf(L_mac(acc, a, b))
        PROVE  mac_r(acc, a, b) = (acc + t + Half) \div 2^W
    <3>1. ~L_mult_ovf(a, b) /\ ~L_add_ovf(acc, m) /\ L_mac(acc, a, b) = L_add(acc, m)
      BY <2>5, Zenon DEF L_mac_ovf, L_mac, m
    <3>2. L_mac(acc, a, b) = acc + t /\ L_mac(acc, a, b) \in Word32
      BY <2>3, <3>1, SumIs
    <3>3. mac_r(acc, a, b) = (L_mac(acc, a, b) + Half) \div 2^W
      BY <2>4, <2>5, <3>2, Zenon DEF mac_r
    <3> QED BY <3>2, <3>3, Zenon
  <2>6. ASSUME ~L_msu_ovf(acc, a, b), ~intround_ovf(L_msu(acc, a, b))
        PROVE  msu_r(acc, a, b) = (acc - t + Half) \div 2^W
    <3>1. ~L_mult_ovf(a, b) /\ ~L_sub_ovf(acc, m) /\ L_msu(acc, a, b) = L_sub(acc, m)
      BY <2>6, Zenon DEF L_msu_ovf, L_msu, m
    <3>2. L_msu(acc, a, b) = acc - t /\ L_msu(acc, a, b) \in Word32
      BY <2>3, <3>1, SumIs
    <3>3. msu_r(acc, a, b) = (L_msu(acc, a, b) + Half) \div 2^W
      BY <2>4, <2>6, <3>2, Zenon DEF msu_r
    <3> QED BY <3>2, <3>3, Zenon
  <2>7. ~saturate_ovf((a * b) \div Half) => mult_r(a, b) = (2 * a * b + Half) \div 2^W
    BY <2>1, ProductRounds
  <2> QED BY <2>5, <2>6, <2>7, Zenon DEF t
<1> QED BY <1>1, <1>2, Zenon DEF RoundsToNearest

-----------------------------------------------------------------------------
(* The dividers.                                                           *)

\* The long division is its loop, turn by turn.
LEMMA DivideByTurns ==
  ASSUME NEW L_num, NEW L_den
  PROVE  \E t : /\ Divide(L_num, L_den) = t[W - 1].out /\ t[0] = [num |-> L_num, out |-> 0]
                /\ \A i \in 1..(W - 1) : t[i] = DivStep(L_den, t[i - 1])
<1> DEFINE z == [num |-> L_num, out |-> 0]
           G(s) == DivStep(L_den, s)
           n == W - 1
           Ok(t, k) == t = [i \in 0..k |-> IF i = 0 THEN z ELSE G(t[i - 1])]
           P == {k \in Nat : \E t : Ok(t, k)}
<1> HIDE DEF z, G
<1>1. 0 \in P
  <2> DEFINE t == [i \in 0..0 |-> z]
  <2>1. Ok(t, 0)
    OBVIOUS
  <2> HIDE DEF t, Ok
  <2> QED BY <2>1
<1>2. ASSUME NEW k \in P PROVE k + 1 \in P
  <2>1. PICK t : Ok(t, k)
    OBVIOUS
  <2> DEFINE u == [i \in 0..(k + 1) |-> IF i = 0 THEN z ELSE G(t[i - 1])]
  <2>2. \A i \in 0..k : u[i] = t[i]
    BY <2>1
  <2>3. \A i \in 0..(k + 1) : i # 0 => i - 1 \in 0..k
    OBVIOUS
  <2>4. \A i \in 0..(k + 1) : i # 0 => u[i - 1] = t[i - 1]
    BY <2>2, <2>3
  <2>5. Ok(u, k + 1)
    BY <2>4
  <2> HIDE DEF u, Ok
  <2> QED BY <2>5
<1>3. P = Nat
  <2>1. P \subseteq Nat
    OBVIOUS
  <2> HIDE DEF P
  <2> QED BY <1>1, <1>2, <2>1, Induction
<1>4. n \in Nat
  BY WidthAssumption
<1> HIDE DEF n
<1>5. PICK t : Ok(t, n)
  BY <1>3, <1>4
<1>6. PICK q : q = CHOOSE f : Ok(f, n)
  OBVIOUS
<1>7. Ok(q, n)
  BY <1>5, <1>6, Zenon
<1>8. Divide(L_num, L_den) = q[n].out
  BY <1>6, Zenon DEF Divide, G, z, n
<1>9. q[0] = z /\ \A i \in 1..n : q[i] = G(q[i - 1])
  <2>1. 0 \in 0..n /\ \A i \in 1..n : i \in 0..n /\ i # 0
    BY <1>4
  <2> QED BY <1>7, <2>1
<1> QED BY <1>8, <1>9, Zenon DEF z, G, n

\* Of a fraction below one it is the quotient rounded down.
LEMMA DivideIs ==
  ASSUME NEW x \in Nat, NEW d \in Nat, x < d
  PROVE  Divide(x, d) = (x * Half) \div d
<1>1. PICK t : /\ Divide(x, d) = t[W - 1].out /\ t[0] = [num |-> x, out |-> 0]
               /\ \A i \in 1..(W - 1) : t[i] = DivStep(d, t[i - 1])
  <2> HIDE DEF DivStep
  <2> QED BY DivideByTurns
<1>2. /\ W \in 3..16 /\ Half \in Nat /\ MAX_16 = Half - 1 /\ MIN_16 = -Half /\ Half >= 4
      /\ 2^(W - 1) = Half
  BY WidthAssumption, Widths DEF Half
<1> DEFINE E(i) == 2^i
           Good(i, num, out) == /\ t[i] = [num |-> num, out |-> out]
                                /\ x * E(i) = out * d + num
           P == {i \in Nat : i <= W - 1 =>
                   \E num \in 0..(d - 1), out \in 0..(E(i) - 1) : Good(i, num, out)}
<1>3. \A i \in 0..33 : E(i) \in Nat /\ E(i) >= 1 /\ E(i + 1) = 2 * E(i)
  BY Powers, Zenon
<1>4. E(0) = 1 /\ E(W - 1) = Half
  BY <1>2, Powers
<1>5. \A i \in 0..(W - 1) : E(i) <= Half
  <2>1. \A n \in 0..33 : \A m \in 0..n : E(m) <= E(n)
    BY PowersGrow, Zenon
  <2>2. W - 1 \in 0..33
    BY <1>2
  <2> HIDE DEF E
  <2> QED BY <1>4, <2>1, <2>2
<1> HIDE DEF E
<1>6. 0 \in P
  <2>1. x \in 0..(d - 1) /\ 0 \in 0..(E(0) - 1) /\ x * E(0) = 0 * d + x
    BY <1>4
  <2>2. Good(0, x, 0)
    BY <1>1, <2>1
  <2> HIDE DEF Good
  <2> QED BY <2>1, <2>2
<1>7. ASSUME NEW i \in P PROVE i + 1 \in P
  <2> SUFFICES ASSUME i + 1 <= W - 1
               PROVE  \E num \in 0..(d - 1), out \in 0..(E(i + 1) - 1) : Good(i + 1, num, out)
    OBVIOUS
  <2>1. PICK num \in 0..(d - 1), out \in 0..(E(i) - 1) : Good(i, num, out)
    <3> HIDE DEF Good
    <3> QED BY <1>2
  <2>2. i \in 0..33 /\ i + 1 \in 1..(W - 1) /\ (i + 1) - 1 = i /\ i + 1 \in 0..(W - 1)
    BY <1>2
  <2>3. /\ E(i) \in Nat /\ E(i) >= 1 /\ E(i + 1) = 2 * E(i) /\ E(i + 1) <= Half
    BY <1>3, <1>5, <2>2
  <2>4. t[i] = [num |-> num, out |-> out] /\ x * E(i) = out * d + num
    BY <2>1
  <2> HIDE DEF P
  <2>5. t[i + 1] = DivStep(d, [num |-> num, out |-> out])
    BY <1>1, <2>2, <2>4
  <2>6. x * E(i + 1) = (2 * out) * d + 2 * num
    <3> DEFINE e == E(i)
    <3>1. e \in Nat /\ x * e = out * d + num
      BY <2>3, <2>4
    <3> HIDE DEF e
    <3>2. x * (2 * e) = 2 * (x * e) /\ 2 * (out * d + num) = (2 * out) * d + 2 * num
      BY <3>1, SMT
    <3> QED BY <2>3, <3>1, <3>2 DEF e
  <2>7. CASE 2 * num >= d
    <3> DEFINE o == 2 * out + 1
               n == 2 * num - d
    <3>1. o \in 0..(E(i + 1) - 1) /\ n \in 0..(d - 1)
      BY <2>3, <2>7
    <3>2. add(2 * out, 1) = o
      BY <1>2, <2>3, <3>1 DEF add, saturate
    <3>3. t[i + 1] = [num |-> n, out |-> o]
      BY <2>5, <2>7, <3>2, Zenon DEF DivStep
    <3>4. (2 * out) * d + 2 * num = o * d + n
      <4>1. (2 * out + 1) * d = (2 * out) * d + d
        BY SMT
      <4> DEFINE y == (2 * out) * d
                 w == (2 * out + 1) * d
      <4>2. y \in Int /\ w = y + d
        BY <4>1
      <4> HIDE DEF y, w
      <4>3. y + 2 * num = w + (2 * num - d)
        BY <4>2
      <4> QED BY <4>3 DEF y, w
    <3>5. Good(i + 1, n, o)
      BY <2>6, <3>3, <3>4, Zenon
    <3> HIDE DEF Good, n, o
    <3> QED BY <3>1, <3>5
  <2>8. CASE ~(2 * num >= d)
    <3> DEFINE o == 2 * out
               n == 2 * num
    <3>1. o \in 0..(E(i + 1) - 1) /\ n \in 0..(d - 1)
      BY <2>3, <2>8
    <3>2. t[i + 1] = [num |-> n, out |-> o]
      BY <2>5, <2>8, Zenon DEF DivStep
    <3>3. Good(i + 1, n, o)
      BY <2>6, <3>2, Zenon
    <3> HIDE DEF Good, n, o
    <3> QED BY <3>1, <3>3
  <2> QED BY <2>7, <2>8
<1>8. P = Nat
  <2>1. P \subseteq Nat
    OBVIOUS
  <2> HIDE DEF P
  <2> QED BY <1>6, <1>7, <2>1, Induction
<1>9. PICK num \in 0..(d - 1), out \in 0..(E(W - 1) - 1) : Good(W - 1, num, out)
  <2>1. W - 1 \in P
    <3> HIDE DEF P
    <3> QED BY <1>2, <1>8
  <2> HIDE DEF Good
  <2> QED BY <1>2, <2>1
<1>10. t[W - 1].out = out /\ x * Half = out * d + num
  BY <1>4, <1>9
<1> DEFINE y == x * Half
<1>11. y \in Int /\ y = out * d + num /\ out \in Int /\ d >= 1
  BY <1>2, <1>3, <1>4, <1>10
<1> HIDE DEF y
<1>12. y \div d = out
  BY <1>11, DivIs
<1> QED BY <1>1, <1>10, <1>12, Zenon DEF y

\* div_s, wherever it does not abort.
LEMMA WordDivides ==
  ASSUME NEW a \in Word16, NEW v \in Word16, ~div_s_aborts(a, v)
  PROVE  div_s(a, v) = IF a = v THEN MAX_16 ELSE (a * Half) \div v
<1>1. a \in Nat /\ v \in Nat /\ a <= v /\ v >= 1 /\ Half \in Nat
  BY Widths DEF div_s_aborts, Word16
<1>2. CASE a = 0
  <2>1. div_s(a, v) = 0 /\ a # v
    BY <1>1, <1>2 DEF div_s
  <2>2. a * Half = 0 * v + 0 /\ 0 \in 0..(v - 1)
    BY <1>1, <1>2
  <2> DEFINE y == a * Half
  <2>3. y \in Int /\ y = 0 * v + 0
    BY <1>1, <2>2
  <2> HIDE DEF y
  <2>4. y \div v = 0
    BY <1>1, <2>2, <2>3, DivIs
  <2> QED BY <2>1, <2>4, Zenon DEF y
<1>3. CASE a # 0 /\ a = v
  BY <1>3, Zenon DEF div_s
<1>4. CASE a # 0 /\ a # v
  <2>1. div_s(a, v) = Divide(a, v)
    BY <1>4 DEF div_s
  <2>2. a < v
    BY <1>1, <1>4
  <2> QED BY <1>1, <1>4, <2>1, <2>2, DivideIs
<1> QED BY <1>2, <1>3, <1>4

\* div_l, wherever it does not leave the program.
LEMMA LongDivides ==
  ASSUME NEW x \in Word32, NEW v \in Word16, ~div_l_exits(x, v)
  PROVE  div_l(x, v) = IF x >= v * 2^W THEN MAX_16
                       ELSE ((x \div 2) * Half) \div (v * (2^W \div 2))
<1> DEFINE H == Half
           d == v * H
           D == L_deposit_h(v)
           h == x \div 2
<1>1. /\ x \in Nat /\ v \in Nat /\ v >= 1 /\ H \in Nat /\ H >= 4 /\ 2^W = 2 * H
      /\ W \in 3..16
  BY Widths, WidthAssumption DEF div_l_exits, Word16, Word32
<1>2. D = v * (2 * H) /\ D = 2 * d /\ d \in Nat /\ D \in Word32
  <2>1. D = v * (2 * H) /\ D \in Word32
    BY DepositIs
  <2>2. v * (2 * H) = 2 * (v * H) /\ v * H \in Nat
    <3> HIDE DEF H
    <3> QED BY <1>1, SMT
  <2> QED BY <2>1, <2>2
<1>3. div_l(x, v) = IF x >= D THEN MAX_16 ELSE Divide(L_shr(x, 1), L_shr(D, 1))
  BY Zenon DEF div_l
<1>4. ASSUME NEW y \in Word32 PROVE L_shr(y, 1) = y \div 2
  <2>1. 1 \in 0..16 /\ 1 \in 0..W /\ ~(1 < 0)
    BY <1>1
  <2>2. L_shr(y, 1) = y \div 2^1
    BY <2>1, LongDownIs, Zenon DEF L_shr
  <2>3. 2^1 = 2
    BY SMT
  <2> QED BY <2>2, <2>3, Zenon
<1> HIDE DEF d, D, H
<1>5. D \div 2 = d /\ h \in Nat /\ (x < D => h < d) /\ (2 * H) \div 2 = H
  BY <1>1, <1>2
<1> HIDE DEF h
<1>6. x < D => Divide(h, d) = (h * Half) \div d
  BY <1>2, <1>5, DivideIs
<1>7. L_shr(x, 1) = h /\ L_shr(D, 1) = d
  BY <1>2, <1>4, <1>5, Zenon DEF h
<1>8. CASE x >= D
  BY <1>1, <1>2, <1>3, <1>8, Zenon
<1>9. CASE ~(x >= D)
  <2>1. x < D
    BY <1>1, <1>2, <1>9
  <2>2. div_l(x, v) = (h * Half) \div d
    BY <1>3, <1>6, <1>7, <1>9, <2>1, Zenon
  <2>3. ~(x >= v * 2^W) /\ v * (2^W \div 2) = d
    BY <1>1, <1>2, <1>5, <1>9, Zenon DEF d
  <2> QED BY <2>2, <2>3, Zenon DEF h
<1> QED BY <1>8, <1>9

\* L_mls, where the product of its high half does not saturate.
LEMMA LongTimesWord ==
  ASSUME NEW x \in Word32, NEW v \in Word16, ~L_mult_ovf(v, extract_h(x))
  PROVE  L_mls(x, v) = (x * v) \div Half
<1> DEFINE H == Half
           Q == Quarter
           h == extract_h(x)
           l == x % 2^W
           p == l * v
           k == p \div H
           r == p % H
           m == v * h
<1>1. /\ H \in Nat /\ H >= 4 /\ Q = H * H /\ Q \in Nat
      /\ MAX_32 = 2 * Q - 1 /\ MIN_32 = -(2 * Q) /\ W \in 3..16
      /\ v \in Int /\ -H <= v /\ v <= H - 1
  BY Widths, WidthAssumption DEF Word16
<1>2. h \in Word16 /\ l \in 0..(2 * H - 1) /\ x = h * (2 * H) + l
  BY HighHalf
<1>3. h \in Int /\ -H <= h /\ h <= H - 1 /\ l \in Int /\ p \in Int /\ m \in Int
  BY <1>1, <1>2, Widths DEF Word16
<1>4. m >= H - Q /\ m <= Q - H
  <2>1. m # Q
    BY Zenon DEF L_mult_ovf
  <2>2. m >= H - Q /\ (m = Q \/ m <= Q - H)
    BY <1>2, ProductBelow
  <2> QED BY <2>1, <2>2
<1>5. L_mls(x, v) = L_add(L_shr(p, W - 1), L_mult(v, h)) /\ L_mult(v, h) = 2 * m
  BY Zenon DEF L_mls, L_mac, L_mult
<1>6. L_shr(p, W - 1) = k
  <2>1. ~(W - 1 < 0) /\ ~(W - 1 >= 2 * W - 1)
    BY <1>1
  <2> QED BY <2>1, Zenon DEF L_shr, LongDown, Half
<1> HIDE DEF p, h, l
<1>7. k \in Int /\ r \in 0..(H - 1) /\ p = k * H + r
  <2> HIDE DEF H
  <2> QED BY <1>1, <1>3, SMT
<1> HIDE DEF k, r, H, Q
<1>8. /\ v >= 0 => 0 <= k /\ k <= 2 * v
      /\ v < 0 => 2 * v <= k /\ k <= 0
  <2>1. /\ v >= 0 => 0 <= p /\ p <= (2 * H) * v
        /\ v < 0 => (2 * H) * v <= p /\ p <= 0
    BY <1>1, <1>2, SMT DEF p
  <2>2. (2 * H) * v = (2 * v) * H
    BY <1>1, SMT
  <2>3. /\ k < 0 => k * H <= -H
        /\ k > 0 => k * H >= H
        /\ k > 2 * v => k * H >= (2 * v) * H + H
        /\ k < 2 * v => k * H <= (2 * v) * H - H
    BY <1>1, <1>7, SMT
  <2> DEFINE y == k * H
             w == (2 * v) * H
  <2>4. /\ y \in Int /\ w \in Int /\ p = y + r
        /\ v >= 0 => 0 <= p /\ p <= w
        /\ v < 0 => w <= p /\ p <= 0
    BY <1>1, <1>7, <2>1, <2>2
  <2>5. /\ k < 0 => y <= -H
        /\ k > 0 => y >= H
        /\ k > 2 * v => y >= w + H
        /\ k < 2 * v => y <= w - H
    BY <2>3
  <2> HIDE DEF y, w
  <2> QED BY <1>1, <1>3, <1>7, <2>4, <2>5
<1> DEFINE s == k + 2 * m
<1>9. s \in Int /\ -(2 * Q) <= s /\ s <= 2 * Q - 1
  <2>1. v * (h + 1) = m + v
    BY <1>1, <1>3, SMT DEF m
  <2>2. /\ v >= 0 => v * (h + 1) <= v * H /\ v * H <= (H - 1) * H
        /\ v < 0 => v * (h + 1) >= v * H /\ v * H >= (-H) * H
        /\ (H - 1) * H = H * H - H /\ (-H) * H = -(H * H)
    BY <1>1, <1>3, SMT
  <2> DEFINE y == v * (h + 1)
             w == v * H
             u == (H - 1) * H
             t == (-H) * H
  <2>3. /\ y \in Int /\ w \in Int /\ u \in Int /\ t \in Int /\ y = m + v /\ u = Q - H /\ t = -Q
        /\ v >= 0 => y <= w /\ w <= u
        /\ v < 0 => y >= w /\ w >= t
    BY <1>1, <1>3, <2>1, <2>2
  <2> HIDE DEF y, w, u, t, m
  <2> QED BY <1>1, <1>3, <1>4, <1>7, <1>8, <2>3
<1>10. -(2 * H) <= k /\ k <= 2 * H /\ 2 * H <= Q
  <2>1. H * H >= 2 * H
    BY <1>1, SMT
  <2> QED BY <1>1, <1>7, <1>8, <2>1
<1>11. k \in Word32 /\ 2 * m \in Word32 /\ s \in Word32
  <2> HIDE DEF s, m
  <2> QED BY <1>1, <1>3, <1>4, <1>7, <1>9, <1>10 DEF Word32
<1>12. L_mls(x, v) = s
  <2> DEFINE z == 2 * m
  <2> HIDE DEF z
  <2>1. ~L_add_ovf(k, z) => L_add(k, z) = k + z
    BY <1>11, SumIs DEF z
  <2>2. L_add_ovf(k, z) <=> ~(k + z \in Word32)
    BY <1>11, SumIs DEF z
  <2>3. L_add(k, z) = k + z
    BY <1>11, <2>1, <2>2, Zenon DEF s, z
  <2> QED BY <1>5, <1>6, <2>3, Zenon DEF z, s
<1>13. x * v = s * H + r
  <2>1. (h * (2 * H) + l) * v = (2 * (v * h)) * H + l * v
    BY <1>1, <1>2, <1>3, SMT
  <2>2. (2 * m) * H + k * H = (k + 2 * m) * H
    BY <1>1, <1>3, <1>7, SMT
  <2> DEFINE y == (2 * m) * H
             w == k * H
             u == (k + 2 * m) * H
  <2>3. x * v = y + p /\ p = w + r /\ y + w = u /\ y \in Int /\ w \in Int
    BY <1>1, <1>2, <1>3, <1>7, <2>1, <2>2 DEF p, m
  <2> HIDE DEF y, w, u
  <2>4. x * v = u + r
    BY <1>7, <2>3
  <2> QED BY <2>4, Zenon DEF u, s
<1>14. x * v \in Int
  BY <1>1, <1>2, <1>3
<1> DEFINE y == x * v
<1> HIDE DEF y, s
<1>15. y \div H = s
  <2>1. y \in Int /\ y = s * H + r /\ H >= 1
    BY <1>1, <1>13, <1>14 DEF y
  <2> QED BY <1>1, <1>7, <1>9, <2>1, DivIs
<1> QED BY <1>12, <1>15, Zenon DEF y, H

\* Every divider, on the accumulator.
LEMMA QuotientsAreFloorsHold == acc \in Word32 => QuotientsAreFloors
<1> SUFFICES ASSUME acc \in Word32 PROVE QuotientsAreFloors
  OBVIOUS
<1>1. ASSUME NEW v \in Operands
      PROVE  /\ LET a == extract_h(acc) IN
                ~div_s_aborts(a, v) =>
                  div_s(a, v) = IF a = v THEN MAX_16 ELSE (a * Half) \div v
             /\ ~div_l_exits(acc, v) =>
                  div_l(acc, v) = IF acc >= v * 2^W THEN MAX_16
                                  ELSE ((acc \div 2) * Half) \div (v * (2^W \div 2))
             /\ ~L_mult_ovf(v, extract_h(acc)) => L_mls(acc, v) = (acc * v) \div Half
  <2>1. v \in Word16 /\ extract_h(acc) \in Word16
    BY OperandsAssumption, HighHalf
  <2> QED BY <2>1, WordDivides, LongDivides, LongTimesWord
<1> QED BY <1>1, Zenon DEF QuotientsAreFloors

-----------------------------------------------------------------------------
(* The normalisers.                                                        *)

\* A number whose magnitude has its top bit at r, scaled by p: the top bit of
\* the product is that of p * r, and twice the product does not fit.
LEMMA Scaled ==
  ASSUME NEW x \in Int, NEW p \in Nat, p >= 1, NEW r \in Nat, r >= 1, NEW q \in Nat, q = p * r,
         Magnitude(x) >= r, Magnitude(x) < 2 * r
  PROVE  /\ x * p \in -(2 * q)..(2 * q - 1) /\ Magnitude(x * p) >= q
         /\ x > 0 => x * (2 * p) > 2 * q - 1
         /\ x < 0 => x * (2 * p) < -(2 * q)
         /\ (x > 0 <=> x * p > 0) /\ x # 0
<1> DEFINE y == x * p
<1>1. y \in Int /\ x * (2 * p) = 2 * y
  BY SMT
<1>2. CASE x >= 0
  <2>1. x >= r /\ x <= 2 * r - 1
    BY <1>2 DEF Magnitude
  <2>2. x * p >= r * p /\ x * p <= (2 * r - 1) * p /\ (2 * r - 1) * p = 2 * (p * r) - p /\ r * p = p * r
    BY <2>1, SMT
  <2> DEFINE z == (2 * r - 1) * p
             w == r * p
  <2>3. y >= w /\ y <= z /\ z = 2 * q - p /\ w = q
    BY <2>2
  <2>4. x > 0
    BY <2>1
  <2>5. q >= 1
    BY SMT
  <2> HIDE DEF y, z, w
  <2>6. y \in -(2 * q)..(2 * q - 1) /\ y >= q /\ y > 0 /\ 2 * y > 2 * q - 1
    BY <1>1, <2>3, <2>5
  <2> QED BY <1>1, <1>2, <2>4, <2>6 DEF y, Magnitude
<1>3. CASE x < 0
  <2> DEFINE m == -(x + 1)
  <2>1. m \in Nat /\ m >= r /\ m <= 2 * r - 1 /\ x = -m - 1
    BY <1>3 DEF Magnitude
  <2>2. m * p >= r * p /\ m * p <= (2 * r - 1) * p /\ (2 * r - 1) * p = 2 * (p * r) - p /\ r * p = p * r
    <3> HIDE DEF m
    <3> QED BY <2>1, SMT
  <2>3. (-m - 1) * p = -(m * p) - p
    BY <2>1, SMT
  <2> DEFINE z == (2 * r - 1) * p
             w == r * p
             v == m * p
  <2>4. v >= w /\ v <= z /\ z = 2 * q - p /\ w = q /\ v \in Int
    BY <2>1, <2>2
  <2>5. y = -v - p
    BY <2>1, <2>3
  <2>6. q >= 1
    BY SMT
  <2> HIDE DEF y, z, w, v, m
  <2>7. y \in -(2 * q)..(2 * q - 1) /\ -(y + 1) >= q /\ y < 0 /\ 2 * y < -(2 * q)
    BY <1>1, <2>4, <2>5, <2>6
  <2> QED BY <1>1, <1>3, <2>7 DEF y, Magnitude
<1> QED BY <1>2, <1>3

\* How far norm_l shifts: to the top bit, which is at 2^(2*W-2-n) before.
LEMMA LongNormIs ==
  ASSUME NEW x \in Word32, x # 0, x # -1
  PROVE  \E r \in Nat :
           /\ norm_l(x) \in 0..(2*W - 2) /\ r >= 1 /\ Quarter = 2^norm_l(x) * r
           /\ Magnitude(x) >= r /\ Magnitude(x) < 2 * r
<1> DEFINE Q == Quarter
           N == 2 * W - 2
           M == Magnitude(x)
           E(i) == 2^i
           T == {i \in 0..N : M >= Q \div E(i)}
           Ok(n) == M >= Q \div E(n) /\ \A m \in 0..(n - 1) : M < Q \div E(m)
<1>1. /\ N \in 0..30 /\ Q = E(N) /\ Q \in Nat /\ x \in Int /\ M \in Nat /\ M >= 1 /\ M < 2 * Q
  <2>1. W \in 3..16 /\ Q \in Nat /\ MAX_32 = 2 * Q - 1 /\ MIN_32 = -(2 * Q)
    BY WidthAssumption, Widths
  <2>2. Q = E(N)
    BY Zenon DEF Quarter
  <2> HIDE DEF Q, E
  <2> QED BY <2>1, <2>2 DEF Word32, Magnitude
<1>2. \A i \in 0..33 : E(i) \in Nat /\ E(i) >= 1 /\ E(i + 1) = 2 * E(i)
  BY Powers, Zenon
<1>3. E(0) = 1 /\ \A m, n \in 0..33 : m + n <= 33 => E(m) * E(n) = E(m + n)
  BY Powers, PowersGrow, Zenon
<1>4. norm_l(x) = CHOOSE n \in 0..N : Ok(n)
  <2>1. norm_l(x) = CHOOSE n \in 0..(2*W-2) :
                   /\ Magnitude(x) >= Quarter \div 2^n
                   /\ \A m \in 0..(n-1) : Magnitude(x) < Quarter \div 2^m
    BY DEF norm_l
  <2> QED BY <2>1, Zenon
<1> HIDE DEF E, Q, M, N
<1>5. ASSUME NEW i \in 0..N PROVE E(N - i) \in Nat /\ E(N - i) >= 1 /\ Q = E(i) * E(N - i) /\ Q \div E(i) = E(N - i)
  <2>1. N - i \in 0..33 /\ i \in 0..33 /\ i + (N - i) = N /\ N <= 33
    BY <1>1
  <2> DEFINE e == E(i)
             f == E(N - i)
  <2>2. e \in Nat /\ e >= 1 /\ f \in Nat /\ f >= 1 /\ e * f = Q
    BY <1>1, <1>2, <1>3, <2>1
  <2> HIDE DEF e, f
  <2>3. Q = f * e + 0 /\ 0 \in 0..(e - 1)
    BY <2>2
  <2>4. Q \div e = f
    BY <1>1, <2>2, <2>3, DivIs
  <2> QED BY <2>2, <2>4 DEF e, f
<1>6. N \in T
  <2>1. N \in 0..N /\ N - N = 0
    BY <1>1
  <2> QED BY <1>1, <1>3, <1>5, <2>1
<1>7. PICK k \in T : \A y \in T : ~(y < k)
  <2>1. T \in SUBSET Nat /\ T # {}
    BY <1>6
  <2> HIDE DEF T
  <2> QED BY <2>1, Least
<1>8. k \in 0..N /\ Ok(k)
  <2> SUFFICES ASSUME NEW m \in 0..(k - 1) PROVE M < Q \div E(m)
    OBVIOUS
  <2>1. m \in 0..N /\ m < k
    BY <1>1
  <2>2. ~(M >= Q \div E(m))
    BY <1>7, <2>1
  <2>3. Q \div E(m) \in Nat
    BY <1>5, <2>1
  <2> QED BY <1>1, <2>2, <2>3
<1> DEFINE n == norm_l(x)
<1>9. n \in 0..N /\ Ok(n)
  <2> HIDE DEF Ok
  <2> QED BY <1>4, <1>8
<1> HIDE DEF n
<1> DEFINE r == E(N - n)
<1>10. r \in Nat /\ r >= 1 /\ Q = E(n) * r /\ M >= r
  BY <1>5, <1>9
<1>11. M < 2 * r
  <2>1. CASE n = 0
    <3>1. E(n) = 1 /\ Q = 1 * r
      BY <1>3, <1>10, <2>1
    <3> HIDE DEF r
    <3> QED BY <1>1, <1>10, <3>1
  <2>2. CASE n # 0
    <3>1. n - 1 \in 0..(n - 1) /\ n - 1 \in 0..N /\ N - (n - 1) = (N - n) + 1 /\ N - n \in 0..33
      BY <1>1, <1>9, <2>2
    <3>2. M < Q \div E(n - 1)
      BY <1>9, <3>1
    <3>3. Q \div E(n - 1) = E(N - (n - 1))
      BY <1>5, <3>1
    <3>4. E((N - n) + 1) = 2 * r
      BY <1>2, <3>1
    <3> QED BY <3>1, <3>2, <3>3, <3>4, Zenon
  <2> QED BY <2>1, <2>2
<1> HIDE DEF r
<1> QED BY <1>9, <1>10, <1>11 DEF n, N, M, Q, E

\* How far norm_s shifts, likewise.
LEMMA WordNormIs ==
  ASSUME NEW x \in Word16, x # 0, x # -1
  PROVE  \E r \in Nat :
           /\ norm_s(x) \in 0..(W - 2) /\ r >= 1 /\ Half \div 2 = 2^norm_s(x) * r
           /\ Magnitude(x) >= r /\ Magnitude(x) < 2 * r
<1> DEFINE Q == Half \div 2
           N == W - 2
           M == Magnitude(x)
           E(i) == 2^i
           T == {i \in 0..N : M * E(i) >= Q}
           Ok(n) == M * E(n) >= Q /\ \A m \in 0..(n - 1) : M * E(m) < Q
<1>1. \A i \in 0..33 : E(i) \in Nat /\ E(i) >= 1 /\ E(i + 1) = 2 * E(i)
  BY Powers, Zenon
<1>2. E(0) = 1 /\ \A m, n \in 0..33 : m + n <= 33 => E(m) * E(n) = E(m + n)
  BY Powers, PowersGrow, Zenon
<1>3. /\ N \in 0..30 /\ Q = E(N) /\ Q \in Nat /\ x \in Int /\ M \in Nat /\ M >= 1 /\ M < 2 * Q
  <2>1. W \in 3..16 /\ Q \in Nat /\ MAX_16 = 2 * Q - 1 /\ MIN_16 = -(2 * Q) /\ Half = 2 * Q
    BY WidthAssumption, Widths
  <2>2. Half = E(W - 1)
    BY Zenon DEF Half
  <2> HIDE DEF Q, E
  <2>3. W - 2 \in 0..33 /\ (W - 2) + 1 = W - 1
    BY <2>1
  <2>4. Q = E(N)
    BY <1>1, <2>1, <2>2, <2>3
  <2> QED BY <2>1, <2>4 DEF Word16, Magnitude
<1>4. norm_s(x) = CHOOSE n \in 0..N : Ok(n)
  <2>1. norm_s(x) = CHOOSE n \in 0..(W-2) :
                   /\ Magnitude(x) * 2^n >= Half \div 2
                   /\ \A m \in 0..(n-1) : Magnitude(x) * 2^m < Half \div 2
    BY DEF norm_s
  <2> QED BY <2>1, Zenon
<1> HIDE DEF E, Q, M, N
<1>5. ASSUME NEW i \in 0..N
      PROVE  /\ E(i) \in Nat /\ E(N - i) \in Nat /\ E(N - i) >= 1 /\ Q = E(i) * E(N - i)
             /\ M * E(i) >= Q <=> M >= E(N - i)
             /\ M * E(i) \in Nat
  <2>1. N - i \in 0..33 /\ i \in 0..33 /\ i + (N - i) = N /\ N <= 33
    BY <1>3
  <2> DEFINE e == E(i)
             f == E(N - i)
  <2>2. e \in Nat /\ e >= 1 /\ f \in Nat /\ f >= 1 /\ e * f = Q
    BY <1>1, <1>2, <1>3, <2>1
  <2> HIDE DEF e, f
  <2>3. /\ M >= f => M * e >= f * e
        /\ M < f => M * e <= (f - 1) * e
        /\ (f - 1) * e = f * e - e /\ f * e = e * f
    BY <1>3, <2>2, SMT
  <2> DEFINE y == M * e
             w == f * e
             z == (f - 1) * e
  <2>4. /\ y \in Nat /\ w = Q /\ z = w - e
        /\ M >= f => y >= w
        /\ M < f => y <= z
    BY <1>3, <2>2, <2>3
  <2> HIDE DEF y, w, z
  <2>5. y >= Q <=> M >= f
    BY <1>3, <2>2, <2>4
  <2> QED BY <2>2, <2>4, <2>5 DEF e, f, y
<1>6. N \in T
  <2>1. N \in 0..N /\ N - N = 0
    BY <1>3
  <2> QED BY <1>2, <1>3, <1>5, <2>1
<1>7. PICK k \in T : \A y \in T : ~(y < k)
  <2>1. T \in SUBSET Nat /\ T # {}
    BY <1>6
  <2> HIDE DEF T
  <2> QED BY <2>1, Least
<1>8. k \in 0..N /\ Ok(k)
  <2> SUFFICES ASSUME NEW m \in 0..(k - 1) PROVE M * E(m) < Q
    OBVIOUS
  <2>1. m \in 0..N /\ m < k
    BY <1>3
  <2>2. ~(M * E(m) >= Q)
    BY <1>7, <2>1
  <2>3. M * E(m) \in Nat
    BY <1>5, <2>1
  <2> QED BY <1>3, <2>2, <2>3
<1> DEFINE n == norm_s(x)
<1>9. n \in 0..N /\ Ok(n)
  <2> HIDE DEF Ok
  <2> QED BY <1>4, <1>8
<1> HIDE DEF n
<1> DEFINE r == E(N - n)
<1>10. r \in Nat /\ r >= 1 /\ Q = E(n) * r /\ M >= r
  BY <1>5, <1>9
<1>11. M < 2 * r
  <2>1. CASE n = 0
    <3>1. E(n) = 1 /\ Q = 1 * r
      BY <1>2, <1>10, <2>1
    <3> HIDE DEF r
    <3> QED BY <1>3, <1>10, <3>1
  <2>2. CASE n # 0
    <3>1. n - 1 \in 0..(n - 1) /\ n - 1 \in 0..N /\ N - (n - 1) = (N - n) + 1 /\ N - n \in 0..33
      BY <1>3, <1>9, <2>2
    <3>2. M * E(n - 1) < Q /\ M * E(n - 1) \in Nat
      BY <1>5, <1>9, <3>1
    <3>3. ~(M * E(n - 1) >= Q)
      BY <1>3, <3>2
    <3>4. ~(M >= E(N - (n - 1)))
      BY <1>5, <3>1, <3>3
    <3>5. E((N - n) + 1) = 2 * r
      BY <1>1, <3>1
    <3>6. ~(M >= 2 * r)
      BY <3>1, <3>4, <3>5, Zenon
    <3> HIDE DEF r
    <3> QED BY <1>3, <1>10, <3>6
  <2> QED BY <2>1, <2>2
<1> HIDE DEF r
<1> QED BY <1>9, <1>10, <1>11 DEF n, N, M, Q, E

\* L_shl, where the product fits and where it does not.
LEMMA LongShlIs ==
  ASSUME NEW x \in Word32, NEW n \in 0..33
  PROVE  /\ x * 2^n \in Word32 => L_shl(x, n) = x * 2^n /\ ~L_shl_ovf(x, n)
         /\ x * 2^n \notin Word32 /\ n > 0 => L_shl_ovf(x, n)
<1> DEFINE y == x * 2^n
<1>1. y \in Int /\ Doubled(x, n) = KeptFlag(y)
  BY DoubledIs
<1>2. x \in Int
  BY Widths DEF Word32
<1>3. CASE n = 0
  <2>1. Clamp(0, -2 * W) = 0 /\ ~(0 >= 2 * W - 1) /\ -0 = 0
    <3> HIDE DEF y
    <3>1. ~(0 < -2 * W)
      BY WidthAssumption
    <3>2. ~(0 >= 2 * W - 1)
      BY WidthAssumption
    <3>3. -0 = 0
      <4>1. \A c \in Int : c <= 0 /\ c >= 0 => -c = 0
        OBVIOUS
      <4>2. 0 \in Int /\ 0 <= 0 /\ 0 >= 0
        OBVIOUS
      <4> QED BY <4>1, <4>2, Zenon
    <3> QED BY <3>1, <3>2, <3>3, Zenon DEF Clamp
  <2>2. L_shl(x, 0) = x \div 2^0
    BY <2>1 DEF L_shl, LongDown
  <2>3. x \div 1 = x /\ 2^0 = 1 /\ x * 1 = x
    BY <1>2, SMT
  <2>4. L_shl(x, 0) = x * 2^0
    BY <2>2, <2>3, Zenon
  <2>5. ~L_shl_ovf(x, 0)
    BY DEF L_shl_ovf
  <2> QED BY <1>3, <2>4, <2>5
<1>4. CASE n > 0
  <2>1. L_shl(x, n) = Doubled(x, n).v
    BY <1>4 DEF L_shl
  <2>2. L_shl_ovf(x, n) <=> Doubled(x, n).ovf
    BY <1>4, Zenon DEF L_shl_ovf
  <2> HIDE DEF y
  <2>3. CASE y \in Word32
    <3>1. Doubled(x, n) = [v |-> y, ovf |-> FALSE]
      BY <1>1, <2>3 DEF KeptFlag
    <3>2. Doubled(x, n).v = y /\ Doubled(x, n).ovf = FALSE
      BY <3>1
    <3>3. L_shl(x, n) = y /\ ~L_shl_ovf(x, n)
      BY <2>1, <2>2, <3>2
    <3> QED BY <2>3, <3>3 DEF y
  <2>4. CASE y \notin Word32
    <3>1. Doubled(x, n) = [v |-> Kept(y), ovf |-> TRUE]
      BY <1>1, <2>4 DEF KeptFlag
    <3>2. Doubled(x, n).ovf = TRUE
      BY <3>1
    <3>3. L_shl_ovf(x, n)
      BY <2>2, <3>2
    <3> QED BY <2>4, <3>3 DEF y
  <2> QED BY <2>3, <2>4
<1> QED BY <1>3, <1>4

\* Both normalisers, on the accumulator.
LEMMA NormalisesHold == acc \in Word32 => Normalises
<1> SUFFICES ASSUME acc \in Word32 PROVE Normalises
  OBVIOUS
<1> DEFINE x == acc
           v == extract_h(acc)
<1>1. /\ Quarter \in Nat /\ Quarter >= 16 /\ MAX_32 = 2 * Quarter - 1 /\ MIN_32 = -(2 * Quarter)
      /\ W \in 3..16 /\ x \in Int
  BY WidthAssumption, Widths DEF Word32
<1>2. ASSUME x # 0
      PROVE  LET n == norm_l(x) IN
             /\ \/ x = -1
                \/ ~L_shl_ovf(x, n) /\ Magnitude(L_shl(x, n)) >= Quarter
             /\ L_shr(L_shl(x, n), n) = x
             /\ L_shl_ovf(x, n + 1)
  <2> DEFINE n == norm_l(x)
             p == 2^n
  <2>1. CASE x = -1
    <3>1. n = 2 * W - 1
      BY <2>1 DEF norm_l
    <3> DEFINE e == 2^(2 * W - 2)
    <3>2. e = Quarter /\ 2 * W - 2 \in 0..33 /\ (2 * W - 2) + 1 = 2 * W - 1
      BY <1>1 DEF Quarter
    <3>3. p = 2 * Quarter
      BY <3>1, <3>2, Powers, Zenon
    <3>4. 2^(n + 1) = 2 * p
      <4>1. n \in 0..33
        BY <1>1, <3>1
      <4> QED BY <4>1, Powers, Zenon
    <3> HIDE DEF p
    <3>5. x * p = MIN_32 /\ MIN_32 \in Word32 /\ x * (2 * p) \notin Word32
      BY <1>1, <2>1, <3>3 DEF Word32
    <3>6. n \in 0..33 /\ n + 1 \in 0..33 /\ n + 1 > 0 /\ ~(n < 0) /\ n >= 2 * W - 1
      BY <1>1, <3>1
    <3>7. L_shl(x, n) = MIN_32
      BY <3>5, <3>6, LongShlIs, Zenon DEF p
    <3>8. L_shl_ovf(x, n + 1)
      <4>1. x * 2^(n + 1) \notin Word32
        BY <3>4, <3>5, Zenon
      <4> QED BY <3>6, <4>1, LongShlIs, Zenon
    <3>9. L_shr(MIN_32, n) = -1
      <4>1. L_shr(MIN_32, n) = IF MIN_32 < 0 THEN -1 ELSE 0
        BY <3>6, Zenon DEF L_shr, LongDown
      <4>2. MIN_32 < 0
        BY <1>1
      <4> QED BY <4>1, <4>2, Zenon
    <3> QED BY <2>1, <3>7, <3>8, <3>9, Zenon
  <2>2. CASE x # -1
    <3>1. PICK r \in Nat :
            /\ n \in 0..(2*W - 2) /\ r >= 1 /\ Quarter = p * r
            /\ Magnitude(x) >= r /\ Magnitude(x) < 2 * r
      BY <1>2, <2>2, LongNormIs, Zenon
    <3>2. n \in 0..33 /\ n + 1 \in 0..33 /\ n + 1 > 0 /\ ~(n < 0) /\ ~(n >= 2 * W - 1)
      BY <1>1, <3>1
    <3>3. p \in Nat /\ p >= 1 /\ 2^(n + 1) = 2 * p
      BY <3>2, Powers, Zenon
    <3> HIDE DEF p, n, x
    <3>4. /\ x * p \in -(2 * Quarter)..(2 * Quarter - 1) /\ Magnitude(x * p) >= Quarter
          /\ x > 0 => x * (2 * p) > 2 * Quarter - 1
          /\ x < 0 => x * (2 * p) < -(2 * Quarter)
      BY <1>1, <3>1, <3>3, Scaled
    <3>5. x * p \in Word32
      BY <1>1, <3>4, Zenon DEF Word32
    <3>6. x * (2 * p) \notin Word32
      <4> DEFINE y == x * (2 * p)
      <4>1. /\ y \in Int
            /\ x > 0 => y > 2 * Quarter - 1
            /\ x < 0 => y < -(2 * Quarter)
        BY <1>1, <3>3, <3>4
      <4> HIDE DEF y
      <4>2. y \notin Word32
        <5> HIDE DEF Quarter, MAX_32, MIN_32
        <5> QED BY <1>1, <1>2, <4>1 DEF Word32, x
      <4> QED BY <4>2 DEF y
    <3>7. x \in Word32
      BY DEF x
    <3>8. L_shl(x, n) = x * p /\ ~L_shl_ovf(x, n)
      BY <3>2, <3>5, <3>7, LongShlIs, Zenon DEF p
    <3>9. L_shl_ovf(x, n + 1)
      <4>1. x * 2^(n + 1) \notin Word32
        BY <3>3, <3>6, Zenon
      <4> QED BY <3>2, <3>7, <4>1, LongShlIs, Zenon
    <3>10. L_shr(x * p, n) = x
      <4> DEFINE y == x * p
      <4>1. L_shr(y, n) = y \div p
        BY <3>2, Zenon DEF L_shr, LongDown, p
      <4>2. y \in Int /\ y = x * p + 0 /\ 0 \in 0..(p - 1)
        BY <1>1, <3>3
      <4>3. y \div p = x
        <5> HIDE DEF y
        <5> QED BY <1>1, <3>3, <4>2, DivIs
      <4> QED BY <4>1, <4>3, Zenon
    <3> QED BY <3>4, <3>8, <3>9, <3>10, Zenon DEF n
  <2> QED BY <2>1, <2>2
<1>3. ASSUME v \notin {0, -1}
      PROVE  /\ shr(shl(v, norm_s(v)), norm_s(v)) = v
             /\ shl(v, norm_s(v) + 1) \in {MAX_16, MIN_16}
  <2> DEFINE n == norm_s(v)
             p == 2^n
             q == Half \div 2
  <2>1. v \in Word16 /\ v # 0 /\ v # -1
    BY <1>3, HighHalf
  <2>2. PICK r \in Nat :
          /\ n \in 0..(W - 2) /\ r >= 1 /\ q = p * r
          /\ Magnitude(v) >= r /\ Magnitude(v) < 2 * r
    BY <2>1, WordNormIs, Zenon
  <2>3. /\ q \in Nat /\ Half = 2 * q /\ MAX_16 = 2 * q - 1 /\ MIN_16 = -(2 * q)
        /\ Word16 = -(2 * q)..(2 * q - 1) /\ v \in Int
    BY <2>1, Widths DEF Word16
  <2>4. /\ n \in 0..33 /\ n \in Nat /\ ~(n < 0) /\ ~(n > W - 1) /\ ~(n >= W - 1)
        /\ ~(n + 1 < 0) /\ ~(n + 1 > W - 1)
    BY <1>1, <2>2
  <2>5. p \in Nat /\ p >= 1 /\ 2^(n + 1) = 2 * p
    BY <2>4, Powers, Zenon
  <2> HIDE DEF p, n, v, q
  <2>6. /\ v * p \in -(2 * q)..(2 * q - 1)
        /\ v > 0 => v * (2 * p) > 2 * q - 1
        /\ v < 0 => v * (2 * p) < -(2 * q)
    BY <2>2, <2>3, <2>5, Scaled
  <2>7. shl(v, n) = saturate(v * p)
    BY <2>4, Zenon DEF shl, ShiftUp, p
  <2>8. saturate(v * p) = v * p
    <3> DEFINE y == v * p
    <3> HIDE DEF y
    <3>1. y \in -(2 * q)..(2 * q - 1)
      BY <2>6 DEF y
    <3>2. saturate(y) = y
      BY <2>3, <3>1 DEF saturate
    <3> QED BY <3>2 DEF y
  <2>9. shr(v * p, n) = v
    <3> DEFINE y == v * p
    <3>1. shr(y, n) = y \div p
      BY <2>4, Zenon DEF shr, ShiftDown, p
    <3>2. y \in Int /\ y = v * p + 0 /\ 0 \in 0..(p - 1)
      BY <2>3, <2>5
    <3>3. y \div p = v
      <4> HIDE DEF y
      <4> QED BY <2>3, <2>5, <3>2, DivIs
    <3> QED BY <3>1, <3>3, Zenon
  <2>10. shl(v, n + 1) = saturate(v * (2 * p))
    BY <2>4, <2>5, Zenon DEF shl, ShiftUp
  <2>11. saturate(v * (2 * p)) \in {MAX_16, MIN_16}
    <3> DEFINE y == v * (2 * p)
    <3>1. /\ y \in Int
          /\ v > 0 => y > 2 * q - 1
          /\ v < 0 => y < -(2 * q)
      BY <2>3, <2>5, <2>6
    <3> HIDE DEF y
    <3>2. saturate(y) \in {MAX_16, MIN_16}
      BY <2>1, <2>3, <3>1 DEF saturate, v
    <3> QED BY <3>2 DEF y
  <2> QED BY <2>7, <2>8, <2>9, <2>10, <2>11, Zenon DEF n
<1> HIDE DEF v
<1> QED BY <1>2, <1>3, Zenon DEF Normalises, v

\* Every operator, at the corners of its domain too.
LEMMA Exact == acc \in Word32 => OperatorsAreExact
BY NormalisesHold, QuotientsAreFloorsHold, RoundsToNearestHold, CarryChainsHold
   DEF OperatorsAreExact

-----------------------------------------------------------------------------
(* A computation and its exact value.                                      *)

\* The accumulator never leaves the range of a Word32.
UInv == TypeOK /\ ExactUnlessOverflow

\* At first the accumulator is empty.
LEMMA InitInv == Init => UInv
<1>1. 0 \in Word32
  BY Widths DEF Word32
<1>2. 0 \in Int
  OBVIOUS
<1>3. Init => TypeOK
  BY <1>1, <1>2, Zenon DEF Init, TypeOK
<1>4. Init => ExactUnlessOverflow
  BY Zenon DEF Init, ExactUnlessOverflow
<1> QED BY <1>3, <1>4, Zenon DEF UInv

\* One operator keeps the invariant, if its value is that of a Word32 and the
\* exact result wherever neither it nor an earlier one has saturated.
LEMMA DoKeeps ==
  ASSUME UInv, NEW value \in Word32, NEW saturates, NEW result,
         ~Overflow /\ acc = exact /\ ~saturates => result = value,
         Do(value, saturates, result)
  PROVE  UInv'
<1>1. value \in Int /\ 0 \in Int
  BY Widths DEF Word32
<1>2. CASE Overflow \/ saturates
  <2>1. acc' = value /\ Overflow' = TRUE /\ exact' = 0
    BY <1>2, Zenon DEF Do
  <2> QED BY <1>1, <2>1 DEF UInv, TypeOK, ExactUnlessOverflow
<1>3. CASE ~(Overflow \/ saturates)
  <2>1. acc' = value /\ Overflow' = FALSE /\ exact' = result
    BY <1>3, Zenon DEF Do
  <2>2. result = value
    BY <1>3 DEF UInv, ExactUnlessOverflow
  <2> QED BY <1>1, <2>1, <2>2 DEF UInv, TypeOK, ExactUnlessOverflow
<1> QED BY <1>2, <1>3

\* Loading it starts a new computation.
LEMMA LoadKeeps == UInv /\ Load => UInv'
<1> SUFFICES ASSUME Load PROVE UInv'
  OBVIOUS
<1>1. PICK a \in Operands : \E L \in {L_deposit_h(a), L_deposit_l(a)} :
        acc' = L /\ Overflow' = FALSE /\ exact' = L
  BY DEF Load
<1>2. PICK L \in {L_deposit_h(a), L_deposit_l(a)} :
        acc' = L /\ Overflow' = FALSE /\ exact' = L
  BY <1>1
<1>3. L \in Word32
  BY <1>2, OperandsAssumption, DepositIs
<1>4. L \in Int
  BY <1>3, Widths DEF Word32
<1>5. TypeOK'
  BY <1>2, <1>3, <1>4, Zenon DEF TypeOK
<1>6. ExactUnlessOverflow'
  BY <1>2, Zenon DEF ExactUnlessOverflow
<1> QED BY <1>5, <1>6 DEF UInv

\* The sums of products.
LEMMA MacKeeps == UInv /\ (Mac \/ Msu \/ Mac0 \/ Msu0) => UInv'
<1> SUFFICES ASSUME UInv, Mac \/ Msu \/ Mac0 \/ Msu0 PROVE UInv'
  OBVIOUS
<1>1. acc \in Word32 /\ acc \in Int /\ exact \in Int
  BY Widths DEF UInv, TypeOK, Word32
<1>2. ASSUME NEW a \in Operands, NEW b \in Operands
      PROVE  /\ a * b \in Int /\ 2 * a * b = 2 * (a * b)
             /\ L_mult(a, b) \in Word32 /\ L_mult0(a, b) \in Word32 /\ L_mult0(a, b) = a * b
             /\ ~L_mult_ovf(a, b) => L_mult(a, b) = 2 * (a * b)
  <2>1. a \in Word16 /\ b \in Word16
    BY OperandsAssumption
  <2>2. a \in Int /\ b \in Int /\ a * b \in Int
    BY <2>1, ProductFits
  <2>3. 2 * a * b = 2 * (a * b)
    BY <2>2, SMT
  <2> QED BY <2>1, <2>2, <2>3, MultIs
<1>3. CASE Mac
  <2>1. PICK a \in Operands, b \in Operands :
          Do(L_mac(acc, a, b), L_mac_ovf(acc, a, b), exact + 2 * a * b)
    BY <1>3 DEF Mac
  <2> DEFINE m == L_mult(a, b)
             r == exact + 2 * a * b
  <2>2. m \in Word32 /\ (~L_mult_ovf(a, b) => r = exact + m)
    BY <1>2
  <2>3. /\ L_mac(acc, a, b) = L_add(acc, m)
        /\ ~L_mac_ovf(acc, a, b) => ~L_add_ovf(acc, m) /\ ~L_mult_ovf(a, b)
    BY DEF L_mac, L_mac_ovf
  <2>4. L_add(acc, m) \in Word32 /\ (~L_add_ovf(acc, m) => L_add(acc, m) = acc + m)
    BY <1>1, <2>2, SumIs
  <2> HIDE DEF m, r
  <2>5. /\ L_mac(acc, a, b) \in Word32
        /\ acc = exact /\ ~L_mac_ovf(acc, a, b) => r = L_mac(acc, a, b)
    BY <2>2, <2>3, <2>4
  <2> QED BY <2>1, <2>5, DoKeeps DEF r
<1>4. CASE Msu
  <2>1. PICK a \in Operands, b \in Operands :
          Do(L_msu(acc, a, b), L_msu_ovf(acc, a, b), exact - 2 * a * b)
    BY <1>4 DEF Msu
  <2> DEFINE m == L_mult(a, b)
             r == exact - 2 * a * b
  <2>2. m \in Word32 /\ (~L_mult_ovf(a, b) => r = exact - m)
    BY <1>2
  <2>3. /\ L_msu(acc, a, b) = L_sub(acc, m)
        /\ ~L_msu_ovf(acc, a, b) => ~L_sub_ovf(acc, m) /\ ~L_mult_ovf(a, b)
    BY DEF L_msu, L_msu_ovf
  <2>4. L_sub(acc, m) \in Word32 /\ (~L_sub_ovf(acc, m) => L_sub(acc, m) = acc - m)
    BY <1>1, <2>2, SumIs
  <2> HIDE DEF m, r
  <2>5. /\ L_msu(acc, a, b) \in Word32
        /\ acc = exact /\ ~L_msu_ovf(acc, a, b) => r = L_msu(acc, a, b)
    BY <2>2, <2>3, <2>4
  <2> QED BY <2>1, <2>5, DoKeeps DEF r
<1>5. CASE Mac0
  <2>1. PICK a \in Operands, b \in Operands :
          Do(L_mac0(acc, a, b), L_mac0_ovf(acc, a, b), exact + a * b)
    BY <1>5 DEF Mac0
  <2> DEFINE m == L_mult0(a, b)
             r == exact + a * b
  <2>2. m \in Word32 /\ r = exact + m
    BY <1>2
  <2>3. L_mac0(acc, a, b) = L_add(acc, m) /\ L_mac0_ovf(acc, a, b) = L_add_ovf(acc, m)
    BY DEF L_mac0, L_mac0_ovf
  <2>4. L_add(acc, m) \in Word32 /\ (~L_add_ovf(acc, m) => L_add(acc, m) = acc + m)
    BY <1>1, <2>2, SumIs
  <2> HIDE DEF m, r
  <2>5. /\ L_mac0(acc, a, b) \in Word32
        /\ acc = exact /\ ~L_mac0_ovf(acc, a, b) => r = L_mac0(acc, a, b)
    BY <2>2, <2>3, <2>4
  <2> QED BY <2>1, <2>5, DoKeeps DEF r
<1>6. CASE Msu0
  <2>1. PICK a \in Operands, b \in Operands :
          Do(L_msu0(acc, a, b), L_msu0_ovf(acc, a, b), exact - a * b)
    BY <1>6 DEF Msu0
  <2> DEFINE m == L_mult0(a, b)
             r == exact - a * b
  <2>2. m \in Word32 /\ r = exact - m
    BY <1>2
  <2>3. L_msu0(acc, a, b) = L_sub(acc, m) /\ L_msu0_ovf(acc, a, b) = L_sub_ovf(acc, m)
    BY DEF L_msu0, L_msu0_ovf
  <2>4. L_sub(acc, m) \in Word32 /\ (~L_sub_ovf(acc, m) => L_sub(acc, m) = acc - m)
    BY <1>1, <2>2, SumIs
  <2> HIDE DEF m, r
  <2>5. /\ L_msu0(acc, a, b) \in Word32
        /\ acc = exact /\ ~L_msu0_ovf(acc, a, b) => r = L_msu0(acc, a, b)
    BY <2>2, <2>3, <2>4
  <2> QED BY <2>1, <2>5, DoKeeps DEF r
<1> QED BY <1>3, <1>4, <1>5, <1>6

\* The sums of two Word32.
LEMMA SumKeeps == UInv /\ (Add \/ Sub) => UInv'
<1> SUFFICES ASSUME UInv, Add \/ Sub PROVE UInv'
  OBVIOUS
<1>1. acc \in Word32
  BY DEF UInv, TypeOK
<1>2. ASSUME NEW a \in Operands PROVE L_deposit_h(a) \in Word32
  BY OperandsAssumption, DepositIs
<1>3. CASE Add
  <2>1. PICK a \in Operands : LET L == L_deposit_h(a) IN
          Do(L_add(acc, L), L_add_ovf(acc, L), exact + L)
    BY <1>3 DEF Add
  <2> DEFINE L == L_deposit_h(a)
  <2>2. L_add(acc, L) \in Word32 /\ (~L_add_ovf(acc, L) => L_add(acc, L) = acc + L)
    BY <1>1, <1>2, SumIs
  <2> HIDE DEF L
  <2>3. acc = exact /\ ~L_add_ovf(acc, L) => exact + L = L_add(acc, L)
    BY <2>2
  <2> QED BY <2>1, <2>2, <2>3, DoKeeps DEF L
<1>4. CASE Sub
  <2>1. PICK a \in Operands : LET L == L_deposit_h(a) IN
          Do(L_sub(acc, L), L_sub_ovf(acc, L), exact - L)
    BY <1>4 DEF Sub
  <2> DEFINE L == L_deposit_h(a)
  <2>2. L_sub(acc, L) \in Word32 /\ (~L_sub_ovf(acc, L) => L_sub(acc, L) = acc - L)
    BY <1>1, <1>2, SumIs
  <2> HIDE DEF L
  <2>3. acc = exact /\ ~L_sub_ovf(acc, L) => exact - L = L_sub(acc, L)
    BY <2>2
  <2> QED BY <2>1, <2>2, <2>3, DoKeeps DEF L
<1> QED BY <1>3, <1>4

\* The shift up saturates where the product with 2^n does not fit.
LEMMA ShlKeeps == UInv /\ Shl => UInv'
<1> SUFFICES ASSUME UInv, Shl PROVE UInv'
  OBVIOUS
<1>1. acc \in Word32
  BY DEF UInv, TypeOK
<1>2. PICK n \in Shifts : n > 0 /\ Do(L_shl(acc, n), L_shl_ovf(acc, n), exact * 2^n)
  BY DEF Shl
<1>3. n \in 0..33 /\ n > 0
  BY <1>2, ShiftsAre
<1> DEFINE x == acc * 2^n
<1>4. x \in Int /\ Doubled(acc, n) = KeptFlag(x)
  BY <1>1, <1>3, DoubledIs
<1>5. L_shl(acc, n) = Doubled(acc, n).v /\ (L_shl_ovf(acc, n) <=> Doubled(acc, n).ovf)
  <2>1. L_shl(acc, n) = Doubled(acc, n).v
    BY <1>3 DEF L_shl
  <2>2. L_shl_ovf(acc, n) <=> Doubled(acc, n).ovf
    BY <1>3, Zenon DEF L_shl_ovf
  <2> QED BY <2>1, <2>2
<1>6. exact = acc => exact * 2^n = x
  OBVIOUS
<1> HIDE DEF x
<1>7. CASE x \in Word32
  <2>1. KeptFlag(x) = [v |-> x, ovf |-> FALSE]
    BY <1>7 DEF KeptFlag
  <2>2. L_shl(acc, n) = x
    BY <1>4, <1>5, <2>1
  <2> QED BY <1>2, <1>6, <1>7, <2>2, DoKeeps, Zenon
<1>8. CASE x \notin Word32
  <2>1. KeptFlag(x) = [v |-> Kept(x), ovf |-> TRUE]
    BY <1>8 DEF KeptFlag
  <2>2. L_shl(acc, n) = Kept(x)
    BY <1>4, <1>5, <2>1
  <2>3. L_shl_ovf(acc, n)
    BY <1>4, <1>5, <2>1
  <2>4. Kept(x) \in Word32
    BY <1>4, Widths DEF Kept, Word32
  <2> QED BY <1>2, <2>2, <2>3, <2>4, DoKeeps, Zenon
<1> QED BY <1>7, <1>8

\* The shift down is the quotient rounded down.
LEMMA ShrKeeps == UInv /\ Shr => UInv'
<1> SUFFICES ASSUME UInv, Shr PROVE UInv'
  OBVIOUS
<1>1. acc \in Word32
  BY DEF UInv, TypeOK
<1>2. PICK n \in Shifts : n >= 0 /\ Do(L_shr(acc, n), FALSE, exact \div 2^n)
  BY DEF Shr
<1>3. n \in 0..16 /\ n \in 0..W
  BY <1>2, ShiftsAre
<1>4. L_shr(acc, n) = LongDown(acc, n)
  BY <1>3 DEF L_shr
<1>5. LongDown(acc, n) \in Word32 /\ LongDown(acc, n) = acc \div 2^n
  BY <1>1, <1>3, LongDownIs
<1>6. L_shr(acc, n) \in Word32 /\ (acc = exact => exact \div 2^n = L_shr(acc, n))
  BY <1>4, <1>5, Zenon
<1> QED BY <1>2, <1>6, DoKeeps, Zenon

\* The magnitude and the opposite, which only MIN_32 has not.
LEMMA FoldKeeps == UInv /\ Fold => UInv'
<1> SUFFICES ASSUME UInv, Fold PROVE UInv'
  OBVIOUS
<1>1. acc \in Word32 /\ acc \in Int /\ acc # MIN_32
  BY Widths DEF UInv, TypeOK, Word32, Fold
<1> DEFINE r == IF exact < 0 THEN -exact ELSE exact
<1>2. /\ L_abs(acc) \in Word32 /\ L_negate(acc) \in Word32
      /\ acc = exact => L_abs(acc) = r /\ L_negate(acc) = -exact
  BY <1>1, Widths DEF L_abs, L_negate, Word32
<1>3. Do(L_abs(acc), FALSE, r) \/ Do(L_negate(acc), FALSE, -exact)
  BY DEF Fold
<1> HIDE DEF r
<1> QED BY <1>2, <1>3, DoKeeps, Zenon

\* One operator on words keeps the invariant likewise.
LEMMA WordOpKeeps ==
  ASSUME UInv, NEW value \in Word16, NEW saturates, NEW result,
         ~Overflow /\ acc = exact /\ ~saturates => result = value * (2 * Half),
         WordOp(value, saturates, result)
  PROVE  UInv'
<1>1. L_deposit_h(value) \in Word32 /\ L_deposit_h(value) = value * (2 * Half)
  BY DepositIs
<1>2. Do(L_deposit_h(value), saturates, result)
  BY DEF WordOp
<1>3. ~Overflow /\ acc = exact /\ ~saturates => result = L_deposit_h(value)
  BY <1>1, Zenon
<1> QED BY <1>1, <1>2, <1>3, DoKeeps, Zenon

\* The word shifted up, with the flag where that does not fit.
LEMMA WordShlIs ==
  ASSUME NEW h \in Word16, NEW n \in 1..16, n <= W
  PROVE  /\ shl(h, n) \in Word16
         /\ ~shl_ovf(h, n) => shl(h, n) = h * 2^n
<1>1. Half \in Nat /\ Half >= 4 /\ Word16 = -Half..(Half - 1) /\ h \in Int /\ W \in Nat
      /\ MAX_16 \in Word16 /\ MIN_16 \in Word16 /\ 0 \in Word16
  BY Widths DEF Word16
<1> DEFINE p == 2^n
<1>2. p \in Nat
  <2>1. n \in 0..33
    OBVIOUS
  <2> QED BY <2>1, Powers, Zenon
<1>3. shl(h, n) = ShiftUp(h, n)
  BY DEF shl
<1>4. CASE n > W - 1
  <2>1. shl(h, n) = IF h = 0 THEN 0 ELSE IF h > 0 THEN MAX_16 ELSE MIN_16
    BY <1>3, <1>4 DEF ShiftUp
  <2>2. shl_ovf(h, n) <=> h # 0
    BY <1>4 DEF shl_ovf
  <2>3. 0 * p = 0
    BY <1>2
  <2> HIDE DEF p
  <2>4. ~shl_ovf(h, n) => shl(h, n) = h * p
    BY <2>1, <2>2, <2>3
  <2> QED BY <1>1, <2>1, <2>4 DEF p
<1>5. CASE ~(n > W - 1)
  <2> DEFINE v == h * p
  <2>1. v \in Int
    <3> HIDE DEF p
    <3> QED BY <1>1, <1>2
  <2>2. shl(h, n) = saturate(v) /\ (shl_ovf(h, n) <=> saturate_ovf(v))
    BY <1>3, <1>5 DEF ShiftUp, shl_ovf
  <2> HIDE DEF v
  <2>3. shl(h, n) \in Word16 /\ (~shl_ovf(h, n) => shl(h, n) = v)
    BY <2>1, <2>2, SaturateIs
  <2> QED BY <2>3 DEF v, p
<1> QED BY <1>4, <1>5

\* The word operators, one by one.
LEMMA WordKeeps == UInv /\ Word => UInv'
<1> DEFINE h == extract_h(acc)
           H == Half
<1> SUFFICES ASSUME UInv, Word PROVE UInv'
  OBVIOUS
<1>1. acc \in Word32 /\ exact \in Int
  BY DEF UInv, TypeOK
<1>2. acc % 2^W = 0
  BY DEF Word, WordOp
<1>3. h \in Word16 /\ acc = h * (2 * H)
  <2>1. h \in Word16 /\ acc = h * (2 * H) + (acc % 2^W)
    BY <1>1, HighHalf
  <2>2. h \in Int /\ H \in Int
    BY <2>1, Widths DEF Word16
  <2> DEFINE y == h * (2 * H)
  <2>3. y \in Int
    BY <2>2
  <2>4. acc = y + 0
    BY <1>2, <2>1
  <2> HIDE DEF y
  <2>5. acc = y
    BY <2>3, <2>4
  <2> QED BY <2>1, <2>5 DEF y
<1>4. /\ h \in Int /\ H \in Nat /\ H >= 4 /\ 2^W = 2 * H
      /\ MIN_16 = -H /\ MAX_16 = H - 1 /\ Word16 = -H..(H - 1)
  BY <1>3, Widths DEF Word16
<1>5. ASSUME NEW a \in Operands PROVE a \in Word16 /\ a \in Int
  BY OperandsAssumption, Widths DEF Word16
<1>6. \/ \E a \in Operands :
           \/ WordOp(add(h, a), saturate_ovf(h + a), exact + a * 2^W)
           \/ WordOp(sub(h, a), saturate_ovf(h - a), exact - a * 2^W)
           \/ WordOp(i_mult(h, a), saturate_ovf(h * a), exact * a)
      \/ \E n \in Shifts : n > 0 /\ WordOp(shl(h, n), shl_ovf(h, n), exact * 2^n)
      \/ h # MIN_16 /\ WordOp(negate(h), FALSE, -exact)
      \/ h # MIN_16 /\ WordOp(abs_s(h), FALSE, IF exact < 0 THEN -exact ELSE exact)
  BY DEF Word
<1> HIDE DEF h, H
<1>7. ASSUME NEW a \in Operands,
             WordOp(add(h, a), saturate_ovf(h + a), exact + a * 2^W)
      PROVE  UInv'
  <2>1. add(h, a) \in Word16 /\ (~saturate_ovf(h + a) => add(h, a) = h + a)
    <3>1. h + a \in Int /\ add(h, a) = saturate(h + a)
      BY <1>4, <1>5 DEF add
    <3> QED BY <3>1, SaturateIs, Zenon
  <2>2. acc = exact => exact + a * 2^W = (h + a) * (2 * H)
    BY <1>3, <1>4, <1>5, SMT
  <2>3. acc = exact /\ ~saturate_ovf(h + a) => exact + a * 2^W = add(h, a) * (2 * Half)
    BY <2>1, <2>2, Zenon DEF H
  <2> QED BY <1>7, <2>1, <2>3, WordOpKeeps, Zenon
<1>8. ASSUME NEW a \in Operands,
             WordOp(sub(h, a), saturate_ovf(h - a), exact - a * 2^W)
      PROVE  UInv'
  <2>1. sub(h, a) \in Word16 /\ (~saturate_ovf(h - a) => sub(h, a) = h - a)
    <3>1. h - a \in Int /\ sub(h, a) = saturate(h - a)
      BY <1>4, <1>5 DEF sub
    <3> QED BY <3>1, SaturateIs, Zenon
  <2>2. acc = exact => exact - a * 2^W = (h - a) * (2 * H)
    BY <1>3, <1>4, <1>5, SMT
  <2>3. acc = exact /\ ~saturate_ovf(h - a) => exact - a * 2^W = sub(h, a) * (2 * Half)
    BY <2>1, <2>2, Zenon DEF H
  <2> QED BY <1>8, <2>1, <2>3, WordOpKeeps, Zenon
<1>9. ASSUME NEW a \in Operands, WordOp(i_mult(h, a), saturate_ovf(h * a), exact * a)
      PROVE  UInv'
  <2>1. h * a \in Int
    BY <1>4, <1>5
  <2>2. i_mult(h, a) \in Word16 /\ (~saturate_ovf(h * a) => i_mult(h, a) = h * a)
    BY <2>1, SaturateIs DEF i_mult
  <2>3. acc = exact => exact * a = (h * a) * (2 * H)
    BY <1>3, <1>4, <1>5, SMT
  <2>4. acc = exact /\ ~saturate_ovf(h * a) => exact * a = i_mult(h, a) * (2 * Half)
    BY <2>2, <2>3, Zenon DEF H
  <2> QED BY <1>9, <2>2, <2>4, WordOpKeeps, Zenon
<1>10. ASSUME NEW n \in Shifts, n > 0, WordOp(shl(h, n), shl_ovf(h, n), exact * 2^n)
       PROVE  UInv'
  <2>1. n \in 1..16 /\ n <= W /\ n \in 0..33
    BY <1>10, ShiftsAre
  <2>2. shl(h, n) \in Word16 /\ (~shl_ovf(h, n) => shl(h, n) = h * 2^n)
    BY <1>3, <2>1, WordShlIs
  <2> DEFINE p == 2^n
  <2>3. p \in Nat
    BY <2>1, Powers, Zenon
  <2>4. acc = exact => exact * p = (h * p) * (2 * H)
    <3> HIDE DEF p
    <3> QED BY <1>3, <1>4, <2>3, SMT
  <2>5. acc = exact /\ ~shl_ovf(h, n) => exact * 2^n = shl(h, n) * (2 * Half)
    BY <2>2, <2>4, Zenon DEF H
  <2> QED BY <1>10, <2>2, <2>5, WordOpKeeps, Zenon
<1>11. ASSUME h # MIN_16, WordOp(negate(h), FALSE, -exact) PROVE UInv'
  <2>1. negate(h) \in Word16 /\ negate(h) = -h
    BY <1>3, <1>4, <1>11 DEF negate
  <2>2. acc = exact => -exact = (-h) * (2 * H)
    BY <1>3, <1>4, SMT
  <2>3. acc = exact => -exact = negate(h) * (2 * Half)
    BY <2>1, <2>2, Zenon DEF H
  <2> QED BY <1>11, <2>1, <2>3, WordOpKeeps, Zenon
<1>12. ASSUME h # MIN_16, WordOp(abs_s(h), FALSE, IF exact < 0 THEN -exact ELSE exact)
       PROVE  UInv'
  <2>1. abs_s(h) \in Word16 /\ abs_s(h) = IF h < 0 THEN -h ELSE h
    BY <1>3, <1>4, <1>12 DEF abs_s
  <2>2. h < 0 <=> h * (2 * H) < 0
    BY <1>4, SMT
  <2>3. (-h) * (2 * H) = -(h * (2 * H))
    BY <1>4, SMT
  <2> DEFINE y == h * (2 * H)
             r == IF exact < 0 THEN -exact ELSE exact
  <2>4. abs_s(h) * (2 * H) = IF y < 0 THEN -y ELSE y
    BY <2>1, <2>2, <2>3, Zenon
  <2>5. acc = y
    BY <1>3
  <2> HIDE DEF y
  <2>6. acc = exact => r = abs_s(h) * (2 * Half)
    BY <2>4, <2>5, Zenon DEF H
  <2>7. WordOp(abs_s(h), FALSE, r)
    BY <1>12
  <2> HIDE DEF r
  <2> QED BY <2>1, <2>6, <2>7, WordOpKeeps, Zenon
<1> QED BY <1>6, <1>7, <1>8, <1>9, <1>10, <1>11, <1>12, Zenon

\* Every operator keeps the invariant.
LEMMA StepInv == UInv /\ [Next]_vars => UInv'
<1> SUFFICES ASSUME UInv, [Next]_vars PROVE UInv'
  OBVIOUS
<1>1. CASE UNCHANGED vars
  BY <1>1 DEF vars, UInv, TypeOK, ExactUnlessOverflow
<1>2. CASE Next
  BY <1>2, LoadKeeps, MacKeeps, SumKeeps, ShlKeeps, ShrKeeps, FoldKeeps, WordKeeps, Zenon
     DEF Next
<1> QED BY <1>1, <1>2

\* The accumulator stays a Word32 whatever is computed.
THEOREM TypeCorrect == Spec => []TypeOK
<1>1. UInv => TypeOK
  BY DEF UInv
<1> QED BY <1>1, InitInv, StepInv, PTL DEF Spec

\* No operator saturates, wraps or drops a sign without setting Overflow, at
\* every width and for any operands (basop32.c).
THEOREM ExactAlways == Spec => []ExactUnlessOverflow
<1>1. UInv => ExactUnlessOverflow
  BY DEF UInv
<1> QED BY <1>1, InitInv, StepInv, PTL DEF Spec

\* Everywhere the computation can be, each operator that scales, divides,
\* rounds or carries computes what its comment says (basop32.c).
THEOREM OperatorsExactAlways == Spec => []OperatorsAreExact
<1>1. UInv => OperatorsAreExact
  BY Exact DEF UInv, TypeOK
<1> QED BY <1>1, InitInv, StepInv, PTL DEF Spec
==============================================================================
