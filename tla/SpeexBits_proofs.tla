-------------------------- MODULE SpeexBits_proofs ---------------------------
(***************************************************************************)
(* Proofs about SpeexBits, for chars of any number of bits, buffers of any *)
(* size and any packets: the cursor stays in the buffer and stands before  *)
(* clear bits while a coder writes, and the stream implements BitQueue.    *)
(* Sound is the invariant of a stream that no append has spoilt, Adrift    *)
(* that of one an append without room has; IInv is either.                 *)
(***************************************************************************)
EXTENDS SpeexBits, SequenceTheorems, FiniteSetTheorems, WellFoundedInduction, TLAPS

-----------------------------------------------------------------------------
(* Induction, chars and their bits. *)

\* A set of naturals with 0 and every successor has them all.
LEMMA Induction ==
  ASSUME NEW S \in SUBSET Nat, 0 \in S, \A n \in S : n + 1 \in S
  PROVE  S = Nat
<1> DEFINE T == Nat \ S
<1> SUFFICES ASSUME T # {} PROVE FALSE
  OBVIOUS
<1> DEFINE R == OpToRel(<, Nat)
<1>1. \A x, y \in Nat : <<y, x>> \in R <=> y < x
  BY DEF OpToRel
<1>2. IsWellFoundedOn(R, Nat)
  BY NatLessThanWellFounded
<1>3. T \subseteq Nat
  OBVIOUS
<1> HIDE DEF R, T
<1>4. PICK x \in T : \A y \in T : ~(<<y, x>> \in R)
  BY <1>2, <1>3, WFMin
<1>5. x \in Nat /\ x \notin S /\ \A y \in T : ~(y < x)
  BY <1>1, <1>3, <1>4 DEF T
<1>6. x # 0 /\ x - 1 \in Nat
  BY <1>5
<1>7. x - 1 \in S
  BY <1>5, <1>6 DEF T
<1>8. x - 1 + 1 \in S
  BY <1>7
<1>9. x - 1 + 1 = x
  BY <1>5
<1> QED BY <1>5, <1>8, <1>9

\* A bit's char and its place in it.
LEMMA CharOfBit ==
  ASSUME NEW x \in Int
  PROVE  /\ x \div C \in Int /\ x % C \in Int /\ 0 <= x % C /\ x % C < C
         /\ x = (x \div C) * C + (x % C)
BY BitsAssumption

\* They are determined by the char's first bit.
LEMMA CharIs ==
  ASSUME NEW x \in Int, NEW q \in Int, q * C <= x, x < q * C + C
  PROVE  x \div C = q /\ x % C = x - q * C
BY BitsAssumption

\* Chars lie one after the other.
LEMMA CharsInOrder ==
  ASSUME NEW p \in Int, NEW q \in Int
  PROVE  /\ p * C \in Int /\ q * C \in Int
         /\ (p < q) <=> (p * C < q * C)
         /\ p < q => p * C + C <= q * C
         /\ (p + 1) * C = p * C + C /\ (p + q) * C = p * C + q * C /\ (p - q) * C = p * C - q * C
BY BitsAssumption

\* A place in char q or before it is below the end of q.
LEMMA InChar ==
  ASSUME NEW x \in Int, NEW q \in Int
  PROVE  x \div C < q <=> x < q * C
<1> DEFINE p == x \div C
<1>5. C \in Int
  BY BitsAssumption
<1>7. p \in Int /\ x % C \in Int /\ 0 <= x % C /\ x % C < C /\ x = p * C + (x % C)
  BY CharOfBit
<1> HIDE DEF p
<1>8. p * C \in Int /\ q * C \in Int
  BY <1>5, <1>7
<1>1. p \in Int /\ p * C \in Int /\ q * C \in Int /\ p * C <= x /\ x < p * C + C
  <2> DEFINE m == x % C
             pc == p * C
  <2>1. m \in Int /\ pc \in Int /\ 0 <= m /\ m < C /\ x = pc + m
    BY <1>7, <1>8
  <2> HIDE DEF m, pc
  <2>2. pc <= x /\ x < pc + C
    BY <2>1, <1>5
  <2> QED BY <1>7, <1>8, <2>2 DEF pc
<1>2. p < q => p * C + C <= q * C
  BY <1>1, CharsInOrder
<1>3. q < p => q * C < p * C
  BY <1>1, CharsInOrder
<1>4. ~(p < q) => q * C <= p * C
  BY <1>1, <1>3
<1>6. p < q <=> x < q * C
  BY <1>1, <1>2, <1>4, <1>5
<1> QED BY <1>6 DEF p

\* The bit after x is in its char, or is the first of the next one.
LEMMA NextBit ==
  ASSUME NEW x \in Int, NEW y \in Int, y = x + 1
  PROVE  /\ y % C # 0 => y \div C = x \div C
         /\ y % C = 0 => y \div C = x \div C + 1 /\ y = (x \div C + 1) * C
<1> DEFINE p == x \div C
           m == x % C
           pc == p * C
           q == p + 1
           qc == q * C
<1>1. p \in Int /\ m \in Int /\ 0 <= m /\ m < C /\ x = pc + m
  BY CharOfBit
<1>2. C \in Int /\ 0 < C /\ pc \in Int /\ qc = pc + C /\ q \in Int
  BY <1>1, CharsInOrder, BitsAssumption
<1>3. ASSUME m + 1 < C PROVE y \div C = p /\ y % C # 0
  <2>1. pc <= y /\ y < pc + C /\ y - pc # 0
    <3> HIDE DEF m, pc
    <3> QED BY <1>1, <1>2, <1>3
  <2> HIDE DEF p
  <2>2. y \div C = p /\ y % C = y - pc
    BY <1>1, <2>1, CharIs
  <2> QED BY <2>1, <2>2
<1>4. ASSUME m + 1 = C PROVE y \div C = q /\ y % C = 0 /\ y = qc
  <2>1. y = qc
    <3> HIDE DEF m, pc, qc
    <3> QED BY <1>1, <1>2, <1>4
  <2>2. qc <= y /\ y < qc + C /\ y - qc = 0
    <3> HIDE DEF qc
    <3> QED BY <1>2, <2>1
  <2> HIDE DEF q
  <2>3. y \div C = q /\ y % C = y - qc
    BY <1>2, <2>2, CharIs
  <2> QED BY <2>1, <2>2, <2>3
<1>5. m + 1 < C \/ m + 1 = C
  <2> HIDE DEF m
  <2> QED BY <1>1, <1>2
<1> QED BY <1>3, <1>4, <1>5, Zenon

\* A stream over a buffer of k chars.
Stream(s, k) ==
  s \in [buf : [0..(k * C - 1) -> {0, 1}], nbBits : Nat, ptr : Nat,
         owner : BOOLEAN, overflow : BOOLEAN]

\* Its size is k.
LEMMA SizeOfStream ==
  ASSUME NEW k \in Nat, NEW s, DOMAIN s.buf = 0..(k * C - 1)
  PROVE  Size(s) = k /\ Cardinality(DOMAIN s.buf) = k * C
<1>1. k * C \in Nat
  BY BitsAssumption
<1>2. Cardinality(0..(k * C - 1)) = k * C
  BY <1>1, FS_Interval
<1>3. (k * C) \div C = k
  BY <1>1, BitsAssumption, CharIs
<1> QED BY <1>2, <1>3 DEF Size

-----------------------------------------------------------------------------
(* speex_bits_pack: one bit, a field, with room and without. *)

\* From the cursor to the end of its char, every bit is 0.
Clear(s) == \A i \in DOMAIN s.buf : i >= s.ptr /\ i \div C = s.ptr \div C => s.buf[i] = 0

\* The stream r is s and the string f after it, in a buffer of k chars.
Appended(r, s, f, k) ==
  /\ Stream(r, k)
  /\ r.ptr = s.ptr + Len(f) /\ r.nbBits = s.nbBits + Len(f)
  /\ r.owner = s.owner /\ r.overflow = s.overflow
  /\ \A j \in 0..(s.ptr - 1) : r.buf[j] = s.buf[j]
  /\ \A m \in 1..Len(f) : r.buf[s.ptr + m - 1] = f[m]

\* What PackBit leaves in every place.
PackedBit(r, s, bit, k) ==
  /\ Stream(r, k)
  /\ r.ptr = s.ptr + 1 /\ r.nbBits = s.nbBits + 1
  /\ r.owner = s.owner /\ r.overflow = s.overflow
  /\ \A j \in 0..(k * C - 1) :
       r.buf[j] = IF j = s.ptr THEN IF bit = 1 THEN 1 ELSE s.buf[j]
                  ELSE IF (s.ptr + 1) % C = 0 /\ j \div C = (s.ptr + 1) \div C THEN 0
                  ELSE s.buf[j]

\* A bit is ORed in and, at the end of a char, the next one is cleared.
LEMMA PackBitPacks ==
  ASSUME NEW k \in Nat, NEW s, Stream(s, k), s.ptr < k * C, NEW bit \in {0, 1}
  PROVE  PackedBit(PackBit(s, bit), s, bit, k)
<1> DEFINE set == [s.buf EXCEPT ![s.ptr] = IF bit = 1 THEN 1 ELSE @]
           next == s.ptr + 1
           new == IF next % C = 0 THEN ClearChar(set, next \div C) ELSE set
           D == 0..(k * C - 1)
<1>1. s.buf \in [D -> {0, 1}] /\ s.ptr \in D /\ s.ptr \in Nat /\ s.nbBits \in Nat /\ next \in Nat
  BY BitsAssumption DEF Stream
<1>2. set \in [D -> {0, 1}] /\ \A j \in D : set[j] = IF j = s.ptr THEN IF bit = 1 THEN 1 ELSE s.buf[j] ELSE s.buf[j]
  <2> HIDE DEF D
  <2> QED BY <1>1
<1>3. next % C = 0 => s.ptr \div C # next \div C
  <2>1. next \in Int /\ s.ptr \in Int
    BY <1>1
  <2> QED BY <2>1, NextBit, CharOfBit
<1>4. new \in [D -> {0, 1}]
  <2> HIDE DEF D, set, next
  <2>1. DOMAIN set = D
    BY <1>2
  <2>2. ClearChar(set, next \div C) = [i \in D |-> IF i \div C = next \div C THEN 0 ELSE set[i]]
    BY <2>1 DEF ClearChar
  <2> QED BY <1>2, <2>2
<1>5. ASSUME NEW j \in D
      PROVE  new[j] = IF j = s.ptr THEN IF bit = 1 THEN 1 ELSE s.buf[j]
                      ELSE IF next % C = 0 /\ j \div C = next \div C THEN 0 ELSE s.buf[j]
  <2> HIDE DEF D, set, next
  <2>1. DOMAIN set = D
    BY <1>2
  <2>2. ClearChar(set, next \div C)[j] = IF j \div C = next \div C THEN 0 ELSE set[j]
    BY <2>1 DEF ClearChar
  <2> QED BY <1>2, <1>3, <2>2
<1>6. PackBit(s, bit) = [s EXCEPT !.buf = new, !.ptr = next, !.nbBits = @ + 1]
  BY DEF PackBit
<1> HIDE DEF new, set
<1>7. PackBit(s, bit) \in [buf : [D -> {0, 1}], nbBits : Nat, ptr : Nat, owner : BOOLEAN, overflow : BOOLEAN]
  <2>1. s \in [buf : [D -> {0, 1}], nbBits : Nat, ptr : Nat, owner : BOOLEAN, overflow : BOOLEAN]
    BY DEF Stream
  <2> HIDE DEF D, next
  <2>2. PackBit(s, bit) = [buf |-> new, nbBits |-> s.nbBits + 1, ptr |-> next,
                           owner |-> s.owner, overflow |-> s.overflow]
    BY <1>6, <2>1
  <2>3. s.nbBits + 1 \in Nat /\ s.owner \in BOOLEAN /\ s.overflow \in BOOLEAN
    BY <1>1, <2>1
  <2> QED BY <1>1, <1>4, <2>2, <2>3
<1>8. /\ PackBit(s, bit).buf = new /\ PackBit(s, bit).ptr = next
      /\ PackBit(s, bit).nbBits = s.nbBits + 1
      /\ PackBit(s, bit).owner = s.owner /\ PackBit(s, bit).overflow = s.overflow
  BY <1>6 DEF Stream
<1> QED BY <1>5, <1>7, <1>8 DEF PackedBit, Stream

\* What was packed before is not touched.
LEMMA PackedBitKeeps ==
  ASSUME NEW k \in Nat, NEW s, Stream(s, k), s.ptr < k * C, NEW bit, NEW r, PackedBit(r, s, bit, k)
  PROVE  \A j \in 0..(s.ptr - 1) : r.buf[j] = s.buf[j]
<1>2. s.ptr \in Nat /\ k * C \in Nat /\ s.ptr + 1 \in Int
  BY BitsAssumption DEF Stream
<1> SUFFICES ASSUME NEW j \in 0..(s.ptr - 1) PROVE r.buf[j] = s.buf[j]
  OBVIOUS
<1>3. j \in 0..(k * C - 1) /\ j # s.ptr /\ j \in Int /\ j < s.ptr + 1
  BY <1>2
<1>4. (s.ptr + 1) % C = 0 => s.ptr + 1 = ((s.ptr + 1) \div C) * C
  BY <1>2, NextBit
<1>5. (s.ptr + 1) \div C \in Int /\ j \div C \in Int
  BY <1>2, <1>3, CharOfBit
<1>6. (s.ptr + 1) % C = 0 => j \div C < (s.ptr + 1) \div C
  BY <1>3, <1>4, <1>5, InChar
<1> QED BY <1>3, <1>5, <1>6 DEF PackedBit

\* So a bit packed before clear bits is stored, and clear bits follow it.
LEMMA PackBitStores ==
  ASSUME NEW k \in Nat, NEW s, Stream(s, k), s.ptr < k * C, Clear(s), NEW bit \in {0, 1}
  PROVE  LET r == PackBit(s, bit) IN Appended(r, s, <<bit>>, k) /\ Clear(r)
<1> DEFINE r == PackBit(s, bit)
<1>1. PackedBit(r, s, bit, k)
  BY PackBitPacks
<1> HIDE DEF r
<1>2. s.ptr \in Nat /\ k * C \in Nat /\ s.ptr + 1 \in Int /\ s.ptr \in 0..(k * C - 1)
  BY BitsAssumption DEF Stream
<1>3. DOMAIN s.buf = 0..(k * C - 1) /\ DOMAIN r.buf = 0..(k * C - 1)
  BY <1>1 DEF Stream, PackedBit
<1>4. s.buf[s.ptr] = 0
  BY <1>2, <1>3 DEF Clear
<1>5. \A j \in 0..(s.ptr - 1) : r.buf[j] = s.buf[j]
  BY <1>1, PackedBitKeeps
<1>6. r.buf[s.ptr] = bit
  BY <1>1, <1>2, <1>4 DEF PackedBit
<1>7. Appended(r, s, <<bit>>, k)
  BY <1>1, <1>2, <1>5, <1>6 DEF PackedBit, Appended
<1>8. ASSUME NEW i \in 0..(k * C - 1), i >= s.ptr + 1, i \div C = (s.ptr + 1) \div C
      PROVE  r.buf[i] = 0
  <2>1. CASE (s.ptr + 1) % C = 0
    BY <1>1, <1>2, <1>8, <2>1 DEF PackedBit
  <2>2. CASE (s.ptr + 1) % C # 0
    <3>4. s.ptr \div C = (s.ptr + 1) \div C
      BY <1>2, <2>2, NextBit
    <3>5. s.buf[i] = 0
      BY <1>2, <1>3, <1>8, <3>4 DEF Clear
    <3> QED BY <1>1, <1>2, <1>8, <2>2, <3>5 DEF PackedBit
  <2> QED BY <2>1, <2>2
<1>9. r.ptr = s.ptr + 1
  BY <1>1 DEF PackedBit
<1>10. Clear(r)
  BY <1>3, <1>8, <1>9 DEF Clear
<1> QED BY <1>7, <1>10 DEF r

\* PackBits does what its loop says, one bit after the other.
LEMMA PackBitsByBits ==
  ASSUME NEW s, NEW field \in Seq({0, 1})
  PROVE  \E f : /\ f = [i \in 0..Len(field) |-> IF i = 0 THEN s ELSE PackBit(f[i-1], field[i])]
                /\ PackBits(s, field) = f[Len(field)]
<1> DEFINE Ok(f, n) == f = [i \in 0..n |-> IF i = 0 THEN s ELSE PackBit(f[i-1], field[i])]
           P == {n \in Nat : \E f : Ok(f, n)}
<1>1. 0 \in P
  <2> DEFINE f == [i \in 0..0 |-> s]
  <2>1. Ok(f, 0)
    OBVIOUS
  <2> HIDE DEF f, Ok
  <2> QED BY <2>1
<1>2. ASSUME NEW n \in P PROVE n + 1 \in P
  <2>1. PICK f : Ok(f, n)
    OBVIOUS
  <2> DEFINE g == [i \in 0..(n+1) |-> IF i = 0 THEN s ELSE PackBit(f[i-1], field[i])]
  <2>2. \A i \in 0..n : g[i] = f[i]
    BY <2>1
  <2>3. \A i \in 0..(n+1) : i # 0 => i - 1 \in 0..n
    OBVIOUS
  <2>4. g = [i \in 0..(n+1) |-> IF i = 0 THEN s ELSE PackBit(g[i-1], field[i])]
    <3>1. \A i \in 0..(n+1) : i # 0 => g[i-1] = f[i-1]
      BY <2>2, <2>3
    <3> QED BY <3>1
  <2>5. Ok(g, n + 1)
    BY <2>4
  <2> HIDE DEF g, Ok
  <2> QED BY <2>5
<1>3. P = Nat
  <2>1. P \subseteq Nat
    OBVIOUS
  <2> HIDE DEF P
  <2> QED BY <1>1, <1>2, <2>1, Induction
<1>4. Len(field) \in P
  BY <1>3
<1> QED BY <1>4, Zenon DEF PackBits

\* A field packed before clear bits, with room for it and a bit more, is stored.
LEMMA PackBitsStores ==
  ASSUME NEW k \in Nat, NEW s, Stream(s, k), Clear(s), NEW field \in Seq({0, 1}),
         s.ptr + Len(field) < k * C
  PROVE  LET r == PackBits(s, field) IN Appended(r, s, field, k) /\ Clear(r)
<1> DEFINE N == Len(field)
<1>1. N \in Nat /\ \A i \in 1..N : field[i] \in {0, 1}
  OBVIOUS
<1>2. PICK f : /\ f = [i \in 0..N |-> IF i = 0 THEN s ELSE PackBit(f[i-1], field[i])]
               /\ PackBits(s, field) = f[N]
  BY PackBitsByBits
<1>3. f[0] = s /\ \A i \in 0..N : i + 1 \in 0..N => f[i+1] = PackBit(f[i], field[i+1])
  BY <1>1, <1>2
<1> DEFINE Up(i) == SubSeq(field, 1, i)
           P == {i \in Nat : i <= N => Appended(f[i], s, Up(i), k) /\ Clear(f[i])}
<1>4. k * C \in Nat /\ s.ptr \in Nat /\ s.nbBits \in Nat
  BY BitsAssumption DEF Stream
<1>5. \A i \in 0..N : Len(Up(i)) = i /\ \A m \in 1..i : Up(i)[m] = field[m]
  BY <1>1
<1>6. 0 \in P
  <2>1. Appended(s, s, Up(0), k)
    <3> HIDE DEF Up
    <3>1. Len(Up(0)) = 0
      BY <1>1, <1>5
    <3> QED BY <1>4, <3>1 DEF Appended
  <2> QED BY <1>3, <2>1
<1>7. ASSUME NEW i \in P PROVE i + 1 \in P
  <2> SUFFICES ASSUME i + 1 <= N
               PROVE  Appended(f[i+1], s, Up(i+1), k) /\ Clear(f[i+1])
    OBVIOUS
  <2>1. i \in 0..N /\ i + 1 \in 1..N /\ i + 1 \in 0..N /\ i \in Nat
    BY <1>1
  <2>2. Appended(f[i], s, Up(i), k) /\ Clear(f[i])
    BY <2>1
  <2> DEFINE u == f[i]
             r == f[i+1]
             bit == field[i+1]
  <2>3. u.ptr = s.ptr + i /\ u.nbBits = s.nbBits + i /\ u.ptr < k * C /\ Stream(u, k) /\ u.ptr \in Nat
    <3> HIDE DEF Up
    <3> QED BY <1>1, <1>4, <1>5, <2>1, <2>2 DEF Appended
  <2>4. r = PackBit(u, bit) /\ bit \in {0, 1}
    BY <1>1, <1>3, <2>1
  <2> HIDE DEF u, r, bit, Up, P
  <2>5. Appended(r, u, <<bit>>, k) /\ Clear(r)
    BY <2>2, <2>3, <2>4, PackBitStores DEF u
  <2>6. Appended(u, s, Up(i), k)
    BY <2>2 DEF u
  <2>7. Len(<<bit>>) = 1 /\ <<bit>>[1] = bit
    OBVIOUS
  <2>8. /\ Stream(r, k) /\ r.ptr = s.ptr + (i + 1) /\ r.nbBits = s.nbBits + (i + 1)
        /\ r.owner = s.owner /\ r.overflow = s.overflow
    <3>1. r.owner = s.owner /\ r.overflow = s.overflow /\ Stream(r, k)
      BY <2>5, <2>6, Zenon DEF Appended
    <3>2. r.ptr = u.ptr + 1 /\ r.nbBits = u.nbBits + 1
      BY <2>5, <2>7 DEF Appended
    <3>3. r.ptr = s.ptr + (i + 1) /\ r.nbBits = s.nbBits + (i + 1)
      <4>1. s.ptr \in Nat /\ s.nbBits \in Nat /\ i \in Nat
        BY <1>4, <2>1
      <4>2. u.ptr = s.ptr + i /\ u.nbBits = s.nbBits + i
        BY <2>3
      <4>3. \A x \in Nat, j \in Nat : (x + j) + 1 = x + (j + 1)
        OBVIOUS
      <4>4. (s.ptr + i) + 1 = s.ptr + (i + 1) /\ (s.nbBits + i) + 1 = s.nbBits + (i + 1)
        BY <4>1, <4>3, Zenon
      <4> QED BY <3>2, <4>2, <4>4, Zenon
    <3> QED BY <3>1, <3>3
  <2>9. \A j \in 0..(s.ptr - 1) : r.buf[j] = s.buf[j]
    <3>1. \A j \in 0..(s.ptr - 1) : j \in 0..(u.ptr - 1)
      <4>1. s.ptr \in Nat /\ i \in Nat /\ u.ptr = s.ptr + i
        BY <1>4, <2>1, <2>3, Zenon
      <4> QED BY <4>1
    <3>2. \A j \in 0..(u.ptr - 1) : r.buf[j] = u.buf[j]
      BY <2>5 DEF Appended
    <3>3. \A j \in 0..(s.ptr - 1) : u.buf[j] = s.buf[j]
      BY <2>6 DEF Appended
    <3> QED BY <3>1, <3>2, <3>3
  <2>10. ASSUME NEW m \in 1..(i + 1) PROVE r.buf[s.ptr + m - 1] = field[m]
    <3>1. CASE m = i + 1
      <4>1. r.buf[u.ptr + 1 - 1] = bit
        BY <2>5, <2>7 DEF Appended
      <4>2. u.ptr + 1 - 1 = s.ptr + m - 1
        BY <1>4, <2>1, <2>3, <3>1
      <4>3. field[m] = bit
        BY <3>1, Zenon DEF bit
      <4> QED BY <4>1, <4>2, <4>3, Zenon
    <3>2. CASE m # i + 1
      <4>1. m \in 1..i /\ s.ptr + m - 1 \in 0..(u.ptr - 1)
        <5>1. s.ptr \in Nat /\ i \in Nat /\ u.ptr = s.ptr + i
          BY <1>4, <2>1, <2>3, Zenon
        <5> QED BY <3>2, <5>1, SMTT(30)
      <4>2. r.buf[s.ptr + m - 1] = u.buf[s.ptr + m - 1]
        BY <2>5, <4>1 DEF Appended
      <4>3. u.buf[s.ptr + m - 1] = Up(i)[m]
        BY <1>5, <2>1, <2>6, <4>1 DEF Appended
      <4> QED BY <1>5, <2>1, <4>1, <4>2, <4>3
    <3> QED BY <3>1, <3>2
  <2>11. Len(Up(i+1)) = i + 1 /\ \A m \in 1..(i+1) : Up(i+1)[m] = field[m]
    BY <1>5, <2>1
  <2>12. Appended(r, s, Up(i+1), k)
    BY <2>8, <2>9, <2>10, <2>11 DEF Appended
  <2> QED BY <2>5, <2>12 DEF r
<1>8. N \in P
  <2>1. P \subseteq Nat
    OBVIOUS
  <2> HIDE DEF P
  <2>2. P = Nat
    BY <1>6, <1>7, <2>1, Induction
  <2> QED BY <1>1, <2>2
<1>9. Up(N) = field
  BY <1>1
<1>10. Appended(f[N], s, Up(N), k) /\ Clear(f[N])
  BY <1>1, <1>8
<1> QED BY <1>2, <1>9, <1>10

\* The stream r is s in a larger buffer.
Enlarged(r, s, k, kk) ==
  /\ kk \in Nat /\ k <= kk /\ Stream(r, kk)
  /\ r.ptr = s.ptr /\ r.nbBits = s.nbBits /\ r.owner = s.owner /\ r.overflow = s.overflow
  /\ \A j \in 0..(k * C - 1) : r.buf[j] = s.buf[j]

\* realloc() keeps what the buffer had.
LEMMA ResizedEnlarges ==
  ASSUME NEW k \in Nat, NEW s, Stream(s, k), NEW kk \in Nat, k <= kk, NEW junk \in {0, 1}
  PROVE  Enlarged(Resized(s, kk, junk), s, k, kk)
<1> DEFINE D == 0..(k * C - 1)
           E == 0..(kk * C - 1)
           new == [i \in E |-> IF i \in D THEN s.buf[i] ELSE junk]
<1>1. s \in [buf : [D -> {0, 1}], nbBits : Nat, ptr : Nat, owner : BOOLEAN, overflow : BOOLEAN]
  BY DEF Stream
<1>2. D \subseteq E
  <2>1. k * C \in Int /\ kk * C \in Int
    BY BitsAssumption
  <2>2. k * C <= kk * C
    <3>1. k < kk \/ k = kk
      OBVIOUS
    <3>2. k \in Int /\ kk \in Int
      OBVIOUS
    <3>3. k < kk => k * C < kk * C
      BY <3>2, CharsInOrder, Zenon
    <3> QED BY <2>1, <3>1, <3>3
  <2> QED BY <2>1, <2>2
<1>3. Resized(s, kk, junk) = [s EXCEPT !.buf = new]
  <2>1. DOMAIN s.buf = D
    BY <1>1
  <2> HIDE DEF D
  <2> QED BY <2>1 DEF Resized
<1>4. new \in [E -> {0, 1}] /\ \A j \in D : new[j] = s.buf[j]
  <2> HIDE DEF D, E
  <2> QED BY <1>1, <1>2
<1>5. Resized(s, kk, junk) = [buf |-> new, nbBits |-> s.nbBits, ptr |-> s.ptr,
                              owner |-> s.owner, overflow |-> s.overflow]
  <2> HIDE DEF D, new
  <2> QED BY <1>1, <1>3
<1>6. Stream(Resized(s, kk, junk), kk)
  <2> HIDE DEF D, new
  <2> QED BY <1>1, <1>4, <1>5 DEF Stream
<1> QED
  <2> HIDE DEF new
  <2> QED BY <1>4, <1>5, <1>6 DEF Enlarged

\* A buffer that grows has room for a field at its last char.
LEMMA GrownEnlarges ==
  ASSUME NEW k \in Nat \ {0}, NEW s, Stream(s, k), NEW junk \in {0, 1}
  PROVE  \E kk \in Nat : Enlarged(Grown(s, junk), s, k, kk) /\ k + 4 < kk
<1> DEFINE kk == ((k + 5) * 3) \div 2
<1>1. kk \in Nat /\ k + 4 < kk
  OBVIOUS
<1>2. Size(s) = k
  BY SizeOfStream DEF Stream
<1>3. Grown(s, junk) = Resized(s, kk, junk)
  BY <1>2 DEF Grown
<1> HIDE DEF kk
<1> QED BY <1>1, <1>3, ResizedEnlarges

\* Growing keeps the bits at the cursor clear.
LEMMA EnlargedIsClear ==
  ASSUME NEW k \in Nat, NEW kk, NEW s, Stream(s, k), s.ptr \div C < k, Clear(s),
         NEW r, Enlarged(r, s, k, kk)
  PROVE  Clear(r)
<1>1. s.ptr \in Nat /\ r.ptr = s.ptr /\ DOMAIN s.buf = 0..(k * C - 1) /\ DOMAIN r.buf = 0..(kk * C - 1) /\ k * C \in Int
  BY BitsAssumption DEF Enlarged, Stream
<1>2. ASSUME NEW i \in DOMAIN r.buf, i >= s.ptr, i \div C = s.ptr \div C
      PROVE  r.buf[i] = 0
  <2>1. i \in Int
    BY <1>1
  <2>2. i < k * C
    BY <1>2, <2>1, InChar
  <2>3. i \in 0..(k * C - 1)
    BY <1>1, <1>2, <2>1, <2>2
  <2>4. s.buf[i] = 0
    BY <1>1, <1>2, <2>3 DEF Clear
  <2> QED BY <2>3, <2>4 DEF Enlarged
<1> QED BY <1>1, <1>2 DEF Clear

\* A stream in which a coder may pack.
Packable(s, k) == Stream(s, k) /\ s.ptr \div C < k /\ Clear(s)

\* A field is refused whole or stored whole, with a char left.
LEMMA PackStores ==
  ASSUME NEW k \in Nat, NEW s, Packable(s, k),
         NEW field \in Seq({0, 1}), Len(field) <= 4 * C,
         NEW realloc \in BOOLEAN, NEW junk \in {0, 1}
  PROVE  LET r == speex_bits_pack(s, field, realloc, junk) IN
         \/ r = s
         \/ \E kk \in Nat : Appended(r, s, field, kk) /\ Packable(r, kk)
<1> DEFINE r == speex_bits_pack(s, field, realloc, junk)
           n == Len(field)
           p == s.ptr
<1>1. Stream(s, k) /\ p \in Nat /\ p \div C < k /\ n \in Nat /\ p + n \in Int /\ Size(s) = k
  BY SizeOfStream DEF Packable, Stream
<1>2. k # 0
  <2>1. p < k * C
    BY <1>1, InChar
  <2> QED BY <1>1, <2>1, BitsAssumption
<1>3. CASE ~NoRoom(s, n)
  <2>1. (p + n) \div C < k
    <3>1. (p + n) \div C \in Int
      BY <1>1, CharOfBit
    <3>2. ~((p + n) \div C >= k)
      BY <1>1, <1>3, Zenon DEF NoRoom
    <3> DEFINE z == (p + n) \div C
    <3>3. z \in Int /\ ~(z >= k)
      BY <3>1, <3>2
    <3> HIDE DEF z
    <3>4. z < k
      BY <3>3
    <3> QED BY <3>4 DEF z
  <2>2. p + n < k * C
    BY <1>1, <2>1, InChar
  <2>3. Appended(PackBits(s, field), s, field, k) /\ Clear(PackBits(s, field))
    BY <1>1, <2>2, PackBitsStores DEF Packable
  <2>4. r = PackBits(s, field)
    BY <1>3 DEF speex_bits_pack
  <2>5. r.ptr = p + n
    BY <2>3, <2>4 DEF Appended
  <2> HIDE DEF r
  <2>6. Packable(r, k)
    BY <2>1, <2>3, <2>4, <2>5 DEF Packable, Appended
  <2> QED BY <2>3, <2>4, <2>6 DEF r
<1>4. CASE NoRoom(s, n) /\ s.owner /\ realloc
  <2> DEFINE g == Grown(s, junk)
  <2>1. PICK kk \in Nat : Enlarged(g, s, k, kk) /\ k + 4 < kk
    BY <1>1, <1>2, GrownEnlarges
  <2>2. Stream(g, kk) /\ g.ptr = p /\ Clear(g)
    BY <1>1, <2>1, EnlargedIsClear DEF Enlarged, Packable
  <2>3. p + n < kk * C
    <3>1. p < k * C
      BY <1>1, InChar
    <3>2. (k + 4) * C = k * C + 4 * C /\ k * C \in Int /\ 4 * C \in Int
      BY BitsAssumption
    <3>3. (k + 4) * C < kk * C /\ kk * C \in Int
      <4>1. k + 4 \in Int /\ kk \in Int
        OBVIOUS
      <4> QED BY <2>1, <4>1, CharsInOrder, Zenon
    <3> DEFINE kc == k * C
               c4 == 4 * C
               kkc == kk * C
    <3>4. p < kc /\ n <= c4 /\ kc + c4 < kkc /\ kc \in Int /\ c4 \in Int /\ kkc \in Int
      BY <3>1, <3>2, <3>3
    <3> HIDE DEF kc, c4, kkc, n, p
    <3>5. p + n < kkc
      BY <1>1, <3>4
    <3> QED BY <3>5 DEF kkc
  <2>4. Appended(PackBits(g, field), g, field, kk) /\ Clear(PackBits(g, field))
    <3> HIDE DEF g
    <3> QED BY <2>2, <2>3, PackBitsStores
  <2>5. r = PackBits(g, field)
    BY <1>4 DEF speex_bits_pack
  <2> HIDE DEF r, g
  <2>6. Appended(r, s, field, kk)
    <3>1. g.nbBits = s.nbBits /\ g.owner = s.owner /\ g.overflow = s.overflow
      BY <2>1 DEF Enlarged
    <3>2. \A j \in 0..(p - 1) : g.buf[j] = s.buf[j]
      <4>1. p - 1 < k * C /\ k * C \in Int
        <5>1. p < k * C
          BY <1>1, InChar
        <5>2. k * C \in Int
          BY BitsAssumption
        <5> QED BY <1>1, <5>1, <5>2
      <4>2. \A j \in 0..(p - 1) : j \in 0..(k * C - 1)
        BY <1>1, <4>1
      <4> QED BY <2>1, <4>2 DEF Enlarged
    <3> QED BY <2>2, <2>4, <2>5, <3>1, <3>2 DEF Appended
  <2>7. r.ptr = p + n
    BY <2>6 DEF Appended
  <2>8. Packable(r, kk)
    BY <1>1, <2>3, <2>4, <2>5, <2>7, InChar DEF Packable, Appended
  <2> QED BY <2>6, <2>8 DEF r
<1>5. CASE NoRoom(s, n) /\ ~(s.owner /\ realloc)
  BY <1>5 DEF speex_bits_pack
<1> QED BY <1>3, <1>4, <1>5

-----------------------------------------------------------------------------
(* speex_bits_insert_terminator: bit by bit, over what may be there already. *)

\* The bits that are left in the cursor's char.
LEMMA RoomInChar ==
  ASSUME NEW x \in Int
  PROVE  /\ x % C = 0 => (-x) % C = 0
         /\ x % C # 0 => /\ (-x) % C \in 1..(C - 1)
                         /\ x + ((-x) % C) = (x \div C + 1) * C
<1> DEFINE p == x \div C
           m == x % C
           pc == p * C
           q == -p
           qc == q * C
           y == -x
<1>1. p \in Int /\ m \in Int /\ 0 <= m /\ m < C /\ x = pc + m
  BY CharOfBit
<1>2. C \in Int /\ 0 < C /\ pc \in Int /\ (p + 1) * C = pc + C /\ q \in Int /\ qc = -pc
  BY <1>1, BitsAssumption
<1>3. (q - 1) * C = qc - C
  BY <1>2
<1>4. y = -x /\ y \in Int
  OBVIOUS
<1> HIDE DEF y
<1>5. ASSUME m = 0 PROVE y % C = 0
  <2>1. qc <= y /\ y < qc + C /\ y - qc = 0
    <3> HIDE DEF m, pc, qc
    <3> QED BY <1>1, <1>2, <1>4, <1>5
  <2>2. y % C = y - qc
    <3> HIDE DEF q
    <3> QED BY <1>2, <1>4, <2>1, CharIs
  <2> QED BY <2>1, <2>2
<1>6. ASSUME m # 0 PROVE y % C \in 1..(C - 1) /\ x + (y % C) = (p + 1) * C
  <2> DEFINE rc == (q - 1) * C
             pp == (p + 1) * C
  <2>1. rc = qc - C /\ rc \in Int /\ pp = pc + C
    BY <1>2, <1>3
  <2>2. rc <= y /\ y < rc + C /\ y - rc \in 1..(C - 1) /\ x + (y - rc) = pp
    <3> HIDE DEF m, pc, qc, rc, pp
    <3> QED BY <1>1, <1>2, <1>4, <1>6, <2>1
  <2>3. y % C = y - rc
    <3> DEFINE t == q - 1
    <3>1. t \in Int /\ t * C <= y /\ y < t * C + C
      BY <1>2, <2>2
    <3> HIDE DEF t
    <3>2. y % C = y - t * C
      BY <1>4, <3>1, CharIs
    <3> QED BY <3>2 DEF t
  <2> DEFINE z == y % C
  <2>4. z = y - rc
    BY <2>3
  <2> HIDE DEF z, rc, pp
  <2>5. z \in 1..(C - 1) /\ x + z = pp
    BY <2>2, <2>4
  <2> QED BY <2>5 DEF z, pp
<1> QED BY <1>5, <1>6, Zenon DEF y

\* The streams after 0, 1, ... room bits of the terminator.
PaddedBitByBit(f, s, room, realloc, junk) ==
  f = [i \in 0..room |-> IF i = 0 THEN s
         ELSE speex_bits_pack(f[i-1], <<IF i = 1 THEN 0 ELSE 1>>, realloc, junk)]

\* The loop adds one bit after the other.
LEMMA TerminatorByBits ==
  ASSUME NEW s, s.ptr \in Int, NEW realloc, NEW junk
  PROVE  \E f : /\ PaddedBitByBit(f, s, (-s.ptr) % C, realloc, junk)
                /\ speex_bits_insert_terminator(s, realloc, junk) = f[(-s.ptr) % C]
<1> DEFINE room == (-s.ptr) % C
           Next_(u, i) == speex_bits_pack(u, <<IF i = 1 THEN 0 ELSE 1>>, realloc, junk)
           Ok(f, n) == f = [i \in 0..n |-> IF i = 0 THEN s ELSE Next_(f[i-1], i)]
           P == {n \in Nat : \E f : Ok(f, n)}
<1>1. 0 \in P
  <2> DEFINE f == [i \in 0..0 |-> s]
  <2>1. Ok(f, 0)
    OBVIOUS
  <2> HIDE DEF f, Ok
  <2> QED BY <2>1
<1>2. ASSUME NEW n \in P PROVE n + 1 \in P
  <2>1. PICK f : Ok(f, n)
    OBVIOUS
  <2> HIDE DEF Next_
  <2> DEFINE g == [i \in 0..(n+1) |-> IF i = 0 THEN s ELSE Next_(f[i-1], i)]
  <2>2. \A i \in 0..n : g[i] = f[i]
    BY <2>1
  <2>3. \A i \in 0..(n+1) : i # 0 => i - 1 \in 0..n
    OBVIOUS
  <2>4. g = [i \in 0..(n+1) |-> IF i = 0 THEN s ELSE Next_(g[i-1], i)]
    <3>1. \A i \in 0..(n+1) : i # 0 => g[i-1] = f[i-1]
      BY <2>2, <2>3
    <3> QED BY <3>1
  <2>5. Ok(g, n + 1)
    BY <2>4
  <2> HIDE DEF g, Ok
  <2> QED BY <2>5
<1>3. P = Nat
  <2>1. P \subseteq Nat
    OBVIOUS
  <2> HIDE DEF P
  <2> QED BY <1>1, <1>2, <2>1, Induction
<1>4. room \in P
  <2>1. room \in Nat
    BY BitsAssumption
  <2> HIDE DEF room, P
  <2> QED BY <1>3, <2>1
<1> QED BY <1>4, Zenon DEF speex_bits_insert_terminator, PaddedBitByBit

\* A field of one bit.
LEMMA PackBitsOfOne ==
  ASSUME NEW s, NEW bit \in {0, 1}
  PROVE  PackBits(s, <<bit>>) = PackBit(s, bit)
<1> DEFINE field == <<bit>>
<1>1. field \in Seq({0, 1}) /\ Len(field) = 1 /\ field[1] = bit
  OBVIOUS
<1> HIDE DEF field
<1>2. PICK f : /\ f = [i \in 0..Len(field) |-> IF i = 0 THEN s ELSE PackBit(f[i-1], field[i])]
               /\ PackBits(s, field) = f[Len(field)]
  BY <1>1, PackBitsByBits
<1>3. 0 \in 0..1 /\ 1 \in 0..1 /\ 1 - 1 = 0
  OBVIOUS
<1>4. f[0] = s /\ f[1] = PackBit(f[1-1], field[1])
  BY <1>1, <1>2, <1>3
<1> QED BY <1>1, <1>2, <1>3, <1>4 DEF field

\* The stream t is s, of k chars, with n bits of a terminator after it.
Padded(t, s, n, k, kk) ==
  /\ kk \in Nat /\ k <= kk /\ Stream(t, kk)
  /\ t.ptr = s.ptr + n /\ t.nbBits = s.nbBits + n
  /\ t.owner = s.owner /\ t.overflow = s.overflow
  /\ \A j \in 0..(s.ptr - 1) : t.buf[j] = s.buf[j]
  /\ t.buf[s.ptr] = 0
  /\ \A j \in (s.ptr + 1)..(s.ptr + n - 1) : t.buf[j] = 1

\* One more bit of it, if the buffer has the room or can grow.
LEMMA PadOneBit ==
  ASSUME NEW k \in Nat, NEW s, Stream(s, k),
         NEW n \in Nat, NEW u, NEW kk, Padded(u, s, n, k, kk), u.ptr < kk * C,
         NEW realloc \in BOOLEAN, NEW junk \in {0, 1},
         u.ptr + 1 < kk * C \/ (s.owner /\ realloc)
  PROVE  LET r == speex_bits_pack(u, <<IF n = 0 THEN 0 ELSE 1>>, realloc, junk) IN
         \E kl : Padded(r, s, n + 1, k, kl)
<1> DEFINE bit == IF n = 0 THEN 0 ELSE 1
           r == speex_bits_pack(u, <<bit>>, realloc, junk)
           p == s.ptr
<1>1. /\ kk \in Nat /\ k <= kk /\ Stream(u, kk) /\ u.ptr = p + n /\ u.nbBits = s.nbBits + n
      /\ p \in Nat /\ s.nbBits \in Nat /\ u.ptr \in Nat /\ Len(<<bit>>) = 1 /\ bit \in {0, 1}
      /\ kk * C \in Nat
  BY BitsAssumption DEF Padded, Stream
<1>2. Size(u) = kk
  BY <1>1, SizeOfStream DEF Stream
<1>3. NoRoom(u, 1) => ~(u.ptr + 1 < kk * C)
  <2>1. u.ptr + 1 \in Int /\ kk \in Int /\ (u.ptr + 1) \div C \in Int
    BY <1>1, CharOfBit
  <2> DEFINE z == (u.ptr + 1) \div C
  <2>2. NoRoom(u, 1) => z >= kk
    BY <1>2 DEF NoRoom
  <2>3. z < kk <=> u.ptr + 1 < kk * C
    BY <2>1, InChar
  <2>4. z \in Int
    BY <2>1
  <2> HIDE DEF z
  <2> QED BY <2>1, <2>2, <2>3, <2>4
<1>4. PICK v, kl : /\ Enlarged(v, u, kk, kl) /\ r = PackBit(v, bit)
  <2>1. CASE ~NoRoom(u, 1)
    <3>1. r = PackBits(u, <<bit>>)
      BY <1>1, <2>1 DEF speex_bits_pack
    <3>2. r = PackBit(u, bit)
      BY <1>1, <3>1, PackBitsOfOne
    <3>3. Enlarged(u, u, kk, kk)
      BY <1>1 DEF Enlarged
    <3> HIDE DEF r
    <3> QED BY <3>2, <3>3
  <2>2. CASE NoRoom(u, 1)
    <3>1. s.owner /\ realloc
      BY <1>3, <2>2
    <3>2. u.owner = s.owner
      BY DEF Padded
    <3>3. r = PackBits(Grown(u, junk), <<bit>>)
      BY <1>1, <2>2, <3>1, <3>2 DEF speex_bits_pack
    <3>4. r = PackBit(Grown(u, junk), bit)
      BY <1>1, <3>3, PackBitsOfOne
    <3>5. kk # 0
      <4>1. kk = 0 => kk * C = 0
        BY BitsAssumption
      <4> QED BY <1>1, <4>1
    <3>6. PICK kl \in Nat : Enlarged(Grown(u, junk), u, kk, kl)
      BY <1>1, <3>5, GrownEnlarges
    <3> HIDE DEF r
    <3> QED BY <3>4, <3>6
  <2> QED BY <2>1, <2>2
<1> HIDE DEF r
<1>5. /\ kl \in Nat /\ kk <= kl /\ Stream(v, kl) /\ v.ptr = p + n /\ v.nbBits = s.nbBits + n
      /\ v.owner = u.owner /\ v.overflow = u.overflow
      /\ \A j \in 0..(kk * C - 1) : v.buf[j] = u.buf[j]
  BY <1>1, <1>4 DEF Enlarged
<1>6. kk * C <= kl * C /\ kl * C \in Int
  <2>1. kk < kl \/ kk = kl
    BY <1>1, <1>5
  <2>2. kk \in Int /\ kl \in Int
    BY <1>1, <1>5
  <2>3. kk < kl => kk * C < kl * C
    BY <2>2, CharsInOrder, Zenon
  <2>4. kk * C \in Int /\ kl * C \in Int
    BY <2>2, CharsInOrder
  <2> QED BY <2>1, <2>3, <2>4
<1>7. v.ptr < kl * C /\ v.ptr \in 0..(kl * C - 1)
  BY <1>1, <1>5, <1>6
<1>8. PackedBit(r, v, bit, kl)
  BY <1>1, <1>4, <1>5, <1>7, PackBitPacks
<1>9. \A j \in 0..(v.ptr - 1) : r.buf[j] = v.buf[j]
  BY <1>1, <1>5, <1>7, <1>8, PackedBitKeeps
<1>10. r.buf[v.ptr] = IF bit = 1 THEN 1 ELSE v.buf[v.ptr]
  BY <1>7, <1>8 DEF PackedBit
<1>11. \A j \in 0..(v.ptr - 1) : v.buf[j] = u.buf[j]
  BY <1>1, <1>5, <1>6
<1>12. v.buf[v.ptr] = u.buf[v.ptr]
  <2>1. v.ptr \in 0..(kk * C - 1)
    BY <1>1, <1>5
  <2> QED BY <1>5, <2>1
<1>13. /\ Stream(r, kl) /\ r.ptr = p + (n + 1) /\ r.nbBits = s.nbBits + (n + 1) /\ kl \in Nat /\ k <= kl
  BY <1>1, <1>5, <1>8 DEF PackedBit
<1>14. r.owner = s.owner /\ r.overflow = s.overflow
  BY <1>5, <1>8, Zenon DEF PackedBit, Padded
<1>15. \A j \in 0..(p - 1) : r.buf[j] = s.buf[j]
  BY <1>1, <1>5, <1>9, <1>11 DEF Padded
<1>16. r.buf[p] = 0
  <2>1. u.buf[p] = 0
    BY DEF Padded
  <2>2. CASE n = 0
    BY <1>1, <1>5, <1>10, <1>12, <2>1, <2>2
  <2>3. CASE n # 0
    <3>1. p \in 0..(v.ptr - 1)
      BY <1>1, <1>5, <2>3
    <3> QED BY <1>9, <1>11, <2>1, <3>1
  <2> QED BY <2>2, <2>3
<1>17. ASSUME NEW j \in (p + 1)..(p + (n + 1) - 1) PROVE r.buf[j] = 1
  <2>1. CASE j = v.ptr
    BY <1>1, <1>5, <1>10, <1>17, <2>1
  <2>2. CASE j # v.ptr
    <3>1. j \in 0..(v.ptr - 1) /\ j \in (p + 1)..(p + n - 1)
      BY <1>1, <1>5, <1>17, <2>2
    <3> QED BY <1>9, <1>11, <3>1 DEF Padded
  <2> QED BY <2>1, <2>2
<1>18. Padded(r, s, n + 1, k, kl)
  BY <1>13, <1>14, <1>15, <1>16, <1>17 DEF Padded
<1> QED BY <1>18 DEF r

\* A stream that may be given out: the cursor is at its end and in the buffer,
\* and the bit there is 0.
Endable(s, k) ==
  /\ Stream(s, k) /\ s.ptr = s.nbBits /\ s.ptr \div C < k
  /\ s.ptr % C # 0 => s.buf[s.ptr] = 0

\* Unless it hangs, the terminator ends the char: a 0, then ones.
LEMMA TerminatorPads ==
  ASSUME NEW k \in Nat, NEW s, Endable(s, k),
         NEW realloc \in BOOLEAN, NEW junk \in {0, 1}, ~Stuck(s, realloc)
  PROVE  LET t == speex_bits_insert_terminator(s, realloc, junk) IN
         /\ s.ptr % C = 0 => t = s
         /\ s.ptr % C # 0 => \E kk : Padded(t, s, (-s.ptr) % C, k, kk)
<1> DEFINE room == (-s.ptr) % C
           t == speex_bits_insert_terminator(s, realloc, junk)
           q == s.ptr \div C
<1>1. s.ptr \in Int /\ s.ptr \in Nat /\ q \in Int /\ q < k /\ Stream(s, k) /\ k * C \in Int
  BY CharOfBit, BitsAssumption DEF Endable, Stream
<1>2. PICK f : PaddedBitByBit(f, s, room, realloc, junk) /\ t = f[room]
  BY <1>1, TerminatorByBits
<1>3. s.ptr % C = 0 => room = 0
  BY <1>1, RoomInChar
<1>4. f[0] = s \/ room \notin Nat
  <2> HIDE DEF room
  <2> QED BY <1>2 DEF PaddedBitByBit
<1>5. s.ptr % C = 0 => t = s
  BY <1>2, <1>3, <1>4
<1>6. ASSUME s.ptr % C # 0 PROVE \E kk : Padded(t, s, room, k, kk)
  <2>1. room \in 1..(C - 1) /\ s.ptr + room = (q + 1) * C
    BY <1>1, <1>6, RoomInChar
  <2> HIDE DEF room, t
  <2>2. room \in Nat
    BY <2>1, BitsAssumption
  <2>3. \A i \in 0..room : i + 1 \in 0..room =>
          f[i+1] = speex_bits_pack(f[i], <<IF i = 0 THEN 0 ELSE 1>>, realloc, junk)
    BY <1>2, <2>2 DEF PaddedBitByBit
  <2>4. q # k - 1 \/ (s.owner /\ realloc)
    <3>1. Size(s) = k
      BY <1>1, SizeOfStream DEF Stream
    <3> QED BY <1>6, <3>1, Zenon DEF Stuck, Endable
  <2> DEFINE P == {i \in Nat : i <= room => \E kk : Padded(f[i], s, i, k, kk)}
             pp == (q + 1) * C
  <2>5. 0 \in P
    <3>1. \A j \in (s.ptr + 1)..(s.ptr + 0 - 1) : FALSE
      BY <1>1
    <3>2. s.nbBits \in Nat /\ s.buf[s.ptr] = 0
      BY <1>1, <1>6 DEF Endable, Stream
    <3>3. Padded(s, s, 0, k, k)
      BY <1>1, <3>1, <3>2 DEF Padded
    <3> QED BY <1>4, <2>2, <3>3
  <2>6. ASSUME NEW i \in P PROVE i + 1 \in P
    <3> SUFFICES ASSUME i + 1 <= room PROVE \E kk : Padded(f[i+1], s, i + 1, k, kk)
      OBVIOUS
    <3>1. i \in Nat /\ i \in 0..room /\ i + 1 \in 0..room
      BY <2>2
    <3>2. PICK kk : Padded(f[i], s, i, k, kk)
      BY <3>1
    <3> DEFINE u == f[i]
    <3>3. kk \in Nat /\ k <= kk /\ u.ptr = s.ptr + i /\ kk \in Int /\ kk * C \in Int
      BY <3>2, BitsAssumption DEF Padded
    <3>4. q + 1 <= kk /\ q + 1 \in Int
      BY <1>1, <3>3
    <3>5. pp <= kk * C /\ pp \in Int
      <4>1. q + 1 < kk \/ q + 1 = kk
        BY <3>3, <3>4
      <4>2. q + 1 < kk => pp < kk * C
        BY <3>3, <3>4, CharsInOrder, Zenon
      <4>3. pp \in Int
        BY <3>3, <3>4, CharsInOrder, Zenon
      <4> HIDE DEF pp, q
      <4>4. q + 1 = kk => pp = kk * C
        BY DEF pp
      <4> QED BY <3>3, <4>1, <4>2, <4>3, <4>4
    <3>6. u.ptr < kk * C
      <4> HIDE DEF pp, u
      <4>1. s.ptr + room = pp
        BY <2>1 DEF pp
      <4> QED BY <1>1, <2>2, <3>1, <3>3, <3>5, <4>1
    <3>7. u.ptr + 1 < kk * C \/ (s.owner /\ realloc)
      <4>1. CASE q # k - 1
        <5>1. q + 1 < kk
          BY <1>1, <3>3, <4>1
        <5>2. pp < kk * C
          BY <3>3, <3>4, <5>1, CharsInOrder, Zenon
        <5> HIDE DEF pp, u
        <5>3. s.ptr + room = pp
          BY <2>1 DEF pp
        <5> QED BY <1>1, <2>2, <3>1, <3>3, <3>5, <5>2, <5>3
      <4> QED BY <2>4, <4>1
    <3>8. f[i+1] = speex_bits_pack(u, <<IF i = 0 THEN 0 ELSE 1>>, realloc, junk)
      BY <2>3, <3>1
    <3> HIDE DEF u
    <3>9. Padded(u, s, i, k, kk)
      BY <3>2 DEF u
    <3> QED BY <1>1, <3>1, <3>6, <3>7, <3>8, <3>9, PadOneBit
  <2>7. room \in P
    <3>1. P \subseteq Nat
      OBVIOUS
    <3> HIDE DEF P
    <3>2. P = Nat
      BY <2>5, <2>6, <3>1, Induction
    <3> QED BY <2>2, <3>2
  <2>8. room <= room
    BY <2>2
  <2> QED BY <1>2, <2>7, <2>8
<1> QED BY <1>5, <1>6

-----------------------------------------------------------------------------
(* The string of a stream, and the invariant. *)

Bits(s) == Slice(s, 0, s.nbBits)

\* BitQueue as long as no append has spoilt the content.
Plain == INSTANCE BitQueue WITH bits <- Slice(b, 0, b.nbBits), pos <- b.ptr,
                                overflow <- b.overflow, room <- Size(b)

\* A slice is the bits from its first to its last.
LEMMA SliceIs ==
  ASSUME NEW k \in Nat, NEW s, Stream(s, k), NEW from \in Nat, NEW n \in Nat, from + n <= k * C
  PROVE  /\ Slice(s, from, n) \in Seq({0, 1}) /\ Len(Slice(s, from, n)) = n
         /\ DOMAIN Slice(s, from, n) = 1..n
         /\ \A i \in 1..n : Slice(s, from, n)[i] = s.buf[from + i - 1]
<1> DEFINE D == 0..(k * C - 1)
<1>1. k * C \in Int /\ s.buf \in [D -> {0, 1}]
  BY BitsAssumption DEF Stream
<1>2. \A i \in 1..n : from + i - 1 \in D
  BY <1>1
<1> HIDE DEF D
<1>3. Slice(s, from, n) \in [1..n -> {0, 1}]
  BY <1>1, <1>2 DEF Slice
<1>4. \A i \in 1..n : Slice(s, from, n)[i] = s.buf[from + i - 1]
  BY DEF Slice
<1>5. \A f \in [1..n -> {0, 1}] : f \in Seq({0, 1}) /\ Len(f) = n /\ DOMAIN f = 1..n
  OBVIOUS
<1> QED BY <1>3, <1>4, <1>5

\* The string has the bits up to nbBits.
LEMMA BitsAre ==
  ASSUME NEW k \in Nat, NEW s, Stream(s, k), s.nbBits <= k * C
  PROVE  /\ Bits(s) \in Seq({0, 1}) /\ Len(Bits(s)) = s.nbBits /\ s.nbBits \in Nat
         /\ DOMAIN Bits(s) = 1..s.nbBits
         /\ \A i \in 1..s.nbBits : Bits(s)[i] = s.buf[i - 1]
<1>1. s.nbBits \in Nat /\ k * C \in Int
  BY BitsAssumption DEF Stream
<1>2. 0 + s.nbBits <= k * C
  BY <1>1
<1>3. \A i \in 1..s.nbBits : 0 + i - 1 = i - 1
  OBVIOUS
<1> QED BY <1>1, <1>2, <1>3, SliceIs DEF Bits

\* Store writes a string at a place.
LEMMA StoreIs ==
  ASSUME NEW k \in Nat, NEW buf \in [0..(k * C - 1) -> {0, 1}], NEW at \in Nat,
         NEW f \in Seq({0, 1})
  PROVE  /\ Store(buf, at, f) \in [0..(k * C - 1) -> {0, 1}]
         /\ \A i \in 0..(k * C - 1) :
              Store(buf, at, f)[i] = IF i \in at..(at + Len(f) - 1) THEN f[i - at + 1] ELSE buf[i]
<1> DEFINE D == 0..(k * C - 1)
<1>1. Len(f) \in Nat /\ \A i \in 1..Len(f) : f[i] \in {0, 1}
  OBVIOUS
<1>2. \A i \in at..(at + Len(f) - 1) : i - at + 1 \in 1..Len(f)
  BY <1>1
<1>3. buf \in [D -> {0, 1}]
  OBVIOUS
<1> HIDE DEF D
<1>4. Store(buf, at, f) = [i \in D |-> IF i \in at..(at + Len(f) - 1) THEN f[i - at + 1] ELSE buf[i]]
  BY <1>3 DEF Store
<1>5. Store(buf, at, f) \in [D -> {0, 1}]
  BY <1>1, <1>2, <1>3, <1>4
<1>6. \A i \in D : Store(buf, at, f)[i] = IF i \in at..(at + Len(f) - 1) THEN f[i - at + 1] ELSE buf[i]
  BY <1>4
<1> QED BY <1>5, <1>6 DEF D

\* What is true of a stream in each phase: the cursor is within the string and
\* the string within the buffer; a writer is at the end with room for a bit,
\* which is clear; one that wrote a terminator has its 0 under the cursor.
Good(s, ph, k) ==
  /\ k \in Nat \ {0} /\ Stream(s, k)
  /\ s.ptr <= s.nbBits /\ s.nbBits <= k * C
  /\ ph \in {"writing", "written", "reading", "hung"}
  /\ ph \in {"writing", "written"} => Endable(s, k)
  /\ ph = "writing" => Clear(s)
  /\ ph = "written" => s.ptr % C # 0

Sound == \E k \in Nat : Good(b, phase, k)

\* The cursor's char is in the buffer while a coder writes.
LEMMA CursorIsInBuffer ==
  ASSUME NEW k \in Nat, NEW s, Stream(s, k), s.ptr \div C < k
  PROVE  s.ptr \in 0..(k * C - 1) /\ k # 0 /\ k * C \in Int
<1>1. s.ptr \in Nat /\ k * C \in Int
  BY BitsAssumption DEF Stream
<1>2. s.ptr < k * C
  BY <1>1, InChar
<1>3. k = 0 => k * C = 0
  BY BitsAssumption
<1> QED BY <1>1, <1>2, <1>3

\* A stream that is clear before the cursor is ready for a terminator.
LEMMA PackableIsGood ==
  ASSUME NEW k \in Nat, NEW s, Packable(s, k), s.ptr = s.nbBits
  PROVE  Good(s, "writing", k)
<1>1. Stream(s, k) /\ s.ptr \div C < k /\ Clear(s)
  BY DEF Packable
<1>2. s.ptr \in 0..(k * C - 1) /\ k # 0 /\ k * C \in Int
  BY <1>1, CursorIsInBuffer
<1>3. s.buf[s.ptr] = 0
  BY <1>1, <1>2 DEF Clear, Stream
<1>4. Endable(s, k)
  BY <1>1, <1>3 DEF Endable
<1>5. s.ptr <= s.nbBits /\ s.nbBits <= k * C
  BY <1>2
<1> QED BY <1>1, <1>2, <1>4, <1>5 DEF Good

\* Every write ends before the room does.
LEMMA GoodHasRoom ==
  ASSUME Sound
  PROVE  RoomToWrite
<1>1. PICK k \in Nat : Good(b, phase, k)
  BY DEF Sound
<1>2. Size(b) = k
  BY <1>1, SizeOfStream DEF Good, Stream
<1>3. b.ptr <= b.nbBits /\ b.nbBits <= Size(b) * C
  BY <1>1, <1>2 DEF Good
<1>4. phase = "writing" => b.ptr = b.nbBits /\ b.ptr \div C < Size(b)
  BY <1>1, <1>2, Zenon DEF Good, Endable
<1>5. phase = "writing" =>
        \A i \in DOMAIN b.buf : i >= b.ptr /\ i \div C = b.ptr \div C => b.buf[i] = 0
  BY <1>1, Zenon DEF Good, Clear
<1>6. b.ptr <= Size(b) * C /\ b.nbBits <= Size(b) * C
  <2> DEFINE kc == Size(b) * C
  <2>1. kc \in Int /\ b.ptr \in Nat /\ b.nbBits \in Nat
    BY <1>1, <1>2, BitsAssumption DEF Good, Stream
  <2>2. b.ptr <= b.nbBits /\ b.nbBits <= kc
    BY <1>3
  <2> HIDE DEF kc
  <2>3. b.ptr <= kc
    BY <2>1, <2>2
  <2> QED BY <2>2, <2>3 DEF kc
<1> QED BY <1>3, <1>4, <1>5, <1>6, Zenon DEF RoomToWrite

-----------------------------------------------------------------------------
(* The steps that write: each keeps Sound and is a step of BitQueue. *)

\* realloc() fails or not, and the new memory holds bits.
LEMMA HeapGives ==
  ASSUME NEW h \in Heap
  PROVE  h.realloc \in BOOLEAN /\ h.junk \in {0, 1}
<1>1. h = [realloc |-> FALSE, junk |-> 0] \/ h = [realloc |-> TRUE, junk |-> 0] \/ h = [realloc |-> TRUE, junk |-> 1]
  BY DEF Heap
<1>2. h.realloc = FALSE \/ h.realloc = TRUE
  BY <1>1
<1>3. h.junk = 0 \/ h.junk = 1
  BY <1>1
<1> QED BY <1>2, <1>3

\* A string that has two others one after the other is their concatenation.
LEMMA ConcatIs ==
  ASSUME NEW x \in Seq({0, 1}), NEW y \in Seq({0, 1}), NEW z \in Seq({0, 1}),
         Len(z) = Len(x) + Len(y),
         \A i \in 1..Len(x) : z[i] = x[i],
         \A i \in 1..Len(y) : z[Len(x) + i] = y[i]
  PROVE  z = x \o y
<1> DEFINE c == x \o y
<1>1. c \in Seq({0, 1}) /\ Len(c) = Len(z) /\ Len(x) \in Nat /\ Len(y) \in Nat
  OBVIOUS
<1>2. ASSUME NEW i \in 1..Len(z) PROVE z[i] = c[i]
  <2>1. CASE i <= Len(x)
    <3>1. i \in 1..Len(x)
      BY <1>1, <2>1
    <3>2. c[i] = x[i]
      BY <3>1
    <3> QED BY <3>1, <3>2
  <2>2. CASE i > Len(x)
    <3>1. i - Len(x) \in 1..Len(y) /\ Len(x) + (i - Len(x)) = i
      BY <1>1, <2>2
    <3>2. c[i] = y[i - Len(x)]
      BY <1>1, <2>2, <3>1
    <3> QED BY <3>1, <3>2
  <2> QED BY <1>1, <2>1, <2>2
<1> HIDE DEF c
<1>3. z = c
  BY <1>1, <1>2, SeqEqual
<1> QED BY <1>3 DEF c

\* A terminator is a string of bits.
LEMMA TerminatorIs ==
  ASSUME NEW n \in Int
  PROVE  Plain!Terminator(n) \in Seq({0, 1}) /\ Len(Plain!Terminator(n)) = (-n) % C
<1> DEFINE r == (-n) % C
           f == [i \in 1..r |-> IF i = 1 THEN 0 ELSE 1]
<1>1. r \in Nat
  BY CharOfBit
<1> HIDE DEF r
<1>2. f \in [1..r -> {0, 1}]
  OBVIOUS
<1>3. \A x \in [1..r -> {0, 1}] : x \in Seq({0, 1}) /\ Len(x) = r
  BY <1>1
<1>4. f \in Seq({0, 1}) /\ Len(f) = r
  BY <1>2, <1>3
<1> QED BY <1>4 DEF Plain!Terminator, r

\* Nothing but what was given out changes: BitQueue writes none of its chars.
LEMMA NothingIsWritten ==
  ASSUME Sound, UNCHANGED b, out' = <<>>
  PROVE  Plain!Write
<1>1. PICK k \in Nat : Good(b, phase, k)
  BY DEF Sound
<1>2. Stream(b, k) /\ b.nbBits <= k * C
  BY <1>1 DEF Good
<1> DEFINE bits == Slice(b, 0, b.nbBits)
           s == bits \o Plain!Terminator(Len(bits))
<1>3. bits \in Seq({0, 1})
  BY <1>2, BitsAre DEF Bits
<1>4. Plain!Terminator(Len(bits)) \in Seq({0, 1})
  BY <1>3, TerminatorIs
<1>5. s \in Seq({0, 1}) /\ Len(s) \in Nat
  <2> HIDE DEF bits
  <2> QED BY <1>3, <1>4
<1> HIDE DEF s
<1>6. Len(s) \div C \in Nat
  BY <1>5, BitsAssumption
<1>7. SubSeq(s, 1, 0 * C) = <<>>
  <2>1. 0 * C = 0
    BY BitsAssumption
  <2> QED BY <1>5, <2>1
<1>8. \E k_1 \in 0..(Len(s) \div C) : out' = SubSeq(s, 1, k_1 * C)
  <2> DEFINE z == Len(s) \div C
  <2>1. z \in Nat
    BY <1>6
  <2> HIDE DEF z
  <2>2. 0 \in 0..z
    BY <2>1
  <2> QED BY <1>7, <2>2 DEF z
<1>9. UNCHANGED <<bits, b.ptr, b.overflow>>
  OBVIOUS
<1> QED BY <1>8, <1>9 DEF Plain!Write, s

\* A field goes to the end of the string.
LEMMA PackPuts ==
  ASSUME Sound, Pack
  PROVE  Sound' /\ (Plain!Put \/ Plain!Write)
<1>1. PICK k \in Nat : Good(b, phase, k)
  BY DEF Sound
<1>2. PICK field \in Fields, h \in Heap : b' = speex_bits_pack(b, field, h.realloc, h.junk)
  BY DEF Pack
<1>3. phase = "writing" /\ phase' = "writing" /\ out' = <<>>
  BY DEF Pack
<1>4. field \in Plain!Field /\ field \in Seq({0, 1}) /\ Len(field) <= 4 * C
  <2>1. PICK n \in Widths : field \in [1..n -> {0, 1}]
    BY DEF Fields
  <2>2. n \in Nat /\ n <= 4 * C
    BY BitsAssumption
  <2>3. field \in Seq({0, 1}) /\ Len(field) = n
    BY <2>1, <2>2
  <2> QED BY <2>1, <2>2, <2>3 DEF Plain!Field
<1>5. h.realloc \in BOOLEAN /\ h.junk \in {0, 1}
  BY HeapGives
<1>6. Packable(b, k) /\ b.ptr = b.nbBits /\ Stream(b, k) /\ b.nbBits <= k * C
  BY <1>1, <1>3 DEF Good, Endable, Packable
<1>7. CASE b' = b
  BY <1>1, <1>3, <1>7, NothingIsWritten DEF Sound
<1>8. CASE b' # b
  <2>1. PICK kk \in Nat : Appended(b', b, field, kk) /\ Packable(b', kk)
    BY <1>2, <1>4, <1>5, <1>6, <1>8, PackStores
  <2>2. /\ Stream(b', kk) /\ b'.ptr = b'.nbBits /\ b'.nbBits = b.nbBits + Len(field)
        /\ b'.overflow = b.overflow
    BY <1>6, <2>1 DEF Appended
  <2>3. Good(b', "writing", kk)
    BY <2>1, <2>2, PackableIsGood
  <2>4. b'.nbBits <= kk * C
    BY <2>3 DEF Good
  <2>5. Bits(b') = Bits(b) \o field
    <3>1. /\ Bits(b) \in Seq({0, 1}) /\ Len(Bits(b)) = b.nbBits /\ b.nbBits \in Nat
          /\ \A i \in 1..b.nbBits : Bits(b)[i] = b.buf[i - 1]
      BY <1>6, BitsAre
    <3>2. /\ Bits(b') \in Seq({0, 1}) /\ Len(Bits(b')) = b'.nbBits
          /\ \A i \in 1..b'.nbBits : Bits(b')[i] = b'.buf[i - 1]
      BY <2>2, <2>4, BitsAre
    <3>3. ASSUME NEW i \in 1..b.nbBits PROVE b'.buf[i - 1] = b.buf[i - 1]
      <4>1. i - 1 \in 0..(b.ptr - 1)
        BY <1>6, <3>1
      <4> QED BY <2>1, <4>1 DEF Appended
    <3>4. ASSUME NEW i \in 1..Len(field) PROVE b'.buf[b.nbBits + i - 1] = field[i]
      BY <1>6, <2>1 DEF Appended
    <3>5. \A i \in 1..b.nbBits : Bits(b')[i] = Bits(b)[i]
      <4>1. \A i \in 1..b.nbBits : i \in 1..b'.nbBits
        BY <1>4, <2>2, <3>1
      <4> QED BY <3>1, <3>2, <3>3, <4>1
    <3>6. ASSUME NEW i \in 1..Len(field) PROVE Bits(b')[b.nbBits + i] = field[i]
      <4>1. b.nbBits + i \in 1..b'.nbBits
        BY <1>4, <2>2, <3>1
      <4>2. (b.nbBits + i) - 1 = b.nbBits + i - 1
        BY <3>1
      <4> QED BY <3>2, <3>4, <4>1, <4>2
    <3>7. Len(Bits(b')) = Len(Bits(b)) + Len(field)
      BY <2>2, <3>1, <3>2
    <3>8. /\ \A i \in 1..Len(Bits(b)) : Bits(b')[i] = Bits(b)[i]
          /\ \A i \in 1..Len(field) : Bits(b')[Len(Bits(b)) + i] = field[i]
      BY <3>1, <3>5, <3>6
    <3> QED BY <1>4, <3>1, <3>2, <3>7, <3>8, ConcatIs, Zenon
  <2>6. b'.ptr = Len(Bits(b'))
    BY <2>2, <2>4, BitsAre
  <2>7. Sound'
    BY <1>3, <2>3 DEF Sound
  <2>8. Plain!Put
    BY <1>3, <1>4, <2>2, <2>5, <2>6 DEF Plain!Put, Bits
  <2> QED BY <2>7, <2>8
<1> QED BY <1>7, <1>8

\* A part of a string.
LEMMA SubSeqIs ==
  ASSUME NEW f \in Seq({0, 1}), NEW m \in Nat, NEW n \in Nat, m + n <= Len(f)
  PROVE  LET h == SubSeq(f, m + 1, m + n) IN
         h \in Seq({0, 1}) /\ Len(h) = n /\ \A i \in 1..n : h[i] = f[m + i]
<1> DEFINE h == SubSeq(f, m + 1, m + n)
<1>1. Len(f) \in Nat /\ \A i \in 1..Len(f) : f[i] \in {0, 1}
  OBVIOUS
<1>2. h = [i \in 1..n |-> f[m + i]]
  <2>1. h = [i \in 1..((m + n) - (m + 1) + 1) |-> f[(m + 1) + i - 1]]
    BY <1>1
  <2>2. (m + n) - (m + 1) + 1 = n /\ \A i \in 1..n : (m + 1) + i - 1 = m + i
    OBVIOUS
  <2> QED BY <2>1, <2>2
<1> HIDE DEF h
<1>3. \A i \in 1..n : m + i \in 1..Len(f)
  BY <1>1
<1>4. h \in [1..n -> {0, 1}]
  BY <1>1, <1>2, <1>3
<1>5. \A x \in [1..n -> {0, 1}] : x \in Seq({0, 1}) /\ Len(x) = n
  OBVIOUS
<1> QED BY <1>2, <1>4, <1>5 DEF h

\* It is the only string with its bits.
LEMMA PartIs ==
  ASSUME NEW f \in Seq({0, 1}), NEW m \in Nat, NEW n \in Nat, m + n <= Len(f),
         NEW g \in Seq({0, 1}), Len(g) = n, \A i \in 1..n : g[i] = f[m + i]
  PROVE  g = SubSeq(f, m + 1, m + n)
<1> DEFINE h == SubSeq(f, m + 1, m + n)
<1>1. h \in Seq({0, 1}) /\ Len(h) = n /\ \A i \in 1..n : h[i] = f[m + i]
  BY SubSeqIs
<1> HIDE DEF h
<1>2. g = h
  BY <1>1, SeqEqual
<1> QED BY <1>2 DEF h

\* The string with its terminator fills the chars that are written.
LEMMA WholesIs ==
  ASSUME NEW s, s.nbBits \in Nat
  PROVE  /\ Wholes(s) \in Nat /\ (-s.nbBits) % C \in Nat
         /\ Wholes(s) * C = s.nbBits + ((-s.nbBits) % C)
         /\ s.nbBits % C = 0 => Wholes(s) * C = s.nbBits /\ Wholes(s) = s.nbBits \div C
<1> DEFINE nb == s.nbBits
           q == nb \div C
           m == nb % C
           qc == q * C
           y == nb + C - 1
           room == (-nb) % C
<1>1. q \in Int /\ m \in Int /\ 0 <= m /\ m < C /\ nb = qc + m /\ nb \in Int /\ 0 <= nb
  BY CharOfBit
<1>2. C \in Int /\ 0 < C /\ qc \in Int /\ (q + 1) * C = qc + C /\ y \in Int
  <2>1. C \in Int /\ 0 < C
    BY BitsAssumption
  <2>2. qc \in Int /\ (q + 1) * C = qc + C
    BY <1>1, CharsInOrder, Zenon
  <2>3. y \in Int
    <3> HIDE DEF nb
    <3> QED BY <1>1, <2>1
  <2> QED BY <2>1, <2>2, <2>3
<1>3. room \in Nat
  <2>1. -nb \in Int
    BY <1>1
  <2> HIDE DEF nb
  <2> QED BY <2>1, CharOfBit
<1>4. (m = 0 => room = 0) /\ (m # 0 => nb + room = (q + 1) * C)
  BY <1>1, RoomInChar
<1>5. Wholes(s) = y \div C
  BY DEF Wholes
<1>6. ASSUME m = 0 PROVE y \div C = q
  <2>1. qc <= y /\ y < qc + C
    <3> HIDE DEF qc, m, nb
    <3> QED BY <1>1, <1>2, <1>6
  <2> HIDE DEF q, y
  <2> QED BY <1>1, <1>2, <2>1, CharIs
<1>7. ASSUME m # 0 PROVE y \div C = q + 1
  <2> DEFINE r == q + 1
             rc == r * C
  <2>1. rc <= y /\ y < rc + C /\ r \in Int
    <3>1. rc = qc + C
      BY <1>2
    <3> HIDE DEF qc, m, nb, rc
    <3> QED BY <1>1, <1>2, <1>7, <3>1
  <2> HIDE DEF r, y
  <2>2. y \div C = r
    BY <1>2, <2>1, CharIs
  <2> QED BY <2>2 DEF r
<1>8. q >= 0
  <2>1. q < 0 <=> nb < 0 * C
    <3>1. 0 \in Int
      OBVIOUS
    <3> QED BY <1>1, <3>1, InChar
  <2>2. 0 * C = 0
    BY BitsAssumption
  <2> HIDE DEF q, nb
  <2> QED BY <1>1, <2>1, <2>2
<1> DEFINE w == Wholes(s)
<1>9. w = IF m = 0 THEN q ELSE q + 1
  BY <1>5, <1>6, <1>7
<1>10. w \in Nat
  <2> HIDE DEF w, q
  <2> QED BY <1>1, <1>8, <1>9
<1>11. m = 0 => w * C = nb
  <2>1. m = 0 => w * C = qc
    BY <1>9
  <2>2. m = 0 => nb = qc
    <3> HIDE DEF m, qc, nb
    <3> QED BY <1>1, <1>2
  <2> QED BY <2>1, <2>2
<1>12. w * C = nb + room
  <2>1. CASE m = 0
    BY <1>1, <1>4, <1>11, <2>1
  <2>2. CASE m # 0
    <3>1. w * C = (q + 1) * C
      BY <1>9, <2>2
    <3>2. nb + room = (q + 1) * C
      BY <1>4, <2>2
    <3> QED BY <3>1, <3>2, Zenon
  <2> QED BY <2>1, <2>2
<1> QED BY <1>3, <1>9, <1>10, <1>11, <1>12

\* The stream t is s with the terminator written after its string.
Terminated(s, k, t) ==
  LET S == Bits(s) \o Plain!Terminator(s.nbBits)
  IN /\ S \in Seq({0, 1}) /\ Len(S) = Wholes(s) * C
     /\ s.ptr % C = 0 => t = s
     /\ \E kk \in Nat : /\ k <= kk /\ Stream(t, kk)
                        /\ t.owner = s.owner /\ t.overflow = s.overflow
                        /\ s.ptr % C # 0 => t.buf[s.ptr] = 0
     /\ \A i \in 1..Len(S) : t.buf[i - 1] = S[i]

\* The buffer holds the string with its terminator after it.
LEMMA TerminatedBits ==
  ASSUME NEW k \in Nat, NEW s, Endable(s, k), s.nbBits <= k * C,
         NEW realloc \in BOOLEAN, NEW junk \in {0, 1}, ~Stuck(s, realloc)
  PROVE  Terminated(s, k, speex_bits_insert_terminator(s, realloc, junk))
<1> DEFINE t == speex_bits_insert_terminator(s, realloc, junk)
           T == Plain!Terminator(s.nbBits)
           S == Bits(s) \o T
           nb == s.nbBits
           room == (-nb) % C
<1>1. Stream(s, k) /\ s.ptr = nb /\ nb \in Nat
  BY DEF Endable, Stream
<1>2. /\ Bits(s) \in Seq({0, 1}) /\ Len(Bits(s)) = nb
      /\ \A i \in 1..nb : Bits(s)[i] = s.buf[i - 1]
  BY <1>1, BitsAre
<1>3. room \in Nat /\ Wholes(s) * C = nb + room
  BY <1>1, WholesIs
<1>4. T = [i \in 1..room |-> IF i = 1 THEN 0 ELSE 1]
  BY DEF Plain!Terminator
<1> HIDE DEF T, room
<1>5. T \in Seq({0, 1}) /\ Len(T) = room
  <2>1. T \in [1..room -> {0, 1}]
    BY <1>4
  <2>2. \A x \in [1..room -> {0, 1}] : x \in Seq({0, 1}) /\ Len(x) = room
    BY <1>3
  <2> QED BY <2>1, <2>2
<1>6. /\ S \in Seq({0, 1}) /\ Len(S) = nb + room
      /\ \A i \in 1..nb : S[i] = s.buf[i - 1]
      /\ \A i \in 1..(nb + room) : i > nb => S[i] = T[i - nb]
  <2>1. /\ S \in Seq({0, 1}) /\ Len(S) = nb + room
    <3> DEFINE B == Bits(s)
    <3>1. B \in Seq({0, 1}) /\ Len(B) = nb /\ S = B \o T
      BY <1>2
    <3> HIDE DEF B, S, nb
    <3> QED BY <1>5, <3>1, ConcatProperties
  <2>2. ASSUME NEW i \in 1..nb PROVE S[i] = s.buf[i - 1]
    <3>1. S[i] = Bits(s)[i]
      BY <1>1, <1>2, <1>5
    <3> QED BY <1>2, <3>1
  <2>3. ASSUME NEW i \in 1..(nb + room), i > nb PROVE S[i] = T[i - nb]
    <3> DEFINE B == Bits(s)
    <3>1. B \in Seq({0, 1}) /\ Len(B) = nb /\ nb \in Nat /\ S = B \o T
      BY <1>1, <1>2
    <3> HIDE DEF B, S, nb
    <3>2. i \in 1..(Len(B) + Len(T)) /\ i > Len(B)
      BY <1>3, <1>5, <2>3, <3>1
    <3>3. (B \o T)[i] = T[i - Len(B)]
      BY <1>5, <3>1, <3>2
    <3> QED BY <3>1, <3>3, Zenon
  <2> QED BY <2>1, <2>2, <2>3
<1> HIDE DEF S, t, nb
<1>7. CASE s.ptr % C = 0
  <2>1. t = s
    BY <1>7, TerminatorPads DEF t
  <2>2. room = 0
    BY <1>1, <1>7, RoomInChar DEF room, nb
  <2>3. \A i \in 1..Len(S) : t.buf[i - 1] = S[i]
    BY <1>1, <1>6, <2>1, <2>2
  <2> QED BY <1>1, <1>3, <1>6, <1>7, <2>1, <2>3 DEF t, S, T, nb, Terminated
<1>8. CASE s.ptr % C # 0
  <2>1. PICK kk : Padded(t, s, room, k, kk)
    BY <1>1, <1>8, TerminatorPads DEF t, room, nb
  <2>2. /\ kk \in Nat /\ k <= kk /\ Stream(t, kk) /\ t.owner = s.owner /\ t.overflow = s.overflow
        /\ t.buf[s.ptr] = 0
    BY <2>1, Zenon DEF Padded
  <2>3. ASSUME NEW i \in 1..Len(S) PROVE t.buf[i - 1] = S[i]
    <3>1. CASE i <= nb
      <4>1. i - 1 \in 0..(s.ptr - 1) /\ i \in 1..nb
        BY <1>1, <3>1
      <4> QED BY <1>6, <2>1, <4>1 DEF Padded
    <3>2. CASE i = nb + 1
      <4>1. i - 1 = s.ptr /\ i - nb = 1 /\ 1 \in 1..room /\ i > nb /\ i \in 1..(nb + room)
        BY <1>1, <1>3, <1>6, <3>2
      <4> QED BY <1>4, <1>6, <2>2, <4>1
    <3>3. CASE i > nb + 1
      <4>1. /\ i - 1 \in (s.ptr + 1)..(s.ptr + room - 1) /\ i - nb # 1 /\ i - nb \in 1..room
            /\ i > nb /\ i \in 1..(nb + room)
        BY <1>1, <1>3, <1>6, <3>3
      <4>2. t.buf[i - 1] = 1
        BY <2>1, <4>1 DEF Padded
      <4> QED BY <1>4, <1>6, <4>1, <4>2
    <3> QED BY <1>1, <1>3, <1>6, <3>1, <3>2, <3>3
  <2> QED BY <1>3, <1>6, <1>8, <2>2, <2>3 DEF t, S, T, nb, Terminated
<1> QED BY <1>7, <1>8

\* The chars that are written are in the buffer.
LEMMA WholesFit ==
  ASSUME NEW k \in Nat, NEW s, s.nbBits \in Int, s.nbBits <= k * C
  PROVE  Wholes(s) <= k
<1> DEFINE y == s.nbBits + C - 1
           kc == k * C
           q == k + 1
<1>1. C \in Int /\ 0 < C
  BY BitsAssumption
<1>2. k \in Int /\ q \in Int /\ kc \in Int /\ q * C = kc + C
  <2>1. k \in Int /\ k + 1 \in Int
    OBVIOUS
  <2> QED BY <2>1, CharsInOrder, Zenon
<1>3. y \in Int /\ y < q * C
  <2> DEFINE qc == q * C
  <2>1. qc = kc + C /\ s.nbBits <= kc /\ kc \in Int
    BY <1>2
  <2> HIDE DEF kc, qc, q
  <2>2. y \in Int /\ y < qc
    BY <1>1, <2>1
  <2> QED BY <2>2 DEF qc
<1>4. y \div C < q
  BY <1>2, <1>3, InChar
<1>5. y \div C \in Int
  BY <1>3, CharOfBit
<1> DEFINE z == y \div C
<1>6. z \in Int /\ z < k + 1
  BY <1>4, <1>5
<1> HIDE DEF z
<1>7. z <= k
  BY <1>6
<1> QED BY <1>7 DEF z, Wholes

\* A multiple of the char's bits, in chars.
LEMMA WholeChars ==
  ASSUME NEW x \in Int
  PROVE  (x * C) \div C = x /\ (x * C) % C = 0
<1>1. x * C \in Int /\ C \in Int /\ 0 < C
  BY BitsAssumption
<1> DEFINE y == x * C
<1>2. y <= y /\ y < y + C /\ y - y = 0
  <2> HIDE DEF y
  <2>1. y \in Int
    BY <1>1 DEF y
  <2> QED BY <1>1, <2>1
<1>3. y \div C = x /\ y % C = y - x * C
  BY <1>1, <1>2, CharIs
<1> QED BY <1>2, <1>3

\* The chars of the padded string are given out; the stream is not changed,
\* but for what its buffer has after the string.
LEMMA WriteWrites ==
  ASSUME Sound, Write
  PROVE  Sound' /\ Plain!Write
<1>1. PICK k \in Nat : Good(b, phase, k)
  BY DEF Sound
<1>2. phase \in {"writing", "written"} /\ phase' = IF b.ptr % C = 0 THEN phase ELSE "written"
  BY DEF Write
<1>3. Endable(b, k) /\ Stream(b, k) /\ b.nbBits <= k * C /\ b.ptr = b.nbBits /\ b.nbBits \in Nat
      /\ b.ptr \div C < k /\ k # 0
  BY <1>1, <1>2 DEF Good, Endable, Stream
<1>4. PICK max \in 0..(MaxChars + 1), h \in Heap :
        /\ ~Stuck(b, h.realloc)
        /\ b' = speex_bits_write(b, max, h.realloc, h.junk).s
        /\ out' = speex_bits_write(b, max, h.realloc, h.junk).chars
  BY DEF Write
<1>5. h.realloc \in BOOLEAN /\ h.junk \in {0, 1}
  BY HeapGives
<1> DEFINE t == speex_bits_insert_terminator(b, h.realloc, h.junk)
           S == Bits(b) \o Plain!Terminator(b.nbBits)
           W == Wholes(b)
           n == Min2(max, W)
<1>6. /\ S \in Seq({0, 1}) /\ Len(S) = W * C
      /\ b.ptr % C = 0 => t = b
      /\ \E kk \in Nat : /\ k <= kk /\ Stream(t, kk)
                         /\ t.owner = b.owner /\ t.overflow = b.overflow
                         /\ b.ptr % C # 0 => t.buf[b.ptr] = 0
      /\ \A i \in 1..Len(S) : t.buf[i - 1] = S[i]
  <2>1. ~Stuck(b, h.realloc)
    BY <1>4
  <2>2. Endable(b, k) /\ b.nbBits <= k * C /\ k \in Nat
    BY <1>3
  <2> DEFINE re == h.realloc
             ju == h.junk
             r == speex_bits_insert_terminator(b, re, ju)
  <2>3. re \in BOOLEAN /\ ju \in {0, 1} /\ ~Stuck(b, re)
    BY <1>5, <2>1, Zenon
  <2>4. t = r
    OBVIOUS
  <2> HIDE DEF re, ju, t
  <2>5. Terminated(b, k, r)
    BY <2>2, <2>3, TerminatedBits
  <2> HIDE DEF r
  <2> QED BY <2>4, <2>5, Zenon DEF Terminated
<1>7. b' = [t EXCEPT !.ptr = b.ptr, !.nbBits = b.nbBits] /\ out' = Slice(t, 0, n * C)
  BY <1>4 DEF speex_bits_write
<1>8. PICK kk \in Nat : /\ k <= kk /\ Stream(t, kk)
                        /\ t.owner = b.owner /\ t.overflow = b.overflow
                        /\ b.ptr % C # 0 => t.buf[b.ptr] = 0
  BY <1>6, Zenon
<1>9. W \in Nat /\ W <= k /\ b.nbBits <= W * C
  <2>1. W \in Nat /\ W <= k
    BY <1>3, WholesIs, WholesFit
  <2>2. W * C = b.nbBits + ((-b.nbBits) % C) /\ (-b.nbBits) % C \in Nat
    BY <1>3, WholesIs
  <2> DEFINE r == (-b.nbBits) % C
             wc == W * C
  <2>3. wc = b.nbBits + r /\ r \in Nat
    BY <2>2
  <2> HIDE DEF r, wc
  <2>4. b.nbBits <= wc
    BY <1>3, <2>3
  <2> QED BY <2>1, <2>4 DEF wc
<1> HIDE DEF t, S
<1>10. /\ b'.buf = t.buf /\ b'.ptr = b.ptr /\ b'.nbBits = b.nbBits
       /\ b'.owner = b.owner /\ b'.overflow = b.overflow /\ Stream(b', kk)
  <2>1. b' = [buf |-> t.buf, nbBits |-> b.nbBits, ptr |-> b.ptr, owner |-> t.owner, overflow |-> t.overflow]
    BY <1>7, <1>8 DEF Stream
  <2>2. t.buf \in [0..(kk * C - 1) -> {0, 1}] /\ t.owner \in BOOLEAN /\ t.overflow \in BOOLEAN /\ b.ptr \in Nat
    BY <1>3, <1>8 DEF Stream
  <2> QED BY <1>3, <1>8, <2>1, <2>2 DEF Stream
<1>11. k * C <= kk * C /\ kk * C \in Int /\ k * C \in Int /\ b.nbBits <= kk * C
  <2>1. k \in Int /\ kk \in Int
    OBVIOUS
  <2>2. k * C \in Int /\ kk * C \in Int
    BY BitsAssumption
  <2>3. k < kk => k * C < kk * C
    BY <2>1, CharsInOrder, Zenon
  <2>4. k = kk \/ k < kk
    BY <1>8
  <2>5. k * C <= kk * C
    BY <2>2, <2>3, <2>4
  <2> QED BY <1>3, <2>2, <2>5
<1>12. Bits(b') = Bits(b) /\ Bits(b) \in Seq({0, 1}) /\ Len(Bits(b)) = b.nbBits
  <2>1. /\ Bits(b) \in Seq({0, 1}) /\ Len(Bits(b)) = b.nbBits
        /\ \A i \in 1..b.nbBits : Bits(b)[i] = b.buf[i - 1]
    BY <1>3, BitsAre
  <2>2. /\ Bits(b') \in Seq({0, 1}) /\ Len(Bits(b')) = b.nbBits
        /\ \A i \in 1..b.nbBits : Bits(b')[i] = b'.buf[i - 1]
    BY <1>10, <1>11, BitsAre
  <2>3. ASSUME NEW i \in 1..b.nbBits PROVE Bits(b')[i] = Bits(b)[i]
    <3>1. i \in 1..Len(S)
      <4> DEFINE wc == W * C
      <4>1. wc = Len(S) /\ b.nbBits <= wc /\ Len(S) \in Nat
        BY <1>6, <1>9
      <4> HIDE DEF wc
      <4> QED BY <1>3, <4>1
    <3>2. b'.buf[i - 1] = S[i]
      BY <1>6, <1>10, <3>1
    <3>3. Plain!Terminator(b.nbBits) \in Seq({0, 1})
      <4>1. b.nbBits \in Int
        BY <1>3
      <4> QED BY <4>1, TerminatorIs
    <3>4. S[i] = Bits(b)[i]
      <4> DEFINE B == Bits(b)
                 T == Plain!Terminator(b.nbBits)
      <4>1. B \in Seq({0, 1}) /\ T \in Seq({0, 1}) /\ i \in 1..Len(B) /\ S = B \o T
        BY <2>1, <3>3 DEF S
      <4> HIDE DEF B, T
      <4>2. (B \o T)[i] = B[i]
        BY <4>1
      <4> QED BY <4>1, <4>2 DEF B
    <3> QED BY <2>2, <3>2, <3>4
  <2> QED BY <2>1, <2>2, <2>3, SeqEqual
<1>13. n \in Nat /\ n <= W
  <2> HIDE DEF W
  <2>1. max \in Nat
    OBVIOUS
  <2> QED BY <1>9, <2>1 DEF Min2
<1>14. n * C \in Nat /\ n * C <= W * C /\ W * C <= kk * C
  <2>1. n \in Int /\ W \in Int /\ kk \in Int /\ 0 \in Int
    BY <1>9, <1>13
  <2>2. n * C \in Nat /\ W * C \in Int /\ kk * C \in Int
    <3> HIDE DEF n, W
    <3> QED BY <1>9, <1>13, BitsAssumption
  <2>3. (n < W => n * C < W * C) /\ (W < kk => W * C < kk * C)
    <3> HIDE DEF n, W
    <3> QED BY <2>1, CharsInOrder, Zenon
  <2>4. (n = W \/ n < W) /\ (W = kk \/ W < kk)
    <3> HIDE DEF n, W
    <3> QED BY <1>8, <1>9, <1>13
  <2> HIDE DEF n, W
  <2>5. n * C <= W * C
    BY <2>2, <2>3, <2>4
  <2>6. W * C <= kk * C
    BY <2>2, <2>3, <2>4
  <2> QED BY <2>2, <2>5, <2>6
<1>15. Plain!Write
  <2> DEFINE nc == n * C
             g == Slice(t, 0, nc)
  <2>1. nc \in Nat /\ nc <= Len(S) /\ nc <= kk * C
    <3>1. Len(S) = W * C
      BY <1>6
    <3> DEFINE wc == W * C
               kkc == kk * C
    <3>2. nc \in Nat /\ nc <= wc /\ wc <= kkc /\ Len(S) = wc /\ wc \in Int /\ kkc \in Int
      <4>1. wc \in Int
        <5>1. Len(S) \in Nat
          BY <1>6
        <5> QED BY <3>1, <5>1
      <4> QED BY <1>11, <1>14, <3>1, <4>1
    <3> HIDE DEF nc, wc, kkc
    <3>3. nc <= kkc
      BY <3>2
    <3> QED BY <3>2, <3>3 DEF kkc
  <2> HIDE DEF nc, n
  <2>2. g \in Seq({0, 1}) /\ Len(g) = nc /\ \A i \in 1..nc : g[i] = t.buf[0 + i - 1]
    <3>1. 0 + nc <= kk * C
      BY <2>1
    <3> QED BY <1>8, <2>1, <3>1, SliceIs
  <2> HIDE DEF g
  <2>3. \A i \in 1..nc : g[i] = S[0 + i]
    <3>1. \A i \in 1..nc : i \in 1..Len(S) /\ 0 + i - 1 = i - 1 /\ 0 + i = i
      BY <1>6, <2>1
    <3> QED BY <1>6, <2>2, <3>1
  <2>4. g = SubSeq(S, 0 + 1, 0 + nc)
    <3>1. 0 + nc <= Len(S) /\ 0 \in Nat
      BY <2>1
    <3> QED BY <1>6, <2>1, <2>2, <2>3, <3>1, PartIs
  <2>5. 0 + 1 = 1 /\ 0 + nc = nc
    BY <2>1
  <2>6. out' = SubSeq(S, 1, n * C)
    BY <1>7, <2>4, <2>5 DEF g, nc, n
  <2>7. Len(S) \div C = W
    <3>1. W \in Int
      BY <1>9
    <3> HIDE DEF W
    <3>2. Len(S) = W * C
      BY <1>6 DEF W
    <3> QED BY <3>1, <3>2, WholeChars, Zenon
  <2>8. n \in 0..(Len(S) \div C)
    <3>1. n \in 0..W
      <4> HIDE DEF W
      <4> QED BY <1>9, <1>13 DEF n, W
    <3> QED BY <2>7, <3>1, Zenon
  <2>9. Bits(b) \o Plain!Terminator(Len(Bits(b))) = S
    BY <1>12 DEF S
  <2>10. UNCHANGED <<Slice(b, 0, b.nbBits), b.ptr, b.overflow>>
    BY <1>10, <1>12 DEF Bits
  <2> QED BY <2>6, <2>8, <2>9, <2>10 DEF Plain!Write, Bits
<1>16. Sound'
  <2>1. CASE b.ptr % C = 0
    <3>1. t = b /\ phase' = phase
      BY <1>2, <1>6, <2>1 DEF t
    <3>2. b' = b
      BY <1>3, <1>7, <3>1 DEF Stream
    <3> QED BY <1>1, <3>1, <3>2 DEF Sound
  <2>2. CASE b.ptr % C # 0
    <3>1. b'.buf[b'.ptr] = 0 /\ b'.ptr = b'.nbBits /\ b'.ptr % C # 0
      BY <1>3, <1>8, <1>10, <2>2
    <3>2. b'.ptr \div C < kk
      <4> DEFINE q == b.ptr \div C
      <4>1. q \in Int /\ q < k
        BY <1>3, CharOfBit
      <4> HIDE DEF q
      <4>2. q < kk
        BY <1>8, <4>1
      <4> QED BY <1>10, <4>2 DEF q
    <3>3. Endable(b', kk)
      BY <1>10, <3>1, <3>2 DEF Endable
    <3>4. kk # 0 /\ b'.ptr <= b'.nbBits /\ b'.nbBits <= kk * C
      BY <1>3, <1>8, <1>10, <1>11
    <3>5. Good(b', "written", kk)
      BY <1>10, <3>1, <3>3, <3>4 DEF Good
    <3>6. phase' = "written"
      BY <1>2, <2>2
    <3> QED BY <3>5, <3>6 DEF Sound
  <2> QED BY <2>1, <2>2
<1> QED BY <1>15, <1>16

\* A terminator that never ends: nothing is given out.
LEMMA HangWritesNothing ==
  ASSUME Sound, Hang
  PROVE  Sound' /\ Plain!Write
<1>1. UNCHANGED b /\ out' = <<>> /\ phase' = "hung"
  BY DEF Hang
<1>2. PICK k \in Nat : Good(b, phase, k)
  BY DEF Sound
<1>3. Good(b, "hung", k)
  BY <1>2 DEF Good
<1> QED BY <1>1, <1>3, NothingIsWritten DEF Sound

\* The string is empty when nbBits is 0.
LEMMA NoBits ==
  ASSUME NEW k \in Nat, NEW s, Stream(s, k), s.nbBits = 0
  PROVE  Bits(s) = <<>>
<1>1. s.nbBits <= k * C
  BY BitsAssumption
<1>2. Bits(s) \in Seq({0, 1}) /\ Len(Bits(s)) = 0
  BY <1>1, BitsAre
<1> QED BY <1>2

\* A reset clears the first char and starts an empty string.
LEMMA ResetIsWritable ==
  ASSUME NEW k \in Nat \ {0}, NEW s, Stream(s, k)
  PROVE  LET r == speex_bits_reset(s) IN
         /\ Stream(r, k) /\ Good(r, "writing", k) /\ Bits(r) = <<>>
         /\ r.ptr = 0 /\ r.overflow = FALSE
<1> DEFINE r == speex_bits_reset(s)
           new == ClearChar(s.buf, 0)
           D == 0..(k * C - 1)
<1>1. s \in [buf : [D -> {0, 1}], nbBits : Nat, ptr : Nat, owner : BOOLEAN, overflow : BOOLEAN]
  BY DEF Stream
<1>2. new \in [D -> {0, 1}] /\ \A i \in D : i \div C = 0 => new[i] = 0
  <2> HIDE DEF D
  <2>1. new = [i \in D |-> IF i \div C = 0 THEN 0 ELSE s.buf[i]]
    BY <1>1 DEF ClearChar
  <2> QED BY <1>1, <2>1
<1>3. r = [buf |-> new, nbBits |-> 0, ptr |-> 0, owner |-> s.owner, overflow |-> FALSE]
  <2>1. r = [s EXCEPT !.buf = new, !.nbBits = 0, !.ptr = 0, !.overflow = FALSE]
    BY DEF speex_bits_reset
  <2> HIDE DEF new, D, r
  <2> QED BY <1>1, <2>1
<1> HIDE DEF new, D
<1> HIDE DEF r
<1>4. Stream(r, k)
  BY <1>1, <1>2, <1>3 DEF Stream, D
<1>5. 0 \div C = 0
  BY BitsAssumption
<1>6. Packable(r, k) /\ r.ptr = 0 /\ r.nbBits = 0 /\ r.overflow = FALSE
  <2>1. r.ptr = 0 /\ r.nbBits = 0 /\ r.overflow = FALSE /\ r.buf = new /\ DOMAIN r.buf = D
    BY <1>2, <1>3
  <2>2. Clear(r)
    BY <1>2, <1>5, <2>1 DEF Clear
  <2>3. r.ptr \div C < k
    BY <1>5, <2>1
  <2> QED BY <1>4, <2>1, <2>2, <2>3 DEF Packable
<1> QED BY <1>4, <1>6, PackableIsGood, NoBits DEF r

\* The stream is emptied.
LEMMA ResetEmpties ==
  ASSUME Sound, Reset
  PROVE  Sound' /\ Plain!Reset
<1>1. PICK k \in Nat : Good(b, phase, k)
  BY DEF Sound
<1>2. b' = speex_bits_reset(b) /\ phase' = "writing" /\ out' = <<>>
  BY DEF Reset
<1>3. k \in Nat \ {0} /\ Stream(b, k)
  BY <1>1 DEF Good
<1>4. Good(b', "writing", k) /\ Bits(b') = <<>> /\ b'.ptr = 0 /\ b'.overflow = FALSE
  BY <1>2, <1>3, ResetIsWritable
<1> QED BY <1>2, <1>4 DEF Sound, Plain!Reset, Bits

\* The stream is read from its beginning.
LEMMA RewindRewinds ==
  ASSUME Sound, Rewind
  PROVE  Sound' /\ Plain!Rewind
<1>1. PICK k \in Nat : Good(b, phase, k)
  BY DEF Sound
<1>2. b' = [b EXCEPT !.ptr = 0, !.overflow = FALSE] /\ phase' = "reading" /\ out' = <<>>
  BY <1>1 DEF Rewind, speex_bits_rewind, Good
<1>3. Stream(b, k) /\ b.nbBits <= k * C /\ k # 0 /\ b.nbBits \in Nat
  BY <1>1 DEF Good, Stream
<1>4. /\ Stream(b', k) /\ b'.ptr = 0 /\ b'.overflow = FALSE /\ b'.nbBits = b.nbBits /\ b'.buf = b.buf
  BY <1>2, <1>3 DEF Stream
<1>5. Good(b', "reading", k)
  BY <1>3, <1>4 DEF Good
<1>6. Bits(b') = Bits(b)
  BY <1>4 DEF Bits, Slice
<1> QED BY <1>2, <1>4, <1>5, <1>6 DEF Sound, Plain!Rewind, Bits

\* The full chars are given out and dropped, and the last one, which is clear
\* after its bits, comes first.
LEMMA WriteWholeShips ==
  ASSUME Sound, WriteWhole
  PROVE  Sound' /\ Plain!Ship
<1>1. PICK k \in Nat : Good(b, phase, k)
  BY DEF Sound
<1>2. phase = "writing" /\ phase' = "writing"
  BY DEF WriteWhole
<1> DEFINE nb == b.nbBits
           q == nb \div C
           m == nb % C
           qc == q * C
           D == 0..(k * C - 1)
<1>3. /\ Stream(b, k) /\ Clear(b) /\ b.ptr = nb /\ nb \in Nat /\ q < k /\ k # 0 /\ nb <= k * C
      /\ b \in [buf : [D -> {0, 1}], nbBits : Nat, ptr : Nat, owner : BOOLEAN, overflow : BOOLEAN]
  BY <1>1, <1>2 DEF Good, Endable, Stream
<1>4. /\ q \in Int /\ m \in Int /\ 0 <= m /\ m < C /\ nb = qc + m
  BY <1>3, CharOfBit
<1>5. C \in Nat /\ C # 0 /\ qc \in Int /\ (q + 1) * C = qc + C
  <2>1. C \in Nat /\ C # 0
    BY BitsAssumption
  <2>2. qc \in Int /\ (q + 1) * C = qc + C
    BY <1>4, CharsInOrder, Zenon
  <2> QED BY <2>1, <2>2
<1>6. q \in Nat /\ qc \in Nat
  <2>1. q < 0 <=> nb < 0 * C
    <3>1. 0 \in Int /\ nb \in Int
      BY <1>3
    <3> QED BY <3>1, InChar
  <2>2. 0 * C = 0
    BY BitsAssumption
  <2>3. q \in Nat
    <3> HIDE DEF q, nb
    <3> QED BY <1>3, <1>4, <2>1, <2>2
  <2>4. qc \in Nat
    <3> HIDE DEF q
    <3> QED BY <1>5, <2>3, BitsAssumption
  <2> QED BY <2>3, <2>4
<1>7. qc + C <= k * C /\ k * C \in Int
  <2>1. k \in Int
    OBVIOUS
  <2> QED BY <1>3, <1>4, <2>1, CharsInOrder, Zenon
<1> DEFINE first == IF m > 0 THEN Slice(b, qc, C) ELSE [i \in 1..C |-> 0]
<1>8. b' = [b EXCEPT !.buf = Store(@, 0, first), !.ptr = m, !.nbBits = m] /\ out' = Slice(b, 0, qc)
  <2>1. PICK max \in q..(MaxChars + 1) : LET w == speex_bits_write_whole_bytes(b, max)
                                         IN b' = w.s /\ out' = w.chars
    BY DEF WriteWhole
  <2>2. Min2(max, q) = q
    <3> HIDE DEF q
    <3>1. max \in Int /\ q <= max
      BY <1>4, BitsAssumption
    <3> QED BY <1>4, <3>1 DEF Min2
  <2>3. b' = [b EXCEPT !.buf = Store(@, 0, first), !.ptr = @ % C, !.nbBits = @ % C] /\ out' = Slice(b, 0, qc)
    BY <1>3, <2>1, <2>2 DEF speex_bits_write_whole_bytes
  <2> HIDE DEF first, D, q
  <2>4. b.ptr % C = m
    BY <1>3
  <2> QED BY <2>3, <2>4
<1>9. /\ first \in Seq({0, 1}) /\ Len(first) = C
      /\ \A i \in 1..C : i > m => first[i] = 0
      /\ m > 0 => \A i \in 1..C : first[i] = b.buf[qc + i - 1]
  <2>1. CASE m > 0
    <3>1. first = Slice(b, qc, C)
      BY <2>1
    <3>2. first \in Seq({0, 1}) /\ Len(first) = C /\ \A i \in 1..C : first[i] = b.buf[qc + i - 1]
      <4>1. Stream(b, k) /\ qc \in Nat /\ C \in Nat /\ qc + C <= k * C
        BY <1>3, <1>5, <1>6, <1>7
      <4> HIDE DEF qc, first
      <4> QED BY <3>1, <4>1, SliceIs
    <3>3. ASSUME NEW i \in 1..C, i > m PROVE first[i] = 0
      <4> DEFINE x == qc + i - 1
      <4>1. x \in D /\ x >= nb /\ qc <= x /\ x < qc + C /\ x \in Int
        <5> DEFINE kc == k * C
        <5>1. kc \in Int /\ qc + C <= kc
          BY <1>7
        <5> HIDE DEF m, qc, nb, kc
        <5>2. x \in 0..(kc - 1) /\ x >= nb /\ qc <= x /\ x < qc + C /\ x \in Int
          BY <1>3, <1>4, <1>5, <1>6, <3>3, <5>1
        <5> QED BY <5>2 DEF kc
      <4>2. x \div C = q
        <5> HIDE DEF x, q
        <5> QED BY <1>4, <4>1, CharIs
      <4>3. b.buf[x] = 0
        BY <1>3, <4>1, <4>2 DEF Clear
      <4> QED BY <3>2, <4>3
    <3> QED BY <3>2, <3>3
  <2>2. CASE ~(m > 0)
    <3>1. first = [i \in 1..C |-> 0]
      BY <2>2
    <3> HIDE DEF first
    <3>2. first \in [1..C -> {0, 1}] /\ \A i \in 1..C : first[i] = 0
      BY <3>1
    <3>3. \A x \in [1..C -> {0, 1}] : x \in Seq({0, 1}) /\ Len(x) = C
      BY <1>5
    <3> QED BY <2>2, <3>2, <3>3
  <2> QED BY <2>1, <2>2
<1> HIDE DEF first
<1> DEFINE new == Store(b.buf, 0, first)
<1>10. /\ new \in [D -> {0, 1}]
       /\ \A i \in D : new[i] = IF i \in 0..(0 + Len(first) - 1) THEN first[i - 0 + 1] ELSE b.buf[i]
  BY <1>3, <1>9, StoreIs
<1>11. ASSUME NEW i \in 0..(C - 1) PROVE i \in D /\ new[i] = first[i + 1]
  <2>1. i \in D
    <3> DEFINE kc == k * C
    <3>1. kc \in Int /\ qc + C <= kc
      BY <1>7
    <3> HIDE DEF qc, kc
    <3>2. i \in 0..(kc - 1)
      BY <1>5, <1>6, <3>1
    <3> QED BY <3>2 DEF kc
  <2> HIDE DEF D, new
  <2>2. i \in 0..(0 + Len(first) - 1) /\ i - 0 + 1 = i + 1
    BY <1>5, <1>9
  <2> QED BY <1>10, <2>1, <2>2
<1> HIDE DEF new, D, nb
<1>12. b' = [buf |-> new, nbBits |-> m, ptr |-> m, owner |-> b.owner, overflow |-> b.overflow]
  BY <1>3, <1>8 DEF new
<1>13. m \in Nat /\ m \div C = 0
  <2>1. m \in Nat
    BY <1>4
  <2>2. 0 * C = 0 /\ 0 \in Int
    BY BitsAssumption
  <2> DEFINE mm == m
  <2>3. mm \in Int /\ 0 * C <= mm /\ mm < 0 * C + C
    BY <1>4, <1>5, <2>2
  <2> HIDE DEF mm
  <2>4. mm \div C = 0
    BY <2>2, <2>3, CharIs
  <2> QED BY <2>1, <2>4 DEF mm
<1>14. Stream(b', k)
  BY <1>3, <1>10, <1>12, <1>13 DEF Stream, D
<1>15. Clear(b')
  <2> SUFFICES ASSUME NEW i \in D, i >= m, i \div C = 0 PROVE new[i] = 0
    <3>1. b'.buf = new /\ b'.ptr = m /\ DOMAIN new = D
      BY <1>10, <1>12
    <3> QED BY <1>13, <3>1 DEF Clear
  <2>1. i \in Int /\ 0 <= i
    BY <1>7 DEF D
  <2>2. i < C
    <3>1. i \div C < 1
      BY <2>1
    <3>2. 1 \in Int /\ 1 * C = C
      BY BitsAssumption
    <3>3. i < 1 * C
      BY <2>1, <3>1, <3>2, InChar
    <3> QED BY <3>2, <3>3
  <2>3. i \in 0..(C - 1) /\ i + 1 \in 1..C /\ i + 1 > m
    BY <1>4, <1>5, <2>1, <2>2
  <2> QED BY <1>9, <1>11, <2>3
<1>16. Good(b', "writing", k) /\ m <= k * C
  <2>1. b'.ptr = b'.nbBits /\ b'.ptr \div C < k /\ b'.nbBits = m
    BY <1>3, <1>12, <1>13
  <2>2. Good(b', "writing", k)
    BY <1>14, <1>15, <2>1, PackableIsGood DEF Packable
  <2> QED BY <2>1, <2>2 DEF Good
<1>17. /\ Bits(b) \in Seq({0, 1}) /\ Len(Bits(b)) = nb
       /\ \A i \in 1..nb : Bits(b)[i] = b.buf[i - 1]
  BY <1>3, BitsAre DEF nb
<1>18. Bits(b') = SubSeq(Bits(b), qc + 1, qc + m)
  <2>1. /\ Bits(b') \in Seq({0, 1}) /\ Len(Bits(b')) = m
        /\ \A i \in 1..m : Bits(b')[i] = b'.buf[i - 1]
    <3>1. b'.nbBits = m
      BY <1>12
    <3> QED BY <1>14, <1>16, <3>1, BitsAre
  <2>2. ASSUME NEW i \in 1..m PROVE Bits(b')[i] = Bits(b)[qc + i]
    <3> HIDE DEF m, qc
    <3>1. i - 1 \in 0..(C - 1) /\ (i - 1) + 1 = i /\ i \in 1..C /\ m > 0
      BY <1>4, <1>5
    <3>2. b'.buf[i - 1] = b.buf[qc + i - 1]
      BY <1>9, <1>11, <1>12, <3>1
    <3>3. qc + i \in 1..nb /\ (qc + i) - 1 = qc + i - 1
      BY <1>4, <1>6
    <3> QED BY <1>17, <2>1, <3>2, <3>3
  <2>3. qc + m <= Len(Bits(b)) /\ qc \in Nat /\ m \in Nat
    <3> HIDE DEF qc, m
    <3> QED BY <1>4, <1>6, <1>13, <1>17
  <2> HIDE DEF qc, m
  <2> QED BY <1>17, <2>1, <2>2, <2>3, PartIs
<1>19. out' = SubSeq(Bits(b), 1, qc)
  <2> DEFINE g == Slice(b, 0, qc)
  <2>1. 0 + qc <= k * C /\ qc <= nb /\ nb \in Nat
    <3> DEFINE kc == k * C
    <3>1. nb <= kc /\ kc \in Int
      BY <1>3, <1>7 DEF nb
    <3> HIDE DEF kc, qc, m
    <3>2. 0 + qc <= kc /\ qc <= nb /\ nb \in Nat
      BY <1>3, <1>4, <1>6, <3>1 DEF nb
    <3> QED BY <3>2 DEF kc
  <2>2. g \in Seq({0, 1}) /\ Len(g) = qc /\ \A i \in 1..qc : g[i] = b.buf[0 + i - 1]
    <3>1. Stream(b, k) /\ qc \in Nat /\ 0 \in Nat /\ 0 + qc <= k * C
      BY <1>3, <1>6, <2>1
    <3> HIDE DEF qc
    <3> QED BY <3>1, SliceIs
  <2> HIDE DEF qc
  <2> HIDE DEF g
  <2>3. \A i \in 1..qc : g[i] = Bits(b)[0 + i]
    <3>1. \A i \in 1..qc : i \in 1..nb /\ 0 + i - 1 = i - 1 /\ 0 + i = i
      BY <1>6, <2>1
    <3> QED BY <1>17, <2>2, <3>1
  <2>4. g = SubSeq(Bits(b), 0 + 1, 0 + qc)
    <3>1. 0 + qc <= Len(Bits(b)) /\ 0 \in Nat
      BY <1>6, <1>17, <2>1
    <3> QED BY <1>6, <1>17, <2>2, <2>3, <3>1, PartIs
  <2>5. 0 + 1 = 1 /\ 0 + qc = qc
    BY <1>6
  <2> QED BY <1>8, <2>4, <2>5 DEF g
<1>20. Plain!Ship
  <2>1. Len(Bits(b)) = nb /\ q \in 0..q
    <3> HIDE DEF q
    <3> QED BY <1>6, <1>17
  <2>2. Len(Bits(b')) = m /\ b'.ptr = m /\ b'.overflow = b.overflow
    <3>1. b'.nbBits = m
      BY <1>12
    <3>2. Len(Bits(b')) = m
      BY <1>14, <1>16, <3>1, BitsAre
    <3>3. b'.ptr = m
      BY <1>12
    <3>4. b'.overflow = b.overflow
      BY <1>12, Zenon
    <3> QED BY <3>2, <3>3, <3>4
  <2>3. \E x \in 0..(Len(Bits(b)) \div C) :
          /\ out' = SubSeq(Bits(b), 1, x * C)
          /\ Bits(b') = SubSeq(Bits(b), x * C + 1, x * C + (Len(Bits(b)) % C))
    BY <1>18, <1>19, <2>1
  <2> HIDE DEF m, q, qc
  <2>4. b'.ptr = Len(Bits(b'))
    BY <2>2
  <2> QED BY <2>2, <2>3, <2>4, Zenon DEF Plain!Ship, Bits
<1> QED BY <1>2, <1>16, <1>20 DEF Sound

-----------------------------------------------------------------------------
(* The steps that read a packet. *)

\* A packet is a string of whole chars, and its first chars are a cut of it.
LEMMA PacketIs ==
  ASSUME NEW p \in Packets
  PROVE  LET w == Len(p) \div C IN
         /\ p \in Seq({0, 1}) /\ w \in Nat /\ Len(p) = w * C
         /\ \A x \in 0..w :
              LET f == SubSeq(p, 1, x * C) IN
              /\ f \in Seq({0, 1}) /\ Len(f) = x * C /\ f \in Plain!Cut
              /\ \A i \in 1..(x * C) : f[i] = p[i]
<1> DEFINE w == Len(p) \div C
<1>1. p \in Seq({0, 1}) /\ Len(p) % C = 0 /\ Len(p) \in Nat /\ Len(p) \in Int
  BY BitsAssumption
<1>2. w \in Int /\ Len(p) = w * C
  <2>1. w \in Int /\ Len(p) = w * C + (Len(p) % C)
    BY <1>1, CharOfBit
  <2> DEFINE wc == w * C
  <2>2. wc \in Int
    BY <2>1, BitsAssumption
  <2>3. Len(p) = wc + (Len(p) % C)
    BY <2>1
  <2> HIDE DEF wc
  <2>4. Len(p) = wc
    BY <1>1, <2>2, <2>3
  <2> QED BY <2>1, <2>4 DEF wc
<1>3. w \in Nat
  <2>1. w < 0 <=> Len(p) < 0 * C
    <3>1. 0 \in Int
      OBVIOUS
    <3> QED BY <1>1, <3>1, InChar
  <2>2. 0 * C = 0
    BY BitsAssumption
  <2> HIDE DEF w
  <2> QED BY <1>1, <1>2, <2>1, <2>2
<1>4. ASSUME NEW x \in 0..w
      PROVE  LET f == SubSeq(p, 1, x * C) IN
             /\ f \in Seq({0, 1}) /\ Len(f) = x * C /\ f \in Plain!Cut
             /\ \A i \in 1..(x * C) : f[i] = p[i]
  <2> HIDE DEF w
  <2> DEFINE n == x * C
  <2>1. n \in Nat /\ n <= Len(p)
    <3>1. x \in Int /\ x \in Nat /\ (x = w \/ x < w)
      BY <1>3
    <3>2. n \in Nat
      BY <3>1, BitsAssumption
    <3>3. x < w => n < w * C
      BY <1>2, <3>1, CharsInOrder, Zenon
    <3> HIDE DEF n
    <3>4. x = w => n = Len(p)
      BY <1>2 DEF n
    <3> QED BY <1>1, <1>2, <3>1, <3>2, <3>3, <3>4
  <2>2. SubSeq(p, 1, n) \in Plain!Cut
    <3> DEFINE Cuts(y) == {SubSeq(y, 1, z * C) : z \in 0..(Len(y) \div C)}
    <3>1. SubSeq(p, 1, n) \in Cuts(p)
      <4>1. x \in 0..(Len(p) \div C)
        BY DEF w
      <4> HIDE DEF w
      <4> QED BY <4>1, Zenon
    <3>2. Plain!Cut = UNION {Cuts(y) : y \in Packets}
      BY Zenon DEF Plain!Cut
    <3> HIDE DEF Cuts, n
    <3> QED BY <3>1, <3>2
  <2> HIDE DEF n
  <2> DEFINE h == SubSeq(p, 0 + 1, 0 + n)
  <2>3. h \in Seq({0, 1}) /\ Len(h) = n /\ \A i \in 1..n : h[i] = p[0 + i]
    <3>1. 0 + n <= Len(p) /\ 0 \in Nat
      BY <2>1
    <3> QED BY <1>1, <2>1, <3>1, SubSeqIs
  <2>4. 0 + 1 = 1 /\ 0 + n = n /\ \A i \in 1..n : 0 + i = i
    BY <2>1
  <2>5. h = SubSeq(p, 1, n)
    BY <2>4
  <2> HIDE DEF h
  <2>6. \A i \in 1..n : h[i] = p[i]
    BY <2>3, <2>4
  <2> QED BY <2>2, <2>3, <2>5, <2>6 DEF n
<1> QED BY <1>1, <1>2, <1>3, <1>4

\* Storing f after x chars of a stream appends it.
LEMMA StoreAppends ==
  ASSUME NEW k \in Nat, NEW t, Stream(t, k), NEW x \in Nat, t.nbBits = x * C, x * C <= k * C,
         NEW f \in Seq({0, 1}), t.nbBits + Len(f) <= k * C,
         NEW r, Stream(r, k), r.buf = Store(t.buf, x * C, f), r.nbBits = t.nbBits + Len(f)
  PROVE  Bits(r) = Bits(t) \o f
<1> DEFINE n == x * C
           D == 0..(k * C - 1)
<1>1. n \in Nat /\ Len(f) \in Nat /\ k * C \in Int /\ t.buf \in [D -> {0, 1}]
  BY BitsAssumption DEF Stream
<1>2. \A i \in D : r.buf[i] = IF i \in n..(n + Len(f) - 1) THEN f[i - n + 1] ELSE t.buf[i]
  <2> HIDE DEF n
  <2>1. r.buf = Store(t.buf, n, f)
    BY DEF n
  <2> QED BY <1>1, <2>1, StoreIs
<1>3. /\ Bits(t) \in Seq({0, 1}) /\ Len(Bits(t)) = n
      /\ \A i \in 1..n : Bits(t)[i] = t.buf[i - 1]
  BY BitsAre
<1>4. /\ Bits(r) \in Seq({0, 1}) /\ Len(Bits(r)) = n + Len(f)
      /\ \A i \in 1..(n + Len(f)) : Bits(r)[i] = r.buf[i - 1]
  <2>1. r.nbBits <= k * C /\ r.nbBits = n + Len(f)
    OBVIOUS
  <2> HIDE DEF n
  <2> QED BY <2>1, BitsAre
<1>5. \A i \in 1..(n + Len(f)) : i - 1 \in D
  <2> DEFINE kc == k * C
  <2>1. n + Len(f) <= kc /\ kc \in Int
    BY <1>1
  <2> HIDE DEF kc, n
  <2> QED BY <1>1, <2>1 DEF kc
<1> HIDE DEF n, D
<1>6. ASSUME NEW i \in 1..n PROVE Bits(r)[i] = Bits(t)[i]
  <2>1. i - 1 \notin n..(n + Len(f) - 1) /\ i \in 1..(n + Len(f))
    BY <1>1
  <2>2. i - 1 \in D
    BY <1>5, <2>1
  <2> QED BY <1>2, <1>3, <1>4, <2>1, <2>2
<1>7. ASSUME NEW i \in 1..Len(f) PROVE Bits(r)[n + i] = f[i]
  <2>1. n + i \in 1..(n + Len(f)) /\ (n + i) - 1 \in n..(n + Len(f) - 1) /\ ((n + i) - 1) - n + 1 = i
    BY <1>1
  <2>2. (n + i) - 1 \in D
    BY <1>5, <2>1
  <2>3. r.buf[(n + i) - 1] = f[((n + i) - 1) - n + 1]
    BY <1>2, <2>1, <2>2
  <2>4. Bits(r)[n + i] = r.buf[(n + i) - 1]
    BY <1>4, <2>1
  <2> QED BY <2>1, <2>3, <2>4
<1>8. Len(Bits(r)) = Len(Bits(t)) + Len(f)
  BY <1>3, <1>4
<1>9. /\ \A i \in 1..Len(Bits(t)) : Bits(r)[i] = Bits(t)[i]
      /\ \A i \in 1..Len(f) : Bits(r)[Len(Bits(t)) + i] = f[i]
  BY <1>3, <1>6, <1>7
<1> QED BY <1>3, <1>4, <1>8, <1>9, ConcatIs, Zenon

\* Storing f at the beginning of a buffer makes it the content.
LEMMA StoreReplaces ==
  ASSUME NEW k \in Nat, NEW buf \in [0..(k * C - 1) -> {0, 1}],
         NEW f \in Seq({0, 1}), Len(f) <= k * C,
         NEW r, Stream(r, k), r.buf = Store(buf, 0, f), r.nbBits = Len(f)
  PROVE  Bits(r) = f
<1> DEFINE D == 0..(k * C - 1)
<1>1. Len(f) \in Nat /\ k * C \in Int
  BY BitsAssumption
<1>2. /\ Bits(r) \in Seq({0, 1}) /\ Len(Bits(r)) = Len(f)
      /\ \A i \in 1..Len(f) : Bits(r)[i] = r.buf[i - 1]
  BY BitsAre
<1>3. \A i \in D : r.buf[i] = IF i \in 0..(0 + Len(f) - 1) THEN f[i - 0 + 1] ELSE buf[i]
  <2>1. 0 \in Nat
    OBVIOUS
  <2> DEFINE new == Store(buf, 0, f)
  <2>2. \A i \in D : new[i] = IF i \in 0..(0 + Len(f) - 1) THEN f[i - 0 + 1] ELSE buf[i]
    BY <2>1, StoreIs, Zenon
  <2>3. r.buf = new
    OBVIOUS
  <2> HIDE DEF new, D
  <2> QED BY <2>2, <2>3
<1>4. ASSUME NEW i \in 1..Len(f) PROVE Bits(r)[i] = f[i]
  <2>1. i - 1 \in D
    <3> DEFINE kc == k * C
    <3>1. kc \in Int /\ Len(f) <= kc
      BY <1>1
    <3> HIDE DEF kc
    <3>2. i - 1 \in 0..(kc - 1)
      BY <1>1, <3>1
    <3> QED BY <3>2 DEF kc
  <2> HIDE DEF D
  <2>2. i - 1 \in 0..(0 + Len(f) - 1) /\ (i - 1) - 0 + 1 = i
    BY <1>1
  <2> QED BY <1>2, <1>3, <2>1, <2>2
<1> QED BY <1>2, <1>4, SeqEqual

\* A packet replaces the content, cut to the chars there is room for.
LEMMA ReadFromLoads ==
  ASSUME NEW k \in Nat \ {0}, NEW s, Stream(s, k), NEW p \in Packets,
         NEW realloc \in BOOLEAN, NEW junk \in {0, 1}
  PROVE  LET r == speex_bits_read_from(s, p, realloc, junk) IN
         /\ \E kk \in Nat : Good(r, "reading", kk)
         /\ Bits(r) \in Plain!Cut /\ r.ptr = 0 /\ r.overflow = FALSE
<1> DEFINE r == speex_bits_read_from(s, p, realloc, junk)
           w == Len(p) \div C
           t == Fit(s, w, realloc, junk)
<1>1. p \in Seq({0, 1}) /\ w \in Nat
  BY PacketIs
<1>2. Size(s) = k
  BY SizeOfStream DEF Stream
<1>3. PICK kk \in Nat \ {0} : Stream(t, kk)
  <2>1. CASE w > Size(s) /\ s.owner /\ realloc
    <3>1. t = Resized(s, w, junk)
      BY <2>1 DEF Fit
    <3> HIDE DEF t, w
    <3>2. k <= w /\ w # 0
      BY <1>1, <1>2, <2>1
    <3>3. Enlarged(t, s, k, w)
      BY <1>1, <3>1, <3>2, ResizedEnlarges
    <3> QED BY <1>1, <3>2, <3>3 DEF Enlarged
  <2>2. CASE ~(w > Size(s) /\ s.owner /\ realloc)
    <3>1. t = s
      BY <2>2 DEF Fit
    <3> QED BY <3>1
  <2> QED BY <2>1, <2>2
<1>4. Size(t) = kk
  BY <1>3, SizeOfStream DEF Stream
<1> DEFINE x == Min2(w, kk)
           n == x * C
           f == SubSeq(p, 1, n)
           new == Store(t.buf, 0, f)
<1>5. r = [t EXCEPT !.buf = new, !.nbBits = n, !.ptr = 0, !.overflow = FALSE]
  BY <1>4 DEF speex_bits_read_from
<1>6. x \in Nat /\ x <= kk /\ x \in 0..w
  <2> HIDE DEF w
  <2> QED BY <1>1 DEF Min2
<1> HIDE DEF w, t, x, r
<1>7. f \in Seq({0, 1}) /\ Len(f) = n /\ f \in Plain!Cut
  BY <1>6, PacketIs DEF w
<1>8. n \in Nat /\ n <= kk * C /\ kk * C \in Int
  <2>1. x \in Int /\ kk \in Int /\ (x = kk \/ x < kk)
    BY <1>6
  <2>2. n \in Nat /\ kk * C \in Int
    BY <1>6, BitsAssumption
  <2>3. x < kk => n < kk * C
    BY <2>1, CharsInOrder, Zenon
  <2> DEFINE kkc == kk * C
  <2>4. x = kk => n = kkc
    OBVIOUS
  <2>5. kkc \in Int /\ (x < kk => n < kkc)
    BY <2>2, <2>3
  <2> HIDE DEF n, kkc
  <2>6. n <= kkc
    BY <2>1, <2>2, <2>4, <2>5
  <2> QED BY <2>2, <2>6 DEF kkc
<1> HIDE DEF f, n
<1>9. new \in [0..(kk * C - 1) -> {0, 1}] /\ t.owner \in BOOLEAN
  <2>1. t.buf \in [0..(kk * C - 1) -> {0, 1}] /\ t.owner \in BOOLEAN /\ 0 \in Nat
    BY <1>3 DEF Stream
  <2>2. new \in [0..(kk * C - 1) -> {0, 1}]
    BY <1>7, <2>1, StoreIs
  <2> QED BY <2>1, <2>2
<1>10. r = [buf |-> new, nbBits |-> n, ptr |-> 0, owner |-> t.owner, overflow |-> FALSE]
  <2> HIDE DEF new
  <2> QED BY <1>3, <1>5 DEF Stream
<1>11. Stream(r, kk) /\ r.ptr = 0 /\ r.overflow = FALSE /\ r.nbBits = n
  <2> HIDE DEF new
  <2> QED BY <1>8, <1>9, <1>10 DEF Stream
<1>12. Good(r, "reading", kk)
  BY <1>3, <1>8, <1>11 DEF Good
<1>13. Bits(r) = f
  <2>1. r.buf = new /\ t.buf \in [0..(kk * C - 1) -> {0, 1}] /\ Len(f) <= kk * C
    BY <1>3, <1>7, <1>8, <1>10 DEF Stream
  <2> QED BY <1>7, <1>11, <2>1, StoreReplaces
<1> QED BY <1>7, <1>11, <1>12, <1>13 DEF r

\* A packet becomes the buffer.
LEMMA SetBufferLoads ==
  ASSUME NEW p \in Packets, p # <<>>
  PROVE  LET r == speex_bits_set_bit_buffer([i \in 0..(Len(p) - 1) |-> p[i + 1]]) IN
         /\ \E kk \in Nat : Good(r, "reading", kk)
         /\ Bits(r) \in Plain!Cut /\ r.ptr = 0 /\ r.overflow = FALSE
<1> DEFINE buf == [i \in 0..(Len(p) - 1) |-> p[i + 1]]
           r == speex_bits_set_bit_buffer(buf)
           w == Len(p) \div C
<1>1. p \in Seq({0, 1}) /\ w \in Nat /\ Len(p) = w * C /\ Len(p) \in Nat \ {0}
  BY PacketIs
<1>2. w # 0
  <2>1. 0 * C = 0
    BY BitsAssumption
  <2> HIDE DEF w
  <2> QED BY <1>1, <2>1
<1>3. buf \in [0..(w * C - 1) -> {0, 1}] /\ \A i \in 0..(Len(p) - 1) : buf[i] = p[i + 1]
  <2>1. \A i \in 0..(Len(p) - 1) : i + 1 \in 1..Len(p)
    BY <1>1
  <2>2. \A i \in 1..Len(p) : p[i] \in {0, 1}
    BY <1>1
  <2>3. buf \in [0..(Len(p) - 1) -> {0, 1}]
    BY <2>1, <2>2
  <2> HIDE DEF w
  <2> QED BY <1>1, <2>3
<1> HIDE DEF w, buf
<1>4. r = [buf |-> buf, nbBits |-> Len(p), ptr |-> 0, owner |-> FALSE, overflow |-> FALSE]
  <2>1. Cardinality(DOMAIN buf) = Len(p)
    <3> DEFINE s == [buf |-> buf]
    <3>1. DOMAIN s.buf = 0..(w * C - 1)
      BY <1>3
    <3>2. Cardinality(DOMAIN s.buf) = w * C
      BY <1>1, <3>1, SizeOfStream
    <3> QED BY <1>1, <3>2
  <2> QED BY <2>1 DEF speex_bits_set_bit_buffer
<1> HIDE DEF r
<1>5. Stream(r, w) /\ r.ptr = 0 /\ r.overflow = FALSE /\ r.nbBits = Len(p) /\ r.buf = buf
  BY <1>1, <1>3, <1>4 DEF Stream
<1>6. Good(r, "reading", w)
  <2>1. r.ptr <= r.nbBits /\ r.nbBits <= w * C
    BY <1>1, <1>5
  <2> QED BY <1>1, <1>2, <1>5, <2>1 DEF Good
<1>7. Bits(r) = p
  <2>1. r.nbBits <= w * C
    BY <1>6 DEF Good
  <2>2. /\ Bits(r) \in Seq({0, 1}) /\ Len(Bits(r)) = Len(p)
        /\ \A i \in 1..Len(p) : Bits(r)[i] = buf[i - 1]
    BY <1>1, <1>5, <2>1, BitsAre
  <2>3. ASSUME NEW i \in 1..Len(p) PROVE Bits(r)[i] = p[i]
    <3>1. i - 1 \in 0..(Len(p) - 1) /\ (i - 1) + 1 = i
      BY <1>1
    <3> QED BY <1>3, <2>2, <3>1
  <2> QED BY <1>1, <2>2, <2>3, SeqEqual
<1>8. p \in Plain!Cut
  <2>1. w \in 0..w
    BY <1>1
  <2> DEFINE f == SubSeq(p, 1, w * C)
  <2>2. f \in Seq({0, 1}) /\ Len(f) = Len(p) /\ f \in Plain!Cut /\ \A i \in 1..Len(p) : f[i] = p[i]
    BY <1>1, <2>1, PacketIs DEF w
  <2> HIDE DEF f
  <2>3. f = p
    BY <1>1, <2>2, SeqEqual
  <2> QED BY <2>2, <2>3
<1> QED BY <1>1, <1>5, <1>6, <1>7, <1>8 DEF r, buf

\* The content is replaced by a packet.
LEMMA ReceiveLoads ==
  ASSUME Sound, Receive
  PROVE  Sound' /\ Plain!Load
<1>1. PICK k \in Nat : Good(b, phase, k)
  BY DEF Sound
<1>2. k \in Nat \ {0} /\ Stream(b, k)
  BY <1>1 DEF Good
<1>3. phase' = "reading" /\ out' = <<>>
  BY DEF Receive
<1>4. PICK p \in Packets :
        \/ \E h \in Heap : b' = speex_bits_read_from(b, p, h.realloc, h.junk)
        \/ p # <<>> /\ b' = speex_bits_set_bit_buffer([i \in 0..(Len(p) - 1) |-> p[i + 1]])
  BY DEF Receive
<1>5. /\ \E kk \in Nat : Good(b', "reading", kk)
      /\ Bits(b') \in Plain!Cut /\ b'.ptr = 0 /\ b'.overflow = FALSE
  <2>1. CASE \E h \in Heap : b' = speex_bits_read_from(b, p, h.realloc, h.junk)
    <3>1. PICK h \in Heap : b' = speex_bits_read_from(b, p, h.realloc, h.junk)
      BY <2>1
    <3>2. h.realloc \in BOOLEAN /\ h.junk \in {0, 1}
      BY HeapGives
    <3> QED BY <1>2, <3>1, <3>2, ReadFromLoads
  <2>2. CASE p # <<>> /\ b' = speex_bits_set_bit_buffer([i \in 0..(Len(p) - 1) |-> p[i + 1]])
    BY <2>2, SetBufferLoads
  <2> QED BY <1>4, <2>1, <2>2
<1>6. Sound'
  BY <1>3, <1>5 DEF Sound
<1> QED BY <1>3, <1>5, <1>6 DEF Plain!Load, Bits

\* Of a stream of x whole chars, those that were read are dropped.
LEMMA FlushDrops ==
  ASSUME NEW k \in Nat, NEW s, Stream(s, k), NEW x \in Nat, s.nbBits = x * C,
         s.ptr <= s.nbBits, s.nbBits <= k * C
  PROVE  LET r == speex_bits_flush(s)
             g == s.ptr \div C
             gone == s.ptr - (s.ptr % C)
         IN /\ Stream(r, k) /\ r.ptr = s.ptr % C /\ r.owner = s.owner /\ r.overflow = s.overflow
            /\ x - g \in Nat /\ r.nbBits = (x - g) * C /\ r.nbBits <= s.nbBits
            /\ r.ptr <= r.nbBits /\ g \in Nat
            /\ Bits(r) = SubSeq(Bits(s), gone + 1, s.nbBits)
<1> DEFINE r == speex_bits_flush(s)
           p == s.ptr
           g == p \div C
           m == p % C
           gc == g * C
           gone == p - m
           nb == s.nbBits
           y == nb - gone
<1>1. /\ p \in Nat /\ nb \in Nat /\ k * C \in Int /\ s.buf \in [0..(k * C - 1) -> {0, 1}]
      /\ s.owner \in BOOLEAN /\ s.overflow \in BOOLEAN
  BY BitsAssumption DEF Stream
<1>2. g \in Int /\ m \in Int /\ 0 <= m /\ m < C /\ p = gc + m
  <2>1. p \in Int
    BY <1>1
  <2> HIDE DEF p
  <2> QED BY <2>1, CharOfBit
<1>3. gc \in Int /\ C \in Int /\ 0 < C
  <2>1. gc \in Int
    BY <1>2, CharsInOrder, Zenon
  <2>2. C \in Int /\ 0 < C
    BY BitsAssumption
  <2> QED BY <2>1, <2>2
<1>4. gone = gc
  <2> HIDE DEF gc, m, p
  <2> QED BY <1>2, <1>3
<1>5. g \in Nat /\ gone \in Nat
  <2>1. g < 0 <=> p < 0 * C
    <3>1. 0 \in Int /\ p \in Int
      BY <1>1
    <3> QED BY <3>1, InChar
  <2>2. 0 * C = 0
    BY BitsAssumption
  <2>3. g \in Nat
    <3> HIDE DEF g, p
    <3> QED BY <1>1, <1>2, <2>1, <2>2
  <2>4. gc \in Nat
    <3> HIDE DEF g
    <3> QED BY <2>3, BitsAssumption
  <2> QED BY <1>4, <2>3, <2>4
<1>6. x - g \in Nat
  <2>1. p < (x + 1) * C
    <3> DEFINE xc == x * C
               xxc == (x + 1) * C
    <3>1. xxc = xc + C /\ nb = xc
      <4>1. x \in Int
        OBVIOUS
      <4>2. xxc = xc + C
        BY <4>1, CharsInOrder, Zenon
      <4> QED BY <4>2
    <3> HIDE DEF xc, xxc, nb, p
    <3>2. p <= nb
      BY DEF p, nb
    <3>3. p < xxc
      BY <1>1, <1>3, <3>1, <3>2
    <3> QED BY <3>3 DEF xxc
  <2>2. g < x + 1
    <3>1. x + 1 \in Int /\ p \in Int
      BY <1>1
    <3> QED BY <2>1, <3>1, InChar
  <2> HIDE DEF g
  <2> QED BY <1>5, <2>2
<1>7. (x - g) * C = y /\ y \in Nat /\ m <= y
  <2>1. (x - g) * C = x * C - gc
    <3>1. x \in Int
      OBVIOUS
    <3> QED BY <1>2, <3>1, CharsInOrder, Zenon
  <2>2. (x - g) * C = y
    BY <1>4, <2>1
  <2>3. y \in Nat /\ m <= y
    <3>1. p <= nb
      OBVIOUS
    <3> HIDE DEF m, p, nb
    <3> QED BY <1>1, <1>2, <1>5, <3>1
  <2> QED BY <2>2, <2>3
<1>8. Wholes(s) * C = nb
  <2>1. nb % C = 0
    <3>1. x \in Int
      OBVIOUS
    <3> QED BY <3>1, WholeChars
  <2> QED BY <1>1, <2>1, WholesIs
<1> DEFINE f == Slice(s, gone, y)
           new == Store(s.buf, 0, f)
<1>9. r = [s EXCEPT !.buf = new, !.nbBits = @ - gone, !.ptr = @ % C]
  BY <1>8 DEF speex_bits_flush
<1>10. y <= nb /\ gone + y = nb /\ gone + y <= k * C /\ y <= k * C
  <2> DEFINE kc == k * C
  <2>1. nb <= kc /\ kc \in Int
    BY <1>1
  <2> HIDE DEF kc, m, p, nb
  <2>2. y <= nb /\ gone + y = nb /\ gone + y <= kc /\ y <= kc
    BY <1>1, <1>2, <1>5, <2>1
  <2> QED BY <2>2 DEF kc
<1> HIDE DEF r
<1>11. m \in Nat
  BY <1>2
<1>12. r = [buf |-> new, nbBits |-> y, ptr |-> m, owner |-> s.owner, overflow |-> s.overflow]
  <2> HIDE DEF new, gone
  <2>1. s \in [buf : [0..(k * C - 1) -> {0, 1}], nbBits : Nat, ptr : Nat,
               owner : BOOLEAN, overflow : BOOLEAN]
    BY DEF Stream
  <2> QED BY <1>9, <2>1
<1> HIDE DEF y, gone, m, p, nb, g
<1>13. f \in Seq({0, 1}) /\ Len(f) = y /\ \A i \in 1..y : f[i] = s.buf[gone + i - 1]
  <2>1. gone \in Nat /\ y \in Nat /\ gone + y <= k * C
    BY <1>5, <1>7, <1>10
  <2> QED BY <2>1, SliceIs
<1> HIDE DEF f
<1>14. new \in [0..(k * C - 1) -> {0, 1}]
  <2>1. 0 \in Nat
    OBVIOUS
  <2> QED BY <1>1, <1>13, <2>1, StoreIs
<1> HIDE DEF new
<1>15. /\ Stream(r, k) /\ r.ptr = m /\ r.nbBits = y
  BY <1>1, <1>7, <1>11, <1>12, <1>14 DEF Stream
<1>16. r.owner = s.owner /\ r.overflow = s.overflow
  BY <1>12, Zenon
<1>17. Bits(r) = f
  <2>1. r.buf = Store(s.buf, 0, f) /\ Len(f) <= k * C /\ r.nbBits = Len(f)
    BY <1>10, <1>12, <1>13, <1>15 DEF new
  <2> QED BY <1>1, <1>13, <1>15, <2>1, StoreReplaces
<1>18. f = SubSeq(Bits(s), gone + 1, gone + y)
  <2>1. /\ Bits(s) \in Seq({0, 1}) /\ Len(Bits(s)) = nb
        /\ \A i \in 1..nb : Bits(s)[i] = s.buf[i - 1]
    BY BitsAre DEF nb
  <2>2. ASSUME NEW i \in 1..y PROVE f[i] = Bits(s)[gone + i]
    <3>1. gone + i \in 1..nb /\ (gone + i) - 1 = gone + i - 1
      BY <1>1, <1>5, <1>7, <1>10
    <3> QED BY <1>13, <2>1, <3>1
  <2>3. gone + y <= Len(Bits(s))
    BY <1>1, <1>10, <2>1
  <2> QED BY <1>5, <1>7, <1>13, <2>1, <2>2, <2>3, PartIs
<1> QED BY <1>5, <1>6, <1>7, <1>10, <1>15, <1>16, <1>17, <1>18 DEF r, gone, m, p, nb, g

\* More chars are more bits.
LEMMA CharsGrow ==
  ASSUME NEW p \in Int, NEW q \in Int, p <= q
  PROVE  p * C <= q * C /\ p * C \in Int /\ q * C \in Int
<1>1. p * C \in Int /\ q * C \in Int
  BY BitsAssumption
<1>2. p < q => p * C < q * C
  BY CharsInOrder, Zenon
<1>3. p = q \/ p < q
  OBVIOUS
<1>4. p = q => p * C = q * C
  OBVIOUS
<1> DEFINE pc == p * C
           qc == q * C
<1>5. pc \in Int /\ qc \in Int /\ (pc < qc \/ pc = qc)
  BY <1>1, <1>2, <1>3, <1>4
<1> HIDE DEF pc, qc
<1>6. pc <= qc
  BY <1>5
<1> QED BY <1>1, <1>6 DEF pc, qc

\* A larger buffer has the same string.
LEMMA EnlargedBits ==
  ASSUME NEW k \in Nat, NEW s, Stream(s, k), s.nbBits <= k * C, NEW kk, NEW r, Enlarged(r, s, k, kk)
  PROVE  Bits(r) = Bits(s)
<1>1. r.nbBits = s.nbBits /\ s.nbBits \in Nat /\ k * C \in Int
  BY BitsAssumption DEF Enlarged, Stream
<1>2. \A i \in 1..s.nbBits : r.buf[0 + i - 1] = s.buf[0 + i - 1]
  <2>1. \A i \in 1..s.nbBits : 0 + i - 1 \in 0..(k * C - 1)
    BY <1>1
  <2> QED BY <2>1 DEF Enlarged
<1> QED BY <1>1, <1>2 DEF Bits, Slice

\* A packet follows the chars that are left, in a buffer that has the room,
\* grows, or takes what it can.
LEMMA ReadWholeExtends ==
  ASSUME NEW k \in Nat, NEW s, Good(s, "reading", k), s.nbBits % C = 0, NEW p \in Packets,
         NEW realloc \in BOOLEAN, NEW junk \in {0, 1},
         ~Outside(s, p, realloc, junk), ~(Taken(s, Len(p) \div C, realloc) < 0)
  PROVE  LET r == speex_bits_read_whole_bytes(s, p, realloc, junk) IN
         /\ \E kk \in Nat : Good(r, "reading", kk)
         /\ \E f \in Plain!Cut :
              Bits(r) = SubSeq(Bits(s), s.ptr - (s.ptr % C) + 1, Len(Bits(s))) \o f
         /\ r.ptr = s.ptr % C /\ r.overflow = s.overflow
<1> DEFINE r == speex_bits_read_whole_bytes(s, p, realloc, junk)
           w == Len(p) \div C
           x == s.nbBits \div C
           xc == x * C
           grow == NoneLeft(s, w) /\ s.owner /\ realloc
           need == x + w + 1
           s1 == RoomFor(s, w, realloc, junk)
           t == speex_bits_flush(s1)
           n == Taken(s, w, realloc)
           nc == n * C
           f == SubSeq(p, 1, nc)
           given == [i \in 1..nc |-> IF i <= Len(p) THEN p[i] ELSE junk]
<1>1. /\ Stream(s, k) /\ s.ptr <= s.nbBits /\ s.nbBits <= k * C /\ k \in Nat \ {0}
      /\ s.nbBits \in Nat /\ k * C \in Int
  BY BitsAssumption DEF Good, Stream
<1>2. p \in Seq({0, 1}) /\ w \in Nat /\ Len(p) = w * C
  BY PacketIs
<1>3. Size(s) = k
  BY <1>1, SizeOfStream DEF Stream
<1>4. s.nbBits = xc /\ Wholes(s) = x /\ x \in Nat
  <2>1. Wholes(s) \in Nat /\ Wholes(s) = x /\ Wholes(s) * C = s.nbBits
    BY <1>1, WholesIs
  <2> QED BY <2>1
<1>5. /\ r = [t EXCEPT !.buf = Store(@, (t.nbBits \div C) * C, given), !.nbBits = @ + nc]
      /\ ~(n > 0 /\ (n > w \/ t.nbBits < 0 \/ t.nbBits + nc > Size(t) * C))
      /\ ~(n < 0)
  BY DEF speex_bits_read_whole_bytes, Outside
<1> HIDE DEF x, r
<1>6. x <= k
  <2>1. Wholes(s) <= k
    BY <1>1, WholesFit
  <2> QED BY <1>4, <2>1
<1>21. n \in Int
  <2> HIDE DEF w
  <2>1. s.nbBits \div C = x
    BY DEF x
  <2>2. k - x - 1 \in Int
    BY <1>1, <1>4
  <2> QED BY <1>1, <1>2, <1>3, <2>1, <2>2 DEF Taken
<1> HIDE DEF w
<1>22. n \in 0..w /\ (n > 0 => ~(t.nbBits + nc > Size(t) * C))
  <2> DEFINE over == t.nbBits + nc > Size(t) * C
             under == t.nbBits < 0
  <2>1. n \in Int /\ ~(n > 0 /\ (n > w \/ under \/ over)) /\ ~(n < 0)
    BY <1>5, <1>21
  <2> HIDE DEF n, over, under
  <2>2. n \in 0..w /\ (n > 0 => ~over)
    BY <1>2, <2>1
  <2> QED BY <2>2 DEF over
<1>23. given = f
  <2>1. f \in Seq({0, 1}) /\ Len(f) = nc /\ \A i \in 1..nc : f[i] = p[i]
    BY <1>22, PacketIs DEF w
  <2>2. \A i \in 1..nc : i <= Len(p)
    <3>1. n \in Int /\ w \in Int /\ n <= w
      BY <1>2, <1>22
    <3>2. nc <= w * C /\ nc \in Int /\ w * C \in Int
      BY <3>1, CharsGrow
    <3> DEFINE wc == w * C
    <3>3. nc <= wc /\ nc \in Int /\ wc \in Int /\ Len(p) = wc
      BY <1>2, <3>2
    <3> HIDE DEF nc, wc
    <3> QED BY <3>3
  <2>3. given = [i \in 1..nc |-> p[i]]
    <3> HIDE DEF nc
    <3> QED BY <2>2
  <2>4. f = [i \in 1..nc |-> f[i]]
    <3> HIDE DEF f, nc
    <3> QED BY <2>1
  <2> HIDE DEF f, given, nc
  <2> QED BY <2>1, <2>3, <2>4
<1>7. PICK kk \in Nat :
        /\ Stream(s1, kk) /\ s1.ptr = s.ptr /\ s1.nbBits = s.nbBits
        /\ s1.overflow = s.overflow /\ Bits(s1) = Bits(s)
        /\ kk # 0 /\ k <= kk
  <2>1. CASE grow
    <3>1. s1 = Resized(s, need, junk)
      BY <2>1 DEF RoomFor, x
    <3>2. k <= need /\ need \in Nat /\ need # 0
      <4>1. x + w > k
        BY <1>3, <1>4, <2>1 DEF NoneLeft
      <4> QED BY <1>1, <1>2, <1>4, <4>1
    <3> HIDE DEF s1, need, n
    <3>3. Enlarged(s1, s, k, need)
      BY <1>1, <3>1, <3>2, ResizedEnlarges
    <3>4. Bits(s1) = Bits(s)
      BY <1>1, <3>3, EnlargedBits
    <3> QED BY <3>2, <3>3, <3>4 DEF Enlarged
  <2>2. CASE ~grow
    <3>1. s1 = s
      BY <2>2 DEF RoomFor
    <3> HIDE DEF s1, n
    <3>3. k <= k /\ k # 0
      BY <1>1
    <3> QED BY <1>1, <3>1, <3>3, Zenon
  <2> QED BY <2>1, <2>2
<1> HIDE DEF s1, n
<1>8. k * C <= kk * C /\ kk * C \in Int /\ s1.nbBits <= kk * C
  <2>1. k \in Int /\ kk \in Int
    OBVIOUS
  <2>2. k * C <= kk * C /\ kk * C \in Int
    BY <1>7, <2>1, CharsGrow
  <2> QED BY <1>1, <1>7, <2>2
<1> DEFINE g == s.ptr \div C
           y == x - g
           gone == s.ptr - (s.ptr % C)
<1>9. /\ Stream(t, kk) /\ t.ptr = s.ptr % C /\ t.overflow = s.overflow
      /\ y \in Nat /\ t.nbBits = y * C /\ t.ptr <= t.nbBits /\ g \in Nat
      /\ Bits(t) = SubSeq(Bits(s), gone + 1, s.nbBits)
  <2>1. s1.nbBits = x * C /\ s1.ptr <= s1.nbBits
    BY <1>1, <1>4, <1>7
  <2> QED BY <1>4, <1>7, <1>8, <2>1, FlushDrops
<1> HIDE DEF t
<1>10. (t.nbBits \div C) * C = y * C
  <2>1. y \in Int
    BY <1>9
  <2> HIDE DEF y
  <2>2. t.nbBits \div C = y
    BY <1>9, <2>1, WholeChars
  <2> QED BY <2>2
<1>11. f \in Seq({0, 1}) /\ Len(f) = nc /\ f \in Plain!Cut
  BY <1>22, PacketIs DEF w
<1>12. t.nbBits + Len(f) <= kk * C /\ y * C <= kk * C /\ nc \in Nat
  <2>1. y \in Int /\ y <= kk /\ kk \in Int
    <3>2. g \in Nat /\ x - g \in Nat
      BY <1>9
    <3> HIDE DEF g
    <3> QED BY <1>4, <1>6, <1>7, <3>2
  <2>2. nc \in Nat
    BY <1>22, BitsAssumption
  <2> HIDE DEF y
  <2>3. y * C <= kk * C /\ y * C \in Int /\ kk * C \in Int
    BY <2>1, CharsGrow
  <2>4. Size(t) = kk
    BY <1>9, SizeOfStream DEF Stream
  <2>5. CASE n = 0
    <3>1. nc = 0
      BY <2>5, BitsAssumption
    <3> DEFINE kkc == kk * C
               yc == y * C
    <3>2. yc <= kkc /\ yc \in Int /\ kkc \in Int /\ t.nbBits = yc /\ Len(f) = 0
      BY <1>9, <1>11, <2>3, <3>1 DEF y
    <3> HIDE DEF kkc, yc, f
    <3>3. t.nbBits + Len(f) <= kkc
      BY <3>2
    <3> QED BY <2>2, <2>3, <3>3 DEF kkc, y
  <2>6. CASE n # 0
    <3>1. n > 0
      <4> HIDE DEF n
      <4> QED BY <1>2, <1>22, <2>6
    <3>2. ~(t.nbBits + nc > kk * C)
      BY <1>22, <2>4, <3>1
    <3> DEFINE kkc == kk * C
    <3>3. ~(t.nbBits + nc > kkc) /\ kkc \in Int /\ t.nbBits \in Nat /\ Len(f) = nc
      BY <1>9, <1>11, <2>3, <3>2 DEF Stream
    <3> HIDE DEF kkc, f, nc
    <3>4. t.nbBits + Len(f) <= kkc
      BY <2>2, <3>3
    <3> QED BY <2>2, <2>3, <3>4 DEF kkc, y
  <2> QED BY <2>5, <2>6
<1> DEFINE new == Store(t.buf, y * C, f)
<1>13. new \in [0..(kk * C - 1) -> {0, 1}] /\ t.nbBits \in Nat /\ t.ptr \in Nat
  <2>1. t.buf \in [0..(kk * C - 1) -> {0, 1}] /\ t.nbBits \in Nat /\ t.ptr \in Nat /\ y * C \in Nat
    BY <1>9 DEF Stream
  <2> HIDE DEF f
  <2>2. new \in [0..(kk * C - 1) -> {0, 1}]
    BY <1>11, <2>1, StoreIs
  <2> QED BY <2>1, <2>2
<1>14. r = [buf |-> new, nbBits |-> t.nbBits + nc, ptr |-> t.ptr, owner |-> t.owner, overflow |-> t.overflow]
  <2>1. r = [t EXCEPT !.buf = new, !.nbBits = @ + nc]
    BY <1>5, <1>9, <1>10, <1>23
  <2> HIDE DEF new, nc
  <2>2. t \in [buf : [0..(kk * C - 1) -> {0, 1}], nbBits : Nat, ptr : Nat,
               owner : BOOLEAN, overflow : BOOLEAN]
    BY <1>9 DEF Stream
  <2> QED BY <2>1, <2>2
<1>15. Stream(r, kk) /\ r.ptr = t.ptr /\ r.nbBits = t.nbBits + nc
  <2> HIDE DEF new, nc
  <2>1. t.owner \in BOOLEAN /\ t.overflow \in BOOLEAN
    BY <1>9 DEF Stream
  <2> QED BY <1>12, <1>13, <1>14, <2>1 DEF Stream
<1>16. r.overflow = s.overflow
  BY <1>9, <1>14, Zenon
<1> HIDE DEF f, nc
<1>17. Bits(r) = Bits(t) \o f
  <2>1. r.buf = Store(t.buf, y * C, f) /\ r.nbBits = t.nbBits + Len(f)
    BY <1>11, <1>14, <1>15
  <2> HIDE DEF y
  <2>2. y \in Nat /\ t.nbBits = y * C /\ y * C <= kk * C /\ t.nbBits + Len(f) <= kk * C
    BY <1>9, <1>12 DEF y
  <2>3. Stream(t, kk) /\ Stream(r, kk) /\ f \in Seq({0, 1})
    BY <1>9, <1>11, <1>15
  <2> HIDE DEF new
  <2> QED BY <2>1, <2>2, <2>3, StoreAppends
<1>18. Good(r, "reading", kk)
  <2>1. r.ptr <= r.nbBits
    <3>1. t.ptr <= t.nbBits
      BY <1>9
    <3> QED BY <1>12, <1>13, <1>15, <3>1
  <2>2. r.nbBits <= kk * C
    BY <1>11, <1>12, <1>15
  <2> QED BY <1>7, <1>15, <2>1, <2>2 DEF Good
<1>19. Len(Bits(s)) = s.nbBits
  BY <1>1, BitsAre
<1> HIDE DEF gone
<1>20. Bits(r) = SubSeq(Bits(s), gone + 1, Len(Bits(s))) \o f
  BY <1>9, <1>17, <1>19
<1> QED BY <1>9, <1>11, <1>15, <1>16, <1>18, <1>20 DEF r, gone

\* The string loses the chars that were read and gains a packet.
LEMMA ReceiveMoreExtends ==
  ASSUME Sound, ReceiveMore, ~Spoilt'
  PROVE  Sound' /\ Plain!Extend
<1>1. PICK k \in Nat : Good(b, phase, k)
  BY DEF Sound
<1>2. phase = "reading" /\ out' = <<>>
  BY <1>1 DEF ReceiveMore, Good
<1>3. PICK p \in Packets, h \in Heap :
        /\ b' = speex_bits_read_whole_bytes(b, p, h.realloc, h.junk)
        /\ phase' = IF Outside(b, p, h.realloc, h.junk) THEN "overrun"
                    ELSE IF b.nbBits % C # 0 \/ Taken(b, Len(p) \div C, h.realloc) < 0 THEN "spoilt"
                    ELSE phase
  BY Zenon DEF ReceiveMore
<1>4. h.realloc \in BOOLEAN /\ h.junk \in {0, 1}
  BY HeapGives
<1>5. /\ phase' = "reading" /\ ~Outside(b, p, h.realloc, h.junk)
      /\ b.nbBits % C = 0 /\ ~(Taken(b, Len(p) \div C, h.realloc) < 0)
  BY <1>2, <1>3, Zenon DEF Spoilt
<1>6. /\ \E kk \in Nat : Good(b', "reading", kk)
      /\ \E f \in Plain!Cut :
           Bits(b') = SubSeq(Bits(b), b.ptr - (b.ptr % C) + 1, Len(Bits(b))) \o f
      /\ b'.ptr = b.ptr % C /\ b'.overflow = b.overflow
  <2> DEFINE re == h.realloc
             ju == h.junk
             r == speex_bits_read_whole_bytes(b, p, re, ju)
  <2>1. /\ re \in BOOLEAN /\ ju \in {0, 1} /\ Good(b, "reading", k) /\ b.nbBits % C = 0
        /\ ~Outside(b, p, re, ju) /\ ~(Taken(b, Len(p) \div C, re) < 0) /\ b' = r
    BY <1>1, <1>2, <1>3, <1>4, <1>5
  <2> HIDE DEF re, ju
  <2>2. /\ \E kk \in Nat : Good(r, "reading", kk)
        /\ \E f \in Plain!Cut :
             Bits(r) = SubSeq(Bits(b), b.ptr - (b.ptr % C) + 1, Len(Bits(b))) \o f
        /\ r.ptr = b.ptr % C /\ r.overflow = b.overflow
    BY <2>1, ReadWholeExtends, ZenonT(60)
  <2> HIDE DEF r
  <2> QED BY <2>1, <2>2
<1>7. Sound'
  BY <1>5, <1>6 DEF Sound
<1>8. Plain!Extend
  BY <1>2, <1>6, Zenon DEF Plain!Extend, Bits
<1> QED BY <1>7, <1>8

\* A power of two is positive, for the widths of a field.
LEMMA PowerIsPositive ==
  ASSUME NEW n \in 1..31
  PROVE  ~(0 >= 2^(n-1))
<1> DEFINE m == n - 1
           Pos(i) == ~(0 >= 2^i)
<1>1. Pos(0) /\ Pos(1) /\ Pos(2) /\ Pos(3) /\ Pos(4) /\ Pos(5) /\ Pos(6) /\
      Pos(7) /\ Pos(8) /\ Pos(9) /\ Pos(10) /\ Pos(11) /\ Pos(12) /\ Pos(13) /\
      Pos(14) /\ Pos(15) /\ Pos(16) /\ Pos(17) /\ Pos(18) /\ Pos(19) /\ Pos(20) /\
      Pos(21) /\ Pos(22) /\ Pos(23) /\ Pos(24) /\ Pos(25) /\ Pos(26) /\ Pos(27) /\
      Pos(28) /\ Pos(29) /\ Pos(30)
  BY SMT
<1>2. m = 0 \/ m = 1 \/ m = 2 \/ m = 3 \/ m = 4 \/ m = 5 \/ m = 6 \/ m = 7 \/ m = 8 \/
      m = 9 \/ m = 10 \/ m = 11 \/ m = 12 \/ m = 13 \/ m = 14 \/ m = 15 \/ m = 16 \/ m = 17 \/
      m = 18 \/ m = 19 \/ m = 20 \/ m = 21 \/ m = 22 \/ m = 23 \/ m = 24 \/ m = 25 \/ m = 26 \/
      m = 27 \/ m = 28 \/ m = 29 \/ m = 30
  OBVIOUS
<1> HIDE DEF m, Pos
<1>3. Pos(m)
  BY <1>1, <1>2
<1> QED BY <1>3 DEF m, Pos

\* A read past the end answers 0 and sets overflow.
LEMMA PastTheEnd ==
  ASSUME NEW s, NEW n \in 1..31, Past(s, n)
  PROVE  LET r == [s EXCEPT !.overflow = TRUE] IN
         /\ speex_bits_advance(s, n) = r
         /\ speex_bits_peek_unsigned(s, n) = [s |-> r, d |-> 0]
         /\ speex_bits_unpack_unsigned(s, n) = [s |-> r, d |-> 0]
         /\ speex_bits_unpack_signed(s, n) = [s |-> r, d |-> 0]
<1> DEFINE r == [s EXCEPT !.overflow = TRUE]
<1>1. speex_bits_advance(s, n) = r
  BY Zenon DEF speex_bits_advance
<1>2. speex_bits_peek_unsigned(s, n) = [s |-> r, d |-> 0]
  BY Zenon DEF speex_bits_peek_unsigned
<1> HIDE DEF r
<1>3. speex_bits_unpack_unsigned(s, n) = [s |-> r, d |-> 0]
  BY <1>1, <1>2 DEF speex_bits_unpack_unsigned
<1>4. ~(0 >= 2^(n-1))
  BY PowerIsPositive
<1>5. speex_bits_unpack_signed(s, n) = [s |-> r, d |-> 0]
  <2> DEFINE u == [s |-> r, d |-> 0]
  <2>1. u.d = 0 /\ [u EXCEPT !.d = 0] = u
    OBVIOUS
  <2>2. speex_bits_unpack_signed(s, n) = [u EXCEPT !.d = IF u.d >= 2^(n-1) THEN u.d - 2^n ELSE u.d]
    BY <1>3, Zenon DEF speex_bits_unpack_signed
  <2>3. (IF u.d >= 2^(n-1) THEN u.d - 2^n ELSE u.d) = 0
    BY <1>4, <2>1, Zenon
  <2> QED BY <2>1, <2>2, <2>3, Zenon
<1> QED BY <1>1, <1>2, <1>3, <1>5 DEF r

\* A read of bits that are there answers their value.
LEMMA WithinTheString ==
  ASSUME NEW s, NEW n, ~Past(s, n)
  PROVE  LET r == [s EXCEPT !.ptr = @ + n]
             v == Value(Slice(s, s.ptr, n))
         IN /\ speex_bits_advance(s, n) = r
            /\ speex_bits_peek_unsigned(s, n) = [s |-> s, d |-> v]
            /\ speex_bits_unpack_unsigned(s, n) = [s |-> r, d |-> v]
            /\ speex_bits_unpack_signed(s, n) = [s |-> r, d |-> Plain!Signed(v, n)]
<1> DEFINE r == [s EXCEPT !.ptr = @ + n]
           v == Value(Slice(s, s.ptr, n))
<1>1. speex_bits_advance(s, n) = r
  BY Zenon DEF speex_bits_advance
<1>2. speex_bits_peek_unsigned(s, n) = [s |-> s, d |-> v]
  BY Zenon DEF speex_bits_peek_unsigned
<1> HIDE DEF r, v
<1>3. speex_bits_unpack_unsigned(s, n) = [s |-> r, d |-> v]
  BY <1>1, <1>2 DEF speex_bits_unpack_unsigned
<1>4. speex_bits_unpack_signed(s, n) = [s |-> r, d |-> Plain!Signed(v, n)]
  <2> DEFINE u == [s |-> r, d |-> v]
  <2>1. u.d = v /\ \A y : [u EXCEPT !.d = y] = [s |-> r, d |-> y]
    OBVIOUS
  <2>2. speex_bits_unpack_signed(s, n) = [u EXCEPT !.d = IF u.d >= 2^(n-1) THEN u.d - 2^n ELSE u.d]
    BY <1>3, Zenon DEF speex_bits_unpack_signed
  <2>3. (IF u.d >= 2^(n-1) THEN u.d - 2^n ELSE u.d) = Plain!Signed(v, n)
    BY <2>1, Zenon DEF Plain!Signed
  <2> QED BY <2>1, <2>2, <2>3, Zenon
<1> QED BY <1>1, <1>2, <1>3, <1>4 DEF r, v

\* The value of a field is computed as BitQueue's is.
LEMMA SameValue ==
  ASSUME NEW s
  PROVE  Value(s) = Plain!Value(s)
BY DEF Value, Plain!Value, FoldLeft, Plain!FoldLeft,
       MapThenFoldSet, Plain!MapThenFoldSet, Max, Plain!Max

\* Bits are read in the order they were packed, and none past the end.
LEMMA UnpackGets ==
  ASSUME Sound, Unpack
  PROVE  Sound' /\ Plain!Get
<1>1. PICK k \in Nat : Good(b, phase, k)
  BY DEF Sound
<1>2. phase = "reading" /\ phase' = "reading"
  BY <1>1 DEF Unpack, Good
<1>3. /\ Good(b, "reading", k) /\ Stream(b, k) /\ b.nbBits \in Nat /\ b.ptr \in Nat
      /\ b.ptr <= b.nbBits /\ b.nbBits <= k * C
  BY <1>1, <1>2 DEF Good, Stream
<1>4. PICK n \in Widths :
        \/ \E r \in {speex_bits_unpack_unsigned(b, n), speex_bits_unpack_signed(b, n),
                     speex_bits_peek_unsigned(b, n)} : b' = r.s /\ out' = <<r.d>>
        \/ 1 \in Widths /\ LET r == speex_bits_peek(b) IN b' = r.s /\ out' = <<r.d>>
        \/ b' = speex_bits_advance(b, n) /\ out' = <<>>
  BY DEF Unpack
<1>5. Bits(b) \in Seq({0, 1}) /\ Len(Bits(b)) = b.nbBits
      /\ \A i \in 1..b.nbBits : Bits(b)[i] = b.buf[i - 1]
  BY <1>3, BitsAre
<1> DEFINE over == [b EXCEPT !.overflow = TRUE]
           Refused(c, o) == c = over /\ o \in {<<>>, <<0>>}
           Val(i) == Plain!Value(SubSeq(Bits(b), b.ptr + 1, b.ptr + i))
           Moved(c, o, i) == /\ c = [b EXCEPT !.ptr = @ + i]
                             /\ o \in {<<>>, <<Val(i)>>, <<Plain!Signed(Val(i), i)>>}
           Looked(c, o, i) == c = b /\ o = <<Val(i)>>
<1>6. ASSUME NEW i \in Widths, ~Past(b, i)
      PROVE  Value(Slice(b, b.ptr, i)) = Val(i) /\ b.ptr + i <= b.nbBits /\ ~b.overflow /\ i \in Nat
  <2>1. i \in Nat
    BY BitsAssumption
  <2>2. b.ptr + i <= b.nbBits /\ ~b.overflow
    <3>1. ~b.overflow /\ ~(b.ptr + i > b.nbBits)
      BY <1>6, Zenon DEF Past
    <3> QED BY <1>3, <2>1, <3>1
  <2> DEFINE g == Slice(b, b.ptr, i)
  <2>3. g \in Seq({0, 1}) /\ Len(g) = i /\ \A j \in 1..i : g[j] = b.buf[b.ptr + j - 1]
    <3>1. b.ptr + i <= k * C
      <4> DEFINE kc == k * C
      <4>1. kc \in Int /\ b.nbBits <= kc
        BY <1>3, BitsAssumption
      <4> HIDE DEF kc
      <4>2. b.ptr + i <= kc
        BY <1>3, <2>1, <2>2, <4>1
      <4> QED BY <4>2 DEF kc
    <3>2. Stream(b, k) /\ b.ptr \in Nat
      BY <1>3
    <3> QED BY <2>1, <3>1, <3>2, SliceIs, SMTT(60)
  <2> HIDE DEF g
  <2>4. ASSUME NEW j \in 1..i PROVE g[j] = Bits(b)[b.ptr + j]
    <3>1. b.ptr + j \in 1..b.nbBits /\ (b.ptr + j) - 1 = b.ptr + j - 1
      BY <1>3, <2>1, <2>2
    <3> QED BY <1>5, <2>3, <3>1
  <2>5. g = SubSeq(Bits(b), b.ptr + 1, b.ptr + i)
    <3>1. b.ptr + i <= Len(Bits(b)) /\ b.ptr \in Nat
      BY <1>3, <1>5, <2>2
    <3> QED BY <1>5, <2>1, <2>3, <2>4, <3>1, PartIs
  <2>6. Value(g) = Plain!Value(g)
    BY SameValue
  <2> QED BY <2>1, <2>2, <2>5, <2>6 DEF g
<1>7. ASSUME NEW i \in Widths, Past(b, i),
             NEW r \in {speex_bits_unpack_unsigned(b, i), speex_bits_unpack_signed(b, i),
                        speex_bits_peek_unsigned(b, i)}
      PROVE  Refused(r.s, <<r.d>>)
  <2>1. i \in 1..31
    BY BitsAssumption
  <2>2. r = [s |-> over, d |-> 0]
    BY <1>7, <2>1, PastTheEnd, Zenon
  <2> QED BY <2>2
<1>8. ASSUME NEW i \in Widths, ~Past(b, i),
             NEW r \in {speex_bits_unpack_unsigned(b, i), speex_bits_unpack_signed(b, i),
                        speex_bits_peek_unsigned(b, i)}
      PROVE  Moved(r.s, <<r.d>>, i) \/ Looked(r.s, <<r.d>>, i)
  <2> DEFINE moved == [b EXCEPT !.ptr = @ + i]
             v == Val(i)
  <2>1. Value(Slice(b, b.ptr, i)) = v
    BY <1>6, <1>8
  <2> HIDE DEF v
  <2>2. \/ r = [s |-> moved, d |-> v]
        \/ r = [s |-> moved, d |-> Plain!Signed(v, i)]
        \/ r = [s |-> b, d |-> v]
    BY <1>8, <2>1, WithinTheString, Zenon
  <2> HIDE DEF moved
  <2>3. \/ r.s = moved /\ r.d = v
        \/ r.s = moved /\ r.d = Plain!Signed(v, i)
        \/ r.s = b /\ r.d = v
    BY <2>2
  <2> QED BY <2>3, Zenon DEF v, moved
<1>9. \E i \in Widths : \/ Past(b, i) /\ Refused(b', out')
                        \/ ~Past(b, i) /\ (Moved(b', out', i) \/ Looked(b', out', i))
  <2>1. CASE \E r \in {speex_bits_unpack_unsigned(b, n), speex_bits_unpack_signed(b, n),
                       speex_bits_peek_unsigned(b, n)} : b' = r.s /\ out' = <<r.d>>
    <3>1. PICK r \in {speex_bits_unpack_unsigned(b, n), speex_bits_unpack_signed(b, n),
                      speex_bits_peek_unsigned(b, n)} : b' = r.s /\ out' = <<r.d>>
      BY <2>1
    <3> HIDE DEF Refused, Moved, Looked
    <3>2. CASE Past(b, n)
      <4>1. Refused(r.s, <<r.d>>)
        BY <1>7, <3>2
      <4> QED BY <3>1, <3>2, <4>1
    <3>3. CASE ~Past(b, n)
      <4>1. Moved(r.s, <<r.d>>, n) \/ Looked(r.s, <<r.d>>, n)
        BY <1>8, <3>3
      <4> QED BY <3>1, <3>3, <4>1
    <3> QED BY <3>2, <3>3
  <2>2. CASE 1 \in Widths /\ LET r == speex_bits_peek(b) IN b' = r.s /\ out' = <<r.d>>
    <3> DEFINE r == speex_bits_peek_unsigned(b, 1)
    <3>1. b' = r.s /\ out' = <<r.d>> /\ 1 \in Widths
      BY <2>2 DEF speex_bits_peek
    <3> HIDE DEF Refused, Moved, Looked
    <3>2. CASE Past(b, 1)
      <4>1. Refused(r.s, <<r.d>>)
        BY <1>7, <3>1, <3>2
      <4> QED BY <3>1, <3>2, <4>1
    <3>3. CASE ~Past(b, 1)
      <4>1. Moved(r.s, <<r.d>>, 1) \/ Looked(r.s, <<r.d>>, 1)
        BY <1>8, <3>1, <3>3
      <4> QED BY <3>1, <3>3, <4>1
    <3> QED BY <3>2, <3>3
  <2>3. CASE b' = speex_bits_advance(b, n) /\ out' = <<>>
    <3>1. n \in 1..31
      BY BitsAssumption
    <3>2. CASE Past(b, n)
      <4>1. b' = over
        BY <2>3, <3>1, <3>2, PastTheEnd
      <4> QED BY <2>3, <3>2, <4>1
    <3>3. CASE ~Past(b, n)
      <4>1. b' = [b EXCEPT !.ptr = @ + n]
        BY <2>3, <3>3, WithinTheString
      <4> QED BY <2>3, <3>3, <4>1, Zenon
    <3> QED BY <3>2, <3>3
  <2> QED BY <1>4, <2>1, <2>2, <2>3
<1> HIDE DEF Val
<1>10. PICK i \in Widths : \/ Past(b, i) /\ Refused(b', out')
                           \/ ~Past(b, i) /\ (Moved(b', out', i) \/ Looked(b', out', i))
  BY <1>9
<1>11. i \in Nat /\ DOMAIN b.buf = 0..(k * C - 1)
  BY <1>3, BitsAssumption DEF Stream
<1>12. CASE Past(b, i) /\ Refused(b', out')
  <2>1. b' = over /\ out' \in {<<>>, <<0>>}
    BY <1>12
  <2>2. /\ Stream(b', k) /\ b'.buf = b.buf /\ b'.nbBits = b.nbBits /\ b'.ptr = b.ptr
        /\ b'.overflow = TRUE
    BY <1>3, <2>1 DEF Stream
  <2>3. Good(b', "reading", k)
    BY <1>3, <2>2 DEF Good
  <2>4. Bits(b') = Bits(b)
    BY <2>2 DEF Bits, Slice
  <2>5. b.overflow \/ b.ptr + i > Len(Bits(b))
    BY <1>5, <1>12, Zenon DEF Past
  <2>6. Plain!Get
    BY <2>1, <2>2, <2>4, <2>5 DEF Plain!Get, Bits
  <2> QED BY <1>2, <2>3, <2>6 DEF Sound
<1>13. CASE ~Past(b, i) /\ Moved(b', out', i)
  <2>1. /\ b' = [b EXCEPT !.ptr = @ + i]
        /\ out' \in {<<>>, <<Val(i)>>, <<Plain!Signed(Val(i), i)>>}
    BY <1>13
  <2>2. b.ptr + i <= b.nbBits /\ ~b.overflow
    BY <1>6, <1>13
  <2>3. /\ Stream(b', k) /\ b'.buf = b.buf /\ b'.nbBits = b.nbBits /\ b'.ptr = b.ptr + i
    BY <1>3, <1>11, <2>1 DEF Stream
  <2>4. b'.overflow = b.overflow
    BY <1>3, <2>1 DEF Stream
  <2>5. Good(b', "reading", k)
    BY <1>3, <2>2, <2>3 DEF Good
  <2>6. Bits(b') = Bits(b)
    BY <2>3 DEF Bits, Slice
  <2>7. ~b.overflow /\ b.ptr + i <= Len(Bits(b))
    BY <1>5, <2>2
  <2>8. Plain!Get
    BY <2>1, <2>3, <2>4, <2>6, <2>7, Zenon DEF Plain!Get, Bits, Val, Plain!Next_
  <2> QED BY <1>2, <2>5, <2>8 DEF Sound
<1>14. CASE ~Past(b, i) /\ Looked(b', out', i)
  <2>1. b' = b /\ out' = <<Val(i)>>
    BY <1>14
  <2>2. ~b.overflow /\ b.ptr + i <= Len(Bits(b))
    BY <1>5, <1>6, <1>14
  <2>3. Plain!Get
    BY <2>1, <2>2, Zenon DEF Plain!Get, Bits, Val, Plain!Next_
  <2> QED BY <1>1, <1>2, <2>1, <2>3 DEF Sound
<1> QED BY <1>10, <1>12, <1>13, <1>14

-----------------------------------------------------------------------------
(* Appends that find no room, and what follows them. *)

\* A stream of which only the memory is known, in a buffer of k chars.
Shape(s, k) ==
  s \in [buf : [0..(k * C - 1) -> {0, 1}], nbBits : Int, ptr : Nat,
         owner : BOOLEAN, overflow : BOOLEAN]

\* What an append without room leaves: a cursor and a length in the buffer,
\* unless the buffer was borrowed and the append went out of it.
Adrift(s, ph, k) ==
  /\ k \in Nat \ {0} /\ Shape(s, k) /\ ph \in {"spoilt", "overrun"}
  /\ (ph = "overrun" /\ ~s.owner) \/ (s.ptr <= k * C /\ s.nbBits <= k * C)

IInv == Sound \/ \E k \in Nat : Adrift(b, phase, k)

\* A sound stream has a shape.
LEMMA StreamHasShape ==
  ASSUME NEW k \in Nat, NEW s, NEW ph, Good(s, ph, k)
  PROVE  Shape(s, k) /\ s.ptr <= k * C /\ s.nbBits <= k * C /\ k # 0
<1>1. Stream(s, k) /\ s.ptr <= s.nbBits /\ s.nbBits <= k * C /\ k # 0
  BY DEF Good
<1>2. Shape(s, k) /\ s.ptr \in Nat /\ s.nbBits \in Nat
  BY <1>1 DEF Stream, Shape
<1> DEFINE kc == k * C
<1>3. kc \in Int /\ s.ptr <= s.nbBits /\ s.nbBits <= kc
  BY <1>1, BitsAssumption
<1> HIDE DEF kc
<1>4. s.ptr <= kc
  BY <1>2, <1>3
<1> QED BY <1>1, <1>2, <1>4 DEF kc

\* Storing bits anywhere leaves a buffer of bits.
LEMMA StoreKeepsBits ==
  ASSUME NEW k \in Nat, NEW buf \in [0..(k * C - 1) -> {0, 1}], NEW at \in Int,
         NEW f \in Seq({0, 1})
  PROVE  Store(buf, at, f) \in [0..(k * C - 1) -> {0, 1}]
<1> DEFINE D == 0..(k * C - 1)
<1>1. Len(f) \in Nat /\ \A i \in 1..Len(f) : f[i] \in {0, 1}
  OBVIOUS
<1>2. \A i \in at..(at + Len(f) - 1) : i - at + 1 \in 1..Len(f)
  BY <1>1
<1>3. buf \in [D -> {0, 1}]
  OBVIOUS
<1> HIDE DEF D
<1>4. Store(buf, at, f) = [i \in D |-> IF i \in at..(at + Len(f) - 1) THEN f[i - at + 1] ELSE buf[i]]
  BY <1>3 DEF Store
<1>5. Store(buf, at, f) \in [D -> {0, 1}]
  BY <1>1, <1>2, <1>3, <1>4
<1> QED BY <1>5 DEF D

\* A function over 1..y is a string, empty when there is no such y.
LEMMA StringIs ==
  ASSUME NEW y \in Int, NEW f \in [1..y -> {0, 1}]
  PROVE  f \in Seq({0, 1})
<1> DEFINE m == IF y > 0 THEN y ELSE 0
<1>1. m \in Nat /\ 1..y = 1..m
  OBVIOUS
<1> HIDE DEF m
<1>2. f \in [1..m -> {0, 1}]
  BY <1>1
<1> QED BY <1>1, <1>2

\* The chars that were read, before the cursor.
LEMMA GoneIs ==
  ASSUME NEW x \in Nat
  PROVE  /\ x - (x % C) \in Nat /\ x % C \in Nat /\ x % C < C
<1> DEFINE g == x \div C
           gc == g * C
           m == x % C
<1>1. g \in Int /\ m \in Int /\ 0 <= m /\ m < C /\ x = gc + m
  <2>1. x \in Int
    OBVIOUS
  <2> QED BY <2>1, CharOfBit
<1>2. g < 0 <=> x < 0 * C
  <2>1. 0 \in Int /\ x \in Int
    OBVIOUS
  <2> QED BY <2>1, InChar
<1>3. 0 * C = 0
  BY BitsAssumption
<1>4. g \in Nat
  <2> HIDE DEF g
  <2> QED BY <1>1, <1>2, <1>3
<1>5. gc \in Nat /\ C \in Nat
  <2> HIDE DEF g
  <2> QED BY <1>4, BitsAssumption
<1> HIDE DEF g, gc, m
<1>6. x - m \in Nat /\ m \in Nat /\ m < C
  BY <1>1, <1>5
<1> QED BY <1>6 DEF m

\* Dropping what was read leaves a shape.
LEMMA FlushShapes ==
  ASSUME NEW k \in Nat \ {0}, NEW s, Shape(s, k), s.nbBits <= k * C
  PROVE  LET r == speex_bits_flush(s) IN
         /\ Shape(r, k) /\ r.owner = s.owner
         /\ r.ptr \in Nat /\ r.ptr < C
         /\ r.nbBits \in Int /\ r.nbBits <= s.nbBits
<1> DEFINE r == speex_bits_flush(s)
           gone == s.ptr - (s.ptr % C)
           m == s.ptr % C
           wc == Wholes(s) * C
           y == wc - gone
           f == Slice(s, gone, y)
           new == Store(s.buf, 0, f)
           D == 0..(k * C - 1)
<1>1. /\ s.buf \in [D -> {0, 1}] /\ s.nbBits \in Int /\ s.ptr \in Nat
      /\ s.owner \in BOOLEAN /\ s.overflow \in BOOLEAN
  BY DEF Shape
<1>2. gone \in Nat /\ m \in Nat /\ m < C
  BY <1>1, GoneIs
<1>3. wc <= k * C /\ wc \in Int /\ k * C \in Int
  <2>1. Wholes(s) \in Int
    <3>1. s.nbBits + C - 1 \in Int
      BY <1>1, BitsAssumption
    <3> QED BY <3>1, CharOfBit DEF Wholes
  <2>2. Wholes(s) <= k
    BY <1>1, WholesFit
  <2> QED BY <2>1, <2>2, CharsGrow
<1> HIDE DEF gone, m, wc
<1>4. y \in Int /\ \A i \in 1..y : gone + i - 1 \in D
  <2> DEFINE kc == k * C
  <2>1. wc <= kc /\ wc \in Int /\ kc \in Int
    BY <1>3
  <2> HIDE DEF kc
  <2>2. y \in Int /\ \A i \in 1..y : gone + i - 1 \in 0..(kc - 1)
    BY <1>2, <2>1
  <2> QED BY <2>2 DEF kc
<1> HIDE DEF y
<1>5. f \in [1..y -> {0, 1}]
  <2> HIDE DEF D
  <2> QED BY <1>1, <1>4 DEF Slice
<1>6. f \in Seq({0, 1})
  <2> HIDE DEF f
  <2> QED BY <1>4, <1>5, StringIs
<1> HIDE DEF f
<1>7. new \in [D -> {0, 1}]
  <2>1. 0 \in Int
    OBVIOUS
  <2> QED BY <1>1, <1>6, <2>1, StoreKeepsBits
<1>8. r = [s EXCEPT !.buf = new, !.nbBits = @ - gone, !.ptr = m]
  BY DEF speex_bits_flush, f, y, wc, gone, m
<1> HIDE DEF new, r
<1>9. r = [buf |-> new, nbBits |-> s.nbBits - gone, ptr |-> m,
           owner |-> s.owner, overflow |-> s.overflow]
  <2> HIDE DEF D
  <2> QED BY <1>8 DEF Shape
<1>10. s.nbBits - gone \in Int /\ s.nbBits - gone <= s.nbBits
  BY <1>1, <1>2
<1>11. /\ r.buf = new /\ r.nbBits = s.nbBits - gone /\ r.ptr = m
       /\ r.owner = s.owner /\ r.overflow = s.overflow
  BY <1>9
<1>12. Shape(r, k)
  <2> HIDE DEF D
  <2>1. r \in [buf : [D -> {0, 1}], nbBits : Int, ptr : Nat, owner : BOOLEAN, overflow : BOOLEAN]
    BY <1>1, <1>2, <1>7, <1>9, <1>10
  <2> QED BY <2>1 DEF Shape, D
<1> QED BY <1>2, <1>10, <1>11, <1>12 DEF r

\* Growing for an append: the memory grows, by enough for what is appended.
LEMMA RoomForShapes ==
  ASSUME NEW k \in Nat \ {0}, NEW s, Shape(s, k), s.nbBits <= k * C,
         NEW w \in Nat, NEW realloc \in BOOLEAN, NEW junk \in {0, 1}
  PROVE  LET r == RoomFor(s, w, realloc, junk)
             n == Taken(s, w, realloc)
         IN \E kk \in Nat \ {0} :
              /\ Shape(r, kk) /\ k <= kk /\ r.owner = s.owner
              /\ r.ptr = s.ptr /\ r.nbBits = s.nbBits
              /\ n \in Int /\ (s.owner => s.nbBits + n * C <= kk * C)
<1> DEFINE r == RoomFor(s, w, realloc, junk)
           n == Taken(s, w, realloc)
           x == s.nbBits \div C
           u == Wholes(s)
           need == x + w + 1
           grow == NoneLeft(s, w) /\ s.owner /\ realloc
           D == 0..(k * C - 1)
<1>1. /\ s.buf \in [D -> {0, 1}] /\ s.nbBits \in Int /\ s.ptr \in Nat
      /\ s.owner \in BOOLEAN /\ s.overflow \in BOOLEAN /\ DOMAIN s.buf = D
  BY DEF Shape
<1>2. Size(s) = k
  BY <1>1, SizeOfStream
<1>3. x \in Int /\ u \in Int /\ u <= x + 1 /\ s.nbBits <= u * C /\ s.nbBits <= (x + 1) * C
  <2> DEFINE nb == s.nbBits
             m == nb % C
             xc == x * C
             z == nb + C - 1
             uc == u * C
             um == z % C
             xxc == (x + 1) * C
             xxxc == (x + 2) * C
  <2>1. x \in Int /\ m \in Int /\ 0 <= m /\ m < C /\ nb = xc + m
    BY <1>1, CharOfBit
  <2>2. C \in Int /\ 0 < C
    BY BitsAssumption
  <2>3. z \in Int
    BY <1>1, <2>2
  <2>4. u \in Int /\ um \in Int /\ 0 <= um /\ um < C /\ z = uc + um
    BY <2>3, CharOfBit DEF Wholes
  <2> HIDE DEF x, u
  <2>5. xc \in Int /\ uc \in Int /\ xxc = xc + C /\ xxxc = xc + C + C
    BY <2>1, <2>2, <2>4
  <2>6. u < x + 2 <=> uc < xxxc
    <3>1. u \in Int /\ x + 2 \in Int
      BY <2>1, <2>4
    <3> QED BY <3>1, CharsInOrder, Zenon
  <2>7. nb \in Int /\ z = nb + C - 1
    BY <1>1
  <2> HIDE DEF nb, m, xc, z, uc, um, xxc, xxxc
  <2>8. nb <= uc /\ nb <= xxc /\ uc < xxxc
    BY <2>1, <2>2, <2>4, <2>5, <2>7
  <2>9. u <= x + 1
    BY <2>1, <2>4, <2>6, <2>8
  <2> QED BY <2>1, <2>4, <2>8, <2>9 DEF nb, uc, xxc
<1>4. n = IF ~(u + w > k) \/ (s.owner /\ realloc) THEN w
          ELSE IF s.owner THEN k - x - 1 ELSE k
  BY <1>2 DEF Taken, NoneLeft
<1>5. r = IF u + w > k /\ s.owner /\ realloc THEN Resized(s, need, junk) ELSE s
  BY <1>2 DEF RoomFor, NoneLeft
<1> HIDE DEF r, n, x, u
<1>6. n \in Int
  BY <1>3, <1>4
<1>7. CASE u + w > k /\ s.owner /\ realloc
  <2>1. need \in Nat \ {0} /\ k <= need
    BY <1>3, <1>7
  <2>2. s.nbBits + n * C <= need * C
    <3>1. n = w /\ need = (x + 1) + w
      BY <1>3, <1>4, <1>7
    <3>2. need * C = (x + 1) * C + w * C
      <4>1. x + 1 \in Int /\ w \in Int
        BY <1>3
      <4> QED BY <3>1, <4>1, CharsInOrder
    <3> DEFINE a == (x + 1) * C
               wc == w * C
               nd == need * C
    <3>3. s.nbBits <= a /\ nd = a + wc /\ n * C = wc /\ a \in Int /\ wc \in Int
      BY <1>3, <3>1, <3>2, BitsAssumption
    <3> HIDE DEF a, wc, nd
    <3>4. s.nbBits + n * C <= nd
      BY <1>1, <3>3
    <3> QED BY <3>4 DEF nd
  <2> DEFINE E == 0..(need * C - 1)
             new == [i \in E |-> IF i \in D THEN s.buf[i] ELSE junk]
  <2>3. new \in [E -> {0, 1}]
    <3> HIDE DEF E, D
    <3> QED BY <1>1
  <2>4. r = [s EXCEPT !.buf = new]
    BY <1>1, <1>5, <1>7 DEF Resized
  <2> HIDE DEF new, D, need
  <2>5. r = [buf |-> new, nbBits |-> s.nbBits, ptr |-> s.ptr,
             owner |-> s.owner, overflow |-> s.overflow]
    BY <2>4 DEF Shape
  <2>6. Shape(r, need)
    <3> HIDE DEF E
    <3>1. r \in [buf : [E -> {0, 1}], nbBits : Int, ptr : Nat, owner : BOOLEAN, overflow : BOOLEAN]
      BY <1>1, <2>3, <2>5
    <3> QED BY <3>1 DEF Shape, E
  <2>7. r.ptr = s.ptr /\ r.nbBits = s.nbBits /\ r.owner = s.owner
    BY <2>5
  <2> QED BY <1>6, <2>1, <2>2, <2>6, <2>7 DEF r, n
<1>8. CASE ~(u + w > k /\ s.owner /\ realloc)
  <2>1. r = s
    BY <1>5, <1>8
  <2>2. ASSUME s.owner PROVE s.nbBits + n * C <= k * C
    <3>1. CASE ~(u + w > k)
      <4>1. n = w /\ u + w <= k /\ u + w \in Int
        BY <1>3, <1>4, <3>1
      <4>2. (u + w) * C <= k * C /\ (u + w) * C = u * C + w * C /\ k * C \in Int
        <5>1. u \in Int /\ w \in Int /\ k \in Int /\ u + w \in Int
          BY <1>3
        <5> QED BY <4>1, <5>1, CharsGrow, CharsInOrder
      <4> DEFINE uc == u * C
                 wc == w * C
                 kc == k * C
      <4>3. s.nbBits <= uc /\ uc + wc <= kc /\ n * C = wc /\ uc \in Int /\ wc \in Int /\ kc \in Int
        BY <1>3, <4>1, <4>2, BitsAssumption
      <4> HIDE DEF uc, wc, kc
      <4>4. s.nbBits + n * C <= kc
        BY <1>1, <4>3
      <4> QED BY <4>4 DEF kc
    <3>2. CASE u + w > k
      <4>1. n = k - (x + 1)
        BY <1>3, <1>4, <1>8, <2>2, <3>2
      <4>2. n * C = k * C - (x + 1) * C
        <5>1. k \in Int /\ x + 1 \in Int
          BY <1>3
        <5> QED BY <4>1, <5>1, CharsInOrder
      <4> DEFINE a == (x + 1) * C
                 kc == k * C
                 nc == n * C
      <4>3. s.nbBits <= a /\ nc = kc - a /\ a \in Int /\ kc \in Int
        BY <1>3, <4>2, BitsAssumption
      <4> HIDE DEF a, kc, nc
      <4>4. s.nbBits + nc <= kc
        BY <1>1, <4>3
      <4> QED BY <4>4 DEF kc, nc
    <3> QED BY <3>1, <3>2
  <2> QED BY <1>6, <2>1, <2>2 DEF r, n
<1> QED BY <1>7, <1>8

\* Whatever there is room for, an append leaves a shape, and a length in the
\* buffer unless that was borrowed.
LEMMA AppendShapes ==
  ASSUME NEW k \in Nat \ {0}, NEW s, Shape(s, k), s.nbBits <= k * C, NEW p \in Packets,
         NEW realloc \in BOOLEAN, NEW junk \in {0, 1}
  PROVE  LET r == speex_bits_read_whole_bytes(s, p, realloc, junk) IN
         \E kk \in Nat \ {0} :
           /\ Shape(r, kk) /\ r.ptr <= kk * C /\ r.owner = s.owner
           /\ (~Outside(s, p, realloc, junk) \/ s.owner) => r.nbBits <= kk * C
<1> DEFINE r == speex_bits_read_whole_bytes(s, p, realloc, junk)
           w == Len(p) \div C
           s1 == RoomFor(s, w, realloc, junk)
           t == speex_bits_flush(s1)
           n == Taken(s, w, realloc)
           nc == n * C
           given == [i \in 1..nc |-> IF i <= Len(p) THEN p[i] ELSE junk]
           at == (t.nbBits \div C) * C
           new == Store(t.buf, at, given)
<1>1. p \in Seq({0, 1}) /\ w \in Nat
  BY PacketIs
<1>2. /\ r = [t EXCEPT !.buf = new, !.nbBits = @ + nc]
      /\ Outside(s, p, realloc, junk) = (n > 0 /\ (n > w \/ t.nbBits < 0 \/ t.nbBits + nc > Size(t) * C))
  BY DEF speex_bits_read_whole_bytes, Outside
<1> HIDE DEF w, r
<1>3. PICK kk \in Nat \ {0} :
        /\ Shape(s1, kk) /\ k <= kk /\ s1.owner = s.owner
        /\ s1.ptr = s.ptr /\ s1.nbBits = s.nbBits
        /\ n \in Int /\ (s.owner => s.nbBits + n * C <= kk * C)
  <2> HIDE DEF s1, t, n, given, at, new
  <2>1. \E j \in Nat \ {0} :
          /\ Shape(RoomFor(s, w, realloc, junk), j) /\ k <= j
          /\ RoomFor(s, w, realloc, junk).owner = s.owner
          /\ RoomFor(s, w, realloc, junk).ptr = s.ptr
          /\ RoomFor(s, w, realloc, junk).nbBits = s.nbBits
          /\ Taken(s, w, realloc) \in Int
          /\ (s.owner => s.nbBits + Taken(s, w, realloc) * C <= j * C)
    <3>1. w \in Nat
      BY <1>1
    <3> QED BY <3>1, RoomForShapes
  <2> QED BY <2>1, Zenon DEF s1, n
<1> HIDE DEF s1, n
<1>4. s.nbBits \in Int /\ kk * C \in Int /\ k * C <= kk * C /\ s.nbBits <= kk * C /\ nc \in Int
  <2>1. k * C <= kk * C /\ kk * C \in Int /\ k * C \in Int
    <3>1. k \in Int /\ kk \in Int /\ k <= kk
      BY <1>3
    <3> QED BY <3>1, CharsGrow
  <2>2. s.nbBits \in Int /\ nc \in Int
    BY <1>3, BitsAssumption DEF Shape
  <2> DEFINE kc == k * C
             kkc == kk * C
  <2>3. kc <= kkc /\ kc \in Int /\ kkc \in Int /\ s.nbBits <= kc
    BY <2>1
  <2> HIDE DEF kc, kkc, nc
  <2>4. s.nbBits <= kkc
    BY <2>2, <2>3
  <2> QED BY <2>1, <2>2, <2>4 DEF kkc
<1>5. /\ Shape(t, kk) /\ t.owner = s.owner /\ t.ptr \in Nat /\ t.ptr < C
      /\ t.nbBits \in Int /\ t.nbBits <= s.nbBits
  BY <1>3, <1>4, FlushShapes
<1> HIDE DEF t
<1>6. given \in Seq({0, 1})
  <2>1. \A i \in 1..nc : i <= Len(p) => p[i] \in {0, 1}
    <3> HIDE DEF nc
    <3> QED BY <1>1, <1>4
  <2>2. given \in [1..nc -> {0, 1}]
    <3> HIDE DEF nc
    <3> QED BY <2>1
  <2> HIDE DEF given, nc
  <2> QED BY <1>4, <2>2, StringIs
<1> HIDE DEF given
<1>7. new \in [0..(kk * C - 1) -> {0, 1}]
  <2>1. at \in Int
    <3>1. t.nbBits \div C \in Int
      BY <1>5, CharOfBit
    <3> QED BY <3>1, BitsAssumption
  <2>2. t.buf \in [0..(kk * C - 1) -> {0, 1}]
    BY <1>5 DEF Shape
  <2> HIDE DEF at
  <2> QED BY <1>6, <2>1, <2>2, StoreKeepsBits
<1> HIDE DEF new
<1>8. r = [buf |-> new, nbBits |-> t.nbBits + nc, ptr |-> t.ptr,
           owner |-> t.owner, overflow |-> t.overflow]
  <2> HIDE DEF nc
  <2> QED BY <1>2, <1>5 DEF Shape
<1>9. r.ptr = t.ptr /\ r.nbBits = t.nbBits + nc /\ r.owner = s.owner
  BY <1>5, <1>8
<1>10. Shape(r, kk)
  <2>1. t.nbBits + nc \in Int /\ t.owner \in BOOLEAN /\ t.overflow \in BOOLEAN
    <3> HIDE DEF nc
    <3> QED BY <1>4, <1>5 DEF Shape
  <2> HIDE DEF nc
  <2> QED BY <1>5, <1>7, <1>8, <2>1 DEF Shape
<1>11. r.ptr <= kk * C
  <2>1. C <= kk * C
    <3>1. 1 \in Int /\ kk \in Int /\ 1 <= kk /\ 1 * C = C
      BY BitsAssumption
    <3>2. 1 * C <= kk * C
      BY <3>1, CharsGrow
    <3> QED BY <3>1, <3>2
  <2> DEFINE kkc == kk * C
  <2>2. C <= kkc /\ kkc \in Int /\ C \in Int /\ r.ptr \in Nat /\ r.ptr < C
    BY <1>4, <1>5, <1>9, <2>1, BitsAssumption
  <2> HIDE DEF kkc
  <2>3. r.ptr <= kkc
    BY <2>2
  <2> QED BY <2>3 DEF kkc
<1>12. ASSUME s.owner PROVE r.nbBits <= kk * C
  <2> DEFINE kkc == kk * C
  <2>1. s.nbBits + nc <= kkc /\ kkc \in Int
    BY <1>3, <1>4, <1>12
  <2> HIDE DEF kkc, nc
  <2>2. r.nbBits <= kkc
    BY <1>4, <1>5, <1>9, <2>1
  <2> QED BY <2>2 DEF kkc
<1>13. ASSUME ~Outside(s, p, realloc, junk) PROVE r.nbBits <= kk * C
  <2>1. Size(t) = kk
    BY <1>5, SizeOfStream DEF Shape
  <2>2. CASE n > 0
    <3>1. ~(t.nbBits + nc > kk * C)
      BY <1>2, <1>13, <2>1, <2>2
    <3> DEFINE kkc == kk * C
    <3>2. ~(t.nbBits + nc > kkc) /\ kkc \in Int
      BY <1>4, <3>1
    <3> HIDE DEF kkc, nc
    <3>3. r.nbBits <= kkc
      BY <1>4, <1>5, <1>9, <3>2
    <3> QED BY <3>3 DEF kkc
  <2>3. CASE ~(n > 0)
    <3>1. nc <= 0
      <4>1. n \in Int /\ 0 \in Int /\ n <= 0 /\ 0 * C = 0
        BY <1>3, <2>3, BitsAssumption
      <4>2. n * C <= 0 * C
        BY <4>1, CharsGrow
      <4> QED BY <4>1, <4>2
    <3> DEFINE kkc == kk * C
    <3>2. s.nbBits <= kkc /\ kkc \in Int
      BY <1>4
    <3> HIDE DEF kkc, nc
    <3>3. r.nbBits <= kkc
      BY <1>4, <1>5, <1>9, <3>1, <3>2
    <3> QED BY <3>3 DEF kkc
  <2> QED BY <2>2, <2>3
<1> QED BY <1>9, <1>10, <1>11, <1>12, <1>13 DEF r

\* A sound stream is not spoilt, and a spoilt one is adrift.
LEMMA SoundIsNotSpoilt ==
  /\ Sound => ~Spoilt
  /\ IInv /\ Spoilt => \E k \in Nat : Adrift(b, phase, k)
  /\ IInv /\ ~Spoilt => Sound
BY DEF Sound, Good, IInv, Adrift, Spoilt

\* And so after a step.
LEMMA SoundStays ==
  Sound' => ~Spoilt' /\ IInv'
BY DEF Sound, Good, IInv, Spoilt

\* Its value of a field, too, is computed as BitQueue's.
LEMMA SameQueueValue ==
  ASSUME NEW s
  PROVE  Value(s) = Queue!Value(s)
BY DEF Value, Queue!Value, FoldLeft, Queue!FoldLeft,
       MapThenFoldSet, Queue!MapThenFoldSet, Max, Queue!Max

\* What a plain string of bits does is what the promised one does.
LEMMA PlainIsQueue ==
  ASSUME ~Spoilt, ~Spoilt', Plain!Next
  PROVE  Queue!Next
<1>1. Plain!Field = Queue!Field
  BY DEF Plain!Field, Queue!Field
<1>2. Plain!Cut = Queue!Cut
  BY DEF Plain!Cut, Queue!Cut
<1> DEFINE B == Slice(b, 0, b.nbBits)
<1>3. /\ (IF Spoilt THEN <<>> ELSE B) = B /\ (IF Spoilt THEN 0 ELSE b.ptr) = b.ptr
      /\ (Spoilt \/ b.overflow) = (FALSE \/ b.overflow) /\ (IF Spoilt THEN <<>> ELSE out) = out
  OBVIOUS
<1>10. CASE Plain!Put
  BY <1>1, <1>10 DEF Plain!Put, Queue!Put, Queue!Next
<1>11. CASE Plain!Get
  <2>1. \A n : Queue!Next_(n) = Plain!Next_(n)
    BY DEF Queue!Next_, Plain!Next_
  <2>2. \A n : Queue!Value(Queue!Next_(n)) = Plain!Value(Plain!Next_(n))
    BY <2>1, SameValue, SameQueueValue
  <2>3. \A n : Queue!Signed(Queue!Value(Queue!Next_(n)), n) = Plain!Signed(Plain!Value(Plain!Next_(n)), n)
    BY <2>2 DEF Queue!Signed, Plain!Signed
  <2>4. PICK n \in Widths :
          \/ /\ b.overflow \/ b.ptr + n > Len(B)
             /\ b'.overflow = TRUE /\ out' \in {<<>>, <<0>>} /\ B' = B /\ b'.ptr = b.ptr
          \/ /\ ~b.overflow /\ b.ptr + n <= Len(B)
             /\ \/ /\ b'.ptr = b.ptr + n
                   /\ out' \in {<<>>, <<Plain!Value(Plain!Next_(n))>>,
                              <<Plain!Signed(Plain!Value(Plain!Next_(n)), n)>>}
                \/ b'.ptr = b.ptr /\ out' = <<Plain!Value(Plain!Next_(n))>>
             /\ B' = B /\ b'.overflow = b.overflow
    BY <1>11 DEF Plain!Get
  <2> DEFINE v == Plain!Value(Plain!Next_(n))
             sv == Plain!Signed(v, n)
  <2>5. Queue!Value(Queue!Next_(n)) = v /\ Queue!Signed(v, n) = sv
    BY <2>2, <2>3
  <2> HIDE DEF v, sv
  <2>6. Queue!Get
    <3>1. CASE /\ b.overflow \/ b.ptr + n > Len(B)
               /\ b'.overflow = TRUE /\ out' \in {<<>>, <<0>>} /\ B' = B /\ b'.ptr = b.ptr
      BY <3>1 DEF Queue!Get
    <3>2. CASE /\ ~b.overflow /\ b.ptr + n <= Len(B)
               /\ \/ b'.ptr = b.ptr + n /\ out' \in {<<>>, <<v>>, <<sv>>}
                  \/ b'.ptr = b.ptr /\ out' = <<v>>
               /\ B' = B /\ b'.overflow = b.overflow
      BY <2>5, <3>2 DEF Queue!Get
    <3> QED BY <2>4, <3>1, <3>2, Zenon DEF v, sv
  <2> QED BY <2>6 DEF Queue!Next
<1>12. CASE Plain!Reset
  BY <1>12 DEF Plain!Reset, Queue!Reset, Queue!Next
<1>13. CASE Plain!Rewind
  BY <1>13 DEF Plain!Rewind, Queue!Rewind, Queue!Next
<1>14. CASE Plain!Load
  BY <1>2, <1>14 DEF Plain!Load, Queue!Load, Queue!Next
<1>15. CASE Plain!Extend
  BY <1>2, <1>15 DEF Plain!Extend, Queue!Extend, Queue!Next
<1>16. CASE Plain!Spoil
  BY <1>16 DEF Plain!Spoil, Queue!Spoil, Queue!Next
<1>17. CASE Plain!Write
  BY <1>17 DEF Plain!Write, Queue!Write, Queue!Next, Plain!Terminator, Queue!Terminator
<1>18. CASE Plain!Ship
  BY <1>18 DEF Plain!Ship, Queue!Ship, Queue!Next
<1> QED BY <1>10, <1>11, <1>12, <1>13, <1>14, <1>15, <1>16, <1>17, <1>18 DEF Plain!Next

\* While a content is spoilt the promised string does not change.
LEMMA SpoiltStutters ==
  ASSUME Spoilt, Spoilt'
  PROVE  UNCHANGED Queue!vars
BY DEF Queue!vars

\* An append spoils whole chars only when the buffer has no room for it.
LEMMA SpoiltForWantOfRoom ==
  ASSUME NEW k \in Nat, NEW s, Good(s, "reading", k), s.nbBits % C = 0, NEW p \in Packets,
         NEW realloc \in BOOLEAN, NEW junk \in {0, 1},
         Outside(s, p, realloc, junk) \/ Taken(s, Len(p) \div C, realloc) < 0
  PROVE  s.nbBits + Len(p) > k * C
<1> DEFINE w == Len(p) \div C
           x == s.nbBits \div C
           n == Taken(s, w, realloc)
           s1 == RoomFor(s, w, realloc, junk)
           t == speex_bits_flush(s1)
<1>1. /\ Stream(s, k) /\ s.ptr <= s.nbBits /\ s.nbBits <= k * C /\ k \in Nat \ {0}
      /\ s.nbBits \in Nat /\ k * C \in Int /\ Size(s) = k
  BY BitsAssumption, SizeOfStream DEF Good, Stream
<1>2. w \in Nat /\ Len(p) = w * C
  BY PacketIs
<1>3. s.nbBits = x * C /\ Wholes(s) = x /\ x \in Nat
  <2>1. Wholes(s) \in Nat /\ Wholes(s) = x /\ Wholes(s) * C = s.nbBits
    BY <1>1, WholesIs
  <2> QED BY <2>1
<1>4. Outside(s, p, realloc, junk) = (n > 0 /\ (n > w \/ t.nbBits < 0 \/ t.nbBits + n * C > Size(t) * C))
  BY DEF Outside
<1> HIDE DEF x, w
<1>5. ASSUME ~(x + w > k) PROVE FALSE
  <2>1. ~NoneLeft(s, w)
    BY <1>1, <1>3, <1>5 DEF NoneLeft
  <2>2. n = w /\ s1 = s
    BY <2>1 DEF Taken, RoomFor
  <2> HIDE DEF n, s1
  <2>3. t = speex_bits_flush(s)
    BY <2>2
  <2> HIDE DEF t
  <2>4. /\ Stream(t, k) /\ t.nbBits <= s.nbBits
    BY <1>1, <1>3, <2>3, FlushDrops
  <2>5. Size(t) = k /\ t.nbBits \in Nat
    BY <2>4, SizeOfStream DEF Stream
  <2>6. x * C + w * C <= k * C /\ x * C \in Int /\ w * C \in Int
    <3>1. x \in Int /\ w \in Int /\ k \in Int /\ x + w \in Int /\ x + w <= k
      BY <1>2, <1>3, <1>5
    <3>2. (x + w) * C <= k * C /\ (x + w) * C = x * C + w * C
      BY <3>1, CharsGrow, CharsInOrder
    <3>3. x * C \in Int /\ w * C \in Int
      BY <3>1, CharsInOrder
    <3> QED BY <3>2, <3>3
  <2> DEFINE xc == x * C
             wc == w * C
             kc == k * C
  <2>7. ~(t.nbBits + wc > kc)
    <3>1. xc + wc <= kc /\ xc \in Int /\ wc \in Int /\ kc \in Int /\ t.nbBits <= xc
      BY <1>1, <1>3, <2>4, <2>6
    <3> HIDE DEF xc, wc, kc
    <3> QED BY <2>5, <3>1
  <2>8. ~(w < 0) /\ ~(w > w) /\ ~(t.nbBits < 0)
    BY <1>2, <2>5
  <2>9. ~Outside(s, p, realloc, junk)
    BY <1>4, <2>2, <2>5, <2>7, <2>8
  <2>10. ~(n < 0)
    BY <2>2, <2>8
  <2> QED BY <2>9, <2>10 DEF n, w
<1>6. k < x + w
  BY <1>1, <1>2, <1>3, <1>5
<1>7. k * C < x * C + w * C
  <2>1. k \in Int /\ x \in Int /\ w \in Int /\ x + w \in Int
    BY <1>2, <1>3
  <2>2. k * C < (x + w) * C /\ (x + w) * C = x * C + w * C
    BY <1>6, <2>1, CharsInOrder
  <2> QED BY <2>2
<1> DEFINE kc == k * C
           wc == w * C
<1>8. kc < s.nbBits + wc /\ kc \in Int /\ wc \in Int
  BY <1>1, <1>2, <1>3, <1>7, BitsAssumption
<1> HIDE DEF kc, wc
<1>9. s.nbBits + wc > kc
  BY <1>1, <1>8
<1> QED BY <1>2, <1>9 DEF kc, wc

\* An append spoils a content that follows a part of a char or has no room.
LEMMA ReceiveMoreSpoils ==
  ASSUME IInv, ReceiveMore, Spoilt'
  PROVE  IInv' /\ [Queue!Next]_(Queue!vars)
<1>1. phase \in {"reading", "spoilt"} /\ out' = <<>>
  BY DEF ReceiveMore
<1>2. PICK p \in Packets, h \in Heap :
        /\ b' = speex_bits_read_whole_bytes(b, p, h.realloc, h.junk)
        /\ phase' = IF Outside(b, p, h.realloc, h.junk) THEN "overrun"
                    ELSE IF b.nbBits % C # 0 \/ Taken(b, Len(p) \div C, h.realloc) < 0 THEN "spoilt"
                    ELSE phase
  BY Zenon DEF ReceiveMore
<1> DEFINE re == h.realloc
           ju == h.junk
           outside == Outside(b, p, re, ju)
           r == speex_bits_read_whole_bytes(b, p, re, ju)
<1>3. re \in BOOLEAN /\ ju \in {0, 1} /\ b' = r
  BY <1>2, HeapGives
<1>4. phase' = IF outside THEN "overrun"
               ELSE IF b.nbBits % C # 0 \/ Taken(b, Len(p) \div C, re) < 0 THEN "spoilt" ELSE phase
  BY <1>2, Zenon
<1> HIDE DEF re, ju, r, outside
<1>5. PICK k \in Nat \ {0} : Shape(b, k) /\ b.nbBits <= k * C
  <2>1. CASE phase = "reading"
    <3>1. PICK k \in Nat : Good(b, phase, k)
      BY <2>1, SoundIsNotSpoilt DEF Spoilt, Sound
    <3> QED BY <3>1, StreamHasShape
  <2>2. CASE phase = "spoilt"
    <3>1. PICK k \in Nat : Adrift(b, phase, k)
      BY <2>2, SoundIsNotSpoilt DEF Spoilt
    <3> QED BY <2>2, <3>1 DEF Adrift
  <2> QED BY <1>1, <2>1, <2>2
<1>6. PICK kk \in Nat \ {0} :
        /\ Shape(r, kk) /\ r.ptr <= kk * C /\ r.owner = b.owner
        /\ (~outside \/ b.owner) => r.nbBits <= kk * C
  BY <1>3, <1>5, AppendShapes, Zenon DEF r, outside
<1>7. phase' \in {"spoilt", "overrun"}
  BY DEF Spoilt
<1>8. Adrift(r, phase', kk)
  <2>1. b.owner \in BOOLEAN
    BY <1>5 DEF Shape
  <2>2. phase' # "overrun" => ~outside
    BY <1>4
  <2> QED BY <1>6, <1>7, <2>1, <2>2 DEF Adrift
<1>9. IInv'
  BY <1>3, <1>8 DEF IInv
<1>10. CASE Spoilt
  BY <1>9, <1>10, SpoiltStutters
<1>11. CASE ~Spoilt
  <2>1. phase = "reading" /\ Sound
    BY <1>1, <1>11, SoundIsNotSpoilt DEF Spoilt
  <2>2. PICK j \in Nat : Good(b, "reading", j)
    BY <2>1 DEF Sound
  <2>3. Stream(b, j) /\ b.nbBits <= j * C /\ Size(b) = j
    BY <2>2, SizeOfStream DEF Good, Stream
  <2>4. Len(Bits(b)) = b.nbBits
    BY <2>3, BitsAre
  <2>5. b.nbBits % C # 0 \/ b.nbBits + Len(p) > j * C
    <3>1. outside \/ b.nbBits % C # 0 \/ Taken(b, Len(p) \div C, re) < 0
      BY <1>4, <1>7, <2>1
    <3> QED BY <1>3, <2>2, <3>1, SpoiltForWantOfRoom, Zenon DEF outside
  <2>6. Len(Bits(b)) % C # 0 \/ Len(Bits(b)) + Len(p) > Size(b) * C
    BY <2>3, <2>4, <2>5
  <2>7. Queue!Spoil
    BY <1>11, <2>6 DEF Queue!Spoil, Bits
  <2> QED BY <1>9, <2>7 DEF Queue!Next
<1> QED BY <1>10, <1>11

\* Reading a spoilt content, or from its beginning, moves only the cursor.
LEMMA SpoiltIsRead ==
  ASSUME IInv, Spoilt, Unpack \/ Rewind
  PROVE  IInv' /\ [Queue!Next]_(Queue!vars)
<1>1. PICK k \in Nat : Adrift(b, phase, k)
  BY SoundIsNotSpoilt
<1>2. phase = "spoilt" /\ phase' = "spoilt"
  BY DEF Spoilt, Unpack, Rewind
<1>3. /\ k \in Nat \ {0} /\ Shape(b, k) /\ b.ptr <= k * C /\ b.nbBits <= k * C
      /\ b.ptr \in Nat /\ b.nbBits \in Int /\ k * C \in Int
  BY <1>1, <1>2, BitsAssumption DEF Adrift, Shape
<1>4. \/ b' = b \/ b' = [b EXCEPT !.overflow = TRUE]
      \/ b' = [b EXCEPT !.ptr = 0, !.overflow = FALSE]
      \/ \E n \in Nat : b.ptr + n <= b.nbBits /\ b' = [b EXCEPT !.ptr = @ + n]
  <2>1. CASE Rewind
    BY <2>1 DEF Rewind, speex_bits_rewind
  <2>2. CASE Unpack
    <3>1. PICK n \in Widths \cup {1} :
            \/ \E r \in {speex_bits_unpack_unsigned(b, n), speex_bits_unpack_signed(b, n),
                         speex_bits_peek_unsigned(b, n)} : b' = r.s
            \/ b' = speex_bits_advance(b, n)
      BY <2>2, Zenon DEF Unpack, speex_bits_peek
    <3>2. n \in 1..31 /\ n \in Nat
      BY BitsAssumption
    <3>3. CASE Past(b, n)
      <4>1. b' = [b EXCEPT !.overflow = TRUE]
        <5> DEFINE o == [b EXCEPT !.overflow = TRUE]
        <5>1. /\ speex_bits_advance(b, n) = o
              /\ speex_bits_peek_unsigned(b, n) = [s |-> o, d |-> 0]
              /\ speex_bits_unpack_unsigned(b, n) = [s |-> o, d |-> 0]
              /\ speex_bits_unpack_signed(b, n) = [s |-> o, d |-> 0]
          BY <3>2, <3>3, PastTheEnd
        <5> HIDE DEF o
        <5>2. b' = o
          BY <3>1, <5>1
        <5> QED BY <5>2 DEF o
      <4> QED BY <4>1
    <3>4. CASE ~Past(b, n)
      <4> DEFINE o == [b EXCEPT !.ptr = @ + n]
      <4>1. b' = o \/ b' = b
        <5> DEFINE v == Value(Slice(b, b.ptr, n))
                   sv == Plain!Signed(v, n)
        <5>1. /\ speex_bits_advance(b, n) = o
              /\ speex_bits_peek_unsigned(b, n) = [s |-> b, d |-> v]
              /\ speex_bits_unpack_unsigned(b, n) = [s |-> o, d |-> v]
              /\ speex_bits_unpack_signed(b, n) = [s |-> o, d |-> sv]
          BY <3>4, WithinTheString
        <5> HIDE DEF o, v, sv
        <5> QED BY <3>1, <5>1
      <4>2. b.ptr + n <= b.nbBits
        <5>1. ~(b.ptr + n > b.nbBits)
          BY <3>4, Zenon DEF Past
        <5> QED BY <1>3, <3>2, <5>1
      <4> QED BY <3>2, <4>1, <4>2
    <3> QED BY <3>3, <3>4
  <2> QED BY <2>1, <2>2
<1>5. Shape(b', k) /\ b'.ptr <= k * C /\ b'.nbBits <= k * C
  <2> DEFINE kc == k * C
             D == 0..(kc - 1)
  <2>1. /\ b \in [buf : [D -> {0, 1}], nbBits : Int, ptr : Nat, owner : BOOLEAN, overflow : BOOLEAN]
        /\ b.ptr <= kc /\ b.nbBits <= kc /\ kc \in Int
    BY <1>3 DEF Shape
  <2>2. 0 <= kc
    BY <1>3, BitsAssumption
  <2> HIDE DEF kc, D
  <2>3. /\ b' \in [buf : [D -> {0, 1}], nbBits : Int, ptr : Nat, owner : BOOLEAN, overflow : BOOLEAN]
        /\ b'.ptr <= kc /\ b'.nbBits <= kc
    <3>1. CASE b' = b
      BY <2>1, <3>1
    <3>2. CASE b' = [b EXCEPT !.overflow = TRUE]
      BY <2>1, <3>2
    <3>3. CASE b' = [b EXCEPT !.ptr = 0, !.overflow = FALSE]
      BY <2>1, <2>2, <3>3
    <3>4. CASE \E n \in Nat : b.ptr + n <= b.nbBits /\ b' = [b EXCEPT !.ptr = @ + n]
      <4>1. PICK n \in Nat : b.ptr + n <= b.nbBits /\ b' = [b EXCEPT !.ptr = @ + n]
        BY <3>4
      <4>2. b.ptr + n \in Nat /\ b.ptr + n <= kc
        BY <1>3, <2>1, <4>1
      <4> QED BY <2>1, <4>1, <4>2
    <3> QED BY <1>4, <3>1, <3>2, <3>3, <3>4
  <2> QED BY <2>3 DEF Shape, D, kc
<1>6. IInv'
  BY <1>2, <1>3, <1>5 DEF IInv, Adrift
<1> QED BY <1>2, <1>6, SpoiltStutters DEF Spoilt

\* A packet that replaces the content does not look at the length there was.
LEMMA SameReadFrom ==
  ASSUME NEW D, NEW s, NEW r, NEW p, NEW realloc, NEW junk,
         s \in [buf : [D -> {0, 1}], nbBits : Int, ptr : Nat, owner : BOOLEAN, overflow : BOOLEAN],
         r = [buf |-> s.buf, nbBits |-> 0, ptr |-> s.ptr, owner |-> s.owner, overflow |-> s.overflow]
  PROVE  speex_bits_read_from(s, p, realloc, junk) = speex_bits_read_from(r, p, realloc, junk)
<1> DEFINE w == Len(p) \div C
           grow == w > Size(s) /\ s.owner /\ realloc
           new(x) == [i \in 0..(w * C - 1) |-> IF i \in DOMAIN x.buf THEN x.buf[i] ELSE junk]
           buf == IF grow THEN new(s) ELSE s.buf
           fs == Fit(s, w, realloc, junk)
           fr == Fit(r, w, realloc, junk)
<1>1. r.buf = s.buf /\ r.owner = s.owner
  OBVIOUS
<1>2. Size(r) = Size(s) /\ new(r) = new(s)
  BY <1>1 DEF Size
<1>3. /\ fs = IF grow THEN [s EXCEPT !.buf = new(s)] ELSE s
      /\ fr = IF grow THEN [r EXCEPT !.buf = new(r)] ELSE r
  BY <1>1, <1>2, Zenon DEF Fit, Resized
<1> HIDE DEF new, grow, w
<1>4. fs = [buf |-> buf, nbBits |-> s.nbBits, ptr |-> s.ptr, owner |-> s.owner, overflow |-> s.overflow]
  <2>1. CASE grow
    BY <1>3, <2>1
  <2>2. CASE ~grow
    BY <1>3, <2>2
  <2> QED BY <2>1, <2>2
<1>5. fr = [buf |-> buf, nbBits |-> 0, ptr |-> s.ptr, owner |-> s.owner, overflow |-> s.overflow]
  <2>1. CASE grow
    BY <1>2, <1>3, <2>1
  <2>2. CASE ~grow
    BY <1>3, <2>2
  <2> QED BY <2>1, <2>2
<1> HIDE DEF fs, fr, buf
<1>6. fs.buf = fr.buf
  BY <1>4, <1>5
<1>7. Size(fs) = Size(fr)
  BY <1>6 DEF Size
<1> DEFINE n == Min2(w, Size(fs)) * C
           at == Store(fs.buf, 0, SubSeq(p, 1, n))
<1>8. speex_bits_read_from(s, p, realloc, junk)
        = [fs EXCEPT !.buf = at, !.nbBits = n, !.ptr = 0, !.overflow = FALSE]
  BY Zenon DEF speex_bits_read_from, fs, w
<1>9. speex_bits_read_from(r, p, realloc, junk)
        = [fr EXCEPT !.buf = at, !.nbBits = n, !.ptr = 0, !.overflow = FALSE]
  <2>1. speex_bits_read_from(r, p, realloc, junk)
        = [fr EXCEPT !.buf = Store(@, 0, SubSeq(p, 1, Min2(w, Size(fr)) * C)),
                     !.nbBits = Min2(w, Size(fr)) * C, !.ptr = 0, !.overflow = FALSE]
    BY Zenon DEF speex_bits_read_from, fr, w
  <2> QED BY <1>6, <1>7, <2>1
<1> HIDE DEF at, n
<1> DEFINE q == [buf |-> at, nbBits |-> n, ptr |-> 0, owner |-> s.owner, overflow |-> FALSE]
           rs == speex_bits_read_from(s, p, realloc, junk)
           rr == speex_bits_read_from(r, p, realloc, junk)
<1>10. /\ rs = [fs EXCEPT !.buf = at, !.nbBits = n, !.ptr = 0, !.overflow = FALSE]
       /\ rr = [fr EXCEPT !.buf = at, !.nbBits = n, !.ptr = 0, !.overflow = FALSE]
  BY <1>8, <1>9
<1> HIDE DEF rs, rr
<1>11. rs = q
  BY <1>4, <1>10
<1>12. rr = q
  BY <1>5, <1>10
<1> QED BY <1>11, <1>12 DEF rs, rr

\* A reset, or a packet, ends it: neither reads the length that was left.
LEMMA SpoiltEnds ==
  ASSUME IInv, Spoilt, Reset \/ Receive
  PROVE  IInv' /\ [Queue!Next]_(Queue!vars)
<1>1. PICK k \in Nat : Adrift(b, phase, k)
  BY SoundIsNotSpoilt
<1> DEFINE D == 0..(k * C - 1)
           s == [b EXCEPT !.nbBits = 0]
<1>2. /\ b \in [buf : [D -> {0, 1}], nbBits : Int, ptr : Nat, owner : BOOLEAN, overflow : BOOLEAN]
      /\ k \in Nat \ {0}
  BY <1>1 DEF Adrift, Shape
<1> HIDE DEF D
<1>3. s = [buf |-> b.buf, nbBits |-> 0, ptr |-> b.ptr, owner |-> b.owner, overflow |-> b.overflow]
  BY <1>2
<1>4. Stream(s, k)
  <2>1. s \in [buf : [D -> {0, 1}], nbBits : Nat, ptr : Nat, owner : BOOLEAN, overflow : BOOLEAN]
    BY <1>2, <1>3
  <2> QED BY <2>1 DEF Stream, D
<1>5. s.buf = b.buf /\ s.owner = b.owner
  BY <1>3
<1> HIDE DEF s
<1>6. CASE Reset
  <2>1. b' = speex_bits_reset(s)
    <3> DEFINE new == ClearChar(b.buf, 0)
    <3>1. b' = [b EXCEPT !.buf = new, !.nbBits = 0, !.ptr = 0, !.overflow = FALSE]
      BY <1>6 DEF Reset, speex_bits_reset
    <3>2. speex_bits_reset(s) = [s EXCEPT !.buf = new, !.nbBits = 0, !.ptr = 0, !.overflow = FALSE]
      BY <1>5 DEF speex_bits_reset
    <3> HIDE DEF new
    <3> QED BY <1>2, <1>3, <3>1, <3>2
  <2>2. phase' = "writing" /\ out' = <<>>
    BY <1>6 DEF Reset
  <2>3. Good(b', "writing", k) /\ Bits(b') = <<>> /\ b'.ptr = 0 /\ b'.overflow = FALSE
    BY <1>2, <1>4, <2>1, ResetIsWritable
  <2>4. Sound'
    BY <2>2, <2>3 DEF Sound
  <2>5. Queue!Reset
    BY <2>2, <2>3, <2>4, SoundStays DEF Queue!Reset, Bits
  <2> QED BY <2>4, <2>5, SoundStays DEF Queue!Next
<1>7. CASE Receive
  <2>1. phase' = "reading" /\ out' = <<>>
    BY <1>7 DEF Receive
  <2>2. PICK p \in Packets :
          \/ \E h \in Heap : b' = speex_bits_read_from(b, p, h.realloc, h.junk)
          \/ p # <<>> /\ b' = speex_bits_set_bit_buffer([i \in 0..(Len(p) - 1) |-> p[i + 1]])
    BY <1>7 DEF Receive
  <2>3. /\ \E kk \in Nat : Good(b', "reading", kk)
        /\ Bits(b') \in Plain!Cut /\ b'.ptr = 0 /\ b'.overflow = FALSE
    <3>1. CASE \E h \in Heap : b' = speex_bits_read_from(b, p, h.realloc, h.junk)
      <4>1. PICK h \in Heap : b' = speex_bits_read_from(b, p, h.realloc, h.junk)
        BY <3>1
      <4> DEFINE re == h.realloc
                 ju == h.junk
                 q == speex_bits_read_from(s, p, re, ju)
      <4>2. re \in BOOLEAN /\ ju \in {0, 1} /\ b' = speex_bits_read_from(b, p, re, ju)
        BY <4>1, HeapGives
      <4> HIDE DEF re, ju
      <4>3. speex_bits_read_from(b, p, re, ju) = q
        BY <1>2, <1>3, SameReadFrom
      <4>4. /\ \E kk \in Nat : Good(q, "reading", kk)
            /\ Bits(q) \in Plain!Cut /\ q.ptr = 0 /\ q.overflow = FALSE
        BY <1>2, <1>4, <4>2, ReadFromLoads
      <4> HIDE DEF q
      <4> QED BY <4>2, <4>3, <4>4
    <3>2. CASE p # <<>> /\ b' = speex_bits_set_bit_buffer([i \in 0..(Len(p) - 1) |-> p[i + 1]])
      BY <3>2, SetBufferLoads
    <3> QED BY <2>2, <3>1, <3>2
  <2>4. Sound'
    BY <2>1, <2>3 DEF Sound
  <2>5. Plain!Cut = Queue!Cut
    BY DEF Plain!Cut, Queue!Cut
  <2>6. Queue!Load
    BY <2>1, <2>3, <2>4, <2>5, SoundStays DEF Queue!Load, Bits
  <2> QED BY <2>4, <2>6, SoundStays DEF Queue!Next
<1> QED BY <1>6, <1>7

-----------------------------------------------------------------------------
(* The theorems. *)

\* A stream that is set up, in its own buffer or in a caller's that holds
\* anything, can be written to.
LEMMA InitInv ==
  ASSUME Init
  PROVE  Sound /\ Plain!Init
<1>1. phase = "writing" /\ out = <<>>
  BY DEF Init
<1>2. MaxChars \in Nat \ {0}
  BY BitsAssumption
<1>3. PICK fill \in {0, 1}, own \in BOOLEAN :
        b = speex_bits_reset([buf |-> Buffer(MaxChars, fill), nbBits |-> 0, ptr |-> 0,
                              owner |-> own, overflow |-> FALSE])
  <2>1. CASE b = speex_bits_init
    BY <2>1 DEF speex_bits_init
  <2>2. CASE \E fill \in {0, 1} : b = speex_bits_init_buffer(Buffer(MaxChars, fill))
    BY <2>2 DEF speex_bits_init_buffer
  <2> QED BY <2>1, <2>2 DEF Init
<1> DEFINE s == [buf |-> Buffer(MaxChars, fill), nbBits |-> 0, ptr |-> 0,
                 owner |-> own, overflow |-> FALSE]
<1>4. Stream(s, MaxChars)
  <2>1. Buffer(MaxChars, fill) \in [0..(MaxChars * C - 1) -> {0, 1}]
    BY DEF Buffer
  <2> QED BY <2>1 DEF Stream
<1>5. b = speex_bits_reset(s)
  BY <1>3
<1> HIDE DEF s
<1>6. Good(b, "writing", MaxChars) /\ Bits(b) = <<>> /\ b.ptr = 0 /\ b.overflow = FALSE
  BY <1>2, <1>4, <1>5, ResetIsWritable
<1> QED BY <1>1, <1>2, <1>6 DEF Sound, Plain!Init, Bits

\* Each step keeps IInv and is a step of BitQueue.
LEMMA StepInv ==
  ASSUME IInv, [Next]_vars
  PROVE  IInv' /\ [Queue!Next]_(Queue!vars)
<1>1. CASE Spoilt
  <2>1. phase \in {"spoilt", "overrun"}
    BY <1>1 DEF Spoilt
  <2>2. ~Pack /\ ~Write /\ ~Hang /\ ~WriteWhole
    BY <2>1 DEF Pack, Write, Hang, WriteWhole
  <2>3. CASE Reset \/ Receive
    BY <1>1, <2>3, SpoiltEnds
  <2>4. CASE Unpack \/ Rewind
    BY <1>1, <2>4, SpoiltIsRead
  <2>5. CASE ReceiveMore
    <3>1. Spoilt'
      <4>1. phase' \in {"spoilt", "overrun", phase}
        BY <2>5 DEF ReceiveMore
      <4> QED BY <2>1, <4>1 DEF Spoilt
    <3> QED BY <2>5, <3>1, ReceiveMoreSpoils
  <2>6. CASE UNCHANGED vars
    <3>1. Spoilt' /\ IInv'
      BY <1>1, <2>6 DEF vars, Spoilt, IInv, Sound
    <3> QED BY <1>1, <3>1, SpoiltStutters
  <2> QED BY <2>2, <2>3, <2>4, <2>5, <2>6 DEF Next
<1>2. CASE ~Spoilt
  <2>1. Sound
    BY <1>2, SoundIsNotSpoilt
  <2>2. CASE ReceiveMore /\ Spoilt'
    BY <2>2, ReceiveMoreSpoils
  <2>3. CASE UNCHANGED vars
    <3>1. IInv' /\ UNCHANGED Queue!vars
      BY <2>3 DEF vars, IInv, Sound, Queue!vars, Spoilt
    <3> QED BY <3>1
  <2>4. CASE Next /\ ~(ReceiveMore /\ Spoilt')
    <3>1. Sound' /\ Plain!Next
      BY <2>1, <2>4, PackPuts, WriteWrites, HangWritesNothing, WriteWholeShips, ResetEmpties,
         RewindRewinds, ReceiveLoads, ReceiveMoreExtends, UnpackGets DEF Next, Plain!Next
    <3> QED BY <1>2, <3>1, SoundStays, PlainIsQueue
  <2> QED BY <2>2, <2>3, <2>4
<1> QED BY <1>1, <1>2

\* IInv holds from the first step on.
LEMMA Inductive == Spec => []IInv
<1>1. Init => IInv
  BY InitInv DEF IInv
<1>2. IInv /\ [Next]_vars => IInv'
  BY StepInv
<1> QED BY <1>1, <1>2, PTL DEF Spec

\* Every stream is well formed: as many bits as its chars hold, and a cursor.
THEOREM TypeCorrect == Spec => []TypeOK
<1>1. IInv => TypeOK
  <2> SUFFICES ASSUME IInv PROVE TypeOK
    OBVIOUS
  <2>1. PICK k \in Nat : Shape(b, k)
    BY StreamHasShape DEF IInv, Sound, Adrift
  <2>2. Size(b) = k
    BY <2>1, SizeOfStream DEF Shape
  <2>3. phase \in Phases
    BY DEF IInv, Sound, Good, Adrift, Phases
  <2> QED BY <2>1, <2>2, <2>3 DEF TypeOK, Shape
<1> QED BY <1>1, Inductive, PTL

\* The cursor and the length never leave the buffer, but for a borrowed one in
\* which speex_bits_read_whole_bytes finds no room, and a coder always has a
\* clear bit under the cursor: speex_bits_pack tests the room of a whole field
\* once and clears one char beyond it, speex_bits_write_whole_bytes keeps a
\* last, partial char.
THEOREM RoomToWriteAlways == Spec => []RoomToWrite
<1>1. IInv => RoomToWrite
  <2> SUFFICES ASSUME IInv PROVE RoomToWrite
    OBVIOUS
  <2>1. CASE Sound
    BY <2>1, GoodHasRoom
  <2>2. CASE \E k \in Nat : Adrift(b, phase, k)
    <3>1. PICK k \in Nat : Adrift(b, phase, k)
      BY <2>2
    <3>2. Size(b) = k
      BY <3>1, SizeOfStream DEF Adrift, Shape
    <3>3. Spoilt /\ phase # "writing"
      BY <3>1 DEF Adrift, Spoilt
    <3>4. (phase = "overrun" /\ ~b.owner) \/ (b.ptr <= Size(b) * C /\ b.nbBits <= Size(b) * C)
      BY <3>1, <3>2, Zenon DEF Adrift
    <3> QED BY <3>3, <3>4, Zenon DEF RoomToWrite
  <2> QED BY <2>1, <2>2 DEF IInv
<1> QED BY <1>1, Inductive, PTL

\* SpeexBits implements the string of bits speex_bits.h promises, whatever
\* realloc() does and wherever a packet was cut; of an append to a buffer
\* without room, or to a part of a char, it promises nothing until the stream
\* is emptied or replaced.
THEOREM Refinement == Spec => IsBitQueue
<1>1. Init => Queue!Init
  <2> SUFFICES ASSUME Init PROVE Queue!Init
    OBVIOUS
  <2>1. Plain!Init /\ ~Spoilt
    BY InitInv, SoundIsNotSpoilt
  <2> QED BY <2>1 DEF Plain!Init, Queue!Init
<1>2. IInv /\ [Next]_vars => [Queue!Next]_(Queue!vars)
  BY StepInv
<1> QED BY <1>1, <1>2, Inductive, PTL DEF Spec, IsBitQueue, Queue!Spec
=============================================================================
