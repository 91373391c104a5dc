------------------------------- MODULE LspOrder -------------------------------
(***************************************************************************)
(* What keeps a filter that was decoded stable: its LSPs are put in order  *)
(* and apart from each other, by BV16's stblz_lsp (stblzlsp.c) and by      *)
(* G.729 (utils.c, decodeLSP.c, LSPQuantization.c).  The limits are        *)
(* arguments: L.min and L.max for the ends, L.gap for the distance.        *)
(***************************************************************************)
EXTENDS Integers, Sequences, SequencesExt

Clamped(x, lo, hi) == IF x < lo THEN lo ELSE IF x > hi THEN hi ELSE x

\* Both sort, BV16 by swapping neighbours.  The place of x is after the last
\* that is not greater.
Place(s, x) ==
  CHOOSE j \in 0..Len(s) : (j > 0 => s[j] <= x) /\ \A i \in (j + 1)..Len(s) : s[i] > x
Inserted(s, x) ==
  LET j == Place(s, x) IN
    [i \in 1..(Len(s) + 1) |-> IF i <= j THEN s[i] ELSE IF i = j + 1 THEN x ELSE s[i - 1]]
insertionSort(v) ==
  LET sorted[i \in 0..Len(v)] == IF i = 0 THEN <<>> ELSE Inserted(sorted[i - 1], v[i])
  IN  sorted[Len(v)]

\* Faulty variant: every coefficient has the upper bound of the first.
stblz_lsp_low(lsp, L) ==
  LET n == Len(lsp)
      s == insertionSort(lsp)
      fit[i \in 1..n] ==
        Clamped(s[i], IF i = 1 THEN L.min ELSE fit[i - 1] + L.gap, L.max - ((n - 1) * L.gap))
  IN  fit

\* stblz_lsp: each fits above the one before and leaves room for the rest.
stblz_lsp(lsp, L) ==
  LET n == Len(lsp)
      s == insertionSort(lsp)
      maxtmp(i) == L.max - ((n - i) * L.gap)
      fit[i \in 1..n] ==
        Clamped(s[i], IF i = 1 THEN L.min ELSE fit[i - 1] + L.gap, maxtmp(i))
  IN  fit

stblchck(x) == x[1] >= 0 /\ \A k \in 2..Len(x) : x[k] >= x[k - 1]

\* G.729 moves two that are too close apart by the half of what is missing each,
\* the upper one before it is compared with the next,
delta(a, b, J) == LET d == (a - b + J) \div 2 IN IF d > 0 THEN d ELSE 0
rearrangeCoefficients(v, J) ==
  LET n == Len(v)
      up[i \in 1..n] == IF i = 1 THEN v[1] ELSE v[i] + delta(up[i - 1], v[i], J)
  IN  [i \in 1..n |-> IF i = n THEN up[i] ELSE up[i] - delta(up[i], v[i + 1], J)]
\* and once predicted pushes them up and cuts the last off at the upper limit.
\* The decoder's lower limit is for the first; the encoder's is for the second.
SpacedFrom(v, L) ==
  LET n == Len(v)
      push[i \in 1..n] == IF i = 1 THEN v[1]
                          ELSE IF v[i] - push[i - 1] < L.gap THEN push[i - 1] + L.gap ELSE v[i]
  IN  [push EXCEPT ![n] = IF @ > L.max THEN L.max ELSE @]
DecodedqLSF(v, L) ==
  LET s == insertionSort(v) IN SpacedFrom([s EXCEPT ![1] = IF @ < L.min THEN L.min ELSE @], L)
EncodedqLSF(v, L) ==
  LET s == insertionSort(v) IN SpacedFrom([s EXCEPT ![2] = IF @ < L.min THEN L.min ELSE @], L)
-----------------------------------------------------------------------------
\* Whatever the indexes stand for: BV16's LSPs keep their distance and their
\* limits, and those that did are left alone; G.729's do but for the last, which
\* is cut off where they crowd at the top, and both its ends have the same
\* vector unless its first coefficient is below the limit; and moving two apart
\* keeps their sum.
Total(v) ==
  LET sum[i \in 0..Len(v)] == IF i = 0 THEN 0 ELSE sum[i - 1] + v[i] IN sum[Len(v)]
Apart(v, n, gap) == \A i \in 2..n : v[i] - v[i - 1] >= gap
LspsStayApart(Values, n, L) ==
  \A v \in [1..n -> Values] :
    LET b == stblz_lsp(v, L)  d == DecodedqLSF(v, L)  r == rearrangeCoefficients(insertionSort(v), L.gap)
    IN  /\ Apart(b, n, L.gap) /\ L.min <= b[1] /\ b[n] <= L.max /\ stblchck(b)
        /\ Apart(v, n, L.gap) /\ L.min <= v[1] /\ v[n] <= L.max => b = v
        /\ Apart(d, n - 1, L.gap) /\ L.min <= d[1] /\ d[n] <= L.max
        /\ d[n - 1] + L.gap <= L.max => Apart(d, n, L.gap)
        /\ insertionSort(v)[1] >= L.min => EncodedqLSF(v, L) = d
        /\ Total(r) = Total(v)
=============================================================================
