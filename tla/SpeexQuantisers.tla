--------------------------- MODULE SpeexQuantisers ---------------------------
(***************************************************************************)
(* The quantisers of a Speex frame in the 16-bit build: the stages of the  *)
(* LSP quantiser (quant_lsp.c), the interpolation of LSPs (lsp.c) and the  *)
(* searches of a codebook (vq.c).  Which vector a stage of the LSPs takes  *)
(* is an argument; what both ends make of it is computed here.             *)
(***************************************************************************)
EXTENDS Integers, Sequences, SequencesExt, FiniteSetsExt

Wrap16(x) == ((x + 32768) % 65536) - 32768
SHL16(x, n) == Wrap16(x * 2^n)
PSHR16(x, n) == (x + 2^(n - 1)) \div 2^n
MULT16_16_P14(x, y) == ((x * y) + 8192) \div 16384
LSP_PI == 25736
LSP_LINEAR(i) == SHL16(i + 1, 11)

\* lsp_quant and lsp_weight_quant take the vector that was found from what is
\* left of a coefficient; it is doubled before the next stage.
Stage(x, c) == Wrap16(x - SHL16(c, 5))
Doubled(x) == Wrap16(x * 2)
\* Coefficient i by the codewords c: three stages of lsp_quant_nb, two of lsp_quant_lbr.
lsp_quant_nb(lsp, i, c) ==
  LET x == Stage(Doubled(Stage(Doubled(Stage(Wrap16(lsp - LSP_LINEAR(i)), c[1])), c[2])), c[3])
  IN  Wrap16(lsp - PSHR16(x, 2))
lsp_quant_lbr(lsp, i, c) ==
  LET x == Stage(Doubled(Stage(Wrap16(lsp - LSP_LINEAR(i)), c[1])), c[2])
  IN  Wrap16(lsp - PSHR16(x, 1))
\* Faulty variant: the second stage is added at the scale of the first.
lsp_unquant_nb_scale(i, c) ==
  Wrap16(LSP_LINEAR(i) + SHL16(c[1], 5) + SHL16(c[2], 5) + SHL16(c[3], 3))

\* The decoder adds up the codewords at 1/256, 1/512 and 1/1024.
lsp_unquant_nb(i, c) ==
  Wrap16(LSP_LINEAR(i) + SHL16(c[1], 5) + SHL16(c[2], 4) + SHL16(c[3], 3))
lsp_unquant_lbr(i, c) == Wrap16(LSP_LINEAR(i) + SHL16(c[1], 5) + SHL16(c[2], 4))

lsp_interpolate(old, new, subframe, nb_subframes) ==
  LET tmp == ((1 + subframe) * 16384) \div nb_subframes
  IN  [i \in DOMAIN new |-> MULT16_16_P14(16384 - tmp, old[i]) + MULT16_16_P14(tmp, new[i])]

\* lsp_enforce_margin: the first and the last first, then upwards: a coefficient
\* too close to the next goes half of the way down to it.
lsp_enforce_margin(lsp, m) ==
  LET n == Len(lsp)
      Ends == [lsp EXCEPT ![1] = IF @ < m THEN m ELSE @,
                          ![n] = IF @ > LSP_PI - m THEN LSP_PI - m ELSE @]
      Placed(s, i) ==
        LET up == IF s[i] < s[i - 1] + m THEN s[i - 1] + m ELSE s[i]
        IN  [s EXCEPT ![i] = IF up > s[i + 1] - m THEN (up \div 2) + ((s[i + 1] - m) \div 2) ELSE up]
  IN  FoldLeft(Placed, Ends, [k \in 1..(n - 2) |-> k + 1])
-----------------------------------------------------------------------------
\* scal_quant and scal_quant32: the first interval whose bound is not exceeded.
scal_quant(in, boundary, entries) ==
  Min({i \in 0..(entries - 1) : i = entries - 1 \/ in <= boundary[i + 1]})

\* vq_nbest keeps the N best in order.  A better one is put behind those that
\* are no worse, looking from the last; what falls off the end is forgotten.
Entered(best, N, e) ==
  LET used == Len(best)
      k == Max({0} \cup {j \in 1..used : j < N /\ best[j].dist <= e.dist})
  IN  IF used < N \/ e.dist < best[N].dist
      THEN SubSeq(best, 1, k) \o <<e>> \o SubSeq(best, k + 1, IF used < N THEN used ELSE N - 1)
      ELSE best
\* A vector's distance is half its energy less its product with the input.
vq_nbest(products, E, N) ==
  FoldLeft(LAMBDA best, i : Entered(best, N, [dist |-> (E[i] \div 2) - products[i], id |-> i - 1]),
           <<>>, [i \in DOMAIN E |-> i])
\* With a sign the larger of product and its negation counts, and the index of a
\* negative vector is beyond the others.
vq_nbest_sign(products, E, N) ==
  LET entries == Len(E)
      Entry(i) == IF products[i] > 0 THEN [dist |-> (E[i] \div 2) - products[i], id |-> i - 1]
                  ELSE [dist |-> (E[i] \div 2) + products[i], id |-> i - 1 + entries]
  IN  FoldLeft(LAMBDA best, i : Entered(best, N, Entry(i)), <<>>, [i \in DOMAIN E |-> i])
-----------------------------------------------------------------------------
\* What the encoder takes for the quantised coefficient is what the decoder adds
\* up, for every choice of codewords, unless a stage overflows 16 bits.
Coefficients == {0, 321, 2049, 9999, 25735}
Codewords == {-128, -37, 0, 64, 127}
Fits(x) == Wrap16(x) = x
LspsReadBack ==
  \A lsp \in Coefficients, i \in {0, 4, 9} :
    \A c \in [1..3 -> Codewords] :
      LET left == lsp - LSP_LINEAR(i) - (32 * c[1])
          left2 == (2 * left) - (32 * c[2])
      IN  /\ Fits(left) /\ Fits(2 * left) /\ Fits(left2) =>
               lsp_quant_lbr(lsp, i, c) = lsp_unquant_lbr(i, c)
          /\ Fits(left) /\ Fits(2 * left) /\ Fits(left2) /\ Fits(2 * left2)
               /\ Fits((2 * left2) - (32 * c[3])) =>
               lsp_quant_nb(lsp, i, c) = lsp_unquant_nb(i, c)

\* The last subframe of a frame has the frame's own filter, and a filter whose
\* LSPs keep their margins is left as it is.
OwnFilterLast ==
  \A a, b, c \in Coefficients :
    /\ lsp_interpolate(<<c, b>>, <<a, b>>, 3, 4) = <<a, b>>
    /\ 164 <= a /\ a + 164 <= b /\ b + 164 <= c /\ c + 164 <= LSP_PI =>
         lsp_enforce_margin(<<a, b, c>>, 164) = <<a, b, c>>

\* Of a codebook the N nearest vectors are kept, nearest first, the earlier of
\* two that are as near.
Before(x, y) == x.dist < y.dist \/ (x.dist = y.dist /\ x.id < y.id)
TheBest(S, N) ==
  LET sorted == SetToSortSeq(S, Before) IN SubSeq(sorted, 1, IF Len(sorted) < N THEN Len(sorted) ELSE N)
NearestAreKept ==
  \A products \in [1..4 -> -1..2], N \in 1..3 :
    LET E == <<6, 2, 4, 2>>
        signed == vq_nbest_sign(products, E, N)
    IN  /\ vq_nbest(products, E, N) =
             TheBest({[dist |-> (E[i] \div 2) - products[i], id |-> i - 1] : i \in 1..4}, N)
        /\ \A k \in DOMAIN signed :
             LET i == (signed[k].id % 4) + 1  sign == IF signed[k].id < 4 THEN 1 ELSE -1
             IN  signed[k].dist = (E[i] \div 2) - (sign * products[i])
        /\ [k \in DOMAIN signed |-> [dist |-> signed[k].dist, id |-> signed[k].id % 4]] =
             TheBest({[dist |-> (E[i] \div 2) - (IF products[i] > 0 THEN products[i] ELSE -products[i]),
                       id |-> i - 1] : i \in 1..4}, N)
\* A gain goes to the interval between its bounds.
GainsFit ==
  \A in \in -2..4 :
    LET bound == <<-1, 0, 3>>  i == scal_quant(in, bound, 4)
    IN  (i = 0 \/ bound[i] < in) /\ (i = 3 \/ in <= bound[i + 1])
=============================================================================
