----------------------------- MODULE BV16Codec -----------------------------
(***************************************************************************)
(* BV16_Encode, BV16_Decode and BV16_PLC as operators on the state that    *)
(* both ends of a call keep: the memories of the two predictive            *)
(* quantisers, of the filters (lsppm) and of the gain (lgpm), and the      *)
(* level estimate.  The gain is kept in the code's own fixed point, for    *)
(* the decoder tells a bit error by it: 11 fraction bits in the predictor, *)
(* 25 in a log-gain.  Vectors of LSPs are labels.                          *)
(***************************************************************************)
EXTENDS Integers, Sequences, FiniteSetsExt, Functions

MAX_32 == 2147483647
MIN_32 == -MAX_32 - 1
LGPORDER == 8
LSPPORDER == 8
Nfdm == 100
MINPP == 10
LSPECBSZ2 == 64
HoldPLCG == 8
AttnPLCG == 50
estl_alpha == 32760
estl_alpha1 == 32640
estl_beta == 32704
estl_beta1 == 64
estl_a == 32640
estl_a1 == 128
estl_TH == 6554

Least(a, b) == IF a < b THEN a ELSE b
Clamp(x, lo, hi) == IF x < lo THEN lo ELSE IF x > hi THEN hi ELSE x
Word16(x) == Clamp(x, -32768, 32767)
extract_h(x) == x \div 65536
L_add(a, b) ==
  IF a > 0 /\ b > MAX_32 - a THEN MAX_32 ELSE IF a < 0 /\ b < MIN_32 - a THEN MIN_32 ELSE a + b
L_mac0(x, a, b) == L_add(x, a * b)
\* L_Extract and Mpy_32_16: x times n / 2^15.
Scaled(x, n) ==
  LET hi == extract_h(x)  lo == (x \div 2) - (hi * 32768)
  IN  (2 * hi * n) + (2 * ((lo * n) \div 32768))
Shift(x, mem) == <<x>> \o SubSeq(mem, 1, Len(mem) - 1)

lgmean == 23465
lgp == <<25564, 24175, 20155, 19419, 15316, 11914, 7794, 4217>>
\* The codebook of prediction errors, and its indexes in the errors' order.
lgpecb == <<-11028, -7538, -5670, -4295, -3015, -696, 1378, 3728, -1813, 343, 2464, 5377, 7793,
            11562, 17830, 24272>>
idxord == <<0, 1, 2, 3, 4, 8, 5, 9, 6, 10, 7, 11, 12, 13, 14, 15>>
\* How far the log-gain may rise, by its distance to the level (NGB bins) and
\* by its last change (NGCB bins).
NGB == 18
NGCB == 12
LGLB == -24
LGCLB == -8
lgclimit ==
  <<0, 405, 285, 7304, 7211, 0, 0, 0, 0, 0, 0, 0,
    0, 7092, 886, 7049, 7131, 0, 0, 0, 0, 0, 0, 0,
    -1004, 4563, 4012, 7219, 7055, 466, -1236, 0, 0, 0, 0, 0,
    -1004, 4439, 6928, 7217, 7143, 6643, 1099, 0, 0, 0, 0, 0,
    -754, 4758, 7130, 7112, 7106, 7136, 6250, -2555, 0, 0, 0, 0,
    2358, 6315, 7215, 7241, 7250, 6905, 6344, 1030, 0, 0, 0, 0,
    5458, 5492, 7082, 7006, 7137, 7055, 6705, 5210, -79, -1498, 0, 0,
    3376, 5220, 6832, 6591, 6844, 6842, 6722, 6486, 373, 154, 2494, 4023,
    1352, 4877, 5046, 5304, 5443, 6617, 6505, 6478, 4591, 678, 2492, 4001,
    3199, 4233, 4496, 4652, 4624, 5295, 5744, 5669, 4263, 4311, 3944, 4025,
    3169, 3440, 4088, 3774, 3842, 3942, 4655, 4473, 3539, 3936, 3698, 1797,
    2255, 2798, 3163, 3095, 3144, 3506, 3016, 2784, 2392, 2857, 3947, 3820,
    1739, 2773, 2765, 2446, 2352, 2373, 3294, 1813, 2242, 1895, 3404, 2429,
    0, 1792, 2357, 2008, 1885, 2159, 2144, 1703, 1735, 1192, 2637, 904,
    0, 564, 1559, 1633, 1332, 1245, 1490, 760, 223, 227, 770, 898,
    0, -61, -582, 725, 766, 373, 309, -181, -503, -589, -1021, 0,
    0, 0, 0, 701, 607, -189, -2057, -1133, 0, -681, -1558, 0,
    0, 0, 0, 271, 221, 0, 0, -1466, 0, 0, 0, 0>>
-----------------------------------------------------------------------------
\* Reset_BV16_Encoder and Reset_BV16_Decoder.
Zeros(n) == [i \in 1..n |-> 0]
ResetLevel ==
  [level |-> 570425344, x1 |-> 570425344, lmean |-> 419430400, lmax |-> MIN_32, lmin |-> MAX_32]
Reset_BV16_Encoder ==
  [lsppm |-> [i \in 1..LSPPORDER |-> <<"zero">>], lgpm |-> Zeros(LGPORDER), prevlg |-> Zeros(2),
   est |-> ResetLevel]
Reset_BV16_Decoder ==
  [lsppm |-> [i \in 1..LSPPORDER |-> <<"zero">>], lgpm |-> Zeros(LGPORDER), prevlg |-> Zeros(2),
   est |-> ResetLevel, lsplast |-> <<"spread">>, pp_last |-> 50,
   cfecount |-> 0, ngfae |-> LGPORDER + 1, nggalgc |-> Nfdm + 1, regular |-> TRUE]

\* estlevel: the range and mean of the log-gain and the level of its peaks.  A
\* new minimum is believed when no frame was lost and none clipped of late.
EstimateLevel(s, lg, fresh, regular) ==
  LET Near(x, alpha) == L_add(Scaled(L_add(x, -s.lmean), alpha), s.lmean)
      lmax == IF lg > s.lmax THEN lg ELSE Near(s.lmax, estl_alpha)
      lmin == IF lg < s.lmin /\ fresh THEN lg
              ELSE Near(s.lmin, IF regular THEN estl_alpha ELSE estl_alpha1)
      lmean == Scaled(L_add(lmax, lmin) \div 2, estl_beta1) + Scaled(s.lmean, estl_beta)
      loud == lg > lmean + Scaled(lmax - lmean, estl_TH)
      x1 == IF loud THEN Scaled(s.x1, estl_a) + Scaled(lg, estl_a1) ELSE s.x1
  IN  [lmax |-> lmax, lmin |-> lmin, lmean |-> lmean, x1 |-> x1,
       level |-> IF loud THEN Scaled(s.level, estl_a) + Scaled(x1, estl_a1) ELSE s.level]

\* What the moving average adds to x, the log-gain it expects, and the rise
\* that is allowed.  Each sum saturates.
MovingAverage(x, m) ==
  LET two   == L_mac0(L_mac0(x, lgp[1], m[1]), lgp[2], m[2])
      four  == L_mac0(L_mac0(two, lgp[3], m[3]), lgp[4], m[4])
      six   == L_mac0(L_mac0(four, lgp[5], m[5]), lgp[6], m[6])
  IN  L_mac0(L_mac0(six, lgp[7], m[7]), lgp[8], m[8])
Estimated(lgpm) == MovingAverage(lgmean * 32768, lgpm) \div 2
LogGain(gidx, lgpm) == L_add(lgpecb[gidx + 1] * 16384, Estimated(lgpm))
Limit(prevlg, level) ==
  LET i == Clamp(((extract_h(prevlg[1] - level) \div 512) - LGLB) \div 2, 0, NGB - 1)
      n == Clamp(((extract_h(prevlg[1] - prevlg[2]) \div 512) - LGCLB) \div 2, 0, NGCB - 1)
  IN  lgclimit[(i * NGCB) + n + 1]
-----------------------------------------------------------------------------
\* The second stage of the LSP quantiser has 64 vectors and a sign, in one
\* index: a negative vector counts from the top.
LspIndex(stage2, sign) == IF sign < 0 THEN (2 * LSPECBSZ2) - 1 - stage2 ELSE stage2
LspVector(idx) ==
  IF idx >= LSPECBSZ2 THEN [stage2 |-> (2 * LSPECBSZ2) - 1 - idx, sign |-> -1]
  ELSE [stage2 |-> idx, sign |-> 1]
Lsp(stage1, v) == <<stage1, v.stage2, v.sign>>

\* Eighty bits in five words of 16, most significant first: two LSP indexes and a
\* pitch period of 7 bits, a pitch gain of 5, a log-gain of 4 and ten excitation
\* vectors of 5.  temppack holds a word above what is left for the next; no field
\* is masked.
BV16_BitPack(f) ==
  LET q == f.qvidx
      Words ==
        <<f.lspidx[1] * 2^9 + f.lspidx[2] * 2^2 + f.ppidx \div 2^5,
          f.ppidx * 2^11 + f.bqidx * 2^6 + f.gidx * 2^2 + q[1] \div 2^3,
          q[1] * 2^13 + q[2] * 2^8 + q[3] * 2^3 + q[4] \div 2^2,
          q[4] * 2^14 + q[5] * 2^9 + q[6] * 2^4 + q[7] \div 2,
          q[7] * 2^15 + q[8] * 2^10 + q[9] * 2^5 + q[10]>>
      Byte(i) == LET w == Words[(i + 1) \div 2] IN IF i % 2 = 1 THEN (w \div 2^8) % 2^8 ELSE w % 2^8
  IN  [i \in 1..10 |-> Byte(i)]
\* The word that bitword32 holds is kept with the bits left over from the last.
BV16_BitUnPack(b) ==
  LET After(left, i) == left * 2^16 + b[i] * 2^8 + b[i + 1]
      w1 == After(0, 1)  w2 == After(w1 % 2^2, 3)  w3 == After(w2 % 2^2, 5)
      w4 == After(w3 % 2^3, 7)  w5 == After(w4 % 2^4, 9)
  IN  [lspidx |-> <<w1 \div 2^9, (w1 % 2^9) \div 2^2>>, ppidx |-> w2 \div 2^11,
       bqidx |-> (w2 % 2^11) \div 2^6, gidx |-> (w2 % 2^6) \div 2^2,
       qvidx |-> <<w3 \div 2^13, (w3 % 2^13) \div 2^8, (w3 % 2^8) \div 2^3,
                   w4 \div 2^14, (w4 % 2^14) \div 2^9, (w4 % 2^9) \div 2^4,
                   w5 \div 2^15, (w5 % 2^15) \div 2^10, (w5 % 2^10) \div 2^5, w5 % 2^5>>]

\* gainquan: the nearest codeword, or the largest below it whose gain does not
\* exceed the limit.
gainquan(e, wanted) ==
  LET limit == L_add(e.prevlg[1], Limit(e.prevlg, e.est.level) * 65536)
      Fits(k) == k = 0 \/ LogGain(idxord[k + 1], e.lgpm) <= limit
  IN  idxord[Max({k \in 0..wanted : Fits(k)}) + 1]

\* What the analysis f finds: the quantiser's two vectors, whether the sum of
\* both and of the prediction is ordered (svqwmse gives up when no vector of the
\* second stage is, and rounds apart from what it sends), the pitch period and
\* the place of the nearest gain in the order of the gains.
BV16Findings ==
  [stage1 : 0..127, stage2 : 0..(LSPECBSZ2 - 1), sign : {-1, 1}, ordered : BOOLEAN,
   pp : MINPP..137, gain : 0..15, bq : 0..31, qv : [1..10 -> 0..31]]
BV16_Encode(e, f) ==
  LET gidx == gainquan(e, f.gain)
      lg == LogGain(gidx, e.lgpm)
  IN  [e |-> [lsppm |-> Shift(<<f.stage1, f.stage2, f.sign>>, e.lsppm),
              lgpm |-> Shift(lgpecb[gidx + 1], e.lgpm), prevlg |-> <<lg, e.prevlg[1]>>,
              est |-> EstimateLevel(e.est, lg, TRUE, TRUE)],
       packet |-> [bits |-> BV16_BitPack(
                     [lspidx |-> <<f.stage1, LspIndex(f.stage2, f.sign)>>, ppidx |-> f.pp - MINPP,
                      bqidx |-> f.bq, gidx |-> gidx, qvidx |-> f.qv]),
                   ordered |-> f.ordered, from |-> e.lsppm]]
-----------------------------------------------------------------------------
\* Faulty variant: the smallest gain is limited as well.
ClipsAlways(rise, limit, gidx) == rise > limit

Clips(rise, limit, gidx) == rise > limit /\ gidx > 0
\* gaindec: a rise beyond the limit is a bit error, for the encoder makes none;
\* the last gain is used again.
gaindec(d, gidx) ==
  LET elg == Estimated(d.lgpm)
      lg == LogGain(gidx, d.lgpm)
      limit == Limit(d.prevlg, d.est.level)
  IN  IF Clips(extract_h(lg - d.prevlg[1]), limit, gidx)
      THEN [lgq |-> d.prevlg[1], error |-> Word16((d.prevlg[1] - elg) \div 16384), clipped |-> TRUE,
            lg_el |-> L_add(limit * 65536, d.prevlg[1])]
      ELSE [lgq |-> lg, error |-> lgpecb[gidx + 1], clipped |-> FALSE, lg_el |-> lg]
\* Faulty variant: one good frame is enough.
BelievedAtOnce(d) == d.ngfae = LGPORDER + 1

\* nggalgc counts frames since the last that clipped: the minimum decays fast
\* until Nfdm of them have gone by, or a new one is found.
Believed(d) == d.ngfae = LGPORDER + 1 /\ d.nggalgc > LGPORDER
Decays(d) == IF d.nggalgc = 0 THEN FALSE ELSE d.nggalgc = Nfdm + 1 \/ d.regular
Estimating(d, lg) ==
  [d EXCEPT !.est = EstimateLevel(@, lg, Believed(d), Decays(d)),
            !.regular = Decays(d) \/ (lg < d.est.lmin /\ Believed(d))]

\* lspdec: a vector out of order is a bit error too, and the last one is used.
\* When the memories differ what was in order may not be, and the reverse.
Orders(d, packet) == IF d.lsppm = packet.from THEN {packet.ordered} ELSE BOOLEAN
BV16_Decode(d, packet, ordered) ==
  LET p == BV16_BitUnPack(packet.bits)
      g == gaindec(d, p.gidx)
      vector == Lsp(p.lspidx[1], LspVector(p.lspidx[2]))
      f == [d EXCEPT
              !.ngfae = IF d.cfecount # 0 THEN 1 ELSE Least(@ + 1, LGPORDER + 1),
              !.cfecount = 0, !.pp_last = p.ppidx + MINPP,
              !.lsppm = Shift(IF ordered THEN vector ELSE <<"replaced">>, @),
              !.lsplast = IF ordered THEN <<vector, d.lsppm>> ELSE @,
              !.lgpm = Shift(g.error, @), !.prevlg = <<g.lgq, @[1]>>,
              !.nggalgc = IF g.clipped THEN 0 ELSE Least(@ + 1, Nfdm + 1)]
  IN  Estimating(f, g.lg_el)

\* The log-gain of a concealed frame is measured on what was played last: none,
\* or that of the frame before.
PlayedGains(d) == {0, d.prevlg[1]}
BV16_PLC(d, lg) ==
  LET expected == MovingAverage(0, d.lgpm) \div 2
      lge == Word16(((lg - (lgmean * 16384)) - expected + 8192) \div 16384)
  IN  Estimating([d EXCEPT !.cfecount = Least(@ + 1, HoldPLCG + AttnPLCG - 1), !.ngfae = 0,
                           !.lsppm = Shift(<<"concealed">>, @),
                           !.lgpm = Shift(lge, @), !.prevlg = <<lg, @[1]>>], lg)
=============================================================================
