------------------------------- MODULE G729Vad -------------------------------
(***************************************************************************)
(* The voice activity detector of G.729 Annex B and Appendix II (vad.c) as *)
(* an operator on its context.  What a frame sounds like is an argument:   *)
(*   Ef, El  a tenth of its energy, in the full and the low band, in Q11,  *)
(*   ZC      its rate of zero crossings in Q15,                            *)
(*   lsf     a coefficient in Q13 that stands for all ten,                 *)
(*   tonal   whether its second reflection coefficient is 0.75 or more.    *)
(* The code's Ni is 32 and its N0 is 128.                                  *)
(***************************************************************************)
EXTENDS Integers, Sequences, FiniteSetsExt

CONSTANTS Ni, N0
ASSUME VadAssumption == Ni \in Nat \ {0} /\ N0 \in Nat \ {0}

VOICE == 1
NOISE == 0
\* In Q11, of tenths: 15 dB, 3 dB, 2 dB, 10 dB, 12 dB.
Audible == 3072
Near3dB == 614
Above2dB == 410
Down10dB == 2048
Down12dB == 2458
MAXINT16 == 32767
NB_LSP_COEFF == 10

\* MULT16_32_Qn, and MULT16_16_Q15.
MULT16_32_Q(n, a, b) == (a * (b \div 2^n)) + ((a * (b % 2^n)) \div 2^n)
MULT16_16_Q15(a, b) == (a * b) \div 2^15
MAC16_16_Q13(a) == (a * a) \div 2^13

initBcg729VADChannel ==
  [frameCount |-> 0, updateCount |-> 0, EfBuffer |-> [i \in 0..(N0 - 1) |-> MAXINT16],
   SVDm1 |-> VOICE, SVDm2 |-> VOICE, Count_inert |-> 0,
   secondStageVADSmoothingFlag |-> 1, smoothingCounter |-> 0,
   previousFrameEf |-> 0, noiseContinuityCounter |-> 0,
   nbValidInitFrame |-> 0, initEfSum |-> 0, initZCSum |-> 0, initLSFSum |-> 0,
   meanEf |-> 0, meanEl |-> 0, meanZC |-> 0, meanLSF |-> 0]

\* The conditions of B3.5, any of which makes a frame voice.  The last three
\* compare deltaEl with itself.
multiBoundaryInitialVoiceActivityDecision(deltaS, deltaEf, deltaEl, deltaZC) ==
  LET S == 830 * deltaS  Ef == 10 * deltaEf  El == 10 * deltaEl
  IN  IF \/ S > MULT16_32_Q(12, deltaZC, 58720) + 228170
         \/ S > MULT16_32_Q(12, deltaZC, -152520) + 311141
         \/ S > 241592
         \/ Ef < MULT16_32_Q(15, deltaZC, -51200) - 10240
         \/ Ef < MULT16_32_Q(15, deltaZC, 40960) - 12288
         \/ Ef < MULT16_32_Q(15, deltaZC, 51200) - 14336
         \/ Ef < MULT16_32_Q(15, deltaZC, -59578) - 9868
         \/ Ef < -9626
         \/ Ef < MULT16_32_Q(12, 275, S) - 24986
         \/ El < MULT16_32_Q(13, 875, S) - 31744
         \/ El > MULT16_32_Q(15, 30427, El) + 2341
         \/ El < MULT16_32_Q(14, -24576, El) - 18432
         \/ El < MULT16_32_Q(15, 23406, El) - 4389
      THEN VOICE ELSE NOISE
-----------------------------------------------------------------------------
\* The first Ni frames: the audible ones make the first means.
Initialising(v, f) ==
  LET loud == f.Ef >= Audible
      w == [v EXCEPT !.frameCount = @ + 1, !.previousFrameEf = f.Ef, !.SVDm2 = v.SVDm1,
                     !.SVDm1 = IF loud THEN VOICE ELSE NOISE]
  IN  IF loud
      THEN [w EXCEPT !.nbValidInitFrame = @ + 1, !.initEfSum = @ + f.Ef,
                     !.initZCSum = @ + f.ZC, !.initLSFSum = @ + f.lsf]
      ELSE w
\* At the end of the period, which starts again when no frame was audible.
FirstMeans(v) ==
  LET n == v.nbValidInitFrame
  IN  IF v.frameCount # Ni THEN v
      ELSE IF n = 0 THEN [v EXCEPT !.frameCount = 0]
      ELSE [v EXCEPT !.meanEf = (v.initEfSum \div n) - Down10dB,
                     !.meanEl = (v.initEfSum \div n) - Down12dB,
                     !.meanZC = v.initZCSum \div n, !.meanLSF = v.initLSFSum \div n]

deltaS(v, f) == NB_LSP_COEFF * MAC16_16_Q13(f.lsf - v.meanLSF)
Boundary(v, f) ==
  IF f.Ef < Audible THEN NOISE
  ELSE multiBoundaryInitialVoiceActivityDecision(
         deltaS(v, f), v.meanEf - f.Ef, v.meanEl - f.El, v.meanZC - f.ZC)
-----------------------------------------------------------------------------
\* B3.6: what a smoothing stage makes of the decision so far and the context.
\* Appendix II: six frames of noise are taken for voice after any voice.
Hysteresis(s) ==
  CASE s.Ivd = VOICE -> [s EXCEPT !.v.Count_inert = 0]
    [] s.Ivd = NOISE /\ s.v.Count_inert < 6 -> [Ivd |-> VOICE, v |-> [s.v EXCEPT !.Count_inert = @ + 1]]
    [] OTHER -> s
\* A frame that follows voice and is below the mean is voice,
FirstStage(s, f) ==
  IF s.v.SVDm1 = VOICE /\ s.v.meanEf - f.Ef > Above2dB /\ f.Ef > Audible
  THEN [s EXCEPT !.Ivd = VOICE] ELSE s
\* and up to five whose energy is that of the frame before.
SecondStage(s, f) ==
  LET n == s.v.smoothingCounter + 1
      change == f.Ef - s.v.previousFrameEf
  IN  IF /\ s.v.secondStageVADSmoothingFlag = 1 /\ s.Ivd = NOISE
         /\ s.v.SVDm1 = VOICE /\ s.v.SVDm2 = VOICE
         /\ -Near3dB <= change /\ change <= Near3dB
      THEN [Ivd |-> VOICE,
            v |-> [s.v EXCEPT !.smoothingCounter = IF n <= 4 THEN n ELSE 0,
                              !.secondStageVADSmoothingFlag = IF n <= 4 THEN 1 ELSE 0]]
      ELSE [s EXCEPT !.v.secondStageVADSmoothingFlag = 1]
\* Faulty variant: the noise counter is not started again.
ThirdStageCounts(s, f) ==
  LET Cs == s.v.noiseContinuityCounter
  IN  CASE s.Ivd = NOISE -> [s EXCEPT !.v.noiseContinuityCounter = Cs + 1]
        [] s.Ivd = VOICE /\ Cs > 10 /\ f.Ef - s.v.previousFrameEf <= Near3dB ->
             [Ivd |-> NOISE, v |-> [s.v EXCEPT !.Count_inert = 6]]
        [] OTHER -> [s EXCEPT !.v.noiseContinuityCounter = 0]

\* After more than ten frames of noise one that is voice but no louder is noise.
ThirdStage(s, f) ==
  LET Cs == s.v.noiseContinuityCounter
  IN  CASE s.Ivd = NOISE -> [s EXCEPT !.v.noiseContinuityCounter = Cs + 1]
        [] s.Ivd = VOICE /\ Cs > 10 /\ f.Ef - s.v.previousFrameEf <= Near3dB ->
             [Ivd |-> NOISE, v |-> [s.v EXCEPT !.noiseContinuityCounter = 0, !.Count_inert = 6]]
        [] OTHER -> [s EXCEPT !.v.noiseContinuityCounter = 0]
-----------------------------------------------------------------------------
\* B3.7: the weights of the means and of a frame: energies, crossings, LSFs.
Betas(updateCount) ==
  CASE updateCount < 20 -> <<24576, 8192, 26214, 6554, 19661, 13107>>
    [] updateCount \in 20..29 -> <<31130, 1638, 30147, 2621, 21299, 11469>>
    [] updateCount \in 30..39 -> <<31785, 983, 30802, 1966, 22938, 9830>>
    [] updateCount \in 40..49 -> <<32440, 328, 31457, 1311, 24756, 8192>>
    [] updateCount \in 50..59 -> <<32604, 164, 32440, 328, 24576, 8192>>
    [] OTHER -> <<32702, 66, 32604, 164, 24576, 8192>>
Averaged(v, f) ==
  LET b == Betas(v.updateCount + 1)
      Mean(old, new, i) == MULT16_16_Q15(old, b[i]) + MULT16_16_Q15(new, b[i + 1])
  IN  IF f.Ef - Near3dB < v.meanEf /\ ~f.tonal
      THEN [v EXCEPT !.updateCount = @ + 1, !.meanEf = Mean(@, f.Ef, 1), !.meanEl = Mean(@, f.El, 1),
                     !.meanZC = Mean(@, f.ZC, 3), !.meanLSF = Mean(@, f.lsf, 5)]
      ELSE v
\* A mean that left the minimum of the last N0 frames starts from it anew.
Restarted(v, S) ==
  LET Emin == Min({v.EfBuffer[i] : i \in 0..(N0 - 1)} \cup {MAXINT16})
  IN  IF v.frameCount > N0 /\ ((v.meanEf < Emin /\ S < 819) \/ v.meanEf > Emin + Down10dB)
      THEN [v EXCEPT !.meanEf = Emin, !.updateCount = 0] ELSE v

\* Ivd is the decision, boundary what it was before it was smoothed.
bcg729_vad(context, f) ==
  LET v == FirstMeans([context EXCEPT !.EfBuffer[context.frameCount % N0] = f.Ef])
      Ivd == Boundary(v, f)
      s == ThirdStage(SecondStage(FirstStage(Hysteresis([Ivd |-> Ivd, v |-> v]), f), f), f)
      w == Restarted(Averaged(s.v, f), deltaS(v, f))
  IN  IF v.frameCount < Ni
      THEN LET i == Initialising(v, f) IN [v |-> i, Ivd |-> i.SVDm1, boundary |-> i.SVDm1]
      ELSE [v |-> [w EXCEPT !.frameCount = @ + 1, !.previousFrameEf = f.Ef,
                            !.SVDm2 = w.SVDm1, !.SVDm1 = s.Ivd],
            Ivd |-> s.Ivd, boundary |-> Ivd]
=============================================================================
