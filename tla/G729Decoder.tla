---------------------------- MODULE G729Decoder ----------------------------
(***************************************************************************)
(* bcg729Decoder (decoder.c, cng.c, decodeLSP.c, decodeGains.c) as an      *)
(* operator on the state of its channel: a packet that arrived, or an      *)
(* erasure, when the caller has no bits for a frame.                       *)
(***************************************************************************)
EXTENDS G729Encoder

BOUNDED_PITCH_GAIN_MAX == 13107

initBcg729DecoderChannel ==
  [previousLCodeWord |-> Init4, lastqLSF |-> NoLSF, previousqLSP |-> NoLSF,
   previousGainPredictionError |-> Init4,
   adaptativeCodebookGain |-> 0, boundedAdaptativeCodebookGain |-> BOUNDED_PITCH_GAIN_MIN,
   previousIntPitchDelay |-> 60, previousFrameIsActiveFlag |-> 1, CNGpseudoRandomSeed |-> 0,
   CNG |-> [qLSP |-> NoLSF, receivedSIDGain |-> 0, smoothedSIDGain |-> 0]]

Bounded(gain) == High(BOUNDED_PITCH_GAIN_MIN, Low(BOUNDED_PITCH_GAIN_MAX, gain))
\* The delay that stands for one that was lost grows with every subframe.
Longer(T) == Low(T + 1, MAXIMUM_INT_PITCH_DELAY)
-----------------------------------------------------------------------------
\* Faulty variant: the word of a SID frame is not shifted into the predictor.
SIDParametersUnshifted(d, p) ==
  [d EXCEPT !.CNG.receivedSIDGain = SIDGainCodebook[p[4] + 1],
            !.CNG.qLSP = computeqLSF("noise", p[1], NoiseWord(p), d.previousLCodeWord)]

\* decodeSIDframe: a descriptor, or nothing, in which case the noise goes on.
SIDParameters(d, p) ==
  [d EXCEPT !.CNG.receivedSIDGain = SIDGainCodebook[p[4] + 1],
            !.CNG.qLSP = computeqLSF("noise", p[1], NoiseWord(p), d.previousLCodeWord),
            !.previousLCodeWord = Shifted(NoiseWord(p), @)]
ComfortNoise(d, was) ==
  [d EXCEPT !.previousqLSP = d.CNG.qLSP,
            !.CNG.smoothedSIDGain = IF was = 1 THEN d.CNG.receivedSIDGain
                                    ELSE Smoothed(@, d.CNG.receivedSIDGain),
            !.CNGpseudoRandomSeed = @ + 1,
            !.previousFrameIsActiveFlag = 0,
            !.boundedAdaptativeCodebookGain = BOUNDED_PITCH_GAIN_MIN]

\* decodeLSP, decodeAdaptativeCodeVector and decodeGains of a frame that came.
DelaysOf(d, p) ==
  LET t1 == IF computeParity(p[5]) = p[6] THEN Delay1(p[5])
            ELSE [int |-> d.previousIntPitchDelay, frac |-> 0]
  IN  <<t1, Delay2(p[11], t1.int)>>
GainIndexes(p, i) == <<reverseIndexMappingGA[p[i] + 1], reverseIndexMappingGB[p[i + 1] + 1]>>
\* Faulty variant: the seed of the comfort noise goes on through speech.
ActiveFrameUnseeded(d) == [d EXCEPT !.previousFrameIsActiveFlag = 1]

ActiveFrame(d) == [d EXCEPT !.previousFrameIsActiveFlag = 1, !.CNGpseudoRandomSeed = 0]
Speech(d, p) ==
  LET g1 == GainIndexes(p, 9)  g2 == GainIndexes(p, 14)
      lsf == computeqLSF("speech", p[1], CodeWord(p), d.previousLCodeWord)
  IN  [ActiveFrame(d) EXCEPT !.previousLCodeWord = Shifted(CodeWord(p), @),
                !.lastqLSF = lsf, !.previousqLSP = lsf,
                !.previousIntPitchDelay = DelaysOf(d, p)[2].int,
                !.previousGainPredictionError = Shifted(g2, Shifted(g1, @)),
                !.adaptativeCodebookGain = PitchGain(g2[1], g2[2]),
                !.boundedAdaptativeCodebookGain = Bounded(PitchGain(g2[1], g2[2]))]

\* An erased speech frame: the last filters, a fading pitch gain, and words
\* and errors made up for the predictors.
Attenuated(gain) == IF gain < 16384 THEN (gain * 29491) \div 2^15 ELSE 14746
Concealed(d) ==
  LET gain == Attenuated(Attenuated(d.adaptativeCodebookGain))
  IN  [ActiveFrame(d) EXCEPT !.previousLCodeWord = Shifted(MadeUp, @),
                !.previousqLSP = d.lastqLSF,
                !.previousIntPitchDelay = Longer(Longer(@)),
                !.previousGainPredictionError = Shifted(MadeUp, Shifted(MadeUp, @)),
                !.adaptativeCodebookGain = gain, !.boundedAdaptativeCodebookGain = Bounded(gain)]

\* What was erased is taken to be what came before: speech, or noise.
bcg729Decoder(d, packet) ==
  CASE packet.kind = "speech" -> Speech(d, parametersBitStream2Array(packet.bits))
    [] packet.kind = "SID" ->
           ComfortNoise(SIDParameters(d, SIDBitStream2Array(packet.bits)), d.previousFrameIsActiveFlag)
    [] OTHER -> IF d.previousFrameIsActiveFlag = 1 THEN Concealed(d)
                ELSE ComfortNoise(d, d.previousFrameIsActiveFlag)
=============================================================================
