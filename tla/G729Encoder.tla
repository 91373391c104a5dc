---------------------------- MODULE G729Encoder ----------------------------
(***************************************************************************)
(* bcg729Encoder (encoder.c, dtx.c) as an operator on the state of its     *)
(* channel.  What the search finds in the sound is an argument:            *)
(*   heard    what the voice activity detector hears of the frame,         *)
(*   changed  whether a noise's filter or energy moved since the last      *)
(*            silence descriptor,                                          *)
(*   L, sid   the indexes of the LSP quantisers, of speech and of noise,   *)
(*   sub      for each subframe the delay T and its fraction, the pulses   *)
(*            m and the indexes ga and gb of the gains.                    *)
(***************************************************************************)
EXTENDS G729Frame, G729Vad

O2_IN_Q14 == 3277
ONE_POINT_2_IN_Q14 == 19661
SIDGainCodebook ==
  <<2, 5, 8, 13, 20, 32, 50, 64, 80, 101, 127, 160, 201, 253, 318, 401, 505, 635, 800, 1007, 1268,
    1596, 2010, 2530, 3185, 4009, 5048, 6355, 8000, 10071, 12679, 15962>>

\* The seed of the comfort noise is how many frames were drawn from it since
\* it was CNG_DTX_RANDOM_SEED_INIT: each frame draws as often.
initBcg729DTXChannel ==
  [previousVADflag |-> 1, count_fr |-> 0, pseudoRandomSeed |-> 0, qLSP |-> NoLSF,
   currentSIDGain |-> 0, smoothedSIDGain |-> 0]
initBcg729EncoderChannel(enableVAD) ==
  [VADChannel |-> IF enableVAD THEN <<initBcg729VADChannel>> ELSE <<>>, DTX |-> initBcg729DTXChannel,
   previousqLSF |-> Init4, previousqLSP |-> NoLSF,
   previousGainPredictionError |-> Init4, lastQuantizedAdaptativeCodebookGain |-> O2_IN_Q14]

\* The ranges of what the searches find.
Subframes ==
  [T : 20..MAXIMUM_INT_PITCH_DELAY, frac : -1..1,
   m : Tracks[1] \X Tracks[2] \X Tracks[3] \X Tracks[4], signs : 0..15, ga : 0..7, gb : 0..15]
G729Findings ==
  [heard : [Ef : Int, El : Int, ZC : Int, lsf : Int, tonal : BOOLEAN], changed : BOOLEAN,
   L : (0..1) \X (0..127) \X (0..31) \X (0..31), sid : (0..1) \X (0..31) \X (0..15) \X (0..31),
   sub : Subframes \X Subframes]

\* A gain's prediction error is a function of the gain's indexes.
gainQuantization(mem, s) == Shifted(<<s.ga, s.gb>>, mem)
SharpeningOf(s) == High(O2_IN_Q14, Low(ONE_POINT_2_IN_Q14, PitchGain(s.ga, s.gb)))

\* Eight parameters of the first subframe and seven of the second.
Parameters(a) ==
  LET s1 == a.sub[1]  s2 == a.sub[2]
      P1 == pitchDelayCodeword1(s1.T, s1.frac)
  IN  <<a.L[1], a.L[2], a.L[3], a.L[4], P1, computeParity(P1), fixedCodebookParameter(s1.m),
        s1.signs, indexMappingGA[s1.ga + 1], indexMappingGB[s1.gb + 1],
        pitchDelayCodeword2(s2.T, s2.frac, s1.T), fixedCodebookParameter(s2.m), s2.signs,
        indexMappingGA[s2.ga + 1], indexMappingGB[s2.gb + 1]>>

SpeechFrame(e, a) ==
  [e |-> [e EXCEPT
            !.DTX.pseudoRandomSeed = 0, !.DTX.previousVADflag = 1,
            !.previousqLSP = LSPQuantization("speech", a.L[1], CodeWord(a.L), e.previousqLSF),
            !.previousqLSF = Shifted(CodeWord(a.L), @),
            !.previousGainPredictionError = gainQuantization(gainQuantization(@, a.sub[1]), a.sub[2]),
            !.lastQuantizedAdaptativeCodebookGain = SharpeningOf(a.sub[2])],
   packet |-> [kind |-> "speech", bits |-> parametersArray2BitStream(Parameters(a))]]
-----------------------------------------------------------------------------
\* dtx.c: the first noise frame after speech is sent, and then one in which the
\* noise has changed, three frames after the last at the earliest.
FrameCount(x) == IF x.count_fr + 1 < 3 THEN x.count_fr + 1 ELSE 3
IsSID(x, a) == x.previousVADflag = 1 \/ (FrameCount(x) = 3 /\ a.changed)

Smoothed(gain, current) == (gain - (gain \div 8)) + (current \div 8)

noiseLSPQuantization(e, a) ==
  [e EXCEPT !.DTX.qLSP = LSPQuantization("noise", a.sid[1], NoiseWord(a.sid), e.previousqLSF),
            !.DTX.currentSIDGain = SIDGainCodebook[a.sid[4] + 1], !.DTX.count_fr = 0,
            !.previousqLSF = Shifted(NoiseWord(a.sid), @)]
NoiseFrame(e, a) ==
  LET sent == IsSID(e.DTX, a)
      f == IF sent THEN noiseLSPQuantization(e, a) ELSE [e EXCEPT !.DTX.count_fr = FrameCount(e.DTX)]
  IN  [e |-> [f EXCEPT
                !.DTX.smoothedSIDGain = IF e.DTX.previousVADflag = 1 THEN f.DTX.currentSIDGain
                                        ELSE Smoothed(@, f.DTX.currentSIDGain),
                !.DTX.pseudoRandomSeed = @ + 1, !.DTX.previousVADflag = 0,
                !.previousqLSP = f.DTX.qLSP],
       packet |-> IF sent THEN [kind |-> "SID", bits |-> SIDBitStream(a.sid)] ELSE [kind |-> "untransmitted"]]

\* Without VAD there is no context of a detector, and every frame is speech.
bcg729Encoder(e, a) ==
  IF e.VADChannel = <<>> THEN SpeechFrame(e, a)
  ELSE LET d == bcg729_vad(e.VADChannel[1], a.heard)
           f == [e EXCEPT !.VADChannel = <<d.v>>]
       IN  IF d.Ivd = NOISE THEN NoiseFrame(f, a) ELSE SpeechFrame(f, a)
=============================================================================
