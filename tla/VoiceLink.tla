----------------------------- MODULE VoiceLink -----------------------------
(***************************************************************************)
(* One direction of a call coded by G.729 or BV16.  The sender's and the   *)
(* receiver's codec are opened and closed through the JNI wrappers         *)
(* (g729_jni.cpp, bv16_jni.cpp), which count their users.  Each frame is   *)
(* encoded, and its packet is decoded or lost; the network keeps order.    *)
(* The wrapped receiver skips what it misses; one that calls the libraries *)
(* itself has them conceal it.                                             *)
(***************************************************************************)
EXTENDS G729Decoder, BV16Codec, LspOrder

CONSTANTS
  Sounds,       \* for each codec its named sounds: whether the sender detects pauses,
                \* and what the analysis finds, frame by frame
  MaxMishaps,   \* and bounds of a run: on losses, mistakes and restarts,
  MaxUsers      \* and on who has a codec open

Side == {"sender", "receiver"}
Codec == {"G729", "BV16"}
ASSUME LinkAssumption ==
  /\ MaxMishaps \in Nat /\ MaxUsers \in Nat
  /\ \A s \in DOMAIN Sounds["G729"] :
       Sounds["G729"][s].VAD \in BOOLEAN /\ Sounds["G729"][s].frames \in Seq(G729Findings)
  /\ \A s \in DOMAIN Sounds["BV16"] :
       ~Sounds["BV16"][s].VAD /\ Sounds["BV16"][s].frames \in Seq(BV16Findings)

VARIABLES
  link,         \* codec, VAD, library and sound: what this call is like
  codec_open,   \* the users of the codec on each side
  enc, dec,     \* the encoder's and the decoder's state
  frames,       \* frames encoded so far
  mishaps,      \* frames lost, vectors mistaken and restarts of one side
  tie           \* for the properties: what arrived since the last mishap

vars == <<link, codec_open, enc, dec, frames, mishaps, tie>>

EncoderInit(c, vad) ==
  IF c = "G729" THEN initBcg729EncoderChannel(vad) ELSE Reset_BV16_Encoder
DecoderInit(c) == IF c = "G729" THEN initBcg729DecoderChannel ELSE Reset_BV16_Decoder

\* words and gains: how many entries of the predictors' memories are known to
\* agree; tuned: nothing was missed since a speech frame; clean: or ever;
\* heard: for each gain in the decoder's memory, whether it was received;
\* missed: the last frames that were voice to the boundary of the detector and
\* went as noise; noisy: those that were noise to it since the last voice sent.
Whole == 10
Untouched == [words |-> Whole, gains |-> Whole, tuned |-> TRUE, clean |-> TRUE,
              heard |-> [i \in 1..LGPORDER |-> TRUE], missed |-> 0, noisy |-> 0]
Broken(t) == [t EXCEPT !.words = 0, !.gains = 0, !.tuned = FALSE, !.clean = FALSE]
Grown(n, by) == Low(n + by, Whole)

\* The wrappers open G.729 without VAD and tell the decoder of no loss.
Init ==
  /\ \E c \in Codec : \E s \in DOMAIN Sounds[c], l \in BOOLEAN :
       LET vad == Sounds[c][s].VAD IN
         /\ vad => l
         /\ link = [codec |-> c, VAD |-> vad, library |-> l, sound |-> s]
         /\ enc = EncoderInit(c, vad) /\ dec = DecoderInit(c)
  /\ codec_open = [side \in Side |-> 0]
  /\ frames = 0 /\ mishaps = 0 /\ tie = Untouched
-----------------------------------------------------------------------------
\* open(): the first user's initialises the codec.  A restart after some frames
\* is a mishap.
OpenSender ==
  /\ codec_open["sender"] < MaxUsers
  /\ codec_open' = [codec_open EXCEPT !["sender"] = @ + 1]
  /\ IF codec_open["sender"] # 0 \/ frames = 0 THEN UNCHANGED <<enc, mishaps, tie>>
     ELSE /\ mishaps < MaxMishaps /\ mishaps' = mishaps + 1
          /\ enc' = EncoderInit(link.codec, link.VAD)
          /\ tie' = [Broken(tie) EXCEPT !.missed = 0, !.noisy = 0]
  /\ UNCHANGED <<link, dec, frames>>

OpenReceiver ==
  /\ codec_open["receiver"] < MaxUsers
  /\ codec_open' = [codec_open EXCEPT !["receiver"] = @ + 1]
  /\ IF codec_open["receiver"] # 0 \/ frames = 0 THEN UNCHANGED <<dec, mishaps, tie>>
     ELSE /\ mishaps < MaxMishaps /\ mishaps' = mishaps + 1
          /\ dec' = DecoderInit(link.codec)
          /\ tie' = [Broken(tie) EXCEPT !.heard = Untouched.heard]
  /\ UNCHANGED <<link, enc, frames>>

\* close(): the last user's frees the codec's state, which is not used until the
\* next open().
Close(side) ==
  /\ codec_open[side] > 0
  /\ codec_open' = [codec_open EXCEPT ![side] = @ - 1]
  /\ UNCHANGED <<link, enc, dec, frames, mishaps, tie>>
-----------------------------------------------------------------------------
Sound == Sounds[link.codec][link.sound].frames
Found == Sound[frames + 1]
\* encode() returns nothing unless the codec is open.
Sending(c) == link.codec = c /\ codec_open["sender"] > 0 /\ frames < Len(Sound)
Encodes(r) == enc' = r.e /\ frames' = frames + 1 /\ UNCHANGED <<link, codec_open>>
Missing == mishaps < MaxMishaps /\ mishaps' = mishaps + 1

\* encodeSIDFrame garbles a descriptor's vector whose index is beyond these
\* (SIDBitStream): the decoder makes another of it, and the predictors part.
Descriptive == 0..11

\* What the detector of the sender made of the frame.
Judged(t, kind) ==
  IF ~link.VAD THEN t
  ELSE LET voice == bcg729_vad(enc.VADChannel[1], Found.heard).boundary = VOICE
       IN  [t EXCEPT !.missed = IF voice /\ kind # "speech" THEN @ + 1 ELSE 0,
                     !.noisy = CASE ~voice -> Grown(@, 1)
                                 [] voice /\ kind = "speech" -> 0
                                 [] OTHER -> @]

G729Received ==
  /\ Sending("G729") /\ codec_open["receiver"] > 0
  /\ LET r == bcg729Encoder(enc, Found)  kind == r.packet.kind IN
       /\ kind # "untransmitted" /\ Encodes(r)
       /\ dec' = bcg729Decoder(dec, r.packet)
       /\ tie' = Judged(IF kind = "speech"
                        THEN [tie EXCEPT !.words = Grown(@, 1), !.gains = Grown(@, 2), !.tuned = TRUE]
                        ELSE [tie EXCEPT !.words = IF Found.sid[3] \in Descriptive
                                                   THEN Grown(@, 1) ELSE 0], kind)
  /\ UNCHANGED mishaps

G729Lost ==
  /\ Sending("G729")
  /\ LET r == bcg729Encoder(enc, Found)  kind == r.packet.kind IN
       /\ kind # "untransmitted" /\ Encodes(r) /\ Missing
       /\ dec' = IF link.library /\ codec_open["receiver"] > 0
                 THEN bcg729Decoder(dec, [kind |-> "erased"]) ELSE dec
       /\ tie' = Judged(Broken(tie), kind)

\* A frame of noise that the DTX withholds is an erasure to the decoder: noise
\* goes on, unless the decoder was not told that it began.
G729Withheld ==
  /\ Sending("G729")
  /\ LET r == bcg729Encoder(enc, Found)
         told == codec_open["receiver"] > 0 /\ dec.previousFrameIsActiveFlag = 0 IN
       /\ r.packet.kind = "untransmitted" /\ Encodes(r)
       /\ dec' = IF codec_open["receiver"] > 0 THEN bcg729Decoder(dec, r.packet) ELSE dec
       /\ IF told THEN UNCHANGED mishaps ELSE Missing
       /\ tie' = Judged(IF told THEN tie ELSE Broken(tie), r.packet.kind)

BV16Received ==
  /\ Sending("BV16") /\ codec_open["receiver"] > 0
  /\ LET r == BV16_Encode(enc, Found)
         clipped == gaindec(dec, BV16_BitUnPack(r.packet.bits).gidx).clipped IN
       \E ordered \in Orders(dec, r.packet) :
         /\ Encodes(r) /\ dec' = BV16_Decode(dec, r.packet, ordered)
         /\ IF ordered = r.packet.ordered THEN UNCHANGED mishaps ELSE Missing
         /\ tie' = [tie EXCEPT
                      !.words = IF ordered THEN Grown(@, 1) ELSE 0,
                      !.gains = IF clipped THEN 0 ELSE Grown(@, 1),
                      !.heard = Shift(~clipped, @)]

BV16Lost ==
  /\ Sending("BV16") /\ Encodes(BV16_Encode(enc, Found)) /\ Missing
  /\ IF link.library /\ codec_open["receiver"] > 0
     THEN /\ \E lg \in PlayedGains(dec) : dec' = BV16_PLC(dec, lg)
          /\ tie' = [Broken(tie) EXCEPT !.heard = Shift(FALSE, @)]
     ELSE UNCHANGED dec /\ tie' = Broken(tie)

Next ==
  \/ OpenSender \/ OpenReceiver \/ \E side \in Side : Close(side)
  \/ G729Received \/ G729Lost \/ G729Withheld
  \/ BV16Received \/ BV16Lost

Spec == Init /\ [][Next]_vars
-----------------------------------------------------------------------------
\* Every delay, pulse, gain and sign that a frame may hold is read back by the
\* decoder, whose code is written apart from the encoder's, and fits its field;
\* the parity bit shows one error in the bits it covers.
PitchReadsBack ==
  \A T1 \in UNION {SearchedFirst(open) : open \in 20..MAXIMUM_INT_PITCH_DELAY} :
    /\ \A f \in Fractions(T1, 1) :
         LET P == pitchDelayCodeword1(T1, f)
         IN  P \in 0..255 /\ Delay1(P) = [int |-> T1, frac |-> f]
    /\ \A T2 \in SearchedSecond(T1), f \in Fractions(T1, 2) :
         LET P == pitchDelayCodeword2(T2, f, T1)
         IN  P \in 0..31 /\ Delay2(P, T1) = [int |-> T2, frac |-> f]
ParityShowsAnError ==
  \A P \in 0..255, i \in 2..7 :
    LET flipped == IF (P \div 2^i) % 2 = 1 THEN P - 2^i ELSE P + 2^i
    IN  computeParity(flipped) # computeParity(P)
PulsesReadBack ==
  \A m \in Tracks[1] \X Tracks[2] \X Tracks[3] \X Tracks[4] :
    fixedCodebookParameter(m) \in 0..8191 /\ positionsArray(fixedCodebookParameter(m)) = m
GainsReadBack ==
  /\ \A i \in 0..7 : reverseIndexMappingGA[indexMappingGA[i + 1] + 1] = i
  /\ \A i \in 0..15 : reverseIndexMappingGB[indexMappingGB[i + 1] + 1] = i
SignsReadBack ==
  \A v \in 0..(LSPECBSZ2 - 1), s \in {-1, 1} :
    LspIndex(v, s) \in 0..127 /\ LspVector(LspIndex(v, s)) = [stage2 |-> v, sign |-> s]
\* Every bit of a frame, set alone or alone clear, arrives where it was.
FramesOf(widths) ==
  UNION {LET Top(j) == 2^widths[j] - 1  bits == {2^k : k \in 0..(widths[i] - 1)}
         IN  {[j \in DOMAIN widths |-> IF j = i THEN x ELSE 0] : x \in bits}
               \cup {[j \in DOMAIN widths |-> IF j = i THEN Top(j) - x ELSE Top(j)] : x \in bits} :
           i \in DOMAIN widths}
BV16Widths == <<7, 7, 7, 5, 4>> \o [i \in 1..10 |-> 5]
BV16Struct(v) ==
  [lspidx |-> <<v[1], v[2]>>, ppidx |-> v[3], bqidx |-> v[4], gidx |-> v[5], qvidx |-> SubSeq(v, 6, 15)]
FramesReadBack ==
  /\ \A p \in FramesOf(ParameterWidths) : parametersBitStream2Array(parametersArray2BitStream(p)) = p
  /\ \A v \in FramesOf(BV16Widths) : BV16_BitUnPack(BV16_BitPack(BV16Struct(v))) = BV16Struct(v)
AtRest == frames = 0 /\ codec_open = [side \in Side |-> 0]
WordsReadBack ==
  AtRest =>
    /\ PitchReadsBack /\ ParityShowsAnError /\ PulsesReadBack /\ GainsReadBack /\ SignsReadBack
    /\ FramesReadBack

\* Whatever vectors the indexes stand for, the LSPs that both decoders make of
\* them are in order, within their limits and apart (the four of a small scale
\* stand for ten): a filter with two in one place would ring.
VectorsStayApart == AtRest => LspsStayApart(0..8, 4, [min |-> 1, max |-> 8, gap |-> 2])

\* The filters of both ends, but for a first coefficient below the limit, which
\* only the decoder raises.
SameFilter(d, e) == d.sum = e.sum /\ (BelowMin(e.sum) \/ d = e)

\* A lost frame or a restart does its damage to the predictors for as long as
\* their memories last and no longer, a second user's open() and close() do none:
\* four frames for G.729, eight for BV16, whose gain takes two more.  So does a
\* descriptor that its own encoder garbles, by a remainder of 3 where two bits
\* are meant: nothing is said of the vectors until four whole ones have come.
Resynchronises ==
  IF link.codec = "G729"
  THEN /\ \A i \in 1..Low(tie.words, 4) : dec.previousLCodeWord[i] = enc.previousqLSF[i]
       /\ \A i \in 1..Low(tie.gains, 4) :
            dec.previousGainPredictionError[i] = enc.previousGainPredictionError[i]
       /\ tie.words > 4 => SameFilter(dec.previousqLSP, enc.previousqLSP)
  ELSE /\ \A i \in 1..Low(tie.words, LSPPORDER) : dec.lsppm[i] = enc.lsppm[i]
       /\ \A i \in 1..Low(tie.gains, LGPORDER) : dec.lgpm[i] = enc.lgpm[i]
       /\ \A i \in 1..(tie.gains - LGPORDER) : dec.prevlg[i] = enc.prevlg[i]

\* Once a speech frame has come, and until a packet is missed, noise is played
\* where noise was heard and by the encoder's own draws and gain, through any
\* number of frames that were withheld.
NoiseStaysInTune ==
  link.codec = "G729" /\ tie.tuned =>
    /\ dec.previousFrameIsActiveFlag = enc.DTX.previousVADflag
    /\ dec.CNGpseudoRandomSeed = enc.DTX.pseudoRandomSeed
    /\ enc.DTX.previousVADflag = 0 =>
         /\ dec.CNG.receivedSIDGain = enc.DTX.currentSIDGain
         /\ dec.CNG.smoothedSIDGain = enc.DTX.smoothedSIDGain

\* No talk is lost to the detector: of two frames in a row that are voice to its
\* boundary one goes as speech, whatever its three stages of smoothing make of
\* them, and once the means are known no frame goes as noise before six that are
\* noise to the boundary went as speech.
TalkIsSent ==
  link.VAD =>
    LET v == enc.VADChannel[1]
    IN  /\ tie.missed <= 1
        /\ v.frameCount > Ni /\ v.SVDm1 = NOISE => tie.noisy > 6

\* The decoder takes a rise beyond lgclimit for a bit error: without a loss it
\* sees none, and its level estimate is the encoder's.
CleanLinkNeverAlarms ==
  link.codec = "BV16" /\ tie.clean =>
    /\ dec.nggalgc = Nfdm + 1 /\ dec.regular
    /\ dec.lgpm = enc.lgpm /\ dec.prevlg = enc.prevlg /\ dec.est = enc.est

\* The minimum of the level estimate follows a gain down only if that gain and
\* all that it was predicted from were received and believed, for a minimum that
\* is too low would make the decoder see errors where there are none.  Otherwise
\* it draws near the mean, from below by rounding one away at most.
FollowsCleanGain ==
  (link.codec = "BV16" /\ dec'.est.lmin < Least(dec.est.lmin, dec.est.lmean) - 1) =>
    /\ \A i \in 1..LGPORDER : tie.heard[i]
    /\ tie'.heard[1]
LevelFromCleanGains == [][FollowsCleanGain]_vars

\* Encoder and decoder sharpen the pulses by the same pitch gain, the beta of
\* equations 47 and 48.
SharpenAlike ==
  link.codec = "G729" /\ tie.clean =>
    dec.boundedAdaptativeCodebookGain = enc.lastQuantizedAdaptativeCodebookGain
=============================================================================
