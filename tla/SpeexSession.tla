---------------------------- MODULE SpeexSession ----------------------------
(***************************************************************************)
(* One direction of a Speex call: an encoder packs frames, wideband layers *)
(* and in-band requests into a packet, the packet arrives or is lost, and  *)
(* the decoder is called until the packet ends, or with no bits at all for *)
(* every frame that did not come.  Encoder and decoder share nothing but   *)
(* the packets, so the next packet is begun when the last one is done.     *)
(***************************************************************************)
EXTENDS SpeexEncoder, SpeexDecoder, SpeexQuantisers

CONSTANTS
  VbrModes,      \* the submodes vbr_analysis may pick
  Qualities,    \* what the application asks for: qualities,
  Ceilings,     \* and bit rates, as the target of ABR or as a bound on VBR
  Gains,        \* pitch gains of a frame
  Reaches,      \* how many of the four subframes have a lag that reaches before the frame
  Extras,       \* what may stand in a packet between frames
  MaxFrames, MaxBlocks,  \* frames in a packet, blocks in a packet
  MaxLost       \* bound of a run on the frames lost in a row

\* What is no narrowband frame: a wideband layer, a request in band.
Extra == [kind : {"wb"}, m : 0..7] \cup [kind : {"ask"}, id : 0..15] \cup [kind : {"user"}, size : 0..15]
ASSUME SessionAssumption ==
  /\ VbrModes \subseteq 0..8 /\ Qualities \subseteq 0..10 /\ Ceilings \subseteq Nat
  /\ Gains \subseteq 0..96 /\ DtxRefresh \in Nat /\ MaxLost \in Nat
  /\ Extras \subseteq Seq(Extra)

VARIABLES
  enc, dec,     \* EncState and DecState
  out,          \* the packet that is being packed
  net,          \* the blocks of a packet that are not decoded yet
  owed,         \* frames the decoder must make up: how many, and why
  gap,          \* whether a frame was lost since the last that was decoded
  nulls,        \* null frames in a row, as far as one more than DtxRefresh
  cut,          \* whether detection was turned off in a silence, and no frame
                \* that it chose has been sent since
  did           \* what the last step did, for the properties

vars == <<enc, dec, out, net, owed, gap, nulls, cut, did>>

Frames(s) == {i \in DOMAIN s : s[i].kind = "nb"}
None == [n |-> 0, why |-> "none"]
Idle == net = <<>> /\ owed = None

Analysis ==
  {[lsp |-> l, choice |-> c, quiet |-> q, far |-> f, gain |-> g] :
     l \in Lsps, c \in VbrModes, q \in BOOLEAN, f \in BOOLEAN, g \in Gains}
\* What bits that are no frame may be taken for.
Misread ==
  [kind : {"nb"}, m : {0} \cup DOMAIN submodes, lsp : Lsps, gain : Gains, extra : {0, 15}]
\* What the analysis says beyond what the encoder looks at is not told apart.
Relevant(a) ==
  /\ ~enc.vbr => a.choice = Max(VbrModes)
  /\ enc.vbr \/ ~enc.vad => a.quiet = FALSE
  /\ ~(enc.vbr \/ enc.vad) \/ ~(a.quiet \/ a.choice = 0) => a.far = FALSE

Init ==
  /\ \E l \in Lsps : enc = nb_encoder_init(l) /\ dec = nb_decoder_init(l)
  /\ out = <<>> /\ net = <<>> /\ owed = None
  /\ gap = FALSE /\ nulls = 0 /\ cut = FALSE /\ did = [step |-> "none"]

\* The application sets the encoder between packets, in silence too.  None of
\* the requests but those that select a submode touches submodeID, and none
\* dtx_count: VBR, or VAD without it, leaves a silence as it found it.
Ctl ==
  /\ Idle /\ out = <<>>
  /\ \/ \E q \in Qualities : enc' = SET_QUALITY(enc, q)
     \/ \E on \in BOOLEAN : enc' = SET_DTX(enc, on)
     \/ \E on \in BOOLEAN : enc' = SET_VBR(enc, on)
     \/ \E on \in BOOLEAN : enc' = SET_VAD(enc, on)
     \/ \E target \in Ceilings : enc' = SET_ABR(enc, target)
     \/ \E max \in Ceilings : enc' = SET_VBR_MAX_BITRATE(enc, max)
  /\ cut' = (cut \/ (enc.dtx_count # 0 /\ ~enc'.vbr /\ (enc.vbr \/ ~enc'.vad)))
  /\ did' = [step |-> "ctl"]
  /\ UNCHANGED <<dec, out, net, owed, gap, nulls>>

\* RESET_STATE makes the next frame a first one for the encoder only.
ResetEncoder ==
  /\ Idle /\ out = <<>> /\ enc' = RESET_STATE(enc)
  /\ gap' = TRUE /\ did' = [step |-> "ctl"]
  /\ UNCHANGED <<dec, out, net, owed, nulls, cut>>

Encode ==
  /\ Idle /\ Cardinality(Frames(out)) < MaxFrames /\ Len(out) < MaxBlocks
  /\ \E a \in Analysis :
       LET r == nb_encode(enc, a) IN
         /\ Relevant(a)
         /\ enc' = r.e /\ out' = Append(out, r.frame)
         /\ nulls' = IF r.frame.sent THEN 0 ELSE IF nulls > DtxRefresh THEN nulls ELSE nulls + 1
         /\ cut' = (cut /\ ~(r.frame.sent /\ (enc.vbr \/ enc.vad) /\ r.e.submodeSelect # 0))
         /\ did' = [step |-> "encode", m |-> r.frame.m]
  /\ UNCHANGED <<dec, net, owed, gap>>

Insert ==
  /\ Idle /\ Len(out) < MaxBlocks
  /\ \E s \in Extras : out' = out \o s
  /\ did' = [step |-> "insert"]
  /\ UNCHANGED <<enc, dec, net, owed, gap, nulls, cut>>

\* The packet ends with a terminator, 0xf in five bits, and arrives.
Deliver ==
  /\ Idle /\ out # <<>>
  /\ net' = Append(out, [kind |-> "end"]) /\ out' = <<>>
  /\ did' = [step |-> "deliver"]
  /\ UNCHANGED <<enc, dec, owed, gap, nulls, cut>>

\* nb_encode returned 0 for every frame: they need not be transmitted.
Withhold ==
  /\ Idle /\ out # <<>> /\ \A i \in DOMAIN out : out[i].kind = "nb" /\ ~out[i].sent
  /\ dec.count_lost + Len(out) <= MaxLost
  /\ owed' = [n |-> Len(out), why |-> "silence"] /\ out' = <<>>
  /\ did' = [step |-> "withhold"]
  /\ UNCHANGED <<enc, dec, net, gap, nulls, cut>>

\* A packet is lost; the receiver notices, or its clock slips over it.
Lose ==
  /\ Idle /\ Frames(out) # {} /\ dec.count_lost + Len(out) <= MaxLost
  /\ \E noticed \in BOOLEAN :
       owed' = IF noticed THEN [n |-> Cardinality(Frames(out)), why |-> "lost"] ELSE None
  /\ out' = <<>> /\ gap' = TRUE /\ did' = [step |-> "lose"]
  /\ UNCHANGED <<enc, dec, net, nulls, cut>>

\* nb_decode with no bits.
DecodeNothing ==
  /\ owed.n > 0
  /\ dec' = IF dec.dtx_enabled THEN NullSynthesis(dec) ELSE nb_decode_lost(dec)
  /\ owed' = IF owed.n = 1 THEN None ELSE [owed EXCEPT !.n = @ - 1]
  /\ did' = [step |-> "made up", why |-> owed.why, sure |-> ~gap /\ ~cut]
  /\ UNCHANGED <<enc, out, net, gap, nulls, cut>>

\* What nb_decode makes of a frame.
DecodedFrame(f, reaching) == IF IsNull(f.m) THEN NullSynthesis(dec) ELSE Synthesis(dec, f, reaching)

\* nb_decode with bits, up to the next narrowband frame or the end.
DecodeFrame ==
  /\ net # <<>> /\ ~Refused(net) /\ ~Astray(net) /\ ~AtEnd(net)
  /\ LET f == net[Passed(net)] IN
       /\ \E reaching \in Reaches : dec' = DecodedFrame(f, reaching)
       /\ gap' = (gap /\ IsNull(f.m))
       /\ did' = [step |-> "decode", inStep |-> InStepWith(net), sure |-> ~gap,
                  alike |-> IsNull(f.m) \/ InterpolatedFrom(dec, f) = f.from]
       /\ net' = SubSeq(net, Passed(net) + 1, Len(net))
  /\ UNCHANGED <<enc, out, owed, nulls, cut>>

\* The end of the packet (-1), or a packet given up as corrupted (-2).
DecodeEnd ==
  /\ net # <<>> /\ ~Astray(net) /\ (Refused(net) \/ AtEnd(net))
  /\ gap' = (gap \/ Frames(net) # {})
  /\ did' = [step |-> "end", inStep |-> InStepWith(net) \/ Refused(net)]
  /\ net' = <<>>
  /\ UNCHANGED <<enc, dec, out, owed, nulls, cut>>

\* nb_decode on bits that are not where it believes them: it may find a frame,
\* and go on behind it, or find an end, or nothing that it knows.
DecodeAstray ==
  /\ net # <<>> /\ Astray(net)
  /\ \/ /\ \E f \in Misread, reaching \in Reaches : dec' = DecodedFrame(f, reaching)
        /\ net' = <<[kind |-> "astray"]>>
     \/ UNCHANGED dec /\ net' = <<>>
  /\ gap' = TRUE /\ did' = [step |-> "astray"]
  /\ UNCHANGED <<enc, out, owed, nulls, cut>>

Next == Ctl \/ ResetEncoder \/ Encode \/ Insert \/ Deliver \/ Withhold \/ Lose
          \/ DecodeNothing \/ DecodeFrame \/ DecodeEnd \/ DecodeAstray

Spec == Init /\ [][Next]_vars
-----------------------------------------------------------------------------
\* The decoder's cursor is at the start of a block when it looks for one, and a
\* frame is read field by field as it was packed: the formats of nb_encode and
\* nb_decode are written down twice.  That is so whatever stands in a packet, a
\* layer without a size, with which the packet is refused, included, and up to
\* a VBR request that has a handler: speex_std_vbr_request_handler leaves three
\* of its four bits, and what is decoded after it is outside of this property.
InStep ==
  /\ "inStep" \in DOMAIN did => did.inStep
  /\ did.step = "encode" => Encoded(did.m) = F(1, "wideband") \o F(4, "submode") \o Decoded(did.m)
  /\ did.step = "encode" => Width(Encoded(did.m)) = nb_mode_query(did.m)

\* The codebooks are searched and read alike: the encoder goes on from the LSPs
\* that the decoder adds up, the last subframe's filter is the frame's own, and
\* the searches keep the nearest codewords.
QuantisersAgree ==
  did.step = "none" => LspsReadBack /\ OwnFilterLast /\ NearestAreKept /\ GainsFit

\* Unless a frame was lost just before, the decoder interpolates the filters
\* of a frame from the same LSPs as the encoder, null frames that were never
\* transmitted included: one good frame after a loss brings them together.
InterpolatesAlike == did.step = "decode" /\ did.sure => did.alike

\* A null frame that was not transmitted is played as comfort noise, never
\* concealed as a loss: the extra bits of submode 1 told the decoder, unless
\* they were lost, or detection was turned off in a silence: turned on again
\* in another it goes on where it was with dtx_count, and announces nothing.
SilenceIsComfortNoise ==
  did.step = "made up" /\ did.why = "silence" /\ did.sure => dec.count_lost = 0

\* Silence is never left unsaid for longer than DtxRefresh frames, whatever the
\* mode was chosen by and the application sets, but for one thing: detection
\* that is turned off in a silence (VBR, or VAD without it) leaves the null
\* submode selected, and nb_encode mute in speech too, until a quality is set
\* or a frame that VBR or VAD chose is sent.
ComfortNoiseIsRefreshed == ~cut => nulls <= DtxRefresh

\* Under VBR no frame exceeds the ceiling, except that of the lowest quality.
CeilingHolds ==
  did.step = "encode" /\ enc.vbr /\ enc.vbr_max > 0 =>
    Rate(did.m) <= Max({enc.vbr_max, Rate(quality_map[1])})
=============================================================================
