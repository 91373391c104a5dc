---------------------------- MODULE SpeexDecoder ----------------------------
(***************************************************************************)
(* The narrowband decoder of libspeex (nb_celp.c and speex_callbacks.c) as *)
(* operators on its state.  A stream is the blocks between the cursor and  *)
(* the end of the packet; each block knows its size in bits, and reading   *)
(* it must move the cursor by as many.  Pitch gains are in 64ths; the      *)
(* gains of the last three frames are a ring the code writes in turn, here *)
(* a sequence of the last three.  Its submodeID is set by every call that  *)
(* reads it, so it is the frame's.                                         *)
(***************************************************************************)
EXTENDS SpeexFrame, SequencesExt

CONSTANT Handlers      \* the in-band requests somebody registered for

\* speex_callbacks.c has handlers for these.
ASSUME HandlersAssumption == Handlers \subseteq {0, 2, 3, 4, 5, 7, 8}

nb_decoder_init(lsp) ==
  [first |-> TRUE, count_lost |-> 0, dtx_enabled |-> FALSE, old_qlsp |-> lsp,
   last_pitch_gain |-> 0, pitch_gain_buf |-> <<0, 0, 0>>]

attenuation == <<32767, 31483, 27923, 22861, 17278, 12055, 7764, 4616, 2533, 1283>>
median3(s) == SortSeq(s, <)[2]
Remember(buf, gain) == <<buf[2], buf[3], gain>>
Least(x, y) == IF x < y THEN x ELSE y

\* A lost frame is made of the last excitation, damped by the number of
\* frames lost and by a pitch gain that can only fall.
Attenuation(d) == IF d.count_lost < 10 THEN attenuation[d.count_lost + 1] ELSE 0
ConcealedGain(d) ==
  LET last == Least(d.last_pitch_gain, median3(d.pitch_gain_buf))
  IN (Attenuation(d) * (Least(last, 54) * 512)) \div 32768
nb_decode_lost(d) ==
  [d EXCEPT !.last_pitch_gain = Least(@, median3(d.pitch_gain_buf)),
            !.first = FALSE, !.count_lost = @ + 1,
            !.pitch_gain_buf = Remember(@, (ConcealedGain(d) + 256) \div 512)]
\* Faulty variant: the frame after a null frame is not a first one.
NullSynthesisNotFirst(d) == [d EXCEPT !.count_lost = 0]

\* The null submode plays noise of the energy of the last excitation.
NullSynthesis(d) == [d EXCEPT !.first = TRUE, !.count_lost = 0]

\* After a loss the pitch gain of the subframes that reach before the frame is
\* bounded by the last one (pitch_unquant_3tap); a forced pitch is not.
LossCap(d) == Least(62, IF d.count_lost < 4 THEN d.last_pitch_gain ELSE d.last_pitch_gain \div 2)
pitch_unquant(d, frame, reaching) ==
  LET capped == IF d.count_lost = 0 \/ submodes[frame.m].forced_pitch_gain
                THEN frame.gain ELSE Least(frame.gain, LossCap(d))
  IN (reaching * capped + (4 - reaching) * frame.gain + 2) \div 4
Synthesis(d, frame, reaching) ==
  LET gain == pitch_unquant(d, frame, reaching)
  IN [d EXCEPT !.old_qlsp = frame.lsp, !.first = FALSE, !.count_lost = 0,
               !.dtx_enabled = IF frame.m = 1 THEN frame.extra = 15 ELSE IF frame.m > 1 THEN FALSE ELSE @,
               !.last_pitch_gain = gain, !.pitch_gain_buf = Remember(@, gain)]
\* What the decoder interpolates the filters from.
InterpolatedFrom(d, frame) == IF d.first \/ d.count_lost > 0 THEN frame.lsp ELSE d.old_qlsp

\* The bits a block has, and the bits that are read of it.
Bits(b) ==
  CASE b.kind = "nb"   -> Width(Encoded(b.m))
    [] b.kind = "wb"   -> WidebandBits(b.m)
    [] b.kind = "ask"  -> 5 + 4 + RequestBits(b.id)
    [] b.kind = "user" -> 5 + UserBits(b.size)
    [] b.kind = "end"  -> 5
speex_inband_handler(id) == 4 + IF id \in Handlers THEN HandlerBits(id) ELSE RequestBits(id)
\* Faulty variant: the size of a user request is taken for four bits.
speex_user_handler_short(size) == 4 + 8 * size

speex_default_user_handler(size) == 4 + 5 + 8 * size
SkipLayer(m) == wb_skip_table[m + 1]
Read(b) ==
  CASE b.kind = "nb"   -> 1 + 4 + Width(Decoded(b.m))
    [] b.kind = "wb"   -> SkipLayer(b.m)
    [] b.kind = "ask"  -> 5 + speex_inband_handler(b.id)
    [] b.kind = "user" -> 5 + speex_default_user_handler(b.size)
    [] b.kind = "end"  -> 5

\* nb_decode passes layers and requests to the next narrowband frame; the end
\* of the packet is the end.
Passed(s) == SelectInSeq(s, LAMBDA b : b.kind \in {"nb", "end"})
Ahead(s) == IF Passed(s) = 0 THEN Len(s) ELSE Passed(s) - 1
AtEnd(s) == Passed(s) = 0 \/ s[Passed(s)].kind = "end"

\* More than two layers in a row are an error.  So is one that the table has
\* no size for: the cursor goes back by its header, and meets it once more, and
\* once more where no layer may be.
RefusedAt(s, i) ==
  /\ s[i].kind = "wb"
  /\ SkipLayer(s[i].m) = 0 \/ (i > 2 /\ s[i - 1].kind = "wb" /\ s[i - 2].kind = "wb")
Refused(s) == \E i \in 1..Ahead(s) : RefusedAt(s, i)

\* After a request of which its handler leaves a part unread, what comes is
\* anything ("astray"), whatever stands behind it in the packet.
StraysAt(s, i) ==
  \/ s[i].kind = "astray"
  \/ s[i].kind = "ask" /\ s[i].id \in Handlers /\ HandlerBits(s[i].id) < RequestBits(s[i].id)
Astray(s) == \E i \in 1..Ahead(s) : StraysAt(s, i) /\ ~\E j \in 1..i : RefusedAt(s, j)
InStepWith(s) == \A i \in DOMAIN s : Passed(s) = 0 \/ i <= Passed(s) => Read(s[i]) = Bits(s[i])
=============================================================================
