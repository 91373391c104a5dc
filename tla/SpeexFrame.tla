----------------------------- MODULE SpeexFrame -----------------------------
(***************************************************************************)
(* The narrowband frame of libspeex: the submodes of modes.c, and the      *)
(* fields of a frame in the order nb_encode packs them and in the order    *)
(* nb_decode unpacks them (nb_celp.c, quant_lsp.c, ltp.c, cb_search.c).    *)
(* A field is its width and what it holds.                                 *)
(***************************************************************************)
EXTENDS Integers, Sequences, SequencesExt

FrameSize == 160
quality_map == <<1, 8, 2, 3, 3, 4, 4, 5, 5, 6, 7>>

\* ltp_params: widths of the gain and of the lag; split_cb_params: how many
\* subvectors, and the width of the index of each.
ltp_params_nb    == [gain_bits |-> 7, pitch_bits |-> 7]
ltp_params_vlbr  == [gain_bits |-> 5, pitch_bits |-> 0]
ltp_params_lbr   == [gain_bits |-> 5, pitch_bits |-> 7]
ltp_params_med   == [gain_bits |-> 5, pitch_bits |-> 7]
Unused           == [gain_bits |-> 0, pitch_bits |-> 0]
split_cb_nb_vlbr == [nb_subvect |-> 4, shape_bits |-> 4]
split_cb_nb_ulbr == [nb_subvect |-> 2, shape_bits |-> 5]
split_cb_nb_lbr  == [nb_subvect |-> 4, shape_bits |-> 5]
split_cb_nb      == [nb_subvect |-> 8, shape_bits |-> 6]
split_cb_nb_med  == [nb_subvect |-> 5, shape_bits |-> 7]
split_cb_sb      == [nb_subvect |-> 8, shape_bits |-> 8]
noise_codebook   == [nb_subvect |-> 0, shape_bits |-> 0]

\* lsp is the number of six-bit stages of lsp_quant_lbr or lsp_quant_nb;
\* forced says that forced_pitch_quant codes the pitch.
Submode(lbr, forced, sub, double, lsp, ltp, cb, bits) ==
  [lbr_pitch |-> lbr, forced_pitch_gain |-> forced, have_subframe_gain |-> sub,
   double_codebook |-> double, lsp |-> lsp, ltp |-> ltp, innovation |-> cb, bits_per_frame |-> bits]
submodes ==
  << Submode( 0, TRUE,  0, FALSE, 3, Unused,          noise_codebook,    43),
     Submode( 0, FALSE, 0, FALSE, 3, ltp_params_vlbr, split_cb_nb_vlbr, 119),
     Submode(-1, FALSE, 1, FALSE, 3, ltp_params_lbr,  split_cb_nb_lbr,  160),
     Submode(-1, FALSE, 1, FALSE, 3, ltp_params_med,  split_cb_nb_med,  220),
     Submode(-1, FALSE, 3, FALSE, 5, ltp_params_nb,   split_cb_nb,      300),
     Submode(-1, FALSE, 3, FALSE, 5, ltp_params_nb,   split_cb_sb,      364),
     Submode(-1, FALSE, 3, TRUE,  5, ltp_params_nb,   split_cb_nb,      492),
     Submode( 0, TRUE,  0, FALSE, 3, Unused,          split_cb_nb_ulbr,  79) >>
IsNull(m) == m \notin DOMAIN submodes

\* nb_mode_query: the bits of a frame, five for the null submode.
nb_mode_query(m) == IF IsNull(m) THEN 5 ELSE submodes[m].bits_per_frame

F(width, what) == IF width = 0 THEN <<>> ELSE << [width |-> width, what |-> what] >>
Repeat(n, s) ==
  LET r[i \in 0..n] == IF i = 0 THEN <<>> ELSE r[i - 1] \o s IN r[n]
If(p, s) == IF p THEN s ELSE <<>>

\* What nb_encode packs after the LSPs: one lag for the frame in the low
\* bit-rate modes, a forced pitch gain, the gain, then subframe by subframe.
Innovation(sm) == Repeat(sm.innovation.nb_subvect, F(sm.innovation.shape_bits, "shape"))
EncodedSubframe(sm) ==
  If(~sm.forced_pitch_gain, F(sm.ltp.pitch_bits, "lag") \o F(sm.ltp.gain_bits, "taps"))
  \o F(sm.have_subframe_gain, "sub")
  \o Innovation(sm) \o If(sm.double_codebook, Innovation(sm))
Envelope(sm) ==
  Repeat(sm.lsp, F(6, "lsp")) \o If(sm.lbr_pitch # -1, F(7, "pitch"))
  \o If(sm.forced_pitch_gain, F(4, "coef")) \o F(5, "gain")
Encoded(m) ==
  F(1, "wideband") \o F(4, "submode") \o
  If(~IsNull(m), LET sm == submodes[m] IN
     Envelope(sm) \o Repeat(4, EncodedSubframe(sm)) \o If(m = 1, F(4, "extra")))

\* What nb_decode reads once it has the submode: the same envelope, then the
\* four extra bits of submode 1, which it expects before the subframes.
DecodedSubframe(sm) ==
  If(~sm.forced_pitch_gain, F(sm.ltp.pitch_bits, "lag") \o F(sm.ltp.gain_bits, "taps"))
  \o (CASE sm.have_subframe_gain = 3 -> F(3, "sub")
        [] sm.have_subframe_gain = 1 -> F(1, "sub")
        [] OTHER -> <<>>)
  \o Repeat(IF sm.double_codebook THEN 2 ELSE 1, Innovation(sm))
Decoded(m) ==
  If(~IsNull(m), LET sm == submodes[m] IN
     Envelope(sm) \o If(m = 1, F(4, "extra")) \o Repeat(4, DecodedSubframe(sm)))

Width(fields) ==
  LET w[i \in 0..Len(fields)] == IF i = 0 THEN 0 ELSE w[i - 1] + fields[i].width IN w[Len(fields)]

\* In-band requests (speex_callbacks.h): the payload of each identifier, which
\* is what speex_inband_handler skips when nobody registered for it.
RequestBits(id) ==
  CASE id < 2 -> 1 [] id \in 2..7 -> 4 [] id \in 8..9 -> 8
    [] id \in 10..11 -> 16 [] id \in 12..13 -> 32 [] OTHER -> 64
\* What the standard handlers read: of the requests a narrowband coder serves,
\* speex_std_vbr_request_handler alone reads less than is sent, one bit of four.
HandlerBits(id) == CASE id = 0 -> 1 [] id \in 2..5 -> 4 [] id = 7 -> 1 [] id = 8 -> 8
\* A user request carries its own size; the default handler skips it.
UserBits(size) == 4 + 5 + 8 * size

\* A wideband layer that a narrowband decoder skips: its table has the sizes of
\* four submodes.  Of the others there is the header, four bits.
wb_skip_table == <<0, 36, 112, 192, 352, 0, 0, 0>>
WidebandBits(m) == IF wb_skip_table[m + 1] = 0 THEN 4 ELSE wb_skip_table[m + 1]
=============================================================================
