---------------------------- MODULE SpeexEncoder ----------------------------
(***************************************************************************)
(* The narrowband encoder of libspeex (nb_celp.c, nb_encoder_init,         *)
(* nb_encode and nb_encoder_ctl) as operators on its state.  What the      *)
(* analysis finds in the sound is an argument of nb_encode:                *)
(*   lsp     the quantised LSPs of the frame,                              *)
(*   choice  the submode whose threshold vbr_analysis just passes,         *)
(*   quiet   whether the relative quality is below 2,                      *)
(*   far     whether the LSPs moved by more than .05 since the last frame, *)
(*   gain    the pitch gain of the subframes.                              *)
(***************************************************************************)
EXTENDS SpeexFrame, FiniteSetsExt

CONSTANTS Lsps,        \* the values a quantised LSP vector can have
          DtxRefresh   \* null frames before a refresh; 20 in nb_encode

Rate(m) == (8000 * nb_mode_query(m)) \div FrameSize

nb_encoder_init(lsp) ==
  [submodeID |-> 5, submodeSelect |-> 5, first |-> TRUE, bounded_pitch |-> TRUE,
   old_qlsp |-> lsp, vbr |-> FALSE, vad |-> FALSE, dtx |-> FALSE, dtx_count |-> 0, vbr_max |-> 0]

\* nb_encoder_ctl: the requests that change what is coded.
SET_MODE(e, m) == [e EXCEPT !.submodeSelect = m, !.submodeID = m]
SET_QUALITY(e, q) == SET_MODE(e, quality_map[(IF q < 0 THEN 0 ELSE IF q > 10 THEN 10 ELSE q) + 1])
GET_BITRATE(e) == Rate(e.submodeID)
Affordable(target) == {q \in 0..10 : Rate(quality_map[q + 1]) <= target}
\* Faulty variant: the quality after the last affordable one.
SET_BITRATE_above(e, target) ==
  SET_QUALITY(e, IF Affordable(target) = {} THEN 0 ELSE Max(Affordable(target)) + 1)

SET_BITRATE(e, target) ==
  SET_QUALITY(e, IF Affordable(target) = {} THEN 0 ELSE Max(Affordable(target)))
SET_VBR(e, on) == [e EXCEPT !.vbr = on]
SET_VAD(e, on) == [e EXCEPT !.vad = on]
SET_DTX(e, on) == [e EXCEPT !.dtx = on]
SET_ABR(e, target) ==
  IF target = 0 THEN SET_VBR(e, FALSE) ELSE SET_BITRATE(SET_VBR(e, TRUE), target)
SET_VBR_MAX_BITRATE(e, max) == [e EXCEPT !.vbr_max = max]
RESET_STATE(e) == [e EXCEPT !.bounded_pitch = TRUE, !.first = TRUE]
\* Faulty variant: no frame of submode 1 comes before the null frames; or none is repeated.
SilenceUnannounced(e, a) ==
  IF a.far \/ ~e.dtx \/ e.dtx_count > DtxRefresh
  THEN [mode |-> 1, count |-> 1]
  ELSE [mode |-> 0, count |-> e.dtx_count + 1]
SilenceForEver(e, a) ==
  IF e.dtx_count = 0 \/ a.far \/ ~e.dtx THEN [mode |-> 1, count |-> 1]
  ELSE [mode |-> 0, count |-> 2]

\* In silence a frame of submode 1 comes first, then null frames until the
\* sound changes or the count runs out.
Silence(e, a) ==
  IF e.dtx_count = 0 \/ a.far \/ ~e.dtx \/ e.dtx_count > DtxRefresh
  THEN [mode |-> 1, count |-> 1]
  ELSE [mode |-> 0, count |-> e.dtx_count + 1]
VbrMode(e, a) ==
  LET s == IF a.choice = 0 THEN Silence(e, a) ELSE [mode |-> a.choice, count |-> 0]
      f == SET_MODE([e EXCEPT !.dtx_count = s.count], s.mode)
  IN IF f.vbr_max > 0 /\ GET_BITRATE(f) > f.vbr_max THEN SET_BITRATE(f, f.vbr_max) ELSE f
VadMode(e, a) ==
  LET s == IF a.quiet THEN Silence(e, a) ELSE [mode |-> e.submodeSelect, count |-> 0]
  IN [e EXCEPT !.submodeID = s.mode, !.dtx_count = s.count]
ChooseMode(e, a) == IF e.vbr THEN VbrMode(e, a) ELSE IF e.vad THEN VadMode(e, a) ELSE e

\* The state after the frame, and the frame: its submode, its LSPs and what
\* the filters are interpolated from, the four extra bits of submode 1.
NullFrame(e) ==
  [e |-> [e EXCEPT !.first = TRUE, !.bounded_pitch = TRUE],
   frame |-> [kind |-> "nb", m |-> e.submodeID, sent |-> FALSE]]
CodedFrame(e, a) ==
  [e |-> [e EXCEPT !.old_qlsp = IF e.submodeID >= 1 THEN a.lsp ELSE @, !.first = FALSE,
                   !.bounded_pitch = submodes[e.submodeID].innovation = noise_codebook],
   frame |-> [kind |-> "nb", m |-> e.submodeID, sent |-> TRUE, lsp |-> a.lsp,
              from |-> IF e.first THEN a.lsp ELSE e.old_qlsp, gain |-> a.gain,
              extra |-> IF e.submodeID = 1 /\ e.dtx_count # 0 THEN 15 ELSE 0]]
nb_encode(e, a) ==
  LET f == ChooseMode(e, a) IN IF IsNull(f.submodeID) THEN NullFrame(f) ELSE CodedFrame(f, a)
=============================================================================
