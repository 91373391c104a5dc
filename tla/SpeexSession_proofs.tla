------------------------- MODULE SpeexSession_proofs -------------------------
(***************************************************************************)
(* Proofs about SpeexSession, for any number of null frames before a       *)
(* refresh, any LSPs and any packets: silence is refreshed, the ceiling of *)
(* VBR holds, the two ends interpolate alike until a frame is lost, and    *)
(* what is packed is read back in step.                                    *)
(***************************************************************************)
EXTENDS SpeexSession, SequenceTheorems, FiniteSetTheorems, WellFoundedInduction, TLAPS

-----------------------------------------------------------------------------
(* Least and greatest elements: FiniteSetsExt takes both by CHOOSE.        *)

\* A set of naturals that is not empty has a least element.
LEMMA LeastExists ==
  ASSUME NEW S \in SUBSET Nat, S # {}
  PROVE  \E x \in S : \A y \in S : x <= y
<1> DEFINE R == OpToRel(<, Nat)
<1>1. \A x, y \in Nat : <<y, x>> \in R <=> y < x
  BY DEF OpToRel
<1>2. IsWellFoundedOn(R, Nat)
  BY NatLessThanWellFounded
<1> HIDE DEF R
<1>3. PICK x \in S : \A y \in S : ~(<<y, x>> \in R)
  BY <1>2, WFMin
<1>4. \A y \in S : ~(y < x)
  BY <1>1, <1>3
<1> QED BY <1>4

\* Min picks it.
LEMMA MinIsLeast ==
  ASSUME NEW S \in SUBSET Nat, S # {}
  PROVE  Min(S) \in S /\ \A y \in S : Min(S) <= y
BY LeastExists DEF Min

\* Max picks the greatest element of a bounded set of naturals.
LEMMA MaxIsGreatest ==
  ASSUME NEW n \in Nat, NEW S \in SUBSET (0..n), S # {}
  PROVE  Max(S) \in S /\ \A y \in S : y <= Max(S)
<1> DEFINE T == {z \in 0..n : n - z \in S}
<1>1. T \in SUBSET Nat /\ T # {}
  <2>1. PICK y \in S : TRUE
    OBVIOUS
  <2>2. n - y \in 0..n /\ n - (n - y) = y
    OBVIOUS
  <2>3. n - y \in T
    BY <2>2
  <2>4. T \subseteq Nat
    OBVIOUS
  <2> QED BY <2>3, <2>4
<1>2. PICK t \in T : \A z \in T : t <= z
  <2> HIDE DEF T
  <2> QED BY <1>1, LeastExists
<1>3. ASSUME NEW y \in S PROVE y <= n - t
  <2>1. n - y \in T
    OBVIOUS
  <2> QED BY <2>1, <1>2
<1>4. n - t \in S /\ \A y \in S : n - t >= y
  BY <1>2, <1>3
<1> QED BY <1>4 DEF Max

\* Max of two naturals bounds both.
LEMMA MaxOfTwo ==
  ASSUME NEW a \in Nat, NEW c \in Nat
  PROVE  Max({a, c}) \in Nat /\ a <= Max({a, c}) /\ c <= Max({a, c})
<1>1. \E x \in {a, c} : \A y \in {a, c} : x >= y
  OBVIOUS
<1>2. Max({a, c}) \in {a, c} /\ \A y \in {a, c} : Max({a, c}) >= y
  BY <1>1 DEF Max
<1> QED BY <1>2

-----------------------------------------------------------------------------
(* The submodes.                                                           *)

Modes == 0..8
Coded == 1..8

\* The submodes that carry bits are those from one to eight, every quality has
\* one of them, and none needs fewer bits than the lowest quality.
LEMMA ModeTable ==
  /\ \A m \in Modes : IsNull(m) <=> m = 0
  /\ \A m \in Modes : Rate(m) \in Nat
  /\ \A m \in Coded : Rate(m) >= Rate(1)
  /\ \A q \in 0..10 : quality_map[q + 1] \in Coded
  /\ quality_map[1] = 1
  /\ Rate(0) <= Rate(1)
<1>1. DOMAIN submodes = Coded
  BY DEF submodes, Coded
<1>2. \A q \in 0..10 : quality_map[q + 1] \in Coded
  BY DEF quality_map, Coded
<1>3. quality_map[1] = 1
  BY DEF quality_map
<1>4. \A m \in Modes : IsNull(m) <=> m = 0
  BY <1>1 DEF IsNull, Modes, Coded
<1>5. \A m \in Coded : submodes[m].bits_per_frame \in 43..492
  BY DEF submodes, Submode, Coded
<1>6. submodes[1].bits_per_frame = 43
  BY DEF submodes, Submode
<1>7. \A m \in Coded : nb_mode_query(m) \in 43..492
  BY <1>1, <1>5 DEF nb_mode_query, IsNull
<1>8. nb_mode_query(1) = 43 /\ nb_mode_query(0) = 5
  BY <1>1, <1>6 DEF nb_mode_query, IsNull, Coded
<1>9. \A m \in Modes : m = 0 \/ m \in Coded
  BY DEF Modes, Coded
<1>10. \A m \in Coded : nb_mode_query(m) \in Nat /\ nb_mode_query(m) >= 43
  <2>1. \A x \in 43..492 : x \in Nat /\ x >= 43
    OBVIOUS
  <2> QED BY <1>7, <2>1
<1>11. \A m \in Modes : nb_mode_query(m) \in Nat /\ Rate(m) = 50 * nb_mode_query(m)
  <2>1. \A m \in Modes : nb_mode_query(m) \in Nat
    BY <1>8, <1>9, <1>10
  <2>2. \A x \in Nat : (8000 * x) \div 160 = 50 * x
    OBVIOUS
  <2> QED BY <2>1, <2>2 DEF Rate, FrameSize
<1>12. \A m \in Coded : Rate(m) >= Rate(1)
  <2>1. 1 \in Modes /\ Coded \subseteq Modes
    BY DEF Modes, Coded
  <2> QED BY <1>8, <1>10, <1>11, <2>1
<1>13. Rate(0) <= Rate(1)
  <2>1. 0 \in Modes /\ 1 \in Modes
    BY DEF Modes
  <2> QED BY <1>8, <1>11, <2>1
<1>14. \A m \in Modes : Rate(m) \in Nat
  BY <1>11
<1> QED BY <1>2, <1>3, <1>4, <1>12, <1>13, <1>14
-----------------------------------------------------------------------------
(* The inductive invariant.                                                *)

EncStates ==
  [submodeID : Modes, submodeSelect : Modes, first : BOOLEAN, bounded_pitch : BOOLEAN,
   old_qlsp : Lsps, vbr : BOOLEAN, vad : BOOLEAN, dtx : BOOLEAN,
   dtx_count : 0..(DtxRefresh + 1), vbr_max : Nat]
NullFrames == [kind : {"nb"}, m : {0}, sent : {FALSE}]
CodedFrames ==
  [kind : {"nb"}, m : Coded, sent : {TRUE}, lsp : Lsps, from : Lsps, gain : Gains, extra : {0, 15}]
Blocks == NullFrames \cup CodedFrames \cup Extra \cup [kind : {"end", "astray"}]

\* The encoder counts the frames of a silence only while a detector is on, and
\* in speech its submodes, the chosen and the selected one, carry bits.
Detects(e) ==
  /\ e.vbr \/ e.vad \/ e.dtx_count = 0
  /\ ~e.vbr \/ e.dtx_count = 0 => e.submodeSelect # 0
  /\ e.dtx_count = 0 => e.submodeID # 0

\* The frame g comes right after f; or is the first that the decoder d gets; or
\* f is the last that the encoder e made.
Follows(f, g) == g.m = 0 \/ g.from = IF f.m = 0 THEN g.lsp ELSE f.lsp
Starts(d, g) == g.m = 0 \/ g.from = InterpolatedFrom(d, g)
Ends(e, f) == (e.first <=> f.m = 0) /\ (f.m # 0 => e.old_qlsp = f.lsp)
\* With no frame between them, encoder and decoder go on from the same.
Tuned(e, d) ==
  /\ e.first <=> d.first \/ d.count_lost > 0
  /\ ~e.first => e.old_qlsp = d.old_qlsp

Adjacent(s, i, j) == i \in Frames(s) /\ j \in Frames(s) /\ i < j /\ \A k \in Frames(s) : k <= i \/ j <= k
FirstIn(s, i) == i \in Frames(s) /\ \A k \in Frames(s) : i <= k
LastIn(s, i) == i \in Frames(s) /\ \A k \in Frames(s) : k <= i

\* The frames on the way hang together, and so do its ends unless one was lost.
Chain(e, s, d, lost) ==
  /\ \A i, j \in DOMAIN s : Adjacent(s, i, j) => Follows(s[i], s[j])
  /\ \A i \in DOMAIN s : LastIn(s, i) => Ends(e, s[i])
  /\ ~lost => \A i \in DOMAIN s : FirstIn(s, i) => Starts(d, s[i])
  /\ ~lost /\ Frames(s) = {} => Tuned(e, d)

\* A frame that tells the decoder that null frames follow.
Announces(f) == f.m = 1 /\ f.extra = 15
Sent(s) == {i \in Frames(s) : s[i].m # 0}

\* In a silence of n frames the last frame that was sent announced it, and the
\* decoder knows if that is behind it; only in a silence is a frame null.
Told(n, s, d, lost) ==
  /\ n > 0 => \A i \in Sent(s) : (\A j \in Sent(s) : j <= i) => Announces(s[i])
  /\ n > 0 /\ ~lost /\ Sent(s) = {} => d.dtx_enabled
  /\ \A i \in DOMAIN s : LastIn(s, i) /\ s[i].m = 0 => n > 0

\* The fields of the decoder's state that matter here, of which two are Boolean.
Decoding(d) ==
  /\ {"first", "count_lost", "dtx_enabled", "old_qlsp", "last_pitch_gain",
      "pitch_gain_buf"} \subseteq DOMAIN d
  /\ d.first \in BOOLEAN /\ d.dtx_enabled \in BOOLEAN /\ d.count_lost \in Nat

TypeOK ==
  /\ enc \in EncStates
  /\ Decoding(dec)
  /\ out \in Seq(Blocks) /\ net \in Seq(Blocks)
  /\ owed \in [n : Nat, why : {"none", "silence", "lost"}]
  /\ gap \in BOOLEAN /\ nulls \in Nat /\ cut \in BOOLEAN

OnTheWay == IF net = <<>> THEN out ELSE net
Inv ==
  /\ TypeOK
  /\ ~cut => Detects(enc) /\ nulls <= IF enc.dtx_count = 0 THEN 0 ELSE enc.dtx_count - 1
  /\ net # <<>> => out = <<>> /\ owed = None
  /\ owed.n = 0 <=> owed = None
  /\ owed = None => Chain(enc, OnTheWay, dec, gap)
  /\ owed = None /\ ~cut => Told(enc.dtx_count, OnTheWay, dec, gap)
  /\ owed # None => /\ out = <<>>
                    /\ gap \/ (owed.why = "silence" /\ enc.first /\ (cut \/ dec.dtx_enabled))
-----------------------------------------------------------------------------
(* The encoder's choice of a submode.                                      *)

\* SET_QUALITY, whatever it is asked for, selects a submode that carries bits.
LEMMA QualityIsCoded ==
  ASSUME NEW e, NEW q \in Int
  PROVE  \E m \in Coded : SET_QUALITY(e, q) = SET_MODE(e, m)
<1> DEFINE c == IF q < 0 THEN 0 ELSE IF q > 10 THEN 10 ELSE q
<1>1. c \in 0..10
  OBVIOUS
<1>2. quality_map[c + 1] \in Coded
  <2> HIDE DEF c
  <2> QED BY <1>1, ModeTable
<1>3. SET_QUALITY(e, q) = SET_MODE(e, quality_map[c + 1])
  BY DEF SET_QUALITY
<1> QED BY <1>2, <1>3

\* SET_BITRATE selects a submode that the target affords, if there is one, and
\* the smallest if there is none.
LEMMA BitrateIsAffordable ==
  ASSUME NEW e, NEW target \in Nat
  PROVE  \E m \in Coded : /\ SET_BITRATE(e, target) = SET_MODE(e, m)
                          /\ Rate(m) <= target \/ m = 1
                          /\ Rate(1) > target => m = 1
<1> DEFINE A == Affordable(target)
           q == IF A = {} THEN 0 ELSE Max(A)
           m == quality_map[q + 1]
<1>1. A \in SUBSET (0..10) /\ \A x \in A : Rate(quality_map[x + 1]) <= target
  BY DEF Affordable
<1>2. A # {} => Max(A) \in A
  <2> HIDE DEF A
  <2> QED BY <1>1, MaxIsGreatest
<1>3. q \in 0..10 /\ (A # {} => q \in A) /\ (A = {} => q = 0)
  <2> HIDE DEF A
  <2>1. CASE A = {}
    BY <2>1
  <2>2. CASE A # {}
    <3>1. q = Max(A)
      BY <2>2
    <3> QED BY <1>1, <1>2, <2>2, <3>1
  <2> QED BY <2>1, <2>2
<1> HIDE DEF A, q
<1>4. m \in Coded /\ (Rate(m) <= target \/ m = 1)
  BY <1>1, <1>3, ModeTable
<1>5. Rate(1) > target => m = 1
  <2>1. Rate(m) >= Rate(1) /\ Rate(m) \in Nat /\ Rate(1) \in Nat
    BY <1>4, ModeTable DEF Modes, Coded
  <2> QED BY <1>4, <2>1
<1>6. SET_BITRATE(e, target) = SET_QUALITY(e, q)
  BY DEF SET_BITRATE, A, q
<1>7. SET_QUALITY(e, q) = SET_MODE(e, m)
  <2>1. ~(q < 0) /\ ~(q > 10)
    BY <1>3
  <2> QED BY <2>1 DEF SET_QUALITY
<1> HIDE DEF m
<1> QED BY <1>4, <1>5, <1>6, <1>7

\* Silence is a frame of submode 1, or a null frame of a silence that goes on.
LEMMA SilenceCounts ==
  ASSUME NEW e \in EncStates, NEW a
  PROVE  LET s == Silence(e, a)
         IN  \/ s.mode = 1 /\ s.count = 1
             \/ s.mode = 0 /\ s.count = e.dtx_count + 1 /\ e.dtx_count \in 1..DtxRefresh
<1>1. e.dtx_count \in 0..(DtxRefresh + 1) /\ DtxRefresh \in Nat
  BY SessionAssumption DEF EncStates
<1>2. CASE e.dtx_count = 0 \/ a.far \/ ~e.dtx \/ e.dtx_count > DtxRefresh
  BY <1>2 DEF Silence
<1>3. CASE ~(e.dtx_count = 0 \/ a.far \/ ~e.dtx \/ e.dtx_count > DtxRefresh)
  BY <1>1, <1>3 DEF Silence
<1> QED BY <1>2, <1>3

\* What choosing a submode does to the encoder's state: only the submodes and
\* the count of the silence change, and a frame of VBR keeps to the ceiling.
Chosen(e, f) ==
  /\ f \in EncStates
  /\ f.first = e.first /\ f.old_qlsp = e.old_qlsp /\ f.vbr = e.vbr /\ f.vbr_max = e.vbr_max
  /\ f.vbr /\ f.vbr_max > 0 => Rate(f.submodeID) <= f.vbr_max \/ f.submodeID = 1
\* A null frame goes on with a silence, every frame of a silence announces it.
Counted(e, f) ==
  /\ Detects(f)
  /\ f.submodeID = 0 => e.dtx_count \in 1..DtxRefresh /\ f.dtx_count = e.dtx_count + 1
  /\ f.dtx_count > 0 => f.submodeID \in {0, 1}

\* Under VBR the mode is chosen as the bound, the count and the ceiling ask;
LEMMA VbrChooses ==
  ASSUME NEW e \in EncStates, e.vbr, NEW a, a.choice \in Modes
  PROVE  Chosen(e, VbrMode(e, a)) /\ Counted(e, VbrMode(e, a))
<1> DEFINE s == IF a.choice = 0 THEN Silence(e, a) ELSE [mode |-> a.choice, count |-> 0]
           g == [e EXCEPT !.dtx_count = s.count]
           f == SET_MODE(g, s.mode)
<1>1. /\ s.mode \in Modes /\ s.count \in 0..(DtxRefresh + 1)
      /\ s.count = 0 => s.mode # 0
      /\ s.count > 0 => s.mode \in {0, 1}
      /\ s.mode = 0 => e.dtx_count \in 1..DtxRefresh /\ s.count = e.dtx_count + 1
  <2>1. DtxRefresh \in Nat
    BY SessionAssumption
  <2>2. CASE a.choice = 0
    BY <2>1, <2>2, SilenceCounts DEF Modes
  <2>3. CASE a.choice # 0
    BY <2>1, <2>3 DEF Modes
  <2> QED BY <2>2, <2>3
<1> HIDE DEF s
<1>2. f = [e EXCEPT !.dtx_count = s.count, !.submodeSelect = s.mode, !.submodeID = s.mode]
  BY DEF SET_MODE, EncStates
<1> DEFINE h(m) == [e EXCEPT !.dtx_count = s.count, !.submodeSelect = m, !.submodeID = m]
<1>3. \A m \in Modes : SET_MODE(f, m) = h(m)
  BY <1>2 DEF SET_MODE, EncStates
<1>4. \A m \in Modes :
        /\ h(m) \in EncStates
        /\ h(m).first = e.first /\ h(m).old_qlsp = e.old_qlsp /\ h(m).vbr = e.vbr
        /\ h(m).vbr_max = e.vbr_max /\ h(m).submodeID = m /\ h(m).submodeSelect = m
        /\ h(m).dtx_count = s.count
  BY <1>1 DEF EncStates
<1>5. f = h(s.mode)
  BY <1>2
<1> HIDE DEF f, h
<1>6. e.vbr_max \in Nat /\ f.vbr_max = e.vbr_max /\ GET_BITRATE(f) = Rate(s.mode) /\ Rate(s.mode) \in Nat
  BY <1>1, <1>4, <1>5, ModeTable DEF EncStates, GET_BITRATE
<1>7. CASE ~(f.vbr_max > 0 /\ GET_BITRATE(f) > f.vbr_max)
  <2>1. VbrMode(e, a) = f
    BY <1>7 DEF VbrMode, f, g, s
  <2>2. f \in EncStates /\ f.first = e.first /\ f.old_qlsp = e.old_qlsp /\ f.vbr = e.vbr
        /\ f.submodeID = s.mode /\ f.submodeSelect = s.mode /\ f.dtx_count = s.count
    BY <1>1, <1>4, <1>5
  <2>3. f.vbr_max > 0 => Rate(f.submodeID) <= f.vbr_max
    BY <1>6, <1>7, <2>2
  <2>4. Detects(f)
    BY <1>1, <2>2 DEF Detects
  <2>5. Chosen(e, f) /\ Counted(e, f)
    BY <1>1, <1>6, <2>2, <2>3, <2>4 DEF Chosen, Counted
  <2> QED BY <2>1, <2>5
<1>8. CASE f.vbr_max > 0 /\ GET_BITRATE(f) > f.vbr_max
  <2>1. VbrMode(e, a) = SET_BITRATE(f, e.vbr_max)
    BY <1>6, <1>8 DEF VbrMode, f, g, s
  <2>2. PICK m \in Coded : /\ SET_BITRATE(f, e.vbr_max) = SET_MODE(f, m)
                           /\ Rate(m) <= e.vbr_max \/ m = 1
                           /\ Rate(1) > e.vbr_max => m = 1
    <3>1. e.vbr_max \in Nat
      BY <1>6
    <3> QED BY <3>1, BitrateIsAffordable
  <2>3. s.count > 0 => m = 1
    <3>1. CASE s.mode = 0
      \* Five bits are too many: so are those of submode 1.
      <4>1. Rate(0) <= Rate(1) /\ Rate(0) \in Nat /\ Rate(1) \in Nat
        BY ModeTable DEF Modes
      <4> QED BY <1>6, <1>8, <2>2, <3>1, <4>1
    <3>2. CASE s.mode = 1
      BY <1>6, <1>8, <2>2, <3>2
    <3> QED BY <1>1, <3>1, <3>2
  <2>4. m \in Modes /\ m # 0
    BY DEF Modes, Coded
  <2>5. Chosen(e, h(m)) /\ Counted(e, h(m))
    BY <1>1, <1>4, <2>2, <2>3, <2>4 DEF Chosen, Counted, Detects
  <2> QED BY <1>3, <2>1, <2>2, <2>4, <2>5
<1> QED BY <1>7, <1>8

\* so it is when VAD chooses, unless VBR left no submode to go back to, or when
\* the user did.
LEMMA NextChosen ==
  ASSUME NEW e \in EncStates, NEW a, a.choice \in Modes
  PROVE  LET f == ChooseMode(e, a)
         IN  /\ Chosen(e, f)
             /\ Detects(e) \/ ((e.vbr \/ e.vad) /\ f.submodeSelect # 0) => Counted(e, f)
<1>1. CASE e.vbr
  BY <1>1, VbrChooses DEF ChooseMode
<1>2. CASE ~e.vbr /\ e.vad
  <2> DEFINE s == IF a.quiet THEN Silence(e, a) ELSE [mode |-> e.submodeSelect, count |-> 0]
             f == [e EXCEPT !.submodeID = s.mode, !.dtx_count = s.count]
  <2>1. e.submodeSelect \in Modes /\ DtxRefresh \in Nat /\ (Detects(e) => e.submodeSelect # 0)
    BY <1>2, SessionAssumption DEF EncStates, Detects
  <2>2. /\ s.mode \in Modes /\ s.count \in 0..(DtxRefresh + 1)
        /\ e.submodeSelect # 0 => (s.count = 0 => s.mode # 0)
        /\ s.count > 0 => s.mode \in {0, 1}
        /\ e.submodeSelect # 0 =>
             (s.mode = 0 => e.dtx_count \in 1..DtxRefresh /\ s.count = e.dtx_count + 1)
    <3>1. CASE a.quiet
      BY <2>1, <3>1, SilenceCounts DEF Modes
    <3>2. CASE ~a.quiet
      BY <2>1, <3>2 DEF Modes
    <3> QED BY <3>1, <3>2
  <2> HIDE DEF s
  <2>3. f \in EncStates /\ f.first = e.first /\ f.old_qlsp = e.old_qlsp /\ f.vbr = e.vbr /\ f.vad = e.vad
        /\ f.vbr_max = e.vbr_max /\ f.submodeID = s.mode /\ f.submodeSelect = e.submodeSelect
        /\ f.dtx_count = s.count
    BY <2>2 DEF EncStates
  <2>4. ChooseMode(e, a) = f
    BY <1>2 DEF ChooseMode, VadMode, s
  <2> HIDE DEF f
  <2>5. Chosen(e, f)
    BY <1>2, <2>3 DEF Chosen
  <2>6. e.submodeSelect # 0 => Counted(e, f)
    BY <1>2, <2>2, <2>3 DEF Counted, Detects
  <2> QED BY <2>1, <2>3, <2>4, <2>5, <2>6
<1>3. CASE ~e.vbr /\ ~e.vad
  <2>1. Detects(e) => e.dtx_count = 0 /\ e.submodeID # 0
    BY <1>3 DEF Detects, EncStates
  <2>2. ChooseMode(e, a) = e
    BY <1>3 DEF ChooseMode
  <2>3. Chosen(e, e)
    BY <1>3 DEF Chosen
  <2>4. Detects(e) => Counted(e, e)
    BY <2>1 DEF Counted
  <2> QED BY <1>3, <2>2, <2>3, <2>4
<1> QED BY <1>1, <1>2, <1>3
-----------------------------------------------------------------------------
(* The frames on the way.                                                  *)

\* A chain stays one when the encoder's frame comes to its end.
LEMMA ChainGrows ==
  ASSUME NEW s \in Seq(Blocks), NEW g \in Blocks, g.kind = "nb",
         NEW e, NEW f, NEW d, NEW lost \in BOOLEAN,
         Chain(e, s, d, lost),
         \A h : Ends(e, h) => Follows(h, g),
         Tuned(e, d) => Starts(d, g),
         Ends(f, g)
  PROVE  Chain(f, Append(s, g), d, lost)
<1> DEFINE t == Append(s, g)
           n == Len(s)
<1>1. /\ n \in Nat /\ DOMAIN s = 1..n /\ DOMAIN t = 1..(n + 1)
      /\ t[n + 1] = g /\ \A i \in 1..n : t[i] = s[i]
  BY AppendProperties, LenProperties
<1> HIDE DEF t, n
<1>2. Frames(t) = Frames(s) \cup {n + 1} /\ Frames(s) \subseteq 1..n
  BY <1>1 DEF Frames
<1>3. \A i, j \in DOMAIN t : Adjacent(t, i, j) => Follows(t[i], t[j])
  <2> SUFFICES ASSUME NEW i \in 1..(n + 1), NEW j \in 1..(n + 1), Adjacent(t, i, j)
               PROVE  Follows(t[i], t[j])
    BY <1>1
  <2>1. CASE j = n + 1
    <3>1. LastIn(s, i) /\ i \in 1..n
      BY <1>1, <1>2, <2>1 DEF Adjacent, LastIn
    <3> QED BY <1>1, <2>1, <3>1 DEF Chain
  <2>2. CASE j # n + 1
    <3>1. Adjacent(s, i, j) /\ i \in 1..n /\ j \in 1..n
      BY <1>1, <1>2, <2>2 DEF Adjacent
    <3> QED BY <1>1, <3>1 DEF Chain
  <2> QED BY <2>1, <2>2
<1>4. \A i \in DOMAIN t : LastIn(t, i) => Ends(f, t[i])
  BY <1>1, <1>2 DEF LastIn
<1>5. ~lost => \A i \in DOMAIN t : FirstIn(t, i) => Starts(d, t[i])
  <2> SUFFICES ASSUME ~lost, NEW i \in 1..(n + 1), FirstIn(t, i)
               PROVE  Starts(d, t[i])
    BY <1>1
  <2>1. CASE i = n + 1
    <3>1. Frames(s) = {}
      BY <1>1, <1>2, <2>1 DEF FirstIn
    <3> QED BY <1>1, <2>1, <3>1 DEF Chain
  <2>2. CASE i # n + 1
    <3>1. FirstIn(s, i) /\ i \in 1..n
      BY <1>2, <2>2 DEF FirstIn
    <3> QED BY <1>1, <3>1 DEF Chain
  <2> QED BY <2>1, <2>2
<1>6. Frames(t) # {}
  BY <1>2
<1> QED BY <1>3, <1>4, <1>5, <1>6 DEF Chain, t

\* Only the frames count: what else stands in a packet does not.
LEMMA ChainSkips ==
  ASSUME NEW s \in Seq(Blocks), NEW t \in Seq(Blocks), NEW e, NEW d, NEW lost \in BOOLEAN,
         Chain(e, s, d, lost), Frames(t) = Frames(s), \A i \in Frames(s) : t[i] = s[i]
  PROVE  Chain(e, t, d, lost)
<1>1. Frames(s) \subseteq DOMAIN s /\ Frames(t) \subseteq DOMAIN t
  BY DEF Frames
<1>2. \A i, j \in DOMAIN t : Adjacent(t, i, j) => Follows(t[i], t[j])
  <2> SUFFICES ASSUME NEW i \in DOMAIN t, NEW j \in DOMAIN t, Adjacent(t, i, j)
               PROVE  Follows(t[i], t[j])
    OBVIOUS
  <2>1. Adjacent(s, i, j) /\ i \in Frames(s) /\ j \in Frames(s)
    BY DEF Adjacent
  <2> QED BY <1>1, <2>1 DEF Chain
<1>3. \A i \in DOMAIN t : LastIn(t, i) => Ends(e, t[i])
  <2> SUFFICES ASSUME NEW i \in DOMAIN t, LastIn(t, i)
               PROVE  Ends(e, t[i])
    OBVIOUS
  <2>1. LastIn(s, i) /\ i \in Frames(s)
    BY DEF LastIn
  <2> QED BY <1>1, <2>1 DEF Chain
<1>4. ~lost => \A i \in DOMAIN t : FirstIn(t, i) => Starts(d, t[i])
  <2> SUFFICES ASSUME ~lost, NEW i \in DOMAIN t, FirstIn(t, i)
               PROVE  Starts(d, t[i])
    OBVIOUS
  <2>1. FirstIn(s, i) /\ i \in Frames(s)
    BY DEF FirstIn
  <2> QED BY <1>1, <2>1 DEF Chain
<1> QED BY <1>2, <1>3, <1>4 DEF Chain

\* The blocks t are those of the n blocks s that come behind the frame at p.
Behind(s, p, t, n) ==
  /\ n \in Nat /\ DOMAIN s = 1..n /\ p \in 1..n /\ DOMAIN t = 1..(n - p)
  /\ t \in Seq(Blocks) /\ \A i \in 1..(n - p) : t[i] = s[p + i]
  /\ Frames(t) \subseteq 1..(n - p)
  /\ \A i \in 1..(n - p) : i \in Frames(t) <=> p + i \in Frames(s)
  /\ \A i \in Frames(s) : p <= i /\ (i # p => i - p \in Frames(t) /\ i \in 1..n)

\* What is left of the blocks behind the first frame.
LEMMA Shrunk ==
  ASSUME NEW s \in Seq(Blocks), NEW p, FirstIn(s, p)
  PROVE  Behind(s, p, SubSeq(s, p + 1, Len(s)), Len(s))
<1> DEFINE n == Len(s)
           t == SubSeq(s, p + 1, n)
<1>1. n \in Nat /\ DOMAIN s = 1..n /\ p \in 1..n
  BY LenProperties DEF FirstIn, Frames
<1>2. \A i \in (p + 1)..n : s[i] \in Blocks
  BY <1>1, ElementOfSeq
<1>3. t \in Seq(Blocks) /\ Len(t) = n - p /\ \A i \in 1..(n - p) : t[i] = s[p + i]
  <2>1. p + 1 \in Int /\ n \in Int
    BY <1>1
  <2> HIDE DEF n
  <2>2. /\ t \in Seq(Blocks)
        /\ Len(t) = IF p + 1 <= n THEN n - (p + 1) + 1 ELSE 0
        /\ \A i \in 1..(n - (p + 1) + 1) : t[i] = s[(p + 1) + i - 1]
    BY <1>2, <2>1, SubSeqProperties
  <2>3. n - (p + 1) + 1 = n - p /\ \A i \in 1..(n - p) : (p + 1) + i - 1 = p + i
    BY <1>1
  <2> HIDE DEF t
  <2> QED BY <1>1, <2>2, <2>3
<1>4. DOMAIN t = 1..(n - p)
  BY <1>3, LenProperties
<1> HIDE DEF t, n
<1>5. Frames(t) \subseteq 1..(n - p) /\ \A i \in 1..(n - p) : i \in Frames(t) <=> p + i \in Frames(s)
  BY <1>1, <1>3, <1>4 DEF Frames
<1>6. \A i \in Frames(s) : p <= i /\ (i # p => i - p \in Frames(t) /\ i \in 1..n)
  <2>1. \A i \in Frames(s) : p <= i /\ i \in 1..n
    BY <1>1 DEF FirstIn, Frames
  <2>2. \A i \in Frames(s) : i # p => i - p \in 1..(n - p) /\ p + (i - p) = i
    BY <1>1, <2>1
  <2> QED BY <1>5, <2>1, <2>2
<1>7. Behind(s, p, t, n)
  BY <1>1, <1>3, <1>4, <1>5, <1>6 DEF Behind
<1> QED BY <1>7 DEF t, n

\* The decoder takes the first frame off a chain, and with it what comes before.
LEMMA ChainShrinks ==
  ASSUME NEW s \in Seq(Blocks), NEW p, FirstIn(s, p),
         NEW e, NEW d, NEW c, NEW was \in BOOLEAN, NEW is \in BOOLEAN,
         Chain(e, s, d, was),
         ~is => \A g : Follows(s[p], g) => Starts(c, g),
         ~is => (Ends(e, s[p]) => Tuned(e, c))
  PROVE  Chain(e, SubSeq(s, p + 1, Len(s)), c, is)
<1> DEFINE n == Len(s)
           t == SubSeq(s, p + 1, n)
<1>1. n \in Nat /\ DOMAIN s = 1..n /\ p \in 1..n
  BY LenProperties DEF FirstIn, Frames
<1>2. /\ t \in Seq(Blocks) /\ \A i \in 1..(n - p) : t[i] = s[p + i]
      /\ DOMAIN t = 1..(n - p) /\ Frames(t) \subseteq 1..(n - p)
      /\ \A i \in 1..(n - p) : i \in Frames(t) <=> p + i \in Frames(s)
      /\ \A i \in Frames(s) : p <= i /\ (i # p => i - p \in Frames(t) /\ i \in 1..n)
  <2>1. Behind(s, p, t, n)
    BY Shrunk
  <2> HIDE DEF t, n
  <2> QED BY <2>1 DEF Behind
<1> HIDE DEF t, n
<1>7. \A i, j \in DOMAIN t : Adjacent(t, i, j) => Follows(t[i], t[j])
  <2> SUFFICES ASSUME NEW i \in 1..(n - p), NEW j \in 1..(n - p), Adjacent(t, i, j)
               PROVE  Follows(t[i], t[j])
    BY <1>2
  <2>1. Adjacent(s, p + i, p + j)
    <3>1. p + i \in Frames(s) /\ p + j \in Frames(s) /\ p + i < p + j
      BY <1>1, <1>2 DEF Adjacent
    <3>2. ASSUME NEW k \in Frames(s) PROVE k <= p + i \/ p + j <= k
      <4>1. k \in 1..n /\ (k # p => k - p \in Frames(t))
        BY <1>1, <1>2
      <4>2. k # p => k - p <= i \/ j <= k - p
        BY <4>1 DEF Adjacent
      <4> QED BY <1>1, <4>1, <4>2
    <3> QED BY <3>1, <3>2 DEF Adjacent
  <2>2. p + i \in DOMAIN s /\ p + j \in DOMAIN s
    BY <1>1
  <2> QED BY <1>2, <2>1, <2>2 DEF Chain
<1>8. \A i \in DOMAIN t : LastIn(t, i) => Ends(e, t[i])
  <2> SUFFICES ASSUME NEW i \in 1..(n - p), LastIn(t, i)
               PROVE  Ends(e, t[i])
    BY <1>2
  <2>1. ASSUME NEW k \in Frames(s) PROVE k <= p + i
    <3>1. k \in 1..n /\ (k # p => k - p \in Frames(t))
      BY <1>1, <1>2
    <3>2. k # p => k - p <= i
      BY <3>1 DEF LastIn
    <3> QED BY <1>1, <3>1, <3>2
  <2>2. LastIn(s, p + i) /\ p + i \in DOMAIN s
    BY <1>1, <1>2, <2>1 DEF LastIn
  <2> QED BY <1>2, <2>2 DEF Chain
<1>9. ~is => \A i \in DOMAIN t : FirstIn(t, i) => Starts(c, t[i])
  <2> SUFFICES ASSUME ~is, NEW i \in 1..(n - p), FirstIn(t, i)
               PROVE  Starts(c, t[i])
    BY <1>2
  <2>1. ASSUME NEW k \in Frames(s) PROVE k <= p \/ p + i <= k
    <3>1. k \in 1..n /\ (k # p => k - p \in Frames(t))
      BY <1>1, <1>2
    <3>2. k # p => i <= k - p
      BY <3>1 DEF FirstIn
    <3> QED BY <1>1, <3>1, <3>2
  <2>2. Adjacent(s, p, p + i) /\ p + i \in DOMAIN s
    BY <1>1, <1>2, <2>1 DEF Adjacent, FirstIn
  <2>3. Follows(s[p], t[i])
    BY <1>1, <1>2, <2>2 DEF Chain
  <2> QED BY <2>3
<1>10. ~is /\ Frames(t) = {} => Tuned(e, c)
  <2> SUFFICES ASSUME ~is, Frames(t) = {}
               PROVE  Tuned(e, c)
    OBVIOUS
  <2>1. LastIn(s, p)
    BY <1>1, <1>2 DEF LastIn, FirstIn
  <2> QED BY <1>1, <2>1 DEF Chain
<1> QED BY <1>7, <1>8, <1>9, <1>10 DEF Chain, t, n
\* A silence goes on with a null frame, a frame that is sent announces it.
LEMMA ToldGrows ==
  ASSUME NEW s \in Seq(Blocks), NEW g \in Blocks, g.kind = "nb",
         NEW k \in Nat, NEW n \in Nat, NEW d, NEW lost \in BOOLEAN,
         g.m = 0 => k > 0 /\ n > 0 /\ Told(n, s, d, lost),
         g.m # 0 /\ k > 0 => Announces(g)
  PROVE  Told(k, Append(s, g), d, lost)
<1> DEFINE t == Append(s, g)
           l == Len(s)
<1>1. /\ l \in Nat /\ DOMAIN s = 1..l /\ DOMAIN t = 1..(l + 1)
      /\ t[l + 1] = g /\ \A i \in 1..l : t[i] = s[i]
  BY AppendProperties, LenProperties
<1> HIDE DEF t, l
<1>2. Frames(t) = Frames(s) \cup {l + 1} /\ Frames(s) \subseteq 1..l
  BY <1>1 DEF Frames
<1>3. \A i \in DOMAIN t : LastIn(t, i) => i = l + 1
  BY <1>1, <1>2 DEF LastIn
<1>4. CASE g.m = 0
  <2>1. Sent(t) = Sent(s) /\ \A i \in Sent(s) : t[i] = s[i]
    BY <1>1, <1>2, <1>4 DEF Sent
  <2>2. \A i \in Sent(t) : (\A j \in Sent(t) : j <= i) => Announces(t[i])
    BY <1>4, <2>1 DEF Told
  <2>3. ~lost /\ Sent(t) = {} => d.dtx_enabled
    BY <1>4, <2>1 DEF Told
  <2> QED BY <1>4, <2>2, <2>3 DEF Told, t
<1>5. CASE g.m # 0
  <2>1. l + 1 \in Sent(t) /\ Sent(t) \subseteq 1..(l + 1)
    BY <1>1, <1>2, <1>5 DEF Sent
  <2>2. \A i \in Sent(t) : (\A j \in Sent(t) : j <= i) => i = l + 1
    BY <1>1, <2>1
  <2>3. k > 0 => \A i \in Sent(t) : (\A j \in Sent(t) : j <= i) => Announces(t[i])
    BY <1>1, <1>5, <2>2
  <2>4. \A i \in DOMAIN t : LastIn(t, i) /\ t[i].m = 0 => k > 0
    BY <1>1, <1>3, <1>5
  <2> QED BY <2>1, <2>3, <2>4 DEF Told, t
<1> QED BY <1>4, <1>5

\* Only the frames count here too.
LEMMA ToldSkips ==
  ASSUME NEW s \in Seq(Blocks), NEW t \in Seq(Blocks), NEW n, NEW d, NEW lost \in BOOLEAN,
         Told(n, s, d, lost), Frames(t) = Frames(s), \A i \in Frames(s) : t[i] = s[i]
  PROVE  Told(n, t, d, lost)
<1>1. Frames(s) \subseteq DOMAIN s /\ Frames(t) \subseteq DOMAIN t
  BY DEF Frames
<1>2. Sent(t) = Sent(s) /\ Sent(s) \subseteq Frames(s)
  BY DEF Sent
<1>3. \A i \in Sent(t) : t[i] = s[i]
  BY <1>2
<1>4. \A i \in DOMAIN t : LastIn(t, i) /\ t[i].m = 0 => n > 0
  <2> SUFFICES ASSUME NEW i \in DOMAIN t, LastIn(t, i), t[i].m = 0
               PROVE  n > 0
    OBVIOUS
  <2>1. LastIn(s, i) /\ i \in Frames(s)
    BY DEF LastIn
  <2> QED BY <1>1, <2>1 DEF Told
<1>5. n > 0 => \A i \in Sent(t) : (\A j \in Sent(t) : j <= i) => Announces(t[i])
  BY <1>2, <1>3 DEF Told
<1>6. n > 0 /\ ~lost /\ Sent(t) = {} => d.dtx_enabled
  BY <1>2 DEF Told
<1> QED BY <1>4, <1>5, <1>6 DEF Told

\* And the decoder hears what the frame it takes announces.
LEMMA ToldShrinks ==
  ASSUME NEW s \in Seq(Blocks), NEW p, FirstIn(s, p),
         NEW k, NEW d, NEW c, NEW was \in BOOLEAN, NEW is \in BOOLEAN,
         Told(k, s, d, was),
         s[p].m = 0 => c.dtx_enabled = d.dtx_enabled /\ (is <=> was),
         s[p].m # 0 /\ Announces(s[p]) => c.dtx_enabled
  PROVE  Told(k, SubSeq(s, p + 1, Len(s)), c, is)
<1> DEFINE n == Len(s)
           t == SubSeq(s, p + 1, n)
<1>1. n \in Nat /\ DOMAIN s = 1..n /\ p \in 1..n
  BY LenProperties DEF FirstIn, Frames
<1>2. /\ t \in Seq(Blocks) /\ \A i \in 1..(n - p) : t[i] = s[p + i]
      /\ DOMAIN t = 1..(n - p) /\ Frames(t) \subseteq 1..(n - p)
      /\ \A i \in 1..(n - p) : i \in Frames(t) <=> p + i \in Frames(s)
      /\ \A i \in Frames(s) : p <= i /\ (i # p => i - p \in Frames(t) /\ i \in 1..n)
  <2>1. Behind(s, p, t, n)
    BY Shrunk
  <2> HIDE DEF t, n
  <2> QED BY <2>1 DEF Behind
<1> HIDE DEF t, n
<1>3. p \in Frames(s) /\ (p \in Sent(s) <=> s[p].m # 0)
  BY DEF FirstIn, Sent
<1>4. \A i \in 1..(n - p) : i \in Sent(t) <=> p + i \in Sent(s)
  BY <1>2 DEF Sent
<1>5. Sent(t) \subseteq 1..(n - p)
  BY <1>2 DEF Sent
<1>6. \A i \in Sent(s) : p <= i /\ (i # p => i - p \in Sent(t) /\ i \in 1..n)
  <2> SUFFICES ASSUME NEW i \in Sent(s) PROVE p <= i /\ (i # p => i - p \in Sent(t) /\ i \in 1..n)
    OBVIOUS
  <2>1. i \in Frames(s) /\ s[i].m # 0
    BY DEF Sent
  <2>2. CASE i # p
    <3>1. i - p \in Frames(t) /\ i \in 1..n /\ i - p \in 1..(n - p)
      BY <1>2, <2>1, <2>2
    <3>2. t[i - p] = s[p + (i - p)] /\ p + (i - p) = i
      BY <1>1, <1>2, <3>1
    <3> QED BY <1>2, <2>1, <3>1, <3>2 DEF Sent
  <2> QED BY <1>2, <2>1, <2>2
<1>7. k > 0 => \A i \in Sent(t) : (\A j \in Sent(t) : j <= i) => Announces(t[i])
  <2> SUFFICES ASSUME k > 0, NEW i \in Sent(t), \A j \in Sent(t) : j <= i
               PROVE  Announces(t[i])
    OBVIOUS
  <2>1. i \in 1..(n - p) /\ p + i \in Sent(s) /\ t[i] = s[p + i]
    BY <1>2, <1>4, <1>5
  <2>2. ASSUME NEW j \in Sent(s) PROVE j <= p + i
    <3>1. CASE j = p
      BY <1>1, <2>1, <3>1
    <3>2. CASE j # p
      <4>1. j - p <= i /\ j \in 1..n
        BY <1>6, <3>2
      <4> QED BY <1>1, <2>1, <4>1
    <3> QED BY <3>1, <3>2
  <2> QED BY <2>1, <2>2 DEF Told
<1>8. k > 0 /\ ~is /\ Sent(t) = {} => c.dtx_enabled
  <2> SUFFICES ASSUME k > 0, ~is, Sent(t) = {} PROVE c.dtx_enabled
    OBVIOUS
  <2>1. \A i \in Sent(s) : i = p
    BY <1>6
  <2>2. CASE s[p].m = 0
    <3>1. Sent(s) = {}
      BY <1>3, <2>1, <2>2
    <3> QED BY <2>2, <3>1 DEF Told
  <2>3. CASE s[p].m # 0
    <3>1. p \in Sent(s) /\ \A j \in Sent(s) : j <= p
      BY <1>1, <1>3, <2>1, <2>3
    <3> QED BY <2>3, <3>1 DEF Told
  <2> QED BY <2>2, <2>3
<1>9. \A i \in DOMAIN t : LastIn(t, i) /\ t[i].m = 0 => k > 0
  <2> SUFFICES ASSUME NEW i \in 1..(n - p), LastIn(t, i), t[i].m = 0
               PROVE  k > 0
    BY <1>2
  <2>1. ASSUME NEW j \in Frames(s) PROVE j <= p + i
    <3>1. j \in 1..n /\ (j # p => j - p \in Frames(t))
      BY <1>1, <1>2
    <3>2. j # p => j - p <= i
      BY <3>1 DEF LastIn
    <3> QED BY <1>1, <3>1, <3>2
  <2>2. LastIn(s, p + i) /\ p + i \in DOMAIN s
    BY <1>1, <1>2, <2>1 DEF LastIn
  <2> QED BY <1>2, <2>2 DEF Told
<1> QED BY <1>7, <1>8, <1>9 DEF Told, t, n
-----------------------------------------------------------------------------
(* One frame.                                                              *)

\* A frame is null or coded as its submode says.
LEMMA FrameKinds ==
  ASSUME NEW f \in NullFrames \cup CodedFrames
  PROVE  /\ f.m \in Modes /\ (IsNull(f.m) <=> f.m = 0)
         /\ f.m = 0 => f \in NullFrames
         /\ f.m # 0 => f \in CodedFrames
<1>1. CASE f \in NullFrames
  <2>1. f.m = 0
    BY <1>1 DEF NullFrames
  <2> QED BY <1>1, <2>1, ModeTable DEF Modes
<1>2. CASE f \in CodedFrames
  <2>1. f.m \in 1..8
    BY <1>2 DEF CodedFrames, Coded
  <2>2. f.m \in Modes /\ f.m # 0
    BY <2>1 DEF Modes
  <2> QED BY <1>2, <2>2, ModeTable
<1> QED BY <1>1, <1>2

\* What nb_encode makes of a frame: a frame that follows the encoder's last, or
\* starts a decoder that is in tune, and that the encoder's new state ends with;
\* and that announces a silence, or goes on with one, if detection chose it.
LEMMA FrameEncoded ==
  ASSUME NEW e \in EncStates, NEW a \in Analysis,
         NEW r, r = nb_encode(e, a)
  PROVE  /\ r.e \in EncStates
         /\ r.frame \in NullFrames \cup CodedFrames /\ r.frame.kind = "nb"
         /\ \A h : Ends(e, h) => Follows(h, r.frame)
         /\ \A d : Tuned(e, d) => Starts(d, r.frame)
         /\ Ends(r.e, r.frame)
         /\ r.frame.sent <=> r.frame.m # 0
         /\ r.e.vbr /\ r.e.vbr_max > 0 => Rate(r.frame.m) <= r.e.vbr_max \/ r.frame.m = 1
         /\ Detects(e) \/ ((e.vbr \/ e.vad) /\ r.e.submodeSelect # 0) =>
              /\ Detects(r.e)
              /\ r.frame.m = 0 => e.dtx_count \in 1..DtxRefresh /\ r.e.dtx_count = e.dtx_count + 1
              /\ r.frame.m # 0 /\ r.e.dtx_count > 0 => Announces(r.frame)
<1> DEFINE f == ChooseMode(e, a)
<1>1. a.choice \in Modes /\ a.lsp \in Lsps /\ a.gain \in Gains
  BY SessionAssumption DEF Analysis, Modes
<1> DEFINE cause == Detects(e) \/ ((e.vbr \/ e.vad) /\ f.submodeSelect # 0)
<1>2. Chosen(e, f) /\ (cause => Counted(e, f))
  BY <1>1, NextChosen
<1> HIDE DEF f
<1>3. f \in EncStates /\ f.submodeID \in Modes /\ f.dtx_count \in 0..(DtxRefresh + 1)
      /\ f.first \in BOOLEAN /\ f.first = e.first /\ f.old_qlsp = e.old_qlsp /\ f.old_qlsp \in Lsps
      /\ DtxRefresh \in Nat /\ e.dtx_count \in 0..(DtxRefresh + 1)
  BY <1>2, SessionAssumption DEF Chosen, EncStates
<1>4. CASE f.submodeID = 0
  <2>1. r = NullFrame(f)
    BY <1>3, <1>4, ModeTable DEF nb_encode, f
  <2>2. r.e = [f EXCEPT !.first = TRUE, !.bounded_pitch = TRUE]
        /\ r.frame = [kind |-> "nb", m |-> f.submodeID, sent |-> FALSE]
    BY <2>1 DEF NullFrame
  <2>3. /\ r.e \in EncStates /\ r.e.first = TRUE /\ r.e.submodeID = f.submodeID
        /\ r.e.submodeSelect = f.submodeSelect /\ r.e.vbr = f.vbr /\ r.e.vad = f.vad
        /\ r.e.dtx_count = f.dtx_count
    BY <1>3, <2>2 DEF EncStates
  <2>4. r.frame \in NullFrames /\ r.frame.m = 0 /\ r.frame.kind = "nb" /\ r.frame.sent = FALSE
    BY <1>4, <2>2 DEF NullFrames
  <2>5. cause => Detects(r.e)
    BY <1>2, <2>3 DEF Detects, Counted
  <2>6. cause => e.dtx_count \in 1..DtxRefresh /\ f.dtx_count = e.dtx_count + 1
    BY <1>2, <1>4 DEF Counted
  <2>7. \A h : Ends(e, h) => Follows(h, r.frame)
    BY <2>4 DEF Follows
  <2>8. \A d : Tuned(e, d) => Starts(d, r.frame)
    BY <2>4 DEF Starts
  <2>9. Ends(r.e, r.frame)
    BY <2>3, <2>4 DEF Ends
  <2>10. Rate(r.frame.m) <= r.e.vbr_max \/ r.frame.m = 1 \/ ~(r.e.vbr /\ r.e.vbr_max > 0)
    <3>1. r.e.vbr_max = f.vbr_max
      BY <1>3, <2>2 DEF EncStates
    <3> QED BY <1>2, <1>4, <2>3, <2>4, <3>1 DEF Chosen
  <2> QED BY <2>3, <2>4, <2>5, <2>6, <2>7, <2>8, <2>9, <2>10
<1>5. CASE f.submodeID # 0
  <2> DEFINE from == IF f.first THEN a.lsp ELSE f.old_qlsp
             extra == IF f.submodeID = 1 /\ f.dtx_count # 0 THEN 15 ELSE 0
             quiet == submodes[f.submodeID].innovation = noise_codebook
             lsp == IF f.submodeID >= 1 THEN a.lsp ELSE f.old_qlsp
  <2>1. r = CodedFrame(f, a) /\ f.submodeID \in Coded /\ f.submodeID >= 1
    <3>1. ~IsNull(f.submodeID)
      BY <1>3, <1>5, ModeTable
    <3>2. r = CodedFrame(f, a)
      BY <3>1 DEF nb_encode, f
    <3> QED BY <1>3, <1>5, <3>2 DEF Modes, Coded
  <2>2. r.e = [f EXCEPT !.old_qlsp = lsp, !.first = FALSE, !.bounded_pitch = quiet]
    BY <2>1 DEF CodedFrame
  <2>3. r.frame = [kind |-> "nb", m |-> f.submodeID, sent |-> TRUE, lsp |-> a.lsp,
                   from |-> from, gain |-> a.gain, extra |-> extra]
    BY <2>1 DEF CodedFrame
  <2>4. from \in Lsps /\ extra \in {0, 15} /\ quiet \in BOOLEAN /\ lsp = a.lsp
    BY <1>1, <1>3, <2>1
  <2>5. (f.first => from = a.lsp) /\ (~f.first => from = f.old_qlsp)
        /\ (f.submodeID = 1 /\ f.dtx_count > 0 => extra = 15)
    BY <1>3
  <2> HIDE DEF from, extra, quiet, lsp
  <2>6. /\ r.e \in EncStates /\ r.e.first = FALSE /\ r.e.submodeID = f.submodeID
        /\ r.e.submodeSelect = f.submodeSelect /\ r.e.vbr = f.vbr /\ r.e.vad = f.vad
        /\ r.e.dtx_count = f.dtx_count /\ r.e.old_qlsp = a.lsp /\ r.e.vbr_max = f.vbr_max
    BY <1>1, <1>3, <2>2, <2>4 DEF EncStates
  <2>7. /\ r.frame \in CodedFrames /\ r.frame.m = f.submodeID /\ r.frame.kind = "nb"
        /\ r.frame.sent = TRUE /\ r.frame.lsp = a.lsp /\ r.frame.from = from /\ r.frame.extra = extra
    BY <1>1, <2>1, <2>3, <2>4 DEF CodedFrames
  <2>8. cause => Detects(r.e)
    BY <1>2, <2>6 DEF Detects, Counted
  <2>9. \A h : Ends(e, h) => Follows(h, r.frame)
    BY <1>3, <1>5, <2>5, <2>7 DEF Ends, Follows
  <2>10. \A d : Tuned(e, d) => Starts(d, r.frame)
    BY <1>3, <1>5, <2>5, <2>7 DEF Tuned, Starts, InterpolatedFrom
  <2>11. Ends(r.e, r.frame)
    BY <1>5, <2>6, <2>7 DEF Ends
  <2>13. cause => (r.e.dtx_count > 0 => Announces(r.frame))
    BY <1>2, <1>5, <2>5, <2>6, <2>7 DEF Counted, Announces
  <2>12. Rate(r.frame.m) <= r.e.vbr_max \/ r.frame.m = 1 \/ ~(r.e.vbr /\ r.e.vbr_max > 0)
    BY <1>2, <2>6, <2>7 DEF Chosen
  <2> QED BY <1>5, <2>6, <2>7, <2>8, <2>9, <2>10, <2>11, <2>12, <2>13
<1> QED BY <1>4, <1>5

\* Nothing decoded: the noise of a null frame makes the next frame a first one,
\* and a lost frame is counted.
LEMMA NothingDecoded ==
  ASSUME NEW d, Decoding(d)
  PROVE  /\ LET c == NullSynthesis(d)
            IN  Decoding(c) /\ c.first /\ c.count_lost = 0 /\ c.dtx_enabled = d.dtx_enabled
         /\ LET c == nb_decode_lost(d)
            IN  Decoding(c) /\ c.count_lost > 0 /\ ~c.first /\ c.dtx_enabled = d.dtx_enabled
<1>1. LET c == NullSynthesis(d)
      IN  Decoding(c) /\ c.first /\ c.count_lost = 0 /\ c.dtx_enabled = d.dtx_enabled
  BY DEF Decoding, NullSynthesis
<1>2. LET c == nb_decode_lost(d)
      IN  Decoding(c) /\ c.count_lost > 0 /\ ~c.first /\ c.dtx_enabled = d.dtx_enabled
  <2> DEFINE g == Least(d.last_pitch_gain, median3(d.pitch_gain_buf))
             h == Remember(d.pitch_gain_buf, (ConcealedGain(d) + 256) \div 512)
  <2>1. nb_decode_lost(d) = [d EXCEPT !.last_pitch_gain = g, !.first = FALSE,
                                      !.count_lost = d.count_lost + 1, !.pitch_gain_buf = h]
    BY DEF nb_decode_lost
  <2> HIDE DEF g, h
  <2> QED BY <2>1 DEF Decoding
<1> QED BY <1>1, <1>2

\* A frame decoded is what the next goes on from.
LEMMA FrameDecoded ==
  ASSUME NEW d, Decoding(d), NEW f, NEW reaching
  PROVE  LET c == Synthesis(d, f, reaching)
         IN  /\ Decoding(c) /\ ~c.first /\ c.count_lost = 0 /\ c.old_qlsp = f.lsp
             /\ Announces(f) => c.dtx_enabled
<1> DEFINE g == pitch_unquant(d, f, reaching)
           h == Remember(d.pitch_gain_buf, g)
           t == IF f.m = 1 THEN f.extra = 15 ELSE IF f.m > 1 THEN FALSE ELSE d.dtx_enabled
<1>1. Synthesis(d, f, reaching) =
        [d EXCEPT !.old_qlsp = f.lsp, !.first = FALSE, !.count_lost = 0,
                  !.dtx_enabled = t, !.last_pitch_gain = g, !.pitch_gain_buf = h]
  BY DEF Synthesis
<1>2. t \in BOOLEAN /\ (Announces(f) => t)
  BY DEF Announces, Decoding
<1> HIDE DEF g, h, t
<1> QED BY <1>1, <1>2 DEF Decoding

-----------------------------------------------------------------------------
(* The invariant is inductive.                                             *)

\* A call begins in tune.
LEMMA InitInv == Init => Inv
<1> SUFFICES ASSUME Init PROVE Inv
  OBVIOUS
<1>1. PICK l \in Lsps : enc = nb_encoder_init(l) /\ dec = nb_decoder_init(l)
  BY DEF Init
<1>2. out = <<>> /\ net = <<>> /\ owed = None /\ gap = FALSE /\ nulls = 0 /\ cut = FALSE
  BY DEF Init
<1>3. enc \in EncStates /\ enc.dtx_count = 0 /\ enc.first = TRUE /\ enc.submodeID = 5 /\ enc.submodeSelect = 5
  BY <1>1, SessionAssumption DEF nb_encoder_init, EncStates, Modes
<1>4. Decoding(dec) /\ dec.first = TRUE
  BY <1>1 DEF nb_decoder_init, Decoding
<1>5. owed \in [n : Nat, why : {"none", "silence", "lost"}] /\ owed.n = 0
  BY <1>2 DEF None
<1>6. <<>> \in Seq(Blocks) /\ DOMAIN <<>> = {}
  BY EmptySeq, LenProperties
<1>7. TypeOK
  BY <1>2, <1>3, <1>4, <1>5, <1>6 DEF TypeOK
<1>8. Detects(enc)
  BY <1>3 DEF Detects
<1>9. Tuned(enc, dec)
  BY <1>3, <1>4 DEF Tuned
<1>10. Chain(enc, <<>>, dec, gap)
  BY <1>6, <1>9 DEF Chain, Frames
<1>11. Told(enc.dtx_count, <<>>, dec, gap)
  BY <1>3, <1>6 DEF Told
<1> QED BY <1>2, <1>3, <1>5, <1>7, <1>8, <1>10, <1>11 DEF Inv, OnTheWay

\* Setting a submode that carries bits changes the submodes only.
LEMMA ModeIsSet ==
  ASSUME NEW e \in EncStates, NEW m \in Coded, NEW f, f = SET_MODE(e, m)
  PROVE  /\ f \in EncStates /\ f.first = e.first /\ f.old_qlsp = e.old_qlsp
         /\ f.dtx_count = e.dtx_count /\ f.vbr = e.vbr /\ f.vad = e.vad
         /\ f.submodeSelect # 0 /\ f.submodeID # 0
<1>1. f = [e EXCEPT !.submodeSelect = m, !.submodeID = m] /\ m \in Modes /\ m # 0
  BY DEF SET_MODE, Modes, Coded
<1> QED BY <1>1 DEF EncStates

\* The application's settings touch neither the LSPs nor the count of a silence.
LEMMA CtlKeeps == Inv /\ Ctl => Inv'
<1> SUFFICES ASSUME Inv, Ctl PROVE Inv'
  OBVIOUS
<1>1. enc \in EncStates /\ (~cut => Detects(enc)) /\ DtxRefresh \in Nat /\ cut \in BOOLEAN
  BY SessionAssumption DEF Inv, TypeOK
<1> DEFINE Same(f) == /\ f \in EncStates /\ f.first = enc.first
                      /\ f.old_qlsp = enc.old_qlsp /\ f.dtx_count = enc.dtx_count
           Alike(f) == f.submodeID = enc.submodeID /\ f.submodeSelect = enc.submodeSelect
           Carries(f) == f.submodeID # 0 /\ f.submodeSelect # 0
<1>2. \A m \in Coded : Same(SET_MODE(enc, m)) /\ Carries(SET_MODE(enc, m))
  BY <1>1, ModeIsSet
<1>3. \A on \in BOOLEAN : Same(SET_VBR(enc, on)) /\ Alike(SET_VBR(enc, on))
  BY <1>1 DEF SET_VBR, EncStates
<1>4. Same(enc') /\ (Alike(enc') \/ Carries(enc'))
  <2>1. CASE \E q \in Qualities : enc' = SET_QUALITY(enc, q)
    <3>1. PICK q \in Int : enc' = SET_QUALITY(enc, q)
      BY <2>1, SessionAssumption
    <3>2. PICK m \in Coded : SET_QUALITY(enc, q) = SET_MODE(enc, m)
      BY QualityIsCoded
    <3> HIDE DEF Same, Carries
    <3> QED BY <1>2, <3>1, <3>2
  <2>2. CASE \E on \in BOOLEAN : enc' = SET_DTX(enc, on)
    BY <1>1, <2>2 DEF SET_DTX, EncStates
  <2>3. CASE \E on \in BOOLEAN : enc' = SET_VBR(enc, on)
    <3> HIDE DEF Same, Alike
    <3> QED BY <1>3, <2>3
  <2>4. CASE \E on \in BOOLEAN : enc' = SET_VAD(enc, on)
    BY <1>1, <2>4 DEF SET_VAD, EncStates
  <2>5. CASE \E target \in Ceilings : enc' = SET_ABR(enc, target)
    <3>1. PICK target \in Nat : enc' = SET_ABR(enc, target)
      BY <2>5, SessionAssumption
    <3>2. CASE target = 0
      <4>1. enc' = SET_VBR(enc, FALSE)
        BY <3>1, <3>2 DEF SET_ABR
      <4> HIDE DEF Same, Alike
      <4> QED BY <1>3, <4>1
    <3>3. CASE target # 0
      <4> DEFINE f == SET_VBR(enc, TRUE)
      <4>1. enc' = SET_BITRATE(f, target)
        BY <3>1, <3>3 DEF SET_ABR
      <4>2. Same(f)
        <5> HIDE DEF Same
        <5> QED BY <1>3
      <4> HIDE DEF f
      <4>3. PICK m \in Coded : SET_BITRATE(f, target) = SET_MODE(f, m)
        BY BitrateIsAffordable
      <4>4. Same(SET_MODE(f, m)) /\ Carries(SET_MODE(f, m))
        BY <4>2, ModeIsSet
      <4> HIDE DEF Same, Carries
      <4> QED BY <4>1, <4>3, <4>4
    <3> QED BY <3>2, <3>3
  <2>6. CASE \E max \in Ceilings : enc' = SET_VBR_MAX_BITRATE(enc, max)
    BY <1>1, <2>6, SessionAssumption DEF SET_VBR_MAX_BITRATE, EncStates
  <2> HIDE DEF Same, Alike, Carries
  <2> QED BY <2>1, <2>2, <2>3, <2>4, <2>5, <2>6 DEF Ctl
<1>5. /\ UNCHANGED <<dec, out, net, owed, gap, nulls>> /\ owed = None
      /\ cut' = (cut \/ (enc.dtx_count # 0 /\ ~enc'.vbr /\ (enc.vbr \/ ~enc'.vad)))
  BY DEF Ctl, Idle
<1>6. TypeOK'
  BY <1>1, <1>4, <1>5 DEF Inv, TypeOK
<1>7. Chain(enc', OnTheWay', dec', gap')
  <2>1. Chain(enc, OnTheWay, dec, gap)
    BY <1>5 DEF Inv
  <2>2. OnTheWay' = OnTheWay
    BY <1>5 DEF OnTheWay
  <2>3. \A f : Ends(enc, f) => Ends(enc', f)
    BY <1>4 DEF Ends
  <2>4. Tuned(enc, dec) => Tuned(enc', dec)
    BY <1>4 DEF Tuned
  <2> HIDE DEF Same
  <2> QED BY <1>5, <2>1, <2>2, <2>3, <2>4 DEF Chain
<1>8. ~cut' => Detects(enc')
  <2> SUFFICES ASSUME ~cut' PROVE Detects(enc')
    OBVIOUS
  <2>1. Detects(enc) /\ (enc'.dtx_count = 0 \/ enc'.vbr \/ (~enc.vbr /\ enc'.vad))
    BY <1>1, <1>4, <1>5
  <2> QED BY <1>4, <2>1 DEF Detects
<1>9. ~cut' => /\ nulls' <= IF enc'.dtx_count = 0 THEN 0 ELSE enc'.dtx_count - 1
              /\ Told(enc'.dtx_count, OnTheWay', dec', gap')
  <2> SUFFICES ASSUME ~cut'
               PROVE  /\ nulls' <= IF enc'.dtx_count = 0 THEN 0 ELSE enc'.dtx_count - 1
                      /\ Told(enc'.dtx_count, OnTheWay', dec', gap')
    OBVIOUS
  <2>1. ~cut
    BY <1>5
  <2>2. enc'.dtx_count = enc.dtx_count /\ OnTheWay' = OnTheWay
    BY <1>4, <1>5 DEF OnTheWay
  <2> QED BY <1>5, <2>1, <2>2 DEF Inv
<1> QED BY <1>4, <1>5, <1>6, <1>7, <1>8, <1>9 DEF Inv

\* A frame is encoded.
LEMMA EncodeKeeps == Inv /\ Encode => Inv'
<1> SUFFICES ASSUME Inv, Encode PROVE Inv'
  OBVIOUS
<1>1. PICK a \in Analysis :
        LET r == nb_encode(enc, a) IN
          /\ enc' = r.e /\ out' = Append(out, r.frame)
          /\ nulls' = IF r.frame.sent THEN 0 ELSE IF nulls > DtxRefresh THEN nulls ELSE nulls + 1
          /\ cut' = (cut /\ ~(r.frame.sent /\ (enc.vbr \/ enc.vad) /\ r.e.submodeSelect # 0))
  BY DEF Encode
<1> DEFINE r == nb_encode(enc, a)
<1>2. /\ enc' = r.e /\ out' = Append(out, r.frame)
      /\ nulls' = IF r.frame.sent THEN 0 ELSE IF nulls > DtxRefresh THEN nulls ELSE nulls + 1
      /\ cut' = (cut /\ ~(r.frame.sent /\ (enc.vbr \/ enc.vad) /\ r.e.submodeSelect # 0))
  BY <1>1
<1>3. /\ enc \in EncStates /\ DtxRefresh \in Nat /\ nulls \in Nat /\ out \in Seq(Blocks)
      /\ cut \in BOOLEAN /\ gap \in BOOLEAN /\ enc.dtx_count \in Nat
      /\ ~cut => Detects(enc) /\ nulls <= IF enc.dtx_count = 0 THEN 0 ELSE enc.dtx_count - 1
  BY SessionAssumption DEF Inv, TypeOK, EncStates
<1> DEFINE cause == Detects(enc) \/ ((enc.vbr \/ enc.vad) /\ r.e.submodeSelect # 0)
<1>4. /\ r.e \in EncStates
      /\ r.frame \in NullFrames \cup CodedFrames /\ r.frame.kind = "nb"
      /\ \A h : Ends(enc, h) => Follows(h, r.frame)
      /\ \A d : Tuned(enc, d) => Starts(d, r.frame)
      /\ Ends(r.e, r.frame)
      /\ r.frame.sent <=> r.frame.m # 0
      /\ cause =>
           /\ Detects(r.e)
           /\ r.frame.m = 0 => enc.dtx_count \in 1..DtxRefresh /\ r.e.dtx_count = enc.dtx_count + 1
           /\ r.frame.m # 0 /\ r.e.dtx_count > 0 => Announces(r.frame)
  BY <1>3, FrameEncoded
<1> HIDE DEF r
<1>5. net = <<>> /\ owed = None /\ UNCHANGED <<dec, net, owed, gap>>
  BY DEF Encode, Idle
<1>6. r.frame \in Blocks
  BY <1>4 DEF Blocks
<1>7. out' \in Seq(Blocks) /\ out' # <<>>
  BY <1>2, <1>3, <1>6, AppendProperties
<1>8. nulls' \in Nat /\ enc'.dtx_count \in 0..(DtxRefresh + 1) /\ cut' \in BOOLEAN
  BY <1>2, <1>3, <1>4 DEF EncStates
<1>9. TypeOK'
  BY <1>2, <1>4, <1>5, <1>7, <1>8 DEF Inv, TypeOK
<1>10. Chain(enc', out', dec, gap)
  <2>1. Chain(enc, out, dec, gap) /\ gap \in BOOLEAN
    BY <1>5 DEF Inv, OnTheWay, TypeOK
  <2> QED BY <1>2, <1>3, <1>4, <1>6, <2>1, ChainGrows
<1>11. ASSUME ~cut'
       PROVE  /\ Detects(enc') /\ nulls' <= IF enc'.dtx_count = 0 THEN 0 ELSE enc'.dtx_count - 1
              /\ Told(enc'.dtx_count, out', dec, gap)
  <2>1. cause /\ (r.frame.m = 0 => ~cut)
    BY <1>2, <1>3, <1>4, <1>11
  <2>2. /\ Detects(enc')
        /\ r.frame.m = 0 => enc.dtx_count \in 1..DtxRefresh /\ enc'.dtx_count = enc.dtx_count + 1
        /\ r.frame.m # 0 /\ enc'.dtx_count > 0 => Announces(r.frame)
    BY <1>2, <1>4, <2>1
  <2>3. nulls' <= IF enc'.dtx_count = 0 THEN 0 ELSE enc'.dtx_count - 1
    <3>1. CASE r.frame.m # 0
      BY <1>2, <1>4, <1>8, <3>1
    <3>2. CASE r.frame.m = 0
      <4>1. nulls' \in {nulls, nulls + 1} /\ nulls <= enc.dtx_count - 1
        BY <1>2, <1>3, <1>4, <2>1, <2>2, <3>2
      <4> QED BY <1>3, <2>2, <3>2, <4>1
    <3> QED BY <3>1, <3>2
  <2>4. Told(enc'.dtx_count, out', dec, gap)
    <3>1. ~cut => Told(enc.dtx_count, out, dec, gap)
      BY <1>5 DEF Inv, OnTheWay
    <3>2. r.frame.m = 0 => enc'.dtx_count > 0 /\ enc.dtx_count > 0 /\ Told(enc.dtx_count, out, dec, gap)
      BY <1>3, <2>1, <2>2, <3>1
    <3>3. enc'.dtx_count \in Nat
      BY <1>8
    <3>4. Told(enc'.dtx_count, Append(out, r.frame), dec, gap)
      BY <1>3, <1>4, <1>6, <2>2, <3>2, <3>3, ToldGrows
    <3> QED BY <1>2, <3>4
  <2> QED BY <2>2, <2>3, <2>4
<1> QED BY <1>5, <1>7, <1>9, <1>10, <1>11 DEF Inv, OnTheWay

\* What else is put into a packet, and its end, are no frames.
LEMMA PacketKeeps == Inv /\ (Insert \/ Deliver) => Inv'
<1> SUFFICES ASSUME Inv, Insert \/ Deliver PROVE Inv'
  OBVIOUS
<1>1. /\ net = <<>> /\ owed = None /\ UNCHANGED <<enc, dec, owed, gap, nulls, cut>>
      /\ out \in Seq(Blocks) /\ Chain(enc, out, dec, gap) /\ gap \in BOOLEAN
      /\ ~cut => Told(enc.dtx_count, out, dec, gap)
  BY DEF Insert, Deliver, Idle, Inv, OnTheWay, TypeOK
<1>2. ASSUME NEW s \in Seq(Extra \cup [kind : {"end"}]), NEW t, t = out \o s
      PROVE  /\ t \in Seq(Blocks) /\ Chain(enc, t, dec, gap)
             /\ ~cut => Told(enc.dtx_count, t, dec, gap)
  <2>1. s \in Seq(Blocks)
    <3>1. Extra \cup [kind : {"end"}] \subseteq Blocks
      BY DEF Blocks
    <3> QED BY <3>1, SeqMonotonic
  <2>2. /\ t \in Seq(Blocks) /\ Len(t) = Len(out) + Len(s)
        /\ \A i \in 1..(Len(out) + Len(s)) : t[i] = IF i <= Len(out) THEN out[i] ELSE s[i - Len(out)]
    BY <1>1, <1>2, <2>1, ConcatProperties
  <2>3. DOMAIN t = 1..Len(t) /\ DOMAIN out = 1..Len(out) /\ Len(out) \in Nat /\ Len(s) \in Nat
    BY <1>1, <2>1, <2>2, LenProperties
  <2>4. \A i \in 1..Len(s) : s[i].kind # "nb"
    <3>1. \A i \in 1..Len(s) : s[i] \in Extra \cup [kind : {"end"}]
      BY ElementOfSeq
    <3> QED BY <3>1 DEF Extra
  <2>5. \A i \in DOMAIN t : i \in Frames(t) <=> i \in Frames(out)
    <3> SUFFICES ASSUME NEW i \in DOMAIN t PROVE i \in Frames(t) <=> i \in Frames(out)
      OBVIOUS
    <3>1. CASE i <= Len(out)
      BY <2>2, <2>3, <3>1 DEF Frames
    <3>2. CASE i > Len(out)
      <4>1. t[i] = s[i - Len(out)] /\ i - Len(out) \in 1..Len(s)
        BY <2>2, <2>3, <3>2
      <4> QED BY <2>3, <2>4, <3>2, <4>1 DEF Frames
    <3> QED BY <2>2, <2>3, <3>1, <3>2
  <2>6. Frames(t) = Frames(out) /\ \A i \in Frames(out) : t[i] = out[i]
    <3>1. Frames(t) \subseteq DOMAIN t /\ Frames(out) \subseteq DOMAIN out /\ DOMAIN out \subseteq DOMAIN t
      BY <2>2, <2>3 DEF Frames
    <3>2. Frames(t) = Frames(out)
      BY <2>5, <3>1
    <3>3. \A i \in DOMAIN out : t[i] = out[i]
      BY <2>2, <2>3
    <3> QED BY <3>1, <3>2, <3>3
  <2> QED BY <1>1, <2>2, <2>6, ChainSkips, ToldSkips
<1>3. CASE Insert
  <2>1. PICK s \in Extras : out' = out \o s
    BY <1>3 DEF Insert
  <2>2. s \in Seq(Extra \cup [kind : {"end"}])
    <3>1. s \in Seq(Extra)
      BY SessionAssumption
    <3> QED BY <3>1, SeqMonotonic
  <2>3. /\ out' \in Seq(Blocks) /\ Chain(enc, out', dec, gap)
        /\ ~cut => Told(enc.dtx_count, out', dec, gap)
    BY <1>2, <2>1, <2>2
  <2>4. net' = net
    BY <1>3 DEF Insert
  <2>5. TypeOK'
    BY <1>1, <2>3, <2>4 DEF Inv, TypeOK
  <2> QED BY <1>1, <2>3, <2>4, <2>5 DEF Inv, OnTheWay
<1>4. CASE Deliver
  <2> DEFINE end == [kind |-> "end"]
  <2>1. out' = <<>> /\ net' = Append(out, end) /\ end \in Extra \cup [kind : {"end"}] /\ end \in Blocks
    BY <1>4 DEF Deliver, Blocks
  <2> HIDE DEF end
  <2>2. <<end>> \in Seq(Extra \cup [kind : {"end"}]) /\ net' = out \o <<end>> /\ net' # <<>>
    BY <1>1, <2>1, AppendProperties, AppendIsConcat
  <2>3. /\ net' \in Seq(Blocks) /\ Chain(enc, net', dec, gap)
        /\ ~cut => Told(enc.dtx_count, net', dec, gap)
    BY <1>2, <2>2
  <2>4. out' \in Seq(Blocks)
    BY <2>1, EmptySeq
  <2>5. TypeOK'
    BY <1>1, <2>3, <2>4 DEF Inv, TypeOK
  <2> QED BY <1>1, <2>1, <2>2, <2>3, <2>5 DEF Inv, OnTheWay
<1> QED BY <1>3, <1>4

\* A packet that is withheld held null frames only, which the frame before them
\* announced; a packet that is lost leaves the decoder in doubt.
LEMMA NothingKeeps == Inv /\ (Withhold \/ Lose \/ ResetEncoder) => Inv'
<1> SUFFICES ASSUME Inv, Withhold \/ Lose \/ ResetEncoder PROVE Inv'
  OBVIOUS
<1>1. /\ net = <<>> /\ owed = None /\ UNCHANGED <<dec, net, nulls, cut>>
      /\ out \in Seq(Blocks) /\ Chain(enc, out, dec, gap) /\ gap \in BOOLEAN
      /\ enc \in EncStates /\ (~cut => Detects(enc) /\ Told(enc.dtx_count, out, dec, gap))
  BY DEF Withhold, Lose, ResetEncoder, Idle, Inv, OnTheWay, TypeOK
<1>2. Len(out) \in Nat /\ DOMAIN out = 1..Len(out) /\ (out # <<>> => Len(out) > 0)
  BY <1>1, LenProperties, EmptySeq
<1>3. CASE Withhold
  <2>1. /\ out # <<>> /\ \A i \in DOMAIN out : out[i].kind = "nb" /\ ~out[i].sent
        /\ owed' = [n |-> Len(out), why |-> "silence"] /\ out' = <<>> /\ UNCHANGED <<enc, gap>>
    BY <1>3 DEF Withhold
  <2>2. \A i \in DOMAIN out : out[i].m = 0
    <3> SUFFICES ASSUME NEW i \in DOMAIN out PROVE out[i].m = 0
      OBVIOUS
    <3>1. out[i] \in Blocks /\ out[i].kind = "nb" /\ ~out[i].sent
      BY <1>1, <1>2, <2>1, ElementOfSeq
    <3> QED BY <3>1 DEF Blocks, NullFrames, CodedFrames, Extra
  <2>3. FirstIn(out, 1) /\ LastIn(out, Len(out)) /\ 1 \in DOMAIN out /\ Len(out) \in DOMAIN out
    BY <1>2, <2>1 DEF FirstIn, LastIn, Frames
  <2>4. ~gap => cut \/ dec.dtx_enabled
    <3>1. Sent(out) = {}
      BY <2>2 DEF Sent, Frames
    <3> QED BY <1>1, <2>2, <2>3, <3>1 DEF Told
  <2>5. enc.first
    BY <1>1, <2>2, <2>3 DEF Chain, Ends
  <2>6. owed' \in [n : Nat, why : {"none", "silence", "lost"}] /\ owed'.n # 0 /\ owed'.why = "silence"
        /\ owed' # None
    BY <1>2, <2>1 DEF None
  <2>7. TypeOK'
    BY <1>1, <2>1, <2>6, EmptySeq DEF Inv, TypeOK
  <2> QED BY <1>1, <2>1, <2>4, <2>5, <2>6, <2>7 DEF Inv
<1>4. CASE Lose
  <2>1. /\ Frames(out) # {} /\ out' = <<>> /\ gap' = TRUE /\ UNCHANGED enc
        /\ owed' \in {[n |-> Cardinality(Frames(out)), why |-> "lost"], None}
    BY <1>4 DEF Lose
  <2>2. Cardinality(Frames(out)) \in Nat \ {0}
    <3>1. IsFiniteSet(1..Len(out)) /\ Frames(out) \in SUBSET (1..Len(out))
      BY <1>2, FS_Interval DEF Frames
    <3>2. IsFiniteSet(Frames(out))
      BY <3>1, FS_Subset
    <3> QED BY <2>1, <3>2, FS_CardinalityType, FS_EmptySet
  <2>3. owed' \in [n : Nat, why : {"none", "silence", "lost"}] /\ (owed'.n = 0 <=> owed' = None)
    BY <2>1, <2>2 DEF None
  <2>4. TypeOK'
    BY <1>1, <2>1, <2>3, EmptySeq DEF Inv, TypeOK
  <2>5. Chain(enc, <<>>, dec, TRUE) /\ Told(enc.dtx_count, <<>>, dec, TRUE)
    <3>1. DOMAIN <<>> = {}
      BY EmptySeq, LenProperties
    <3> QED BY <3>1 DEF Chain, Told, Sent, Frames
  <2> QED BY <1>1, <2>1, <2>3, <2>4, <2>5 DEF Inv, OnTheWay
<1>5. CASE ResetEncoder
  <2>1. /\ out = <<>> /\ enc' = [enc EXCEPT !.bounded_pitch = TRUE, !.first = TRUE]
        /\ gap' = TRUE /\ UNCHANGED <<out, owed>>
    BY <1>5 DEF ResetEncoder, RESET_STATE
  <2>2. /\ enc' \in EncStates /\ enc'.vbr = enc.vbr /\ enc'.vad = enc.vad /\ enc'.dtx_count = enc.dtx_count
        /\ enc'.submodeID = enc.submodeID /\ enc'.submodeSelect = enc.submodeSelect
    BY <1>1, <2>1 DEF EncStates
  <2>3. ~cut => Detects(enc')
    BY <1>1, <2>2 DEF Detects
  <2>4. TypeOK'
    BY <1>1, <2>1, <2>2 DEF Inv, TypeOK
  <2>5. Chain(enc', <<>>, dec, TRUE) /\ Told(enc'.dtx_count, <<>>, dec, TRUE)
    <3>1. DOMAIN <<>> = {}
      BY EmptySeq, LenProperties
    <3> QED BY <3>1 DEF Chain, Told, Sent, Frames
  <2> QED BY <1>1, <2>1, <2>2, <2>3, <2>4, <2>5 DEF Inv, OnTheWay
<1> QED BY <1>3, <1>4, <1>5

\* A frame is made up of nothing.
LEMMA DecodeNothingKeeps ==
  ASSUME Inv, DecodeNothing
  PROVE  Inv' /\ (owed.why = "silence" /\ ~gap /\ ~cut => dec'.count_lost = 0)
<1>1. /\ owed.n > 0 /\ owed # None /\ out = <<>> /\ net = <<>>
      /\ gap \/ (owed.why = "silence" /\ enc.first /\ (cut \/ dec.dtx_enabled))
      /\ owed \in [n : Nat, why : {"none", "silence", "lost"}] /\ gap \in BOOLEAN
      /\ Decoding(dec) /\ enc \in EncStates
  <2>1. TypeOK /\ owed.n > 0
    BY DEF DecodeNothing, Inv
  <2>2. owed \in [n : Nat, why : {"none", "silence", "lost"}]
    BY <2>1 DEF TypeOK
  <2>3. owed.n # 0
    BY <2>1, <2>2
  <2> QED BY <2>1, <2>2, <2>3 DEF Inv, TypeOK
<1>2. /\ dec' = IF dec.dtx_enabled THEN NullSynthesis(dec) ELSE nb_decode_lost(dec)
      /\ owed' = IF owed.n = 1 THEN None ELSE [owed EXCEPT !.n = owed.n - 1]
      /\ UNCHANGED <<enc, out, net, gap, nulls, cut>>
  BY DEF DecodeNothing
<1>3. /\ Decoding(dec') /\ dec'.dtx_enabled = dec.dtx_enabled
      /\ dec.dtx_enabled => dec'.count_lost = 0
      /\ dec'.first \/ dec'.count_lost > 0
  BY <1>1, <1>2, NothingDecoded
<1>4. owed' \in [n : Nat, why : {"none", "silence", "lost"}] /\ (owed'.n = 0 <=> owed' = None)
      /\ (owed' # None => owed'.why = owed.why)
  <2>1. CASE owed.n = 1
    BY <1>2, <2>1 DEF None
  <2>2. CASE owed.n # 1
    BY <1>1, <1>2, <2>2 DEF None
  <2> QED BY <2>1, <2>2
<1>5. TypeOK'
  BY <1>2, <1>3, <1>4 DEF Inv, TypeOK
<1>6. Chain(enc, <<>>, dec', gap)
  <2>1. DOMAIN <<>> = {}
    BY EmptySeq, LenProperties
  <2>2. ~gap => Tuned(enc, dec')
    BY <1>1, <1>3 DEF Tuned
  <2> QED BY <2>1, <2>2 DEF Chain
<1>8. ~cut => Told(enc.dtx_count, <<>>, dec', gap)
  <2>1. DOMAIN <<>> = {} /\ Sent(<<>>) = {}
    BY EmptySeq, LenProperties DEF Sent, Frames
  <2> QED BY <1>1, <1>3, <2>1 DEF Told
<1>7. Inv'
  BY <1>1, <1>2, <1>3, <1>4, <1>5, <1>6, <1>8 DEF Inv, OnTheWay
<1> QED BY <1>1, <1>3, <1>7

\* The first frame or end that Passed finds, if there is one.
LEMMA PassedIsFirst ==
  ASSUME NEW s \in Seq(Blocks), Passed(s) # 0
  PROVE  /\ Passed(s) \in 1..Len(s) /\ s[Passed(s)].kind \in {"nb", "end"}
         /\ \A i \in 1..Len(s) : s[i].kind \in {"nb", "end"} => Passed(s) <= i
<1> DEFINE I == {i \in 1..Len(s) : s[i].kind \in {"nb", "end"}}
<1>1. Passed(s) = IF I # {} THEN Min(I) ELSE 0
  BY DEF Passed, SelectInSeq
<1>2. I \in SUBSET Nat
  BY LenProperties
<1> HIDE DEF I
<1>3. Passed(s) \in I /\ \A i \in I : Passed(s) <= i
  BY <1>1, <1>2, MinIsLeast
<1> QED BY <1>3 DEF I

\* The decoder takes a frame that starts it as the encoder did.
LEMMA DecodeFrameKeeps ==
  ASSUME Inv, DecodeFrame
  PROVE  Inv' /\ (~gap => LET f == net[Passed(net)] IN IsNull(f.m) \/ InterpolatedFrom(dec, f) = f.from)
<1> DEFINE p == Passed(net)
           f == net[p]
<1>1. /\ net # <<>> /\ owed = None /\ out = <<>> /\ ~AtEnd(net)
      /\ UNCHANGED <<enc, out, owed, nulls, cut>>
      /\ ~cut => Told(enc.dtx_count, net, dec, gap)
      /\ Chain(enc, net, dec, gap) /\ net \in Seq(Blocks) /\ gap \in BOOLEAN /\ Decoding(dec)
  BY DEF DecodeFrame, Inv, OnTheWay, TypeOK
<1>2. PICK reaching \in Reaches :
        dec' = IF IsNull(f.m) THEN NullSynthesis(dec) ELSE Synthesis(dec, f, reaching)
  BY DEF DecodeFrame, DecodedFrame
<1>3. gap' = (gap /\ IsNull(f.m)) /\ net' = SubSeq(net, p + 1, Len(net))
  BY DEF DecodeFrame
<1>4. p \in 1..Len(net) /\ f.kind = "nb" /\ \A i \in Frames(net) : p <= i
  <2>1. p # 0 /\ f.kind # "end"
    BY <1>1 DEF AtEnd
  <2>2. DOMAIN net = 1..Len(net)
    BY <1>1, LenProperties
  <2> QED BY <1>1, <2>1, <2>2, PassedIsFirst DEF Frames
<1>5. FirstIn(net, p) /\ p \in DOMAIN net /\ Len(net) \in Nat
  BY <1>1, <1>4, LenProperties DEF FirstIn, Frames
<1> HIDE DEF p
<1>6. f \in NullFrames \cup CodedFrames
  <2>1. f \in Blocks
    BY <1>1, <1>4, ElementOfSeq
  <2> QED BY <1>4, <2>1 DEF Blocks, Extra
<1>7. (IsNull(f.m) <=> f.m = 0) /\ (f.m = 0 => f \in NullFrames) /\ (f.m # 0 => f \in CodedFrames)
  BY <1>6, FrameKinds
<1>8. ~gap => Starts(dec, f)
  BY <1>1, <1>5 DEF Chain
<1> HIDE DEF f
<1>9. /\ Decoding(dec') /\ dec'.count_lost = 0
      /\ f.m = 0 => dec'.first /\ dec'.dtx_enabled = dec.dtx_enabled
      /\ f.m # 0 => ~dec'.first /\ dec'.old_qlsp = f.lsp /\ (Announces(f) => dec'.dtx_enabled)
  <2>1. CASE f.m = 0
    BY <1>1, <1>2, <1>7, <2>1, NothingDecoded
  <2>2. CASE f.m # 0
    BY <1>1, <1>2, <1>7, <2>2, FrameDecoded
  <2> QED BY <2>1, <2>2
<1>10. gap' \in BOOLEAN /\ (f.m = 0 => (gap' <=> gap))
  BY <1>1, <1>3, <1>7
<1>11. ~gap' => \A g : Follows(f, g) => Starts(dec', g)
  BY <1>9, <1>10 DEF Follows, Starts, InterpolatedFrom
<1>12. ~gap' => (Ends(enc, f) => Tuned(enc, dec'))
  BY <1>9, <1>10 DEF Ends, Tuned
<1>13. Chain(enc, net', dec', gap')
  BY <1>1, <1>3, <1>5, <1>10, <1>11, <1>12, ChainShrinks DEF f
<1>19. ~cut => Told(enc.dtx_count, net', dec', gap')
  BY <1>1, <1>3, <1>5, <1>9, <1>10, ToldShrinks DEF f
<1>14. net' \in Seq(Blocks)
  <2>1. \A i \in (p + 1)..Len(net) : net[i] \in Blocks
    BY <1>1, <1>4, ElementOfSeq
  <2>2. p + 1 \in Int /\ Len(net) \in Int
    BY <1>4, <1>5
  <2> QED BY <1>3, <2>1, <2>2, SubSeqProperties
<1>15. TypeOK'
  BY <1>1, <1>9, <1>10, <1>14 DEF Inv, TypeOK
<1>16. OnTheWay' = net'
  BY <1>1 DEF OnTheWay
<1>17. Inv'
  BY <1>1, <1>13, <1>15, <1>16, <1>19 DEF Inv
<1>18. ~gap => IsNull(f.m) \/ InterpolatedFrom(dec, f) = f.from
  BY <1>7, <1>8 DEF Starts
<1> QED BY <1>17, <1>18 DEF f, p

\* A packet ends, or is given up with what is still in it.
LEMMA DecodeEndKeeps == Inv /\ DecodeEnd => Inv'
<1> SUFFICES ASSUME Inv, DecodeEnd PROVE Inv'
  OBVIOUS
<1>1. /\ net # <<>> /\ owed = None /\ out = <<>> /\ net' = <<>> /\ UNCHANGED <<enc, dec, out, owed, nulls, cut>>
      /\ gap' = (gap \/ Frames(net) # {})
      /\ Chain(enc, net, dec, gap) /\ gap \in BOOLEAN /\ net \in Seq(Blocks)
      /\ ~cut => Told(enc.dtx_count, net, dec, gap)
  BY DEF DecodeEnd, Inv, OnTheWay, TypeOK
<1>2. TypeOK'
  BY <1>1, EmptySeq DEF Inv, TypeOK
<1>3. Chain(enc, <<>>, dec, gap')
  <2>1. DOMAIN <<>> = {}
    BY EmptySeq, LenProperties
  <2> QED BY <1>1, <2>1 DEF Chain
<1>4. ~cut => Told(enc.dtx_count, <<>>, dec, gap')
  <2>1. DOMAIN <<>> = {} /\ Sent(<<>>) = {}
    BY EmptySeq, LenProperties DEF Sent, Frames
  <2>2. Frames(net) = {} => Sent(net) = {}
    BY DEF Sent
  <2> QED BY <1>1, <2>1, <2>2 DEF Told
<1> QED BY <1>1, <1>2, <1>3, <1>4 DEF Inv, OnTheWay

\* Bits that are no frame leave the decoder in doubt, whatever it makes of them.
LEMMA DecodeAstrayKeeps == Inv /\ DecodeAstray => Inv'
<1> SUFFICES ASSUME Inv, DecodeAstray PROVE Inv'
  OBVIOUS
<1>1. /\ net # <<>> /\ owed = None /\ out = <<>> /\ UNCHANGED <<enc, out, owed, nulls, cut>>
      /\ gap' = TRUE /\ Decoding(dec)
  BY DEF DecodeAstray, Inv, TypeOK
<1>2. Decoding(dec')
  <2>1. CASE UNCHANGED dec
    BY <1>1, <2>1 DEF Decoding
  <2>2. ASSUME NEW f \in Misread, NEW reaching \in Reaches, dec' = DecodedFrame(f, reaching)
        PROVE  Decoding(dec')
    <3>1. CASE IsNull(f.m)
      BY <1>1, <2>2, <3>1, NothingDecoded DEF DecodedFrame
    <3>2. CASE ~IsNull(f.m)
      <4>1. Decoding(Synthesis(dec, f, reaching))
        BY <1>1, FrameDecoded
      <4> QED BY <2>2, <3>2, <4>1 DEF DecodedFrame
    <3> QED BY <3>1, <3>2
  <2> QED BY <2>1, <2>2 DEF DecodeAstray
<1>3. /\ net' \in {<<>>, <<[kind |-> "astray"]>>} /\ net' \in Seq(Blocks)
      /\ Frames(net') = {}
  <2> DEFINE b == [kind |-> "astray"]
  <2>1. b \in Blocks /\ b.kind # "nb"
    BY DEF Blocks
  <2> HIDE DEF b
  <2>2. net' \in {<<>>, <<b>>}
    BY DEF DecodeAstray, b
  <2>3. <<>> \in Seq(Blocks) /\ DOMAIN <<>> = {}
    BY EmptySeq, LenProperties
  <2>4. <<b>> \in Seq(Blocks) /\ DOMAIN <<b>> = {1} /\ <<b>>[1] = b
    BY <2>1
  <2>5. CASE net' = <<>>
    BY <2>3, <2>5 DEF Frames
  <2>6. CASE net' = <<b>>
    <3>1. Frames(<<b>>) = {}
      BY <2>1, <2>4 DEF Frames
    <3>2. net' \in Seq(Blocks) /\ Frames(net') = {}
      BY <2>4, <2>6, <3>1
    <3>3. net' = <<[kind |-> "astray"]>>
      BY <2>6 DEF b
    <3> QED BY <3>2, <3>3
  <2> QED BY <2>2, <2>5, <2>6 DEF b
<1>4. TypeOK'
  BY <1>1, <1>2, <1>3 DEF Inv, TypeOK
<1>5. Chain(enc, net', dec', TRUE) /\ Told(enc.dtx_count, net', dec', TRUE)
  BY <1>3 DEF Chain, Told, Sent, Adjacent, LastIn
<1>6. OnTheWay' = net'
  BY <1>1 DEF OnTheWay
<1> QED BY <1>1, <1>4, <1>5, <1>6 DEF Inv

\* Every step keeps the invariant.
LEMMA NextInv == Inv /\ [Next]_vars => Inv'
<1> SUFFICES ASSUME Inv, [Next]_vars PROVE Inv'
  OBVIOUS
<1>1. CASE Ctl
  BY <1>1, CtlKeeps
<1>2. CASE ResetEncoder
  BY <1>2, NothingKeeps
<1>3. CASE Encode
  BY <1>3, EncodeKeeps
<1>4. CASE Insert
  BY <1>4, PacketKeeps
<1>5. CASE Deliver
  BY <1>5, PacketKeeps
<1>6. CASE Withhold
  BY <1>6, NothingKeeps
<1>7. CASE Lose
  BY <1>7, NothingKeeps
<1>8. CASE DecodeNothing
  BY <1>8, DecodeNothingKeeps
<1>9. CASE DecodeFrame
  BY <1>9, DecodeFrameKeeps
<1>10. CASE DecodeEnd
  BY <1>10, DecodeEndKeeps
<1>12. CASE DecodeAstray
  BY <1>12, DecodeAstrayKeeps
<1>11. CASE UNCHANGED vars
  BY <1>11 DEF vars, Inv, TypeOK, OnTheWay
<1> QED BY <1>1, <1>2, <1>3, <1>4, <1>5, <1>6, <1>7, <1>8, <1>9, <1>10, <1>11, <1>12 DEF Next

\* The invariant holds throughout a call.
LEMMA AlwaysInv == Spec => []Inv
BY InitInv, NextInv, PTL DEF Spec
-----------------------------------------------------------------------------
(* The theorems.                                                           *)

\* What the steps promise about the frame they took.
Promises == InterpolatesAlike /\ SilenceIsComfortNoise /\ CeilingHolds

\* No step but an encoded frame, a decoded or a made up one promises anything.
LEMMA StepPromises == Promises /\ Inv /\ [Next]_vars => Promises'
<1> SUFFICES ASSUME Promises, Inv, [Next]_vars PROVE Promises'
  OBVIOUS
<1>1. CASE Encode
  <2>1. PICK a \in Analysis : LET r == nb_encode(enc, a) IN enc' = r.e /\ did' = [step |-> "encode", m |-> r.frame.m]
    BY <1>1 DEF Encode
  <2> DEFINE r == nb_encode(enc, a)
             m == r.frame.m
  <2>2. /\ r.e \in EncStates /\ r.frame \in NullFrames \cup CodedFrames
        /\ r.e.vbr /\ r.e.vbr_max > 0 => Rate(m) <= r.e.vbr_max \/ m = 1
    <3>1. enc \in EncStates
      BY DEF Inv, TypeOK
    <3> QED BY <3>1, FrameEncoded
  <2>3. enc' = r.e /\ did' = [step |-> "encode", m |-> m]
    BY <2>1
  <2> HIDE DEF r
  <2>4. m \in Modes /\ r.e.vbr_max \in Nat
    <3>1. r.e.vbr_max \in Nat
      BY <2>2 DEF EncStates
    <3> QED BY <2>2, <3>1, FrameKinds
  <2>5. Rate(m) \in Nat /\ Rate(1) \in Nat /\ quality_map[1] = 1
    BY <2>4, ModeTable DEF Modes
  <2>6. CeilingHolds'
    <3> SUFFICES ASSUME r.e.vbr, r.e.vbr_max > 0
                 PROVE  Rate(m) <= Max({r.e.vbr_max, Rate(quality_map[1])})
      BY <2>3 DEF CeilingHolds
    <3>1. /\ Max({r.e.vbr_max, Rate(1)}) \in Nat
          /\ r.e.vbr_max <= Max({r.e.vbr_max, Rate(1)}) /\ Rate(1) <= Max({r.e.vbr_max, Rate(1)})
      BY <2>4, <2>5, MaxOfTwo
    <3>2. Rate(m) <= r.e.vbr_max \/ Rate(m) = Rate(1)
      BY <2>2
    <3> QED BY <2>4, <2>5, <3>1, <3>2
  <2> QED BY <2>3, <2>6 DEF Promises, InterpolatesAlike, SilenceIsComfortNoise
<1>2. CASE DecodeNothing
  <2>1. did' = [step |-> "made up", why |-> owed.why, sure |-> ~gap /\ ~cut]
    BY <1>2 DEF DecodeNothing
  <2>2. owed.why = "silence" /\ ~gap /\ ~cut => dec'.count_lost = 0
    BY <1>2, DecodeNothingKeeps
  <2> QED BY <2>1, <2>2 DEF Promises, InterpolatesAlike, SilenceIsComfortNoise, CeilingHolds
<1>3. CASE DecodeFrame
  <2> DEFINE f == net[Passed(net)]
             alike == IsNull(f.m) \/ InterpolatedFrom(dec, f) = f.from
  <2>1. did' = [step |-> "decode", inStep |-> InStepWith(net), sure |-> ~gap, alike |-> alike]
    BY <1>3 DEF DecodeFrame
  <2>2. ~gap => alike
    BY <1>3, DecodeFrameKeeps
  <2> HIDE DEF alike
  <2> QED BY <2>1, <2>2 DEF Promises, InterpolatesAlike, SilenceIsComfortNoise, CeilingHolds
<1>4. CASE Ctl \/ ResetEncoder \/ Insert \/ Deliver \/ Withhold \/ Lose \/ DecodeEnd \/ DecodeAstray
  <2>1. did'.step \in {"ctl", "insert", "deliver", "withhold", "lose", "end", "astray"}
    BY <1>4 DEF Ctl, ResetEncoder, Insert, Deliver, Withhold, Lose, DecodeEnd, DecodeAstray
  <2> QED BY <2>1 DEF Promises, InterpolatesAlike, SilenceIsComfortNoise, CeilingHolds
<1>5. CASE UNCHANGED vars
  BY <1>5 DEF vars, Promises, InterpolatesAlike, SilenceIsComfortNoise, CeilingHolds
<1> QED BY <1>1, <1>2, <1>3, <1>4, <1>5 DEF Next

\* The promises hold throughout a call.
LEMMA AlwaysPromises == Spec => []Promises
<1>1. Init => Promises
  <2> SUFFICES ASSUME Init PROVE Promises
    OBVIOUS
  <2>1. did.step = "none"
    BY DEF Init
  <2> QED BY <2>1 DEF Promises, InterpolatesAlike, SilenceIsComfortNoise, CeilingHolds
<1> QED BY <1>1, StepPromises, AlwaysInv, PTL DEF Spec

\* Silence is refreshed, for every DtxRefresh, and whatever qualities, bit rates,
\* VBR, VAD and DTX the application asks for, in silence too, unless it turns
\* detection off there (Silence in nb_encode).
THEOREM SilenceIsRefreshed == Spec => []ComfortNoiseIsRefreshed
<1>1. Inv => ComfortNoiseIsRefreshed
  <2> SUFFICES ASSUME Inv, ~cut PROVE nulls <= DtxRefresh
    BY DEF ComfortNoiseIsRefreshed
  <2>1. enc.dtx_count \in 0..(DtxRefresh + 1) /\ DtxRefresh \in Nat /\ nulls \in Nat
    BY SessionAssumption DEF Inv, TypeOK, EncStates
  <2>2. nulls <= IF enc.dtx_count = 0 THEN 0 ELSE enc.dtx_count - 1
    BY DEF Inv
  <2> QED BY <2>1, <2>2
<1> QED BY <1>1, AlwaysInv, PTL

\* Under VBR no frame exceeds a ceiling, whatever it is (SPEEX_SET_BITRATE in
\* nb_encode), but that of the lowest quality.
THEOREM VbrKeepsItsCeiling == Spec => []CeilingHolds
<1>1. Promises => CeilingHolds
  BY DEF Promises
<1> QED BY <1>1, AlwaysPromises, PTL

\* Unless a frame was lost just before, the decoder interpolates the filters of
\* a frame from the LSPs the encoder did, for all LSPs and packets.
THEOREM BothInterpolateAlike == Spec => []InterpolatesAlike
<1>1. Promises => InterpolatesAlike
  BY DEF Promises
<1> QED BY <1>1, AlwaysPromises, PTL

\* A null frame that was not transmitted is played as noise, for silences of any
\* length, unless detection was turned off in one (dtx_enabled in nb_decode).
THEOREM SilenceIsPlayedAsNoise == Spec => []SilenceIsComfortNoise
<1>1. Promises => SilenceIsComfortNoise
  BY DEF Promises
<1> QED BY <1>1, AlwaysPromises, PTL
-----------------------------------------------------------------------------
(* The fields of a frame.                                                  *)

Names == {"wideband", "submode", "lsp", "pitch", "coef", "gain", "extra", "lag", "taps", "sub", "shape"}
Fields == [width : Nat, what : Names]

\* What holds of zero and is kept by one more holds of every natural number.
LEMMA Induction ==
  ASSUME NEW S \in SUBSET Nat, 0 \in S, \A n \in S : n + 1 \in S
  PROVE  S = Nat
<1> DEFINE T == Nat \ S
<1> SUFFICES ASSUME T # {} PROVE FALSE
  OBVIOUS
<1>1. PICK m \in T : \A n \in T : m <= n
  <2> T \in SUBSET Nat
    OBVIOUS
  <2> HIDE DEF T
  <2> QED BY LeastExists
<1>2. m \in Nat /\ m # 0 /\ m - 1 \in Nat
  OBVIOUS
<1>3. m - 1 \in S
  BY <1>1, <1>2
<1>4. (m - 1) + 1 = m
  BY <1>2
<1> QED BY <1>3, <1>4

\* The width of a row of fields is added up field by field.
LEMMA WidthByFields ==
  ASSUME NEW s \in Seq(Fields)
  PROVE  \E w : /\ w = [i \in 0..Len(s) |-> IF i = 0 THEN 0 ELSE w[i - 1] + s[i].width]
                /\ Width(s) = w[Len(s)]
<1> DEFINE Ok(w, n) == w = [i \in 0..n |-> IF i = 0 THEN 0 ELSE w[i - 1] + s[i].width]
           P == {n \in Nat : \E w : Ok(w, n)}
<1>1. 0 \in P
  <2> DEFINE w == [i \in 0..0 |-> 0]
  <2>1. Ok(w, 0)
    OBVIOUS
  <2> HIDE DEF w, Ok
  <2> QED BY <2>1
<1>2. ASSUME NEW n \in P PROVE n + 1 \in P
  <2>1. PICK w : Ok(w, n)
    OBVIOUS
  <2> DEFINE v == [i \in 0..(n + 1) |-> IF i = 0 THEN 0 ELSE w[i - 1] + s[i].width]
  <2>2. \A i \in 0..n : v[i] = w[i]
    BY <2>1
  <2>3. \A i \in 0..(n + 1) : i # 0 => i - 1 \in 0..n
    OBVIOUS
  <2>4. \A i \in 0..(n + 1) : i # 0 => v[i - 1] = w[i - 1]
    BY <2>2, <2>3
  <2>5. Ok(v, n + 1)
    BY <2>4
  <2> HIDE DEF v, Ok
  <2> QED BY <2>5
<1>3. P = Nat
  <2>1. P \subseteq Nat
    OBVIOUS
  <2> HIDE DEF P
  <2> QED BY <1>1, <1>2, <2>1, Induction
<1>4. Len(s) \in P
  BY <1>3
<1> QED BY <1>4, Zenon DEF Width

\* A row of no field has no width, one field has its own.
LEMMA WidthOfField ==
  /\ <<>> \in Seq(Fields) /\ Width(<<>>) = 0
  /\ \A n \in Nat, what \in Names : F(n, what) \in Seq(Fields) /\ Width(F(n, what)) = n
<1>1. <<>> \in Seq(Fields) /\ Len(<<>>) = 0
  BY EmptySeq
<1>2. Width(<<>>) = 0
  <2>1. PICK w : /\ w = [i \in 0..0 |-> IF i = 0 THEN 0 ELSE w[i - 1] + (<<>>)[i].width]
                 /\ Width(<<>>) = w[0]
    BY <1>1, WidthByFields
  <2> QED BY <2>1
<1>3. ASSUME NEW n \in Nat, NEW what \in Names
      PROVE  F(n, what) \in Seq(Fields) /\ Width(F(n, what)) = n
  <2>1. CASE n = 0
    BY <1>1, <1>2, <2>1 DEF F
  <2>2. CASE n # 0
    <3> DEFINE f == [width |-> n, what |-> what]
               s == <<f>>
    <3>1. f \in Fields /\ f.width = n
      BY DEF Fields
    <3> HIDE DEF f
    <3>2. s \in Seq(Fields) /\ Len(s) = 1 /\ s[1] = f
      BY <3>1
    <3> HIDE DEF s
    <3>3. PICK w : /\ w = [i \in 0..1 |-> IF i = 0 THEN 0 ELSE w[i - 1] + s[i].width]
                   /\ Width(s) = w[1]
      BY <3>2, WidthByFields
    <3>4. w[0] = 0 /\ w[1] = w[0] + n
      <4>1. w[0] = 0
        BY <3>3
      <4>2. w[1] = w[1 - 1] + s[1].width
        BY <3>3
      <4> QED BY <3>1, <3>2, <4>1, <4>2
    <3>5. F(n, what) = s
      BY <2>2 DEF F, s, f
    <3> QED BY <3>2, <3>3, <3>4, <3>5
  <2> QED BY <2>1, <2>2
<1> QED BY <1>1, <1>2, <1>3

\* Rows put one after the other are as wide as both.
LEMMA WidthOfConcat ==
  ASSUME NEW s \in Seq(Fields), NEW t \in Seq(Fields)
  PROVE  s \o t \in Seq(Fields) /\ Width(s \o t) = Width(s) + Width(t) /\ Width(s) \in Nat
<1> DEFINE m == Len(s)
           n == Len(t)
           r == s \o t
<1>1. /\ m \in Nat /\ n \in Nat /\ r \in Seq(Fields) /\ Len(r) = m + n
      /\ \A i \in 1..(m + n) : r[i] = IF i <= m THEN s[i] ELSE t[i - m]
  BY ConcatProperties, LenProperties
<1>2. (\A i \in 1..m : s[i].width \in Nat) /\ (\A i \in 1..n : t[i].width \in Nat)
  <2>1. (\A i \in 1..m : s[i] \in Fields) /\ (\A i \in 1..n : t[i] \in Fields)
    BY ElementOfSeq
  <2> QED BY <2>1 DEF Fields
<1>3. PICK u : u = [i \in 0..m |-> IF i = 0 THEN 0 ELSE u[i - 1] + s[i].width] /\ Width(s) = u[m]
  BY WidthByFields
<1>4. PICK v : v = [i \in 0..n |-> IF i = 0 THEN 0 ELSE v[i - 1] + t[i].width] /\ Width(t) = v[n]
  BY WidthByFields
<1>5. PICK w : w = [i \in 0..Len(r) |-> IF i = 0 THEN 0 ELSE w[i - 1] + r[i].width] /\ Width(r) = w[Len(r)]
  BY <1>1, WidthByFields
<1> HIDE DEF m, n, r
<1>6. u[0] = 0 /\ \A i \in 1..m : u[i] = u[i - 1] + s[i].width
  <2>1. \A i \in 1..m : i \in 0..m /\ i # 0
    BY <1>1
  <2>2. 0 \in 0..m
    BY <1>1
  <2> QED BY <1>3, <2>1, <2>2
<1>7. v[0] = 0 /\ \A i \in 1..n : v[i] = v[i - 1] + t[i].width
  <2>1. \A i \in 1..n : i \in 0..n /\ i # 0
    BY <1>1
  <2>2. 0 \in 0..n
    BY <1>1
  <2> QED BY <1>4, <2>1, <2>2
<1>8. w[0] = 0 /\ \A i \in 1..(m + n) : w[i] = w[i - 1] + r[i].width
  <2>1. \A i \in 1..(m + n) : i \in 0..(m + n) /\ i # 0
    BY <1>1
  <2>2. 0 \in 0..(m + n)
    BY <1>1
  <2> QED BY <1>1, <1>5, <2>1, <2>2
<1>9. \A i \in 0..m : w[i] = u[i] /\ u[i] \in Nat
  <2> DEFINE P == {i \in Nat : i \in 0..m => w[i] = u[i] /\ u[i] \in Nat}
  <2>1. 0 \in P
    BY <1>6, <1>8
  <2>2. ASSUME NEW i \in P PROVE i + 1 \in P
    <3> SUFFICES ASSUME i + 1 \in 0..m PROVE w[i + 1] = u[i + 1] /\ u[i + 1] \in Nat
      OBVIOUS
    <3>1. i \in 0..m /\ i + 1 \in 1..m /\ i + 1 \in 1..(m + n) /\ (i + 1) - 1 = i
      BY <1>1
    <3>2. w[i] = u[i] /\ u[i] \in Nat
      BY <3>1
    <3>3. r[i + 1] = s[i + 1] /\ s[i + 1].width \in Nat
      BY <1>1, <1>2, <3>1
    <3>4. w[i + 1] = w[i] + r[i + 1].width /\ u[i + 1] = u[i] + s[i + 1].width
      BY <1>6, <1>8, <3>1
    <3> QED BY <3>2, <3>3, <3>4
  <2>3. P = Nat
    <3>1. P \subseteq Nat
      OBVIOUS
    <3> HIDE DEF P
    <3> QED BY <2>1, <2>2, <3>1, Induction
  <2> QED BY <1>1, <2>3
<1>10. \A i \in 0..n : w[m + i] = u[m] + v[i] /\ v[i] \in Nat
  <2> DEFINE P == {i \in Nat : i \in 0..n => w[m + i] = u[m] + v[i] /\ v[i] \in Nat}
  <2>1. 0 \in P
    <3>1. m + 0 = m /\ m \in 0..m
      BY <1>1
    <3>2. w[m] = u[m] /\ u[m] \in Nat
      BY <1>9, <3>1
    <3> QED BY <1>7, <3>1, <3>2
  <2>2. ASSUME NEW i \in P PROVE i + 1 \in P
    <3> SUFFICES ASSUME i + 1 \in 0..n
                 PROVE  w[m + (i + 1)] = u[m] + v[i + 1] /\ v[i + 1] \in Nat
      OBVIOUS
    <3>1. /\ i \in 0..n /\ i + 1 \in 1..n /\ m + (i + 1) \in 1..(m + n) /\ (i + 1) - 1 = i
          /\ (m + (i + 1)) - 1 = m + i /\ ~(m + (i + 1) <= m) /\ (m + (i + 1)) - m = i + 1 /\ m \in 0..m
      BY <1>1
    <3>2. w[m + i] = u[m] + v[i] /\ v[i] \in Nat /\ u[m] \in Nat
      BY <1>9, <3>1
    <3>3. r[m + (i + 1)] = t[i + 1] /\ t[i + 1].width \in Nat
      <4>1. r[m + (i + 1)] = t[(m + (i + 1)) - m]
        BY <1>1, <3>1
      <4> QED BY <1>2, <3>1, <4>1
    <3>4. w[m + (i + 1)] = w[m + i] + r[m + (i + 1)].width /\ v[i + 1] = v[i] + t[i + 1].width
      BY <1>7, <1>8, <3>1
    <3> QED BY <3>2, <3>3, <3>4
  <2>3. P = Nat
    <3>1. P \subseteq Nat
      OBVIOUS
    <3> HIDE DEF P
    <3> QED BY <2>1, <2>2, <3>1, Induction
  <2>4. \A i \in 0..n : i \in P
    <3>1. \A i \in 0..n : i \in Nat
      BY <1>1
    <3> HIDE DEF P
    <3> QED BY <2>3, <3>1
  <2> QED BY <2>4
<1>11. m \in 0..m /\ n \in 0..n
  BY <1>1
<1>12. Width(s) = u[m] /\ Width(t) = v[n] /\ Width(r) = w[m + n]
  BY <1>1, <1>3, <1>4, <1>5
<1>13. Width(r) = Width(s) + Width(t) /\ Width(s) \in Nat
  BY <1>9, <1>10, <1>11, <1>12
<1> QED BY <1>1, <1>13 DEF r

\* A row said n times, as a loop says it.
LEMMA RepeatByTurns ==
  ASSUME NEW n \in Nat, NEW s
  PROVE  \E r : Repeat(n, s) = r[n] /\ r[0] = <<>> /\ \A i \in 1..n : r[i] = r[i - 1] \o s
<1> DEFINE G(x) == x \o s
           Ok(r, k) == r = [i \in 0..k |-> IF i = 0 THEN <<>> ELSE G(r[i - 1])]
           P == {k \in Nat : \E r : Ok(r, k)}
<1> HIDE DEF G
<1>1. 0 \in P
  <2> DEFINE r == [i \in 0..0 |-> <<>>]
  <2>1. Ok(r, 0)
    OBVIOUS
  <2> HIDE DEF r, Ok
  <2> QED BY <2>1
<1>2. ASSUME NEW k \in P PROVE k + 1 \in P
  <2>1. PICK r : Ok(r, k)
    OBVIOUS
  <2> DEFINE v == [i \in 0..(k + 1) |-> IF i = 0 THEN <<>> ELSE G(r[i - 1])]
  <2>2. \A i \in 0..k : v[i] = r[i]
    BY <2>1
  <2>3. \A i \in 0..(k + 1) : i # 0 => i - 1 \in 0..k
    OBVIOUS
  <2>4. \A i \in 0..(k + 1) : i # 0 => v[i - 1] = r[i - 1]
    BY <2>2, <2>3
  <2>5. Ok(v, k + 1)
    BY <2>4
  <2> HIDE DEF v, Ok
  <2> QED BY <2>5
<1>3. P = Nat
  <2>1. P \subseteq Nat
    OBVIOUS
  <2> HIDE DEF P
  <2> QED BY <1>1, <1>2, <2>1, Induction
<1>4. PICK r : Ok(r, n)
  BY <1>3
<1>5. Repeat(n, s) = r[n]
  <2>1. PICK q : q = CHOOSE f : Ok(f, n)
    OBVIOUS
  <2>2. Ok(q, n) /\ Repeat(n, s) = q[n]
    BY <1>4, <2>1, Zenon DEF Repeat, G
  <2>3. \A i \in 0..n : q[i] = r[i]
    <3> DEFINE Q == {i \in Nat : i \in 0..n => q[i] = r[i]}
    <3>1. 0 \in Q
      BY <1>4, <2>2
    <3>2. ASSUME NEW i \in Q PROVE i + 1 \in Q
      <4> SUFFICES ASSUME i + 1 \in 0..n PROVE q[i + 1] = r[i + 1]
        OBVIOUS
      <4>1. i \in 0..n /\ (i + 1) - 1 = i /\ i + 1 # 0
        OBVIOUS
      <4> QED BY <1>4, <2>2, <4>1
    <3>3. Q = Nat
      <4>1. Q \subseteq Nat
        OBVIOUS
      <4> HIDE DEF Q
      <4> QED BY <3>1, <3>2, <4>1, Induction
    <3>4. \A i \in 0..n : i \in Nat /\ i \in Q
      BY <3>3
    <3> QED BY <3>4
  <2> QED BY <2>2, <2>3
<1>6. r[0] = <<>> /\ \A i \in 1..n : r[i] = G(r[i - 1])
  <2>1. 0 \in 0..n /\ \A i \in 1..n : i \in 0..n /\ i # 0
    OBVIOUS
  <2> QED BY <1>4, <2>1
<1> QED BY <1>5, <1>6, Zenon DEF G

\* It is n times as wide; said once it is itself, twice it is doubled, and
\* nothing remains nothing.
LEMMA WidthOfRepeat ==
  ASSUME NEW n \in Nat, NEW s \in Seq(Fields)
  PROVE  /\ Repeat(n, s) \in Seq(Fields)
         /\ Width(Repeat(n, s)) = n * Width(s)
         /\ n = 1 => Repeat(n, s) = s
         /\ n = 2 => Repeat(n, s) = s \o s
         /\ s = <<>> => Repeat(n, s) = <<>>
<1>1. PICK r : Repeat(n, s) = r[n] /\ r[0] = <<>> /\ \A i \in 1..n : r[i] = r[i - 1] \o s
  BY RepeatByTurns
<1> DEFINE W == Width(s)
           P == {i \in Nat : i \in 0..n => /\ r[i] \in Seq(Fields) /\ Width(r[i]) = i * W
                                           /\ s = <<>> => r[i] = <<>>}
<1>2. W \in Nat
  BY WidthOfConcat
<1> HIDE DEF W
<1>3. 0 \in P
  <2>1. 0 * W = 0
    BY <1>2
  <2> QED BY <1>1, <2>1, WidthOfField
<1>4. ASSUME NEW i \in P PROVE i + 1 \in P
  <2> SUFFICES ASSUME i + 1 \in 0..n
               PROVE  /\ r[i + 1] \in Seq(Fields) /\ Width(r[i + 1]) = (i + 1) * W
                      /\ s = <<>> => r[i + 1] = <<>>
    OBVIOUS
  <2>1. i \in 0..n /\ i + 1 \in 1..n /\ (i + 1) - 1 = i
    OBVIOUS
  <2>2. r[i] \in Seq(Fields) /\ Width(r[i]) = i * W /\ (s = <<>> => r[i] = <<>>)
    BY <2>1
  <2>3. r[i + 1] = r[i] \o s
    BY <1>1, <2>1
  <2>4. r[i + 1] \in Seq(Fields) /\ Width(r[i + 1]) = Width(r[i]) + W
    <3> HIDE DEF P
    <3> QED BY <2>2, <2>3, WidthOfConcat DEF W
  <2>5. (i + 1) * W = i * W + W
    BY <1>2, <2>1
  <2>6. s = <<>> => r[i + 1] = <<>>
    BY <2>2, <2>3, ConcatEmptySeq
  <2> QED BY <2>2, <2>4, <2>5, <2>6
<1>5. P = Nat
  <2>1. P \subseteq Nat
    OBVIOUS
  <2> HIDE DEF P
  <2> QED BY <1>3, <1>4, <2>1, Induction
<1>6. n \in 0..n /\ n \in P
  BY <1>5
<1>7. n = 1 \/ n = 2 => r[1] = s
  <2>1. n = 1 \/ n = 2 => r[1] = r[1 - 1] \o s
    <3>1. n = 1 \/ n = 2 => 1 \in 1..n
      OBVIOUS
    <3> HIDE DEF P
    <3> QED BY <1>1, <3>1, Zenon
  <2>2. 1 - 1 = 0
    OBVIOUS
  <2> QED BY <1>1, <2>1, <2>2, ConcatEmptySeq
<1>8. n = 2 => r[2] = s \o s
  <2>1. n = 2 => r[2] = r[2 - 1] \o s
    <3>1. n = 2 => 2 \in 1..n
      OBVIOUS
    <3> HIDE DEF P
    <3> QED BY <1>1, <3>1, Zenon
  <2>2. 2 - 1 = 1
    OBVIOUS
  <2> QED BY <1>7, <2>1, <2>2
<1>9. Repeat(n, s) \in Seq(Fields) /\ Width(Repeat(n, s)) = n * W /\ (s = <<>> => Repeat(n, s) = <<>>)
  BY <1>1, <1>6
<1> HIDE DEF P
<1> QED BY <1>1, <1>7, <1>8, <1>9 DEF W

\* A submode's tables are numbers of bits and of subvectors.
Shaped(sm) ==
  /\ sm.lsp \in Nat /\ sm.ltp.pitch_bits \in Nat /\ sm.ltp.gain_bits \in Nat
  /\ sm.have_subframe_gain \in {0, 1, 3}
  /\ sm.innovation.nb_subvect \in Nat /\ sm.innovation.shape_bits \in Nat
EnvelopeBits(sm) ==
  sm.lsp * 6 + (IF sm.lbr_pitch # -1 THEN 7 ELSE 0) + (IF sm.forced_pitch_gain THEN 4 ELSE 0) + 5
InnovationBits(sm) == sm.innovation.nb_subvect * sm.innovation.shape_bits
SubframeBits(sm) ==
  (IF ~sm.forced_pitch_gain THEN sm.ltp.pitch_bits + sm.ltp.gain_bits ELSE 0)
  + sm.have_subframe_gain + InnovationBits(sm) + (IF sm.double_codebook THEN InnovationBits(sm) ELSE 0)

\* The bits of a frame in the table of submodes are those of its fields, and
\* submode 1 alone has neither pitch, gain nor innovation of a subframe.
LEMMA TableAddsUp ==
  ASSUME NEW m \in Coded
  PROVE  /\ Shaped(submodes[m])
         /\ submodes[m].bits_per_frame =
              5 + EnvelopeBits(submodes[m]) + 4 * SubframeBits(submodes[m]) + (IF m = 1 THEN 4 ELSE 0)
         /\ m = 1 => /\ submodes[m].forced_pitch_gain /\ ~submodes[m].double_codebook
                     /\ submodes[m].have_subframe_gain = 0 /\ submodes[m].innovation.nb_subvect = 0
<1> USE DEF submodes, Submode, Unused, noise_codebook, split_cb_nb_vlbr, split_cb_nb_ulbr,
        split_cb_nb_lbr, split_cb_nb, split_cb_nb_med, split_cb_sb, ltp_params_nb, ltp_params_vlbr,
        ltp_params_lbr, ltp_params_med
<1>1. CASE m = 1
  BY <1>1 DEF Shaped, EnvelopeBits, SubframeBits, InnovationBits
<1>2. CASE m = 2
  BY <1>2 DEF Shaped, EnvelopeBits, SubframeBits, InnovationBits
<1>3. CASE m = 3
  BY <1>3 DEF Shaped, EnvelopeBits, SubframeBits, InnovationBits
<1>4. CASE m = 4
  BY <1>4 DEF Shaped, EnvelopeBits, SubframeBits, InnovationBits
<1>5. CASE m = 5
  BY <1>5 DEF Shaped, EnvelopeBits, SubframeBits, InnovationBits
<1>6. CASE m = 6
  BY <1>6 DEF Shaped, EnvelopeBits, SubframeBits, InnovationBits
<1>7. CASE m = 7
  BY <1>7 DEF Shaped, EnvelopeBits, SubframeBits, InnovationBits
<1>8. CASE m = 8
  BY <1>8 DEF Shaped, EnvelopeBits, SubframeBits, InnovationBits
<1> HIDE DEF submodes
<1>9. m = 1 \/ m = 2 \/ m = 3 \/ m = 4 \/ m = 5 \/ m = 6 \/ m = 7 \/ m = 8
  BY DEF Coded
<1> QED BY <1>1, <1>2, <1>3, <1>4, <1>5, <1>6, <1>7, <1>8, <1>9

\* The decoder reads a subframe in the fields the encoder packs it in.
LEMMA SubframeReadBack ==
  ASSUME NEW m \in Coded
  PROVE  /\ EncodedSubframe(submodes[m]) \in Seq(Fields)
         /\ Width(EncodedSubframe(submodes[m])) = SubframeBits(submodes[m])
         /\ DecodedSubframe(submodes[m]) = EncodedSubframe(submodes[m])
         /\ m = 1 => EncodedSubframe(submodes[m]) = <<>>
<1> DEFINE sm == submodes[m]
           lag == F(sm.ltp.pitch_bits, "lag")
           taps == F(sm.ltp.gain_bits, "taps")
           sub == F(sm.have_subframe_gain, "sub")
           I == Innovation(sm)
           forced == sm.forced_pitch_gain
           double == sm.double_codebook
           pitch == If(~forced, lag \o taps)
           more == If(double, I)
<1>1. Shaped(sm) /\ (m = 1 => forced /\ ~double /\ sm.have_subframe_gain = 0 /\ sm.innovation.nb_subvect = 0)
  BY TableAddsUp
<1>2. /\ lag \in Seq(Fields) /\ Width(lag) = sm.ltp.pitch_bits
      /\ taps \in Seq(Fields) /\ Width(taps) = sm.ltp.gain_bits
      /\ sub \in Seq(Fields) /\ Width(sub) = sm.have_subframe_gain
      /\ F(sm.innovation.shape_bits, "shape") \in Seq(Fields)
      /\ Width(F(sm.innovation.shape_bits, "shape")) = sm.innovation.shape_bits
  <2>1. /\ sm.ltp.pitch_bits \in Nat /\ sm.ltp.gain_bits \in Nat
        /\ sm.have_subframe_gain \in Nat /\ sm.innovation.shape_bits \in Nat
    BY <1>1 DEF Shaped
  <2>2. "lag" \in Names /\ "taps" \in Names /\ "sub" \in Names /\ "shape" \in Names
    BY DEF Names
  <2> HIDE DEF sm
  <2> QED BY <2>1, <2>2, WidthOfField, Zenon
<1>3. I \in Seq(Fields) /\ Width(I) = InnovationBits(sm)
  BY <1>1, <1>2, WidthOfRepeat DEF Shaped, Innovation, InnovationBits
<1>4. /\ sm.ltp.pitch_bits \in Nat /\ sm.ltp.gain_bits \in Nat /\ sm.have_subframe_gain \in {0, 1, 3}
      /\ InnovationBits(sm) \in Nat
  BY <1>1, <1>3, WidthOfConcat DEF Shaped
<1>5. sub = CASE sm.have_subframe_gain = 3 -> F(3, "sub")
              [] sm.have_subframe_gain = 1 -> F(1, "sub")
              [] OTHER -> <<>>
  BY <1>4 DEF F
<1>6. m = 1 => sub = <<>> /\ I = <<>>
  <2>1. Repeat(0, F(sm.innovation.shape_bits, "shape")) = <<>>
    BY <1>2, RepeatByTurns
  <2> QED BY <1>1, <2>1 DEF F, Innovation
<1> DEFINE E == EncodedSubframe(sm)
           D == DecodedSubframe(sm)
           twice == Repeat(IF double THEN 2 ELSE 1, I)
<1>7. E = pitch \o sub \o I \o more
  BY DEF EncodedSubframe
<1>8. D = pitch \o sub \o twice
  BY <1>5 DEF DecodedSubframe
<1>9. SubframeBits(sm) = (IF ~forced THEN Width(lag) + Width(taps) ELSE 0) + Width(sub) + Width(I)
                         + (IF double THEN Width(I) ELSE 0)
  BY <1>2, <1>3 DEF SubframeBits
<1>10. m = 1 => forced /\ ~double
  BY <1>1
<1> HIDE DEF E, D, sm, lag, taps, sub, I, forced, double, twice
<1>11. pitch \in Seq(Fields) /\ Width(pitch) = IF ~forced THEN Width(lag) + Width(taps) ELSE 0
  BY <1>2, WidthOfConcat, WidthOfField DEF If
<1>12. more \in Seq(Fields) /\ Width(more) = IF double THEN Width(I) ELSE 0
  BY <1>3, WidthOfField DEF If
<1>13. twice = I \o more
  <2>1. CASE double
    <3>1. twice = Repeat(2, I)
      BY <2>1 DEF twice
    <3> QED BY <1>3, <2>1, <3>1, WidthOfRepeat DEF If
  <2>2. CASE ~double
    <3>1. twice = Repeat(1, I)
      BY <2>2 DEF twice
    <3>2. Repeat(1, I) = I /\ I \o <<>> = I
      BY <1>3, WidthOfRepeat, ConcatEmptySeq
    <3> QED BY <2>2, <3>1, <3>2 DEF If
  <2> QED BY <2>1, <2>2
<1>14. m = 1 => pitch = <<>> /\ more = <<>>
  BY <1>10 DEF If
<1> HIDE DEF pitch, more
<1> DEFINE A == pitch \o sub
<1>15. A \in Seq(Fields) /\ Width(A) = Width(pitch) + Width(sub)
  BY <1>2, <1>11, WidthOfConcat
<1>16. A \o I \in Seq(Fields) /\ Width(A \o I) = Width(A) + Width(I)
  <2> HIDE DEF A
  <2> QED BY <1>3, <1>15, WidthOfConcat
<1>17. (A \o I) \o more \in Seq(Fields) /\ Width((A \o I) \o more) = Width(A \o I) + Width(more)
  <2> HIDE DEF A
  <2> QED BY <1>12, <1>16, WidthOfConcat
<1>18. (A \o I) \o more = A \o (I \o more)
  <2> HIDE DEF A
  <2> QED BY <1>3, <1>12, <1>15, ConcatAssociative
<1>19. D = E
  BY <1>7, <1>8, <1>13, <1>18
<1>20. m = 1 => E = <<>>
  <2>1. <<>> \o <<>> = <<>>
    BY WidthOfField, ConcatEmptySeq
  <2> QED BY <1>6, <1>7, <1>14, <2>1
<1>21. E \in Seq(Fields) /\ Width(E) = SubframeBits(sm)
  <2>1. E = (A \o I) \o more
    BY <1>7
  <2>2. Width(E) = Width(pitch) + Width(sub) + Width(I) + Width(more)
    BY <2>1, <1>15, <1>16, <1>17
  <2> HIDE DEF A
  <2> QED BY <1>9, <1>11, <1>12, <1>17, <2>1, <2>2
<1> QED BY <1>19, <1>20, <1>21 DEF E, D, sm

\* A frame is read in the fields it is packed in, and is as wide as the table
\* of submodes says, for every submode.
LEMMA FrameReadBack ==
  ASSUME NEW m \in Modes
  PROVE  /\ Encoded(m) = F(1, "wideband") \o F(4, "submode") \o Decoded(m)
         /\ Width(Encoded(m)) = nb_mode_query(m)
         /\ Width(Encoded(m)) = 5 + Width(Decoded(m))
<1> DEFINE w == F(1, "wideband")
           s == F(4, "submode")
           h == w \o s
           extra == If(m = 1, F(4, "extra"))
           sm == submodes[m]
           e == EncodedSubframe(sm)
           R == Repeat(4, e)
           V == Envelope(sm)
<1>1. /\ w \in Seq(Fields) /\ Width(w) = 1 /\ s \in Seq(Fields) /\ Width(s) = 4
      /\ F(4, "extra") \in Seq(Fields) /\ Width(F(4, "extra")) = 4
      /\ F(4, "coef") \in Seq(Fields) /\ Width(F(4, "coef")) = 4
      /\ F(7, "pitch") \in Seq(Fields) /\ Width(F(7, "pitch")) = 7
      /\ F(6, "lsp") \in Seq(Fields) /\ Width(F(6, "lsp")) = 6
      /\ F(5, "gain") \in Seq(Fields) /\ Width(F(5, "gain")) = 5
  <2>1. /\ "wideband" \in Names /\ "submode" \in Names /\ "extra" \in Names /\ "coef" \in Names
        /\ "pitch" \in Names /\ "lsp" \in Names /\ "gain" \in Names
    BY DEF Names
  <2>2. 1 \in Nat /\ 4 \in Nat /\ 5 \in Nat /\ 6 \in Nat /\ 7 \in Nat
    OBVIOUS
  <2> QED BY <2>1, <2>2, WidthOfField, Zenon
<1> HIDE DEF w, s
<1>2. h \in Seq(Fields) /\ Width(h) = 5
  BY <1>1, WidthOfConcat
<1>3. /\ extra \in Seq(Fields) /\ Width(extra) = IF m = 1 THEN 4 ELSE 0
      /\ m # 1 => extra = <<>>
  BY <1>1, WidthOfField DEF If
<1> HIDE DEF h, extra
<1>4. CASE m = 0
  <2>1. IsNull(m) /\ nb_mode_query(m) = 5
    BY <1>4, ModeTable DEF nb_mode_query
  <2>2. Decoded(m) = <<>> /\ Encoded(m) = h \o <<>>
    BY <2>1 DEF Decoded, Encoded, If, h, w, s
  <2>3. Width(<<>>) = 0 /\ h \o <<>> = h
    BY <1>2, WidthOfField, ConcatEmptySeq
  <2> QED BY <1>2, <2>1, <2>2, <2>3 DEF h, w, s
<1>5. CASE m # 0
  <2>1. m \in Coded /\ ~IsNull(m)
    BY <1>5, ModeTable DEF Modes, Coded
  <2>2. /\ e \in Seq(Fields) /\ Width(e) = SubframeBits(sm) /\ DecodedSubframe(sm) = e
        /\ m = 1 => e = <<>>
    BY <2>1, SubframeReadBack
  <2>3. /\ sm.lsp \in Nat
        /\ sm.bits_per_frame = 5 + EnvelopeBits(sm) + 4 * SubframeBits(sm) + (IF m = 1 THEN 4 ELSE 0)
    BY <2>1, TableAddsUp DEF Shaped
  <2>4. nb_mode_query(m) = sm.bits_per_frame
    BY <2>1 DEF nb_mode_query
  <2> DEFINE lsps == Repeat(sm.lsp, F(6, "lsp"))
             low == sm.lbr_pitch # -1
             forced == sm.forced_pitch_gain
             a == If(low, F(7, "pitch"))
             b == If(forced, F(4, "coef"))
             g == F(5, "gain")
  <2>5. lsps \in Seq(Fields) /\ Width(lsps) = sm.lsp * 6
    BY <1>1, <2>3, WidthOfRepeat
  <2>6. V = lsps \o a \o b \o g
    BY DEF Envelope
  <2>7. EnvelopeBits(sm) = sm.lsp * 6 + (IF low THEN 7 ELSE 0) + (IF forced THEN 4 ELSE 0) + 5
    BY DEF EnvelopeBits
  <2> HIDE DEF lsps, low, forced, V
  <2>8. /\ a \in Seq(Fields) /\ Width(a) = IF low THEN 7 ELSE 0
        /\ b \in Seq(Fields) /\ Width(b) = IF forced THEN 4 ELSE 0
        /\ g \in Seq(Fields) /\ Width(g) = 5
    BY <1>1, WidthOfField DEF If
  <2> HIDE DEF a, b, g
  <2>9. lsps \o a \in Seq(Fields) /\ Width(lsps \o a) = Width(lsps) + Width(a)
    BY <2>5, <2>8, WidthOfConcat
  <2>10. lsps \o a \o b \in Seq(Fields) /\ Width(lsps \o a \o b) = Width(lsps \o a) + Width(b)
    BY <2>8, <2>9, WidthOfConcat
  <2>11. V \in Seq(Fields) /\ Width(V) = Width(lsps \o a \o b) + Width(g)
    BY <2>6, <2>8, <2>10, WidthOfConcat
  <2>12. Width(V) = EnvelopeBits(sm)
    BY <2>3, <2>5, <2>7, <2>8, <2>9, <2>10, <2>11
  <2>13. /\ R \in Seq(Fields) /\ Width(R) = 4 * SubframeBits(sm)
         /\ m = 1 => R = <<>>
    BY <2>2, WidthOfRepeat
  <2>14. Encoded(m) = h \o (V \o R \o extra)
    BY <2>1 DEF Encoded, If, h, w, s, extra, V
  <2>15. Decoded(m) = V \o extra \o R
    BY <2>1, <2>2 DEF Decoded, If, extra, V
  <2> HIDE DEF R, e, sm
  <2>16. V \o R \in Seq(Fields) /\ Width(V \o R) = Width(V) + Width(R)
    BY <2>11, <2>13, WidthOfConcat
  <2>17. V \o R \o extra \in Seq(Fields) /\ Width(V \o R \o extra) = Width(V \o R) + Width(extra)
    BY <1>3, <2>16, WidthOfConcat
  <2>18. V \o R \o extra = V \o extra \o R
    <3>1. V \o extra \in Seq(Fields)
      BY <1>3, <2>11, WidthOfConcat
    <3>2. CASE m = 1
      BY <2>11, <2>13, <3>1, <3>2, ConcatEmptySeq
    <3>3. CASE m # 1
      BY <1>3, <2>11, <2>16, <3>3, ConcatEmptySeq
    <3> QED BY <3>2, <3>3
  <2>19. Width(h \o (V \o R \o extra)) = 5 + Width(V \o R \o extra)
    BY <1>2, <2>17, WidthOfConcat
  <2>20. Width(V \o R \o extra) = EnvelopeBits(sm) + 4 * SubframeBits(sm) + (IF m = 1 THEN 4 ELSE 0)
    BY <1>3, <2>12, <2>13, <2>16, <2>17
  <2>21. Width(Encoded(m)) = nb_mode_query(m) /\ Width(Encoded(m)) = 5 + Width(Decoded(m))
    <3>1. EnvelopeBits(sm) \in Nat /\ SubframeBits(sm) \in Nat
      BY <2>2, <2>11, <2>12, WidthOfConcat
    <3> QED BY <2>3, <2>4, <2>14, <2>15, <2>18, <2>19, <2>20, <3>1
  <2>22. Encoded(m) = h \o Decoded(m)
    BY <2>14, <2>15, <2>18
  <2> QED BY <2>21, <2>22 DEF h, w, s
<1> QED BY <1>4, <1>5

\* Of the layers those of the four submodes that the decoder's table of widths
\* knows, of the requests that somebody registered for those whose handler takes
\* all that was sent; and nothing after that is not so.
Served(b) ==
  /\ b.kind = "wb" => b.m \in 1..4
  /\ b.kind = "ask" /\ b.id \in Handlers => b.id \in {0, 2, 3, 4, 5, 8}
  /\ b.kind # "astray"
ServedBlocks == {b \in Blocks : Served(b)}

\* The decoder reads every such block to its end, and no further.
LEMMA BlockReadBack ==
  ASSUME NEW b \in ServedBlocks
  PROVE  Read(b) = Bits(b)
<1>1. CASE b \in NullFrames \cup CodedFrames
  <2>1. b.m \in Modes
    BY <1>1, FrameKinds
  <2>2. b.kind = "nb"
    BY <1>1 DEF NullFrames, CodedFrames
  <2>3. Width(Encoded(b.m)) = 5 + Width(Decoded(b.m))
    BY <2>1, FrameReadBack
  <2>4. Bits(b) = Width(Encoded(b.m)) /\ Read(b) = 5 + Width(Decoded(b.m))
    BY <2>2 DEF Bits, Read
  <2> QED BY <2>3, <2>4
<1>2. CASE b \in [kind : {"wb"}, m : 0..7]
  <2>1. b.kind = "wb" /\ b.m \in 1..4
    BY <1>2 DEF ServedBlocks, Served
  <2>2. WidebandBits(b.m) = SkipLayer(b.m)
    BY <2>1 DEF WidebandBits, SkipLayer, wb_skip_table
  <2> QED BY <2>1, <2>2 DEF Bits, Read
<1>3. CASE b \in [kind : {"ask"}, id : 0..15]
  <2>1. b.kind = "ask" /\ b.id \in 0..15 /\ (b.id \in Handlers => b.id \in {0, 2, 3, 4, 5, 8})
    BY <1>3 DEF ServedBlocks, Served
  <2>2. \A i \in {0, 2, 3, 4, 5, 8} : HandlerBits(i) = RequestBits(i) /\ RequestBits(i) \in Nat
    BY DEF HandlerBits, RequestBits
  <2>3. speex_inband_handler(b.id) = 4 + RequestBits(b.id)
    BY <2>1, <2>2 DEF speex_inband_handler
  <2>4. RequestBits(b.id) \in Nat
    BY <2>1 DEF RequestBits
  <2>5. Bits(b) = (5 + 4) + RequestBits(b.id) /\ Read(b) = 5 + speex_inband_handler(b.id)
    BY <2>1 DEF Bits, Read
  <2> QED BY <2>3, <2>4, <2>5
<1>4. CASE b \in [kind : {"user"}, size : 0..15]
  <2>1. b.kind = "user"
    BY <1>4
  <2> QED BY <2>1 DEF Bits, Read, UserBits, speex_default_user_handler
<1>5. CASE b \in [kind : {"end"}]
  BY <1>5 DEF Bits, Read
<1>6. b \notin [kind : {"astray"}]
  BY DEF ServedBlocks, Served
<1> QED BY <1>1, <1>2, <1>3, <1>4, <1>5, <1>6 DEF ServedBlocks, Blocks, Extra

\* What stands before a frame, if nothing there makes the decoder refuse the
\* packet or stray, is served.
LEMMA AheadIsServed ==
  ASSUME NEW s \in Seq(Blocks), ~Refused(s), ~Astray(s)
  PROVE  InStepWith(s)
<1>1. Len(s) \in Nat /\ DOMAIN s = 1..Len(s)
  BY LenProperties
<1>2. Passed(s) # 0 => /\ Passed(s) \in 1..Len(s) /\ s[Passed(s)].kind \in {"nb", "end"}
  BY PassedIsFirst
<1>3. ASSUME NEW i \in 1..Len(s), Passed(s) = 0 \/ i <= Passed(s)
      PROVE  s[i] \in ServedBlocks
  <2>1. s[i] \in Blocks
    BY ElementOfSeq
  <2>2. CASE i = Passed(s)
    BY <1>2, <2>1, <2>2 DEF ServedBlocks, Served
  <2>3. CASE i # Passed(s)
    <3>1. i \in 1..Ahead(s) /\ \A j \in 1..i : j \in 1..Ahead(s)
      BY <1>1, <1>2, <1>3, <2>3 DEF Ahead
    <3>2. ~RefusedAt(s, i) /\ ~StraysAt(s, i)
      BY <3>1 DEF Refused, Astray
    <3>3. s[i].kind = "wb" => s[i].m \in 1..4
      <4> SUFFICES ASSUME s[i].kind = "wb" PROVE s[i].m \in 1..4
        OBVIOUS
      <4>1. s[i].m \in 0..7
        BY <2>1 DEF Blocks, NullFrames, CodedFrames, Extra
      <4>2. SkipLayer(s[i].m) # 0
        BY <3>2 DEF RefusedAt
      <4>3. \A m \in {0, 5, 6, 7} : SkipLayer(m) = 0
        BY DEF SkipLayer, wb_skip_table
      <4> QED BY <4>1, <4>2, <4>3
    <3>4. s[i].kind = "ask" /\ s[i].id \in Handlers => s[i].id \in {0, 2, 3, 4, 5, 8}
      <4> SUFFICES ASSUME s[i].kind = "ask", s[i].id \in Handlers PROVE s[i].id \in {0, 2, 3, 4, 5, 8}
        OBVIOUS
      <4>1. s[i].id \in {0, 2, 3, 4, 5, 7, 8}
        BY HandlersAssumption
      <4>2. ~(HandlerBits(s[i].id) < RequestBits(s[i].id))
        BY <3>2 DEF StraysAt
      <4>3. HandlerBits(7) < RequestBits(7)
        BY DEF HandlerBits, RequestBits
      <4> QED BY <4>1, <4>2, <4>3
    <3>5. s[i].kind # "astray"
      BY <3>2 DEF StraysAt
    <3> QED BY <2>1, <3>3, <3>4, <3>5 DEF ServedBlocks, Served
  <2> QED BY <2>2, <2>3
<1> QED BY <1>1, <1>3, BlockReadBack DEF InStepWith

\* Every step stays in step.
LEMMA StepInStep == InStep /\ Inv /\ [Next]_vars => InStep'
<1> SUFFICES ASSUME InStep, Inv, [Next]_vars PROVE InStep'
  OBVIOUS
<1>1. CASE Encode
  <2>1. PICK a \in Analysis : did' = [step |-> "encode", m |-> nb_encode(enc, a).frame.m]
    BY <1>1 DEF Encode
  <2> DEFINE r == nb_encode(enc, a)
             g == r.frame
  <2>2. g \in NullFrames \cup CodedFrames
    <3>1. enc \in EncStates
      BY DEF Inv, TypeOK
    <3> QED BY <3>1, FrameEncoded
  <2>3. did' = [step |-> "encode", m |-> g.m]
    BY <2>1
  <2> HIDE DEF r, g
  <2>4. /\ Encoded(g.m) = F(1, "wideband") \o F(4, "submode") \o Decoded(g.m)
        /\ Width(Encoded(g.m)) = nb_mode_query(g.m)
    BY <2>2, FrameKinds, FrameReadBack
  <2>5. did'.m = g.m /\ ~("inStep" \in DOMAIN did')
    BY <2>3
  <2> QED BY <2>4, <2>5, Zenon DEF InStep
<1>2. CASE DecodeFrame
  <2>1. PICK q, w : did' = [step |-> "decode", inStep |-> InStepWith(net), sure |-> q, alike |-> w]
    BY <1>2 DEF DecodeFrame
  <2>2. InStepWith(net)
    <3>1. net \in Seq(Blocks) /\ ~Refused(net) /\ ~Astray(net)
      BY <1>2 DEF DecodeFrame, Inv, TypeOK
    <3> QED BY <3>1, AheadIsServed
  <2>3. did'.inStep = InStepWith(net) /\ did'.step = "decode"
    BY <2>1
  <2> QED BY <2>2, <2>3 DEF InStep
<1>3. CASE DecodeEnd
  <2>1. did' = [step |-> "end", inStep |-> InStepWith(net) \/ Refused(net)]
    BY <1>3 DEF DecodeEnd
  <2>2. InStepWith(net) \/ Refused(net)
    <3>1. net \in Seq(Blocks) /\ ~Astray(net)
      BY <1>3 DEF DecodeEnd, Inv, TypeOK
    <3> QED BY <3>1, AheadIsServed
  <2>3. did'.inStep = (InStepWith(net) \/ Refused(net)) /\ did'.step = "end"
    BY <2>1
  <2> QED BY <2>2, <2>3 DEF InStep
<1>4. CASE Ctl \/ ResetEncoder \/ Insert \/ Deliver \/ Withhold \/ Lose \/ DecodeAstray
  <2>1. PICK w \in {"ctl", "insert", "deliver", "withhold", "lose", "astray"} : did' = [step |-> w]
    BY <1>4 DEF Ctl, ResetEncoder, Insert, Deliver, Withhold, Lose, DecodeAstray
  <2> QED BY <2>1 DEF InStep
<1>5. CASE DecodeNothing
  <2>1. PICK y, q : did' = [step |-> "made up", why |-> y, sure |-> q]
    BY <1>5 DEF DecodeNothing
  <2> QED BY <2>1 DEF InStep
<1>6. CASE UNCHANGED vars
  BY <1>6 DEF vars, InStep
<1> QED BY <1>1, <1>2, <1>3, <1>4, <1>5, <1>6 DEF Next

\* Encoder and decoder never lose step with each other, whatever the packets
\* hold, but for a VBR request that has a handler, and a frame is read field by
\* field as it was packed, in as many bits as speex_mode_query tells (nb_encode,
\* nb_decode, speex_inband_handler).
THEOREM FramesAreReadAsPacked == Spec => []InStep
<1>1. Init => InStep
  <2> SUFFICES ASSUME Init PROVE InStep
    OBVIOUS
  <2>1. did = [step |-> "none"]
    BY DEF Init
  <2> QED BY <2>1 DEF InStep
<1> QED BY <1>1, StepInStep, AlwaysInv, PTL DEF Spec
=============================================================================
