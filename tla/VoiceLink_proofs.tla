--------------------------- MODULE VoiceLink_proofs ---------------------------
(***************************************************************************)
(* What both ends of a coded call keep in step, for any sounds and any     *)
(* number of users, losses and restarts: the frames are shown to read      *)
(* back, field by field, and each action of the link to keep the two       *)
(* states together as far as what arrived tells (the invariant Tied).      *)
(***************************************************************************)
EXTENDS VoiceLink, SequenceTheorems, FiniteSetTheorems, WellFoundedInduction, TLAPS

(***************************************************************************)
(* The voice activity detector.  Of its context only the four counters     *)
(* that the smoothing looks at matter.                                     *)
(***************************************************************************)
VadContext(v) ==
  /\ {"frameCount", "SVDm1", "Count_inert", "noiseContinuityCounter"} \subseteq DOMAIN v
  /\ v.frameCount \in Nat /\ v.noiseContinuityCounter \in Nat /\ v.Count_inert \in 0..6

\* The counters of v and w agree.
SameCounters(w, v) ==
  /\ DOMAIN w = DOMAIN v
  /\ w.frameCount = v.frameCount /\ w.SVDm1 = v.SVDm1
  /\ w.Count_inert = v.Count_inert /\ w.noiseContinuityCounter = v.noiseContinuityCounter

\* The first means leave the counters alone, or start the count of frames again.
LEMMA FirstMeansKeep ==
  ASSUME NEW v, VadContext(v)
  PROVE  LET w == FirstMeans(v)
         IN  VadContext(w) /\ w.SVDm1 = v.SVDm1 /\ w.Count_inert = v.Count_inert
             /\ w.noiseContinuityCounter = v.noiseContinuityCounter
             /\ (w.frameCount = v.frameCount \/ (w.frameCount = 0 /\ v.frameCount = Ni))
<1>1. CASE v.frameCount # Ni
  BY <1>1 DEF FirstMeans, VadContext
<1>2. CASE v.frameCount = Ni /\ v.nbValidInitFrame = 0
  BY <1>2 DEF FirstMeans, VadContext
<1>3. CASE v.frameCount = Ni /\ v.nbValidInitFrame # 0
  BY <1>3 DEF FirstMeans, VadContext
<1>4. QED
  BY <1>1, <1>2, <1>3

\* Averaging and restarting the means leave the counters alone.
LEMMA MeansKeep ==
  ASSUME NEW v, NEW f, NEW S, VadContext(v)
  PROVE  SameCounters(Restarted(Averaged(v, f), S), v)
<1>1. SameCounters(Averaged(v, f), v)
  BY DEF Averaged, SameCounters, VadContext
<1>2. ASSUME NEW w, SameCounters(w, v)
      PROVE  SameCounters(Restarted(w, S), v)
  BY <1>2 DEF Restarted, SameCounters, VadContext
<1>3. QED
  BY <1>1, <1>2

\* A decision under way, with the context so far.
Stage(s) == {"Ivd", "v"} \subseteq DOMAIN s /\ s.Ivd \in {VOICE, NOISE} /\ VadContext(s.v)

\* The hysteresis counts the frames that it takes for voice.
LEMMA HysteresisActs ==
  ASSUME NEW s, Stage(s)
  PROVE  LET h == Hysteresis(s)
         IN  /\ Stage(h) /\ h.v.frameCount = s.v.frameCount
             /\ h.v.noiseContinuityCounter = s.v.noiseContinuityCounter
             /\ s.Ivd = VOICE => h.Ivd = VOICE /\ h.v.Count_inert = 0
             /\ s.Ivd = NOISE /\ s.v.Count_inert < 6 =>
                  h.Ivd = VOICE /\ h.v.Count_inert = s.v.Count_inert + 1
             /\ s.Ivd = NOISE /\ s.v.Count_inert = 6 =>
                  h.Ivd = NOISE /\ h.v.Count_inert = 6
<1>1. CASE s.Ivd = VOICE
  <2>1. Hysteresis(s) = [s EXCEPT !.v.Count_inert = 0]
    BY <1>1 DEF Hysteresis, VOICE, NOISE
  <2>2. Hysteresis(s).Ivd = VOICE
    BY <1>1, <2>1 DEF Stage
  <2>3. Hysteresis(s).v = [s.v EXCEPT !.Count_inert = 0] /\ DOMAIN Hysteresis(s) = DOMAIN s
    BY <2>1 DEF Stage
  <2>4. QED
    BY <1>1, <2>2, <2>3 DEF Stage, VadContext, VOICE, NOISE
<1>2. CASE s.Ivd = NOISE /\ s.v.Count_inert < 6
  <2>1. Hysteresis(s) = [Ivd |-> VOICE, v |-> [s.v EXCEPT !.Count_inert = @ + 1]]
    BY <1>2 DEF Hysteresis, VOICE, NOISE
  <2>2. Hysteresis(s).v = [s.v EXCEPT !.Count_inert = @ + 1] /\ Hysteresis(s).Ivd = VOICE
        /\ DOMAIN Hysteresis(s) = {"Ivd", "v"}
    BY <2>1
  <2>3. QED
    BY <1>2, <2>2 DEF Stage, VadContext, VOICE, NOISE
<1>3. CASE s.Ivd = NOISE /\ s.v.Count_inert = 6
  BY <1>3 DEF Hysteresis, Stage, VadContext, VOICE, NOISE
<1>4. QED
  BY <1>1, <1>2, <1>3 DEF Stage, VadContext

\* Two frames of context may make voice of noise; the counters stand.
LEMMA FirstStagesAct ==
  ASSUME NEW s, NEW f, Stage(s)
  PROVE  LET h == SecondStage(FirstStage(s, f), f)
         IN  Stage(h) /\ SameCounters(h.v, s.v) /\ (h.Ivd = s.Ivd \/ h.Ivd = VOICE)
<1>1. LET h == FirstStage(s, f)
      IN  Stage(h) /\ h.v = s.v /\ (h.Ivd = s.Ivd \/ h.Ivd = VOICE)
  BY DEF FirstStage, Stage
<1>2. ASSUME NEW g, Stage(g), g.v = s.v, g.Ivd = s.Ivd \/ g.Ivd = VOICE
      PROVE  LET h == SecondStage(g, f)
             IN  Stage(h) /\ SameCounters(h.v, g.v) /\ (h.Ivd = g.Ivd \/ h.Ivd = VOICE)
  <2> DEFINE h == SecondStage(g, f)
  <2>1. \/ /\ h.Ivd = g.Ivd /\ DOMAIN h = DOMAIN g
           /\ h.v = [g.v EXCEPT !.secondStageVADSmoothingFlag = 1]
        \/ /\ h.Ivd = VOICE /\ DOMAIN h = {"Ivd", "v"}
           /\ \E x, y : h.v = [g.v EXCEPT !.smoothingCounter = x, !.secondStageVADSmoothingFlag = y]
    BY <1>2 DEF SecondStage, Stage
  <2>2. SameCounters(h.v, g.v)
    BY <2>1, <1>2 DEF SameCounters, Stage, VadContext
  <2>3. VadContext(h.v)
    BY <2>2, <1>2 DEF SameCounters, Stage, VadContext
  <2> HIDE DEF h
  <2>4. h.Ivd \in {VOICE, NOISE} /\ {"Ivd", "v"} \subseteq DOMAIN h
    BY <2>1, <1>2 DEF Stage
  <2>5. Stage(h) /\ SameCounters(h.v, g.v) /\ (h.Ivd = g.Ivd \/ h.Ivd = VOICE)
    BY <2>1, <2>2, <2>3, <2>4 DEF Stage
  <2>6. QED
    BY <2>5 DEF h
<1>3. QED
  BY <1>1, <1>2

\* After more than ten frames of noise voice may be taken for noise.
LEMMA ThirdStageActs ==
  ASSUME NEW s, NEW f, Stage(s)
  PROVE  LET h == ThirdStage(s, f)
         IN  /\ Stage(h) /\ h.v.frameCount = s.v.frameCount
             /\ s.Ivd = NOISE =>
                  /\ h.Ivd = NOISE /\ h.v.Count_inert = s.v.Count_inert
                  /\ h.v.noiseContinuityCounter = s.v.noiseContinuityCounter + 1
             /\ s.Ivd = VOICE =>
                  /\ h.v.noiseContinuityCounter = 0
                  /\ \/ h.Ivd = VOICE /\ h.v.Count_inert = s.v.Count_inert
                     \/ /\ h.Ivd = NOISE /\ h.v.Count_inert = 6
                        /\ s.v.noiseContinuityCounter > 10
<1> DEFINE h == ThirdStage(s, f)
<1>1. CASE s.Ivd = NOISE
  <2>1. h = [s EXCEPT !.v.noiseContinuityCounter = s.v.noiseContinuityCounter + 1]
    BY <1>1 DEF ThirdStage, VOICE, NOISE
  <2>2. h.v = [s.v EXCEPT !.noiseContinuityCounter = s.v.noiseContinuityCounter + 1]
        /\ h.Ivd = s.Ivd /\ DOMAIN h = DOMAIN s
    BY <2>1 DEF Stage
  <2> HIDE DEF h
  <2>3. VadContext(h.v) /\ h.v.frameCount = s.v.frameCount
        /\ h.v.Count_inert = s.v.Count_inert
        /\ h.v.noiseContinuityCounter = s.v.noiseContinuityCounter + 1
    BY <2>2 DEF Stage, VadContext
  <2>4. QED
    BY <1>1, <2>2, <2>3 DEF Stage, VOICE, NOISE, h
<1>2. CASE s.Ivd = VOICE /\ s.v.noiseContinuityCounter > 10
           /\ f.Ef - s.v.previousFrameEf <= Near3dB
  <2>1. h = [Ivd |-> NOISE, v |-> [s.v EXCEPT !.noiseContinuityCounter = 0, !.Count_inert = 6]]
    BY <1>2 DEF ThirdStage, VOICE, NOISE
  <2>2. h.v = [s.v EXCEPT !.noiseContinuityCounter = 0, !.Count_inert = 6]
        /\ h.Ivd = NOISE /\ DOMAIN h = {"Ivd", "v"}
    BY <2>1
  <2> HIDE DEF h
  <2>3. VadContext(h.v) /\ h.v.frameCount = s.v.frameCount
        /\ h.v.Count_inert = 6 /\ h.v.noiseContinuityCounter = 0
    BY <2>2 DEF Stage, VadContext
  <2>4. QED
    BY <1>2, <2>2, <2>3 DEF Stage, VOICE, NOISE, h
<1>3. CASE s.Ivd = VOICE /\ ~(s.v.noiseContinuityCounter > 10
                              /\ f.Ef - s.v.previousFrameEf <= Near3dB)
  <2>1. h = [s EXCEPT !.v.noiseContinuityCounter = 0]
    BY <1>3 DEF ThirdStage, VOICE, NOISE
  <2>2. h.v = [s.v EXCEPT !.noiseContinuityCounter = 0] /\ h.Ivd = s.Ivd /\ DOMAIN h = DOMAIN s
    BY <2>1 DEF Stage
  <2> HIDE DEF h
  <2>3. VadContext(h.v) /\ h.v.frameCount = s.v.frameCount
        /\ h.v.Count_inert = s.v.Count_inert /\ h.v.noiseContinuityCounter = 0
    BY <2>2 DEF Stage, VadContext
  <2>4. QED
    BY <1>3, <2>2, <2>3 DEF Stage, VOICE, NOISE, h
<1>4. QED
  BY <1>1, <1>2, <1>3 DEF Stage

\* The decision before it is smoothed is one of two.
LEMMA BoundaryDecides == \A v, f : Boundary(v, f) \in {VOICE, NOISE}
  BY DEF Boundary, multiBoundaryInitialVoiceActivityDecision

\* What the detector makes of a frame, from its counters C and N: while the
\* first means are made its decision is the boundary's; then a frame goes as
\* noise against it only after more than ten that did, and with it only after
\* six in a row that went as speech.
Detects(v, d) ==
  LET C == v.Count_inert  N == v.noiseContinuityCounter IN
  /\ VadContext(d.v) /\ d.Ivd \in {VOICE, NOISE} /\ d.boundary \in {VOICE, NOISE}
  /\ \/ /\ d.Ivd = d.boundary /\ v.frameCount <= Ni /\ d.v.frameCount <= Ni
        /\ d.v.Count_inert = C /\ d.v.noiseContinuityCounter = N
     \/ /\ d.v.frameCount > Ni /\ d.v.SVDm1 = d.Ivd
        /\ \/ /\ d.boundary = VOICE /\ d.Ivd = VOICE
              /\ d.v.Count_inert = 0 /\ d.v.noiseContinuityCounter = 0
           \/ /\ d.Ivd = NOISE /\ N > 10
              /\ d.v.Count_inert = 6 /\ d.v.noiseContinuityCounter = 0
           \/ /\ d.boundary = NOISE /\ d.Ivd = VOICE
              /\ d.v.Count_inert <= C + 1 /\ d.v.noiseContinuityCounter = 0
           \/ /\ d.boundary = NOISE /\ d.Ivd = NOISE /\ C = 6
              /\ d.v.Count_inert = 6 /\ d.v.noiseContinuityCounter = N + 1

\* The detector acts so on every context.
LEMMA VadDetects ==
  ASSUME NEW c, NEW f, VadContext(c)
  PROVE  Detects(c, bcg729_vad(c, f))
<1> DEFINE c0 == [c EXCEPT !.EfBuffer[c.frameCount % N0] = f.Ef]
           v == FirstMeans(c0)
           Ivd == Boundary(v, f)
           s0 == [Ivd |-> Ivd, v |-> v]
           s1 == Hysteresis(s0)
           s2 == SecondStage(FirstStage(s1, f), f)
           s3 == ThirdStage(s2, f)
           w == Restarted(Averaged(s3.v, f), deltaS(v, f))
           i == Initialising(v, f)
           d == bcg729_vad(c, f)
<1>1. VadContext(c0) /\ SameCounters(c0, c)
  BY DEF VadContext, SameCounters
<1>2. VadContext(v) /\ v.Count_inert = c.Count_inert
      /\ v.noiseContinuityCounter = c.noiseContinuityCounter
      /\ (v.frameCount = c.frameCount \/ c.frameCount = Ni)
  <2> HIDE DEF c0
  <2>1. QED
    BY <1>1, FirstMeansKeep DEF SameCounters
<1>3. Ivd \in {VOICE, NOISE}
  BY BoundaryDecides
<1> HIDE DEF c0, v, Ivd
<1>4. CASE v.frameCount < Ni
  <2>1. d = [v |-> i, Ivd |-> i.SVDm1, boundary |-> i.SVDm1]
    BY <1>4 DEF bcg729_vad, c0, v
  <2>2. d.v = i /\ d.Ivd = i.SVDm1 /\ d.boundary = i.SVDm1
    BY <2>1
  <2>3. /\ VadContext(i) /\ i.SVDm1 \in {VOICE, NOISE} /\ i.frameCount = v.frameCount + 1
        /\ i.Count_inert = v.Count_inert /\ i.noiseContinuityCounter = v.noiseContinuityCounter
    BY <1>2 DEF Initialising, VadContext
  <2>4. i.frameCount <= Ni /\ c.frameCount <= Ni
    BY <2>3, <1>4, <1>2, VadAssumption DEF VadContext
  <2>5. QED
    BY <2>2, <2>3, <2>4, <1>2 DEF Detects
<1>5. CASE ~(v.frameCount < Ni)
  <2>1. d = [v |-> [w EXCEPT !.frameCount = @ + 1, !.previousFrameEf = f.Ef,
                            !.SVDm2 = w.SVDm1, !.SVDm1 = s3.Ivd],
             Ivd |-> s3.Ivd, boundary |-> Ivd]
    BY <1>5 DEF bcg729_vad, c0, v, Ivd
  <2>2. Stage(s0) /\ s0.Ivd = Ivd /\ s0.v = v
    BY <1>2, <1>3 DEF Stage
  <2> HIDE DEF s0
  <2>3. /\ Stage(s1)
        /\ s1.v.noiseContinuityCounter = c.noiseContinuityCounter
        /\ s1.v.frameCount = v.frameCount
        /\ Ivd = VOICE => s1.Ivd = VOICE /\ s1.v.Count_inert = 0
        /\ Ivd = NOISE /\ c.Count_inert < 6 => s1.Ivd = VOICE /\ s1.v.Count_inert = c.Count_inert + 1
        /\ Ivd = NOISE /\ c.Count_inert = 6 => s1.Ivd = NOISE /\ s1.v.Count_inert = 6
    BY <2>2, <1>2, HysteresisActs
  <2> HIDE DEF s1
  <2>4. Stage(s2) /\ SameCounters(s2.v, s1.v) /\ (s2.Ivd = s1.Ivd \/ s2.Ivd = VOICE)
    BY <2>3, FirstStagesAct
  <2> HIDE DEF s2
  <2>5. /\ Stage(s3) /\ s3.v.frameCount = s2.v.frameCount
        /\ s2.Ivd = NOISE =>
             /\ s3.Ivd = NOISE /\ s3.v.Count_inert = s2.v.Count_inert
             /\ s3.v.noiseContinuityCounter = s2.v.noiseContinuityCounter + 1
        /\ s2.Ivd = VOICE =>
             /\ s3.v.noiseContinuityCounter = 0
             /\ \/ s3.Ivd = VOICE /\ s3.v.Count_inert = s2.v.Count_inert
                \/ s3.Ivd = NOISE /\ s3.v.Count_inert = 6 /\ s2.v.noiseContinuityCounter > 10
    BY <2>4, ThirdStageActs
  <2> HIDE DEF s3
  <2>6. VadContext(w) /\ SameCounters(w, s3.v)
    BY <2>5, MeansKeep DEF Stage, SameCounters, VadContext
  <2> HIDE DEF w
  <2>7. d.v = [w EXCEPT !.frameCount = @ + 1, !.previousFrameEf = f.Ef,
                        !.SVDm2 = w.SVDm1, !.SVDm1 = s3.Ivd]
        /\ d.Ivd = s3.Ivd /\ d.boundary = Ivd
    BY <2>1
  <2> HIDE DEF d
  <2>8. VadContext(d.v) /\ d.v.SVDm1 = d.Ivd /\ d.v.frameCount = w.frameCount + 1
        /\ d.v.Count_inert = s3.v.Count_inert
        /\ d.v.noiseContinuityCounter = s3.v.noiseContinuityCounter
    BY <2>6, <2>7 DEF VadContext, SameCounters
  <2>9. c.Count_inert \in 0..6 /\ c.noiseContinuityCounter \in Nat
    BY DEF VadContext
  <2>10. s3.Ivd \in {VOICE, NOISE} /\ s2.Ivd \in {VOICE, NOISE} /\ s2.v.Count_inert = s1.v.Count_inert
         /\ s2.v.noiseContinuityCounter = c.noiseContinuityCounter
    BY <2>3, <2>4, <2>5 DEF Stage, SameCounters
  <2>11. w.frameCount = v.frameCount
    BY <2>2, <2>3, <2>4, <2>5, <2>6 DEF SameCounters
  <2>12. d.v.frameCount > Ni
    BY <2>8, <2>11, <1>5, <1>2, VadAssumption DEF VadContext, SameCounters
  <2>13. Detects(c, d)
    BY <2>12, <1>3, <2>3, <2>4, <2>5, <2>7, <2>8, <2>9, <2>10 DEF Detects, VOICE, NOISE
  <2>14. QED
    BY <2>13 DEF d
<1>6. QED
  BY <1>4, <1>5

\* What the counters of the detector say of the frames since the last voice
\* that was sent, which the tie counts.
TalkFollows(t, v) ==
  /\ t.missed \in 0..1 /\ (t.missed = 1 => v.noiseContinuityCounter = 0)
  /\ v.Count_inert <= t.noisy
  /\ v.noiseContinuityCounter > 0 => t.noisy > 6
  /\ v.frameCount > Ni /\ v.SVDm1 = NOISE => t.noisy > 6
  /\ v.frameCount <= Ni => v.Count_inert = 0 /\ v.noiseContinuityCounter = 0

\* A frame keeps them, however it is decided.
LEMMA TalkGoesOn ==
  ASSUME NEW t, NEW u, NEW v, NEW d, VadContext(v), Detects(v, d), TalkFollows(t, v),
         t.noisy \in 0..Whole,
         u.missed = IF d.boundary = VOICE /\ d.Ivd = NOISE THEN t.missed + 1 ELSE 0,
         u.noisy = IF d.boundary = NOISE THEN Grown(t.noisy, 1)
                   ELSE IF d.Ivd = VOICE THEN 0 ELSE t.noisy
  PROVE  TalkFollows(u, d.v)
<1> USE DEF Whole, Grown, Low, VOICE, NOISE, Detects, VadContext, TalkFollows
<1>1. u.missed \in 0..1 /\ (u.missed = 1 => d.v.noiseContinuityCounter = 0)
  OBVIOUS
<1>2. d.v.Count_inert <= u.noisy
  OBVIOUS
<1>3. d.v.noiseContinuityCounter > 0 => u.noisy > 6
  OBVIOUS
<1>4. d.v.frameCount > Ni /\ d.v.SVDm1 = NOISE => u.noisy > 6
  BY VadAssumption
<1>5. d.v.frameCount <= Ni => d.v.Count_inert = 0 /\ d.v.noiseContinuityCounter = 0
  BY VadAssumption
<1>6. QED
  BY <1>1, <1>2, <1>3, <1>4, <1>5
-----------------------------------------------------------------------------
(***************************************************************************)
(* The memories of the predictors, in both codecs: n entries, the newest   *)
(* first.                                                                  *)
(***************************************************************************)
Memory(mem, n) == mem = [i \in 1..n |-> mem[i]]

\* What is shifted in moves every entry by one.
LEMMA ShiftedIs ==
  ASSUME NEW n \in Nat \ {0}, NEW mem, NEW x, Memory(mem, n)
  PROVE  Shifted(x, mem) = [i \in 1..n |-> IF i = 1 THEN x ELSE mem[i - 1]]
<1> DEFINE S == {mem[i] : i \in 1..n} \cup {x}
           front == SubSeq(mem, 1, n - 1)
<1>1. mem \in Seq(S) /\ Len(mem) = n
  <2>1. mem \in [1..n -> S]
    BY DEF Memory
  <2>2. QED
    BY <2>1, LenProperties
<1>2. front \in Seq(S) /\ Len(front) = n - 1 /\ \A i \in 1..(n - 1) : front[i] = mem[i]
  BY <1>1, SubSeqProperties
<1>3. <<x>> \in Seq(S) /\ Len(<<x>>) = 1 /\ <<x>>[1] = x
  OBVIOUS
<1> HIDE DEF S, front
<1>4. <<x>> \o front = [i \in 1..n |-> IF i = 1 THEN x ELSE mem[i - 1]]
  <2>1. /\ <<x>> \o front \in Seq(S) /\ Len(<<x>> \o front) = n
        /\ \A i \in 1..n : (<<x>> \o front)[i] = IF i <= 1 THEN <<x>>[i] ELSE front[i - 1]
    BY <1>2, <1>3, ConcatProperties
  <2>2. <<x>> \o front = [i \in 1..n |-> (<<x>> \o front)[i]]
    BY <2>1, LenProperties
  <2>3. \A i \in 1..n : (<<x>> \o front)[i] = IF i = 1 THEN x ELSE mem[i - 1]
    BY <2>1, <1>2, <1>3
  <2>4. QED
    BY <2>2, <2>3
<1>5. QED
  BY <1>1, <1>4 DEF Shifted, front

\* It is a memory again.
LEMMA ShiftedMemory ==
  ASSUME NEW n \in Nat \ {0}, NEW mem, NEW x, Memory(mem, n)
  PROVE  /\ Memory(Shifted(x, mem), n) /\ Shifted(x, mem)[1] = x
         /\ \A i \in 2..n : Shifted(x, mem)[i] = mem[i - 1]
<1> DEFINE s == Shifted(x, mem)
<1>1. s = [i \in 1..n |-> IF i = 1 THEN x ELSE mem[i - 1]]
  BY ShiftedIs
<1> HIDE DEF s
<1>2. s[1] = x /\ \A i \in 2..n : s[i] = mem[i - 1]
  BY <1>1
<1>3. s = [i \in 1..n |-> s[i]]
  BY <1>1
<1>4. QED
  BY <1>2, <1>3 DEF Memory, s

\* Two memories agree in the first k entries.
Agree(k, a, b) == \A i \in 1..k : a[i] = b[i]

\* The same entry shifted into both makes them agree in one more.
LEMMA AgreeMore ==
  ASSUME NEW n \in Nat \ {0}, NEW a, NEW b, NEW x, NEW k \in 0..Whole, Memory(a, n), Memory(b, n),
         Agree(Low(k, n), a, b)
  PROVE  Agree(Low(Grown(k, 1), n), Shifted(x, a), Shifted(x, b))
<1>1. \A i \in 2..n : i - 1 <= Low(k, n) => a[i - 1] = b[i - 1]
  BY DEF Agree, Low
<1>2. \A i \in 1..Low(Grown(k, 1), n) : i \in 1..n /\ (i > 1 => i - 1 <= Low(k, n))
  BY DEF Low, Grown, Whole
<1>3. \A i \in 1..Low(Grown(k, 1), n) : Shifted(x, a)[i] = Shifted(x, b)[i]
  BY <1>1, <1>2, ShiftedMemory
<1>4. QED
  BY <1>3 DEF Agree

\* Two memories that agree in all entries are the same.
LEMMA AgreeWhole ==
  ASSUME NEW n \in Nat, NEW a, NEW b, Memory(a, n), Memory(b, n), Agree(n, a, b)
  PROVE  a = b
  BY DEF Memory, Agree
-----------------------------------------------------------------------------
(***************************************************************************)
(* G.729: what the two frames say is read back.                            *)
(***************************************************************************)
\* The parameters of a speech frame are fifteen numbers.
LEMMA ParametersAre ==
  ASSUME NEW a \in G729Findings
  PROVE  LET p == Parameters(a)
         IN  /\ p[1] = a.L[1] /\ p[2] = a.L[2] /\ p[3] = a.L[3] /\ p[4] = a.L[4]
             /\ p[9] = indexMappingGA[a.sub[1].ga + 1] /\ p[10] = indexMappingGB[a.sub[1].gb + 1]
             /\ p[14] = indexMappingGA[a.sub[2].ga + 1] /\ p[15] = indexMappingGB[a.sub[2].gb + 1]
             /\ p[5] \in Int /\ p[8] \in Int /\ p[11] \in Int /\ p[13] \in Int
<1> DEFINE s1 == a.sub[1]  s2 == a.sub[2]
           P1 == pitchDelayCodeword1(s1.T, s1.frac)
           P2 == pitchDelayCodeword2(s2.T, s2.frac, s1.T)
<1>1. s1 \in Subframes /\ s2 \in Subframes
  BY DEF G729Findings
<1> HIDE DEF s1, s2
<1>2. /\ s1.T \in Int /\ s1.frac \in Int /\ s1.signs \in Int
      /\ s2.T \in Int /\ s2.frac \in Int /\ s2.signs \in Int
  <2>1. \A s \in Subframes : s.T \in Int /\ s.frac \in Int /\ s.signs \in Int
    BY DEF Subframes, MAXIMUM_INT_PITCH_DELAY
  <2>2. QED
    BY <1>1, <2>1
<1>3. P1 \in Int /\ P2 \in Int
  BY <1>2 DEF pitchDelayCodeword1, pitchDelayCodeword2, SecondMin, High, MAXIMUM_INT_PITCH_DELAY
<1>4. Parameters(a) =
        <<a.L[1], a.L[2], a.L[3], a.L[4], P1, computeParity(P1), fixedCodebookParameter(s1.m),
          s1.signs, indexMappingGA[s1.ga + 1], indexMappingGB[s1.gb + 1],
          P2, fixedCodebookParameter(s2.m), s2.signs,
          indexMappingGA[s2.ga + 1], indexMappingGB[s2.gb + 1]>>
  BY DEF Parameters, s1, s2
<1> HIDE DEF P1, P2
<1>5. QED
  BY <1>2, <1>3, <1>4 DEF s1, s2

\* The first byte holds two indexes.
LEMMA FirstByte ==
  ASSUME NEW x \in 0..1, NEW y \in 0..127
  PROVE  LET b == Field(x, 0, 1) * 128 + Field(y, 0, 7)
         IN  Field(b, 7, 1) = x /\ Field(b, 0, 7) = y
  BY DEF Field
\* Two indexes of five bits lie across two bytes,
LEMMA IndexFields ==
  ASSUME NEW x \in 0..31, NEW y \in 0..31, NEW z \in Int
  PROVE  LET b == Field(x, 0, 5) * 8 + Field(y, 2, 3)
             c == Field(y, 0, 2) * 64 + Field(z, 2, 6)
         IN  Field(b, 3, 5) = x /\ Field(b, 0, 3) * 4 + Field(c, 6, 2) = y
<1>1. Field(x, 0, 5) = x /\ Field(y, 2, 3) \in 0..7 /\ (Field(y, 2, 3) * 4) + Field(y, 0, 2) = y /\ Field(y, 0, 2) \in 0..3
  BY DEF Field
<1>2. Field(z, 2, 6) \in 0..63
  BY DEF Field
<1>3. ASSUME NEW h \in 0..31, NEW l \in 0..7
      PROVE  Field((h * 8) + l, 3, 5) = h /\ Field((h * 8) + l, 0, 3) = l
  BY DEF Field
<1>4. ASSUME NEW h \in 0..3, NEW l \in 0..63
      PROVE  Field((h * 64) + l, 6, 2) = h
  BY DEF Field
<1>5. /\ Field((x * 8) + Field(y, 2, 3), 3, 5) = x
      /\ Field((x * 8) + Field(y, 2, 3), 0, 3) = Field(y, 2, 3)
  BY <1>1, <1>3
<1>6. Field((Field(y, 0, 2) * 64) + Field(z, 2, 6), 6, 2) = Field(y, 0, 2)
  BY <1>1, <1>2, <1>4
<1>7. QED
  BY <1>1, <1>5, <1>6
\* and so do the gains of the first subframe;
GainsAcross(w, x, y, z) ==
  LET b == Field(w, 0, 4) * 16 + Field(x, 0, 3) * 2 + Field(y, 3, 1)
      c == Field(y, 0, 3) * 32 + Field(z, 0, 5)
  IN  Field(b, 1, 3) = x /\ Field(b, 0, 1) * 8 + Field(c, 5, 3) = y

\* The gains of the first half frame, which lie across two bytes.
LEMMA GainFieldsAcross ==
  ASSUME NEW w \in Int, NEW x \in 0..7, NEW y \in 0..15, NEW z \in Int
  PROVE  GainsAcross(w, x, y, z)
<1>1. Field(x, 0, 3) = x /\ Field(y, 3, 1) \in 0..1 /\ (Field(y, 3, 1) * 8) + Field(y, 0, 3) = y /\ Field(y, 0, 3) \in 0..7
  BY DEF Field
<1>2. Field(w, 0, 4) \in 0..15 /\ Field(z, 0, 5) \in 0..31
  BY DEF Field
<1>3. ASSUME NEW g \in 0..15, NEW h \in 0..7, NEW l \in 0..1
      PROVE  Field((g * 16) + (h * 2) + l, 1, 3) = h /\ Field((g * 16) + (h * 2) + l, 0, 1) = l
  BY DEF Field
<1>4. ASSUME NEW h \in 0..7, NEW l \in 0..31
      PROVE  Field((h * 32) + l, 5, 3) = h
  BY DEF Field
<1>5. LET b == (Field(w, 0, 4) * 16) + (x * 2) + Field(y, 3, 1)
      IN  Field(b, 1, 3) = x /\ Field(b, 0, 1) = Field(y, 3, 1)
  BY <1>1, <1>2, <1>3
<1>6. Field((Field(y, 0, 3) * 32) + Field(z, 0, 5), 5, 3) = Field(y, 0, 3)
  BY <1>1, <1>2, <1>4
<1>7. QED
  BY <1>1, <1>5, <1>6 DEF GainsAcross
\* those of the second end the frame.
LEMMA GainFieldsWithin ==
  ASSUME NEW w \in Int, NEW x \in 0..7, NEW y \in 0..15
  PROVE  LET b == Field(w, 0, 1) * 128 + Field(x, 0, 3) * 16 + Field(y, 0, 4)
         IN  Field(b, 4, 3) = x /\ Field(b, 0, 4) = y
<1>1. Field(x, 0, 3) = x /\ Field(y, 0, 4) = y
  BY DEF Field
<1>2. Field(w, 0, 1) \in 0..1
  BY DEF Field
<1>3. ASSUME NEW g \in 0..1, NEW h \in 0..7, NEW l \in 0..15
      PROVE  Field((g * 128) + (h * 16) + l, 4, 3) = h /\ Field((g * 128) + (h * 16) + l, 0, 4) = l
  BY DEF Field
<1>4. LET b == (Field(w, 0, 1) * 128) + (x * 16) + y
      IN  Field(b, 4, 3) = x /\ Field(b, 0, 4) = y
  BY <1>2, <1>3
<1>5. QED
  BY <1>1, <1>4
\* The fifteen bits of a silence descriptor: the upper bits of L2 are read back
\* if they are below 3.
DescriptorRead(x, y, z, w) ==
  LET b == Field(x, 0, 1) * 128 + Field(y, 0, 5) * 4 + ((z \div 4) % 3)
      c == Field(z, 0, 2) * 64 + Field(w, 0, 5) * 2
  IN  /\ Field(b, 7, 1) = x /\ Field(b, 2, 5) = y
      /\ Field(c, 1, 5) = w
      /\ z \in Descriptive => Field(b, 0, 2) * 4 + Field(c, 6, 2) = z

\* The fields of a noise frame.
LEMMA DescriptorFields ==
  ASSUME NEW x \in 0..1, NEW y \in 0..31, NEW z \in 0..15, NEW w \in 0..31
  PROVE  DescriptorRead(x, y, z, w)
<1>1. Field(x, 0, 1) = x /\ Field(y, 0, 5) = y /\ Field(w, 0, 5) = w
  BY DEF Field
<1> DEFINE r == (z \div 4) % 3
<1>2. /\ r \in 0..2 /\ Field(z, 0, 2) \in 0..3
      /\ z \in Descriptive => (r * 4) + Field(z, 0, 2) = z
  BY DEF Field, Descriptive
<1> HIDE DEF r
<1>3. ASSUME NEW g \in 0..1, NEW h \in 0..31, NEW l \in 0..2
      PROVE  Field((g * 128) + (h * 4) + l, 7, 1) = g /\ Field((g * 128) + (h * 4) + l, 2, 5) = h
         /\ Field((g * 128) + (h * 4) + l, 0, 2) = l
  BY DEF Field
<1>4. ASSUME NEW h \in 0..3, NEW l \in 0..31
      PROVE  Field((h * 64) + (l * 2), 6, 2) = h /\ Field((h * 64) + (l * 2), 1, 5) = l
  BY DEF Field
<1>5. LET b == (x * 128) + (y * 4) + r
      IN  Field(b, 7, 1) = x /\ Field(b, 2, 5) = y /\ Field(b, 0, 2) = r
  BY <1>2, <1>3
<1>6. LET c == (Field(z, 0, 2) * 64) + (w * 2)
      IN  Field(c, 6, 2) = Field(z, 0, 2) /\ Field(c, 1, 5) = w
  BY <1>2, <1>4
<1>7. QED
  BY <1>1, <1>2, <1>5, <1>6 DEF r, DescriptorRead
\* The fields that the predictors and the gains need survive the ten bytes.
LEMMA FieldsReadBack ==
  ASSUME NEW p, p[1] \in 0..1, p[2] \in 0..127, p[3] \in 0..31, p[4] \in 0..31,
         p[9] \in 0..7, p[10] \in 0..15, p[14] \in 0..7, p[15] \in 0..15,
         p[5] \in Int, p[8] \in Int, p[11] \in Int, p[13] \in Int
  PROVE  LET q == parametersBitStream2Array(parametersArray2BitStream(p))
         IN  /\ q[1] = p[1] /\ q[2] = p[2] /\ q[3] = p[3] /\ q[4] = p[4]
             /\ q[9] = p[9] /\ q[10] = p[10] /\ q[14] = p[14] /\ q[15] = p[15]
<1> DEFINE b == parametersArray2BitStream(p)
<1>1. /\ b[1] = Field(p[1], 0, 1) * 128 + Field(p[2], 0, 7)
      /\ b[2] = Field(p[3], 0, 5) * 8 + Field(p[4], 2, 3)
      /\ b[3] = Field(p[4], 0, 2) * 64 + Field(p[5], 2, 6)
      /\ b[6] = Field(p[8], 0, 4) * 16 + Field(p[9], 0, 3) * 2 + Field(p[10], 3, 1)
      /\ b[7] = Field(p[10], 0, 3) * 32 + Field(p[11], 0, 5)
      /\ b[10] = Field(p[13], 0, 1) * 128 + Field(p[14], 0, 3) * 16 + Field(p[15], 0, 4)
  BY DEF parametersArray2BitStream
<1> HIDE DEF b
<1> DEFINE q == parametersBitStream2Array(b)
<1>2. /\ q[1] = Field(b[1], 7, 1) /\ q[2] = Field(b[1], 0, 7) /\ q[3] = Field(b[2], 3, 5)
      /\ q[4] = Field(b[2], 0, 3) * 4 + Field(b[3], 6, 2)
      /\ q[9] = Field(b[6], 1, 3) /\ q[10] = Field(b[6], 0, 1) * 8 + Field(b[7], 5, 3)
      /\ q[14] = Field(b[10], 4, 3) /\ q[15] = Field(b[10], 0, 4)
  BY DEF parametersBitStream2Array
<1> HIDE DEF q
<1>3. q[1] = p[1] /\ q[2] = p[2]
  BY <1>1, <1>2, FirstByte
<1>4. q[3] = p[3] /\ q[4] = p[4]
  BY <1>1, <1>2, IndexFields
<1>5. q[9] = p[9] /\ q[10] = p[10]
  <2>1. GainsAcross(p[8], p[9], p[10], p[11])
    BY GainFieldsAcross
  <2>2. QED
    BY <1>1, <1>2, <2>1 DEF GainsAcross
<1>6. q[14] = p[14] /\ q[15] = p[15]
  BY <1>1, <1>2, GainFieldsWithin
<1>7. QED
  BY <1>3, <1>4, <1>5, <1>6 DEF q, b

\* A silence descriptor is read back whole, but for a vector that is garbled.
LEMMA DescriptorReadsBack ==
  ASSUME NEW a \in G729Findings
  PROVE  LET p == SIDBitStream2Array(SIDBitStream(a.sid))
         IN  p[4] = a.sid[4] /\ (a.sid[3] \in Descriptive => p = a.sid)
<1> DEFINE x == a.sid[1]  y == a.sid[2]  z == a.sid[3]  w == a.sid[4]
           b == Field(x, 0, 1) * 128 + Field(y, 0, 5) * 4 + ((z \div 4) % 3)
           c == Field(z, 0, 2) * 64 + Field(w, 0, 5) * 2
<1>1. a.sid \in (0..1) \X (0..31) \X (0..15) \X (0..31)
  BY DEF G729Findings
<1>2. a.sid = <<x, y, z, w>> /\ x \in 0..1 /\ y \in 0..31 /\ z \in 0..15 /\ w \in 0..31
  BY <1>1
<1>3. SIDBitStream(a.sid) = <<b, c>>
  BY DEF SIDBitStream
<1> HIDE DEF x, y, z, w
<1>4. DescriptorRead(x, y, z, w)
  BY <1>2, DescriptorFields
<1>5. /\ Field(b, 7, 1) = x /\ Field(b, 2, 5) = y /\ Field(c, 1, 5) = w
      /\ z \in Descriptive => Field(b, 0, 2) * 4 + Field(c, 6, 2) = z
  BY <1>4 DEF DescriptorRead
<1> HIDE DEF b, c
<1>6. SIDBitStream2Array(<<b, c>>) =
        <<Field(b, 7, 1), Field(b, 2, 5), Field(b, 0, 2) * 4 + Field(c, 6, 2), Field(c, 1, 5)>>
  BY DEF SIDBitStream2Array
<1>7. z = a.sid[3] /\ w = a.sid[4]
  BY DEF z, w
<1>8. QED
  BY <1>2, <1>3, <1>5, <1>6, <1>7

\* The gain indexes are permuted and permuted back.
LEMMA GainsRead ==
  /\ \A i \in 0..7 : indexMappingGA[i + 1] \in 0..7 /\ reverseIndexMappingGA[indexMappingGA[i + 1] + 1] = i
  /\ \A i \in 0..15 : indexMappingGB[i + 1] \in 0..15 /\ reverseIndexMappingGB[indexMappingGB[i + 1] + 1] = i
<1>1. ASSUME NEW i \in 0..7
      PROVE  indexMappingGA[i + 1] \in 0..7 /\ reverseIndexMappingGA[indexMappingGA[i + 1] + 1] = i
  <2>1. i = 0 \/ i = 1 \/ i = 2 \/ i = 3 \/ i = 4 \/ i = 5 \/ i = 6 \/ i = 7
    OBVIOUS
  <2>2. QED
    BY <2>1 DEF indexMappingGA, reverseIndexMappingGA
<1>2. ASSUME NEW i \in 0..15
      PROVE  indexMappingGB[i + 1] \in 0..15 /\ reverseIndexMappingGB[indexMappingGB[i + 1] + 1] = i
  <2>1. \/ i = 0 \/ i = 1 \/ i = 2 \/ i = 3 \/ i = 4 \/ i = 5 \/ i = 6 \/ i = 7
        \/ i = 8 \/ i = 9 \/ i = 10 \/ i = 11 \/ i = 12 \/ i = 13 \/ i = 14 \/ i = 15
    OBVIOUS
  <2>2. QED
    BY <2>1 DEF indexMappingGB, reverseIndexMappingGB
<1>3. QED
  BY <1>1, <1>2

\* The decoder reads a speech frame's indexes of the vectors and of the gains.
LEMMA SpeechReadsBack ==
  ASSUME NEW a \in G729Findings
  PROVE  LET q == parametersBitStream2Array(parametersArray2BitStream(Parameters(a)))
         IN  /\ q[1] = a.L[1] /\ CodeWord(q) = CodeWord(a.L)
             /\ GainIndexes(q, 9) = <<a.sub[1].ga, a.sub[1].gb>>
             /\ GainIndexes(q, 14) = <<a.sub[2].ga, a.sub[2].gb>>
<1> DEFINE p == Parameters(a)
           q == parametersBitStream2Array(parametersArray2BitStream(p))
<1>1. /\ a.L[1] \in 0..1 /\ a.L[2] \in 0..127 /\ a.L[3] \in 0..31 /\ a.L[4] \in 0..31
  <2>1. a.L \in (0..1) \X (0..127) \X (0..31) \X (0..31)
    BY DEF G729Findings
  <2>2. QED
    BY <2>1
<1>2. /\ a.sub[1].ga \in 0..7 /\ a.sub[1].gb \in 0..15
      /\ a.sub[2].ga \in 0..7 /\ a.sub[2].gb \in 0..15
  <2>1. a.sub[1] \in Subframes /\ a.sub[2] \in Subframes
    BY DEF G729Findings
  <2>2. \A s \in Subframes : s.ga \in 0..7 /\ s.gb \in 0..15
    BY DEF Subframes
  <2>3. QED
    BY <2>1, <2>2
<1>3. /\ p[1] = a.L[1] /\ p[2] = a.L[2] /\ p[3] = a.L[3] /\ p[4] = a.L[4]
      /\ p[9] = indexMappingGA[a.sub[1].ga + 1] /\ p[10] = indexMappingGB[a.sub[1].gb + 1]
      /\ p[14] = indexMappingGA[a.sub[2].ga + 1] /\ p[15] = indexMappingGB[a.sub[2].gb + 1]
      /\ p[5] \in Int /\ p[8] \in Int /\ p[11] \in Int /\ p[13] \in Int
  BY ParametersAre
<1> HIDE DEF p
<1>4. p[9] \in 0..7 /\ p[10] \in 0..15 /\ p[14] \in 0..7 /\ p[15] \in 0..15
  BY <1>2, <1>3, GainsRead
<1>5. /\ q[1] = p[1] /\ q[2] = p[2] /\ q[3] = p[3] /\ q[4] = p[4]
      /\ q[9] = p[9] /\ q[10] = p[10] /\ q[14] = p[14] /\ q[15] = p[15]
  BY <1>1, <1>3, <1>4, FieldsReadBack
<1> HIDE DEF q
<1>6. CodeWord(q) = CodeWord(a.L)
  BY <1>3, <1>5 DEF CodeWord
<1>7. /\ reverseIndexMappingGA[q[9] + 1] = a.sub[1].ga /\ reverseIndexMappingGB[q[10] + 1] = a.sub[1].gb
      /\ reverseIndexMappingGA[q[14] + 1] = a.sub[2].ga /\ reverseIndexMappingGB[q[15] + 1] = a.sub[2].gb
  BY <1>2, <1>3, <1>5, GainsRead
<1>8. GainIndexes(q, 9) = <<a.sub[1].ga, a.sub[1].gb>> /\ GainIndexes(q, 14) = <<a.sub[2].ga, a.sub[2].gb>>
  BY <1>7 DEF GainIndexes
<1>9. QED
  BY <1>3, <1>5, <1>6, <1>8 DEF q, p
-----------------------------------------------------------------------------
(***************************************************************************)
(* G.729: what a frame does to both ends.                                  *)
(***************************************************************************)
\* The fields of the two states that are looked at here.
EncoderShape(e) ==
  /\ {"VADChannel", "DTX", "previousqLSF", "previousqLSP", "previousGainPredictionError",
      "lastQuantizedAdaptativeCodebookGain"} \subseteq DOMAIN e
  /\ {"previousVADflag", "count_fr", "pseudoRandomSeed", "qLSP", "currentSIDGain",
      "smoothedSIDGain"} \subseteq DOMAIN e.DTX
  /\ e.DTX.previousVADflag \in {0, 1}
  /\ Memory(e.previousqLSF, 4) /\ Memory(e.previousGainPredictionError, 4)
DecoderShape(d) ==
  /\ {"previousLCodeWord", "lastqLSF", "previousqLSP", "previousGainPredictionError",
      "adaptativeCodebookGain", "boundedAdaptativeCodebookGain", "previousIntPitchDelay",
      "previousFrameIsActiveFlag", "CNGpseudoRandomSeed", "CNG"} \subseteq DOMAIN d
  /\ {"qLSP", "receivedSIDGain", "smoothedSIDGain"} \subseteq DOMAIN d.CNG
  /\ Memory(d.previousLCodeWord, 4) /\ Memory(d.previousGainPredictionError, 4)

\* A speech frame at the encoder.
LEMMA SpeechFrameIs ==
  ASSUME NEW e, NEW a, EncoderShape(e)
  PROVE  LET r == SpeechFrame(e, a)
         IN  /\ EncoderShape(r.e) /\ r.e.VADChannel = e.VADChannel
             /\ r.packet = [kind |-> "speech", bits |-> parametersArray2BitStream(Parameters(a))]
             /\ r.e.DTX.pseudoRandomSeed = 0 /\ r.e.DTX.previousVADflag = 1
             /\ r.e.DTX.qLSP = e.DTX.qLSP
             /\ r.e.previousqLSP = LSPQuantization("speech", a.L[1], CodeWord(a.L), e.previousqLSF)
             /\ r.e.previousqLSF = Shifted(CodeWord(a.L), e.previousqLSF)
             /\ r.e.previousGainPredictionError =
                  Shifted(<<a.sub[2].ga, a.sub[2].gb>>,
                          Shifted(<<a.sub[1].ga, a.sub[1].gb>>, e.previousGainPredictionError))
<1> DEFINE x == LSPQuantization("speech", a.L[1], CodeWord(a.L), e.previousqLSF)
           y == Shifted(CodeWord(a.L), e.previousqLSF)
           z == Shifted(<<a.sub[2].ga, a.sub[2].gb>>,
                        Shifted(<<a.sub[1].ga, a.sub[1].gb>>, e.previousGainPredictionError))
           g == SharpeningOf(a.sub[2])
           f == [e EXCEPT !.DTX.pseudoRandomSeed = 0, !.DTX.previousVADflag = 1, !.previousqLSP = x,
                          !.previousqLSF = y, !.previousGainPredictionError = z,
                          !.lastQuantizedAdaptativeCodebookGain = g]
<1>1. SpeechFrame(e, a) =
        [e |-> f, packet |-> [kind |-> "speech", bits |-> parametersArray2BitStream(Parameters(a))]]
  BY DEF SpeechFrame, gainQuantization
<1>2. Memory(y, 4)
  BY ShiftedMemory DEF EncoderShape
<1>3. Memory(z, 4)
  BY ShiftedMemory DEF EncoderShape
<1> HIDE DEF x, y, z, g
<1>4. /\ f.DTX = [e.DTX EXCEPT !.pseudoRandomSeed = 0, !.previousVADflag = 1]
      /\ f.VADChannel = e.VADChannel /\ f.previousqLSP = x /\ f.previousqLSF = y
      /\ f.previousGainPredictionError = z /\ DOMAIN f = DOMAIN e
  BY DEF EncoderShape
<1> HIDE DEF f
<1>5. f.DTX.pseudoRandomSeed = 0 /\ f.DTX.previousVADflag = 1 /\ f.DTX.qLSP = e.DTX.qLSP
      /\ DOMAIN f.DTX = DOMAIN e.DTX
  BY <1>4 DEF EncoderShape
<1>6. EncoderShape(f)
  BY <1>2, <1>3, <1>4, <1>5 DEF EncoderShape
<1> DEFINE r == SpeechFrame(e, a)
<1>7. r.e = f /\ r.packet = [kind |-> "speech", bits |-> parametersArray2BitStream(Parameters(a))]
  BY <1>1
<1> HIDE DEF r
<1>8. r.e.previousqLSP = x /\ r.e.previousqLSF = y /\ r.e.previousGainPredictionError = z
      /\ EncoderShape(r.e) /\ r.e.VADChannel = e.VADChannel
      /\ r.e.DTX.pseudoRandomSeed = 0 /\ r.e.DTX.previousVADflag = 1 /\ r.e.DTX.qLSP = e.DTX.qLSP
  BY <1>4, <1>5, <1>6, <1>7
<1>9. QED
  BY <1>7, <1>8 DEF x, y, z, r

\* A noise frame at the encoder: a descriptor, or nothing.
NoiseGoesOn(e, f, current) ==
  /\ EncoderShape(f) /\ f.VADChannel = e.VADChannel
  /\ f.previousGainPredictionError = e.previousGainPredictionError
  /\ f.DTX.pseudoRandomSeed = e.DTX.pseudoRandomSeed + 1 /\ f.DTX.previousVADflag = 0
  /\ f.DTX.currentSIDGain = current
  /\ f.DTX.smoothedSIDGain = IF e.DTX.previousVADflag = 1 THEN current
                             ELSE Smoothed(e.DTX.smoothedSIDGain, current)
  /\ f.previousqLSP = f.DTX.qLSP

\* A frame of noise at the encoder: described anew, or withheld.
LEMMA NoiseFrameIs ==
  ASSUME NEW e, NEW a, EncoderShape(e)
  PROVE  LET r == NoiseFrame(e, a)
         IN  \/ /\ IsSID(e.DTX, a) /\ r.packet = [kind |-> "SID", bits |-> SIDBitStream(a.sid)]
                /\ NoiseGoesOn(e, r.e, SIDGainCodebook[a.sid[4] + 1])
                /\ r.e.DTX.qLSP = LSPQuantization("noise", a.sid[1], NoiseWord(a.sid), e.previousqLSF)
                /\ r.e.previousqLSF = Shifted(NoiseWord(a.sid), e.previousqLSF)
             \/ /\ ~IsSID(e.DTX, a) /\ r.packet = [kind |-> "untransmitted"]
                /\ NoiseGoesOn(e, r.e, e.DTX.currentSIDGain)
                /\ r.e.DTX.qLSP = e.DTX.qLSP /\ r.e.previousqLSF = e.previousqLSF
<1> DEFINE r == NoiseFrame(e, a)
           x == LSPQuantization("noise", a.sid[1], NoiseWord(a.sid), e.previousqLSF)
           y == Shifted(NoiseWord(a.sid), e.previousqLSF)
           g == SIDGainCodebook[a.sid[4] + 1]
           After(f) == [f EXCEPT
                !.DTX.smoothedSIDGain = IF e.DTX.previousVADflag = 1 THEN f.DTX.currentSIDGain
                                        ELSE Smoothed(@, f.DTX.currentSIDGain),
                !.DTX.pseudoRandomSeed = @ + 1, !.DTX.previousVADflag = 0,
                !.previousqLSP = f.DTX.qLSP]
<1>1. ASSUME NEW f, EncoderShape(f), f.VADChannel = e.VADChannel,
             f.previousGainPredictionError = e.previousGainPredictionError,
             f.DTX.pseudoRandomSeed = e.DTX.pseudoRandomSeed,
             f.DTX.smoothedSIDGain = e.DTX.smoothedSIDGain
      PROVE  NoiseGoesOn(e, After(f), f.DTX.currentSIDGain) /\ After(f).DTX.qLSP = f.DTX.qLSP
             /\ After(f).previousqLSF = f.previousqLSF
  <2> DEFINE s == IF e.DTX.previousVADflag = 1 THEN f.DTX.currentSIDGain
                  ELSE Smoothed(f.DTX.smoothedSIDGain, f.DTX.currentSIDGain)
             h == After(f)
  <2>1. h = [f EXCEPT !.DTX.smoothedSIDGain = s, !.DTX.pseudoRandomSeed = f.DTX.pseudoRandomSeed + 1,
                      !.DTX.previousVADflag = 0, !.previousqLSP = f.DTX.qLSP]
    BY <1>1 DEF EncoderShape
  <2> HIDE DEF s, h
  <2>2. /\ h.DTX = [f.DTX EXCEPT !.smoothedSIDGain = s,
                                 !.pseudoRandomSeed = f.DTX.pseudoRandomSeed + 1,
                                 !.previousVADflag = 0]
        /\ h.VADChannel = f.VADChannel /\ h.previousqLSF = f.previousqLSF
        /\ h.previousGainPredictionError = f.previousGainPredictionError
        /\ h.previousqLSP = f.DTX.qLSP /\ DOMAIN h = DOMAIN f
    BY <1>1, <2>1 DEF EncoderShape
  <2>3. /\ h.DTX.smoothedSIDGain = s /\ h.DTX.pseudoRandomSeed = f.DTX.pseudoRandomSeed + 1
        /\ h.DTX.previousVADflag = 0 /\ h.DTX.qLSP = f.DTX.qLSP
        /\ h.DTX.currentSIDGain = f.DTX.currentSIDGain /\ DOMAIN h.DTX = DOMAIN f.DTX
    BY <1>1, <2>2 DEF EncoderShape
  <2>4. EncoderShape(h)
    BY <1>1, <2>2, <2>3 DEF EncoderShape
  <2>5. NoiseGoesOn(e, h, f.DTX.currentSIDGain)
    BY <1>1, <2>2, <2>3, <2>4 DEF NoiseGoesOn, s
  <2>6. QED
    BY <2>2, <2>3, <2>5 DEF h
<1>2. CASE IsSID(e.DTX, a)
  <2> DEFINE f == noiseLSPQuantization(e, a)
  <2>1. r = [e |-> After(f), packet |-> [kind |-> "SID", bits |-> SIDBitStream(a.sid)]]
    BY <1>2 DEF NoiseFrame
  <2>2. f = [e EXCEPT !.DTX.qLSP = x, !.DTX.currentSIDGain = g, !.DTX.count_fr = 0, !.previousqLSF = y]
    BY DEF noiseLSPQuantization
  <2>3. Memory(y, 4)
    BY ShiftedMemory DEF EncoderShape
  <2> HIDE DEF f, x, y, g
  <2>4. /\ f.DTX = [e.DTX EXCEPT !.qLSP = x, !.currentSIDGain = g, !.count_fr = 0]
        /\ f.VADChannel = e.VADChannel /\ f.previousqLSF = y
        /\ f.previousGainPredictionError = e.previousGainPredictionError /\ DOMAIN f = DOMAIN e
    BY <2>2 DEF EncoderShape
  <2>5. /\ f.DTX.qLSP = x /\ f.DTX.currentSIDGain = g
        /\ f.DTX.pseudoRandomSeed = e.DTX.pseudoRandomSeed
        /\ f.DTX.smoothedSIDGain = e.DTX.smoothedSIDGain /\ DOMAIN f.DTX = DOMAIN e.DTX
        /\ f.DTX.previousVADflag = e.DTX.previousVADflag
    BY <2>4 DEF EncoderShape
  <2>6. EncoderShape(f)
    BY <2>3, <2>4, <2>5 DEF EncoderShape
  <2> HIDE DEF After
  <2>7. NoiseGoesOn(e, After(f), g) /\ After(f).DTX.qLSP = x /\ After(f).previousqLSF = y
    BY <1>1, <2>4, <2>5, <2>6
  <2>8. r.e = After(f) /\ r.packet = [kind |-> "SID", bits |-> SIDBitStream(a.sid)]
    BY <2>1
  <2> HIDE DEF r
  <2>9. NoiseGoesOn(e, r.e, g) /\ r.e.DTX.qLSP = x /\ r.e.previousqLSF = y
    BY <2>7, <2>8
  <2>10. QED
    BY <1>2, <2>8, <2>9 DEF r, x, y, g
<1>3. CASE ~IsSID(e.DTX, a)
  <2> DEFINE f == [e EXCEPT !.DTX.count_fr = FrameCount(e.DTX)]
  <2>1. r = [e |-> After(f), packet |-> [kind |-> "untransmitted"]]
    BY <1>3 DEF NoiseFrame
  <2> HIDE DEF x, y, g
  <2>4. /\ f.DTX = [e.DTX EXCEPT !.count_fr = FrameCount(e.DTX)]
        /\ f.VADChannel = e.VADChannel /\ f.previousqLSF = e.previousqLSF
        /\ f.previousGainPredictionError = e.previousGainPredictionError /\ DOMAIN f = DOMAIN e
    BY DEF EncoderShape
  <2> HIDE DEF f
  <2>5. /\ f.DTX.qLSP = e.DTX.qLSP /\ f.DTX.currentSIDGain = e.DTX.currentSIDGain
        /\ f.DTX.pseudoRandomSeed = e.DTX.pseudoRandomSeed
        /\ f.DTX.smoothedSIDGain = e.DTX.smoothedSIDGain /\ DOMAIN f.DTX = DOMAIN e.DTX
        /\ f.DTX.previousVADflag = e.DTX.previousVADflag
    BY <2>4 DEF EncoderShape
  <2>6. EncoderShape(f)
    BY <2>4, <2>5 DEF EncoderShape
  <2> HIDE DEF After
  <2>7. /\ NoiseGoesOn(e, After(f), e.DTX.currentSIDGain) /\ After(f).DTX.qLSP = e.DTX.qLSP
        /\ After(f).previousqLSF = e.previousqLSF
    BY <1>1, <2>4, <2>5, <2>6
  <2>8. r.e = After(f) /\ r.packet = [kind |-> "untransmitted"]
    BY <2>1
  <2> HIDE DEF r
  <2>9. /\ NoiseGoesOn(e, r.e, e.DTX.currentSIDGain) /\ r.e.DTX.qLSP = e.DTX.qLSP
        /\ r.e.previousqLSF = e.previousqLSF
    BY <2>7, <2>8
  <2>10. QED
    BY <1>3, <2>8, <2>9 DEF r
<1>4. QED
  BY <1>2, <1>3

\* What the encoder sends and how it goes on: speech,
SendsSpeech(e, a, r) ==
  /\ r.packet = [kind |-> "speech", bits |-> parametersArray2BitStream(Parameters(a))]
  /\ r.e.DTX.pseudoRandomSeed = 0 /\ r.e.DTX.previousVADflag = 1
  /\ r.e.previousqLSP = LSPQuantization("speech", a.L[1], CodeWord(a.L), e.previousqLSF)
  /\ r.e.previousqLSF = Shifted(CodeWord(a.L), e.previousqLSF)
  /\ r.e.previousGainPredictionError =
       Shifted(<<a.sub[2].ga, a.sub[2].gb>>,
               Shifted(<<a.sub[1].ga, a.sub[1].gb>>, e.previousGainPredictionError))
\* the noise's descriptor, or nothing while it goes on.
SendsNoise(e, a, r) ==
  /\ r.e.previousGainPredictionError = e.previousGainPredictionError
  /\ r.e.DTX.pseudoRandomSeed = e.DTX.pseudoRandomSeed + 1 /\ r.e.DTX.previousVADflag = 0
  /\ r.e.DTX.smoothedSIDGain = IF e.DTX.previousVADflag = 1 THEN r.e.DTX.currentSIDGain
                               ELSE Smoothed(e.DTX.smoothedSIDGain, r.e.DTX.currentSIDGain)
  /\ r.e.previousqLSP = r.e.DTX.qLSP
SendsDescriptor(e, a, r) ==
  /\ SendsNoise(e, a, r) /\ r.packet = [kind |-> "SID", bits |-> SIDBitStream(a.sid)]
  /\ r.e.DTX.currentSIDGain = SIDGainCodebook[a.sid[4] + 1]
  /\ r.e.DTX.qLSP = LSPQuantization("noise", a.sid[1], NoiseWord(a.sid), e.previousqLSF)
  /\ r.e.previousqLSF = Shifted(NoiseWord(a.sid), e.previousqLSF)
SendsNothing(e, a, r) ==
  /\ SendsNoise(e, a, r) /\ r.packet = [kind |-> "untransmitted"]
  /\ r.e.DTX.currentSIDGain = e.DTX.currentSIDGain /\ e.DTX.previousVADflag # 1
  /\ r.e.DTX.qLSP = e.DTX.qLSP /\ r.e.previousqLSF = e.previousqLSF

\* With VAD the frame goes as the detector decides.
Decides(e, a, r) ==
  LET d == bcg729_vad(e.VADChannel[1], a.heard)
  IN  r.e.VADChannel = <<d.v>> /\ (r.packet.kind = "speech" <=> d.Ivd # NOISE)

\* Every frame is one of the three, and the detector decides whether it is speech.
LEMMA EncoderIs ==
  ASSUME NEW e, NEW a, EncoderShape(e)
  PROVE  LET r == bcg729Encoder(e, a)
         IN  /\ EncoderShape(r.e) /\ (e.VADChannel # <<>> => Decides(e, a, r))
             /\ SendsSpeech(e, a, r) \/ SendsDescriptor(e, a, r) \/ SendsNothing(e, a, r)
<1> DEFINE r == bcg729Encoder(e, a)
<1>1. ASSUME NEW f, EncoderShape(f), f.DTX = e.DTX, f.previousqLSF = e.previousqLSF,
             f.previousGainPredictionError = e.previousGainPredictionError
      PROVE  LET s == SpeechFrame(f, a)
             IN  EncoderShape(s.e) /\ s.e.VADChannel = f.VADChannel /\ SendsSpeech(e, a, s)
  BY <1>1, SpeechFrameIs DEF SendsSpeech
<1>2. ASSUME NEW f, EncoderShape(f), f.DTX = e.DTX, f.previousqLSF = e.previousqLSF,
             f.previousGainPredictionError = e.previousGainPredictionError
      PROVE  LET s == NoiseFrame(f, a)
             IN  /\ EncoderShape(s.e) /\ s.e.VADChannel = f.VADChannel
                 /\ SendsDescriptor(e, a, s) \/ SendsNothing(e, a, s)
  <2> DEFINE s == NoiseFrame(f, a)
  <2>1. CASE IsSID(f.DTX, a)
    <3>1. /\ s.packet = [kind |-> "SID", bits |-> SIDBitStream(a.sid)]
          /\ NoiseGoesOn(f, s.e, SIDGainCodebook[a.sid[4] + 1])
          /\ s.e.DTX.qLSP = LSPQuantization("noise", a.sid[1], NoiseWord(a.sid), f.previousqLSF)
          /\ s.e.previousqLSF = Shifted(NoiseWord(a.sid), f.previousqLSF)
      BY <1>2, <2>1, NoiseFrameIs
    <3> HIDE DEF s
    <3>2. SendsDescriptor(e, a, s) /\ EncoderShape(s.e) /\ s.e.VADChannel = f.VADChannel
      BY <1>2, <3>1 DEF NoiseGoesOn, SendsDescriptor, SendsNoise
    <3>3. QED
      BY <3>2 DEF s
  <2>2. CASE ~IsSID(f.DTX, a)
    <3>1. /\ s.packet = [kind |-> "untransmitted"]
          /\ NoiseGoesOn(f, s.e, f.DTX.currentSIDGain)
          /\ s.e.DTX.qLSP = f.DTX.qLSP /\ s.e.previousqLSF = f.previousqLSF
      BY <1>2, <2>2, NoiseFrameIs
    <3>2. f.DTX.previousVADflag # 1
      BY <2>2 DEF IsSID
    <3> HIDE DEF s
    <3>3. SendsNothing(e, a, s) /\ EncoderShape(s.e) /\ s.e.VADChannel = f.VADChannel
      BY <1>2, <3>1, <3>2 DEF NoiseGoesOn, SendsNothing, SendsNoise
    <3>4. QED
      BY <3>3 DEF s
  <2>3. QED
    BY <2>1, <2>2
<1>3. CASE e.VADChannel = <<>>
  <2>1. r = SpeechFrame(e, a)
    BY <1>3 DEF bcg729Encoder
  <2>2. QED
    BY <1>1, <1>3, <2>1
<1>4. CASE e.VADChannel # <<>>
  <2> DEFINE d == bcg729_vad(e.VADChannel[1], a.heard)
             f == [e EXCEPT !.VADChannel = <<d.v>>]
  <2>1. r = IF d.Ivd = NOISE THEN NoiseFrame(f, a) ELSE SpeechFrame(f, a)
    BY <1>4 DEF bcg729Encoder
  <2> HIDE DEF d, r
  <2>2. /\ EncoderShape(f) /\ f.DTX = e.DTX /\ f.previousqLSF = e.previousqLSF
        /\ f.previousGainPredictionError = e.previousGainPredictionError /\ f.VADChannel = <<d.v>>
    BY DEF EncoderShape
  <2> HIDE DEF f
  <2>3. CASE d.Ivd = NOISE
    <3>1. r = NoiseFrame(f, a)
      BY <2>1, <2>3
    <3>2. /\ EncoderShape(r.e) /\ r.e.VADChannel = f.VADChannel
          /\ SendsDescriptor(e, a, r) \/ SendsNothing(e, a, r)
      BY <1>2, <2>2, <3>1
    <3>3. r.packet.kind # "speech"
      BY <3>2 DEF SendsDescriptor, SendsNothing
    <3>4. QED
      BY <2>2, <2>3, <3>2, <3>3 DEF Decides, d, r
  <2>4. CASE d.Ivd # NOISE
    <3>1. r = SpeechFrame(f, a)
      BY <2>1, <2>4
    <3>2. EncoderShape(r.e) /\ r.e.VADChannel = f.VADChannel /\ SendsSpeech(e, a, r)
      BY <1>1, <2>2, <3>1
    <3>3. r.packet.kind = "speech"
      BY <3>2 DEF SendsSpeech
    <3>4. QED
      BY <2>2, <2>4, <3>2, <3>3 DEF Decides, d, r
  <2>5. QED
    BY <2>3, <2>4
<1>5. QED
  BY <1>3, <1>4

\* What the decoder makes of a speech frame that came,
LEMMA SpeechIs ==
  ASSUME NEW d, NEW p, DecoderShape(d)
  PROVE  LET u == Speech(d, p)
         IN  /\ DecoderShape(u) /\ u.previousFrameIsActiveFlag = 1 /\ u.CNGpseudoRandomSeed = 0
             /\ u.previousLCodeWord = Shifted(CodeWord(p), d.previousLCodeWord)
             /\ u.previousqLSP = computeqLSF("speech", p[1], CodeWord(p), d.previousLCodeWord)
             /\ u.previousGainPredictionError =
                  Shifted(GainIndexes(p, 14), Shifted(GainIndexes(p, 9), d.previousGainPredictionError))
<1> DEFINE w == Shifted(CodeWord(p), d.previousLCodeWord)
           lsf == computeqLSF("speech", p[1], CodeWord(p), d.previousLCodeWord)
           z == Shifted(GainIndexes(p, 14), Shifted(GainIndexes(p, 9), d.previousGainPredictionError))
           delay == DelaysOf(d, p)[2].int
           g == PitchGain(GainIndexes(p, 14)[1], GainIndexes(p, 14)[2])
           b == Bounded(g)
           u == Speech(d, p)
<1>1. u = [d EXCEPT !.previousFrameIsActiveFlag = 1, !.CNGpseudoRandomSeed = 0,
                    !.previousLCodeWord = w, !.lastqLSF = lsf, !.previousqLSP = lsf,
                    !.previousIntPitchDelay = delay, !.previousGainPredictionError = z,
                    !.adaptativeCodebookGain = g, !.boundedAdaptativeCodebookGain = b]
  BY DEF Speech, ActiveFrame, DecoderShape
<1>2. Memory(w, 4) /\ Memory(z, 4)
  BY ShiftedMemory DEF DecoderShape
<1> HIDE DEF w, lsf, z, delay, g, b, u
<1>3. /\ u.previousFrameIsActiveFlag = 1 /\ u.CNGpseudoRandomSeed = 0 /\ u.previousLCodeWord = w
      /\ u.previousqLSP = lsf /\ u.previousGainPredictionError = z /\ u.CNG = d.CNG
      /\ DOMAIN u = DOMAIN d
  BY <1>1 DEF DecoderShape
<1>4. DecoderShape(u)
  BY <1>2, <1>3 DEF DecoderShape
<1>5. QED
  BY <1>3, <1>4 DEF w, lsf, z, u

\* of noise that goes on, with or without a new descriptor,
NoiseIs(d, u) ==
  /\ DecoderShape(u) /\ u.previousFrameIsActiveFlag = 0
  /\ u.CNGpseudoRandomSeed = d.CNGpseudoRandomSeed + 1
  /\ u.CNG.smoothedSIDGain = IF d.previousFrameIsActiveFlag = 1 THEN u.CNG.receivedSIDGain
                             ELSE Smoothed(d.CNG.smoothedSIDGain, u.CNG.receivedSIDGain)
  /\ u.previousqLSP = u.CNG.qLSP /\ u.previousGainPredictionError = d.previousGainPredictionError

\* Noise at the decoder goes on,
LEMMA ComfortNoiseIs ==
  ASSUME NEW d, NEW was, DecoderShape(d), was = d.previousFrameIsActiveFlag
  PROVE  LET u == ComfortNoise(d, was)
         IN  /\ NoiseIs(d, u) /\ u.previousLCodeWord = d.previousLCodeWord
             /\ u.CNG.receivedSIDGain = d.CNG.receivedSIDGain /\ u.CNG.qLSP = d.CNG.qLSP
<1> DEFINE s == IF was = 1 THEN d.CNG.receivedSIDGain
                ELSE Smoothed(d.CNG.smoothedSIDGain, d.CNG.receivedSIDGain)
           u == ComfortNoise(d, was)
<1>1. u = [d EXCEPT !.previousqLSP = d.CNG.qLSP, !.CNG.smoothedSIDGain = s,
                    !.CNGpseudoRandomSeed = d.CNGpseudoRandomSeed + 1,
                    !.previousFrameIsActiveFlag = 0,
                    !.boundedAdaptativeCodebookGain = BOUNDED_PITCH_GAIN_MIN]
  BY DEF ComfortNoise, DecoderShape
<1> HIDE DEF s, u
<1>2. /\ u.previousFrameIsActiveFlag = 0 /\ u.CNGpseudoRandomSeed = d.CNGpseudoRandomSeed + 1
      /\ u.CNG = [d.CNG EXCEPT !.smoothedSIDGain = s] /\ u.previousqLSP = d.CNG.qLSP
      /\ u.previousLCodeWord = d.previousLCodeWord
      /\ u.previousGainPredictionError = d.previousGainPredictionError /\ DOMAIN u = DOMAIN d
  BY <1>1 DEF DecoderShape
<1>3. /\ u.CNG.smoothedSIDGain = s /\ u.CNG.receivedSIDGain = d.CNG.receivedSIDGain
      /\ u.CNG.qLSP = d.CNG.qLSP /\ DOMAIN u.CNG = DOMAIN d.CNG
  BY <1>2 DEF DecoderShape
<1>4. DecoderShape(u)
  BY <1>2, <1>3 DEF DecoderShape
<1>5. NoiseIs(d, u)
  BY <1>2, <1>3, <1>4 DEF NoiseIs, s
<1>6. QED
  BY <1>2, <1>3, <1>5 DEF u

\* or begins, or changes, by the descriptor that came.
LEMMA DescriptorIs ==
  ASSUME NEW d, NEW p, DecoderShape(d)
  PROVE  LET u == ComfortNoise(SIDParameters(d, p), d.previousFrameIsActiveFlag)
         IN  /\ NoiseIs(d, u)
             /\ u.previousLCodeWord = Shifted(NoiseWord(p), d.previousLCodeWord)
             /\ u.CNG.receivedSIDGain = SIDGainCodebook[p[4] + 1]
             /\ u.CNG.qLSP = computeqLSF("noise", p[1], NoiseWord(p), d.previousLCodeWord)
<1> DEFINE w == Shifted(NoiseWord(p), d.previousLCodeWord)
           x == computeqLSF("noise", p[1], NoiseWord(p), d.previousLCodeWord)
           g == SIDGainCodebook[p[4] + 1]
           f == SIDParameters(d, p)
           was == d.previousFrameIsActiveFlag
           u == ComfortNoise(f, was)
<1>1. f = [d EXCEPT !.CNG.receivedSIDGain = g, !.CNG.qLSP = x, !.previousLCodeWord = w]
  BY DEF SIDParameters, DecoderShape
<1>2. Memory(w, 4)
  BY ShiftedMemory DEF DecoderShape
<1> HIDE DEF w, x, g, f
<1>3. /\ f.CNG = [d.CNG EXCEPT !.receivedSIDGain = g, !.qLSP = x] /\ f.previousLCodeWord = w
      /\ f.previousFrameIsActiveFlag = was /\ f.CNGpseudoRandomSeed = d.CNGpseudoRandomSeed
      /\ f.previousGainPredictionError = d.previousGainPredictionError /\ DOMAIN f = DOMAIN d
  BY <1>1 DEF DecoderShape
<1>4. /\ f.CNG.receivedSIDGain = g /\ f.CNG.qLSP = x
      /\ f.CNG.smoothedSIDGain = d.CNG.smoothedSIDGain /\ DOMAIN f.CNG = DOMAIN d.CNG
  BY <1>3 DEF DecoderShape
<1>5. DecoderShape(f)
  BY <1>2, <1>3, <1>4 DEF DecoderShape
<1>6. /\ NoiseIs(f, u) /\ u.previousLCodeWord = f.previousLCodeWord
      /\ u.CNG.receivedSIDGain = f.CNG.receivedSIDGain /\ u.CNG.qLSP = f.CNG.qLSP
  BY <1>3, <1>5, ComfortNoiseIs
<1> HIDE DEF u
<1>7. NoiseIs(d, u) /\ u.previousLCodeWord = w /\ u.CNG.receivedSIDGain = g /\ u.CNG.qLSP = x
  BY <1>3, <1>4, <1>6 DEF NoiseIs
<1>8. QED
  BY <1>7 DEF w, x, g, f, u

\* and of nothing.
LEMMA ConcealedIs ==
  ASSUME NEW d, DecoderShape(d)
  PROVE  DecoderShape(Concealed(d))
<1> DEFINE w == Shifted(MadeUp, d.previousLCodeWord)
           z == Shifted(MadeUp, Shifted(MadeUp, d.previousGainPredictionError))
           u == Concealed(d)
           gain == Attenuated(Attenuated(d.adaptativeCodebookGain))
           delay == Longer(Longer(d.previousIntPitchDelay))
           b == Bounded(gain)
<1>1. u = [d EXCEPT !.previousFrameIsActiveFlag = 1, !.CNGpseudoRandomSeed = 0,
                    !.previousLCodeWord = w, !.previousqLSP = d.lastqLSF,
                    !.previousIntPitchDelay = delay, !.previousGainPredictionError = z,
                    !.adaptativeCodebookGain = gain, !.boundedAdaptativeCodebookGain = b]
  BY DEF Concealed, ActiveFrame, DecoderShape
<1>2. Memory(w, 4) /\ Memory(z, 4)
  BY ShiftedMemory DEF DecoderShape
<1> HIDE DEF w, z, gain, delay, b, u
<1>3. /\ u.previousLCodeWord = w /\ u.previousGainPredictionError = z /\ u.CNG = d.CNG
      /\ DOMAIN u = DOMAIN d
  BY <1>1 DEF DecoderShape
<1>4. DecoderShape(u)
  BY <1>2, <1>3 DEF DecoderShape
<1>5. QED
  BY <1>4 DEF u

\* Whatever comes, the decoder's state keeps its form.
LEMMA DecoderKeepsShape ==
  ASSUME NEW d, NEW packet, DecoderShape(d)
  PROVE  DecoderShape(bcg729Decoder(d, packet))
<1>1. CASE packet.kind = "speech"
  BY <1>1, SpeechIs DEF bcg729Decoder
<1>2. CASE packet.kind = "SID"
  <2>1. bcg729Decoder(d, packet) =
          ComfortNoise(SIDParameters(d, SIDBitStream2Array(packet.bits)), d.previousFrameIsActiveFlag)
    BY <1>2 DEF bcg729Decoder
  <2>2. QED
    BY <2>1, DescriptorIs DEF NoiseIs
<1>3. CASE packet.kind # "speech" /\ packet.kind # "SID"
  <2>1. bcg729Decoder(d, packet) = IF d.previousFrameIsActiveFlag = 1 THEN Concealed(d)
                                   ELSE ComfortNoise(d, d.previousFrameIsActiveFlag)
    BY <1>3 DEF bcg729Decoder
  <2>2. QED
    BY <2>1, ConcealedIs, ComfortNoiseIs DEF NoiseIs
<1>4. QED
  BY <1>1, <1>2, <1>3
-----------------------------------------------------------------------------
\* What the tie t says of a G.729 encoder e and decoder d.
InTune(e, d) ==
  /\ d.previousFrameIsActiveFlag = e.DTX.previousVADflag
  /\ d.CNGpseudoRandomSeed = e.DTX.pseudoRandomSeed
  /\ e.DTX.previousVADflag = 0 =>
       /\ d.CNG.receivedSIDGain = e.DTX.currentSIDGain
       /\ d.CNG.smoothedSIDGain = e.DTX.smoothedSIDGain
TiedG729(e, d, t) ==
  /\ EncoderShape(e) /\ DecoderShape(d) /\ t.words \in 0..Whole /\ t.gains \in 0..Whole
  /\ Agree(Low(t.words, 4), d.previousLCodeWord, e.previousqLSF)
  /\ Agree(Low(t.gains, 4), d.previousGainPredictionError, e.previousGainPredictionError)
  /\ t.words > 0 => d.previousFrameIsActiveFlag = e.DTX.previousVADflag
  /\ t.words > 4 => SameFilter(d.previousqLSP, e.previousqLSP)
  /\ t.words > 4 /\ e.DTX.previousVADflag = 0 => SameFilter(d.CNG.qLSP, e.DTX.qLSP)
  /\ t.tuned => InTune(e, d)

\* After a mishap nothing is said.
LEMMA BrokenIsTied ==
  ASSUME NEW e, NEW d, NEW t, EncoderShape(e), DecoderShape(d), t.words = 0, t.gains = 0, ~t.tuned
  PROVE  TiedG729(e, d, t)
  BY DEF TiedG729, Agree, Low, Whole

\* Both memories hold the same word when all before it did.
LEMMA SameMemories ==
  ASSUME NEW e, NEW d, NEW t, TiedG729(e, d, t), Grown(t.words, 1) > 4
  PROVE  d.previousLCodeWord = e.previousqLSF
<1>1. Low(t.words, 4) = 4
  BY DEF TiedG729, Low, Grown, Whole
<1>2. QED
  BY <1>1, AgreeWhole DEF TiedG729, EncoderShape, DecoderShape

\* From the same words and predictor both ends make the same filter.
LEMMA SameSums ==
  ASSUME NEW predictor, NEW l, NEW word, NEW mem
  PROVE  SameFilter(computeqLSF(predictor, l, word, mem), LSPQuantization(predictor, l, word, mem))
<1> DEFINE sum == Predicted(predictor, l, word, mem)
<1>1. /\ computeqLSF(predictor, l, word, mem) =
           [sum |-> sum, raised |-> IF BelowMin(sum) THEN "first" ELSE "none"]
      /\ LSPQuantization(predictor, l, word, mem) = [sum |-> sum, raised |-> "none"]
  BY DEF computeqLSF, LSPQuantization
<1> HIDE DEF sum
<1>2. QED
  BY <1>1 DEF SameFilter

\* A speech frame that arrives ties both ends again.
LEMMA SpeechTies ==
  ASSUME NEW e, NEW d, NEW t, NEW u, NEW a \in G729Findings, NEW r, TiedG729(e, d, t),
         EncoderShape(r.e), SendsSpeech(e, a, r),
         u.words = Grown(t.words, 1), u.gains = Grown(t.gains, 2), u.tuned = TRUE
  PROVE  TiedG729(r.e, bcg729Decoder(d, r.packet), u)
<1> DEFINE q == parametersBitStream2Array(parametersArray2BitStream(Parameters(a)))
           v == bcg729Decoder(d, r.packet)
           g1 == <<a.sub[1].ga, a.sub[1].gb>>
           g2 == <<a.sub[2].ga, a.sub[2].gb>>
<1>1. q[1] = a.L[1] /\ CodeWord(q) = CodeWord(a.L) /\ GainIndexes(q, 9) = g1 /\ GainIndexes(q, 14) = g2
  BY SpeechReadsBack
<1>2. v = Speech(d, q)
  BY DEF bcg729Decoder, SendsSpeech
<1> HIDE DEF q, v, g1, g2
<1>3. /\ DecoderShape(v) /\ v.previousFrameIsActiveFlag = 1 /\ v.CNGpseudoRandomSeed = 0
      /\ v.previousLCodeWord = Shifted(CodeWord(a.L), d.previousLCodeWord)
      /\ v.previousqLSP = computeqLSF("speech", a.L[1], CodeWord(a.L), d.previousLCodeWord)
      /\ v.previousGainPredictionError = Shifted(g2, Shifted(g1, d.previousGainPredictionError))
  BY <1>1, <1>2, SpeechIs DEF TiedG729
<1>4. t.words \in 0..Whole /\ t.gains \in 0..Whole /\ EncoderShape(e) /\ DecoderShape(d)
  BY DEF TiedG729
<1>5. u.words \in 0..Whole /\ u.gains \in 0..Whole
  BY <1>4 DEF Grown, Low, Whole
<1>6. Agree(Low(u.words, 4), v.previousLCodeWord, r.e.previousqLSF)
  BY <1>3, <1>4, AgreeMore DEF TiedG729, EncoderShape, DecoderShape, SendsSpeech
<1>7. Agree(Low(u.gains, 4), v.previousGainPredictionError, r.e.previousGainPredictionError)
  <2> DEFINE k == Grown(t.gains, 1)
             x == Shifted(g1, d.previousGainPredictionError)
             y == Shifted(g1, e.previousGainPredictionError)
  <2>1. Agree(Low(k, 4), x, y)
    BY <1>4, AgreeMore DEF TiedG729, EncoderShape, DecoderShape
  <2>2. Memory(x, 4) /\ Memory(y, 4)
    BY <1>4, ShiftedMemory DEF EncoderShape, DecoderShape
  <2>3. k \in 0..Whole /\ u.gains = Grown(k, 1)
    BY <1>4 DEF Grown, Low, Whole
  <2> HIDE DEF k
  <2>4. r.e.previousGainPredictionError = Shifted(g2, y)
    BY DEF SendsSpeech, g1, g2
  <2> HIDE DEF x, y
  <2>5. Agree(Low(Grown(k, 1), 4), Shifted(g2, x), Shifted(g2, y))
    BY <2>1, <2>2, <2>3, AgreeMore
  <2>6. QED
    BY <2>3, <2>4, <2>5, <1>3 DEF x
<1>8. u.words > 4 => SameFilter(v.previousqLSP, r.e.previousqLSP)
  BY <1>3, SameMemories, SameSums DEF SendsSpeech
<1>9. InTune(r.e, v)
  BY <1>3 DEF InTune, SendsSpeech
<1>10. TiedG729(r.e, v, u)
  BY <1>3, <1>5, <1>6, <1>7, <1>8, <1>9 DEF TiedG729, SendsSpeech, InTune
<1>11. QED
  BY <1>10 DEF v

\* A descriptor that arrives keeps them tied, as far as its vector is not garbled,
LEMMA DescriptorTies ==
  ASSUME NEW e, NEW d, NEW t, NEW u, NEW a \in G729Findings, NEW r, TiedG729(e, d, t),
         EncoderShape(r.e), SendsDescriptor(e, a, r),
         u.words = IF a.sid[3] \in Descriptive THEN Grown(t.words, 1) ELSE 0,
         u.gains = t.gains, u.tuned = t.tuned
  PROVE  TiedG729(r.e, bcg729Decoder(d, r.packet), u)
<1> DEFINE v == bcg729Decoder(d, r.packet)
           p == SIDBitStream2Array(SIDBitStream(a.sid))
<1>1. /\ v = ComfortNoise(SIDParameters(d, p), d.previousFrameIsActiveFlag)
      /\ p[4] = a.sid[4] /\ (a.sid[3] \in Descriptive => p = a.sid)
  BY DescriptorReadsBack DEF bcg729Decoder, SendsDescriptor
<1> HIDE DEF v, p
<1>2. /\ NoiseIs(d, v) /\ v.CNG.receivedSIDGain = SIDGainCodebook[a.sid[4] + 1]
      /\ a.sid[3] \in Descriptive =>
           /\ v.previousLCodeWord = Shifted(NoiseWord(a.sid), d.previousLCodeWord)
           /\ v.CNG.qLSP = computeqLSF("noise", a.sid[1], NoiseWord(a.sid), d.previousLCodeWord)
  BY <1>1, DescriptorIs DEF TiedG729
<1>3. t.words \in 0..Whole /\ t.gains \in 0..Whole /\ EncoderShape(e) /\ DecoderShape(d)
  BY DEF TiedG729
<1>4. u.words \in 0..Whole /\ u.gains \in 0..Whole
  BY <1>3 DEF Grown, Low, Whole
<1>5. Agree(Low(u.words, 4), v.previousLCodeWord, r.e.previousqLSF)
  <2>1. CASE a.sid[3] \in Descriptive
    BY <1>2, <1>3, <2>1, AgreeMore DEF TiedG729, EncoderShape, DecoderShape, SendsDescriptor
  <2>2. CASE a.sid[3] \notin Descriptive
    BY <2>2 DEF Agree, Low
  <2>3. QED
    BY <2>1, <2>2
<1>6. Agree(Low(u.gains, 4), v.previousGainPredictionError, r.e.previousGainPredictionError)
  BY <1>2 DEF TiedG729, NoiseIs, SendsDescriptor, SendsNoise
<1>7. u.words > 4 => /\ SameFilter(v.CNG.qLSP, r.e.DTX.qLSP)
                     /\ SameFilter(v.previousqLSP, r.e.previousqLSP)
  <2>1. CASE a.sid[3] \in Descriptive
    BY <1>2, <2>1, SameMemories, SameSums DEF NoiseIs, SendsDescriptor, SendsNoise
  <2>2. QED
    BY <2>1
<1>8. ASSUME u.tuned PROVE InTune(r.e, v)
  <2>1. InTune(e, d) /\ e.DTX.previousVADflag \in {0, 1}
    BY <1>3, <1>8 DEF TiedG729, EncoderShape
  <2>2. /\ v.previousFrameIsActiveFlag = r.e.DTX.previousVADflag
        /\ v.CNGpseudoRandomSeed = r.e.DTX.pseudoRandomSeed
        /\ v.CNG.receivedSIDGain = r.e.DTX.currentSIDGain
    BY <1>2, <2>1 DEF InTune, NoiseIs, SendsDescriptor, SendsNoise
  <2>3. v.CNG.smoothedSIDGain = r.e.DTX.smoothedSIDGain
    BY <1>2, <2>1, <2>2 DEF InTune, NoiseIs, SendsDescriptor, SendsNoise
  <2>4. QED
    BY <2>2, <2>3 DEF InTune
<1>9. TiedG729(r.e, v, u)
  BY <1>2, <1>4, <1>5, <1>6, <1>7, <1>8 DEF TiedG729, NoiseIs, SendsDescriptor, SendsNoise
<1>10. QED
  BY <1>9 DEF v

\* and so does a frame that is withheld from a decoder that plays noise.
LEMMA NothingTies ==
  ASSUME NEW e, NEW d, NEW t, NEW u, NEW a, NEW r, TiedG729(e, d, t),
         EncoderShape(r.e), SendsNothing(e, a, r), d.previousFrameIsActiveFlag = 0,
         u.words = t.words, u.gains = t.gains, u.tuned = t.tuned
  PROVE  TiedG729(r.e, bcg729Decoder(d, r.packet), u)
<1> DEFINE v == bcg729Decoder(d, r.packet)
<1>1. v = ComfortNoise(d, d.previousFrameIsActiveFlag)
  BY DEF bcg729Decoder, SendsNothing
<1> HIDE DEF v
<1>2. /\ NoiseIs(d, v) /\ v.previousLCodeWord = d.previousLCodeWord
      /\ v.CNG.receivedSIDGain = d.CNG.receivedSIDGain /\ v.CNG.qLSP = d.CNG.qLSP
  BY <1>1, ComfortNoiseIs DEF TiedG729
<1>3. u.words > 0 => e.DTX.previousVADflag = 0
  BY DEF TiedG729
<1>4. u.words \in 0..Whole
  BY DEF TiedG729
<1>5. u.words > 4 => /\ SameFilter(v.CNG.qLSP, r.e.DTX.qLSP)
                     /\ SameFilter(v.previousqLSP, r.e.previousqLSP)
  BY <1>2, <1>3, <1>4 DEF TiedG729, NoiseIs, SendsNothing, SendsNoise, Whole
<1>6. u.tuned => InTune(r.e, v)
  BY <1>2 DEF TiedG729, InTune, NoiseIs, SendsNothing, SendsNoise
<1>7. TiedG729(r.e, v, u)
  BY <1>2, <1>5, <1>6 DEF TiedG729, NoiseIs, SendsNothing, SendsNoise
<1>8. QED
  BY <1>7 DEF v
-----------------------------------------------------------------------------
(***************************************************************************)
(* BV16: the fixed-point operators and the tables.                         *)
(***************************************************************************)
Sum32(a, b, c) ==
  /\ c \in Int /\ (b <= MAX_32 => c <= MAX_32)
  /\ a <= 0 => c >= a + b
  /\ a >= 0 /\ b <= MAX_32 => c >= b
  /\ a + b >= MIN_32 => c <= a + b
\* L_add stays below its greatest value when its second summand does, and is
\* the sum unless it saturates.
LEMMA AddIs ==
  ASSUME NEW a \in Int, NEW b \in Int
  PROVE  Sum32(a, b, L_add(a, b))
BY SMT DEF L_add, MAX_32, MIN_32, Sum32

\* Scaled multiplies the two halves of a number apart.
Halves(x, hi, lo) ==
  /\ hi \in Int /\ lo \in Int /\ lo >= 0 /\ lo <= 32767
  /\ (hi * 65536) + (2 * lo) <= x /\ x <= (hi * 65536) + (2 * lo) + 1
\* They make it up,
LEMMA HalvesOf ==
  ASSUME NEW x \in Int
  PROVE  Halves(x, extract_h(x), (x \div 2) - (extract_h(x) * 32768))
<1> DEFINE hi == x \div 65536
           half == x \div 2
<1>1. hi \in Int /\ hi * 65536 <= x /\ x < (hi * 65536) + 65536
  OBVIOUS
<1>2. half \in Int /\ 2 * half <= x /\ x <= (2 * half) + 1
  OBVIOUS
<1> HIDE DEF hi, half
<1>3. Halves(x, hi, half - (hi * 32768))
  BY <1>1, <1>2 DEF Halves
<1>4. QED
  BY <1>3 DEF hi, half, extract_h
\* and the product of the lower half is rounded down.
LEMMA LowerHalf ==
  ASSUME NEW lo \in Int, lo >= 0, lo <= 32767, NEW n \in {64, 128, 32640, 32704, 32760}
  PROVE  LET q == (lo * n) \div 32768
         IN  /\ q \in Int /\ q >= 0 /\ (n = 32760 => q >= lo - 8) /\ (n = 32640 => q >= lo - 128)
             /\ (n = 64 => q <= 64) /\ (n = 32704 => q <= 32704)
<1>1. CASE n \in {64, 128}
  BY <1>1
<1>2. CASE n = 32640
  BY <1>2
<1>3. CASE n = 32704
  BY <1>3
<1>4. CASE n = 32760
  BY <1>4
<1>5. QED
  BY <1>1, <1>2, <1>3, <1>4

\* The product is an integer; by a factor near one it keeps the sign of what is
\* positive and takes what is negative at most one further down.
LEMMA ScaledNearOne ==
  ASSUME NEW x \in Int, NEW n \in {64, 128, 32640, 32704, 32760}
  PROVE  /\ Scaled(x, n) \in Int
         /\ n \in {32640, 32760} => (x >= 0 => Scaled(x, n) >= 0) /\ (x < 0 => Scaled(x, n) >= x - 1)
<1> DEFINE hi == extract_h(x)
           lo == (x \div 2) - (hi * 32768)
           q == (lo * n) \div 32768
<1>1. Scaled(x, n) = (2 * hi * n) + (2 * q)
  BY DEF Scaled
<1>2. Halves(x, hi, lo)
  BY HalvesOf
<1> HIDE DEF hi, lo
<1>3. hi \in Int /\ lo \in Int /\ lo >= 0 /\ lo <= 32767
  BY <1>2 DEF Halves
<1>4. q \in Int /\ q >= 0 /\ (n = 32760 => q >= lo - 8) /\ (n = 32640 => q >= lo - 128)
  BY <1>3, LowerHalf
<1> HIDE DEF q
<1>5. (x >= 0 => hi >= 0) /\ (x < 0 => hi <= -1) /\ x <= (hi * 65536) + (2 * lo) + 1
  BY <1>2, <1>3 DEF Halves
<1>6. CASE n = 32760
  BY <1>1, <1>3, <1>4, <1>5, <1>6
<1>7. CASE n = 32640
  BY <1>1, <1>3, <1>4, <1>5, <1>7
<1>8. CASE n \in {64, 128, 32704}
  BY <1>1, <1>3, <1>4, <1>8
<1>9. QED
  BY <1>6, <1>7, <1>8

\* Where the mean of the level is scaled, it stays below what L_add reaches.
LEMMA ScaledMean ==
  ASSUME NEW x \in Int, NEW y \in Int, x <= MAX_32, y <= 16384 * 65536
  PROVE  Scaled(y, estl_beta1) + Scaled(x, estl_beta) <= MAX_32
<1>1. ASSUME NEW z \in Int, NEW h \in Int, z < (h + 1) * 65536
      PROVE  Scaled(z, 64) <= (128 * h) + 128 /\ Scaled(z, 32704) <= (65408 * h) + 65408
  <2> DEFINE hi == extract_h(z)
             lo == (z \div 2) - (hi * 32768)
             q == (lo * 64) \div 32768
             r == (lo * 32704) \div 32768
  <2>1. Scaled(z, 64) = (2 * hi * 64) + (2 * q) /\ Scaled(z, 32704) = (2 * hi * 32704) + (2 * r)
    BY DEF Scaled
  <2>2. Halves(z, hi, lo)
    BY HalvesOf
  <2> HIDE DEF hi, lo
  <2>3. hi \in Int /\ lo \in Int /\ lo >= 0 /\ lo <= 32767
    BY <2>2 DEF Halves
  <2>4. q \in Int /\ q <= 64 /\ r \in Int /\ r <= 32704
    BY <2>3, LowerHalf
  <2> HIDE DEF q, r
  <2>5. hi <= h
    BY <1>1, <2>2, <2>3 DEF Halves
  <2>6. QED
    BY <2>1, <2>3, <2>4, <2>5
<1>2. Scaled(y, 64) <= (128 * 16384) + 128
  <2>1. y < (16384 + 1) * 65536
    BY SMT
  <2>2. QED
    BY <1>1, <2>1, SMT
<1>3. Scaled(x, 32704) <= (65408 * 32767) + 65408
  BY <1>1, SMT DEF MAX_32
<1>4. Scaled(y, 64) \in Int /\ Scaled(x, 32704) \in Int
  BY ScaledNearOne
<1>5. QED
  BY <1>2, <1>3, <1>4, SMT DEF estl_beta, estl_beta1, MAX_32

\* The level estimate.  Numbers that the code keeps in 32 bits stay so where it
\* matters.
LevelOK(s) ==
  /\ s.level \in Int /\ s.x1 \in Int /\ s.lmax \in Int
  /\ s.lmin \in Int /\ s.lmin <= MAX_32 /\ s.lmean \in Int /\ s.lmean <= MAX_32

\* What is drawn towards the mean passes by it and by where it was by one at most.
Drawn(x, mean, y) == y \in Int /\ y <= MAX_32 /\ y >= Least(x, mean) - 1

\* So does what L_add() and Mpy_32_16() make of it.
LEMMA NearTheMean ==
  ASSUME NEW x \in Int, NEW mean \in Int, x <= MAX_32, mean <= MAX_32, NEW n \in {32640, 32760}
  PROVE  Drawn(x, mean, L_add(Scaled(L_add(x, -mean), n), mean))
<1> DEFINE gap == L_add(x, -mean)
           z == Scaled(gap, n)
           y == L_add(z, mean)
<1>1. gap \in Int /\ (x <= 0 => gap >= x - mean) /\ (x > 0 => gap >= 0 \/ gap >= x - mean)
  BY SMT DEF L_add, MAX_32, MIN_32
<1> HIDE DEF gap
<1>2. z \in Int /\ (gap >= 0 => z >= 0) /\ (gap < 0 => z >= gap - 1)
  BY <1>1, ScaledNearOne
<1> HIDE DEF z
<1>3. y \in Int /\ y <= MAX_32 /\ (z <= 0 => y >= z + mean) /\ (z >= 0 => y >= mean)
  <2>1. Sum32(z, mean, y)
    BY <1>2, AddIs
  <2> HIDE DEF y
  <2>2. QED
    BY <1>2, <2>1 DEF Sum32
<1> HIDE DEF y
<1>4. y >= Least(x, mean) - 1
  BY <1>1, <1>2, <1>3 DEF Least
<1>5. QED
  BY <1>3, <1>4 DEF Drawn, y, z, gap

\* So does the estimate, unless a new minimum is believed.
LEMMA LevelKept ==
  ASSUME NEW s, NEW lg \in Int, NEW fresh \in BOOLEAN, NEW regular \in BOOLEAN, LevelOK(s)
  PROVE  LET r == EstimateLevel(s, lg, fresh, regular)
         IN  LevelOK(r) /\ (r.lmin < Least(s.lmin, s.lmean) - 1 => fresh)
<1> DEFINE Near(x, alpha) == L_add(Scaled(L_add(x, -s.lmean), alpha), s.lmean)
           lmax == IF lg > s.lmax THEN lg ELSE Near(s.lmax, estl_alpha)
           lmin == IF lg < s.lmin /\ fresh THEN lg
                   ELSE Near(s.lmin, IF regular THEN estl_alpha ELSE estl_alpha1)
           lmean == Scaled(L_add(lmax, lmin) \div 2, estl_beta1) + Scaled(s.lmean, estl_beta)
           loud == lg > lmean + Scaled(lmax - lmean, estl_TH)
           x1 == IF loud THEN Scaled(s.x1, estl_a) + Scaled(lg, estl_a1) ELSE s.x1
           level == IF loud THEN Scaled(s.level, estl_a) + Scaled(x1, estl_a1) ELSE s.level
           r == EstimateLevel(s, lg, fresh, regular)
<1>1. r = [lmax |-> lmax, lmin |-> lmin, lmean |-> lmean, x1 |-> x1, level |-> level]
  BY DEF EstimateLevel
<1>2. lmax \in Int
  <2>1. L_add(s.lmax, -s.lmean) \in Int
    <3>1. s.lmax \in Int /\ -s.lmean \in Int
      BY DEF LevelOK
    <3>2. QED
      BY <3>1, AddIs DEF Sum32
  <2>2. Scaled(L_add(s.lmax, -s.lmean), estl_alpha) \in Int
    BY <2>1, ScaledNearOne DEF estl_alpha
  <2>3. Near(s.lmax, estl_alpha) \in Int
    BY <2>2, AddIs DEF LevelOK, Sum32
  <2>4. QED
    BY <2>3
<1>3. lmin \in Int /\ lmin <= MAX_32 /\ (lmin < Least(s.lmin, s.lmean) - 1 => fresh)
  <2>1. CASE lg < s.lmin /\ fresh
    <3>1. lmin = lg
      BY <2>1
    <3> HIDE DEF lmin
    <3>2. QED
      BY <2>1, <3>1, SMT DEF LevelOK, MAX_32
  <2>2. CASE ~(lg < s.lmin /\ fresh)
    <3> DEFINE n == IF regular THEN estl_alpha ELSE estl_alpha1
    <3>1. n \in {32640, 32760}
      BY DEF estl_alpha, estl_alpha1
    <3>2. lmin = Near(s.lmin, n)
      BY <2>2
    <3> HIDE DEF n, lmin
    <3>3. Drawn(s.lmin, s.lmean, Near(s.lmin, n))
      BY <3>1, NearTheMean DEF LevelOK
    <3>4. Least(s.lmin, s.lmean) \in Int
      BY DEF LevelOK, Least
    <3>5. QED
      BY <3>2, <3>3, <3>4 DEF Drawn
  <2>3. QED
    BY <2>1, <2>2
<1> HIDE DEF lmin, lmax
<1>4. lmean \in Int /\ lmean <= MAX_32
  <2> DEFINE both == L_add(lmax, lmin)
             y == both \div 2
  <2>1. both \in Int /\ both <= MAX_32
    BY <1>2, <1>3, AddIs DEF Sum32
  <2> HIDE DEF both
  <2>2. y \in Int /\ y <= 16384 * 65536
    BY <2>1, SMT DEF MAX_32
  <2> HIDE DEF y
  <2>3. Scaled(y, estl_beta1) + Scaled(s.lmean, estl_beta) <= MAX_32
    BY <2>2, ScaledMean DEF LevelOK
  <2>4. Scaled(y, estl_beta1) \in Int /\ Scaled(s.lmean, estl_beta) \in Int
    BY <2>2, ScaledNearOne DEF LevelOK, estl_beta1, estl_beta
  <2>5. QED
    BY <2>3, <2>4 DEF y, both
<1> HIDE DEF lmean, loud
<1>5. x1 \in Int
  BY ScaledNearOne DEF LevelOK, estl_a, estl_a1
<1> HIDE DEF x1
<1>6. level \in Int
  BY <1>5, ScaledNearOne DEF LevelOK, estl_a, estl_a1
<1> HIDE DEF level, r
<1>7. LevelOK(r) /\ r.lmin = lmin
  BY <1>1, <1>2, <1>3, <1>4, <1>5, <1>6 DEF LevelOK
<1>8. QED
  BY <1>3, <1>7 DEF r
-----------------------------------------------------------------------------
(***************************************************************************)
(* BV16: the gain.                                                         *)
(***************************************************************************)
\* A codeword of the gain, and the entries of a memory of gains.
IsError(x) == x \in Int /\ x >= -11028 /\ x <= 24272
IsLimit(x) == x \in Int /\ x >= -2555
Numbers(m) == \A i \in 1..8 : m[i] \in Int
Errors(m) == \A i \in 1..8 : IsError(m[i])

\* What the tables hold.
LEMMA TheErrors == \A g \in 0..15 : IsError(lgpecb[g + 1]) /\ idxord[g + 1] \in 0..15
BY DEF lgpecb, idxord, IsError

\* No limit is below the lowest of them.
LEMMA TheLimits == \A i \in 0..17, n \in 0..11 : IsLimit(lgclimit[(i * 12) + n + 1])
<1>1. \A k \in 1..216 : lgclimit[k] \in Int
  BY SMTT(60) DEF lgclimit
<1>2. \A k \in 1..216 : lgclimit[k] >= -2555
  BY SMTT(60) DEF lgclimit
<1>3. \A i \in 0..17, n \in 0..11 : (i * 12) + n + 1 \in 1..216
  OBVIOUS
<1>4. QED
  BY <1>1, <1>2, <1>3 DEF IsLimit

\* The limit of a rise is one of the table's.
LEMMA LimitIs ==
  ASSUME NEW p, NEW level \in Int, p[1] \in Int, p[2] \in Int
  PROVE  IsLimit(Limit(p, level))
<1> DEFINE x == ((extract_h(p[1] - level) \div 512) - LGLB) \div 2
           y == ((extract_h(p[1] - p[2]) \div 512) - LGCLB) \div 2
<1>1. x \in Int /\ y \in Int
  BY DEF extract_h, LGLB, LGCLB
<1>2. Limit(p, level) = lgclimit[(Clamp(x, 0, 17) * 12) + Clamp(y, 0, 11) + 1]
  BY DEF Limit, NGB, NGCB
<1> HIDE DEF x, y
<1>3. Clamp(x, 0, 17) \in 0..17 /\ Clamp(y, 0, 11) \in 0..11
  BY <1>1 DEF Clamp
<1>4. QED
  BY <1>2, <1>3, TheLimits

\* A sum that saturates is a number, the greatest or not below the exact one.
LEMMA MacIsInt ==
  ASSUME NEW x \in Int, NEW a \in Int, NEW b \in Int
  PROVE  L_mac0(x, a, b) \in Int
<1> DEFINE y == a * b
<1>1. y \in Int
  BY SMT
<1>2. L_mac0(x, a, b) = L_add(x, y)
  BY DEF L_mac0
<1> HIDE DEF y
<1>3. L_add(x, y) \in Int
  BY <1>1, SMT DEF L_add, MAX_32, MIN_32
<1>4. QED
  BY <1>2, <1>3

LEMMA MacAtLeast ==
  ASSUME NEW x \in Int, NEW y \in Int, NEW low \in Int, x + y >= low, low < 2147483647
  PROVE  L_add(x, y) >= low
BY SMT DEF L_add, MAX_32, MIN_32

\* What the moving average adds, for memories of errors.
LEMMA MovingAverageIs ==
  ASSUME NEW x \in Int, NEW m, Numbers(m)
  PROVE  /\ MovingAverage(x, m) \in Int
         /\ Errors(m) /\ x = lgmean * 32768 => MovingAverage(x, m) >= -10000 * 65536
<1> DEFINE s1 == L_mac0(x, lgp[1], m[1])
           s2 == L_mac0(s1, lgp[2], m[2])
           s3 == L_mac0(s2, lgp[3], m[3])
           s4 == L_mac0(s3, lgp[4], m[4])
           s5 == L_mac0(s4, lgp[5], m[5])
           s6 == L_mac0(s5, lgp[6], m[6])
           s7 == L_mac0(s6, lgp[7], m[7])
           s8 == L_mac0(s7, lgp[8], m[8])
<1>1. /\ m[1] \in Int /\ m[2] \in Int /\ m[3] \in Int /\ m[4] \in Int
      /\ m[5] \in Int /\ m[6] \in Int /\ m[7] \in Int /\ m[8] \in Int
  BY DEF Numbers
<1>2. /\ lgp[1] = 25564 /\ lgp[2] = 24175 /\ lgp[3] = 20155 /\ lgp[4] = 19419
      /\ lgp[5] = 15316 /\ lgp[6] = 11914 /\ lgp[7] = 7794 /\ lgp[8] = 4217
  BY DEF lgp
<1>3. \A i \in 1..8 : lgp[i] \in Int
  BY DEF lgp
<1>4. /\ lgp[1] \in Int /\ lgp[2] \in Int /\ lgp[3] \in Int /\ lgp[4] \in Int
       /\ lgp[5] \in Int /\ lgp[6] \in Int /\ lgp[7] \in Int /\ lgp[8] \in Int
  BY <1>3, SMT
<1>5. MovingAverage(x, m) = s8
  BY DEF MovingAverage
<1>6. s1 \in Int
  BY <1>1, <1>4, MacIsInt, Zenon
<1> HIDE DEF s1
<1>7. s2 \in Int
  BY <1>1, <1>4, <1>6, MacIsInt, Zenon
<1> HIDE DEF s2
<1>8. s3 \in Int
  BY <1>1, <1>4, <1>7, MacIsInt, Zenon
<1> HIDE DEF s3
<1>9. s4 \in Int
  BY <1>1, <1>4, <1>8, MacIsInt, Zenon
<1> HIDE DEF s4
<1>10. s5 \in Int
  BY <1>1, <1>4, <1>9, MacIsInt, Zenon
<1> HIDE DEF s5
<1>11. s6 \in Int
  BY <1>1, <1>4, <1>10, MacIsInt, Zenon
<1> HIDE DEF s6
<1>12. s7 \in Int
  BY <1>1, <1>4, <1>11, MacIsInt, Zenon
<1> HIDE DEF s7
<1>13. s8 \in Int
  BY <1>1, <1>4, <1>12, MacIsInt, Zenon
<1> HIDE DEF s8
<1>14. ASSUME Errors(m), x = lgmean * 32768 PROVE s8 >= -10000 * 65536
  <2>1. /\ m[1] >= -11028 /\ m[2] >= -11028 /\ m[3] >= -11028 /\ m[4] >= -11028
        /\ m[5] >= -11028 /\ m[6] >= -11028 /\ m[7] >= -11028 /\ m[8] >= -11028
    BY <1>14 DEF Errors, IsError
  <2>2. x >= 768901120
    BY <1>14, SMT DEF lgmean
  <2>3. s1 >= 486981328
    <3>1. s1 = L_add(x, lgp[1] * m[1])
      BY DEF s1, L_mac0
    <3>2. lgp[1] * m[1] \in Int /\ x + (lgp[1] * m[1]) >= 486981328
      BY <1>1, <1>2, <2>1, <2>2, SMT
    <3>3. QED
      BY <3>1, <3>2, MacAtLeast
  <2>4. s2 >= 220379428
    <3>1. s2 = L_add(s1, lgp[2] * m[2])
      BY DEF s2, L_mac0
    <3>2. lgp[2] * m[2] \in Int /\ s1 + (lgp[2] * m[2]) >= 220379428
      BY <1>1, <1>2, <1>6, <2>1, <2>3, SMT
    <3>3. QED
      BY <1>6, <3>1, <3>2, MacAtLeast
  <2>5. s3 >= -1889912
    <3>1. s3 = L_add(s2, lgp[3] * m[3])
      BY DEF s3, L_mac0
    <3>2. lgp[3] * m[3] \in Int /\ s2 + (lgp[3] * m[3]) >= -1889912
      BY <1>1, <1>2, <1>7, <2>1, <2>4, SMT
    <3>3. QED
      BY <1>7, <3>1, <3>2, MacAtLeast
  <2>6. s4 >= -216042644
    <3>1. s4 = L_add(s3, lgp[4] * m[4])
      BY DEF s4, L_mac0
    <3>2. lgp[4] * m[4] \in Int /\ s3 + (lgp[4] * m[4]) >= -216042644
      BY <1>1, <1>2, <1>8, <2>1, <2>5, SMT
    <3>3. QED
      BY <1>8, <3>1, <3>2, MacAtLeast
  <2>7. s5 >= -384947492
    <3>1. s5 = L_add(s4, lgp[5] * m[5])
      BY DEF s5, L_mac0
    <3>2. lgp[5] * m[5] \in Int /\ s4 + (lgp[5] * m[5]) >= -384947492
      BY <1>1, <1>2, <1>9, <2>1, <2>6, SMT
    <3>3. QED
      BY <1>9, <3>1, <3>2, MacAtLeast
  <2>8. s6 >= -516335084
    <3>1. s6 = L_add(s5, lgp[6] * m[6])
      BY DEF s6, L_mac0
    <3>2. lgp[6] * m[6] \in Int /\ s5 + (lgp[6] * m[6]) >= -516335084
      BY <1>1, <1>2, <1>10, <2>1, <2>7, SMT
    <3>3. QED
      BY <1>10, <3>1, <3>2, MacAtLeast
  <2>9. s7 >= -602287316
    <3>1. s7 = L_add(s6, lgp[7] * m[7])
      BY DEF s7, L_mac0
    <3>2. lgp[7] * m[7] \in Int /\ s6 + (lgp[7] * m[7]) >= -602287316
      BY <1>1, <1>2, <1>11, <2>1, <2>8, SMT
    <3>3. QED
      BY <1>11, <3>1, <3>2, MacAtLeast
  <2>10. s8 >= -648792392
    <3>1. s8 = L_add(s7, lgp[8] * m[8])
      BY DEF s8, L_mac0
    <3>2. lgp[8] * m[8] \in Int /\ s7 + (lgp[8] * m[8]) >= -648792392
      BY <1>1, <1>2, <1>12, <2>1, <2>9, SMT
    <3>3. QED
      BY <1>12, <3>1, <3>2, MacAtLeast
  <2>11. QED
    BY <1>13, <2>10, SMT
<1>15. QED
  BY <1>5, <1>13, <1>14

\* Nor can a log-gain fall so low that a limit added to it would saturate.
LEMMA LogGainIs ==
  ASSUME NEW m, NEW g \in 0..15, Numbers(m)
  PROVE  /\ LogGain(g, m) \in Int /\ Estimated(m) \in Int
         /\ Errors(m) => LogGain(g, m) >= -7757 * 65536
<1> DEFINE x == lgpecb[g + 1]
           n == MovingAverage(lgmean * 32768, m)
           e == Estimated(m)
<1>1. IsError(x)
  BY TheErrors
<1>2. n \in Int /\ (Errors(m) => n >= -10000 * 65536)
  BY MovingAverageIs DEF lgmean
<1>3. e = n \div 2 /\ LogGain(g, m) = L_add(x * 16384, e)
  BY DEF Estimated, LogGain
<1> HIDE DEF x, n, e
<1>4. e \in Int /\ (Errors(m) => e >= -5000 * 65536)
  BY <1>2, <1>3, SMT
<1>5. x * 16384 \in Int /\ x * 16384 >= -2757 * 65536
  BY <1>1, SMT DEF IsError
<1>6. L_add(x * 16384, e) \in Int /\ (Errors(m) => L_add(x * 16384, e) >= -7757 * 65536)
  BY <1>4, <1>5, SMT DEF L_add, MAX_32, MIN_32
<1>7. QED
  BY <1>3, <1>4, <1>6 DEF e

\* Least and greatest elements: FiniteSetsExt takes both by CHOOSE.  A set of
\* naturals that is not empty has a least element.
LEMMA LeastExists ==
  ASSUME NEW S \in SUBSET Nat, S # {}
  PROVE  \E x \in S : \A y \in S : x <= y
<1> DEFINE R == OpToRel(<, Nat)
<1>1. \A x, y \in Nat : <<y, x>> \in R <=> y < x
  BY DEF OpToRel
<1>2. IsWellFoundedOn(R, Nat)
  BY NatLessThanWellFounded
<1> HIDE DEF R
<1>3. PICK x \in S : \A y \in S : ~(<<y, x>> \in R)
  BY <1>2, WFMin
<1>4. \A y \in S : ~(y < x)
  BY <1>1, <1>3
<1>5. QED
  BY <1>4

\* Max picks the greatest element of a bounded one.
LEMMA MaxIsGreatest ==
  ASSUME NEW n \in Nat, NEW S \in SUBSET (0..n), S # {}
  PROVE  Max(S) \in S
<1> DEFINE T == {z \in 0..n : n - z \in S}
<1>1. T \in SUBSET Nat /\ T # {}
  <2>1. PICK y \in S : TRUE
    OBVIOUS
  <2>2. n - y \in 0..n /\ n - (n - y) = y
    OBVIOUS
  <2>3. n - y \in T
    BY <2>2
  <2>4. T \subseteq Nat
    OBVIOUS
  <2>5. QED
    BY <2>3, <2>4
<1>2. PICK t \in T : \A z \in T : t <= z
  <2> HIDE DEF T
  <2>1. QED
    BY <1>1, LeastExists
<1>3. ASSUME NEW y \in S PROVE y <= n - t
  <2>1. n - y \in T
    OBVIOUS
  <2>2. QED
    BY <2>1, <1>2
<1>4. n - t \in S /\ \A y \in S : n - t >= y
  BY <1>2, <1>3
<1>5. QED
  BY <1>4 DEF Max

\* The encoder's state, as far as its gains go.
GainShape(p, est) == p[1] \in Int /\ p[2] \in Int /\ p = <<p[1], p[2]>> /\ LevelOK(est)
EncoderShape16(e) ==
  /\ Memory(e.lsppm, 8) /\ Memory(e.lgpm, 8) /\ Errors(e.lgpm)
  /\ GainShape(e.prevlg, e.est) /\ e.prevlg[1] >= -7757 * 65536

\* Errors are numbers.
LEMMA ErrorsAreNumbers == \A m : Errors(m) => Numbers(m)
BY DEF Errors, Numbers, IsError

\* The gain that the encoder chooses is not a rise that the decoder takes for a
\* bit error.
LEMMA EncoderNeverClips ==
  ASSUME NEW e, NEW wanted \in 0..15, EncoderShape16(e)
  PROVE  LET g == gainquan(e, wanted)
         IN  /\ g \in 0..15
             /\ ~Clips(extract_h(LogGain(g, e.lgpm) - e.prevlg[1]), Limit(e.prevlg, e.est.level), g)
<1> DEFINE lim == Limit(e.prevlg, e.est.level)
           limit == L_add(e.prevlg[1], lim * 65536)
           S == {k \in 0..wanted : k = 0 \/ LogGain(idxord[k + 1], e.lgpm) <= limit}
           k == Max(S)
           g == idxord[k + 1]
           lg == LogGain(g, e.lgpm)
           p == e.prevlg[1]
<1>1. gainquan(e, wanted) = g
  BY DEF gainquan
<1>2. k \in 0..15 /\ (k = 0 \/ LogGain(g, e.lgpm) <= limit)
  <2>1. S \in SUBSET (0..wanted) /\ 0 \in S
    OBVIOUS
  <2>2. k \in S
    <3> HIDE DEF S
    <3>1. QED
      BY <2>1, MaxIsGreatest
  <2>3. QED
    BY <2>2
<1> HIDE DEF k
<1>3. g \in 0..15 /\ (k = 0 => g = 0)
  BY <1>2, TheErrors DEF idxord
<1>4. IsLimit(lim) /\ p \in Int /\ p >= -7757 * 65536
  BY LimitIs DEF EncoderShape16, GainShape, LevelOK
<1>5. lg \in Int
  BY <1>3, LogGainIs, ErrorsAreNumbers DEF EncoderShape16
<1> HIDE DEF lim, p, g
<1>6. CASE k = 0
  BY <1>1, <1>3, <1>6 DEF Clips
<1>7. CASE lg <= limit
  <2>1. lim \in Int /\ lim >= -2555
    BY <1>4 DEF IsLimit
  <2>2. limit = L_add(p, lim * 65536)
    BY DEF p
  <2> HIDE DEF limit, lg
  <2>3. Sum32(p, lim * 65536, limit)
    BY <1>4, <2>1, <2>2, AddIs
  <2>4. p + (lim * 65536) >= MIN_32
    BY <1>4, <2>1, SMT DEF MIN_32, MAX_32
  <2>5. limit \in Int /\ limit <= p + (lim * 65536)
    BY <2>3, <2>4 DEF Sum32
  <2>6. lg - p <= lim * 65536
    BY <1>4, <1>5, <1>7, <2>1, <2>5
  <2>7. extract_h(lg - p) <= lim
    BY <1>4, <1>5, <2>1, <2>6 DEF extract_h
  <2>8. extract_h(lg - p) \in Int
    BY <1>4, <1>5 DEF extract_h
  <2>9. ~Clips(extract_h(lg - p), lim, g)
    BY <2>1, <2>7, <2>8 DEF Clips
  <2>10. QED
    BY <1>1, <1>3, <2>9 DEF lg, lim, p
<1>8. QED
  BY <1>2, <1>6, <1>7
-----------------------------------------------------------------------------
(***************************************************************************)
(* BV16: what a frame says is read back.                                   *)
(***************************************************************************)
VectorsIn(x, y, h) ==
  LET w == (x * 512) + (y * 4) + h
      c == (0 * 65536) + (((w \div 256) % 256) * 256) + (w % 256)
  IN  (c \div 512) = x /\ ((c % 512) \div 4) = y
\* Two indexes of seven bits and the rest of the first word,
LEMMA FirstWord ==
  ASSUME NEW x \in 0..127, NEW y \in 0..127, NEW h \in 0..3
  PROVE  VectorsIn(x, y, h)
<1> DEFINE w == (x * 512) + (y * 4) + h
           b == w \div 256
<1>1. x \in Int /\ y \in Int /\ h \in Int /\ 0 <= x /\ x <= 127 /\ 0 <= y /\ y <= 127 /\ 0 <= h /\ h <= 3
  OBVIOUS
<1>2. w \in Int /\ 0 <= w /\ w <= 65535
  BY <1>1
<1>3. (w \div 512) = x /\ ((w % 512) \div 4) = y
  BY <1>1
<1> HIDE DEF w
<1>4. ((b % 256) * 256) + (w % 256) = w
  BY <1>2
<1>5. (0 * 65536) + ((b % 256) * 256) + (w % 256) = w
  BY <1>2, <1>4
<1>6. QED
  BY <1>3, <1>5 DEF w, b, VectorsIn

GainIn(x, y, g, h, l) ==
  LET w == (x * 2048) + (y * 64) + (g * 4) + h
      c == (l * 65536) + (((w \div 256) % 256) * 256) + (w % 256)
  IN  ((c % 64) \div 4) = g
\* and the index of the gain in the second.
LEMMA SecondWord ==
  ASSUME NEW x \in 0..127, NEW y \in 0..31, NEW g \in 0..15, NEW h \in 0..3, NEW l \in Int
  PROVE  GainIn(x, y, g, h, l)
<1> DEFINE w == (x * 2048) + (y * 64) + (g * 4) + h
           c == (l * 65536) + (((w \div 256) % 256) * 256) + (w % 256)
<1>1. x \in Int /\ y \in Int /\ g \in Int /\ h \in Int /\ 0 <= g /\ g <= 15 /\ 0 <= h /\ h <= 3
  OBVIOUS
<1>2. w \in Int /\ (w % 64) = (g * 4) + h
  BY <1>1
<1> HIDE DEF w
<1>3. (c % 64) = (w % 64)
  BY <1>2
<1> HIDE DEF c
<1>4. ((c % 64) \div 4) = g
  BY <1>1, <1>2, <1>3
<1>5. QED
  BY <1>4 DEF GainIn, c, w

\* A vector of the second stage and its sign are one index.
LEMMA VectorReadsBack ==
  ASSUME NEW v \in 0..63, NEW s \in {-1, 1}
  PROVE  LspIndex(v, s) \in 0..127 /\ LspVector(LspIndex(v, s)) = [stage2 |-> v, sign |-> s]
BY DEF LspIndex, LspVector, LSPECBSZ2

\* What the predictors need of a frame arrives.
LEMMA FrameReadsBack ==
  ASSUME NEW f, f.lspidx[1] \in 0..127, f.lspidx[2] \in 0..127, f.ppidx \in 0..127,
         f.bqidx \in 0..31, f.gidx \in 0..15, f.qvidx \in [1..10 -> 0..31]
  PROVE  LET p == BV16_BitUnPack(BV16_BitPack(f))
         IN  p.lspidx[1] = f.lspidx[1] /\ p.lspidx[2] = f.lspidx[2] /\ p.gidx = f.gidx
<1> DEFINE q == f.qvidx
           w1 == (f.lspidx[1] * 512) + (f.lspidx[2] * 4) + (f.ppidx \div 32)
           w2 == (f.ppidx * 2048) + (f.bqidx * 64) + (f.gidx * 4) + (q[1] \div 8)
           b == BV16_BitPack(f)
           p == BV16_BitUnPack(b)
           c1 == (0 * 65536) + (b[1] * 256) + b[2]
           c2 == ((c1 % 4) * 65536) + (b[3] * 256) + b[4]
<1>1. /\ b[1] = ((w1 \div 256) % 256) /\ b[2] = (w1 % 256)
      /\ b[3] = ((w2 \div 256) % 256) /\ b[4] = (w2 % 256)
  BY DEF BV16_BitPack
<1> HIDE DEF b
<1>2. p.lspidx[1] = (c1 \div 512) /\ p.lspidx[2] = ((c1 % 512) \div 4) /\ p.gidx = ((c2 % 64) \div 4)
  BY SMTT(20) DEF BV16_BitUnPack
<1>3. (f.ppidx \div 32) \in 0..3 /\ (q[1] \div 8) \in 0..3
  <2>1. q[1] \in 0..31
    OBVIOUS
  <2>2. \A x \in 0..127 : (x \div 32) \in 0..3
    OBVIOUS
  <2>3. \A x \in 0..31 : (x \div 8) \in 0..3
    OBVIOUS
  <2> HIDE DEF q
  <2>4. QED
    BY <2>1, <2>2, <2>3
<1> HIDE DEF p
<1>4. w1 \in Int /\ w2 \in Int
  <2> DEFINE h1 == f.ppidx \div 32  h2 == q[1] \div 8
  <2>1. h1 \in Int /\ h2 \in Int
    BY <1>3
  <2> HIDE DEF h1, h2
  <2>2. w1 = (f.lspidx[1] * 512) + (f.lspidx[2] * 4) + h1
        /\ w2 = (f.ppidx * 2048) + (f.bqidx * 64) + (f.gidx * 4) + h2
    BY DEF h1, h2
  <2> HIDE DEF w1, w2
  <2>3. QED
    BY <2>1, <2>2
<1>5. VectorsIn(f.lspidx[1], f.lspidx[2], f.ppidx \div 32)
  BY <1>3, FirstWord
<1>6. (c1 \div 512) = f.lspidx[1] /\ ((c1 % 512) \div 4) = f.lspidx[2]
  BY <1>1, <1>5 DEF VectorsIn
<1>7. c1 \in Int
  BY <1>1, <1>4
<1> HIDE DEF c1
<1>8. (c1 % 4) \in Int
  BY <1>7
<1>9. GainIn(f.ppidx, f.bqidx, f.gidx, q[1] \div 8, c1 % 4)
  BY <1>3, <1>8, SecondWord
<1>10. ((c2 % 64) \div 4) = f.gidx
  BY <1>1, <1>9 DEF GainIn
<1>11. QED
  BY <1>2, <1>6, <1>10 DEF p, b
-----------------------------------------------------------------------------
(***************************************************************************)
(* BV16: what a frame does to both ends.                                   *)
(***************************************************************************)
\* A frame at the encoder that sends the gain g,
Sends16(e, f, g, r) ==
  /\ r.e.lsppm = Shifted(<<f.stage1, f.stage2, f.sign>>, e.lsppm)
  /\ r.e.lgpm = Shifted(lgpecb[g + 1], e.lgpm)
  /\ r.e.prevlg = <<LogGain(g, e.lgpm), e.prevlg[1]>>
  /\ r.e.est = EstimateLevel(e.est, LogGain(g, e.lgpm), TRUE, TRUE)
\* and what its packet says.
Says16(f, g, packet) ==
  LET p == BV16_BitUnPack(packet.bits)
  IN  /\ p.lspidx[1] = f.stage1 /\ LspVector(p.lspidx[2]) = [stage2 |-> f.stage2, sign |-> f.sign]
      /\ p.gidx = g

\* Every frame is one of the two.
LEMMA Encoder16Is ==
  ASSUME NEW e, NEW f \in BV16Findings, EncoderShape16(e)
  PROVE  LET r == BV16_Encode(e, f)  g == gainquan(e, f.gain)
         IN  EncoderShape16(r.e) /\ Sends16(e, f, g, r) /\ Says16(f, g, r.packet)
<1> DEFINE r == BV16_Encode(e, f)
           g == gainquan(e, f.gain)
           lg == LogGain(g, e.lgpm)
           s == Shift(<<f.stage1, f.stage2, f.sign>>, e.lsppm)
           m == Shift(lgpecb[g + 1], e.lgpm)
           x == EstimateLevel(e.est, lg, TRUE, TRUE)
           h == [lspidx |-> <<f.stage1, LspIndex(f.stage2, f.sign)>>, ppidx |-> f.pp - MINPP,
                 bqidx |-> f.bq, gidx |-> g, qvidx |-> f.qv]
<1>1. r = [e |-> [lsppm |-> s, lgpm |-> m, prevlg |-> <<lg, e.prevlg[1]>>, est |-> x],
           packet |-> [bits |-> BV16_BitPack(h), ordered |-> f.ordered, from |-> e.lsppm]]
  BY DEF BV16_Encode
<1>2. /\ f.stage1 \in 0..127 /\ f.stage2 \in 0..63 /\ f.sign \in {-1, 1} /\ f.gain \in 0..15
      /\ f.pp \in 10..137 /\ f.bq \in 0..31 /\ f.qv \in [1..10 -> 0..31]
  BY DEF BV16Findings, LSPECBSZ2, MINPP
<1>3. g \in 0..15
  BY <1>2, EncoderNeverClips
<1> HIDE DEF g
<1>4. lg \in Int /\ lg >= -7757 * 65536
  BY <1>3, LogGainIs, ErrorsAreNumbers DEF EncoderShape16
<1>5. s = Shifted(<<f.stage1, f.stage2, f.sign>>, e.lsppm) /\ m = Shifted(lgpecb[g + 1], e.lgpm)
  BY DEF Shift, Shifted
<1> HIDE DEF lg, s, m, h
<1>6. Memory(s, 8) /\ Memory(m, 8)
  BY <1>5, ShiftedMemory DEF EncoderShape16
<1>7. Errors(m)
  <2>1. m[1] = lgpecb[g + 1] /\ \A i \in 2..8 : m[i] = e.lgpm[i - 1]
    BY <1>5, ShiftedMemory DEF EncoderShape16
  <2>2. IsError(m[1])
    BY <1>3, <2>1, TheErrors
  <2>3. \A i \in 2..8 : IsError(m[i])
    BY <2>1 DEF EncoderShape16, Errors
  <2>4. QED
    BY <2>2, <2>3 DEF Errors
<1>8. LevelOK(x)
  <2>1. \A yes \in BOOLEAN : LevelOK(EstimateLevel(e.est, lg, yes, yes))
    BY <1>4, LevelKept DEF EncoderShape16, GainShape
  <2>2. QED
    BY <2>1
<1> HIDE DEF x
<1>9. Says16(f, g, r.packet)
  <2>1. h.lspidx[1] = f.stage1 /\ h.lspidx[2] = LspIndex(f.stage2, f.sign) /\ h.ppidx = f.pp - 10
        /\ h.bqidx = f.bq /\ h.gidx = g /\ h.qvidx = f.qv
    BY DEF h, MINPP
  <2>2. LspIndex(f.stage2, f.sign) \in 0..127
        /\ LspVector(LspIndex(f.stage2, f.sign)) = [stage2 |-> f.stage2, sign |-> f.sign]
    BY <1>2, VectorReadsBack
  <2>3. f.pp - 10 \in 0..127
    BY <1>2
  <2>4. LET p == BV16_BitUnPack(BV16_BitPack(h))
        IN  p.lspidx[1] = h.lspidx[1] /\ p.lspidx[2] = h.lspidx[2] /\ p.gidx = h.gidx
    BY <1>2, <1>3, <2>1, <2>2, <2>3, FrameReadsBack
  <2>5. r.packet.bits = BV16_BitPack(h)
    BY <1>1
  <2>6. QED
    BY <2>1, <2>2, <2>4, <2>5 DEF Says16
<1> HIDE DEF r
<1>10. r.e.lsppm = s /\ r.e.lgpm = m /\ r.e.prevlg = <<lg, e.prevlg[1]>> /\ r.e.est = x
  BY <1>1
<1>11. EncoderShape16(r.e)
  <2>1. e.prevlg[1] \in Int
    BY DEF EncoderShape16, GainShape
  <2>2. QED
    BY <1>4, <1>6, <1>7, <1>8, <1>10, <2>1 DEF EncoderShape16, GainShape
<1>12. Sends16(e, f, g, r)
  BY <1>5, <1>10 DEF Sends16, lg, x
<1>13. QED
  BY <1>9, <1>11, <1>12 DEF g, r

\* The decoder's state.
DecoderShape16(d) ==
  /\ {"lsppm", "lgpm", "prevlg", "est", "lsplast", "pp_last", "cfecount", "ngfae", "nggalgc",
      "regular"} \subseteq DOMAIN d
  /\ Memory(d.lsppm, 8) /\ Memory(d.lgpm, 8) /\ Numbers(d.lgpm) /\ GainShape(d.prevlg, d.est)
  /\ d.cfecount \in Nat /\ d.ngfae \in 0..9 /\ d.nggalgc \in 0..101 /\ d.regular \in BOOLEAN

\* u is d but for its estimate, which goes on with lg.
Estimates(d, u, lg) ==
  /\ DecoderShape16(u)
  /\ u.lsppm = d.lsppm /\ u.lgpm = d.lgpm /\ u.prevlg = d.prevlg /\ u.cfecount = d.cfecount
  /\ u.ngfae = d.ngfae /\ u.nggalgc = d.nggalgc
  /\ u.est = EstimateLevel(d.est, lg, Believed(d), Decays(d))
  /\ u.regular = (Decays(d) \/ (lg < d.est.lmin /\ Believed(d)))
  /\ u.est.lmin < Least(d.est.lmin, d.est.lmean) - 1 => Believed(d)

\* So does estimating.
LEMMA EstimatingIs ==
  ASSUME NEW d, NEW lg \in Int, DecoderShape16(d)
  PROVE  Estimates(d, Estimating(d, lg), lg)
<1> DEFINE u == Estimating(d, lg)
           x == EstimateLevel(d.est, lg, Believed(d), Decays(d))
           y == Decays(d) \/ (lg < d.est.lmin /\ Believed(d))
<1>1. u = [d EXCEPT !.est = x, !.regular = y]
  BY DEF Estimating, DecoderShape16
<1>2. Believed(d) \in BOOLEAN /\ Decays(d) \in BOOLEAN
  BY DEF Believed, Decays, DecoderShape16
<1>3. LevelOK(d.est)
  BY DEF DecoderShape16, GainShape
<1>4. LevelOK(x) /\ (x.lmin < Least(d.est.lmin, d.est.lmean) - 1 => Believed(d))
  BY <1>2, <1>3, LevelKept
<1>5. y \in BOOLEAN
  BY <1>2
<1> HIDE DEF x, y, u
<1>6. /\ u.est = x /\ u.regular = y /\ DOMAIN u = DOMAIN d
      /\ u.lsppm = d.lsppm /\ u.lgpm = d.lgpm /\ u.prevlg = d.prevlg /\ u.cfecount = d.cfecount
      /\ u.ngfae = d.ngfae /\ u.nggalgc = d.nggalgc
  BY <1>1 DEF DecoderShape16
<1>7. DecoderShape16(u)
  BY <1>4, <1>5, <1>6 DEF DecoderShape16, GainShape
<1>8. Estimates(d, u, lg)
  BY <1>4, <1>6, <1>7 DEF Estimates, x, y
<1>9. QED
  BY <1>8 DEF u

\* What the decoder makes of the index g of a gain.
LEMMA GainDecoded ==
  ASSUME NEW d, NEW g \in 0..15, DecoderShape16(d)
  PROVE  LET x == gaindec(d, g)
         IN  /\ x.lgq \in Int /\ x.error \in Int /\ x.lg_el \in Int /\ x.clipped \in BOOLEAN
             /\ x.clipped = Clips(extract_h(LogGain(g, d.lgpm) - d.prevlg[1]),
                                  Limit(d.prevlg, d.est.level), g)
             /\ ~x.clipped => x.error = lgpecb[g + 1] /\ x.lgq = LogGain(g, d.lgpm)
                              /\ x.lg_el = LogGain(g, d.lgpm)
<1> DEFINE elg == Estimated(d.lgpm)
           lg == LogGain(g, d.lgpm)
           limit == Limit(d.prevlg, d.est.level)
           p == d.prevlg[1]
           clips == Clips(extract_h(lg - p), limit, g)
           x == gaindec(d, g)
<1>1. x = IF clips
          THEN [lgq |-> p, error |-> Word16((p - elg) \div 16384), clipped |-> TRUE,
                lg_el |-> L_add(limit * 65536, p)]
          ELSE [lgq |-> lg, error |-> lgpecb[g + 1], clipped |-> FALSE, lg_el |-> lg]
  BY DEF gaindec
<1>2. lg \in Int
  BY LogGainIs DEF DecoderShape16
<1>3. p \in Int /\ limit \in Int
  BY LimitIs DEF DecoderShape16, GainShape, LevelOK, IsLimit
<1>4. elg \in Int
  BY LogGainIs DEF DecoderShape16
<1>5. IsError(lgpecb[g + 1])
  BY TheErrors
<1> HIDE DEF elg, lg, limit, p
<1>6. extract_h(lg - p) \in Int
  BY <1>2, <1>3 DEF extract_h
<1>7. clips \in BOOLEAN
  BY DEF Clips
<1>8. Word16((p - elg) \div 16384) \in Int
  BY <1>3, <1>4 DEF Word16, Clamp
<1>9. L_add(limit * 65536, p) \in Int
  <2>1. limit * 65536 \in Int
    BY <1>3
  <2>2. QED
    BY <1>3, <2>1, AddIs DEF Sum32
<1> HIDE DEF clips
<1>10. CASE clips
  <2>1. x = [lgq |-> p, error |-> Word16((p - elg) \div 16384), clipped |-> TRUE,
             lg_el |-> L_add(limit * 65536, p)]
    BY <1>1, <1>10
  <2> HIDE DEF x
  <2>2. x.lgq \in Int /\ x.error \in Int /\ x.lg_el \in Int /\ x.clipped = TRUE
    BY <1>3, <1>8, <1>9, <2>1
  <2>3. QED
    BY <1>10, <2>2 DEF x, clips, lg, limit, p
<1>11. CASE ~clips
  <2>1. x = [lgq |-> lg, error |-> lgpecb[g + 1], clipped |-> FALSE, lg_el |-> lg]
    BY <1>1, <1>11
  <2> HIDE DEF x
  <2>2. x.lgq = lg /\ x.error = lgpecb[g + 1] /\ x.lg_el = lg /\ x.clipped = FALSE
    BY <2>1
  <2>3. lgpecb[g + 1] \in Int
    BY <1>5 DEF IsError
  <2>4. clips = FALSE
    BY <1>7, <1>11
  <2>5. QED
    BY <1>2, <2>2, <2>3, <2>4 DEF x, clips, lg, limit, p
<1>12. QED
  BY <1>10, <1>11

\* A frame at the decoder: v is its vector, x what it made of the gain, and w the
\* state before the level is estimated.
Decodes16(d, v, x, ordered, w) ==
  /\ DecoderShape16(w)
  /\ w.lsppm = Shifted(IF ordered THEN v ELSE <<"replaced">>, d.lsppm)
  /\ w.lgpm = Shifted(x.error, d.lgpm) /\ w.prevlg = <<x.lgq, d.prevlg[1]>>
  /\ w.cfecount = 0 /\ w.ngfae = IF d.cfecount # 0 THEN 1 ELSE Least(d.ngfae + 1, 9)
  /\ w.nggalgc = IF x.clipped THEN 0 ELSE Least(d.nggalgc + 1, 101)
  /\ w.est = d.est /\ w.regular = d.regular

\* The decoder does that.
LEMMA Decoder16Is ==
  ASSUME NEW d, NEW packet, NEW ordered \in BOOLEAN, DecoderShape16(d),
         BV16_BitUnPack(packet.bits).gidx \in 0..15
  PROVE  LET p == BV16_BitUnPack(packet.bits)  x == gaindec(d, p.gidx)
         IN  \E w : /\ Decodes16(d, Lsp(p.lspidx[1], LspVector(p.lspidx[2])), x, ordered, w)
                    /\ BV16_Decode(d, packet, ordered) = Estimating(w, x.lg_el)
<1> DEFINE p == BV16_BitUnPack(packet.bits)
           x == gaindec(d, p.gidx)
           v == Lsp(p.lspidx[1], LspVector(p.lspidx[2]))
           n == IF d.cfecount # 0 THEN 1 ELSE Least(d.ngfae + 1, 9)
           k == IF x.clipped THEN 0 ELSE Least(d.nggalgc + 1, 101)
           s == Shift(IF ordered THEN v ELSE <<"replaced">>, d.lsppm)
           m == Shift(x.error, d.lgpm)
           last == IF ordered THEN <<v, d.lsppm>> ELSE d.lsplast
           pp == p.ppidx + MINPP
           w == [d EXCEPT !.ngfae = n, !.cfecount = 0, !.pp_last = pp, !.lsppm = s, !.lsplast = last,
                          !.lgpm = m, !.prevlg = <<x.lgq, d.prevlg[1]>>, !.nggalgc = k]
<1>1. BV16_Decode(d, packet, ordered) = Estimating(w, x.lg_el)
  BY DEF BV16_Decode, DecoderShape16, LGPORDER, Nfdm
<1>2. x.lgq \in Int /\ x.error \in Int /\ x.lg_el \in Int /\ x.clipped \in BOOLEAN
  BY GainDecoded
<1> HIDE DEF x, v, p
<1>3. n \in 0..9 /\ k \in 0..101
  BY DEF DecoderShape16, Least
<1>4. s = Shifted(IF ordered THEN v ELSE <<"replaced">>, d.lsppm) /\ m = Shifted(x.error, d.lgpm)
  BY DEF Shift, Shifted
<1> HIDE DEF n, k, s, m, last, pp
<1>5. /\ DOMAIN w = DOMAIN d /\ w.ngfae = n /\ w.cfecount = 0 /\ w.lsppm = s /\ w.lgpm = m
      /\ w.prevlg = <<x.lgq, d.prevlg[1]>> /\ w.nggalgc = k /\ w.est = d.est /\ w.regular = d.regular
  BY DEF DecoderShape16
<1> HIDE DEF w
<1>6. Memory(s, 8) /\ Memory(m, 8)
  <2>1. Memory(d.lsppm, 8) /\ Memory(d.lgpm, 8)
    BY DEF DecoderShape16
  <2>2. \A y : Memory(Shifted(y, d.lsppm), 8) /\ Memory(Shifted(y, d.lgpm), 8)
    BY <2>1, ShiftedMemory
  <2>3. QED
    BY <1>4, <2>2
<1>7. Numbers(m)
  <2>1. m[1] = x.error /\ \A i \in 2..8 : m[i] = d.lgpm[i - 1]
    BY <1>4, ShiftedMemory DEF DecoderShape16
  <2>2. QED
    BY <1>2, <2>1 DEF DecoderShape16, Numbers
<1>8. DecoderShape16(w)
  BY <1>2, <1>3, <1>5, <1>6, <1>7 DEF DecoderShape16, GainShape
<1>9. Decodes16(d, v, x, ordered, w)
  BY <1>4, <1>5, <1>8 DEF Decodes16, n, k
<1>10. QED
  BY <1>1, <1>9 DEF p, x, v
-----------------------------------------------------------------------------
\* What the tie t says of a BV16 encoder e and decoder d.
HeardOf(d, heard) == \A i \in 1..8 : ~heard[i] => d.ngfae < i \/ d.nggalgc < i
Clean(e, d) ==
  /\ d.lgpm = e.lgpm /\ d.prevlg = e.prevlg /\ d.est = e.est
  /\ d.ngfae = 9 /\ d.cfecount = 0 /\ d.nggalgc = 101 /\ d.regular = TRUE
TiedBV16(e, d, t) ==
  /\ EncoderShape16(e) /\ DecoderShape16(d) /\ t.words \in 0..Whole /\ t.gains \in 0..Whole
  /\ Memory(t.heard, 8) /\ HeardOf(d, t.heard)
  /\ Agree(Low(t.words, 8), d.lsppm, e.lsppm) /\ Agree(Low(t.gains, 8), d.lgpm, e.lgpm)
  /\ Agree(t.gains - 8, d.prevlg, e.prevlg)
  /\ t.clean => Clean(e, d)

\* What was heard is counted by the two counters as it is shifted.
LEMMA HeardGoesOn ==
  ASSUME NEW d, NEW u, NEW heard, NEW clipped \in BOOLEAN, DecoderShape16(d), HeardOf(d, heard),
         Memory(heard, 8),
         u.ngfae = IF d.cfecount # 0 THEN 1 ELSE Least(d.ngfae + 1, 9),
         u.nggalgc = IF clipped THEN 0 ELSE Least(d.nggalgc + 1, 101)
  PROVE  /\ HeardOf(u, Shift(~clipped, heard)) /\ Memory(Shift(~clipped, heard), 8)
         /\ Believed(u) => /\ \A i \in 1..8 : heard[i]
                           /\ Shift(~clipped, heard)[1]
<1> DEFINE h == Shift(~clipped, heard)
<1>1. h = Shifted(~clipped, heard)
  BY DEF Shift, Shifted
<1> HIDE DEF h
<1>2. Memory(h, 8) /\ h[1] = ~clipped /\ \A i \in 2..8 : h[i] = heard[i - 1]
  BY <1>1, ShiftedMemory
<1>3. d.ngfae \in 0..9 /\ d.nggalgc \in 0..101
  BY DEF DecoderShape16
<1>4. /\ u.ngfae \in Int /\ u.nggalgc \in Int
      /\ u.ngfae = 1 \/ u.ngfae <= d.ngfae + 1
      /\ u.nggalgc <= d.nggalgc + 1
      /\ clipped => u.nggalgc = 0
  BY <1>3 DEF Least
<1>5. ASSUME NEW i \in 1..8, ~h[i] PROVE u.ngfae < i \/ u.nggalgc < i
  <2>1. CASE i = 1
    <3>1. clipped
      BY <1>2, <1>5, <2>1, Zenon
    <3>2. u.nggalgc = 0
      BY <1>4, <3>1
    <3>3. QED
      BY <2>1, <3>2
  <2>2. CASE i \in 2..8
    <3>1. ~heard[i - 1]
      BY <1>2, <1>5, <2>2
    <3>2. i - 1 \in 1..8
      BY <2>2
    <3>3. d.ngfae < i - 1 \/ d.nggalgc < i - 1
      BY <3>1, <3>2 DEF HeardOf
    <3>4. QED
      BY <1>3, <1>4, <2>2, <3>3
  <2>3. QED
    BY <2>1, <2>2
<1>6. ASSUME Believed(u) PROVE (\A i \in 1..8 : heard[i]) /\ h[1]
  <2>1. u.ngfae = 9 /\ u.nggalgc > 8
    BY <1>6 DEF Believed, LGPORDER
  <2>2. d.ngfae >= 8 /\ d.nggalgc >= 8
    BY <1>3, <1>4, <2>1
  <2>3. \A i \in 1..8 : heard[i]
    BY <1>3, <2>2 DEF HeardOf
  <2>4. ~clipped
    BY <1>4, <2>1
  <2>5. QED
    BY <1>2, <2>3, <2>4
<1>7. QED
  BY <1>2, <1>5, <1>6 DEF HeardOf, h

\* A frame that arrives ties both ends in one more entry, and its gain in all
\* when none was missed.
LEMMA Frame16Ties ==
  ASSUME NEW e, NEW d, NEW t, NEW u, NEW f \in BV16Findings, NEW ordered \in BOOLEAN,
         TiedBV16(e, d, t)
  PROVE  LET r == BV16_Encode(e, f)
             clipped == gaindec(d, BV16_BitUnPack(r.packet.bits).gidx).clipped
             v == BV16_Decode(d, r.packet, ordered)
         IN  u.words = (IF ordered THEN Grown(t.words, 1) ELSE 0)
             /\ u.gains = (IF clipped THEN 0 ELSE Grown(t.gains, 1))
             /\ u.heard = Shift(~clipped, t.heard) /\ u.clean = t.clean
             => /\ TiedBV16(r.e, v, u)
                /\ v.est.lmin < Least(d.est.lmin, d.est.lmean) - 1 =>
                     (\A i \in 1..8 : t.heard[i]) /\ u.heard[1]
<1> DEFINE r == BV16_Encode(e, f)
           g == gainquan(e, f.gain)
           p == BV16_BitUnPack(r.packet.bits)
           x == gaindec(d, p.gidx)
           v == BV16_Decode(d, r.packet, ordered)
           vector == <<f.stage1, f.stage2, f.sign>>
<1> SUFFICES ASSUME u.words = (IF ordered THEN Grown(t.words, 1) ELSE 0),
                    u.gains = (IF x.clipped THEN 0 ELSE Grown(t.gains, 1)),
                    u.heard = Shift(~x.clipped, t.heard), u.clean = t.clean
             PROVE  /\ TiedBV16(r.e, v, u)
                    /\ v.est.lmin < Least(d.est.lmin, d.est.lmean) - 1 =>
                         (\A i \in 1..8 : t.heard[i]) /\ u.heard[1]
  OBVIOUS
<1>1. /\ EncoderShape16(e) /\ DecoderShape16(d) /\ t.words \in 0..Whole /\ t.gains \in 0..Whole
      /\ Memory(t.heard, 8) /\ HeardOf(d, t.heard)
      /\ Agree(Low(t.words, 8), d.lsppm, e.lsppm) /\ Agree(Low(t.gains, 8), d.lgpm, e.lgpm)
      /\ Agree(t.gains - 8, d.prevlg, e.prevlg) /\ (t.clean => Clean(e, d))
  BY DEF TiedBV16
<1>2. EncoderShape16(r.e) /\ Sends16(e, f, g, r) /\ Says16(f, g, r.packet)
  BY <1>1, Encoder16Is
<1>3. g \in 0..15 /\ ~Clips(extract_h(LogGain(g, e.lgpm) - e.prevlg[1]),
                            Limit(e.prevlg, e.est.level), g)
  <2>1. f.gain \in 0..15
    BY DEF BV16Findings
  <2>2. QED
    BY <1>1, <2>1, EncoderNeverClips
<1>4. p.gidx = g /\ Lsp(p.lspidx[1], LspVector(p.lspidx[2])) = vector
  BY <1>2 DEF Says16, Lsp
<1>5. PICK w : Decodes16(d, vector, x, ordered, w) /\ v = Estimating(w, x.lg_el)
  <2>1. p.gidx \in 0..15
    BY <1>3, <1>4
  <2>2. \E w : /\ Decodes16(d, Lsp(p.lspidx[1], LspVector(p.lspidx[2])), x, ordered, w)
               /\ v = Estimating(w, x.lg_el)
    BY <1>1, <2>1, Decoder16Is
  <2>3. QED
    BY <1>4, <2>2
<1>6. /\ x.lgq \in Int /\ x.error \in Int /\ x.lg_el \in Int /\ x.clipped \in BOOLEAN
      /\ x.clipped = Clips(extract_h(LogGain(g, d.lgpm) - d.prevlg[1]), Limit(d.prevlg, d.est.level), g)
      /\ ~x.clipped => x.error = lgpecb[g + 1] /\ x.lgq = LogGain(g, d.lgpm)
                       /\ x.lg_el = LogGain(g, d.lgpm)
  BY <1>1, <1>3, <1>4, GainDecoded
<1> HIDE DEF r, g, p, x, v, vector
<1>7. Estimates(w, v, x.lg_el)
  BY <1>5, <1>6, EstimatingIs DEF Decodes16
<1>8. /\ HeardOf(w, u.heard) /\ Memory(u.heard, 8)
      /\ Believed(w) => (\A i \in 1..8 : t.heard[i]) /\ u.heard[1]
  BY <1>1, <1>5, <1>6, HeardGoesOn DEF Decodes16
<1>9. DecoderShape16(v) /\ HeardOf(v, u.heard)
  BY <1>7, <1>8 DEF Estimates, HeardOf
<1>10. v.est.lmin < Least(d.est.lmin, d.est.lmean) - 1 => (\A i \in 1..8 : t.heard[i]) /\ u.heard[1]
  BY <1>5, <1>7, <1>8 DEF Estimates, Decodes16
<1>11. u.words \in 0..Whole /\ u.gains \in 0..Whole
  BY <1>1 DEF Grown, Low, Whole
<1>12. Agree(Low(u.words, 8), v.lsppm, r.e.lsppm)
  <2>1. CASE ordered
    <3>1. v.lsppm = Shifted(vector, d.lsppm) /\ r.e.lsppm = Shifted(vector, e.lsppm)
      BY <1>2, <1>5, <1>7, <2>1 DEF Estimates, Decodes16, Sends16, vector
    <3>2. u.words = Grown(t.words, 1)
      BY <2>1
    <3>3. QED
      BY <1>1, <3>1, <3>2, AgreeMore DEF EncoderShape16, DecoderShape16
  <2>2. CASE ~ordered
    BY <2>2 DEF Agree, Low
  <2>3. QED
    BY <2>1, <2>2
<1>13. Agree(Low(u.gains, 8), v.lgpm, r.e.lgpm)
  <2>1. CASE ~x.clipped
    <3>1. v.lgpm = Shifted(lgpecb[g + 1], d.lgpm) /\ r.e.lgpm = Shifted(lgpecb[g + 1], e.lgpm)
      BY <1>2, <1>5, <1>6, <1>7, <2>1 DEF Estimates, Decodes16, Sends16
    <3>2. u.gains = Grown(t.gains, 1)
      BY <2>1
    <3>3. QED
      BY <1>1, <3>1, <3>2, AgreeMore DEF EncoderShape16, DecoderShape16
  <2>2. CASE x.clipped
    BY <2>2 DEF Agree, Low
  <2>3. QED
    BY <2>1, <2>2
<1>14. Agree(u.gains - 8, v.prevlg, r.e.prevlg)
  <2>1. CASE x.clipped
    BY <2>1 DEF Agree
  <2>2. CASE t.gains < 8
    BY <1>1, <2>2 DEF Agree, Grown, Low, Whole
  <2>3. CASE ~x.clipped /\ t.gains >= 8
    <3>1. Low(t.gains, 8) = 8
      BY <1>1, <2>3 DEF Low, Whole
    <3>2. d.lgpm = e.lgpm
      BY <1>1, <3>1, AgreeWhole DEF EncoderShape16, DecoderShape16
    <3>3. v.prevlg = <<LogGain(g, d.lgpm), d.prevlg[1]>> /\ r.e.prevlg = <<LogGain(g, e.lgpm), e.prevlg[1]>>
      BY <1>2, <1>5, <1>6, <1>7, <2>3 DEF Estimates, Decodes16, Sends16
    <3>4. v.prevlg[1] = r.e.prevlg[1]
      BY <3>2, <3>3
    <3>5. u.gains - 8 >= 2 => v.prevlg[2] = r.e.prevlg[2]
      <4>1. u.gains - 8 >= 2 => t.gains - 8 >= 1
        BY <1>1, <2>3 DEF Grown, Low, Whole
      <4>2. t.gains - 8 >= 1 => d.prevlg[1] = e.prevlg[1]
        BY <1>1 DEF Agree, Whole
      <4>3. QED
        BY <3>3, <4>1, <4>2
    <3>6. u.gains - 8 <= 2
      BY <1>11 DEF Whole
    <3>7. QED
      BY <1>11, <3>4, <3>5, <3>6 DEF Agree, Whole
  <2>4. QED
    BY <1>1, <1>6, <2>1, <2>2, <2>3 DEF Whole
<1>15. ASSUME u.clean PROVE Clean(r.e, v)
  <2>1. Clean(e, d)
    BY <1>1, <1>15
  <2>2. ~x.clipped
    BY <1>3, <1>6, <2>1 DEF Clean
  <2>3. /\ w.ngfae = 9 /\ w.nggalgc = 101 /\ w.cfecount = 0 /\ w.est = e.est /\ w.regular = TRUE
        /\ w.lgpm = Shifted(lgpecb[g + 1], e.lgpm)
        /\ w.prevlg = <<LogGain(g, e.lgpm), e.prevlg[1]>> /\ x.lg_el = LogGain(g, e.lgpm)
    BY <1>5, <1>6, <2>1, <2>2 DEF Clean, Decodes16, Least
  <2>4. Believed(w) = TRUE /\ Decays(w) = TRUE
    BY <2>3 DEF Believed, Decays, LGPORDER, Nfdm
  <2>5. v.est = EstimateLevel(e.est, LogGain(g, e.lgpm), TRUE, TRUE) /\ v.regular = TRUE
    BY <1>7, <2>3, <2>4 DEF Estimates
  <2>6. /\ v.lgpm = w.lgpm /\ v.prevlg = w.prevlg /\ v.ngfae = 9 /\ v.cfecount = 0
        /\ v.nggalgc = 101
    BY <1>7, <2>3 DEF Estimates
  <2>7. QED
    BY <1>2, <2>3, <2>5, <2>6 DEF Clean, Sends16
<1>16. TiedBV16(r.e, v, u)
  BY <1>2, <1>8, <1>9, <1>11, <1>12, <1>13, <1>14, <1>15 DEF TiedBV16
<1>17. QED
  BY <1>10, <1>16

\* After a mishap nothing is said but what was heard.
LEMMA BrokenIsTied16 ==
  ASSUME NEW e, NEW d, NEW t, EncoderShape16(e), DecoderShape16(d), t.words = 0, t.gains = 0,
         ~t.clean, Memory(t.heard, 8), HeardOf(d, t.heard)
  PROVE  TiedBV16(e, d, t)
  BY DEF TiedBV16, Agree, Low, Whole

\* A concealed frame: no minimum is believed.
LEMMA Concealed16 ==
  ASSUME NEW d, NEW lg \in PlayedGains(d), NEW heard, DecoderShape16(d), Memory(heard, 8)
  PROVE  LET v == BV16_PLC(d, lg)
         IN  /\ DecoderShape16(v) /\ HeardOf(v, Shift(FALSE, heard)) /\ Memory(Shift(FALSE, heard), 8)
             /\ ~(v.est.lmin < Least(d.est.lmin, d.est.lmean) - 1)
<1> DEFINE lge == Word16(((lg - (lgmean * 16384)) - (MovingAverage(0, d.lgpm) \div 2) + 8192) \div 16384)
           c == Least(d.cfecount + 1, HoldPLCG + AttnPLCG - 1)
           s == Shift(<<"concealed">>, d.lsppm)
           m == Shift(lge, d.lgpm)
           w == [d EXCEPT !.cfecount = c, !.ngfae = 0, !.lsppm = s, !.lgpm = m, !.prevlg = <<lg, d.prevlg[1]>>]
           v == BV16_PLC(d, lg)
<1>1. v = Estimating(w, lg)
  BY DEF BV16_PLC, DecoderShape16
<1>2. lg \in Int
  BY DEF PlayedGains, DecoderShape16, GainShape
<1>3. lge \in Int
  <2>1. MovingAverage(0, d.lgpm) \in Int
    BY MovingAverageIs DEF DecoderShape16
  <2>2. QED
    BY <1>2, <2>1 DEF Word16, Clamp, lgmean
<1>4. c \in Nat
  BY DEF DecoderShape16, Least, HoldPLCG, AttnPLCG
<1>5. s = Shifted(<<"concealed">>, d.lsppm) /\ m = Shifted(lge, d.lgpm)
  BY DEF Shift, Shifted
<1> HIDE DEF lge, c, s, m, v
<1>6. /\ DOMAIN w = DOMAIN d /\ w.cfecount = c /\ w.ngfae = 0 /\ w.lsppm = s /\ w.lgpm = m
      /\ w.prevlg = <<lg, d.prevlg[1]>> /\ w.nggalgc = d.nggalgc /\ w.est = d.est
      /\ w.regular = d.regular
  BY DEF DecoderShape16
<1> HIDE DEF w
<1>7. Memory(s, 8) /\ Memory(m, 8)
  BY <1>5, ShiftedMemory DEF DecoderShape16
<1>8. Numbers(m)
  <2>1. m[1] = lge /\ \A i \in 2..8 : m[i] = d.lgpm[i - 1]
    BY <1>5, ShiftedMemory DEF DecoderShape16
  <2>2. QED
    BY <1>3, <2>1 DEF DecoderShape16, Numbers
<1>9. DecoderShape16(w)
  BY <1>2, <1>4, <1>6, <1>7, <1>8 DEF DecoderShape16, GainShape
<1>10. Estimates(w, v, lg)
  BY <1>1, <1>2, <1>9, EstimatingIs
<1>11. ~Believed(w)
  BY <1>6 DEF Believed, LGPORDER
<1>12. DecoderShape16(v) /\ v.ngfae = 0 /\ ~(v.est.lmin < Least(d.est.lmin, d.est.lmean) - 1)
  BY <1>6, <1>10, <1>11 DEF Estimates
<1>13. Memory(Shift(FALSE, heard), 8)
  BY ShiftedMemory DEF Shift, Shifted
<1>14. HeardOf(v, Shift(FALSE, heard))
  BY <1>12 DEF HeardOf
<1>15. QED
  BY <1>12, <1>13, <1>14 DEF v

\* Both ends begin with nothing in their memories and nothing missed.
LEMMA Reset16 ==
  /\ EncoderShape16(Reset_BV16_Encoder) /\ DecoderShape16(Reset_BV16_Decoder)
  /\ HeardOf(Reset_BV16_Decoder, Untouched.heard) /\ Memory(Untouched.heard, 8)
  /\ Clean(Reset_BV16_Encoder, Reset_BV16_Decoder)
  /\ Reset_BV16_Decoder.lsppm = Reset_BV16_Encoder.lsppm
  /\ Reset_BV16_Decoder.est.lmin = MAX_32
<1> DEFINE e == Reset_BV16_Encoder
           d == Reset_BV16_Decoder
<1>1. /\ e.lsppm = [i \in 1..8 |-> <<"zero">>] /\ e.lgpm = [i \in 1..8 |-> 0]
      /\ e.prevlg = [i \in 1..2 |-> 0] /\ e.est = ResetLevel
  BY DEF Reset_BV16_Encoder, Zeros, LSPPORDER, LGPORDER
<1>2. /\ {"lsppm", "lgpm", "prevlg", "est", "lsplast", "pp_last", "cfecount", "ngfae", "nggalgc",
          "regular"} \subseteq DOMAIN d
      /\ d.lsppm = [i \in 1..8 |-> <<"zero">>] /\ d.lgpm = [i \in 1..8 |-> 0]
      /\ d.prevlg = [i \in 1..2 |-> 0] /\ d.est = ResetLevel /\ d.cfecount = 0 /\ d.ngfae = 9
      /\ d.nggalgc = 101 /\ d.regular = TRUE
  BY DEF Reset_BV16_Decoder, Zeros, LSPPORDER, LGPORDER, Nfdm
<1> HIDE DEF e, d
<1>3. Untouched.heard = [i \in 1..8 |-> TRUE]
  BY DEF Untouched, LGPORDER
<1>4. LevelOK(ResetLevel) /\ ResetLevel.lmin = MAX_32
  <2>1. LevelOK(ResetLevel)
    BY SMT DEF LevelOK, ResetLevel, MAX_32, MIN_32
  <2>2. QED
    BY <2>1 DEF ResetLevel
<1>5. ASSUME NEW p, p = [i \in 1..2 |-> 0] PROVE GainShape(p, ResetLevel) /\ p[1] = 0
  <2>1. p = <<0, 0>>
    BY <1>5
  <2>2. QED
    BY <1>4, <2>1 DEF GainShape
<1>6. EncoderShape16(e)
  BY <1>1, <1>5 DEF EncoderShape16, Memory, Errors, IsError
<1>7. DecoderShape16(d)
  <2>1. Memory(d.lsppm, 8) /\ Memory(d.lgpm, 8) /\ Numbers(d.lgpm)
    BY <1>2 DEF Memory, Numbers
  <2>2. GainShape(d.prevlg, d.est)
    BY <1>2, <1>5
  <2>3. d.cfecount \in Nat /\ d.ngfae \in 0..9 /\ d.nggalgc \in 0..101
    BY <1>2
  <2>4. d.regular \in BOOLEAN
    BY <1>2, Zenon
  <2>5. QED
    BY <1>2, <2>1, <2>2, <2>3, <2>4 DEF DecoderShape16
<1>8. HeardOf(d, Untouched.heard) /\ Memory(Untouched.heard, 8)
  BY <1>3 DEF HeardOf, Memory
<1>9. Clean(e, d) /\ d.lsppm = e.lsppm /\ d.est.lmin = MAX_32
  BY <1>1, <1>2, <1>4 DEF Clean
<1>10. QED
  BY <1>6, <1>7, <1>8, <1>9 DEF e, d
-----------------------------------------------------------------------------
(***************************************************************************)
(* The link.  Its inductive invariant ties the two ends as far as the tie  *)
(* says, and the counters of the detector to what it counts.               *)
(***************************************************************************)
TieShape(t) == {"words", "gains", "tuned", "clean", "heard", "missed", "noisy"} \subseteq DOMAIN t
Talks(e, t) ==
  /\ e.VADChannel = <<e.VADChannel[1]>> /\ VadContext(e.VADChannel[1])
  /\ TalkFollows(t, e.VADChannel[1]) /\ t.noisy \in 0..Whole
LinkOK ==
  /\ link.codec \in Codec /\ link.sound \in DOMAIN Sounds[link.codec]
  /\ link.VAD = Sounds[link.codec][link.sound].VAD /\ frames \in Nat
Tied ==
  /\ LinkOK /\ TieShape(tie)
  /\ link.codec = "G729" => TiedG729(enc, dec, tie) /\ (link.VAD => Talks(enc, tie))
  /\ link.codec = "BV16" => TiedBV16(enc, dec, tie)

\* Both ends of G.729 begin with nothing in their memories and nothing missed.
LEMMA Begins729 ==
  ASSUME NEW vad \in BOOLEAN
  PROVE  LET e == initBcg729EncoderChannel(vad)
         IN  /\ EncoderShape(e) /\ DecoderShape(initBcg729DecoderChannel)
             /\ \A t : t.words = Whole /\ t.gains = Whole => TiedG729(e, initBcg729DecoderChannel, t)
             /\ vad => \A t : t.missed = 0 /\ t.noisy = 0 => Talks(e, t)
<1> DEFINE e == initBcg729EncoderChannel(vad)
           d == initBcg729DecoderChannel
<1>1. /\ {"VADChannel", "DTX", "previousqLSF", "previousqLSP", "previousGainPredictionError",
          "lastQuantizedAdaptativeCodebookGain"} \subseteq DOMAIN e
      /\ e.DTX = initBcg729DTXChannel /\ e.previousqLSF = Init4 /\ e.previousqLSP = NoLSF
      /\ e.previousGainPredictionError = Init4 /\ (vad => e.VADChannel = <<initBcg729VADChannel>>)
  BY DEF initBcg729EncoderChannel
<1>2. /\ {"previousLCodeWord", "lastqLSF", "previousqLSP", "previousGainPredictionError",
          "adaptativeCodebookGain", "boundedAdaptativeCodebookGain", "previousIntPitchDelay",
          "previousFrameIsActiveFlag", "CNGpseudoRandomSeed", "CNG"} \subseteq DOMAIN d
      /\ {"qLSP", "receivedSIDGain", "smoothedSIDGain"} \subseteq DOMAIN d.CNG
      /\ d.previousLCodeWord = Init4 /\ d.previousqLSP = NoLSF
      /\ d.previousGainPredictionError = Init4
      /\ d.previousFrameIsActiveFlag = 1 /\ d.CNGpseudoRandomSeed = 0
  BY DEF initBcg729DecoderChannel
<1>3. LET x == initBcg729DTXChannel
      IN  /\ {"previousVADflag", "count_fr", "pseudoRandomSeed", "qLSP", "currentSIDGain",
              "smoothedSIDGain"} \subseteq DOMAIN x
          /\ x.previousVADflag = 1 /\ x.pseudoRandomSeed = 0
  BY DEF initBcg729DTXChannel
<1>4. Memory(Init4, 4)
  BY DEF Init4, Memory
<1> HIDE DEF e, d
<1>5. EncoderShape(e)
  BY <1>1, <1>3, <1>4 DEF EncoderShape
<1>6. DecoderShape(d)
  BY <1>2, <1>4 DEF DecoderShape
<1>7. ASSUME NEW t, t.words = Whole, t.gains = Whole PROVE TiedG729(e, d, t)
  <2>1. InTune(e, d)
    BY <1>1, <1>2, <1>3 DEF InTune
  <2>2. SameFilter(d.previousqLSP, e.previousqLSP)
    BY <1>1, <1>2 DEF SameFilter
  <2>3. QED
    BY <1>1, <1>2, <1>3, <1>5, <1>6, <1>7, <2>1, <2>2 DEF TiedG729, Agree, Whole
<1>8. ASSUME vad, NEW t, t.missed = 0, t.noisy = 0 PROVE Talks(e, t)
  <2> DEFINE v == initBcg729VADChannel
  <2>1. /\ {"frameCount", "SVDm1", "Count_inert", "noiseContinuityCounter"} \subseteq DOMAIN v
        /\ v.frameCount = 0 /\ v.Count_inert = 0 /\ v.noiseContinuityCounter = 0
    BY DEF initBcg729VADChannel
  <2> HIDE DEF v
  <2>2. e.VADChannel = <<v>>
    BY <1>1, <1>8 DEF v
  <2>3. VadContext(v)
    BY <2>1 DEF VadContext
  <2>4. TalkFollows(t, v)
    BY <1>8, <2>1, VadAssumption DEF TalkFollows
  <2>5. QED
    BY <1>8, <2>2, <2>3, <2>4 DEF Talks, Whole
<1>9. QED
  BY <1>5, <1>6, <1>7, <1>8 DEF e, d

\* What the analysis finds of the next frame.
LEMMA FoundIs ==
  ASSUME LinkOK, frames < Len(Sound)
  PROVE  /\ link.codec = "G729" => Found \in G729Findings
         /\ link.codec = "BV16" => Found \in BV16Findings /\ ~link.VAD
<1>1. link.codec = "G729" => Sound \in Seq(G729Findings)
  BY LinkAssumption DEF LinkOK, Sound
<1>2. link.codec = "BV16" => Sound \in Seq(BV16Findings) /\ ~link.VAD
  BY LinkAssumption DEF LinkOK, Sound
<1>3. ASSUME NEW S, Sound \in Seq(S) PROVE Found \in S
  <2>1. Len(Sound) \in Nat /\ \A i \in 1..Len(Sound) : Sound[i] \in S
    BY <1>3, ElementOfSeq, LenProperties
  <2>2. frames + 1 \in 1..Len(Sound)
    BY <2>1 DEF LinkOK
  <2>3. QED
    BY <2>1, <2>2 DEF Found
<1>4. QED
  BY <1>1, <1>2, <1>3

\* What the detector made of a frame changes two of the counts,
LEMMA JudgedIs ==
  ASSUME NEW t, NEW kind, TieShape(t)
  PROVE  LET u == Judged(t, kind)
         IN  /\ TieShape(u) /\ u.words = t.words /\ u.gains = t.gains /\ u.tuned = t.tuned
             /\ u.clean = t.clean /\ u.heard = t.heard
<1> DEFINE voice == bcg729_vad(enc.VADChannel[1], Found.heard).boundary = VOICE
           m == IF voice /\ kind # "speech" THEN t.missed + 1 ELSE 0
           n == CASE ~voice -> Grown(t.noisy, 1)
                  [] voice /\ kind = "speech" -> 0
                  [] OTHER -> t.noisy
           u == Judged(t, kind)
<1>1. u = IF ~link.VAD THEN t ELSE [t EXCEPT !.missed = m, !.noisy = n]
  BY DEF Judged, TieShape
<1> HIDE DEF m, n
<1>2. CASE ~link.VAD
  BY <1>1, <1>2
<1>3. CASE link.VAD
  <2>1. u = [t EXCEPT !.missed = m, !.noisy = n]
    BY <1>1, <1>3
  <2> HIDE DEF u
  <2>2. TieShape(u) /\ u.words = t.words /\ u.gains = t.gains /\ u.tuned = t.tuned
        /\ u.clean = t.clean /\ u.heard = t.heard
    BY <2>1 DEF TieShape
  <2>3. QED
    BY <2>2 DEF u
<1>4. QED
  BY <1>2, <1>3

\* so that they follow its counters.
LEMMA TalkJudged ==
  ASSUME NEW t, NEW r, TieShape(t), link.VAD, Talks(enc, t), Decides(enc, Found, r)
  PROVE  Talks(r.e, Judged(t, r.packet.kind))
<1> DEFINE v == enc.VADChannel[1]
           d == bcg729_vad(v, Found.heard)
           kind == r.packet.kind
           m == IF d.boundary = VOICE /\ kind # "speech" THEN t.missed + 1 ELSE 0
           n == CASE d.boundary # VOICE -> Grown(t.noisy, 1)
                  [] d.boundary = VOICE /\ kind = "speech" -> 0
                  [] OTHER -> t.noisy
           u == Judged(t, kind)
<1>1. Detects(v, d)
  BY VadDetects DEF Talks
<1>2. r.e.VADChannel = <<d.v>> /\ (kind = "speech" <=> d.Ivd # NOISE)
  BY DEF Decides
<1>3. u = [t EXCEPT !.missed = m, !.noisy = n]
  BY DEF Judged, TieShape
<1>4. VadContext(v) /\ TalkFollows(t, v) /\ t.noisy \in 0..Whole
  BY DEF Talks
<1> HIDE DEF d, v, kind
<1>5. d.boundary \in {VOICE, NOISE} /\ d.Ivd \in {VOICE, NOISE} /\ VadContext(d.v)
  BY <1>1 DEF Detects
<1>6. n = IF d.boundary = NOISE THEN Grown(t.noisy, 1) ELSE IF d.Ivd = VOICE THEN 0 ELSE t.noisy
  BY <1>2, <1>5 DEF VOICE, NOISE
<1>7. m = IF d.boundary = VOICE /\ d.Ivd = NOISE THEN t.missed + 1 ELSE 0
  BY <1>2, <1>5 DEF VOICE, NOISE
<1> HIDE DEF m, n, u
<1>8. u.missed = m /\ u.noisy = n
  BY <1>3 DEF TieShape
<1>9. TalkFollows(u, d.v)
  BY <1>1, <1>4, <1>6, <1>7, <1>8, TalkGoesOn
<1>10. u.noisy \in 0..Whole
  BY <1>4, <1>6, <1>8 DEF Grown, Low, Whole
<1>11. Talks(r.e, u)
  BY <1>2, <1>5, <1>9, <1>10 DEF Talks
<1>12. QED
  BY <1>11 DEF u, kind

\* Only the counts named here are looked at by the ties.
LEMMA SameTie ==
  ASSUME NEW e, NEW d, NEW t, NEW u, u.words = t.words, u.gains = t.gains, u.tuned = t.tuned
  PROVE  TiedG729(e, d, t) => TiedG729(e, d, u)
  BY DEF TiedG729

\* The frame that is encoded next is one of the three, by the detector's decision.
LEMMA Encodes729 ==
  ASSUME Tied, Sending("G729")
  PROVE  LET r == bcg729Encoder(enc, Found)
         IN  /\ EncoderShape(r.e) /\ Found \in G729Findings
             /\ link.VAD => Decides(enc, Found, r)
             /\ \/ r.packet.kind = "speech" /\ SendsSpeech(enc, Found, r)
                \/ r.packet.kind = "SID" /\ SendsDescriptor(enc, Found, r)
                \/ r.packet.kind = "untransmitted" /\ SendsNothing(enc, Found, r)
<1> DEFINE r == bcg729Encoder(enc, Found)
<1>1. TiedG729(enc, dec, tie) /\ LinkOK /\ link.codec = "G729" /\ frames < Len(Sound)
  BY DEF Tied, Sending
<1>2. EncoderShape(enc) /\ Found \in G729Findings
  BY <1>1, FoundIs DEF TiedG729
<1>3. link.VAD => enc.VADChannel # <<>>
  <2>1. link.VAD => enc.VADChannel = <<enc.VADChannel[1]>>
    BY <1>1 DEF Tied, Talks
  <2>2. \A x : <<x>> # <<>>
    OBVIOUS
  <2>3. QED
    BY <2>1, <2>2
<1>4. /\ EncoderShape(r.e) /\ (enc.VADChannel # <<>> => Decides(enc, Found, r))
      /\ SendsSpeech(enc, Found, r) \/ SendsDescriptor(enc, Found, r) \/ SendsNothing(enc, Found, r)
  BY <1>2, EncoderIs
<1> HIDE DEF r
<1>5. /\ SendsSpeech(enc, Found, r) => r.packet.kind = "speech"
      /\ SendsDescriptor(enc, Found, r) => r.packet.kind = "SID"
      /\ SendsNothing(enc, Found, r) => r.packet.kind = "untransmitted"
  BY DEF SendsSpeech, SendsDescriptor, SendsNothing
<1>6. QED
  BY <1>2, <1>3, <1>4, <1>5 DEF r

\* A frame that arrives,
LEMMA G729ReceivedKeeps ==
  ASSUME Tied, G729Received
  PROVE  Tied'
<1> DEFINE r == bcg729Encoder(enc, Found)
           t == IF r.packet.kind = "speech"
                THEN [tie EXCEPT !.words = Grown(@, 1), !.gains = Grown(@, 2), !.tuned = TRUE]
                ELSE [tie EXCEPT !.words = IF Found.sid[3] \in Descriptive THEN Grown(@, 1) ELSE 0]
<1>1. /\ r.packet.kind # "untransmitted" /\ enc' = r.e /\ dec' = bcg729Decoder(dec, r.packet)
      /\ tie' = Judged(t, r.packet.kind) /\ frames' = frames + 1 /\ link' = link /\ Sending("G729")
  BY DEF G729Received, Encodes
<1>2. TiedG729(enc, dec, tie) /\ TieShape(tie) /\ LinkOK /\ link.codec = "G729"
      /\ (link.VAD => Talks(enc, tie))
  BY <1>1 DEF Tied, Sending
<1>3. /\ EncoderShape(r.e) /\ Found \in G729Findings /\ (link.VAD => Decides(enc, Found, r))
      /\ \/ r.packet.kind = "speech" /\ SendsSpeech(enc, Found, r)
         \/ r.packet.kind = "SID" /\ SendsDescriptor(enc, Found, r)
  BY <1>1, Encodes729
<1> HIDE DEF r
<1>4. TieShape(t) /\ t.missed = tie.missed /\ t.noisy = tie.noisy
  <2>1. CASE r.packet.kind = "speech"
    BY <1>2, <2>1 DEF TieShape
  <2>2. CASE r.packet.kind # "speech"
    BY <1>2, <2>2 DEF TieShape
  <2>3. QED
    BY <2>1, <2>2
<1>5. TiedG729(r.e, bcg729Decoder(dec, r.packet), t)
  <2>1. CASE r.packet.kind = "speech" /\ SendsSpeech(enc, Found, r)
    <3>1. t.words = Grown(tie.words, 1) /\ t.gains = Grown(tie.gains, 2) /\ t.tuned = TRUE
      BY <1>2, <2>1 DEF TieShape
    <3> HIDE DEF t
    <3>2. QED
      BY <1>2, <1>3, <2>1, <3>1, SpeechTies
  <2>2. CASE r.packet.kind = "SID" /\ SendsDescriptor(enc, Found, r)
    <3>1. /\ t.words = IF Found.sid[3] \in Descriptive THEN Grown(tie.words, 1) ELSE 0
          /\ t.gains = tie.gains /\ t.tuned = tie.tuned
      BY <1>2, <2>2 DEF TieShape
    <3> HIDE DEF t
    <3>2. QED
      BY <1>2, <1>3, <2>2, <3>1, DescriptorTies
  <2>3. QED
    BY <1>3, <2>1, <2>2
<1> HIDE DEF t
<1>6. /\ TieShape(tie') /\ tie'.words = t.words /\ tie'.gains = t.gains /\ tie'.tuned = t.tuned
  BY <1>1, <1>4, JudgedIs
<1>7. TiedG729(enc', dec', tie')
  BY <1>1, <1>5, <1>6, SameTie
<1>8. link.VAD => Talks(enc', tie')
  <2>1. ASSUME link.VAD PROVE Talks(enc, t)
    BY <1>2, <1>4, <2>1 DEF Talks, TalkFollows
  <2>2. QED
    BY <1>1, <1>3, <1>4, <2>1, TalkJudged
<1>9. QED
  BY <1>1, <1>2, <1>6, <1>7, <1>8 DEF Tied, LinkOK

\* one that is missed,
LEMMA MissedKeeps ==
  ASSUME Tied, Sending("G729"),
         LET r == bcg729Encoder(enc, Found)
         IN  enc' = r.e /\ tie' = Judged(Broken(tie), r.packet.kind),
         DecoderShape(dec'), frames' = frames + 1, link' = link
  PROVE  Tied'
<1> DEFINE r == bcg729Encoder(enc, Found)
           t == Broken(tie)
<1>1. enc' = r.e /\ tie' = Judged(t, r.packet.kind)
  OBVIOUS
<1>2. TieShape(tie) /\ LinkOK /\ link.codec = "G729" /\ (link.VAD => Talks(enc, tie))
  BY DEF Tied, Sending
<1>3. EncoderShape(r.e) /\ (link.VAD => Decides(enc, Found, r))
  BY Encodes729
<1> HIDE DEF r
<1>4. /\ TieShape(t) /\ t.missed = tie.missed /\ t.noisy = tie.noisy
      /\ t.words = 0 /\ t.gains = 0 /\ t.tuned = FALSE
  BY <1>2 DEF TieShape, Broken
<1> HIDE DEF t
<1>5. /\ TieShape(tie') /\ tie'.words = 0 /\ tie'.gains = 0 /\ ~tie'.tuned
  BY <1>1, <1>4, JudgedIs
<1>6. TiedG729(enc', dec', tie')
  BY <1>1, <1>3, <1>5, BrokenIsTied
<1>7. link.VAD => Talks(enc', tie')
  <2>1. ASSUME link.VAD PROVE Talks(enc, t)
    BY <1>2, <1>4, <2>1 DEF Talks, TalkFollows
  <2>2. QED
    BY <1>1, <1>3, <1>4, <2>1, TalkJudged
<1>8. QED
  BY <1>2, <1>5, <1>6, <1>7 DEF Tied, LinkOK

\* be it lost on the way,
LEMMA G729LostKeeps ==
  ASSUME Tied, G729Lost
  PROVE  Tied'
<1> DEFINE r == bcg729Encoder(enc, Found)
<1>1. /\ enc' = r.e /\ frames' = frames + 1 /\ link' = link /\ Sending("G729")
      /\ tie' = Judged(Broken(tie), r.packet.kind)
      /\ dec' = IF link.library /\ codec_open["receiver"] > 0
                THEN bcg729Decoder(dec, [kind |-> "erased"]) ELSE dec
  BY DEF G729Lost, Encodes
<1>2. DecoderShape(dec)
  BY <1>1 DEF Tied, Sending, TiedG729
<1>3. DecoderShape(dec')
  <2>1. DecoderShape(bcg729Decoder(dec, [kind |-> "erased"]))
    BY <1>2, DecoderKeepsShape
  <2>2. QED
    BY <1>1, <1>2, <2>1
<1>4. QED
  BY <1>1, <1>3, MissedKeeps

\* and one that the DTX withholds.
LEMMA G729WithheldKeeps ==
  ASSUME Tied, G729Withheld
  PROVE  Tied'
<1> DEFINE r == bcg729Encoder(enc, Found)
           told == codec_open["receiver"] > 0 /\ dec.previousFrameIsActiveFlag = 0
<1>1. /\ r.packet.kind = "untransmitted" /\ enc' = r.e /\ frames' = frames + 1 /\ link' = link
      /\ Sending("G729")
      /\ dec' = IF codec_open["receiver"] > 0 THEN bcg729Decoder(dec, r.packet) ELSE dec
      /\ tie' = Judged(IF told THEN tie ELSE Broken(tie), r.packet.kind)
  BY DEF G729Withheld, Encodes
<1>2. TiedG729(enc, dec, tie) /\ TieShape(tie) /\ LinkOK /\ link.codec = "G729"
      /\ (link.VAD => Talks(enc, tie))
  BY <1>1 DEF Tied, Sending
<1>3. EncoderShape(r.e) /\ (link.VAD => Decides(enc, Found, r)) /\ SendsNothing(enc, Found, r)
  BY <1>1, Encodes729
<1>4. CASE told
  <2>1. dec' = bcg729Decoder(dec, r.packet) /\ tie' = Judged(tie, r.packet.kind)
    BY <1>1, <1>4
  <2> HIDE DEF r
  <2>2. TiedG729(r.e, bcg729Decoder(dec, r.packet), tie)
    BY <1>2, <1>3, <1>4, NothingTies
  <2>3. /\ TieShape(tie') /\ tie'.words = tie.words /\ tie'.gains = tie.gains /\ tie'.tuned = tie.tuned
    BY <1>2, <2>1, JudgedIs
  <2>4. TiedG729(enc', dec', tie')
    BY <1>1, <2>1, <2>2, <2>3, SameTie
  <2>5. link.VAD => Talks(enc', tie')
    BY <1>1, <1>2, <1>3, <2>1, TalkJudged
  <2>6. QED
    BY <1>1, <1>2, <2>3, <2>4, <2>5 DEF Tied, LinkOK
<1>5. CASE ~told
  <2>1. tie' = Judged(Broken(tie), r.packet.kind)
    BY <1>1, <1>5
  <2>2. DecoderShape(dec')
    <3>1. DecoderShape(dec)
      BY <1>2 DEF TiedG729
    <3>2. DecoderShape(bcg729Decoder(dec, r.packet))
      BY <3>1, DecoderKeepsShape
    <3>3. QED
      BY <1>1, <3>1, <3>2
  <2>3. QED
    BY <1>1, <2>1, <2>2, MissedKeeps
<1>6. QED
  BY <1>4, <1>5

\* What the decoder of BV16 takes for a new minimum.
LEMMA BV16ReceivedKeeps ==
  ASSUME Tied, BV16Received
  PROVE  Tied' /\ FollowsCleanGain
<1> DEFINE r == BV16_Encode(enc, Found)
           clipped == gaindec(dec, BV16_BitUnPack(r.packet.bits).gidx).clipped
<1>1. PICK ordered \in Orders(dec, r.packet) :
        /\ enc' = r.e /\ dec' = BV16_Decode(dec, r.packet, ordered)
        /\ tie' = [tie EXCEPT
                     !.words = IF ordered THEN Grown(@, 1) ELSE 0,
                     !.gains = IF clipped THEN 0 ELSE Grown(@, 1),
                     !.heard = Shift(~clipped, @)]
  BY DEF BV16Received, Encodes
<1>2. frames' = frames + 1 /\ link' = link /\ Sending("BV16")
  BY DEF BV16Received, Encodes
<1>3. TiedBV16(enc, dec, tie) /\ TieShape(tie) /\ LinkOK /\ link.codec = "BV16" /\ frames < Len(Sound)
  BY <1>2 DEF Tied, Sending
<1>4. Found \in BV16Findings
  BY <1>3, FoundIs
<1>5. ordered \in BOOLEAN
  <2>1. Found.ordered \in BOOLEAN
    BY <1>4 DEF BV16Findings
  <2>2. r.packet.ordered = Found.ordered
    BY DEF BV16_Encode
  <2>3. QED
    BY <1>1, <2>1, <2>2 DEF Orders
<1>6. /\ TieShape(tie') /\ tie'.words = (IF ordered THEN Grown(tie.words, 1) ELSE 0)
      /\ tie'.gains = (IF clipped THEN 0 ELSE Grown(tie.gains, 1))
      /\ tie'.heard = Shift(~clipped, tie.heard) /\ tie'.clean = tie.clean
  <2> HIDE DEF clipped
  <2>1. QED
    BY <1>1, <1>3 DEF TieShape
<1>7. /\ TiedBV16(r.e, BV16_Decode(dec, r.packet, ordered), tie')
      /\ BV16_Decode(dec, r.packet, ordered).est.lmin < Least(dec.est.lmin, dec.est.lmean) - 1 =>
           (\A i \in 1..8 : tie.heard[i]) /\ tie'.heard[1]
  BY <1>3, <1>4, <1>5, <1>6, Frame16Ties
<1> HIDE DEF r
<1>8. TiedBV16(enc', dec', tie')
  BY <1>1, <1>7
<1>9. FollowsCleanGain
  BY <1>1, <1>7 DEF FollowsCleanGain, LGPORDER
<1>10. Tied'
  BY <1>2, <1>3, <1>6, <1>8 DEF Tied, LinkOK
<1>11. QED
  BY <1>9, <1>10

\* A state of the decoder that stays has no new minimum.
LEMMA SameLevelFollows ==
  ASSUME Tied, dec'.est = dec.est
  PROVE  FollowsCleanGain
<1>1. CASE link.codec = "BV16"
  <2>1. LevelOK(dec.est)
    BY <1>1 DEF Tied, TiedBV16, DecoderShape16, GainShape
  <2>2. ~(dec'.est.lmin < Least(dec.est.lmin, dec.est.lmean) - 1)
    BY <2>1 DEF LevelOK, Least
  <2>3. QED
    BY <2>2 DEF FollowsCleanGain
<1>2. QED
  BY <1>1 DEF FollowsCleanGain

\* A frame of BV16 that is lost.
LEMMA BV16LostKeeps ==
  ASSUME Tied, BV16Lost
  PROVE  Tied' /\ FollowsCleanGain
<1> DEFINE r == BV16_Encode(enc, Found)
<1>1. enc' = r.e /\ frames' = frames + 1 /\ link' = link /\ Sending("BV16")
  BY DEF BV16Lost, Encodes
<1>2. TiedBV16(enc, dec, tie) /\ TieShape(tie) /\ LinkOK /\ link.codec = "BV16" /\ frames < Len(Sound)
  BY <1>1 DEF Tied, Sending
<1>3. EncoderShape16(enc) /\ DecoderShape16(dec) /\ Memory(tie.heard, 8) /\ HeardOf(dec, tie.heard)
  BY <1>2 DEF TiedBV16
<1>4. EncoderShape16(enc')
  BY <1>1, <1>2, <1>3, FoundIs, Encoder16Is
<1>5. CASE link.library /\ codec_open["receiver"] > 0
  <2>1. PICK lg \in PlayedGains(dec) : dec' = BV16_PLC(dec, lg)
    BY <1>5 DEF BV16Lost
  <2>2. tie' = [Broken(tie) EXCEPT !.heard = Shift(FALSE, @)]
    BY <1>5 DEF BV16Lost
  <2>3. /\ TieShape(tie') /\ tie'.words = 0 /\ tie'.gains = 0 /\ tie'.clean = FALSE
        /\ tie'.heard = Shift(FALSE, tie.heard)
    BY <1>2, <2>2 DEF TieShape, Broken
  <2>4. DecoderShape16(dec') /\ HeardOf(dec', tie'.heard) /\ Memory(tie'.heard, 8)
        /\ ~(dec'.est.lmin < Least(dec.est.lmin, dec.est.lmean) - 1)
    BY <1>3, <2>1, <2>3, Concealed16
  <2>5. TiedBV16(enc', dec', tie')
    BY <1>4, <2>3, <2>4, BrokenIsTied16
  <2>6. FollowsCleanGain
    BY <2>4 DEF FollowsCleanGain
  <2>7. Tied'
    BY <1>1, <1>2, <2>3, <2>5 DEF Tied, LinkOK
  <2>8. QED
    BY <2>6, <2>7
<1>6. CASE ~(link.library /\ codec_open["receiver"] > 0)
  <2>1. dec' = dec /\ tie' = Broken(tie)
    BY <1>6 DEF BV16Lost
  <2>2. /\ TieShape(tie') /\ tie'.words = 0 /\ tie'.gains = 0 /\ tie'.clean = FALSE
        /\ tie'.heard = tie.heard
    BY <1>2, <2>1 DEF TieShape, Broken
  <2>3. TiedBV16(enc', dec', tie')
    BY <1>3, <1>4, <2>1, <2>2, BrokenIsTied16
  <2>4. FollowsCleanGain
    BY <2>1, SameLevelFollows
  <2>5. QED
    BY <1>1, <1>2, <2>2, <2>3, <2>4 DEF Tied, LinkOK
<1>7. QED
  BY <1>5, <1>6

\* The ends as they begin are tied by a tie that says nothing was missed, or
\* nothing at all.
LEMMA Begins ==
  ASSUME LinkOK, NEW t, TieShape(t), t.heard = Untouched.heard
  PROVE  LET e == EncoderInit(link.codec, link.VAD)
             d == DecoderInit(link.codec)
         IN  /\ link.codec = "G729" =>
                  /\ EncoderShape(e) /\ DecoderShape(d)
                  /\ t.words = Whole /\ t.gains = Whole => TiedG729(e, d, t)
                  /\ link.VAD /\ t.missed = 0 /\ t.noisy = 0 => Talks(e, t)
             /\ link.codec = "BV16" =>
                  /\ EncoderShape16(e) /\ DecoderShape16(d) /\ d.est.lmin = MAX_32
                  /\ HeardOf(d, t.heard) /\ Memory(t.heard, 8)
                  /\ t.words = Whole /\ t.gains = Whole => TiedBV16(e, d, t)
<1> DEFINE e == EncoderInit(link.codec, link.VAD)
           d == DecoderInit(link.codec)
<1>1. CASE link.codec = "G729"
  <2>1. link.VAD \in BOOLEAN
    BY <1>1, LinkAssumption DEF LinkOK
  <2>2. e = initBcg729EncoderChannel(link.VAD) /\ d = initBcg729DecoderChannel
    BY <1>1 DEF EncoderInit, DecoderInit
  <2>3. QED
    BY <1>1, <2>1, <2>2, Begins729
<1>2. CASE link.codec = "BV16"
  <2>1. e = Reset_BV16_Encoder /\ d = Reset_BV16_Decoder
    BY <1>2 DEF EncoderInit, DecoderInit
  <2> HIDE DEF e, d
  <2>2. /\ EncoderShape16(e) /\ DecoderShape16(d) /\ HeardOf(d, t.heard) /\ Memory(t.heard, 8)
        /\ Clean(e, d) /\ d.lsppm = e.lsppm /\ d.est.lmin = MAX_32
    BY <2>1, Reset16
  <2>3. ASSUME t.words = Whole, t.gains = Whole PROVE TiedBV16(e, d, t)
    <3>1. d.lgpm = e.lgpm /\ d.prevlg = e.prevlg
      BY <2>2 DEF Clean
    <3>2. QED
      BY <2>2, <2>3, <3>1 DEF TiedBV16, Agree, Whole
  <2>4. QED
    BY <1>2, <2>2, <2>3 DEF e, d
<1>3. QED
  BY <1>1, <1>2 DEF LinkOK, Codec

\* The sender's codec is opened, perhaps again.
LEMMA OpenSenderKeeps ==
  ASSUME Tied, OpenSender
  PROVE  Tied' /\ FollowsCleanGain
<1>1. link' = link /\ dec' = dec /\ frames' = frames
  BY DEF OpenSender
<1>2. FollowsCleanGain
  BY <1>1, SameLevelFollows
<1>3. CASE enc' = enc /\ tie' = tie
  BY <1>1, <1>2, <1>3 DEF Tied, LinkOK
<1>4. CASE /\ enc' = EncoderInit(link.codec, link.VAD)
           /\ tie' = [Broken(tie) EXCEPT !.missed = 0, !.noisy = 0]
  <2>1. LinkOK /\ TieShape(tie)
    BY DEF Tied
  <2>2. /\ TieShape(tie') /\ tie'.words = 0 /\ tie'.gains = 0 /\ ~tie'.tuned /\ ~tie'.clean
        /\ tie'.heard = tie.heard /\ tie'.missed = 0 /\ tie'.noisy = 0
    BY <1>4, <2>1 DEF TieShape, Broken
  <2>3. CASE link.codec = "G729"
    <3> DEFINE u == [tie' EXCEPT !.heard = Untouched.heard]
    <3>1. TieShape(u) /\ u.heard = Untouched.heard /\ u.missed = 0 /\ u.noisy = 0
      BY <2>2 DEF TieShape
    <3>2. EncoderShape(enc') /\ (link.VAD => Talks(enc', u))
      BY <1>4, <2>1, <2>3, <3>1, Begins
    <3>3. link.VAD => Talks(enc', tie')
      BY <2>2, <3>1, <3>2 DEF Talks, TalkFollows
    <3>4. DecoderShape(dec')
      BY <1>1, <2>3 DEF Tied, TiedG729
    <3>5. TiedG729(enc', dec', tie')
      BY <2>2, <3>2, <3>4, BrokenIsTied
    <3>6. Tied'
      BY <1>1, <2>1, <2>2, <2>3, <3>3, <3>5 DEF Tied, LinkOK
    <3>7. QED
      BY <1>2, <3>6
  <2>4. CASE link.codec = "BV16"
    <3> DEFINE u == [tie' EXCEPT !.heard = Untouched.heard]
    <3>1. TieShape(u) /\ u.heard = Untouched.heard
      BY <2>2 DEF TieShape
    <3>2. EncoderShape16(enc')
      BY <1>4, <2>1, <2>4, <3>1, Begins
    <3>3. DecoderShape16(dec') /\ Memory(tie'.heard, 8) /\ HeardOf(dec', tie'.heard)
      BY <1>1, <2>2, <2>4 DEF Tied, TiedBV16
    <3>4. TiedBV16(enc', dec', tie')
      BY <2>2, <3>2, <3>3, BrokenIsTied16
    <3>5. Tied'
      BY <1>1, <2>1, <2>2, <2>4, <3>4 DEF Tied, LinkOK
    <3>6. QED
      BY <1>2, <3>5
  <2>5. QED
    BY <2>1, <2>3, <2>4 DEF LinkOK, Codec
<1>5. QED
  BY <1>3, <1>4 DEF OpenSender

\* So is the receiver's.
LEMMA OpenReceiverKeeps ==
  ASSUME Tied, OpenReceiver
  PROVE  Tied' /\ FollowsCleanGain
<1>1. link' = link /\ enc' = enc /\ frames' = frames
  BY DEF OpenReceiver
<1>2. CASE dec' = dec /\ tie' = tie
  <2>1. FollowsCleanGain
    BY <1>2, SameLevelFollows
  <2>2. Tied'
    BY <1>1, <1>2 DEF Tied, LinkOK
  <2>3. QED
    BY <2>1, <2>2
<1>3. CASE /\ dec' = DecoderInit(link.codec)
           /\ tie' = [Broken(tie) EXCEPT !.heard = Untouched.heard]
  <2>1. LinkOK /\ TieShape(tie)
    BY DEF Tied
  <2>2. /\ TieShape(tie') /\ tie'.words = 0 /\ tie'.gains = 0 /\ ~tie'.tuned /\ ~tie'.clean
        /\ tie'.heard = Untouched.heard /\ tie'.missed = tie.missed /\ tie'.noisy = tie.noisy
    BY <1>3, <2>1 DEF TieShape, Broken
  <2>3. CASE link.codec = "G729"
    <3>1. DecoderShape(dec')
      BY <1>3, <2>1, <2>2, <2>3, Begins
    <3>2. EncoderShape(enc') /\ (link.VAD => Talks(enc', tie))
      BY <1>1, <2>3 DEF Tied, TiedG729
    <3>3. link.VAD => Talks(enc', tie')
      BY <2>2, <3>2 DEF Talks, TalkFollows
    <3>4. TiedG729(enc', dec', tie')
      BY <2>2, <3>1, <3>2, BrokenIsTied
    <3>5. Tied'
      BY <1>1, <2>1, <2>2, <2>3, <3>3, <3>4 DEF Tied, LinkOK
    <3>6. QED
      BY <2>3, <3>5 DEF FollowsCleanGain
  <2>4. CASE link.codec = "BV16"
    <3>1. /\ DecoderShape16(dec') /\ dec'.est.lmin = MAX_32
          /\ Memory(tie'.heard, 8) /\ HeardOf(dec', tie'.heard)
      BY <1>3, <2>1, <2>2, <2>4, Begins
    <3>2. EncoderShape16(enc')
      BY <1>1, <2>4 DEF Tied, TiedBV16
    <3>3. TiedBV16(enc', dec', tie')
      BY <2>2, <3>1, <3>2, BrokenIsTied16
    <3>4. Tied'
      BY <1>1, <2>1, <2>2, <2>4, <3>3 DEF Tied, LinkOK
    <3>5. FollowsCleanGain
      <4>1. LevelOK(dec.est)
        BY <2>4 DEF Tied, TiedBV16, DecoderShape16, GainShape
      <4>2. MAX_32 \in Int
        BY DEF MAX_32
      <4>3. ~(MAX_32 < Least(dec.est.lmin, dec.est.lmean) - 1)
        BY <4>1, <4>2 DEF LevelOK, Least
      <4>4. QED
        BY <3>1, <4>3 DEF FollowsCleanGain
    <3>6. QED
      BY <3>4, <3>5
  <2>5. QED
    BY <2>1, <2>3, <2>4 DEF LinkOK, Codec
<1>4. QED
  BY <1>2, <1>3 DEF OpenReceiver

\* close() and a stutter leave both ends as they are.
LEMMA SameKeeps ==
  ASSUME Tied, UNCHANGED <<link, enc, dec, frames, tie>>
  PROVE  Tied' /\ FollowsCleanGain
<1>1. Tied'
  BY DEF Tied, LinkOK
<1>2. FollowsCleanGain
  BY SameLevelFollows
<1>3. QED
  BY <1>1, <1>2

\* A minimum is a matter of BV16.
LEMMA NoLevel729 ==
  ASSUME link.codec = "G729"
  PROVE  FollowsCleanGain
BY DEF FollowsCleanGain

\* The invariant is inductive,
LEMMA TiedFirst == Init => Tied
<1> SUFFICES ASSUME Init PROVE Tied
  OBVIOUS
<1>1. LinkOK
  BY DEF Init, LinkOK
<1>2. tie = Untouched /\ enc = EncoderInit(link.codec, link.VAD) /\ dec = DecoderInit(link.codec)
  BY DEF Init
<1>3. /\ TieShape(tie) /\ tie.heard = Untouched.heard /\ tie.words = Whole /\ tie.gains = Whole
      /\ tie.missed = 0 /\ tie.noisy = 0
  BY <1>2 DEF TieShape, Untouched
<1>4. QED
  BY <1>1, <1>2, <1>3, Begins DEF Tied

\* and no step lets the minimum follow another gain.
LEMMA TiedNext == Tied /\ [Next]_vars => Tied' /\ FollowsCleanGain
<1> SUFFICES ASSUME Tied, [Next]_vars PROVE Tied' /\ FollowsCleanGain
  OBVIOUS
<1>1. CASE OpenSender
  BY <1>1, OpenSenderKeeps
<1>2. CASE OpenReceiver
  BY <1>2, OpenReceiverKeeps
<1>3. CASE \E side \in Side : Close(side)
  BY <1>3, SameKeeps DEF Close
<1>4. CASE G729Received
  BY <1>4, G729ReceivedKeeps, NoLevel729 DEF G729Received, Sending
<1>5. CASE G729Lost
  BY <1>5, G729LostKeeps, NoLevel729 DEF G729Lost, Sending
<1>6. CASE G729Withheld
  BY <1>6, G729WithheldKeeps, NoLevel729 DEF G729Withheld, Sending
<1>7. CASE BV16Received
  BY <1>7, BV16ReceivedKeeps
<1>8. CASE BV16Lost
  BY <1>8, BV16LostKeeps
<1>9. CASE UNCHANGED vars
  BY <1>9, SameKeeps DEF vars
<1>10. QED
  BY <1>1, <1>2, <1>3, <1>4, <1>5, <1>6, <1>7, <1>8, <1>9 DEF Next

\* The two ends of a call are always tied as far as what arrived tells, for any
\* sounds, users, losses, mistakes and restarts.
THEOREM EndsStayTied == Spec => []Tied
<1>1. Init => Tied
  BY TiedFirst
<1>2. Tied /\ [Next]_vars => Tied'
  BY TiedNext
<1>3. QED
  BY <1>1, <1>2, PTL DEF Spec

\* After a lost frame, a restart or a descriptor that the encoder garbled, the
\* memories of the predictors agree again in one entry for each whole frame
\* that came since; so do the filters, but for a first coefficient below the
\* limit (decodeLSP.c, decodeGains.c, dtx.c:428 of G.729; the predictors of
\* BV16's decoder.c).
THEOREM MishapsAreForgotten == Spec => []Resynchronises
<1>1. Tied => Resynchronises
  <2> SUFFICES ASSUME Tied PROVE Resynchronises
    OBVIOUS
  <2>1. CASE link.codec = "G729"
    BY <2>1 DEF Tied, TiedG729, Agree, Resynchronises
  <2>2. CASE link.codec = "BV16"
    BY <2>2 DEF Tied, TiedBV16, Agree, Resynchronises, LSPPORDER, LGPORDER
  <2>3. QED
    BY <2>1, <2>2 DEF Tied, LinkOK, Codec
<1>2. QED
  BY <1>1, EndsStayTied, PTL

\* Until a packet is missed the receiver plays noise where noise was heard, with
\* the encoder's draws and gain (dtx.c, cng.c).
THEOREM NoiseIsTheSenders == Spec => []NoiseStaysInTune
<1>1. Tied => NoiseStaysInTune
  BY DEF Tied, TiedG729, InTune, NoiseStaysInTune
<1>2. QED
  BY <1>1, EndsStayTied, PTL

\* Of two frames in a row that are voice to the detector's boundary one goes as
\* speech, whatever its smoothing makes of them (vad.c).
THEOREM DetectorSendsTalk == Spec => []TalkIsSent
<1>1. Tied => TalkIsSent
  <2> SUFFICES ASSUME Tied, link.VAD PROVE TalkIsSent
    BY DEF TalkIsSent
  <2>1. link.codec # "BV16"
    BY LinkAssumption DEF Tied, LinkOK
  <2>2. Talks(enc, tie)
    BY <2>1 DEF Tied, LinkOK, Codec
  <2>3. QED
    BY <2>2 DEF Talks, TalkFollows, TalkIsSent
<1>2. QED
  BY <1>1, EndsStayTied, PTL

\* Without a loss the decoder of BV16 takes no gain for a bit error, and its
\* estimate of the level is the encoder's (gaindec.c, gainquan.c).
THEOREM NoFalseAlarm == Spec => []CleanLinkNeverAlarms
<1>1. Tied => CleanLinkNeverAlarms
  BY DEF Tied, TiedBV16, Clean, CleanLinkNeverAlarms, Nfdm
<1>2. QED
  BY <1>1, EndsStayTied, PTL

\* The minimum of the decoder's level estimate follows a gain down only if that
\* gain and all that it was predicted from were received and believed
\* (estlevel() as bv16's decoder.c calls it).
THEOREM MinimumIsBelieved == Spec => LevelFromCleanGains
<1>1. Tied /\ [Next]_vars => [FollowsCleanGain]_vars
  BY TiedNext
<1>2. QED
  BY <1>1, EndsStayTied, PTL DEF Spec, LevelFromCleanGains

-----------------------------------------------------------------------------
(* How both codecs put decoded LSPs in order and apart (LspOrder), for     *)
(* vectors of any length and any limits that leave room.  A loop over the  *)
(* coefficients is a recursive function; what it does is shown along the   *)
(* indexes.                                                                *)

\* A set of naturals with 0 and every successor up to n has them all.
LEMMA InductionTo ==
  ASSUME NEW n \in Nat, NEW S, 0 \in S, \A k \in 0..(n - 1) : k \in S => k + 1 \in S
  PROVE  0..n \subseteq S
<1> DEFINE T == (0..n) \ S
<1> SUFFICES ASSUME T # {} PROVE FALSE
  OBVIOUS
<1>1. PICK x \in T : \A y \in T : x <= y
  <2>1. T \in SUBSET Nat
    OBVIOUS
  <2> HIDE DEF T
  <2> QED BY <2>1, LeastExists
<1>2. x \in 0..n /\ x \notin S /\ x # 0 /\ x - 1 \in 0..(n - 1) /\ x - 1 + 1 = x /\ ~(x <= x - 1)
  OBVIOUS
<1>3. x - 1 \in S
  BY <1>1, <1>2
<1> QED BY <1>2, <1>3

\* A step G leads from D to D, and t follows it from base.
Stepwise(m, n, D, G) == \A i \in (m + 1)..(m + n), a \in D : G[i][a] \in D
Runs(t, m, n, D, base, G) ==
  t \in [m..(m + n) -> D] /\ t[m] = base /\ \A i \in (m + 1)..(m + n) : t[i] = G[i][t[i - 1]]

\* A recursive function over a range exists, whatever its step G is, and has
\* its values where the step leads.
LEMMA StepByStep ==
  ASSUME NEW m \in Int, NEW n \in Nat, NEW D, NEW base \in D, NEW G,
         Stepwise(m, n, D, G)
  PROVE  \E t : Runs(t, m, n, D, base, G)
<1> USE DEF Stepwise
<1> DEFINE Ok(t, k) == t \in [m..(m + k) -> D] /\ t[m] = base
                       /\ \A i \in (m + 1)..(m + k) : t[i] = G[i][t[i - 1]]
           S == {k \in 0..n : \E t : Ok(t, k)}
<1>1. 0 \in S
  <2> DEFINE t == [i \in m..(m + 0) |-> base]
  <2>1. Ok(t, 0)
    OBVIOUS
  <2> HIDE DEF t, Ok
  <2> QED BY <2>1
<1>2. ASSUME NEW k \in 0..(n - 1), k \in S PROVE k + 1 \in S
  <2>1. PICK t : Ok(t, k)
    BY <1>2
  <2>2. /\ k \in Nat /\ k < n /\ m + k \in Int /\ m + (k + 1) = m + k + 1
        /\ m + k + 1 \in (m + 1)..(m + n) /\ m + k + 1 - 1 = m + k
        /\ m \in m..(m + k) /\ m + k \in m..(m + k) /\ m + k + 1 # m
        /\ \A i \in m..(m + (k + 1)) : i # m + k + 1 => i \in m..(m + k)
        /\ \A i \in (m + 1)..(m + (k + 1)) : i # m + k + 1 => i \in (m + 1)..(m + k)
        /\ \A i \in (m + 1)..(m + (k + 1)) : i - 1 \in m..(m + k) /\ i - 1 # m + k + 1 /\ i - 1 \in m..(m + (k + 1))
        /\ m..(m + k) \subseteq m..(m + (k + 1))
        /\ (m + 1)..(m + (k + 1)) \subseteq m..(m + (k + 1))
    OBVIOUS
  <2> DEFINE e == m + k + 1
             x == G[e][t[m + k]]
             u == [i \in m..(m + (k + 1)) |-> IF i = e THEN x ELSE t[i]]
  <2>3. t[m + k] \in D /\ x \in D
    BY <2>1, <2>2
  <2>4. \A i \in m..(m + k) : u[i] = t[i] /\ t[i] \in D
    BY <2>1, <2>2
  <2>5. u \in [m..(m + (k + 1)) -> D]
    BY <2>2, <2>3, <2>4
  <2>6. u[m] = base
    BY <2>1, <2>2, <2>4
  <2>7. ASSUME NEW i \in (m + 1)..(m + (k + 1)) PROVE u[i] = G[i][u[i - 1]]
    <3>1. u[i - 1] = t[i - 1]
      BY <2>2, <2>4
    <3>2. CASE i = e
      <4>1. i - 1 = m + k /\ u[i] = x
        BY <2>2, <3>2
      <4> QED BY <3>1, <3>2, <4>1
    <3>3. CASE i # e
      <4>1. i \in (m + 1)..(m + k) /\ u[i] = t[i]
        BY <2>2, <3>3
      <4> QED BY <2>1, <3>1, <4>1
    <3> QED BY <3>2, <3>3
  <2>8. Ok(u, k + 1)
    <3> HIDE DEF u
    <3> QED BY <2>5, <2>6, <2>7
  <2>9. k + 1 \in 0..n
    BY <2>2
  <2> HIDE DEF u, Ok
  <2> QED BY <2>8, <2>9
<1>3. n \in S
  <2> HIDE DEF S
  <2>1. 0..n \subseteq S
    BY <1>1, <1>2, InductionTo
  <2>2. n \in 0..n
    OBVIOUS
  <2> QED BY <2>1, <2>2
<1> QED BY <1>3 DEF Runs

\* No element is greater than a later one.
Ascends(s) == \A i, k \in 1..Len(s) : i < k => s[i] <= s[k]

\* The inner loop of insertionSort() finds its place in what is sorted.
LEMMA PlaceIs ==
  ASSUME NEW s \in Seq(Int), Ascends(s), NEW x \in Int
  PROVE  /\ Place(s, x) \in 0..Len(s)
         /\ Place(s, x) > 0 => s[Place(s, x)] <= x
         /\ \A i \in (Place(s, x) + 1)..Len(s) : s[i] > x
<1> DEFINE n == Len(s)
           Fits(j) == (j > 0 => s[j] <= x) /\ \A i \in (j + 1)..n : s[i] > x
           J == {j \in 1..n : s[j] > x}
<1>1. n \in Nat /\ \A i \in 1..n : s[i] \in Int
  BY LenProperties, ElementOfSeq
<1>2. \E j \in 0..n : Fits(j)
  <2>1. CASE J = {}
    <3>1. \A i \in 1..n : s[i] <= x
      BY <1>1, <2>1
    <3>2. n \in 0..n /\ Fits(n)
      BY <1>1, <3>1
    <3> QED BY <3>2
  <2>2. CASE J # {}
    <3>1. J \in SUBSET Nat
      BY <1>1
    <3>2. PICK j \in J : \A k \in J : j <= k
      <4> HIDE DEF J
      <4> QED BY <2>2, <3>1, LeastExists
    <3>3. j \in 1..n /\ s[j] > x
      OBVIOUS
    <3>4. \A i \in j..n : s[i] > x
      <4> SUFFICES ASSUME NEW i \in j..n PROVE s[i] > x
        OBVIOUS
      <4>1. i \in 1..n /\ (i = j \/ j < i)
        BY <1>1, <3>3
      <4>2. s[j] <= s[i]
        BY <1>1, <3>3, <4>1 DEF Ascends
      <4> QED BY <1>1, <3>3, <4>1, <4>2
    <3>5. j - 1 > 0 => s[j - 1] <= x
      <4> SUFFICES ASSUME j - 1 > 0 PROVE s[j - 1] <= x
        OBVIOUS
      <4>1. j - 1 \in 1..n /\ ~(j <= j - 1)
        BY <1>1, <3>3
      <4>2. j - 1 \notin J
        BY <3>2, <4>1
      <4> QED BY <1>1, <4>1, <4>2
    <3>6. j - 1 \in 0..n /\ j - 1 + 1 = j
      BY <1>1, <3>3
    <3>7. Fits(j - 1)
      BY <3>4, <3>5, <3>6
    <3> HIDE DEF Fits
    <3> QED BY <3>6, <3>7
  <2> QED BY <2>1, <2>2
<1>3. Place(s, x) = CHOOSE j \in 0..n : Fits(j)
  BY DEF Place
<1>4. Place(s, x) \in 0..n /\ Fits(Place(s, x))
  <2> HIDE DEF Fits
  <2> QED BY <1>2, <1>3
<1> QED BY <1>4

\* What is sorted with one element more.
LEMMA InsertedIs ==
  ASSUME NEW s \in Seq(Int), Ascends(s), NEW x \in Int
  PROVE  LET j == Place(s, x)  r == Inserted(s, x) IN
         /\ r \in Seq(Int) /\ Len(r) = Len(s) + 1
         /\ \A i \in 1..(Len(s) + 1) : r[i] = IF i <= j THEN s[i] ELSE IF i = j + 1 THEN x ELSE s[i - 1]
<1> DEFINE n == Len(s)  j == Place(s, x)
           v(i) == IF i <= j THEN s[i] ELSE IF i = j + 1 THEN x ELSE s[i - 1]
           r == [i \in 1..(n + 1) |-> v(i)]
<1>1. n \in Nat /\ \A i \in 1..n : s[i] \in Int
  BY LenProperties, ElementOfSeq
<1>2. j \in 0..n
  BY PlaceIs
<1> HIDE DEF j
<1>3. \A i \in 1..(n + 1) : v(i) \in Int
  <2> SUFFICES ASSUME NEW i \in 1..(n + 1) PROVE v(i) \in Int
    OBVIOUS
  <2>1. (i <= j => i \in 1..n) /\ (~(i <= j) /\ i # j + 1 => i - 1 \in 1..n)
    BY <1>1, <1>2
  <2> QED BY <1>1, <2>1
<1> HIDE DEF v, n
<1>4. r \in [1..(n + 1) -> Int]
  BY <1>3
<1>5. n + 1 \in Nat
  BY <1>1
<1>6. r \in Seq(Int) /\ Len(r) = n + 1
  <2> HIDE DEF r
  <2>1. r \in Seq(Int)
    BY <1>4, <1>5, SeqDef
  <2>2. DOMAIN r = 1..(n + 1)
    BY <1>4
  <2>3. Len(r) \in Nat /\ DOMAIN r = 1..Len(r)
    BY <2>1, LenProperties
  <2> QED BY <1>5, <2>1, <2>2, <2>3
<1>7. \A i \in 1..(n + 1) : r[i] = v(i)
  OBVIOUS
<1>8. Inserted(s, x) = r
  BY DEF Inserted, v, r, j, n
<1> HIDE DEF r
<1> QED BY <1>6, <1>7, <1>8 DEF v, n, j

\* It keeps the order.
LEMMA InsertAscends ==
  ASSUME NEW s \in Seq(Int), Ascends(s), NEW x \in Int
  PROVE  Ascends(Inserted(s, x))
<1> DEFINE n == Len(s)  j == Place(s, x)  r == Inserted(s, x)
<1>1. n \in Nat /\ \A i \in 1..n : s[i] \in Int
  BY LenProperties, ElementOfSeq
<1>2. j \in 0..n /\ (j > 0 => s[j] <= x) /\ \A i \in (j + 1)..n : s[i] > x
  BY PlaceIs
<1>3. Len(r) = n + 1 /\ \A i \in 1..(n + 1) : r[i] = IF i <= j THEN s[i] ELSE IF i = j + 1 THEN x ELSE s[i - 1]
  BY InsertedIs
<1> HIDE DEF r, j
<1>4. \A i \in 1..j : s[i] <= x
  <2> SUFFICES ASSUME NEW i \in 1..j PROVE s[i] <= x
    OBVIOUS
  <2>1. i \in 1..n /\ j \in 1..n /\ j > 0 /\ (i = j \/ i < j)
    BY <1>1, <1>2
  <2>2. s[i] <= s[j]
    BY <1>1, <2>1 DEF Ascends
  <2> QED BY <1>1, <1>2, <2>1, <2>2
<1>5. ASSUME NEW i \in 1..(n + 1), NEW k \in 1..(n + 1), i < k PROVE r[i] <= r[k]
  <2>1. CASE k <= j
    <3>1. i \in 1..n /\ k \in 1..n /\ r[i] = s[i] /\ r[k] = s[k]
      BY <1>1, <1>2, <1>3, <1>5, <2>1
    <3> QED BY <1>5, <3>1 DEF Ascends
  <2>2. CASE k = j + 1
    <3>1. i \in 1..j /\ r[i] = s[i] /\ r[k] = x
      BY <1>1, <1>2, <1>3, <1>5, <2>2
    <3> QED BY <1>4, <3>1
  <2>3. CASE k > j + 1
    <3>1. k - 1 \in (j + 1)..n /\ k - 1 \in 1..n /\ r[k] = s[k - 1] /\ s[k - 1] > x
      BY <1>1, <1>2, <1>3, <2>3
    <3>2. CASE i <= j
      <4>1. r[i] = s[i] /\ i \in 1..n /\ i < k - 1
        BY <1>1, <1>2, <1>3, <2>3, <3>2
      <4> QED BY <3>1, <4>1 DEF Ascends
    <3>3. CASE i = j + 1
      <4>1. r[i] = x
        BY <1>1, <1>2, <1>3, <3>3
      <4> QED BY <1>1, <3>1, <4>1
    <3>4. CASE i > j + 1
      <4>1. r[i] = s[i - 1] /\ i - 1 \in 1..n /\ i - 1 < k - 1
        BY <1>1, <1>2, <1>3, <1>5, <3>4
      <4> QED BY <3>1, <4>1 DEF Ascends
    <3> QED BY <1>1, <1>2, <3>2, <3>3, <3>4
  <2> QED BY <1>1, <1>2, <2>1, <2>2, <2>3
<1>6. Ascends(r)
  BY <1>3, <1>5 DEF Ascends
<1> QED BY <1>6 DEF r, j

\* The running sums of a sequence.
Sums(s, t) ==
  /\ t \in [0..Len(s) -> Int]
  /\ t[0] = 0
  /\ \A i \in 1..Len(s) : t[i] = t[i - 1] + s[i]

\* There are such sums, and the last one is the total.
LEMMA SumsExist ==
  ASSUME NEW s \in Seq(Int)
  PROVE  \E t : Sums(s, t)
<1> DEFINE n == Len(s)
           G == [i \in 1..n |-> [a \in Int |-> a + s[i]]]
<1>1. n \in Nat /\ \A i \in 1..n : s[i] \in Int
  BY LenProperties, ElementOfSeq
<1> HIDE DEF n
<1>2. \A i \in 1..n, a \in Int : G[i][a] \in Int /\ G[i][a] = a + s[i]
  BY <1>1
<1> HIDE DEF G
<1>3. PICK t \in [0..n -> Int] : t[0] = 0 /\ \A i \in 1..n : t[i] = G[i][t[i - 1]]
  <2>1. 0 + n = n /\ 0 + 1 = 1 /\ 0 \in Int
    BY <1>1
  <2>2. Stepwise(0, n, Int, G)
    BY <1>2, <2>1, Zenon DEF Stepwise
  <2>3. PICK t : Runs(t, 0, n, Int, 0, G)
    BY <1>1, <2>1, <2>2, StepByStep
  <2> QED BY <2>1, <2>3 DEF Runs
<1>4. \A i \in 1..n : i - 1 \in 0..n
  BY <1>1
<1>5. \A i \in 1..n : t[i - 1] \in Int
  BY <1>3, <1>4
<1>6. \A i \in 1..n : t[i] = t[i - 1] + s[i]
  BY <1>2, <1>3, <1>4, <1>5
<1> QED BY <1>3, <1>4, <1>6 DEF Sums, n

\* Total takes the last of them.
LEMMA TotalIs ==
  ASSUME NEW s \in Seq(Int), NEW t, Sums(s, t)
  PROVE  Total(s) = t[Len(s)] /\ Total(s) \in Int
<1> DEFINE n == Len(s)
           F(f) == f = [i \in 0..n |-> IF i = 0 THEN 0 ELSE f[i - 1] + s[i]]
<1>1. n \in Nat /\ \A i \in 1..n : s[i] \in Int
  BY LenProperties, ElementOfSeq
<1>2. \A i \in 0..n : i # 0 => i \in 1..n
  BY <1>1
<1>3. F(t)
  <2>1. t = [i \in 0..n |-> t[i]]
    BY DEF Sums
  <2>2. \A i \in 0..n : t[i] = IF i = 0 THEN 0 ELSE t[i - 1] + s[i]
    BY <1>2 DEF Sums
  <2> QED BY <2>1, <2>2
<1>4. PICK f : f = CHOOSE g : F(g)
  OBVIOUS
<1>5. F(f)
  <2> HIDE DEF F
  <2> QED BY <1>3, <1>4
<1>6. Total(s) = f[n]
  BY <1>4 DEF Total
<1>7. f[0] = 0 /\ \A i \in 1..n : f[i] = f[i - 1] + s[i]
  <2>1. 0 \in 0..n /\ \A i \in 1..n : i \in 0..n /\ i # 0
    BY <1>1
  <2> QED BY <1>5, <2>1
<1> DEFINE S == {i \in 0..n : f[i] = t[i]}
<1>8. 0 \in S
  BY <1>1, <1>7 DEF Sums
<1>9. ASSUME NEW k \in 0..(n - 1), k \in S PROVE k + 1 \in S
  <2>1. k + 1 \in 1..n /\ k + 1 - 1 = k /\ k + 1 \in 0..n
    BY <1>1
  <2>2. f[k + 1] = f[k] + s[k + 1] /\ t[k + 1] = t[k] + s[k + 1]
    BY <1>7, <2>1 DEF Sums
  <2> QED BY <1>9, <2>1, <2>2
<1>10. n \in S
  <2>1. n \in 0..n
    BY <1>1
  <2>2. 0..n \subseteq S
    <3> HIDE DEF S
    <3> QED BY <1>1, <1>8, <1>9, InductionTo
  <2> QED BY <2>1, <2>2
<1>11. t[n] \in Int
  BY <1>1 DEF Sums
<1> QED BY <1>6, <1>10, <1>11

\* An element more adds itself to the total, wherever it stands.
LEMMA InsertedAdds ==
  ASSUME NEW s \in Seq(Int), Ascends(s), NEW x \in Int
  PROVE  Total(Inserted(s, x)) = Total(s) + x
<1> DEFINE n == Len(s)  j == Place(s, x)  r == Inserted(s, x)
<1>1. n \in Nat /\ j \in 0..n /\ \A i \in 1..n : s[i] \in Int
  BY LenProperties, ElementOfSeq, PlaceIs
<1>2. /\ r \in Seq(Int) /\ Len(r) = n + 1
      /\ \A i \in 1..(n + 1) : r[i] = IF i <= j THEN s[i] ELSE IF i = j + 1 THEN x ELSE s[i - 1]
  BY InsertedIs
<1> HIDE DEF r, j
<1>3. PICK t : Sums(s, t)
  BY SumsExist
<1>4. Total(s) = t[n]
  BY <1>3, TotalIs
<1>5. t \in [0..n -> Int] /\ t[0] = 0 /\ \A i \in 1..n : t[i] = t[i - 1] + s[i]
  BY <1>3 DEF Sums
<1> HIDE DEF n
<1> DEFINE u == [i \in 0..(n + 1) |-> IF i <= j THEN t[i] ELSE t[i - 1] + x]
<1>6. \A i \in 0..(n + 1) : (i <= j => i \in 0..n) /\ (~(i <= j) => i - 1 \in 0..n)
  BY <1>1
<1>7. u \in [0..(n + 1) -> Int] /\ u[0] = 0
  <2>1. \A i \in 0..(n + 1) : (IF i <= j THEN t[i] ELSE t[i - 1] + x) \in Int
    <3> SUFFICES ASSUME NEW i \in 0..(n + 1) PROVE (IF i <= j THEN t[i] ELSE t[i - 1] + x) \in Int
      OBVIOUS
    <3>1. CASE i <= j
      BY <1>5, <1>6, <3>1
    <3>2. CASE ~(i <= j)
      <4>1. t[i - 1] \in Int
        BY <1>5, <1>6, <3>2
      <4> QED BY <3>2, <4>1
    <3> QED BY <3>1, <3>2
  <2>2. 0 \in 0..(n + 1) /\ 0 <= j
    BY <1>1
  <2> QED BY <1>5, <2>1, <2>2
<1>8. ASSUME NEW i \in 1..(n + 1) PROVE u[i] = u[i - 1] + r[i]
  <2>1. i \in 0..(n + 1) /\ i - 1 \in 0..(n + 1) /\ i \in Int
    BY <1>1
  <2>2. CASE i <= j
    <3>1. i \in 1..n /\ i - 1 <= j /\ u[i] = t[i] /\ u[i - 1] = t[i - 1] /\ r[i] = s[i]
      BY <1>1, <1>2, <2>1, <2>2
    <3> QED BY <1>5, <3>1
  <2>3. CASE i = j + 1
    <3>1. i - 1 = j /\ ~(i <= j) /\ i - 1 <= j
      BY <1>1, <2>3
    <3>2. u[i] = t[j] + x /\ u[i - 1] = t[j] /\ r[i] = x
      BY <1>2, <2>1, <2>3, <3>1
    <3> QED BY <3>2
  <2>4. CASE i > j + 1
    <3>1. ~(i <= j) /\ ~(i = j + 1) /\ ~(i - 1 <= j) /\ i - 1 \in 1..n /\ i - 1 - 1 \in 0..n
      BY <1>1, <2>4
    <3>2. u[i] = t[i - 1] + x /\ u[i - 1] = t[i - 1 - 1] + x /\ r[i] = s[i - 1]
      BY <1>2, <2>1, <3>1
    <3>3. t[i - 1] = t[i - 1 - 1] + s[i - 1] /\ t[i - 1 - 1] \in Int /\ s[i - 1] \in Int
      BY <1>1, <1>5, <3>1
    <3> HIDE DEF u
    <3> QED BY <3>2, <3>3
  <2> QED BY <1>1, <2>2, <2>3, <2>4
<1>9. u[n + 1] = t[n] + x
  <2>1. n + 1 \in 0..(n + 1) /\ ~(n + 1 <= j) /\ n + 1 - 1 = n
    BY <1>1
  <2> HIDE DEF n
  <2>2. u[n + 1] = t[n + 1 - 1] + x
    <3> DEFINE e == n + 1
    <3>1. e \in 0..(n + 1) /\ ~(e <= j)
      BY <2>1
    <3> HIDE DEF e
    <3>2. u[e] = t[e - 1] + x
      BY <3>1
    <3> HIDE DEF u
    <3> QED BY <1>1, <3>2 DEF e
  <2> HIDE DEF u
  <2> QED BY <2>1, <2>2
<1>10. Total(r) = u[n + 1]
  <2> HIDE DEF u
  <2>1. Sums(r, u)
    BY <1>2, <1>7, <1>8 DEF Sums
  <2> QED BY <1>2, <2>1, TotalIs
<1> QED BY <1>4, <1>9, <1>10 DEF r, n

\* Nothing sums up to nothing.
LEMMA EmptyTotal == Total(<<>>) = 0 /\ Ascends(<<>>) /\ <<>> \in Seq(Int) /\ Len(<<>>) = 0
<1> DEFINE t == [i \in 0..0 |-> 0]
<1>1. <<>> \in Seq(Int) /\ Len(<<>>) = 0
  OBVIOUS
<1>2. Sums(<<>>, t) /\ t[0] = 0
  BY <1>1 DEF Sums
<1>3. Total(<<>>) = 0
  <2> HIDE DEF t
  <2> QED BY <1>1, <1>2, TotalIs
<1> QED BY <1>1, <1>3 DEF Ascends

\* insertionSort() puts the elements in order, keeps their sum and leaves alone
\* what is in order.
LEMMA SortIs ==
  ASSUME NEW v \in Seq(Int)
  PROVE  LET s == insertionSort(v) IN
         /\ s \in Seq(Int) /\ Len(s) = Len(v) /\ Ascends(s)
         /\ Total(s) = Total(v)
         /\ Ascends(v) => s = v
<1> DEFINE n == Len(v)
           D == {a \in Seq(Int) : Ascends(a)}
           G == [i \in 1..n |-> [a \in D |-> Inserted(a, v[i])]]
           F(f) == f = [i \in 0..n |-> IF i = 0 THEN <<>> ELSE Inserted(f[i - 1], v[i])]
<1>1. n \in Nat /\ \A i \in 1..n : v[i] \in Int
  BY LenProperties, ElementOfSeq
<1>2. \A a \in D, x \in Int : Inserted(a, x) \in D
  BY InsertedIs, InsertAscends
<1>3. PICK e : e = <<>>
  OBVIOUS
<1>4. e \in D
  BY <1>3, EmptyTotal
<1>5. PICK t : t \in [0..n -> D] /\ t[0] = e /\ \A i \in 1..n : t[i] = Inserted(t[i - 1], v[i])
  <2> HIDE DEF D, n
  <2>1. 0 + n = n /\ 0 + 1 = 1 /\ 0 \in Int /\ \A i \in 1..n : i - 1 \in 0..n
    BY <1>1
  <2>2. \A i \in 1..n, a \in D : G[i][a] \in D /\ G[i][a] = Inserted(a, v[i])
    BY <1>1, <1>2
  <2> HIDE DEF G
  <2>3. Stepwise(0, n, D, G)
    BY <2>1, <2>2, Zenon DEF Stepwise
  <2>4. PICK t : Runs(t, 0, n, D, e, G)
    BY <1>1, <1>4, <2>1, <2>3, StepByStep
  <2>5. t \in [0..n -> D] /\ t[0] = e /\ \A i \in 1..n : t[i] = G[i][t[i - 1]]
    BY <2>1, <2>4, Zenon DEF Runs
  <2>6. \A i \in 1..n : t[i - 1] \in D
    BY <2>1, <2>5
  <2>7. \A i \in 1..n : t[i] = Inserted(t[i - 1], v[i])
    BY <2>2, <2>5, <2>6, Zenon
  <2> HIDE DEF F
  <2> QED BY <2>5, <2>7, Zenon
<1>6. F(t)
  <2>1. t = [i \in 0..n |-> t[i]]
    BY <1>5
  <2>2. \A i \in 0..n : t[i] = IF i = 0 THEN <<>> ELSE Inserted(t[i - 1], v[i])
    <3>1. \A i \in 0..n : i # 0 => i \in 1..n
      BY <1>1
    <3> QED BY <1>3, <1>5, <3>1
  <2> QED BY <2>1, <2>2
<1>7. PICK f : f = CHOOSE g : F(g)
  OBVIOUS
<1>8. insertionSort(v) = f[n]
  BY <1>7 DEF insertionSort
<1>9. f[0] = e /\ \A i \in 1..n : f[i] = Inserted(f[i - 1], v[i])
  <2>1. F(f)
    <3> HIDE DEF F
    <3> QED BY <1>6, <1>7
  <2>2. 0 \in 0..n /\ \A i \in 1..n : i \in 0..n /\ i # 0
    BY <1>1
  <2> QED BY <1>3, <2>1, <2>2
<1> HIDE DEF F
<1>10. PICK u : Sums(v, u)
  BY SumsExist
<1>11. u \in [0..n -> Int] /\ u[0] = 0 /\ \A i \in 1..n : u[i] = u[i - 1] + v[i]
  BY <1>10 DEF Sums
<1>12. Total(v) = u[n]
  BY <1>10, TotalIs
<1> DEFINE P(i) == /\ f[i] \in Seq(Int) /\ Ascends(f[i]) /\ Len(f[i]) = i /\ Total(f[i]) = u[i]
                   /\ Ascends(v) => \A k \in 1..i : f[i][k] = v[k]
           S == {i \in 0..n : P(i)}
<1>13. 0 \in S
  <2>1. f[0] = <<>>
    BY <1>3, <1>9
  <2>2. /\ f[0] \in Seq(Int) /\ Ascends(f[0]) /\ Len(f[0]) = 0 /\ Total(f[0]) = u[0]
        /\ \A k \in 1..0 : f[0][k] = v[k]
    BY <1>11, <2>1, EmptyTotal
  <2>3. 0 \in 0..n
    BY <1>1
  <2> QED BY <2>2, <2>3
<1>14. ASSUME NEW i \in 0..(n - 1), i \in S PROVE i + 1 \in S
  <2> DEFINE s == f[i]  x == v[i + 1]  r == f[i + 1]
  <2>1. i + 1 \in 1..n /\ i + 1 - 1 = i /\ i + 1 \in 0..n /\ i \in Nat
    BY <1>1
  <2>2. x \in Int /\ r = Inserted(s, x) /\ u[i + 1] = u[i] + x
    BY <1>1, <1>9, <1>11, <2>1
  <2>3. s \in Seq(Int) /\ Ascends(s) /\ Len(s) = i /\ Total(s) = u[i]
    BY <1>14
  <2>4. Ascends(v) => \A k \in 1..i : s[k] = v[k]
    BY <1>14
  <2> HIDE DEF s, x, r
  <2> DEFINE j == Place(s, x)
  <2>5. r \in Seq(Int) /\ Len(r) = i + 1 /\ Ascends(r) /\ Total(r) = u[i + 1]
    <3>1. r \in Seq(Int) /\ Len(r) = i + 1
      BY <2>2, <2>3, InsertedIs
    <3>2. Ascends(r)
      BY <2>2, <2>3, InsertAscends
    <3>3. Total(r) = Total(s) + x
      BY <2>2, <2>3, InsertedAdds
    <3> QED BY <2>2, <2>3, <3>1, <3>2, <3>3
  <2>6. /\ j \in 0..i /\ \A k \in (j + 1)..i : s[k] > x
        /\ \A k \in 1..(i + 1) : r[k] = IF k <= j THEN s[k] ELSE IF k = j + 1 THEN x ELSE s[k - 1]
    BY <2>2, <2>3, PlaceIs, InsertedIs
  <2> HIDE DEF j
  <2>7. ASSUME Ascends(v) PROVE \A k \in 1..(i + 1) : r[k] = v[k]
    <3>1. j = i
      <4> SUFFICES ASSUME j # i PROVE FALSE
        OBVIOUS
      <4>1. i \in (j + 1)..i /\ i \in 1..i /\ i \in 1..n /\ i < i + 1 /\ i + 1 \in 1..n
        BY <1>1, <2>1, <2>6
      <4>2. s[i] > x /\ s[i] = v[i]
        BY <2>4, <2>6, <2>7, <4>1
      <4>3. v[i] <= v[i + 1]
        BY <2>7, <4>1 DEF Ascends
      <4> QED BY <1>1, <4>1, <4>2, <4>3 DEF x
    <3>2. ASSUME NEW k \in 1..(i + 1) PROVE r[k] = v[k]
      <4>1. CASE k <= i
        <5>1. k \in 1..i
          BY <2>1, <4>1
        <5> QED BY <2>4, <2>6, <2>7, <3>1, <4>1, <5>1
      <4>2. CASE k = i + 1
        <5>1. ~(k <= j) /\ k = j + 1
          BY <2>1, <3>1, <4>2
        <5> QED BY <2>6, <4>2, <5>1 DEF x
      <4> QED BY <2>1, <4>1, <4>2
    <3> QED BY <3>2
  <2> QED BY <2>1, <2>5, <2>7 DEF r
<1>15. n \in S
  <2>1. n \in 0..n
    BY <1>1
  <2>2. 0..n \subseteq S
    <3> HIDE DEF S
    <3> QED BY <1>1, <1>13, <1>14, InductionTo
  <2> QED BY <2>1, <2>2
<1> DEFINE s == f[n]
<1>16. s \in Seq(Int) /\ Ascends(s) /\ Len(s) = n /\ Total(s) = Total(v)
  BY <1>12, <1>15
<1>17. ASSUME Ascends(v) PROVE s = v
  <2>1. \A k \in 1..n : s[k] = v[k]
    BY <1>15, <1>17
  <2> HIDE DEF s
  <2> QED BY <1>16, <2>1, SeqEqual
<1> QED BY <1>8, <1>16, <1>17

\* A step that takes one number to the next, from the first of n on.
Numeric(n, G) == \A i \in 2..n, a \in Int : G[i][a] \in Int
Goes(t, n, base, G) == t \in [1..n -> Int] /\ t[1] = base /\ \A i \in 2..n : t[i] = G[i][t[i - 1]]

\* It goes all the way.
LEMMA FromTheFirst ==
  ASSUME NEW n \in Nat \ {0}, NEW base \in Int, NEW G, Numeric(n, G)
  PROVE  \E t : Goes(t, n, base, G)
<1>1. n - 1 \in Nat /\ 1 + (n - 1) = n /\ 1 + 1 = 2 /\ 1 \in Int
  OBVIOUS
<1>2. Stepwise(1, n - 1, Int, G)
  BY <1>1, Zenon DEF Stepwise, Numeric
<1>3. PICK t : Runs(t, 1, n - 1, Int, base, G)
  BY <1>1, <1>2, StepByStep
<1>4. Goes(t, n, base, G)
  BY <1>1, <1>3, Zenon DEF Runs, Goes
<1> QED BY <1>4

\* Where each follows from the one before, all are numbers.
LEMMA NumbersOnward ==
  ASSUME NEW n \in Nat, n >= 1, NEW f, f[1] \in Int,
         \A i \in 2..n : f[i - 1] \in Int => f[i] \in Int
  PROVE  \A i \in 1..n : f[i] \in Int
<1> DEFINE S == {k \in 0..(n - 1) : f[k + 1] \in Int}
<1>1. 0 \in S
  BY 0 + 1 = 1, 0 \in 0..(n - 1)
<1>2. ASSUME NEW k \in 0..(n - 1 - 1), k \in S PROVE k + 1 \in S
  <2>1. k + 1 \in 0..(n - 1) /\ k + 1 + 1 \in 2..n /\ k + 1 + 1 - 1 = k + 1
    OBVIOUS
  <2>2. f[k + 1 + 1] \in Int
    BY <1>2, <2>1
  <2> QED BY <2>1, <2>2
<1>3. n - 1 \in Nat
  OBVIOUS
<1>4. 0..(n - 1) \subseteq S
  <2> HIDE DEF S
  <2> QED BY <1>1, <1>2, <1>3, InductionTo
<1>5. ASSUME NEW i \in 1..n PROVE f[i] \in Int
  <2>1. i - 1 \in 0..(n - 1) /\ i - 1 + 1 = i
    OBVIOUS
  <2> QED BY <1>4, <2>1
<1> QED BY <1>5

\* The limits leave room for n at their distance.
LeavesRoom(L, n) == L.min + (n - 1) * L.gap <= L.max

\* The bound of the i-th of n leaves room for those above it.
LEMMA RoomAbove ==
  ASSUME NEW n \in Nat, NEW i \in Int, NEW max \in Int, NEW gap \in Int
  PROVE  /\ max - ((n - i) * gap) \in Int
         /\ max - ((n - n) * gap) = max
         /\ max - ((n - i) * gap) = max - ((n - (i - 1)) * gap) + gap
<1>1. (n - (i - 1)) * gap = (n - i) * gap + gap
  <2> DEFINE k == n - i
  <2>1. k \in Int /\ n - (i - 1) = k + 1
    OBVIOUS
  <2> HIDE DEF k
  <2>2. (k + 1) * gap = k * gap + gap
    BY <2>1
  <2> QED BY <2>1, <2>2 DEF k
<1>2. (n - i) * gap \in Int
  OBVIOUS
<1>3. (n - n) * gap = 0
  OBVIOUS
<1> DEFINE a == (n - i) * gap  c == (n - (i - 1)) * gap
<1> HIDE DEF a, c
<1>4. a \in Int /\ c = a + gap
  BY <1>1, <1>2 DEF a, c
<1>5. max - a \in Int /\ max - a = max - c + gap
  BY <1>4
<1>6. max - ((n - n) * gap) = max
  BY <1>3
<1> QED BY <1>5, <1>6 DEF a, c

\* Clamped brings a number between two bounds, and leaves it there.
LEMMA ClampedIs ==
  \A x, lo, hi \in Int :
    /\ lo <= hi => Clamped(x, lo, hi) \in lo..hi
    /\ lo <= x /\ x <= hi => Clamped(x, lo, hi) = x
  BY DEF Clamped

\* What the loop of stblz_lsp() leaves in each place.
LEMMA FitIs ==
  ASSUME NEW v \in Seq(Int), Len(v) >= 1, NEW L, L.min \in Int, L.max \in Int, L.gap \in Int
  PROVE  LET s == insertionSort(v)
             b == stblz_lsp(v, L)
             n == Len(v)
         IN  /\ b \in [1..n -> Int]
             /\ b[1] = Clamped(s[1], L.min, L.max - ((n - 1) * L.gap))
             /\ \A i \in 2..n : b[i] = Clamped(s[i], b[i - 1] + L.gap, L.max - ((n - i) * L.gap))
<1> DEFINE n == Len(v)
           s == insertionSort(v)
           top(i) == L.max - ((n - i) * L.gap)
           base == Clamped(s[1], L.min, top(1))
           G == [i \in 2..n |-> [a \in Int |-> Clamped(s[i], a + L.gap, top(i))]]
           F(f) == f = [i \in 1..n |-> Clamped(s[i], IF i = 1 THEN L.min ELSE f[i - 1] + L.gap, top(i))]
<1>1. n \in Nat /\ n >= 1 /\ \A i \in 1..n : s[i] \in Int
  BY SortIs, LenProperties, ElementOfSeq
<1>2. \A i \in 1..n : top(i) \in Int
  BY <1>1, RoomAbove
<1> HIDE DEF top, n, s
<1>3. base \in Int
  <2>1. 1 \in 1..n
    BY <1>1
  <2> QED BY <1>1, <1>2, <2>1 DEF Clamped
<1>4. \A i \in 2..n, a \in Int : G[i][a] \in Int /\ G[i][a] = Clamped(s[i], a + L.gap, top(i))
  <2>1. \A i \in 2..n, a \in Int : Clamped(s[i], a + L.gap, top(i)) \in Int
    BY <1>1, <1>2 DEF Clamped
  <2> QED BY <2>1
<1> HIDE DEF G
<1>5. PICK t : t \in [1..n -> Int] /\ t[1] = base /\ \A i \in 2..n : t[i] = G[i][t[i - 1]]
  <2> HIDE DEF base, F
  <2>1. Numeric(n, G)
    BY <1>4, Zenon DEF Numeric
  <2>2. n \in Nat \ {0}
    BY <1>1
  <2>3. PICK t : Goes(t, n, base, G)
    BY <1>3, <2>1, <2>2, FromTheFirst
  <2> QED BY <2>3 DEF Goes
<1>6. F(t)
  <2>1. \A i \in 1..n : i # 1 => i \in 2..n /\ i - 1 \in 1..n
    BY <1>1
  <2>2. \A i \in 1..n : t[i] = Clamped(s[i], IF i = 1 THEN L.min ELSE t[i - 1] + L.gap, top(i))
    BY <1>4, <1>5, <2>1
  <2>3. t = [i \in 1..n |-> t[i]]
    BY <1>5
  <2> QED BY <2>2, <2>3
<1>7. PICK f : f = CHOOSE g : F(g)
  OBVIOUS
<1>8. stblz_lsp(v, L) = f
  BY <1>7 DEF stblz_lsp, n, s, top
<1>9. F(f)
  <2> HIDE DEF F
  <2> QED BY <1>6, <1>7
<1>10. f[1] = base /\ \A i \in 2..n : f[i] = Clamped(s[i], f[i - 1] + L.gap, top(i))
  <2>1. 1 \in 1..n /\ \A i \in 2..n : i \in 1..n /\ i # 1
    BY <1>1
  <2> QED BY <1>9, <2>1
<1>11. ASSUME NEW i \in 2..n, f[i - 1] \in Int PROVE f[i] \in Int
  <2>1. i \in 1..n
    BY <1>1
  <2>2. s[i] \in Int /\ top(i) \in Int /\ f[i - 1] + L.gap \in Int
    BY <1>1, <1>2, <1>11, <2>1
  <2> HIDE DEF F
  <2>3. f[i] = Clamped(s[i], f[i - 1] + L.gap, top(i))
    BY <1>10
  <2> QED BY <2>2, <2>3 DEF Clamped
<1>12. \A i \in 1..n : f[i] \in Int
  <2>1. f[1] \in Int
    BY <1>3, <1>10
  <2> HIDE DEF F
  <2> QED BY <1>1, <1>11, <2>1, NumbersOnward
<1>13. f \in [1..n -> Int]
  <2>1. f = [i \in 1..n |-> f[i]]
    BY <1>9
  <2> HIDE DEF F
  <2> QED BY <1>12, <2>1
<1> HIDE DEF F
<1> QED BY <1>8, <1>10, <1>13 DEF n, s, top

\* The push upwards of SpacedFrom, before the last is cut off.
LEMMA PushIs ==
  ASSUME NEW v \in Seq(Int), Len(v) >= 1, NEW L, L.max \in Int, L.gap \in Int
  PROVE  \E p \in [1..Len(v) -> Int] :
           /\ p[1] = v[1]
           /\ \A i \in 2..Len(v) : p[i] = IF v[i] - p[i - 1] < L.gap THEN p[i - 1] + L.gap ELSE v[i]
           /\ SpacedFrom(v, L) = [p EXCEPT ![Len(v)] = IF @ > L.max THEN L.max ELSE @]
<1> DEFINE n == Len(v)
           W(i, a) == IF v[i] - a < L.gap THEN a + L.gap ELSE v[i]
           G == [i \in 2..n |-> [a \in Int |-> W(i, a)]]
           F(f) == f = [i \in 1..n |-> IF i = 1 THEN v[1]
                                       ELSE IF v[i] - f[i - 1] < L.gap THEN f[i - 1] + L.gap ELSE v[i]]
<1>1. n \in Nat /\ n >= 1 /\ \A i \in 1..n : v[i] \in Int
  BY LenProperties, ElementOfSeq
<1> HIDE DEF n
<1>2. v[1] \in Int
  <2>1. 1 \in 1..n
    BY <1>1
  <2> QED BY <1>1, <2>1
<1>3. \A i \in 2..n, a \in Int : W(i, a) \in Int
  BY <1>1
<1>4. \A i \in 2..n, a \in Int : G[i][a] \in Int /\ G[i][a] = W(i, a)
  <2> HIDE DEF W
  <2> QED BY <1>3
<1> HIDE DEF G
<1>5. PICK t : t \in [1..n -> Int] /\ t[1] = v[1] /\ \A i \in 2..n : t[i] = G[i][t[i - 1]]
  <2> HIDE DEF F, W
  <2>1. Numeric(n, G)
    BY <1>4, Zenon DEF Numeric
  <2>2. n \in Nat \ {0}
    BY <1>1
  <2>3. PICK t : Goes(t, n, v[1], G)
    BY <1>2, <2>1, <2>2, FromTheFirst
  <2> QED BY <2>3 DEF Goes
<1>6. F(t)
  <2>1. \A i \in 1..n : i # 1 => i \in 2..n /\ i - 1 \in 1..n
    BY <1>1
  <2>2. \A i \in 1..n : i # 1 => t[i] = W(i, t[i - 1])
    <3> HIDE DEF W
    <3> QED BY <1>4, <1>5, <2>1
  <2>3. \A i \in 1..n : t[i] = IF i = 1 THEN v[1]
                               ELSE IF v[i] - t[i - 1] < L.gap THEN t[i - 1] + L.gap ELSE v[i]
    BY <1>5, <2>2
  <2>4. t = [i \in 1..n |-> t[i]]
    BY <1>5
  <2> QED BY <2>3, <2>4
<1>7. PICK f : f = CHOOSE g : F(g)
  OBVIOUS
<1>8. SpacedFrom(v, L) = [f EXCEPT ![n] = IF @ > L.max THEN L.max ELSE @]
  BY <1>7 DEF SpacedFrom, n
<1>9. F(f)
  <2> HIDE DEF F
  <2> QED BY <1>6, <1>7
<1>10. f[1] = v[1] /\ \A i \in 2..n : f[i] = IF v[i] - f[i - 1] < L.gap THEN f[i - 1] + L.gap ELSE v[i]
  <2>1. 1 \in 1..n /\ \A i \in 2..n : i \in 1..n /\ i # 1
    BY <1>1
  <2> QED BY <1>9, <2>1
<1>11. ASSUME NEW i \in 2..n, f[i - 1] \in Int PROVE f[i] \in Int
  <2>1. i \in 1..n
    BY <1>1
  <2>2. v[i] \in Int /\ f[i - 1] + L.gap \in Int
    BY <1>1, <1>11, <2>1
  <2> HIDE DEF F
  <2> QED BY <1>10, <2>2
<1>12. \A i \in 1..n : f[i] \in Int
  <2>1. f[1] \in Int
    BY <1>2, <1>10
  <2> HIDE DEF F
  <2> QED BY <1>1, <1>11, <2>1, NumbersOnward
<1>13. f \in [1..n -> Int]
  <2>1. f = [i \in 1..n |-> f[i]]
    BY <1>9
  <2> HIDE DEF F
  <2> QED BY <1>12, <2>1
<1> HIDE DEF F
<1> QED BY <1>8, <1>10, <1>13 DEF n

\* What is missing between two, halved, is never negative.
LEMMA DeltaIs == \A a, b, J \in Int : delta(a, b, J) \in Nat
<1> SUFFICES ASSUME NEW a \in Int, NEW b \in Int, NEW J \in Int PROVE delta(a, b, J) \in Nat
  OBVIOUS
<1> DEFINE d == (a - b + J) \div 2
<1>1. d \in Int
  OBVIOUS
<1>2. delta(a, b, J) = IF d > 0 THEN d ELSE 0
  BY DEF delta
<1> HIDE DEF d
<1> QED BY <1>1, <1>2

\* What rearrangeCoefficients() raises each to before it lowers it.
LEMMA RaisedIs ==
  ASSUME NEW v \in Seq(Int), Len(v) >= 1, NEW J \in Int
  PROVE  \E up \in [1..Len(v) -> Int] :
           /\ up[1] = v[1]
           /\ \A i \in 2..Len(v) : up[i] = v[i] + delta(up[i - 1], v[i], J)
           /\ rearrangeCoefficients(v, J) =
                [i \in 1..Len(v) |-> IF i = Len(v) THEN up[i] ELSE up[i] - delta(up[i], v[i + 1], J)]
<1> DEFINE n == Len(v)
           W(i, a) == v[i] + delta(a, v[i], J)
           G == [i \in 2..n |-> [a \in Int |-> W(i, a)]]
           F(f) == f = [i \in 1..n |-> IF i = 1 THEN v[1] ELSE v[i] + delta(f[i - 1], v[i], J)]
<1>1. n \in Nat /\ n >= 1 /\ \A i \in 1..n : v[i] \in Int
  BY LenProperties, ElementOfSeq
<1> HIDE DEF n
<1>2. v[1] \in Int
  <2>1. 1 \in 1..n
    BY <1>1
  <2> QED BY <1>1, <2>1
<1>3. \A i \in 2..n, a \in Int : W(i, a) \in Int
  <2> SUFFICES ASSUME NEW i \in 2..n, NEW a \in Int PROVE W(i, a) \in Int
    OBVIOUS
  <2>1. v[i] \in Int
    BY <1>1
  <2>2. delta(a, v[i], J) \in Nat
    BY <2>1, DeltaIs
  <2> QED BY <2>1, <2>2
<1>4. \A i \in 2..n, a \in Int : G[i][a] \in Int /\ G[i][a] = W(i, a)
  <2> HIDE DEF W
  <2> QED BY <1>3
<1> HIDE DEF G
<1>5. PICK t : t \in [1..n -> Int] /\ t[1] = v[1] /\ \A i \in 2..n : t[i] = G[i][t[i - 1]]
  <2> HIDE DEF F, W
  <2>1. Numeric(n, G)
    BY <1>4, Zenon DEF Numeric
  <2>2. n \in Nat \ {0}
    BY <1>1
  <2>3. PICK t : Goes(t, n, v[1], G)
    BY <1>2, <2>1, <2>2, FromTheFirst
  <2> QED BY <2>3 DEF Goes
<1>6. F(t)
  <2>1. \A i \in 1..n : i # 1 => i \in 2..n /\ i - 1 \in 1..n
    BY <1>1
  <2>2. \A i \in 1..n : i # 1 => t[i] = W(i, t[i - 1])
    <3> HIDE DEF W
    <3> QED BY <1>4, <1>5, <2>1
  <2>3. \A i \in 1..n : t[i] = IF i = 1 THEN v[1] ELSE v[i] + delta(t[i - 1], v[i], J)
    BY <1>5, <2>2
  <2>4. t = [i \in 1..n |-> t[i]]
    BY <1>5
  <2> QED BY <2>3, <2>4
<1>7. PICK f : f = CHOOSE g : F(g)
  OBVIOUS
<1>8. rearrangeCoefficients(v, J) = [i \in 1..n |-> IF i = n THEN f[i] ELSE f[i] - delta(f[i], v[i + 1], J)]
  BY <1>7 DEF rearrangeCoefficients, n
<1>9. F(f)
  <2> HIDE DEF F
  <2> QED BY <1>6, <1>7
<1>10. f[1] = v[1] /\ \A i \in 2..n : f[i] = v[i] + delta(f[i - 1], v[i], J)
  <2>1. 1 \in 1..n /\ \A i \in 2..n : i \in 1..n /\ i # 1
    BY <1>1
  <2> QED BY <1>9, <2>1
<1>11. ASSUME NEW i \in 2..n, f[i - 1] \in Int PROVE f[i] \in Int
  <2>1. f[i] = W(i, f[i - 1])
    BY <1>10
  <2> HIDE DEF F, W
  <2> QED BY <1>3, <1>11, <2>1
<1>12. \A i \in 1..n : f[i] \in Int
  <2>1. f[1] \in Int
    BY <1>2, <1>10
  <2> HIDE DEF F
  <2> QED BY <1>1, <1>11, <2>1, NumbersOnward
<1>13. f \in [1..n -> Int]
  <2>1. f = [i \in 1..n |-> f[i]]
    BY <1>9
  <2> HIDE DEF F
  <2> QED BY <1>12, <2>1
<1> HIDE DEF F
<1> QED BY <1>8, <1>10, <1>13 DEF n

\* What is apart is in order.
LEMMA ApartAscends ==
  ASSUME NEW v \in Seq(Int), NEW gap \in Nat, Apart(v, Len(v), gap)
  PROVE  Ascends(v)
<1> DEFINE n == Len(v)
<1>1. n \in Nat /\ \A i \in 1..n : v[i] \in Int
  BY LenProperties, ElementOfSeq
<1>2. \A i \in 2..n : v[i] - v[i - 1] >= gap
  BY DEF Apart
<1> HIDE DEF n
<1>3. ASSUME NEW i \in 1..n, NEW k \in 1..n, i < k PROVE v[i] <= v[k]
  <2> DEFINE S == {d \in 0..(n - i) : v[i] <= v[i + d]}
  <2>1. 0 \in S
    <3>1. 0 \in 0..(n - i) /\ i + 0 = i
      BY <1>1
    <3>2. v[i] <= v[i]
      BY <1>1
    <3> QED BY <3>1, <3>2
  <2>2. ASSUME NEW d \in 0..(n - i - 1), d \in S PROVE d + 1 \in S
    <3>1. /\ d + 1 \in 0..(n - i) /\ i + (d + 1) \in 2..n /\ i + (d + 1) - 1 = i + d
          /\ i + (d + 1) \in 1..n /\ i + d \in 1..n
      BY <1>1
    <3>2. v[i + (d + 1)] - v[i + d] >= gap
      BY <1>2, <3>1
    <3>3. v[i] <= v[i + d] /\ v[i] \in Int /\ v[i + d] \in Int /\ v[i + (d + 1)] \in Int
      BY <1>1, <2>2, <3>1
    <3>4. v[i] <= v[i + (d + 1)]
      BY <3>2, <3>3
    <3> QED BY <3>1, <3>4
  <2>3. 0..(n - i) \subseteq S
    <3>1. n - i \in Nat
      BY <1>1
    <3> HIDE DEF S
    <3> QED BY <2>1, <2>2, <3>1, InductionTo
  <2>4. k - i \in 0..(n - i) /\ i + (k - i) = k
    BY <1>1, <1>3
  <2>5. k - i \in S
    BY <2>3, <2>4
  <2> QED BY <2>4, <2>5
<1> QED BY <1>3 DEF Ascends, n

\* stblz_lsp() keeps any vector within its limits and apart, and leaves alone
\* one that was.
LEMMA StabilizedIsApart ==
  ASSUME NEW v \in Seq(Int), Len(v) >= 1,
         NEW L, L.min \in Nat, L.max \in Int, L.gap \in Nat, LeavesRoom(L, Len(v))
  PROVE  LET b == stblz_lsp(v, L)
             n == Len(v)
         IN  /\ Apart(b, n, L.gap) /\ L.min <= b[1] /\ b[n] <= L.max /\ stblchck(b)
             /\ Apart(v, n, L.gap) /\ L.min <= v[1] /\ v[n] <= L.max => b = v
<1> DEFINE n == Len(v)
           s == insertionSort(v)
           b == stblz_lsp(v, L)
           top(i) == L.max - ((n - i) * L.gap)
<1>1. /\ n \in Nat /\ n >= 1 /\ \A i \in 1..n : s[i] \in Int /\ v[i] \in Int
      /\ s \in Seq(Int) /\ Len(s) = n
  BY SortIs, LenProperties, ElementOfSeq
<1>2. L.min \in Int /\ L.gap \in Int
  OBVIOUS
<1>3. /\ b \in [1..n -> Int] /\ b[1] = Clamped(s[1], L.min, top(1))
      /\ \A i \in 2..n : b[i] = Clamped(s[i], b[i - 1] + L.gap, top(i))
  BY <1>2, FitIs
<1>4. (\A i \in 1..n : top(i) \in Int /\ top(i) = top(i - 1) + L.gap) /\ top(n) = L.max /\ L.min <= top(1)
  <2>1. \A i \in 1..n : i \in Int /\ i - 1 \in Int
    BY <1>1
  <2>2. ASSUME NEW i \in 1..n PROVE top(i) \in Int /\ top(i) = top(i - 1) + L.gap
    <3>1. n \in Nat /\ i \in Int
      BY <1>1, <2>1
    <3> HIDE DEF n
    <3> QED BY <1>2, <3>1, RoomAbove
  <2>3. top(n) = L.max
    BY <1>1, <1>2, RoomAbove
  <2>4. L.min <= top(1)
    <3> DEFINE m == (n - 1) * L.gap
    <3>1. m \in Int
      BY <1>1, <1>2
    <3>2. L.min + m <= L.max
      BY DEF LeavesRoom
    <3> HIDE DEF m
    <3>3. L.min <= L.max - m
      BY <1>2, <3>1, <3>2
    <3> QED BY <3>3 DEF m
  <2> QED BY <2>2, <2>3, <2>4
<1> HIDE DEF top, s, b, n
<1> DEFINE S == {k \in 0..(n - 1) : b[k + 1] <= top(k + 1)}
<1>5. 0 \in S
  <2>1. 1 \in 1..n /\ 0 \in 0..(n - 1) /\ 0 + 1 = 1
    BY <1>1
  <2>2. b[1] <= top(1)
    BY <1>1, <1>2, <1>3, <1>4, <2>1 DEF Clamped
  <2> QED BY <2>1, <2>2
<1>6. ASSUME NEW i \in 2..n, b[i - 1] <= top(i - 1)
      PROVE  b[i] <= top(i) /\ b[i] - b[i - 1] >= L.gap
  <2>1. i \in 1..n /\ i - 1 \in 1..n
    BY <1>1
  <2>2. b[i - 1] \in Int /\ top(i - 1) \in Int /\ top(i) = top(i - 1) + L.gap /\ s[i] \in Int
    BY <1>1, <1>3, <1>4, <2>1
  <2>3. b[i] = Clamped(s[i], b[i - 1] + L.gap, top(i))
    BY <1>3
  <2> DEFINE lo == b[i - 1] + L.gap  x == s[i]  hi == top(i)
  <2>4. lo \in Int /\ lo <= top(i)
    BY <1>2, <1>6, <2>2
  <2>5. lo - b[i - 1] = L.gap
    BY <1>2, <2>2
  <2>6. x \in Int /\ hi \in Int /\ lo \in Int /\ lo <= hi
    BY <2>2, <2>4
  <2> HIDE DEF lo, x, hi
  <2>7. b[i] \in lo..top(i)
    <3>1. Clamped(x, lo, hi) \in lo..hi
      BY <2>6, ClampedIs, Zenon
    <3> QED BY <2>3, <3>1 DEF lo, x, hi
  <2> QED BY <2>2, <2>4, <2>5, <2>7
<1>7. ASSUME NEW k \in 0..(n - 1 - 1), k \in S PROVE k + 1 \in S
  <2>1. k + 1 \in 0..(n - 1) /\ k + 1 + 1 \in 2..n /\ k + 1 + 1 - 1 = k + 1
    BY <1>1
  <2>2. b[k + 1 + 1] <= top(k + 1 + 1)
    BY <1>6, <1>7, <2>1
  <2> QED BY <2>1, <2>2
<1>8. \A i \in 1..n : b[i] <= top(i)
  <2>1. n - 1 \in Nat /\ \A i \in 1..n : i - 1 \in 0..(n - 1) /\ i - 1 + 1 = i
    BY <1>1
  <2>2. 0..(n - 1) \subseteq S
    <3> HIDE DEF S
    <3> QED BY <1>5, <1>7, <2>1, InductionTo
  <2>3. ASSUME NEW i \in 1..n PROVE b[i] <= top(i)
    <3>1. i - 1 \in S
      BY <2>1, <2>2
    <3> QED BY <2>1, <3>1
  <2> QED BY <2>3
<1>9. Apart(b, n, L.gap)
  <2>1. \A i \in 2..n : i - 1 \in 1..n
    BY <1>1
  <2> QED BY <1>6, <1>8, <2>1 DEF Apart
<1>10. L.min <= b[1]
  <2>1. 1 \in 1..n
    BY <1>1
  <2> QED BY <1>1, <1>2, <1>3, <1>4, <2>1 DEF Clamped
<1>11. b[n] <= L.max
  <2>1. n \in 1..n
    BY <1>1
  <2> QED BY <1>4, <1>8, <2>1
<1>12. stblchck(b)
  <2>1. Len(b) = n
    <3>1. b \in Seq(Int) /\ DOMAIN b = 1..n
      BY <1>1, <1>3, SeqDef
    <3>2. Len(b) \in Nat /\ DOMAIN b = 1..Len(b)
      BY <3>1, LenProperties
    <3> QED BY <1>1, <3>1, <3>2
  <2>2. b[1] >= 0
    <3>1. b[1] \in Int
      BY <1>1, <1>3
    <3> QED BY <1>10, <3>1
  <2>3. \A k \in 2..n : b[k] >= b[k - 1]
    <3> SUFFICES ASSUME NEW k \in 2..n PROVE b[k] >= b[k - 1]
      OBVIOUS
    <3>1. b[k] \in Int /\ b[k - 1] \in Int
      <4>1. k \in 1..n /\ k - 1 \in 1..n
        BY <1>1
      <4> QED BY <1>3, <4>1
    <3>2. b[k] - b[k - 1] >= L.gap
      BY <1>9 DEF Apart
    <3> QED BY <3>1, <3>2
  <2> QED BY <2>1, <2>2, <2>3 DEF stblchck
<1>13. ASSUME Apart(v, n, L.gap), L.min <= v[1], v[n] <= L.max PROVE b = v
  <2>1. s = v
    <3>1. Ascends(v)
      BY <1>1, <1>13, ApartAscends DEF n
    <3> QED BY <3>1, SortIs DEF s
  <2>2. \A i \in 1..n : v[i] <= top(i)
    <3> DEFINE R == {k \in 0..(n - 1) : v[n - k] <= top(n - k)}
    <3>1. 0 \in R
      <4>1. 0 \in 0..(n - 1) /\ n - 0 = n
        BY <1>1
      <4> QED BY <1>4, <1>13, <4>1
    <3>2. ASSUME NEW k \in 0..(n - 1 - 1), k \in R PROVE k + 1 \in R
      <4>1. /\ k + 1 \in 0..(n - 1) /\ n - k \in 2..n /\ n - k \in 1..n /\ n - (k + 1) \in 1..n
            /\ n - k - 1 = n - (k + 1)
        BY <1>1
      <4>2. v[n - k] - v[n - (k + 1)] >= L.gap
        BY <1>13, <4>1 DEF Apart
      <4>3. top(n - k) = top(n - (k + 1)) + L.gap /\ top(n - (k + 1)) \in Int /\ v[n - k] <= top(n - k)
        BY <1>4, <3>2, <4>1
      <4>4. v[n - k] \in Int /\ v[n - (k + 1)] \in Int
        BY <1>1, <4>1
      <4>5. v[n - (k + 1)] <= top(n - (k + 1))
        <5> DEFINE x == v[n - k]  y == v[n - (k + 1)]  a == top(n - k)  c == top(n - (k + 1))
        <5>1. x - y >= L.gap /\ a = c + L.gap /\ c \in Int /\ x <= a /\ x \in Int /\ y \in Int
          BY <4>2, <4>3, <4>4
        <5> HIDE DEF x, y, a, c
        <5>2. y <= c
          BY <1>2, <5>1
        <5> QED BY <5>2 DEF y, c
      <4> QED BY <4>1, <4>5
    <3>3. 0..(n - 1) \subseteq R
      <4>1. n - 1 \in Nat
        BY <1>1
      <4> HIDE DEF R
      <4> QED BY <3>1, <3>2, <4>1, InductionTo
    <3>4. ASSUME NEW i \in 1..n PROVE v[i] <= top(i)
      <4>1. n - i \in 0..(n - 1) /\ n - (n - i) = i
        BY <1>1
      <4>2. n - i \in R
        BY <3>3, <4>1
      <4> QED BY <4>1, <4>2
    <3> QED BY <3>4
  <2> DEFINE Q == {k \in 0..(n - 1) : b[k + 1] = v[k + 1]}
  <2>3. 0 \in Q
    <3>1. 1 \in 1..n /\ 0 \in 0..(n - 1) /\ 0 + 1 = 1
      BY <1>1
    <3>2. v[1] \in Int /\ top(1) \in Int /\ L.min <= v[1] /\ v[1] <= top(1)
      BY <1>1, <1>4, <1>13, <2>2, <3>1
    <3>3. Clamped(v[1], L.min, top(1)) = v[1]
      BY <1>2, <3>2, ClampedIs, Zenon
    <3>4. b[1] = v[1]
      BY <1>3, <2>1, <3>1, <3>3
    <3> QED BY <3>1, <3>4
  <2>4. ASSUME NEW k \in 0..(n - 1 - 1), k \in Q PROVE k + 1 \in Q
    <3>1. /\ k + 1 \in 0..(n - 1) /\ k + 1 + 1 \in 2..n /\ k + 1 + 1 - 1 = k + 1 /\ k + 1 + 1 \in 1..n /\ k + 1 \in 1..n
      BY <1>1
    <3>2. v[k + 1 + 1] - v[k + 1] >= L.gap
      BY <1>13, <3>1 DEF Apart
    <3>3. b[k + 1 + 1] = Clamped(v[k + 1 + 1], v[k + 1] + L.gap, top(k + 1 + 1))
      BY <1>3, <2>1, <2>4, <3>1
    <3>4. v[k + 1 + 1] \in Int /\ v[k + 1] \in Int /\ top(k + 1 + 1) \in Int /\ v[k + 1 + 1] <= top(k + 1 + 1)
      BY <1>1, <1>4, <2>2, <3>1
    <3>5. b[k + 1 + 1] = v[k + 1 + 1]
      <4> DEFINE x == v[k + 1 + 1]  lo == v[k + 1] + L.gap  hi == top(k + 1 + 1)
      <4>1. x \in Int /\ lo \in Int /\ hi \in Int /\ lo <= x /\ x <= hi
        BY <1>2, <3>2, <3>4
      <4> HIDE DEF x, lo, hi
      <4>2. Clamped(x, lo, hi) = x
        BY <4>1, ClampedIs, Zenon
      <4> QED BY <3>3, <4>2 DEF x, lo, hi
    <3> QED BY <3>1, <3>5
  <2>5. 0..(n - 1) \subseteq Q
    <3>1. n - 1 \in Nat
      BY <1>1
    <3> HIDE DEF Q
    <3> QED BY <2>3, <2>4, <3>1, InductionTo
  <2>6. ASSUME NEW i \in 1..n PROVE b[i] = v[i]
    <3>1. i - 1 \in 0..(n - 1) /\ i - 1 + 1 = i
      BY <1>1
    <3>2. i - 1 \in Q
      BY <2>5, <3>1
    <3> QED BY <3>1, <3>2
  <2>7. b = [i \in 1..n |-> b[i]] /\ v = [i \in 1..n |-> v[i]]
    <3>1. DOMAIN v = 1..n
      BY LenProperties DEF n
    <3>2. v \in [1..n -> Int]
      BY LenProperties DEF n
    <3> QED BY <1>3, <3>2
  <2>8. [i \in 1..n |-> b[i]] = [i \in 1..n |-> v[i]]
    BY <2>6
  <2> QED BY <2>7, <2>8
<1> QED BY <1>9, <1>10, <1>11, <1>12, <1>13 DEF b, n

\* computeqLSF() of the decoder keeps all apart but the last, which it cuts off
\* where there is no room; the encoder's vector is the same unless the first
\* coefficient is below the limit.
LEMMA DecodedIsApart ==
  ASSUME NEW v \in Seq(Int), Len(v) >= 2, NEW L, L.min \in Int, L.max \in Int, L.gap \in Int
  PROVE  LET d == DecodedqLSF(v, L)
             n == Len(v)
         IN  /\ Apart(d, n - 1, L.gap) /\ L.min <= d[1] /\ d[n] <= L.max
             /\ d[n - 1] + L.gap <= L.max => Apart(d, n, L.gap)
             /\ insertionSort(v)[1] >= L.min => EncodedqLSF(v, L) = d
<1> DEFINE n == Len(v)
           s == insertionSort(v)
           w == [s EXCEPT ![1] = IF @ < L.min THEN L.min ELSE @]
           d == DecodedqLSF(v, L)
<1>1. /\ n \in Nat /\ n >= 2 /\ s \in Seq(Int) /\ Len(s) = n /\ Ascends(s)
      /\ s \in [1..n -> Int] /\ \A i \in 1..n : s[i] \in Int
  <2>1. /\ n \in Nat /\ n >= 2 /\ s \in Seq(Int) /\ Len(s) = n /\ Ascends(s)
    BY SortIs, LenProperties
  <2> HIDE DEF s
  <2> QED BY <2>1, LenProperties, ElementOfSeq
<1>2. d = SpacedFrom(w, L)
  BY DEF DecodedqLSF
<1>3. EncodedqLSF(v, L) = SpacedFrom([s EXCEPT ![2] = IF @ < L.min THEN L.min ELSE @], L)
  BY DEF EncodedqLSF
<1>4. insertionSort(v) = s
  OBVIOUS
<1> HIDE DEF s, d, n
<1>5. 1 \in 1..n /\ 2 \in 1..n /\ n \in 1..n /\ n - 1 \in 1..n /\ n # 1
  BY <1>1
<1>6. /\ w \in [1..n -> Int] /\ w[1] >= L.min
      /\ s[1] >= L.min => w = s
  <2>1. (IF s[1] < L.min THEN L.min ELSE s[1]) \in Int /\ (IF s[1] < L.min THEN L.min ELSE s[1]) >= L.min
    BY <1>1, <1>5
  <2>2. w \in [1..n -> Int] /\ w[1] = IF s[1] < L.min THEN L.min ELSE s[1]
    BY <1>1, <1>5, <2>1
  <2>3. s[1] >= L.min => w = s
    BY <1>1, <1>5
  <2> QED BY <2>1, <2>2, <2>3
<1>7. s[1] >= L.min => [s EXCEPT ![2] = IF @ < L.min THEN L.min ELSE @] = s
  <2>1. s[1] <= s[2]
    BY <1>1, <1>5 DEF Ascends
  <2>2. s[1] >= L.min => s[2] >= L.min
    BY <1>1, <1>5, <2>1
  <2> QED BY <1>1, <1>5, <2>2
<1>8. insertionSort(v)[1] >= L.min => EncodedqLSF(v, L) = d
  BY <1>2, <1>3, <1>4, <1>6, <1>7
<1> HIDE DEF w
<1>9. w \in Seq(Int) /\ Len(w) = n
  <2>1. w \in Seq(Int) /\ DOMAIN w = 1..n
    BY <1>1, <1>6, SeqDef
  <2>2. Len(w) \in Nat /\ DOMAIN w = 1..Len(w)
    BY <2>1, LenProperties
  <2> QED BY <1>1, <2>1, <2>2
<1>10. PICK p \in [1..n -> Int] :
         /\ p[1] = w[1]
         /\ \A i \in 2..n : p[i] = IF w[i] - p[i - 1] < L.gap THEN p[i - 1] + L.gap ELSE w[i]
         /\ d = [p EXCEPT ![n] = IF @ > L.max THEN L.max ELSE @]
  <2>1. Len(w) >= 1
    BY <1>1, <1>9
  <2>2. \E p \in [1..Len(w) -> Int] :
         /\ p[1] = w[1]
         /\ \A i \in 2..Len(w) : p[i] = IF w[i] - p[i - 1] < L.gap THEN p[i - 1] + L.gap ELSE w[i]
         /\ SpacedFrom(w, L) = [p EXCEPT ![Len(w)] = IF @ > L.max THEN L.max ELSE @]
    BY <1>9, <2>1, PushIs
  <2> QED BY <1>2, <1>9, <2>2
<1>11. \A i \in 2..n : p[i] - p[i - 1] >= L.gap
  <2> SUFFICES ASSUME NEW i \in 2..n PROVE p[i] - p[i - 1] >= L.gap
    OBVIOUS
  <2>1. i \in 1..n /\ i - 1 \in 1..n
    BY <1>1
  <2>2. w[i] \in Int /\ p[i - 1] \in Int
    BY <1>6, <2>1
  <2>3. p[i] = IF w[i] - p[i - 1] < L.gap THEN p[i - 1] + L.gap ELSE w[i]
    BY <1>10
  <2> QED BY <2>2, <2>3
<1>12. /\ \A i \in 1..n : i # n => d[i] = p[i]
       /\ d[n] = IF p[n] > L.max THEN L.max ELSE p[n]
  BY <1>5, <1>10
<1>13. p[n] \in Int /\ p[n - 1] \in Int
  BY <1>5
<1>14. Apart(d, n - 1, L.gap)
  <2>1. \A i \in 2..(n - 1) : i \in 2..n /\ i \in 1..n /\ i - 1 \in 1..n /\ i # n /\ i - 1 # n
    BY <1>1
  <2> QED BY <1>11, <1>12, <2>1 DEF Apart
<1>15. L.min <= d[1]
  <2>1. d[1] = w[1] /\ w[1] \in Int
    BY <1>5, <1>6, <1>10, <1>12
  <2> QED BY <1>6, <2>1
<1>16. d[n] <= L.max
  BY <1>12, <1>13
<1>17. ASSUME d[n - 1] + L.gap <= L.max PROVE Apart(d, n, L.gap)
  <2> SUFFICES ASSUME NEW i \in 2..n PROVE d[i] - d[i - 1] >= L.gap
    BY DEF Apart
  <2>1. CASE i = n
    <3>1. n - 1 # n /\ d[n - 1] = p[n - 1]
      BY <1>1, <1>5, <1>12
    <3>2. p[n] - p[n - 1] >= L.gap
      BY <1>11, <2>1
    <3>3. d[n] - d[n - 1] >= L.gap
      BY <1>12, <1>13, <1>17, <3>1, <3>2
    <3> QED BY <2>1, <3>3
  <2>2. CASE i # n
    <3>1. i \in 2..(n - 1)
      BY <1>1, <2>2
    <3> QED BY <1>14, <3>1 DEF Apart
  <2> QED BY <2>1, <2>2
<1> QED BY <1>8, <1>14, <1>15, <1>16, <1>17 DEF d, n

\* rearrangeCoefficients() takes from one what it gives to the next.
LEMMA RearrangedSum ==
  ASSUME NEW s \in Seq(Int), Len(s) >= 1, NEW J \in Int
  PROVE  Total(rearrangeCoefficients(s, J)) = Total(s)
<1> DEFINE n == Len(s)
           r == rearrangeCoefficients(s, J)
<1>1. n \in Nat /\ n >= 1 /\ \A i \in 1..n : s[i] \in Int
  BY LenProperties, ElementOfSeq
<1>2. PICK up \in [1..n -> Int] :
        /\ up[1] = s[1]
        /\ \A i \in 2..n : up[i] = s[i] + delta(up[i - 1], s[i], J)
        /\ r = [i \in 1..n |-> IF i = n THEN up[i] ELSE up[i] - delta(up[i], s[i + 1], J)]
  BY RaisedIs
<1>3. PICK u : Sums(s, u)
  BY SumsExist
<1>4. Total(s) = u[n]
  BY <1>3, TotalIs
<1>5. u \in [0..n -> Int] /\ u[0] = 0 /\ \A i \in 1..n : u[i] = u[i - 1] + s[i]
  BY <1>3 DEF Sums
<1> HIDE DEF n, r
<1> DEFINE e(i) == IF i \in 1..(n - 1) THEN delta(up[i], s[i + 1], J) ELSE 0
           t == [i \in 0..n |-> u[i] - e(i)]
<1>6. \A i \in 0..n : e(i) \in Int
  <2> SUFFICES ASSUME NEW i \in 1..(n - 1) PROVE delta(up[i], s[i + 1], J) \in Nat
    OBVIOUS
  <2>1. i \in 1..n /\ i + 1 \in 1..n
    BY <1>1
  <2>2. up[i] \in Int /\ s[i + 1] \in Int
    BY <1>1, <2>1
  <2> QED BY <2>2, DeltaIs
<1>7. ASSUME NEW i \in 1..n PROVE up[i] = s[i] + e(i - 1) /\ r[i] = up[i] - e(i)
  <2>1. i \in Int /\ (i # 1 => i \in 2..n /\ i - 1 \in 1..(n - 1) /\ i - 1 + 1 = i) /\ (i = 1 => i - 1 \notin 1..(n - 1))
    BY <1>1
  <2>2. i # n => i \in 1..(n - 1)
    BY <1>1
  <2>3. i = n => i \notin 1..(n - 1)
    BY <1>1
  <2>4. up[i] \in Int /\ s[i] \in Int
    BY <1>1
  <2>5. up[i] = s[i] + e(i - 1)
    BY <1>2, <2>1, <2>4
  <2>6. r[i] = IF i = n THEN up[i] ELSE up[i] - delta(up[i], s[i + 1], J)
    BY <1>2
  <2>7. r[i] = up[i] - e(i)
    BY <2>2, <2>3, <2>4, <2>6
  <2> QED BY <2>5, <2>7
<1>8. r \in [1..n -> Int]
  <2>1. \A i \in 1..n : i \in 0..n
    BY <1>1
  <2>2. \A i \in 1..n : r[i] \in Int
    <3> SUFFICES ASSUME NEW i \in 1..n PROVE r[i] \in Int
      OBVIOUS
    <3> HIDE DEF e, t
    <3>1. e(i) \in Int
      BY <1>6, <2>1
    <3>2. r[i] = up[i] - e(i)
      BY <1>7
    <3> QED BY <3>1, <3>2
  <2>3. r = [i \in 1..n |-> r[i]]
    BY <1>2
  <2> QED BY <2>2, <2>3
<1>9. r \in Seq(Int) /\ Len(r) = n
  <2>1. r \in Seq(Int) /\ DOMAIN r = 1..n
    BY <1>1, <1>8, SeqDef
  <2>2. Len(r) \in Nat /\ DOMAIN r = 1..Len(r)
    BY <2>1, LenProperties
  <2> QED BY <1>1, <2>1, <2>2
<1>10. t \in [0..n -> Int] /\ t[0] = 0 /\ t[n] = u[n]
  <2>1. 0 \in 0..n /\ n \in 0..n /\ 0 \notin 1..(n - 1) /\ n \notin 1..(n - 1)
    BY <1>1
  <2>2. e(0) = 0 /\ e(n) = 0
    BY <2>1
  <2> HIDE DEF e
  <2>3. t \in [0..n -> Int] /\ t[0] = u[0] - e(0) /\ t[n] = u[n] - e(n)
    BY <1>5, <1>6, <2>1
  <2>4. u[n] \in Int
    BY <1>5, <2>1
  <2> HIDE DEF t
  <2> QED BY <1>5, <2>2, <2>3, <2>4
<1>11. ASSUME NEW i \in 1..n PROVE t[i] = t[i - 1] + r[i]
  <2>1. i \in 0..n /\ i - 1 \in 0..n
    BY <1>1
  <2> HIDE DEF e
  <2>2. t[i] = u[i] - e(i) /\ t[i - 1] = u[i - 1] - e(i - 1)
    BY <2>1
  <2>3. e(i) \in Int /\ e(i - 1) \in Int /\ u[i] \in Int /\ u[i - 1] \in Int /\ s[i] \in Int
    BY <1>1, <1>5, <1>6, <2>1
  <2>4. u[i] = u[i - 1] + s[i] /\ r[i] = s[i] + e(i - 1) - e(i)
    <3>1. up[i] = s[i] + e(i - 1) /\ r[i] = up[i] - e(i)
      BY <1>7
    <3>2. u[i] = u[i - 1] + s[i]
      BY <1>5
    <3> HIDE DEF t
    <3> QED BY <2>3, <3>1, <3>2
  <2> HIDE DEF t
  <2> QED BY <2>2, <2>3, <2>4
<1>12. Total(r) = t[n]
  <2> HIDE DEF t
  <2>1. Sums(r, t)
    BY <1>9, <1>10, <1>11 DEF Sums
  <2> QED BY <1>9, <2>1, TotalIs
<1> QED BY <1>4, <1>10, <1>12 DEF r

\* Whatever vectors the indexes stand for, and for any limits that leave room.
THEOREM LspsAlwaysApart ==
  ASSUME NEW Values \in SUBSET Int, NEW n \in Nat, n >= 2,
         NEW L, L.min \in Nat, L.max \in Int, L.gap \in Nat, LeavesRoom(L, n)
  PROVE  LspsStayApart(Values, n, L)
<1> SUFFICES ASSUME NEW v \in [1..n -> Values]
             PROVE  LET b == stblz_lsp(v, L)
                        d == DecodedqLSF(v, L)
                        r == rearrangeCoefficients(insertionSort(v), L.gap)
                    IN  /\ Apart(b, n, L.gap) /\ L.min <= b[1] /\ b[n] <= L.max /\ stblchck(b)
                        /\ Apart(v, n, L.gap) /\ L.min <= v[1] /\ v[n] <= L.max => b = v
                        /\ Apart(d, n - 1, L.gap) /\ L.min <= d[1] /\ d[n] <= L.max
                        /\ d[n - 1] + L.gap <= L.max => Apart(d, n, L.gap)
                        /\ insertionSort(v)[1] >= L.min => EncodedqLSF(v, L) = d
                        /\ Total(r) = Total(v)
  BY DEF LspsStayApart
<1>1. v \in Seq(Int) /\ Len(v) = n
  <2>1. v \in [1..n -> Int]
    OBVIOUS
  <2>2. v \in Seq(Int) /\ DOMAIN v = 1..n
    BY <2>1, SeqDef
  <2>3. Len(v) \in Nat /\ DOMAIN v = 1..Len(v)
    BY <2>2, LenProperties
  <2> QED BY <2>2, <2>3
<1>2. LeavesRoom(L, Len(v)) /\ L.min \in Int /\ L.gap \in Int
  BY <1>1
<1>3. LET b == stblz_lsp(v, L) IN
        /\ Apart(b, n, L.gap) /\ L.min <= b[1] /\ b[n] <= L.max /\ stblchck(b)
        /\ Apart(v, n, L.gap) /\ L.min <= v[1] /\ v[n] <= L.max => b = v
  <2>1. Len(v) >= 1
    BY <1>1
  <2> QED BY <1>1, <1>2, <2>1, StabilizedIsApart
<1>4. LET d == DecodedqLSF(v, L) IN
        /\ Apart(d, n - 1, L.gap) /\ L.min <= d[1] /\ d[n] <= L.max
        /\ d[n - 1] + L.gap <= L.max => Apart(d, n, L.gap)
        /\ insertionSort(v)[1] >= L.min => EncodedqLSF(v, L) = d
  BY <1>1, <1>2, DecodedIsApart
<1>5. Total(rearrangeCoefficients(insertionSort(v), L.gap)) = Total(v)
  <2>1. insertionSort(v) \in Seq(Int) /\ Len(insertionSort(v)) >= 1 /\ Total(insertionSort(v)) = Total(v)
    BY <1>1, SortIs
  <2> QED BY <1>2, <2>1, RearrangedSum
<1> QED BY <1>3, <1>4, <1>5

\* The vectors and limits of the run are a case of it.
THEOREM VectorsAlwaysApart == Spec => []VectorsStayApart
<1> DEFINE L == [min |-> 1, max |-> 8, gap |-> 2]
<1>1. VectorsStayApart
  <2>1. /\ 0..8 \in SUBSET Int /\ 4 \in Nat /\ 4 >= 2
        /\ L.min \in Nat /\ L.max \in Int /\ L.gap \in Nat /\ LeavesRoom(L, 4)
    BY DEF LeavesRoom
  <2> HIDE DEF L
  <2>2. LspsStayApart(0..8, 4, L)
    BY <2>1, LspsAlwaysApart
  <2> QED BY <2>2 DEF VectorsStayApart, L
<1>2. QED
  BY <1>1, PTL

\* So are those of the codecs: the eight LSPs of BV16 (bvcommon.h) and the ten
\* of G.729 (codecParameters.h), with their limits.
THEOREM TheCodecsVectorsApart ==
  /\ LspsStayApart(Int, 8, [min |-> 49, max |-> 32694, gap |-> 410])
  /\ LspsStayApart(Int, 10, [min |-> 40, max |-> 25681, gap |-> 321])
<1> DEFINE B == [min |-> 49, max |-> 32694, gap |-> 410]
           G == [min |-> 40, max |-> 25681, gap |-> 321]
<1>1. /\ Int \in SUBSET Int /\ 8 \in Nat /\ 8 >= 2 /\ 10 \in Nat /\ 10 >= 2
      /\ B.min \in Nat /\ B.max \in Int /\ B.gap \in Nat /\ LeavesRoom(B, 8)
      /\ G.min \in Nat /\ G.max \in Int /\ G.gap \in Nat /\ LeavesRoom(G, 10)
  BY DEF LeavesRoom
<1> HIDE DEF B, G
<1>2. LspsStayApart(Int, 8, B)
  BY <1>1, LspsAlwaysApart
<1>3. LspsStayApart(Int, 10, G)
  BY <1>1, LspsAlwaysApart
<1> QED BY <1>2, <1>3 DEF B, G
=============================================================================
