----------------------------- MODULE MCVoiceLink -----------------------------
(***************************************************************************)
(* Model values of VoiceLink: what the analyses find, frame by frame.      *)
(***************************************************************************)
EXTENDS VoiceLink

\* No two frames of speech have the same indexes; the delays and pulses stand at
\* the ends of their ranges (second: of the one after the first delay) and inside them.
Delays == <<[T |-> 143, frac |-> 0, second |-> 143], [T |-> 20, frac |-> 1, second |-> 29],
            [T |-> 85, frac |-> -1, second |-> 89], [T |-> 84, frac |-> 1, second |-> 88],
            [T |-> 137, frac |-> 0, second |-> 141], [T |-> 60, frac |-> 0, second |-> 64]>>
Subframe(T, frac, i) ==
  [T |-> T, frac |-> frac, m |-> <<5 * (i % 8), 1, 37, IF i % 2 = 0 THEN 39 ELSE 3>>,
   signs |-> i % 16, ga |-> i % 8, gb |-> (2 * i) % 16]
Hearing(Ef, El, ZC, lsf) == [Ef |-> Ef, El |-> El, ZC |-> ZC, lsf |-> lsf, tonal |-> FALSE]
SpeechOf(i, heard) ==
  LET d == Delays[(i % 6) + 1]
  IN  [heard |-> heard, changed |-> i % 5 = 0, L |-> <<i % 2, 127 - i, i, 31 - i>>,
       sid |-> <<i % 2, i, i % 16, (5 * i) % 32>>,
       sub |-> <<Subframe(d.T, d.frac, i), Subframe(d.second, -1, i + 3)>>]
Spoken(hearings) == [i \in 1..Len(hearings) |-> SpeechOf(i, hearings[i])]

\* A talk that pauses: the hiss of the line, which the detector needs some frames
\* to know; its energy moves when the hangover ends, and when the talk goes on it
\* begins as a hum, no louder than the hiss.  And a call that begins in silence.
Hiss == Hearing(3500, 1500, 8200, 9000)
Swell == Hearing(4200, 1500, 8200, 9000)
Hum == Hearing(3500, 1600, 8200, 7000)
Vowel == Hearing(6300, 6000, 4100, 6000)
Silence == Hearing(2000, 500, 8200, 9000)
Pausing == [i \in 1..11 |-> Hiss] \o <<Swell>> \o [i \in 1..10 |-> Hiss] \o <<Hum, Hum, Vowel>>
Beginning == <<Silence, Silence, Silence, Hiss, Vowel>> \o [i \in 1..13 |-> Silence]

\* A steady tone; one that begins after silence; and one that comes and goes so
\* that even the smallest gain is a rise beyond the limit (frame 7), with a
\* vector that is out of order.
BV16Frame(i, gain, ordered) ==
  [stage1 |-> i, stage2 |-> (7 * i) % 64, sign |-> IF i % 2 = 0 THEN 1 ELSE -1,
   ordered |-> ordered, pp |-> 10 + ((40 * i) % 128), gain |-> gain,
   bq |-> (9 * i) % 32, qv |-> [k \in 1..10 |-> (11 * i + k) % 32]]
Steady == [i \in 1..13 |-> BV16Frame(i, 7, TRUE)]
Onset == [i \in 1..13 |-> BV16Frame(i, IF i < 4 THEN 0 ELSE 15, TRUE)]
Bursts ==
  LET gains == <<0, 0, 0, 0, 7, 13, 0, 10, 0, 0, 13, 3, 0>>
  IN  [i \in 1..13 |-> BV16Frame(i, gains[i], i # 5)]

\* Of every three vectors one begins below the limit.
FirstIsLow(sum) == sum.ma # "none" /\ sum.words[1][1] % 3 = 0

Plain(found) == [VAD |-> FALSE, frames |-> found]
WithVAD(hearings) == [VAD |-> TRUE, frames |-> Spoken(hearings)]
TheSounds ==
  [c \in Codec |->
     IF c = "G729"
     THEN [speech |-> Plain(Spoken([i \in 1..7 |-> Vowel])),
           pausing |-> WithVAD(Pausing), beginning |-> WithVAD(Beginning)]
     ELSE [steady |-> Plain(Steady), onset |-> Plain(Onset), bursts |-> Plain(Bursts)]]
=============================================================================
