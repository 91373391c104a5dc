------------------------------ MODULE BitQueue ------------------------------
(***************************************************************************)
(* What speex_bits.h promises of a SpeexBits: a string of bits with a read *)
(* position, no notion of chars, buffers or spare room.  Bits are appended *)
(* at the end and read in the same order; a read past the end is answered  *)
(* with 0, as is every later one until the stream is rewound or replaced.  *)
(***************************************************************************)
EXTENDS Integers, Sequences, SequencesExt

CONSTANTS
  C,            \* the bits of a char
  Widths,       \* the field widths that are packed and unpacked
  Packets       \* the packets, strings of whole chars, that are received

VARIABLES
  bits,         \* the string
  pos,          \* how many of them have been read
  overflow,     \* a read went past the end
  out,          \* what the last step gave to its caller
  room          \* how many chars the memory it is kept in can hold

vars == <<bits, pos, overflow, out>>

Value(s) == FoldLeft(LAMBDA v, x : 2 * v + x, 0, s)
Signed(v, n) == IF v >= 2^(n-1) THEN v - 2^n ELSE v
Field == UNION {[1..n -> {0, 1}] : n \in Widths}
Cut == UNION {{SubSeq(p, 1, k * C) : k \in 0..(Len(p) \div C)} : p \in Packets}

Init == bits = <<>> /\ pos = 0 /\ overflow = FALSE /\ out = <<>>

\* A field is appended whole, or refused whole.
Put == \E s \in Field : /\ bits' = bits \o s /\ pos' = Len(bits')
                        /\ out' = <<>> /\ UNCHANGED overflow

\* A field is read, looked at, or skipped.
Next_(n) == SubSeq(bits, pos + 1, pos + n)
Get == \E n \in Widths :
  \/ /\ overflow \/ pos + n > Len(bits)
     /\ overflow' = TRUE /\ out' \in {<<>>, <<0>>} /\ UNCHANGED <<bits, pos>>
  \/ /\ ~overflow /\ pos + n <= Len(bits)
     /\ \/ pos' = pos + n /\ out' \in {<<>>, <<Value(Next_(n))>>, <<Signed(Value(Next_(n)), n)>>}
        \/ pos' = pos /\ out' = <<Value(Next_(n))>>
     /\ UNCHANGED <<bits, overflow>>

\* The stream starts over, empty or with the same content.
Reset  == bits' = <<>> /\ pos' = 0 /\ overflow' = FALSE /\ out' = <<>>
Rewind == pos' = 0 /\ overflow' = FALSE /\ out' = <<>> /\ UNCHANGED bits

\* A packet, cut to the chars there is room for, replaces the content or
\* follows the chars that are not read yet.
Load == /\ bits' \in Cut /\ pos' = 0 /\ overflow' = FALSE /\ out' = <<>>
Extend == \E s \in Cut :
  LET gone == pos - (pos % C) IN
  /\ bits' = SubSeq(bits, gone + 1, Len(bits)) \o s
  /\ pos' = pos % C /\ out' = <<>> /\ UNCHANGED overflow

\* A packet there is no room for, or that follows a part of a char: nothing can
\* be read until the stream is emptied or replaced.
Spoil == /\ \E p \in Packets : Len(bits) % C # 0 \/ Len(bits) + Len(p) > room * C
         /\ bits' = <<>> /\ pos' = 0 /\ overflow' = TRUE /\ out' = <<>>

\* The stream is given out: padded with a terminator, 0 then ones, to a whole
\* char, in a buffer that may be too short.
Terminator(n) == [i \in 1..((-n) % C) |-> IF i = 1 THEN 0 ELSE 1]
Write == LET s == bits \o Terminator(Len(bits)) IN
         /\ \E k \in 0..(Len(s) \div C) : out' = SubSeq(s, 1, k * C)
         /\ UNCHANGED <<bits, pos, overflow>>

\* Whole chars only are given out and leave the stream; with room for all of
\* them the bits of the last, partial char remain.
Ship == \E k \in 0..(Len(bits) \div C) :
  /\ out' = SubSeq(bits, 1, k * C)
  /\ bits' = SubSeq(bits, k * C + 1, k * C + (Len(bits) % C))
  /\ pos' = Len(bits') /\ UNCHANGED overflow

Next == Put \/ Get \/ Reset \/ Rewind \/ Load \/ Extend \/ Spoil \/ Write \/ Ship

Spec == Init /\ [][Next]_vars
=============================================================================
