----------------------------- MODULE SpeexBits ------------------------------
(***************************************************************************)
(* libspeex/bits.c: the bit stream every field of a Speex frame goes       *)
(* through.  A stream is a buffer of buf_size chars of C bits, of which    *)
(* nbBits are valid, and one cursor; (charPtr << LOG2) + bitPtr of the     *)
(* source is the field ptr.  The buffer is held bit by bit, the first bit  *)
(* of a char being its highest.  Packing ORs bits into a char that must    *)
(* have been cleared, so what lies beyond the cursor matters.              *)
(***************************************************************************)
EXTENDS Integers, Sequences, SequencesExt, FiniteSetsExt

CONSTANTS
  C,            \* BITS_PER_CHAR
  MaxChars,     \* MAX_CHARS_PER_FRAME, the size of an owned buffer at first
  Widths,       \* the field widths that are packed and unpacked
  Packets,      \* the packets, strings of whole chars, that are received
  MaxBits       \* bound of a run on the bits that are packed

\* A field is an int of 32 bits, in four chars; it is unpacked with its sign by
\* a shift of its width.  A packet is a string of chars.
ASSUME BitsAssumption ==
  /\ C \in Nat \ {0} /\ MaxChars \in Nat \ {0} /\ MaxBits \in Nat
  /\ Widths \subseteq 1..31 /\ \A n \in Widths : n <= 4 * C
  /\ Packets \subseteq Seq({0, 1}) /\ \A p \in Packets : Len(p) % C = 0

VARIABLES
  b,            \* the SpeexBits structure
  phase,        \* how its owner uses it, or what an append did to it: see Phases
  out           \* what the last step gave to its caller

vars == <<b, phase, out>>

\* A stream hangs in a terminator; an append spoils its content, or leaves
\* the buffer, after which nothing is defined.
Phases == {"writing", "written", "reading", "hung", "spoilt", "overrun"}
Spoilt == phase \in {"spoilt", "overrun"}

Min2(x, y) == IF x < y THEN x ELSE y
Value(s) == FoldLeft(LAMBDA v, x : 2 * v + x, 0, s)
Slice(s, from, n) == [i \in 1..n |-> s.buf[from + i - 1]]
Size(s) == Cardinality(DOMAIN s.buf) \div C                     \* buf_size
Wholes(s) == (s.nbBits + C - 1) \div C                          \* speex_bits_nbytes

\* A buffer that is allocated is zero; one that is reallocated keeps what it
\* had and continues with whatever the heap holds.
Buffer(chars, fill) == [i \in 0..(chars * C - 1) |-> fill]
Resized(s, chars, junk) ==
  [s EXCEPT !.buf = [i \in 0..(chars * C - 1) |-> IF i \in DOMAIN s.buf THEN s.buf[i] ELSE junk]]
ClearChar(buf, c) == [i \in DOMAIN buf |-> IF i \div C = c THEN 0 ELSE buf[i]]
Store(buf, at, s) == [i \in DOMAIN buf |->
                        IF i \in at..(at + Len(s) - 1) THEN s[i - at + 1] ELSE buf[i]]

speex_bits_reset(s) ==
  [s EXCEPT !.buf = ClearChar(@, 0), !.nbBits = 0, !.ptr = 0, !.overflow = FALSE]
speex_bits_rewind(s) == [s EXCEPT !.ptr = 0, !.overflow = FALSE]

speex_bits_init == speex_bits_reset(
  [buf |-> Buffer(MaxChars, 0), nbBits |-> 0, ptr |-> 0, owner |-> TRUE, overflow |-> FALSE])
speex_bits_init_buffer(buf) == speex_bits_reset(
  [buf |-> buf, nbBits |-> 0, ptr |-> 0, owner |-> FALSE, overflow |-> FALSE])
speex_bits_set_bit_buffer(buf) ==
  [buf |-> buf, nbBits |-> Cardinality(DOMAIN buf), ptr |-> 0, owner |-> FALSE, overflow |-> FALSE]
\* Faulty variant: a char that becomes full does not clear the next one.
PackBitUncleared(s, bit) ==
  [s EXCEPT !.buf = IF bit = 1 THEN [@ EXCEPT ![s.ptr] = 1] ELSE @, !.ptr = @ + 1, !.nbBits = @ + 1]

\* One bit is ORed in; a char that becomes full clears the next one.
PackBit(s, bit) ==
  LET set  == [s.buf EXCEPT ![s.ptr] = IF bit = 1 THEN 1 ELSE @]
      next == s.ptr + 1
  IN [s EXCEPT !.buf = IF next % C = 0 THEN ClearChar(set, next \div C) ELSE set,
               !.ptr = next, !.nbBits = @ + 1]

PackBits(s, field) ==
  LET packed[i \in 0..Len(field)] == IF i = 0 THEN s ELSE PackBit(packed[i-1], field[i])
  IN packed[Len(field)]

\* The room is tested for the whole field and for the char after it; only an
\* owned buffer grows, and not if realloc fails.
NoRoom(s, n) == (s.ptr + n) \div C >= Size(s)
Grown(s, junk) == Resized(s, ((Size(s) + 5) * 3) \div 2, junk)
speex_bits_pack(s, field, realloc, junk) ==
  IF NoRoom(s, Len(field)) /\ ~(s.owner /\ realloc) THEN s
  ELSE PackBits(IF NoRoom(s, Len(field)) THEN Grown(s, junk) ELSE s, field)

\* Bit by bit: a 0, then ones up to the end of the char.  The loop waits for
\* bitPtr to become 0, which it never does once a bit is refused.
Stuck(s, realloc) == s.ptr % C # 0 /\ s.ptr \div C = Size(s) - 1 /\ ~(s.owner /\ realloc)
speex_bits_insert_terminator(s, realloc, junk) ==
  LET room == (-s.ptr) % C
      padded[i \in 0..room] ==
        IF i = 0 THEN s
        ELSE speex_bits_pack(padded[i-1], <<IF i = 1 THEN 0 ELSE 1>>, realloc, junk)
  IN padded[room]

\* The cursor and the length are put back, the bits of the terminator are not.
speex_bits_write(s, max, realloc, junk) ==
  LET t == speex_bits_insert_terminator(s, realloc, junk)
      n == Min2(max, Wholes(s))
  IN [s |-> [t EXCEPT !.ptr = s.ptr, !.nbBits = s.nbBits], chars |-> Slice(t, 0, n * C)]

speex_bits_write_whole_bytes(s, max) ==
  LET n == Min2(max, s.nbBits \div C)
      first == IF s.ptr % C > 0 THEN Slice(s, n * C, C) ELSE [i \in 1..C |-> 0]
  IN [s |-> [s EXCEPT !.buf = Store(@, 0, first), !.ptr = @ % C, !.nbBits = @ % C],
      chars |-> Slice(s, 0, n * C)]

\* Every read tests the end first, and nothing is read once it was passed.
Past(s, n) == s.overflow \/ s.ptr + n > s.nbBits
speex_bits_peek_unsigned(s, n) ==
  IF Past(s, n) THEN [s |-> [s EXCEPT !.overflow = TRUE], d |-> 0]
  ELSE [s |-> s, d |-> Value(Slice(s, s.ptr, n))]
speex_bits_peek(s) == speex_bits_peek_unsigned(s, 1)
speex_bits_advance(s, n) ==
  IF Past(s, n) THEN [s EXCEPT !.overflow = TRUE] ELSE [s EXCEPT !.ptr = @ + n]
speex_bits_unpack_unsigned(s, n) ==
  [s |-> speex_bits_advance(s, n), d |-> speex_bits_peek_unsigned(s, n).d]
speex_bits_unpack_signed(s, n) ==
  LET u == speex_bits_unpack_unsigned(s, n)
  IN [u EXCEPT !.d = IF @ >= 2^(n-1) THEN @ - 2^n ELSE @]

\* A packet replaces the content; one too large for the buffer is truncated
\* unless the buffer is owned and can grow.
Fit(s, n, realloc, junk) ==
  IF n > Size(s) /\ s.owner /\ realloc THEN Resized(s, n, junk) ELSE s
speex_bits_read_from(s, chars, realloc, junk) ==
  LET t == Fit(s, Len(chars) \div C, realloc, junk)
      n == Min2(Len(chars) \div C, Size(t)) * C
  IN [t EXCEPT !.buf = Store(@, 0, SubSeq(chars, 1, n)),
               !.nbBits = n, !.ptr = 0, !.overflow = FALSE]
\* Faulty variant: the bits of a char that is read in part are forgotten.
speex_bits_flush_part(s) ==
  LET gone == s.ptr - (s.ptr % C) IN
  [s EXCEPT !.buf = Store(@, 0, Slice(s, gone, Wholes(s) * C - gone)),
            !.nbBits = @ - s.ptr, !.ptr = 0]

\* The chars already read are dropped and a packet is appended to the rest.
speex_bits_flush(s) ==
  LET gone == s.ptr - (s.ptr % C) IN
  [s EXCEPT !.buf = Store(@, 0, Slice(s, gone, Wholes(s) * C - gone)),
            !.nbBits = @ - gone, !.ptr = @ % C]
\* Out of room, the chars that follow are counted anew: an owned buffer that
\* is full takes -1 of them, a borrowed one as many as it has in all.
NoneLeft(s, want) == Wholes(s) + want > Size(s)
Taken(s, want, realloc) ==
  IF ~NoneLeft(s, want) \/ (s.owner /\ realloc) THEN want
  ELSE IF s.owner THEN Size(s) - s.nbBits \div C - 1 ELSE Size(s)
RoomFor(s, want, realloc, junk) ==
  IF NoneLeft(s, want) /\ s.owner /\ realloc
  THEN Resized(s, s.nbBits \div C + want + 1, junk) ELSE s
speex_bits_read_whole_bytes(s, chars, realloc, junk) ==
  LET want == Len(chars) \div C
      n == Taken(s, want, realloc)
      t == speex_bits_flush(RoomFor(s, want, realloc, junk))
  IN [t EXCEPT !.buf = Store(@, (t.nbBits \div C) * C,
                             [i \in 1..(n * C) |-> IF i <= Len(chars) THEN chars[i] ELSE junk]),
               !.nbBits = @ + n * C]

\* It reads past the packet, writes before the buffer, or leaves a length that
\* is not the buffer's.
Outside(s, chars, realloc, junk) ==
  LET want == Len(chars) \div C
      n == Taken(s, want, realloc)
      t == speex_bits_flush(RoomFor(s, want, realloc, junk))
  IN n > 0 /\ (n > want \/ t.nbBits < 0 \/ t.nbBits + n * C > Size(t) * C)
-----------------------------------------------------------------------------
Fields  == UNION {[1..n -> {0, 1}] : n \in Widths}
\* What an allocation may do: fail, or give memory that holds anything.
Heap == {[realloc |-> FALSE, junk |-> 0], [realloc |-> TRUE, junk |-> 0],
         [realloc |-> TRUE, junk |-> 1]}

Init == /\ b = speex_bits_init \/ \E fill \in {0, 1} : b = speex_bits_init_buffer(Buffer(MaxChars, fill))
        /\ phase = "writing" /\ out = <<>>

\* A coder appends fields after a reset, until it writes the stream out.
Pack == /\ phase = "writing"
        /\ \E field \in Fields, h \in Heap :
             b.nbBits + Len(field) <= MaxBits
             /\ b' = speex_bits_pack(b, field, h.realloc, h.junk)
        /\ out' = <<>> /\ UNCHANGED phase

\* Once written, a stream that was not a whole number of chars is only reset.
Write == /\ phase \in {"writing", "written"}
         /\ \E max \in 0..(MaxChars + 1), h \in Heap :
              /\ ~Stuck(b, h.realloc)
              /\ LET w == speex_bits_write(b, max, h.realloc, h.junk)
                 IN b' = w.s /\ out' = w.chars
         /\ phase' = IF b.ptr % C = 0 THEN phase ELSE "written"

\* The terminator of the last char of a buffer that cannot grow never ends.
Hang == /\ phase \in {"writing", "written"}
        /\ \E realloc \in BOOLEAN : Stuck(b, realloc)
        /\ phase' = "hung" /\ out' = <<>> /\ UNCHANGED b

\* The caller has room for all of them: cut short, the source keeps a char that
\* was full and ORs the next fields into it.
WriteWhole == /\ phase = "writing"
              /\ \E max \in (b.nbBits \div C)..(MaxChars + 1) :
                   LET w == speex_bits_write_whole_bytes(b, max)
                   IN b' = w.s /\ out' = w.chars
              /\ UNCHANGED phase

Reset  == phase \notin {"hung", "overrun"} /\ b' = speex_bits_reset(b) /\ phase' = "writing" /\ out' = <<>>
Rewind == /\ phase \notin {"hung", "overrun"} /\ b' = speex_bits_rewind(b)
          /\ phase' = IF phase = "spoilt" THEN phase ELSE "reading"
          /\ out' = <<>>

\* A decoder reads a packet that came from the network.
Receive == /\ phase \notin {"hung", "overrun"}
           /\ \E p \in Packets :
                \/ \E h \in Heap : b' = speex_bits_read_from(b, p, h.realloc, h.junk)
                \/ p # <<>> /\ b' = speex_bits_set_bit_buffer([i \in 0..(Len(p) - 1) |-> p[i + 1]])
           /\ phase' = "reading" /\ out' = <<>>

\* More of it is appended.  A char that was begun is overwritten, and of a full
\* buffer the last char is lost: what is read then is not what was received.
ReceiveMore ==
  /\ phase \in {"reading", "spoilt"}
  /\ \E p \in Packets, h \in Heap :
       /\ b.nbBits + Len(p) <= (MaxChars + 1) * C
       /\ b' = speex_bits_read_whole_bytes(b, p, h.realloc, h.junk)
       /\ phase' = IF Outside(b, p, h.realloc, h.junk) THEN "overrun"
                   ELSE IF b.nbBits % C # 0 \/ Taken(b, Len(p) \div C, h.realloc) < 0 THEN "spoilt"
                   ELSE phase
  /\ out' = <<>>

Unpack == /\ phase \in {"reading", "spoilt"}
          /\ \E n \in Widths :
               \/ \E r \in {speex_bits_unpack_unsigned(b, n), speex_bits_unpack_signed(b, n),
                            speex_bits_peek_unsigned(b, n)} : b' = r.s /\ out' = <<r.d>>
               \/ 1 \in Widths /\ LET r == speex_bits_peek(b) IN b' = r.s /\ out' = <<r.d>>
               \/ b' = speex_bits_advance(b, n) /\ out' = <<>>
          /\ UNCHANGED phase

Next == Pack \/ Write \/ Hang \/ WriteWhole \/ Reset \/ Rewind \/ Receive \/ ReceiveMore \/ Unpack

Spec == Init /\ [][Next]_vars
-----------------------------------------------------------------------------
TypeOK == /\ b.buf \in [0..(Size(b) * C - 1) -> {0, 1}]
          /\ b.nbBits \in Int /\ b.ptr \in Nat /\ b.owner \in BOOLEAN /\ b.overflow \in BOOLEAN
          /\ phase \in Phases

\* The cursor and the length never leave an owned buffer, whatever was packed,
\* grown, truncated, dropped or appended (speex_bits_pack tests the room of a
\* whole field, and clears one char beyond it), nor a borrowed one until
\* speex_bits_read_whole_bytes finds no room in it: its count of the chars that
\* fit, the whole buffer, is then wrong (bits.c:170-182).  The cursor is within
\* the content until an append spoils that.  While a coder writes, the char at
\* the cursor is clear from the cursor on, so that ORing is storing.
RoomToWrite ==
  /\ (phase = "overrun" /\ ~b.owner) \/ (b.ptr <= Size(b) * C /\ b.nbBits <= Size(b) * C)
  /\ ~Spoilt => b.ptr <= b.nbBits
  /\ phase = "writing" =>
       /\ b.ptr = b.nbBits /\ b.ptr \div C < Size(b)
       /\ \A i \in DOMAIN b.buf : i >= b.ptr /\ i \div C = b.ptr \div C => b.buf[i] = 0

\* The stream behaves as the string of bits that speex_bits.h promises: what
\* was packed is what is written, read back and sent, in order, and a read
\* past the end is refused for good (bits.c); what an append that does not fit
\* leaves is promised nothing until the stream is emptied or replaced.
Queue == INSTANCE BitQueue
           WITH bits <- IF Spoilt THEN <<>> ELSE Slice(b, 0, b.nbBits),
                pos <- IF Spoilt THEN 0 ELSE b.ptr,
                overflow <- Spoilt \/ b.overflow,
                out <- IF Spoilt THEN <<>> ELSE out,
                room <- Size(b)
IsBitQueue == Queue!Spec
=============================================================================
