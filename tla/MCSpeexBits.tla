---------------------------- MODULE MCSpeexBits -----------------------------
(* Chars of three bits in a buffer of two, packets of one to three chars. *)
EXTENDS SpeexBits
MCPackets == {<<1, 0, 1>>, <<0, 1, 1, 1, 1, 0>>, <<1, 0, 0, 1, 1, 0, 0, 1, 0>>}
=============================================================================
