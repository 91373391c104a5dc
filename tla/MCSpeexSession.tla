--------------------------- MODULE MCSpeexSession ---------------------------
(***************************************************************************)
(* A Speex call for TLC.                                                   *)
(***************************************************************************)
EXTENDS SpeexSession, TLC

\* Nothing tells one LSP vector from another.
MCSymmetry == Permutations(Lsps)

\* Two wideband layers, which are passed, and three, which are refused, as one
\* without a size is; a request that has a handler, one that has none, a user
\* request; and the request for VBR, which its handler misreads.
Layer(m) == [kind |-> "wb", m |-> m]
MCExtras == {<<Layer(4), Layer(1)>>, <<Layer(1), Layer(1), Layer(1)>>, <<[kind |-> "ask", id |-> 8]>>,
             <<Layer(0)>>, <<[kind |-> "ask", id |-> 9]>>, <<[kind |-> "ask", id |-> 7]>>,
             <<[kind |-> "user", size |-> 3]>>}
=============================================================================
