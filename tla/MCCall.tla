------------------------------- MODULE MCCall -------------------------------
(* Model values for Call. *)
EXTENDS Call
CONSTANTS alice, bob
MCBoth == {alice, bob}
=============================================================================
