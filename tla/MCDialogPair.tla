---------------------------- MODULE MCDialogPair ----------------------------
(* Model values for DialogPair. *)
EXTENDS DialogPair
CONSTANTS alice, bob
MCBoth == {alice, bob}
MCCaller == {alice}
=============================================================================
