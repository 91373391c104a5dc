---------------------------- MODULE OutcomePromise ----------------------------
(***************************************************************************)
(* What a client transaction promises its user: once asked, it tells at    *)
(* most one final outcome, and nothing after the user dropped it.          *)
(***************************************************************************)
EXTENDS Sequences

CONSTANT Outcomes

VARIABLES phase, told

vars == <<phase, told>>

Init == phase = "idle" /\ told = <<>>

Ask == phase = "idle" /\ phase' = "pending" /\ UNCHANGED told

Tell(o) == phase = "pending" /\ phase' = "told" /\ told' = <<o>>

Drop == phase = "pending" /\ phase' = "dropped" /\ UNCHANGED told

Next == Ask \/ (\E o \in Outcomes : Tell(o)) \/ Drop

Spec == Init /\ [][Next]_vars
=============================================================================
