------------------------------ MODULE DialogPair ------------------------------
(***************************************************************************)
(* Two InviteDialogs under users that may call any operation at any time   *)
(* the dialog accepts it.                                                  *)
(***************************************************************************)
EXTENDS InviteDialog

Init == DialogInit

UserStep(p) ==
  \/ p = Callee /\ Listen(p)
  \/ p = Caller /\ Invite(p)
  \/ p \in ReInviters /\ ReInvite(p)
  \/ Accept(p)
  \/ \E n \in CSeq : CancelMeetsAccept(p, n, Callback)
  \/ Refuse(p)
  \/ Bye(p)
  \/ Cancel(p)
  \/ Terminate(p, Callback)

DialogStep(p) == \E byes \in BOOLEAN : DialogEvent(p, Callback, byes)

Next == \E p \in Party : UserStep(p) \/ DialogStep(p)

Spec == Init /\ [][Next]_dialogVars

-----------------------------------------------------------------------------
(* Properties *)

TypeOK == DialogTypeOK

\* A dialog gives an INVITE one final answer, whether accept(), refuse() or an
\* unsupported extension (420) comes first, unless its sender has sent a CANCEL:
\* then a 2xx and a 487 may both go out (respond() against onTransRequest()).
\* The 501 of a default server to an INVITE that comes again late, when its
\* transaction has ended, is not the dialog's.
OneFinalAnswer ==
  \A p \in Party, n \in CSeq :
    Arrives("2xx", p, n) /\ Arrives("failure", p, n)
      => \E k \in CSeq : Arrives("CANCEL", p, k)

\* What p has asked for.
Asked(p) == {m \in net : m.from = p /\ m.kind \in {"INVITE", "BYE", "CANCEL"}}

\* A closed dialog is dead: no late answer, timeout or request reopens it, and
\* it asks for nothing more.
StaysClosed ==
  \A p \in Party : Status(p) = "Close" => Status(p)' = "Close" /\ Asked(p)' = Asked(p)
CloseIsFinal == [][StaysClosed]_dialogVars

\* An established callee talks to a caller that has accepted its answer.
CallIsMutual ==
  Status(Callee) \in {"Call", "Byeing", "ReInviting", "ReInvited"}
     => Status(Caller) \notin {"Init", "Inviting"}

\* Whoever got a 200 to its BYE has a peer that is closed, too.
ByeAgreement ==
  \A p \in Party, n \in CSeq : Arrives("byeOk", p, n) => Status(Peer(p)) = "Close"
=============================================================================
