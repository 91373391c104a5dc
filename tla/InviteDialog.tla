----------------------------- MODULE InviteDialog -----------------------------
(***************************************************************************)
(* InviteDialog.java: the dialogs of a caller and a callee over UDP, with  *)
(* the transactions each owns.                                             *)
(*                                                                         *)
(* A message stays in net once sent: it may be delivered late, more than   *)
(* once, out of order, or never, and a retransmission adds nothing, so     *)
(* retransmission timers are left out here (InviteTransaction and          *)
(* AckTransactionServer have them).  A step makes one callback of its      *)
(* listener, or none: its parameter cbs is the callbacks it may make, so   *)
(* that Call can react to each in the same step.                           *)
(*                                                                         *)
(* A handler is one step, except where the thread of the user and that of  *)
(* the provider answer the same INVITE: nothing keeps respond() apart from *)
(* onTransRequest(), and CancelMeetsAccept is what comes of the two when   *)
(* each has read the status before the other has changed it.               *)
(*                                                                         *)
(* Transactions are kept per CSeq number, for an earlier one may outlive   *)
(* the dialog field that pointed to it:                                    *)
(*   itc  INVITE client      its  INVITE server     cts  CANCEL server     *)
(*   ats  2xx/ACK server     btc  BYE client                               *)
(***************************************************************************)
EXTENDS Integers, FiniteSets

CONSTANTS Caller, Callee,
          MaxCSeq,        \* requests each side may number: a model bound
          ReInviters,     \* the sides that may re-invite
          DefaultServers  \* the sides that run a NotImplementedServer

ASSUME PartyAssumption == Caller # Callee
ASSUME MaxCSeqAssumption == MaxCSeq \in Nat \ {0}
ASSUME OptionAssumption == /\ ReInviters \subseteq {Caller, Callee}
                           /\ DefaultServers \subseteq {Caller, Callee}

VARIABLES ua,             \* per party: dialog and transactions
          net             \* every message ever sent

dialogVars == <<ua, net>>

Party == {Caller, Callee}
Peer(p) == IF p = Caller THEN Callee ELSE Caller
CSeq == 1..MaxCSeq

DialogStatus == {"Init", "Waiting", "Inviting", "Invited", "Refused",
                 "Accepted", "Call", "Byeing", "Close",
                 "ReInviting", "ReInvited", "ReRefused", "ReAccepted"}

Callback == {"none", "onDlgInvite", "onDlgReInvite", "onDlgCancel",
             "onDlgInviteSuccessResponse", "onDlgReInviteSuccessResponse",
             "onDlgInviteFailureResponse", "onDlgReInviteFailureResponse",
             "onDlgInviteTimeout", "onDlgCall", "onDlgBye",
             "onDlgByeSuccessResponse", "onDlgByeFailureResponse",
             "onDlgClosed"}

\* Requests carry their sender; responses and ACKs name the request (its
\* sender and CSeq number) that they belong to.
Kind == {"INVITE", "CANCEL", "BYE",
         "1xx", "2xx", "failure", "ackFailure", "ack2xx",
         "byeOk", "byeFailure", "notImplemented"}
Msg(kind, from, n) == [kind |-> kind, from |-> from, cseq |-> n]
Message == [kind : Kind, from : Party, cseq : CSeq]

Arrives(kind, from, n) == Msg(kind, from, n) \in net

Dialog == [status : DialogStatus,
           invOut : 0..MaxCSeq, invIn : 0..MaxCSeq,  \* invite_tc's, invite_ts's CSeq
           lcseq : 0..MaxCSeq, rcseq : 0..MaxCSeq,
           waitTs : BOOLEAN,                          \* listen()'s transaction
           itc : [CSeq -> {"none", "Trying", "Proceeding", "Done"}],
           its : [CSeq -> {"none", "Proceeding", "Completed", "Done"}],
           cts : [CSeq -> {"none", "Waiting", "Done"}],
           ats : [CSeq -> {"none", "Proceeding", "Done"}],
           btc : [CSeq -> {"none", "Trying", "Done"}]]

DialogTypeOK == ua \in [Party -> Dialog] /\ net \subseteq Message

NoDialog == [status |-> "Init", invOut |-> 0, invIn |-> 0, lcseq |-> 0,
             rcseq |-> 0, waitTs |-> FALSE,
             itc |-> [n \in CSeq |-> "none"], its |-> [n \in CSeq |-> "none"],
             cts |-> [n \in CSeq |-> "none"], ats |-> [n \in CSeq |-> "none"],
             btc |-> [n \in CSeq |-> "none"]]

DialogInit == ua = [p \in Party |-> NoDialog] /\ net = {}

-----------------------------------------------------------------------------
Status(p) == ua[p].status

\* The provider routes an in-dialog message by DialogId: registered while open.
Registered(p) == Status(p) \notin {"Init", "Waiting", "Close"}

\* terminate() of the transaction numbered last, that is of the one the
\* dialog's field refers to; a no-op if it has ended.
DropLast(f) ==
  [n \in CSeq |-> IF f[n] # "none" /\ \A m \in CSeq : f[m] # "none" => m <= n
                  THEN "Done" ELSE f[n]]

Become(p, u) == ua' = [ua EXCEPT ![p] = u]
Send(M) == net' = net \cup M

-----------------------------------------------------------------------------
(* Operations of the dialog's user *)

\* listen()
Listen(p) ==
  /\ Status(p) = "Init"
  /\ Become(p, [ua[p] EXCEPT !.status = "Waiting", !.waitTs = TRUE])
  /\ UNCHANGED net

\* invite() and reInvite(): a new INVITE client transaction.
Inviting(p, status) ==
  /\ ua[p].lcseq < MaxCSeq
  /\ LET n == ua[p].lcseq + 1
     IN  /\ Become(p, [ua[p] EXCEPT !.status = status, !.lcseq = n,
                                    !.invOut = n, !.itc[n] = "Trying"])
         /\ Send({Msg("INVITE", p, n)})

Invite(p)   == Status(p) = "Init" /\ Inviting(p, "Inviting")
ReInvite(p) == Status(p) = "Call" /\ Inviting(p, "ReInviting")

\* Faulty variant: a 2xx leaves the state and the transaction of the INVITE.
AcceptStaysInvited(p) ==
  /\ Status(p) \in {"Invited", "ReInvited"}
  /\ Become(p, [ua[p] EXCEPT !.ats[ua[p].invIn] = "Proceeding"])
  /\ Send({Msg("2xx", Peer(p), ua[p].invIn)})

\* Faulty variant: the dialog takes itself for established at once.
AcceptAtOnce(p) ==
  /\ Status(p) \in {"Invited", "ReInvited"}
  /\ Become(p, [ua[p] EXCEPT !.status = "Call", !.its[ua[p].invIn] = "Done",
                             !.ats[ua[p].invIn] = "Proceeding"])
  /\ Send({Msg("2xx", Peer(p), ua[p].invIn)})

\* respond() with a 2xx: the INVITE transaction gives way to an ACK one.
Accept(p) ==
  /\ Status(p) \in {"Invited", "ReInvited"}
  /\ LET n == ua[p].invIn
     IN  /\ Become(p, [ua[p] EXCEPT
                         !.status = IF @ = "Invited" THEN "Accepted" ELSE "ReAccepted",
                         !.its[n] = "Done", !.ats[n] = "Proceeding"])
         /\ Send({Msg("2xx", Peer(p), n)})

\* The dialog u and the messages after respond() with a 300-699.
Refused(u) ==
  IF u.status \in {"Invited", "ReInvited"}
  THEN [u EXCEPT !.status = IF @ = "Invited" THEN "Refused" ELSE "ReRefused",
                 !.its[u.invIn] = IF @ = "Proceeding" THEN "Completed" ELSE @]
  ELSE u
Refusal(p, u) ==
  IF u.status \in {"Invited", "ReInvited"} /\ u.its[u.invIn] = "Proceeding"
  THEN {Msg("failure", Peer(p), u.invIn)} ELSE {}

Refuse(p) ==
  /\ Status(p) \in {"Invited", "ReInvited"}
  /\ Become(p, Refused(ua[p]))
  /\ Send(Refusal(p, ua[p]))

\* bye(): only in D_CALL.
Byeing(u) ==
  [u EXCEPT !.status = "Byeing", !.lcseq = @ + 1, !.btc[u.lcseq + 1] = "Trying"]
Bye(p) ==
  /\ Status(p) = "Call"
  /\ ua[p].lcseq < MaxCSeq
  /\ Become(p, Byeing(ua[p]))
  /\ Send({Msg("BYE", p, ua[p].lcseq + 1)})

\* cancel(): a CANCEL once the INVITE is proceeding; before, the transaction
\* is just dropped, and so is a waiting one.  The dialog's state stays.
Cancel(p) ==
  \/ /\ Status(p) \in {"Inviting", "ReInviting"}
     /\ LET n == ua[p].invOut
        IN  IF ua[p].itc[n] = "Proceeding"
            THEN Send({Msg("CANCEL", p, n)}) /\ UNCHANGED ua
            ELSE Become(p, [ua[p] EXCEPT !.itc[n] = "Done"]) /\ UNCHANGED net
  \/ /\ Status(p) = "Waiting"
     /\ Become(p, [ua[p] EXCEPT !.waitTs = FALSE])
     /\ UNCHANGED net

\* terminate(): closes without a message.
Terminate(p, cbs) ==
  /\ Status(p) # "Close"
  /\ "onDlgClosed" \in cbs
  /\ Become(p, [ua[p] EXCEPT !.status = "Close", !.waitTs = FALSE,
                  !.itc = DropLast(@), !.its = DropLast(@), !.cts = DropLast(@),
                  !.ats = DropLast(@)])
  /\ UNCHANGED net

-----------------------------------------------------------------------------
(* Requests received *)

\* The dialog after an INVITE numbered n, answered with the automatic 100.
InvitedBy(u, status, n) ==
  [u EXCEPT !.status = status, !.invIn = n, !.its[n] = "Proceeding",
            !.rcseq = IF n > @ THEN n ELSE @]

\* An INVITE asking for an unsupported extension is refused (420) at once;
\* any other waits for the user, and for a CANCEL if canCancel.
TakeInvite(p, u, n, canCancel, notify, cbs) ==
  \/ /\ notify \in cbs
     /\ Become(p, IF canCancel THEN [u EXCEPT !.cts[n] = "Waiting"] ELSE u)
     /\ Send({Msg("1xx", Peer(p), n)})
  \/ /\ "none" \in cbs
     /\ Become(p, Refused(u))
     /\ Send({Msg("1xx", Peer(p), n)} \cup Refusal(p, u))

\* The first INVITE: it creates the dialog (constructor), or reaches the
\* waiting transaction of listen(), where no CANCEL server is made.
ReceiveFirstInvite(p, n, cbs) ==
  /\ p = Callee /\ n = 1 /\ Status(p) \in {"Init", "Waiting"}
  /\ Arrives("INVITE", Caller, n)
  /\ \/ /\ Status(p) = "Init"
        /\ TakeInvite(p, InvitedBy(ua[p], "Invited", n), n, TRUE, "onDlgInvite", cbs)
     \/ /\ Status(p) = "Waiting" /\ ua[p].waitTs
        /\ TakeInvite(p, [InvitedBy(ua[p], "Invited", n) EXCEPT !.waitTs = FALSE],
                      n, FALSE, "onDlgInvite", cbs)

\* An INVITE within the dialog: a new number is taken in any state
\* (verifyStatus only logs); an old one is discarded, or is a retransmission
\* for its transaction.
ReceiveReInvite(p, n, cbs) ==
  /\ Registered(p)
  /\ n > ua[p].rcseq
  /\ Arrives("INVITE", Peer(p), n)
  /\ TakeInvite(p, InvitedBy(ua[p], "ReInvited", n), n, TRUE, "onDlgReInvite", cbs)

\* A CANCEL, if its server transaction waits: 487 to the pending INVITE.
ReceiveCancel(p, n, cbs) ==
  /\ ua[p].cts[n] = "Waiting"
  /\ Arrives("CANCEL", Peer(p), n)
  /\ (IF Status(p) \in {"Invited", "ReInvited"} THEN "onDlgCancel" ELSE "none") \in cbs
  /\ LET u == [ua[p] EXCEPT !.cts[n] = "Done"]
     IN  /\ Become(p, Refused(u))
         /\ Send(Refusal(p, u))

\* respond() of a 2xx on the user's thread and the 487 of a CANCEL on the
\* provider's, both past the test of the status: each sets a status of its own,
\* by what it finds (statusIs(D_INVITED) or not), and the later one stays.  The
\* 2xx goes out in any case, the 487 unless terminate() comes first.
CancelMeetsAccept(p, n, cbs) ==
  /\ Status(p) \in {"Invited", "ReInvited"}
  /\ ua[p].cts[n] = "Waiting"
  /\ Arrives("CANCEL", Peer(p), n)
  /\ "onDlgCancel" \in cbs
  /\ \E status \in {"ReAccepted", "ReRefused"} \cup
                     (IF Status(p) = "Invited" THEN {"Accepted", "Refused"} ELSE {}),
        refused \in {{}, Refusal(p, ua[p])} :
       LET inv == ua[p].invIn
       IN  /\ Become(p, [ua[p] EXCEPT !.status = status, !.cts[n] = "Done",
                                      !.its[inv] = "Done", !.ats[inv] = "Proceeding"])
           /\ Send({Msg("2xx", Peer(p), inv)} \cup refused)

\* The ACK of a refusal, passed up by its INVITE server transaction.
ReceiveFailureAck(p, n, cbs) ==
  /\ ua[p].its[n] = "Completed"
  /\ Arrives("ackFailure", Peer(p), n)
  /\ LET u == [ua[p] EXCEPT !.its[n] = "Done"]
     IN  IF u.status \in {"Refused", "ReRefused"}
         THEN /\ Become(p, [u EXCEPT !.cts = DropLast(@),
                              !.status = IF @ = "Refused" THEN "Close" ELSE "Call"])
              /\ (IF u.status = "Refused" THEN "onDlgClosed" ELSE "none") \in cbs
         ELSE Become(p, u) /\ "none" \in cbs
  /\ UNCHANGED net

\* Faulty variant: an ACK establishes the dialog in any state.
ReceiveAckUnchecked(p, n, cbs) ==
  /\ Arrives("ack2xx", Peer(p), n)
  /\ Become(p, [ua[p] EXCEPT !.status = "Call", !.ats = DropLast(@),
                             !.cts = DropLast(@)])
  /\ "onDlgCall" \in cbs
  /\ UNCHANGED net

\* The ACK of a 2xx; its CSeq number is not looked at.
ReceiveAck(p, n, cbs) ==
  /\ "onDlgCall" \in cbs
  /\ Status(p) \in {"Accepted", "ReAccepted"}
  /\ Arrives("ack2xx", Peer(p), n)
  /\ Become(p, [ua[p] EXCEPT !.status = "Call", !.ats = DropLast(@),
                             !.cts = DropLast(@)])
  /\ UNCHANGED net

\* Faulty variant: a BYE is answered and does not close the dialog.
ReceiveByeStaysOpen(p, n, cbs) ==
  /\ Registered(p)
  /\ n > ua[p].rcseq
  /\ Status(p) \in {"Call", "Byeing"}
  /\ Arrives("BYE", Peer(p), n)
  /\ Send({Msg("byeOk", Peer(p), n)})
  /\ "onDlgBye" \in cbs
  /\ UNCHANGED ua

\* A BYE is answered, and closes the dialog, only in D_CALL and D_BYEING.
ReceiveBye(p, n, cbs) ==
  /\ "onDlgBye" \in cbs
  /\ Registered(p)
  /\ n > ua[p].rcseq
  /\ Status(p) \in {"Call", "Byeing"}
  /\ Arrives("BYE", Peer(p), n)
  /\ Become(p, [ua[p] EXCEPT !.status = "Close"])
  /\ Send({Msg("byeOk", Peer(p), n)})

\* Whether the INVITE numbered n would go to a transaction, to the dialog or to
\* whoever waits for a first INVITE; that one has no tag of a dialog in it.
Taken(p, n) ==
  \/ ua[p].its[n] \in {"Proceeding", "Completed"}
  \/ ua[p].ats[n] = "Proceeding"
  \/ IF p = Callee /\ n = 1
     THEN Status(p) = "Init" \/ (Status(p) = "Waiting" /\ ua[p].waitTs)
     ELSE Registered(p)

\* What nobody else takes reaches the default UAS, if any: 501 to an INVITE or
\* to a BYE, and nothing to an ACK or a CANCEL.
NotImplemented(p, n) ==
  /\ p \in DefaultServers
  /\ \/ /\ Arrives("BYE", Peer(p), n) /\ Status(p) = "Close"
        /\ Send({Msg("byeFailure", Peer(p), n)})
     \/ /\ Arrives("INVITE", Peer(p), n) /\ ~Taken(p, n)
        /\ Send({Msg("notImplemented", Peer(p), n)})
  /\ UNCHANGED ua

-----------------------------------------------------------------------------
(* Responses received and timeouts *)

ReceiveProvisional(p, n) ==
  /\ ua[p].itc[n] = "Trying"
  /\ Arrives("1xx", p, n)
  /\ Become(p, [ua[p] EXCEPT !.itc[n] = "Proceeding"])
  /\ UNCHANGED net

\* A refusal by the peer's dialog or by its default server.
ReceiveFailure(p, n, cbs) ==
  /\ ua[p].itc[n] \in {"Trying", "Proceeding"}
  /\ Arrives("failure", p, n) \/ Arrives("notImplemented", p, n)
  /\ LET u == [ua[p] EXCEPT !.itc[n] = "Done"]
     IN  \/ /\ u.status = "Inviting"
            /\ "onDlgInviteFailureResponse" \in cbs
            /\ Become(p, [u EXCEPT !.status = "Close"])
         \/ /\ u.status = "ReInviting"
            /\ "onDlgReInviteFailureResponse" \in cbs
            /\ Become(p, [u EXCEPT !.status = "Call"])
         \/ /\ u.status \notin {"Inviting", "ReInviting"}
            /\ "none" \in cbs
            /\ Become(p, u)
  /\ Send({Msg("ackFailure", p, n)})

\* A 2xx: ACK it and tell the user, who may say bye() within the callback.
\* In any other state it is dropped without an ACK.
ReceiveSuccess(p, n, cbs, byes) ==
  /\ ua[p].itc[n] \in {"Trying", "Proceeding"}
  /\ Arrives("2xx", p, n)
  /\ (CASE Status(p) = "Inviting"   -> "onDlgInviteSuccessResponse"
        [] Status(p) = "ReInviting" -> "onDlgReInviteSuccessResponse"
        [] OTHER -> "none") \in cbs
  /\ LET u == [ua[p] EXCEPT !.itc[n] = "Done",
                 !.status = IF @ \in {"Inviting", "ReInviting"} THEN "Call" ELSE @]
         answered == Status(p) \in {"Inviting", "ReInviting"}
         byeMsg == IF byes THEN {Msg("BYE", p, u.lcseq + 1)} ELSE {}
     IN  /\ byes => answered /\ u.lcseq < MaxCSeq
         /\ Become(p, IF byes THEN Byeing(u) ELSE u)
         /\ Send(IF answered THEN {Msg("ack2xx", p, n)} \cup byeMsg ELSE {})

\* Timer B of an INVITE client transaction.
InviteTimeout(p, n, cbs) ==
  /\ ua[p].itc[n] = "Trying"
  /\ LET u == [ua[p] EXCEPT !.itc[n] = "Done"]
     IN  IF u.status \in {"Inviting", "ReInviting"}
         THEN /\ "onDlgInviteTimeout" \in cbs
              /\ Become(p, [u EXCEPT !.status = "Close"])
         ELSE "none" \in cbs /\ Become(p, u)
  /\ UNCHANGED net

\* Timer H of an INVITE server transaction: nobody is told.
RefusalTimeout(p, n) ==
  /\ ua[p].its[n] = "Completed"
  /\ Become(p, [ua[p] EXCEPT !.its[n] = "Done"])
  /\ UNCHANGED net

\* The end of a BYE client transaction, in state status, told as callback.
ByeEnds(p, n, status, callback, cbs) ==
  /\ ua[p].btc[n] = "Trying"
  /\ LET u == [ua[p] EXCEPT !.btc[n] = "Done"]
     IN  IF u.status = "Byeing"
         THEN callback \in cbs /\ Become(p, [u EXCEPT !.status = status])
         ELSE "none" \in cbs /\ Become(p, u)
  /\ UNCHANGED net

ReceiveByeOk(p, n, cbs) ==
  ByeEnds(p, n, "Close", "onDlgByeSuccessResponse", cbs) /\ Arrives("byeOk", p, n)
ReceiveByeFailure(p, n, cbs) ==
  ByeEnds(p, n, "Call", "onDlgByeFailureResponse", cbs) /\ Arrives("byeFailure", p, n)

\* Faulty variant: onTransTimeout() looks only at INVITE transactions.
ByeTimeoutIgnored(p, n, cbs) == ByeEnds(p, n, "Byeing", "none", cbs)

ByeTimeout(p, n, cbs) == ByeEnds(p, n, "Close", "onDlgClosed", cbs)

-----------------------------------------------------------------------------
Timeout(p, cbs) ==
  \E n \in CSeq : \/ InviteTimeout(p, n, cbs)
                  \/ "none" \in cbs /\ RefusalTimeout(p, n)
                  \/ ByeTimeout(p, n, cbs)

\* What reaches the dialog of p, if its callback is in cbs; byes says
\* whether the user hangs up within it.
DialogEvent(p, cbs, byes) ==
  \/ \E n \in CSeq : ReceiveSuccess(p, n, cbs, byes)
  \/ /\ ~byes
     /\ \/ \E n \in CSeq :
             \/ ReceiveFirstInvite(p, n, cbs)
             \/ ReceiveReInvite(p, n, cbs)
             \/ ReceiveCancel(p, n, cbs)
             \/ ReceiveFailureAck(p, n, cbs)
             \/ ReceiveAck(p, n, cbs)
             \/ ReceiveBye(p, n, cbs)
             \/ "none" \in cbs /\ NotImplemented(p, n)
             \/ "none" \in cbs /\ ReceiveProvisional(p, n)
             \/ ReceiveFailure(p, n, cbs)
             \/ ReceiveByeOk(p, n, cbs)
             \/ ReceiveByeFailure(p, n, cbs)
        \/ Timeout(p, cbs)
=============================================================================
