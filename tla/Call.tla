-------------------------------- MODULE Call --------------------------------
(***************************************************************************)
(* Call.java: a call of the caller and one of the callee, each over its    *)
(* InviteDialog, whose listener it is.  A callback runs on the thread of   *)
(* the event that fires it, so the reaction of the call belongs to the     *)
(* step of the dialog.                                                     *)
(***************************************************************************)
EXTENDS InviteDialog

VARIABLE call             \* per party: call_state

callVars == <<call, dialogVars>>

CallState == {"Idle", "Incoming", "Outgoing", "Active", "Closed"}

CallInit == DialogInit /\ call = [p \in Party |-> "Idle"]

CallBecomes(p, state) == call' = [call EXCEPT ![p] = state]

-----------------------------------------------------------------------------
(* Operations of the call's user *)

\* listen()
CallListen(p) == Listen(p) /\ CallBecomes(p, "Idle")

\* call()
StartCall(p) == call[p] = "Idle" /\ Invite(p) /\ CallBecomes(p, "Outgoing")

\* Faulty variant: accept() forgets the state of the call.
CallAcceptForgets(p) ==
  /\ call[p] = "Incoming"
  /\ Accept(p)
  /\ UNCHANGED call

\* accept() of an incoming call, or of a modification in an active one.
CallAccept(p) ==
  /\ \/ call[p] = "Incoming"
     \/ call[p] = "Active" /\ Status(p) = "ReInvited"
  /\ \/ Accept(p)
     \/ Status(p) \notin {"Invited", "ReInvited"} /\ UNCHANGED dialogVars
  /\ CallBecomes(p, "Active")

\* accept() while a CANCEL comes in (CancelMeetsAccept): it makes the call active
\* after the dialog's accept(), and onDlgCancel() closes it, in either order.
CancelMeetsCallAccept(p) ==
  /\ call[p] \in {"Incoming", "Active"}
  /\ \E n \in CSeq : CancelMeetsAccept(p, n, {"onDlgCancel"})
  /\ \E state \in {"Active", "Closed"} : CallBecomes(p, state)

\* refuse() and redirect()
CallRefuse(p) ==
  /\ call[p] = "Incoming"
  /\ \/ Refuse(p)
     \/ Status(p) \notin {"Invited", "ReInvited"} /\ UNCHANGED dialogVars
  /\ CallBecomes(p, "Closed")

\* modify(), whatever the state of the call.
CallModify(p) == p \in ReInviters /\ ReInvite(p) /\ UNCHANGED call

\* hangup(): the call is closed whatever the dialog does, which is nothing
\* when the operation does not fit its state.
HangupDialog(p) ==
  CASE call[p] \in {"Idle", "Outgoing"} ->
         \/ Cancel(p)
         \/ Status(p) \notin {"Waiting", "Inviting", "ReInviting"} /\ UNCHANGED dialogVars
    [] call[p] = "Incoming" ->
         \/ Refuse(p)
         \/ Status(p) \notin {"Invited", "ReInvited"} /\ UNCHANGED dialogVars
    [] call[p] \in {"Active", "Closed"} ->
         \/ Bye(p)
         \/ Status(p) # "Call" /\ UNCHANGED dialogVars

Hangup(p) ==
  /\ Status(p) # "Init"      \* dialog != null
  /\ HangupDialog(p)
  /\ CallBecomes(p, "Closed")

-----------------------------------------------------------------------------
(* Callbacks of the dialog *)

\* Faulty variant: an answer reopens a closed call.
ReopenedBySuccess(state) == "Active"

\* A 2xx makes the call active, unless it has been given up meanwhile.
AfterSuccess(state) == IF state = "Closed" THEN "Closed" ELSE "Active"

\* The callbacks that close the call.
Ending == {"onDlgInviteFailureResponse", "onDlgInviteTimeout", "onDlgCancel",
           "onDlgBye"}

\* The state of the call after a callback.
CallAfter(state, cb) ==
  CASE cb = "onDlgInvite" -> "Incoming"
    [] cb = "onDlgInviteSuccessResponse" -> AfterSuccess(state)
    [] cb = "onDlgReInviteFailureResponse" -> "Active"
    [] cb \in Ending -> "Closed"
    [] OTHER -> state

\* Faulty variant: the answer to a call given up is ignored.
CallEventNoBye(p, cb) ==
  /\ DialogEvent(p, {cb}, FALSE)
  /\ CallBecomes(p, CallAfter(call[p], cb))

\* A call that the user has given up says bye() when it is accepted after all.
CallEvent(p, cb) ==
  /\ DialogEvent(p, {cb}, cb = "onDlgInviteSuccessResponse" /\ call[p] = "Closed")
  /\ CallBecomes(p, CallAfter(call[p], cb))

CallUserStep(p) ==
  \/ p = Callee /\ CallListen(p)
  \/ p = Caller /\ StartCall(p)
  \/ CallAccept(p)
  \/ CancelMeetsCallAccept(p)
  \/ CallRefuse(p)
  \/ CallModify(p)
  \/ Hangup(p)

CallNext ==
  \E p \in Party : CallUserStep(p) \/ \E cb \in Callback : CallEvent(p, cb)

CallSpec == CallInit /\ [][CallNext]_callVars

\* The Timer threads go on, whatever the network and the users do.
CallTimeout(p) ==
  \E cb \in Callback : Timeout(p, {cb}) /\ CallBecomes(p, CallAfter(call[p], cb))
CallFairSpec == CallSpec /\ \A p \in Party : WF_callVars(CallTimeout(p))

-----------------------------------------------------------------------------
(* Properties *)

\* The caller talks only to a callee that has accepted.
ActiveWasAccepted ==
  call[Caller] = "Active" => call[Callee] \in {"Active", "Closed"}

\* A caller that hangs up leaves no established dialog behind, neither at once
\* nor when the answer to its INVITE crosses the CANCEL.  The answer to a
\* modify() that was pending at hangup() alone does (Call.java:466-475).
LeavesNoDialog ==
  call'[Caller] = "Closed" /\ (call[Caller] # "Closed" \/ Status(Caller) = "Inviting")
    => Status(Caller)' # "Call"
CallerHangsUp == [][LeavesNoDialog]_callVars

\* A closed call stays closed, whatever answers or requests are still under
\* way; the refusal of a modify() that was pending at hangup() alone reopens
\* it (processDlgReInviteFailureResponse).
StaysHungUp ==
  \A p \in Party :
    call[p] = "Closed" /\ Status(p) # "ReInviting" => call'[p] = "Closed"
ClosedIsFinal == [][StaysHungUp]_callVars

\* D_BYEING does not last, whatever is lost: the dialog closes when its BYE is
\* answered or times out, unless the BYE is refused (back to D_CALL) or a
\* re-INVITE of the peer is taken first (D_ReINVITED).
HangupCloses ==
  \A p \in Party :
    Status(p) = "Byeing" ~> Status(p) \in {"Close", "Call", "ReInvited", "ReRefused"}
=============================================================================
