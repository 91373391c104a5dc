---------------------------- MODULE AckTransaction ----------------------------
(***************************************************************************)
(* How a 2xx gets to the caller and its ACK back, for an INVITE and the    *)
(* re-INVITEs after it, counted 1, 2, ...: AckTransactionServer, made by   *)
(* the callee's dialog in respond() for each INVITE it accepts, and        *)
(* AckTransactionClient, made by the caller's for every 2xx it sees.  The  *)
(* network is lossy and may duplicate and reorder: transit counts the      *)
(* copies of each message on its way.  respond() runs on the user's        *)
(* thread: an ACK may come between its change of the status and the new    *)
(* AckTransactionServer (answering).                                       *)
(***************************************************************************)
EXTENDS Naturals

CONSTANTS MaxInvites,     \* INVITEs of the caller: a model bound
          MaxCopies       \* copies of one message in transit: a model bound

ASSUME MaxAssumption == MaxInvites \in Nat \ {0} /\ MaxCopies \in Nat \ {0}

VARIABLES ats,            \* the AckTransactionServer of each INVITE
          ackTs,          \* the dialog's field ack_ts: the INVITE's number, or 0
          callee, caller, \* the states of the two dialogs
          current,        \* the newest INVITE the callee took
          answering,      \* whether respond() is between its two statements
          forgotten,      \* history: those whose ACK the dialog will not pass on
          asked,          \* the caller's newest INVITE
          confirmed,      \* the INVITE of the caller's field ack_req, or 0
          transit

calleeVars == <<ats, ackTs, callee, current, answering, forgotten>>
callerVars == <<caller, asked, confirmed>>
ackVars == <<ats, ackTs, callee, current, answering, forgotten,
             caller, asked, confirmed, transit>>

Invites == 1..MaxInvites
Kind == {"INVITE", "2xx", "refusal", "ACK"}
Timer == {"retransmission", "transaction"}

AckTypeOK ==
  /\ ats \in [Invites -> [status : {"Idle", "Proceeding", "Terminated"},
                          registered : BOOLEAN, timers : SUBSET Timer]]
  /\ ackTs \in 0..MaxInvites
  /\ callee \in {"Invited", "Accepted", "ReInvited", "ReAccepted", "ReRefused", "Call", "Close"}
  /\ current \in Invites
  /\ answering \in BOOLEAN
  /\ forgotten \subseteq Invites
  /\ caller \in {"Inviting", "ReInviting", "Call", "Close"}
  /\ asked \in Invites
  /\ confirmed \in 0..MaxInvites
  /\ transit \in [Kind \X Invites -> 0..MaxCopies]

AckInit ==
  /\ ats = [n \in Invites |-> [status |-> "Idle", registered |-> FALSE, timers |-> {}]]
  /\ ackTs = 0
  /\ callee = "Invited"
  /\ current = 1
  /\ answering = FALSE
  /\ forgotten = {}
  /\ caller = "Inviting"
  /\ asked = 1
  /\ confirmed = 0
  /\ transit = [m \in Kind \X Invites |-> 0]

Plus(t, m)  == [t EXCEPT ![m] = IF @ < MaxCopies THEN @ + 1 ELSE @]
Minus(t, m) == [t EXCEPT ![m] = @ - 1]

AwaitsAck == callee \in {"Accepted", "ReAccepted"}

-----------------------------------------------------------------------------
(* The callee *)

\* respond() of a 2xx: first the status, ...
Accept ==
  /\ callee \in {"Invited", "ReInvited"}
  /\ ~answering
  /\ callee' = IF callee = "Invited" THEN "Accepted" ELSE "ReAccepted"
  /\ answering' = TRUE
  /\ UNCHANGED <<ats, ackTs, current, forgotten, callerVars, transit>>

\* ... then the transaction, which takes the place of an earlier one.  The
\* timers it starts are those made by init() with no listener; there is no
\* retransmission over a reliable connection.
Respond ==
  /\ answering
  /\ answering' = FALSE
  /\ \E timers \in {Timer, {"transaction"}} :
       ats' = [ats EXCEPT ![current] =
                 [status |-> "Proceeding", registered |-> TRUE, timers |-> timers]]
  /\ ackTs' = current
  /\ forgotten' = IF AwaitsAck THEN forgotten \ {current} ELSE forgotten \cup {current}
  /\ transit' = Plus(transit, <<"2xx", current>>)
  /\ UNCHANGED <<callee, current, callerVars>>

\* respond() of a refusal, to a re-INVITE.
RefuseReInvite ==
  /\ callee = "ReInvited"
  /\ callee' = "ReRefused"
  /\ transit' = Plus(transit, <<"refusal", current>>)
  /\ UNCHANGED <<ats, ackTs, current, answering, forgotten, callerVars>>

\* Its ACK, which the caller's transaction sends when it takes the refusal.
RefusalAcked ==
  /\ callee = "ReRefused"
  /\ asked > current \/ caller # "ReInviting"
  /\ callee' = "Call"
  /\ UNCHANGED <<ats, ackTs, current, answering, forgotten, callerVars, transit>>

\* Faulty variant: doTerminate() forgets removeSelectiveListener().
DoTerminateStaysRegistered(t) == [t EXCEPT !.status = "Terminated", !.timers = {}]

\* doTerminate()
DoTerminate(t) ==
  IF t.status = "Terminated" THEN t
  ELSE [status |-> "Terminated", registered |-> FALSE, timers |-> {}]

\* The dialog's ack_ts is terminated, if there is one.
TerminateAckTs ==
  /\ ats' = [n \in Invites |-> IF n = ackTs THEN DoTerminate(ats[n]) ELSE ats[n]]
  /\ forgotten' = forgotten \ {ackTs}

\* A timer expires: processInnerTimeout() would call its listener, and it has
\* none, so that onTimeout() never runs.
TimerExpires(n, timer) ==
  /\ timer \in ats[n].timers
  /\ ats' = [ats EXCEPT ![n].timers = @ \ {timer}]
  /\ UNCHANGED <<ackTs, callee, current, answering, forgotten, callerVars, transit>>

\* A repeated INVITE that its AckTransactionServer gets: the 2xx again.
RepeatInvite(n) ==
  /\ transit[<<"INVITE", n>>] > 0
  /\ ats[n].registered
  /\ transit' = IF ats[n].status = "Proceeding"
                THEN Plus(Minus(transit, <<"INVITE", n>>), <<"2xx", n>>)
                ELSE Minus(transit, <<"INVITE", n>>)
  /\ UNCHANGED <<calleeVars, callerVars>>

\* A newer INVITE: the dialog takes it in any state, verifyStatus() only logs.
\* The transaction of a 2xx that still waits for its ACK is left to itself.
TakeInvite(n) ==
  /\ transit[<<"INVITE", n>>] > 0
  /\ n > current
  /\ callee # "Close"
  /\ callee' = "ReInvited"
  /\ current' = n
  /\ forgotten' = IF AwaitsAck /\ ~answering THEN forgotten \cup {ackTs} ELSE forgotten
  /\ transit' = Minus(transit, <<"INVITE", n>>)
  /\ UNCHANGED <<ats, ackTs, answering, callerVars>>

\* An ACK of a 2xx comes through the dialog, which does not look at its CSeq.
ReceiveAck(n) ==
  /\ transit[<<"ACK", n>>] > 0
  /\ IF AwaitsAck THEN callee' = "Call" /\ TerminateAckTs
     ELSE UNCHANGED <<callee, ats, forgotten>>
  /\ transit' = Minus(transit, <<"ACK", n>>)
  /\ UNCHANGED <<ackTs, current, answering, callerVars>>

\* The dialog's terminate(), on the user's thread, as respond() is.
TerminateDialog ==
  /\ callee # "Close"
  /\ ~answering
  /\ callee' = "Close"
  /\ TerminateAckTs
  /\ ackTs' = 0
  /\ UNCHANGED <<current, answering, callerVars, transit>>

\* A BYE, of either side, ends the call: ack_ts is left as it is.  (D_BYEING
\* ignores an ACK and takes an INVITE as D_CALL does, and is one with it.)
CalleeLeaves ==
  /\ callee = "Call"
  /\ callee' = "Close"
  /\ UNCHANGED <<ats, ackTs, current, answering, forgotten, callerVars, transit>>

-----------------------------------------------------------------------------
(* The caller, whose INVITE transaction retransmits until it is answered *)

Retransmit ==
  /\ caller \in {"Inviting", "ReInviting"}
  /\ transit[<<"INVITE", asked>>] < MaxCopies
  /\ transit' = Plus(transit, <<"INVITE", asked>>)
  /\ UNCHANGED <<calleeVars, callerVars>>

\* reInvite(), in D_CALL only.
ReInvite ==
  /\ caller = "Call"
  /\ asked < MaxInvites
  /\ caller' = "ReInviting"
  /\ asked' = asked + 1
  /\ transit' = Plus(transit, <<"INVITE", asked + 1>>)
  /\ UNCHANGED <<calleeVars, confirmed>>

\* Timer B, a cancel() or a BYE: the caller is out of it, in whatever state.
CallerLeaves ==
  /\ caller # "Close"
  /\ caller' = "Close"
  /\ UNCHANGED <<calleeVars, asked, confirmed, transit>>

\* A 2xx of the INVITE under way is acknowledged by the transaction's callback,
\* any other in D_CALL with the last ack_req again; elsewhere it is ignored.
ReceiveSuccess(n) ==
  /\ transit[<<"2xx", n>>] > 0
  /\ \/ /\ caller \in {"Inviting", "ReInviting"} /\ n = asked
        /\ caller' = "Call" /\ confirmed' = n
        /\ transit' = Plus(Minus(transit, <<"2xx", n>>), <<"ACK", n>>)
     \/ /\ caller = "Call"
        /\ transit' = Plus(Minus(transit, <<"2xx", n>>), <<"ACK", confirmed>>)
        /\ UNCHANGED <<caller, confirmed>>
     \/ /\ caller = "Close" \/ (caller = "ReInviting" /\ n # asked)
        /\ transit' = Minus(transit, <<"2xx", n>>)
        /\ UNCHANGED <<caller, confirmed>>
  /\ UNCHANGED <<calleeVars, asked>>

\* The refusal of a re-INVITE: the call stays.
ReceiveRefusal(n) ==
  /\ transit[<<"refusal", n>>] > 0
  /\ caller' = IF caller = "ReInviting" /\ n = asked THEN "Call" ELSE caller
  /\ transit' = Minus(transit, <<"refusal", n>>)
  /\ UNCHANGED <<calleeVars, asked, confirmed>>

\* The network: a copy lost, or one more made.
Lose(m) ==
  /\ transit[m] > 0
  /\ transit' = Minus(transit, m)
  /\ UNCHANGED <<calleeVars, callerVars>>
Duplicate(m) ==
  /\ transit[m] \in 1..(MaxCopies - 1)
  /\ transit' = Plus(transit, m)
  /\ UNCHANGED <<calleeVars, callerVars>>

AckNext ==
  \/ Accept
  \/ Respond
  \/ RefuseReInvite
  \/ RefusalAcked
  \/ \E n \in Invites :
       \/ \E timer \in Timer : TimerExpires(n, timer)
       \/ RepeatInvite(n)
       \/ TakeInvite(n)
       \/ ReceiveAck(n)
       \/ ReceiveSuccess(n)
       \/ ReceiveRefusal(n)
  \/ TerminateDialog
  \/ CalleeLeaves
  \/ Retransmit
  \/ ReInvite
  \/ CallerLeaves
  \/ \E m \in Kind \X Invites : Lose(m) \/ Duplicate(m)

AckSpec == AckInit /\ [][AckNext]_ackVars

\* The scheduler thread expires a timer that nobody halts.
AckTimerFairness == \A n \in Invites, timer \in Timer : WF_ackVars(TimerExpires(n, timer))

FairAckSpec == AckSpec /\ AckTimerFairness

-----------------------------------------------------------------------------
(* Properties *)

Alive(n) == ats[n].status = "Proceeding"

\* The AckTransactionServer of an INVITE lives, registered and the only one
\* with timers, exactly as long as its dialog waits for the ACK - or for ever,
\* if the dialog lost sight of it: a newer INVITE was taken before its ACK, or
\* an ACK of an earlier 2xx came while respond() was making it (InviteDialog's
\* ack_ts, set in respond() and terminated by an ACK or by terminate()).
LivesWhileAccepted ==
  \A n \in Invites :
    /\ Alive(n) <=> (n = ackTs /\ AwaitsAck /\ ~answering) \/ n \in forgotten
    /\ ats[n].registered <=> Alive(n)
    /\ ats[n].timers # {} => Alive(n)

\* The response is sent until the transaction is terminated or its timeout
\* fires (AckTransactionServer.java:40-41).
GivesUp == \A n \in Invites : Alive(n) ~> ~Alive(n)
=============================================================================
