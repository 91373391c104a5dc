----------------------- MODULE InviteTransactionServer -----------------------
(***************************************************************************)
(* InviteTransactionServer.java: the server side of an INVITE transaction. *)
(* ts is the transaction object, response its field of that name (0 for    *)
(* null) and acked whether its user got onTransFailureAck.                 *)
(***************************************************************************)
EXTENDS InviteTransactionClient

CONSTANT AutoTrying       \* SipStack.auto_trying

ASSUME AutoTryingAssumption == AutoTrying \in BOOLEAN

VARIABLES ts, response, acked

ServerTimers == {"retransmission", "end", "clearing"}

ServerTypeOK ==
  /\ ts \in [status : Status, timers : SUBSET ServerTimers, conn : BOOLEAN,
             registered : BOOLEAN, listener : BOOLEAN]
  /\ response \in Codes \cup {0, 100}
  /\ acked \in BOOLEAN

ServerInit ==
  /\ ts = [status |-> "Idle", timers |-> {}, conn |-> FALSE,
           registered |-> FALSE, listener |-> TRUE]
  /\ response = 0
  /\ acked = FALSE

-----------------------------------------------------------------------------
ServerDoTerminate(t) ==
  IF t.status = "Terminated" THEN t
  ELSE [t EXCEPT !.status = "Terminated", !.timers = {}, !.registered = FALSE]

ServerTerminated(t) == [ServerDoTerminate(t) EXCEPT !.listener = FALSE]

ServerAfterCallback(t) == IF t.listener THEN {t, ServerTerminated(t)} ELSE {t}

\* Faulty variant: no timer H.
NoTimerH(t) == {"retransmission"}

\* The timers that a 300-699 starts: H, and G if unreliable.
RefusalTimers(t) == IF t.conn THEN {"end"} ELSE {"retransmission", "end"}

\* The transaction after respondWith(code): what it sends is in SentBy.
Responded(t, code) ==
  CASE Provisional(code) /\ t.status = "Trying" ->
         [t EXCEPT !.status = "Proceeding"]
    [] Success(code) /\ t.status \in {"Trying", "Proceeding"} ->
         ServerTerminated(t)
    [] Failure(code) /\ t.status \in {"Trying", "Proceeding"} ->
         [t EXCEPT !.status = "Completed", !.timers = @ \cup RefusalTimers(t)]
    [] OTHER -> t

\* The network after it: only Trying and Proceeding send.
SentBy(t, n, code, conn) ==
  IF t.status \in {"Trying", "Proceeding"}
  THEN Sent(n, Response(code), conn) ELSE n

\* The transaction that an INVITE starts, with its automatic 100.
ServerStarted(t, conn) ==
  LET t1 == [t EXCEPT !.status = "Trying", !.registered = TRUE, !.conn = conn]
  IN  IF AutoTrying THEN Responded(t1, 100) ELSE t1

\* The network and the last response once it has started.
StartedNet(n, conn) ==
  IF AutoTrying THEN Sent(n, Response(100), conn) ELSE n
StartedResponse == IF AutoTrying THEN 100 ELSE response

\* new InviteTransactionServer(sip_provider,invite,listener): the user
\* creates it for an INVITE that no transaction took.
ServerCreate ==
  /\ Invite \in net
  /\ ts.status = "Idle"
  /\ \E conn \in SendResult :
       /\ ts' = ServerStarted(ts, Reliable)
       /\ net' = StartedNet(Taken(net, Invite), conn)
  /\ response' = StartedResponse
  /\ UNCHANGED acked

\* listen()
ServerListen ==
  /\ ts.status = "Idle"
  /\ ts' = [ts EXCEPT !.status = "Waiting", !.registered = TRUE]
  /\ UNCHANGED <<net, response, acked>>

\* An INVITE: the first one while Waiting starts the transaction and is
\* passed up, a later one is answered with the last response.
ServerInvite ==
  /\ ts.registered
  /\ Invite \in net
  /\ \E conn \in SendResult :
       \/ /\ ts.status = "Waiting"
          /\ ts' \in ServerAfterCallback(ServerStarted(ts, Reliable))
          /\ net' = StartedNet(Taken(net, Invite), conn)
          /\ response' = StartedResponse
       \/ /\ ts.status \in {"Proceeding", "Completed"}
          /\ net' = Sent(Taken(net, Invite), Response(response), conn)
          /\ UNCHANGED <<ts, response>>
  /\ UNCHANGED acked

\* respondWith(): the response field is overwritten in every state.
ServerRespond(code) ==
  /\ ts.status \notin {"Idle", "Waiting"}
  /\ response' = code
  /\ ts' = Responded(ts, code)
  /\ \E conn \in SendResult : net' = SentBy(ts, net, code, conn)
  /\ UNCHANGED acked

\* The ACK of a 300-699; clearing_to starts after the callback.
ServerAck ==
  /\ ts.registered
  /\ Ack \in net
  /\ ts.status = "Completed"
  /\ \E t \in ServerAfterCallback([ts EXCEPT !.status = "Confirmed",
                                    !.timers = @ \ {"retransmission", "end"}]) :
       ts' = [t EXCEPT !.timers = @ \cup {"clearing"}]
  /\ acked' = ts.listener
  /\ net' = Taken(net, Ack)
  /\ UNCHANGED response

\* Timer G
ServerRetransmissionTimeout ==
  /\ "retransmission" \in ts.timers
  /\ IF ts.status = "Completed"
     THEN /\ \E conn \in SendResult : net' = Sent(net, Response(response), conn)
          /\ ts' = ts
     ELSE /\ ts' = [ts EXCEPT !.timers = @ \ {"retransmission"}]
          /\ net' = net
  /\ UNCHANGED <<response, acked>>

\* Timer H: no ACK came.  The user is not told.
ServerEndTimeout ==
  /\ "end" \in ts.timers
  /\ ts' = IF ts.status = "Completed" THEN ServerTerminated(ts)
           ELSE [ts EXCEPT !.timers = @ \ {"end"}]
  /\ UNCHANGED <<net, response, acked>>

\* Timer I
ServerClearingTimeout ==
  /\ "clearing" \in ts.timers
  /\ ts' = IF ts.status = "Confirmed" THEN ServerTerminated(ts)
           ELSE [ts EXCEPT !.timers = @ \ {"clearing"}]
  /\ UNCHANGED <<net, response, acked>>

\* terminate(), called by the user.
ServerTerminate ==
  /\ ts.status \notin {"Idle", "Terminated"}
  /\ ts' = ServerTerminated(ts)
  /\ UNCHANGED <<net, response, acked>>
=============================================================================
