------------------------- MODULE NonInviteTransaction -------------------------
(***************************************************************************)
(* TransactionClient.java and TransactionServer.java: the transaction of   *)
(* a request other than INVITE and ACK (BYE, CANCEL, REGISTER, ...).       *)
(* tc and ts are the two objects, outcomes the final callbacks the client  *)
(* side's user got, response the server's last response (0 for null).      *)
(***************************************************************************)
EXTENDS TransactionNet, Integers, Sequences

CONSTANT Codes            \* the status codes the server's user may give

ASSUME CodesAssumption == Codes \subseteq 100..699

VARIABLES tc, outcomes, ts, response

clientVars == <<tc, outcomes>>
serverVars == <<ts, response>>
vars       == <<net, tc, outcomes, ts, response>>

Status == {"Idle", "Waiting", "Trying", "Proceeding", "Completed", "Terminated"}
Active == {"Trying", "Proceeding"}

Provisional(code) == 100 <= code /\ code < 200
Outcome == {"success", "failure", "timeout"}
OutcomeOf(code) == IF code < 300 THEN "success" ELSE "failure"

Request        == [type |-> "request"]
Response(code) == [type |-> "response", code |-> code]

Timer == {"retransmission", "transaction", "clearing"}
Transaction == [status : Status, timers : SUBSET Timer, conn : BOOLEAN,
                registered : BOOLEAN, listener : BOOLEAN]

TypeOK ==
  /\ tc \in Transaction
  /\ ts \in Transaction
  /\ outcomes \in Seq(Outcome)
  /\ response \in Codes \cup {0}
  /\ net \subseteq {Request} \cup {Response(c) : c \in Codes}

NewTransaction == [status |-> "Idle", timers |-> {}, conn |-> FALSE,
                   registered |-> FALSE, listener |-> TRUE]

Init ==
  /\ net = {}
  /\ tc = NewTransaction /\ outcomes = <<>>
  /\ ts = NewTransaction /\ response = 0

\* Faulty variant: doTerminate() forgets removeSelectiveListener().
StaysRegistered(t) ==
  IF t.status = "Terminated" THEN t
  ELSE [t EXCEPT !.status = "Terminated", !.timers = {}]

\* doTerminate(): a no-op on a terminated transaction.
DoTerminate(t) ==
  IF t.status = "Terminated" THEN t
  ELSE [t EXCEPT !.status = "Terminated", !.timers = {}, !.registered = FALSE]

Terminated(t) == [DoTerminate(t) EXCEPT !.listener = FALSE]

\* The user may drop the transaction from within a callback.
AfterCallback(t) == IF t.listener THEN {t, Terminated(t)} ELSE {t}

\* After the final message: linger for retransmissions, if unreliable.
Lingering(t) == IF t.conn THEN DoTerminate(t)
                ELSE [t EXCEPT !.timers = @ \cup {"clearing"}]

Notified(t, o) == IF t.listener THEN Append(outcomes, o) ELSE outcomes

-----------------------------------------------------------------------------
(* TransactionClient *)

\* request()
ClientRequest ==
  /\ tc.status = "Idle"
  /\ \E conn \in SendResult :
       /\ tc' = [tc EXCEPT !.status = "Trying", !.registered = TRUE,
                           !.conn = conn,
                           !.timers = {"transaction", "retransmission"}]
       /\ net' = Sent(net, Request, conn)
  /\ UNCHANGED outcomes

ClientReceives(code) ==
  /\ tc.registered
  /\ Response(code) \in net
  /\ tc.status \in Active
  /\ net' = Taken(net, Response(code))

\* Faulty variant: a 1xx halts both timers, as that of an INVITE does.
ClientProvisionalHalts(code) ==
  /\ ClientReceives(code)
  /\ Provisional(code)
  /\ tc' = [tc EXCEPT !.status = "Proceeding", !.timers = {}]
  /\ UNCHANGED outcomes

\* A 1xx leaves both timers running.
ClientProvisional(code) ==
  /\ ClientReceives(code)
  /\ Provisional(code)
  /\ tc' \in AfterCallback([tc EXCEPT !.status = "Proceeding"])
  /\ UNCHANGED outcomes

\* Faulty variant: a final response halts no timer.
ClientFinalHaltsNothing(code) ==
  /\ ClientReceives(code)
  /\ ~Provisional(code)
  /\ tc' = Lingering([tc EXCEPT !.status = "Completed"])
  /\ outcomes' = Notified(tc, OutcomeOf(code))

\* A final response: tell the user, then linger.
ClientFinal(code) ==
  /\ ClientReceives(code)
  /\ ~Provisional(code)
  /\ LET t == [tc EXCEPT !.status = "Completed",
                         !.timers = @ \ {"retransmission", "transaction"}]
     IN  \E u \in AfterCallback(t) : tc' = Lingering(u)
  /\ outcomes' = Notified(tc, OutcomeOf(code))

ClientRetransmissionTimeout ==
  /\ "retransmission" \in tc.timers
  /\ IF tc.status \in Active /\ ~tc.conn
     THEN /\ \E conn \in SendResult : net' = Sent(net, Request, conn)
          /\ tc' = tc
     ELSE /\ tc' = [tc EXCEPT !.timers = @ \ {"retransmission"}]
          /\ net' = net
  /\ UNCHANGED outcomes

ClientTransactionTimeout ==
  /\ "transaction" \in tc.timers
  /\ tc' = [Terminated(tc) EXCEPT !.timers = @ \ {"transaction"}]
  /\ outcomes' = Notified(tc, "timeout")
  /\ UNCHANGED net

ClientClearingTimeout ==
  /\ "clearing" \in tc.timers
  /\ tc' = [DoTerminate(tc) EXCEPT !.timers = @ \ {"clearing"}]
  /\ UNCHANGED <<net, outcomes>>

\* terminate(), called by the user.
ClientTerminate ==
  /\ tc.status \notin {"Idle", "Terminated"}
  /\ tc' = Terminated(tc)
  /\ UNCHANGED <<net, outcomes>>

-----------------------------------------------------------------------------
(* TransactionServer *)

\* new TransactionServer(provider,req,listener): for a request in hand.
ServerCreate ==
  /\ Request \in net
  /\ ts.status = "Idle"
  /\ ts' = [ts EXCEPT !.status = "Trying", !.registered = TRUE, !.conn = Reliable]
  /\ net' = Taken(net, Request)
  /\ UNCHANGED response

\* listen()
ServerListen ==
  /\ ts.status = "Idle"
  /\ ts' = [ts EXCEPT !.status = "Waiting", !.registered = TRUE]
  /\ UNCHANGED <<net, response>>

\* The first request while Waiting is passed up, a later one is answered
\* with the last response; in Trying it is ignored.
ServerRequest ==
  /\ ts.registered
  /\ Request \in net
  /\ \/ /\ ts.status = "Waiting"
        /\ ts' \in AfterCallback([ts EXCEPT !.status = "Trying", !.conn = Reliable])
        /\ net' = Taken(net, Request)
     \/ /\ ts.status \in {"Proceeding", "Completed"}
        /\ \E conn \in SendResult :
             net' = Sent(Taken(net, Request), Response(response), conn)
        /\ UNCHANGED ts
  /\ UNCHANGED response

\* respondWith(): the response field is overwritten in every state, and a
\* message goes out only while no final one has.
ServerRespond(code) ==
  /\ ts.status \notin {"Idle", "Waiting"}
  /\ response' = code
  /\ IF ts.status \in Active
     THEN /\ \E conn \in SendResult : net' = Sent(net, Response(code), conn)
          /\ ts' = IF Provisional(code) THEN [ts EXCEPT !.status = "Proceeding"]
                   ELSE Lingering([ts EXCEPT !.status = "Completed"])
     ELSE UNCHANGED <<net, ts>>

ServerClearingTimeout ==
  /\ "clearing" \in ts.timers
  /\ ts' = [DoTerminate(ts) EXCEPT !.timers = @ \ {"clearing"}]
  /\ UNCHANGED <<net, response>>

\* terminate(), called by the user.
ServerTerminate ==
  /\ ts.status \notin {"Idle", "Terminated"}
  /\ ts' = Terminated(ts)
  /\ UNCHANGED <<net, response>>

-----------------------------------------------------------------------------
ClientStep ==
  \/ ClientRequest
  \/ \E code \in Codes : ClientProvisional(code) \/ ClientFinal(code)
  \/ ClientRetransmissionTimeout
  \/ ClientTransactionTimeout
  \/ ClientClearingTimeout
  \/ ClientTerminate

ServerStep ==
  \/ ServerCreate
  \/ ServerListen
  \/ ServerRequest
  \/ \E code \in Codes : ServerRespond(code)
  \/ ServerClearingTimeout
  \/ ServerTerminate

Next ==
  \/ ClientStep /\ UNCHANGED serverVars
  \/ ServerStep /\ UNCHANGED clientVars

Spec == Init /\ [][Next]_vars

\* A started timer that nobody halts fires (java.util.Timer).
TimerFairness ==
  /\ WF_vars(ClientTransactionTimeout /\ UNCHANGED serverVars)
  /\ WF_vars(ClientClearingTimeout /\ UNCHANGED serverVars)
  /\ WF_vars(ServerClearingTimeout /\ UNCHANGED clientVars)

FairSpec == Spec /\ TimerFairness

-----------------------------------------------------------------------------
(* Properties *)

\* Exactly one final callback at most: transaction_to is halted before the
\* listener, which stays set here, hears of an answer.
OneOutcome == Len(outcomes) <= 1

\* A transaction is in the provider's table exactly while it lives.
RegisteredWhileAlive ==
  \A t \in {tc, ts} : t.registered <=> t.status \notin {"Idle", "Terminated"}

\* Unlike an INVITE's, this client always ends, whatever it hears: a 1xx does
\* not stop transaction_to.
ClientEnds == tc.status # "Idle" ~> tc.status = "Terminated"

\* A server that answered finally is eventually gone.
ServerSettles == ts.status = "Completed" ~> ts.status = "Terminated"
BothEnd == ClientEnds /\ ServerSettles

\* The client transaction keeps its promise to its user.
Phase == IF tc.status = "Idle" THEN "idle"
         ELSE IF outcomes # <<>> THEN "told"
         ELSE IF tc.listener THEN "pending"
         ELSE "dropped"
Promise == INSTANCE OutcomePromise
             WITH Outcomes <- Outcome, phase <- Phase, told <- outcomes
KeepsPromise == Promise!Spec
=============================================================================
