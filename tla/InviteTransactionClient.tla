----------------------- MODULE InviteTransactionClient -----------------------
(***************************************************************************)
(* InviteTransactionClient.java: the client side of an INVITE transaction. *)
(* tc is the transaction object; outcomes counts the final callbacks of    *)
(* each kind its user (the dialog) got.  Callbacks may re-enter            *)
(* terminate().                                                            *)
(*                                                                         *)
(* No handler holds a lock.  Three threads run them: the receiver (rx),    *)
(* the scheduler (timerB: how far it is in timer B's handler) and the      *)
(* user's (leaving: between the statements of terminate()).  A handler is  *)
(* taken in the steps between which another thread matters: its tests, its *)
(* acts on the transaction, the test of the listener, the callback, the    *)
(* reset of the listener.  The scheduler holds transaction_to's monitor    *)
(* through timer B's handler, and halt() waits for it.                     *)
(***************************************************************************)
EXTENDS TransactionNet, Integers

CONSTANT Codes            \* the status codes the peer may answer with

ASSUME CodesAssumption == Codes \subseteq 100..699

VARIABLES tc, outcomes, rx, timerB, leaving

Status == {"Idle", "Waiting", "Trying", "Proceeding", "Completed",
           "Confirmed", "Terminated"}

Provisional(code) == 100 <= code /\ code < 200
Success(code)     == 200 <= code /\ code < 300
Failure(code)     == 300 <= code /\ code < 700

Invite         == [type |-> "INVITE"]
Ack            == [type |-> "ACK"]
Response(code) == [type |-> "response", code |-> code]

Outcome == {"success", "failure", "timeout"}

ClientTimers == {"retransmission", "transaction", "end"}

\* Where a thread is in its handler: past the test of the status, past the
\* acts, past the test of the listener, past the callback.
At == {"idle", "passed", "ended", "checked", "told"}

ClientTypeOK ==
  /\ tc \in [status : Status, timers : SUBSET ClientTimers, conn : BOOLEAN,
             registered : BOOLEAN, listener : BOOLEAN]
  /\ outcomes \in [Outcome -> Nat]
  /\ rx \in [at : At, code : Codes \cup {0, 100}]
  /\ timerB \in At
  /\ leaving \in BOOLEAN

ClientInit ==
  /\ tc = [status |-> "Idle", timers |-> {}, conn |-> FALSE,
           registered |-> FALSE, listener |-> TRUE]
  /\ outcomes = [o \in Outcome |-> 0]
  /\ rx = [at |-> "idle", code |-> 0]
  /\ timerB = "idle"
  /\ leaving = FALSE

\* The receiver goes on to another step of the handler it is in.
ReceiverGoes(at) == rx' = [rx EXCEPT !.at = at]

-----------------------------------------------------------------------------
\* Faulty variant: doTerminate() forgets removeSelectiveListener().
ClientStaysRegistered(t) ==
  IF t.status = "Terminated" THEN t
  ELSE [t EXCEPT !.status = "Terminated", !.timers = {}]

\* doTerminate(): a no-op on a terminated transaction, halts included; so it
\* never waits for timer B's handler, which has terminated the transaction.
ClientDoTerminate(t) ==
  IF t.status = "Terminated" THEN t
  ELSE [t EXCEPT !.status = "Terminated", !.timers = {}, !.registered = FALSE]

ClientTerminated(t) == [ClientDoTerminate(t) EXCEPT !.listener = FALSE]

\* The user may drop the transaction from within a callback.
ClientAfterCallback(t) == {t, ClientTerminated(t)}

\* One more callback of a kind.
Told(o) == [outcomes EXCEPT ![o] = @ + 1]

\* request(): timer B, listener, send, and only then timer A.
ClientRequest ==
  /\ tc.status = "Idle"
  /\ \E conn \in SendResult :
       /\ tc' = [tc EXCEPT !.status = "Trying", !.registered = TRUE,
                           !.conn = conn,
                           !.timers = {"transaction", "retransmission"}]
       /\ net' = Sent(net, Invite, conn)
  /\ UNCHANGED <<outcomes, rx, timerB, leaving>>

\* SipProvider hands a response only to a registered transaction, and there it
\* passes the first test of its class.  In Proceeding a 1xx halts nothing.
ClientReceives(code) ==
  /\ rx.at = "idle"
  /\ tc.registered
  /\ Response(code) \in net
  /\ tc.status \in {"Trying", "Proceeding"}
  /\ rx' = [at |-> IF Provisional(code) /\ tc.status = "Proceeding" THEN "ended" ELSE "passed",
            code |-> code]
  /\ net' = Taken(net, Response(code))
  /\ UNCHANGED <<tc, outcomes, timerB, leaving>>

\* A 1xx stops both timers, after waiting for timer B's handler: in Proceeding
\* none is left.  Its second test may find the transaction terminated.
ClientProvisional ==
  /\ rx.at = "passed" /\ Provisional(rx.code)
  /\ \/ /\ timerB = "idle"
        /\ tc' = [tc EXCEPT !.status = "Proceeding",
                            !.timers = @ \ {"retransmission", "transaction"}]
     \/ tc.status = "Terminated" /\ UNCHANGED tc
  /\ ReceiverGoes("ended")
  /\ UNCHANGED <<net, outcomes, timerB, leaving>>

\* Faulty variant: a refusal is acknowledged without halting timer B.
ClientFailureHaltsNothing ==
  /\ rx.at = "passed" /\ Failure(rx.code)
  /\ \E conn \in SendResult :
       /\ tc' = [tc EXCEPT !.status = "Completed", !.conn = conn]
       /\ net' = Sent(net, Ack, conn)
  /\ ReceiverGoes("ended")
  /\ UNCHANGED <<outcomes, timerB, leaving>>

\* A first 300-699: halt both timers, after waiting for timer B's handler, and
\* ACK.  If its second test finds the transaction terminated, it would send
\* again an ACK that is null, which throws.
ClientFailure ==
  /\ rx.at = "passed" /\ Failure(rx.code)
  /\ \/ /\ timerB = "idle"
        /\ \E conn \in SendResult :
             /\ tc' = [tc EXCEPT !.status = "Completed", !.conn = conn,
                                 !.timers = @ \ {"retransmission", "transaction"}]
             /\ net' = Sent(net, Ack, conn)
        /\ ReceiverGoes("ended")
     \/ tc.status = "Terminated" /\ UNCHANGED <<tc, net>> /\ ReceiverGoes("idle")
  /\ UNCHANGED <<outcomes, timerB, leaving>>

\* A retransmitted 300-699 is acknowledged again, if unreliable.
ClientFailureAgain(code) ==
  /\ rx.at = "idle"
  /\ tc.registered
  /\ Response(code) \in net
  /\ Failure(code)
  /\ tc.status = "Completed"
  /\ \E conn \in SendResult :
       net' = IF tc.conn THEN Taken(net, Response(code))
              ELSE Sent(Taken(net, Response(code)), Ack, conn)
  /\ UNCHANGED <<tc, outcomes, rx, timerB, leaving>>

\* A 2xx ends the transaction at once: the dialog sends its ACK.
ClientSuccess ==
  /\ rx.at = "passed" /\ Success(rx.code)
  /\ tc' = ClientDoTerminate(tc)
  /\ ReceiverGoes("ended")
  /\ UNCHANGED <<net, outcomes, timerB, leaving>>

\* if (invite_tc_listener!=null), in each of the receiver's branches.
ClientChecks ==
  /\ rx.at = "ended"
  /\ ReceiverGoes(IF tc.listener THEN "checked" ELSE "told")
  /\ UNCHANGED <<net, tc, outcomes, timerB, leaving>>

\* The callback.  The field is read again: reset meanwhile it throws, or the
\* value tested is still used.  Only a final response is an outcome.
ClientTells ==
  /\ rx.at = "checked"
  /\ \/ /\ outcomes' = IF Provisional(rx.code) THEN outcomes
                       ELSE Told(IF Success(rx.code) THEN "success" ELSE "failure")
        /\ tc' \in ClientAfterCallback(tc)
        /\ ReceiverGoes("told")
     \/ ~tc.listener /\ UNCHANGED <<tc, outcomes>> /\ ReceiverGoes("idle")
  /\ UNCHANGED <<net, timerB, leaving>>

\* A final response resets the listener; a refused transaction then lingers
\* (timer D) if unreliable.
ClientForgets ==
  /\ rx.at = "told"
  /\ tc' = IF Provisional(rx.code) THEN tc
           ELSE IF Success(rx.code) THEN [tc EXCEPT !.listener = FALSE]
           ELSE IF tc.conn THEN ClientTerminated(tc)
           ELSE [tc EXCEPT !.listener = FALSE, !.timers = @ \cup {"end"}]
  /\ ReceiverGoes("idle")
  /\ UNCHANGED <<net, outcomes, timerB, leaving>>

-----------------------------------------------------------------------------
\* Timer A: retransmit while Trying, if unreliable.
ClientRetransmissionTimeout ==
  /\ timerB = "idle"
  /\ "retransmission" \in tc.timers
  /\ IF tc.status = "Trying" /\ ~tc.conn
     THEN /\ \E conn \in SendResult : net' = Sent(net, Invite, conn)
          /\ tc' = tc
     ELSE /\ tc' = [tc EXCEPT !.timers = @ \ {"retransmission"}]
          /\ net' = net
  /\ UNCHANGED <<outcomes, rx, timerB, leaving>>

\* Timer B: give up ...
ClientTransactionTimeout ==
  /\ timerB = "idle"
  /\ "transaction" \in tc.timers
  /\ tc' = [ClientDoTerminate(tc) EXCEPT !.timers = @ \ {"transaction"}]
  /\ timerB' = "ended"
  /\ UNCHANGED <<net, outcomes, rx, leaving>>

TimeoutChecks ==
  /\ timerB = "ended"
  /\ timerB' = IF tc.listener THEN "checked" ELSE "told"
  /\ UNCHANGED <<net, tc, outcomes, rx, leaving>>

\* ... say so ...
TimeoutTells ==
  /\ timerB = "checked"
  /\ \/ /\ outcomes' = Told("timeout")
        /\ tc' \in ClientAfterCallback(tc)
        /\ timerB' = "told"
     \/ ~tc.listener /\ UNCHANGED <<tc, outcomes>> /\ timerB' = "idle"
  /\ UNCHANGED <<net, rx, leaving>>

\* ... and let go of the user and of the timer's monitor.
TimeoutForgets ==
  /\ timerB = "told"
  /\ tc' = [tc EXCEPT !.listener = FALSE]
  /\ timerB' = "idle"
  /\ UNCHANGED <<net, outcomes, rx, leaving>>

\* Timer D: stop lingering.
ClientEndTimeout ==
  /\ timerB = "idle"
  /\ "end" \in tc.timers
  /\ tc' = [ClientTerminated(tc) EXCEPT !.timers = @ \ {"end"}]
  /\ UNCHANGED <<net, outcomes, rx, timerB, leaving>>

\* terminate(), on the user's thread, and its second statement.
ClientTerminate ==
  /\ ~leaving
  /\ tc.status # "Idle"
  /\ tc.listener \/ tc.status # "Terminated"
  /\ tc' = ClientDoTerminate(tc)
  /\ leaving' = TRUE
  /\ UNCHANGED <<net, outcomes, rx, timerB>>

ClientLeaves ==
  /\ leaving
  /\ tc' = [tc EXCEPT !.listener = FALSE]
  /\ leaving' = FALSE
  /\ UNCHANGED <<net, outcomes, rx, timerB>>
=============================================================================
