----------------------- MODULE InviteTransaction_proofs -----------------------
(***************************************************************************)
(* Proofs about InviteTransaction, for every set of status codes, over UDP *)
(* and over a reliable transport; and, in the last part, about             *)
(* AckTransaction, which takes over once the answer is a 2xx.  They are    *)
(* two specifications: no formula speaks of the variables of both.         *)
(***************************************************************************)
EXTENDS InviteTransaction, AckTransaction, TLAPS

ClientStep ==
  \/ ClientRequest
  \/ \E code \in Codes \cup {100} : ClientReceives(code) \/ ClientFailureAgain(code)
  \/ ClientReceiver
  \/ ClientRetransmissionTimeout
  \/ ClientTransactionTimeout
  \/ ClientScheduler
  \/ ClientEndTimeout
  \/ ClientTerminate
  \/ ClientLeaves

ServerStep ==
  \/ ServerCreate
  \/ ServerListen
  \/ ServerInvite
  \/ \E code \in Codes : ServerRespond(code)
  \/ ServerAck
  \/ ServerRetransmissionTimeout
  \/ ServerEndTimeout
  \/ ServerClearingTimeout
  \/ ServerTerminate

\* A step is one of the client's or one of the server's.
LEMMA NextSplits == Next => \/ ClientStep /\ UNCHANGED serverVars
                            \/ ServerStep /\ UNCHANGED clientVars
BY DEF Next, ClientStep, ServerStep

Client == [status : Status, timers : SUBSET ClientTimers, conn : BOOLEAN,
           registered : BOOLEAN, listener : BOOLEAN]

\* What doTerminate() and terminate() do to a client transaction: it ends, and
\* after terminate() it has left its user too.
LEMMA ClientTerminatedFields ==
  ASSUME NEW t \in Client
  PROVE  /\ ClientDoTerminate(t) \in Client
         /\ ClientDoTerminate(t).status = "Terminated"
         /\ ClientDoTerminate(t).listener = t.listener
         /\ ClientDoTerminate(t).timers \subseteq t.timers
         /\ t.status # "Terminated" \/ ~t.registered => ~ClientDoTerminate(t).registered
         /\ ClientTerminated(t) \in Client
         /\ ClientTerminated(t).status = "Terminated"
         /\ ~ClientTerminated(t).listener
         /\ ClientTerminated(t).timers \subseteq t.timers
         /\ t.status # "Terminated" \/ ~t.registered => ~ClientTerminated(t).registered
<1>1. CASE t.status = "Terminated"
  BY <1>1 DEF Client, ClientDoTerminate, ClientTerminated
<1>2. CASE t.status # "Terminated"
  <2> DEFINE u == [t EXCEPT !.status = "Terminated", !.timers = {}, !.registered = FALSE]
  <2>1. u \in Client /\ u.status = "Terminated" /\ ~u.registered /\ u.timers = {} /\ u.listener = t.listener
    BY DEF Client, Status
  <2>2. ClientDoTerminate(t) = u /\ ClientTerminated(t) = [u EXCEPT !.listener = FALSE]
    BY <1>2 DEF ClientDoTerminate, ClientTerminated
  <2> HIDE DEF u
  <2>3. QED
    BY <2>1, <2>2 DEF Client
<1>3. QED
  BY <1>1, <1>2

-----------------------------------------------------------------------------
(* The inductive invariant: what each thread, where it is, may rely on.    *)

Messages == {Invite, Ack} \cup {Response(c) : c \in Codes \cup {0, 100}}

HeardSuccess == outcomes["success"] = 1
HeardTimeout == outcomes["timeout"] = 1
Refused      == outcomes["failure"] = 1
HeardNothing == ~HeardSuccess /\ ~HeardTimeout /\ ~Refused

\* The receiver is past its acts in a handler of the class.
Ending(class) == rx.at \in {"ended", "checked", "told"} /\ class
Refusing   == Ending(Failure(rx.code))
Succeeding == Ending(Success(rx.code))

Over == tc.status \in {"Completed", "Terminated"}

\* Before request() nothing runs and nothing was heard.
IdleQuiet ==
  tc.status = "Idle" => /\ tc.timers = {} /\ tc.listener /\ ~tc.registered
                        /\ HeardNothing
                        /\ rx.at = "idle" /\ timerB = "idle" /\ ~leaving

\* Timer B has one shot, and its handler runs on a terminated transaction.
TimerBOnce ==
  /\ timerB # "idle" => tc.status = "Terminated"
  /\ timerB # "idle" \/ HeardTimeout => "transaction" \notin tc.timers
  /\ timerB \in {"ended", "checked"} => ~HeardTimeout
  /\ timerB # "passed"

\* A receiver past the halts of a refusal shares the transaction with no timer B.
RefusingAlone == Refusing \/ Refused => /\ timerB = "idle"
                                        /\ "transaction" \notin tc.timers
                                        /\ Over

\* A receiver past the doTerminate() of a success finds it terminated.
SucceedingEnded == Succeeding => tc.status = "Terminated"

\* A user that was told is left, or about to be.
SilentWhileListening ==
  tc.listener => HeardNothing \/ timerB = "told" \/ (rx.at = "told" /\ (Refusing \/ Succeeding))

\* The receiver tells one final response and begins no second.
ToldOnce ==
  /\ HeardSuccess => tc.status = "Terminated" /\ (rx.at = "idle" \/ (rx.at = "told" /\ Succeeding))
  /\ Refused => ~HeardSuccess /\ ~HeardTimeout
  /\ Refused => rx.at = "idle" \/ (rx.at = "told" /\ Refusing)
  /\ rx.at = "checked" /\ Refusing => HeardNothing

\* A receiver past its test on a transaction that ended without it will find,
\* once it may act, that its user has left or is leaving.
PassedOver ==
  rx.at = "passed" /\ tc.status = "Terminated" /\ timerB = "idle" => ~tc.listener \/ leaving

AckAfterFailure ==
  (Ack \in net \/ acked) => Over /\ ~HeardSuccess /\ (rx.at = "idle" \/ Refusing)

Answering == rx.at # "idle" => rx.code \in Codes \cup {100}

Threads == /\ Answering /\ IdleQuiet /\ TimerBOnce /\ RefusingAlone /\ SucceedingEnded
           /\ SilentWhileListening /\ ToldOnce /\ PassedOver

IInv == /\ TypeOK /\ outcomes \in [Outcome -> {0, 1}] /\ Threads
        /\ RegisteredWhileAlive /\ AckAfterFailure

\* A response is of one class.
LEMMA Classes ==
  ASSUME NEW code \in Codes \cup {100}
  PROVE  /\ Provisional(code) \/ Success(code) \/ Failure(code)
         /\ ~(Provisional(code) /\ Success(code))
         /\ ~(Provisional(code) /\ Failure(code))
         /\ ~(Success(code) /\ Failure(code))
BY CodesAssumption DEF Provisional, Success, Failure

\* What a first callback of its kind makes of the count.
LEMMA Tellings ==
  ASSUME outcomes \in [Outcome -> {0, 1}], NEW o \in Outcome, outcomes[o] = 0
  PROVE  /\ Told(o) \in [Outcome -> {0, 1}] /\ Told(o)[o] = 1
         /\ \A k \in Outcome : k # o => Told(o)[k] = outcomes[k]
BY DEF Told

\* Whatever the threads of InviteTransactionClient do, in whatever order, they
\* keep the invariant, the server's side being untouched.
LEMMA ClientStepInv ==
  ASSUME IInv, ClientStep, UNCHANGED serverVars
  PROVE  IInv'
<1> DEFINE Keeps == /\ tc' \in Client
                    /\ outcomes' \in [Outcome -> {0, 1}]
                    /\ rx' \in [at : At, code : Codes \cup {0, 100}]
                    /\ timerB' \in At /\ leaving' \in BOOLEAN
                    /\ net' \subseteq Messages
                    /\ Threads'
                    /\ tc'.registered => tc'.status \notin {"Idle", "Terminated"}
                    /\ tc'.status \notin {"Idle", "Terminated"} /\ tc'.listener /\ ~leaving' => tc'.registered
                    /\ AckAfterFailure'
<1>1. /\ tc \in Client /\ outcomes \in [Outcome -> {0, 1}]
      /\ rx \in [at : At, code : Codes \cup {0, 100}]
      /\ timerB \in At /\ leaving \in BOOLEAN
      /\ net \subseteq Messages
      /\ Threads
      /\ tc.registered => tc.status \notin {"Idle", "Terminated"}
      /\ tc.status \notin {"Idle", "Terminated"} /\ tc.listener /\ ~leaving => tc.registered
      /\ AckAfterFailure
      /\ acked' = acked
  BY DEF IInv, TypeOK, ClientTypeOK, Client, Messages, RegisteredWhileAlive, serverVars
<1>2. SUFFICES Keeps
  <2>1. Keeps => outcomes' \in [Outcome -> Nat]
    OBVIOUS
  <2>2. Keeps => TypeOK'
    BY <2>1 DEF IInv, TypeOK, ClientTypeOK, ServerTypeOK, Client, Messages, serverVars
  <2>3. Keeps => RegisteredWhileAlive'
    BY DEF IInv, RegisteredWhileAlive, serverVars
  <2>4. Keeps => IInv'
    BY <2>2, <2>3 DEF IInv
  <2>5. QED
    BY <2>4
<1>3. rx.at # "idle" => /\ Provisional(rx.code) \/ Success(rx.code) \/ Failure(rx.code)
                        /\ ~(Provisional(rx.code) /\ Success(rx.code))
                        /\ ~(Provisional(rx.code) /\ Failure(rx.code))
                        /\ ~(Success(rx.code) /\ Failure(rx.code))
  BY <1>1, Classes DEF Threads, Answering
<1> USE DEF Threads, Answering, IdleQuiet, TimerBOnce, RefusingAlone, SucceedingEnded,
            SilentWhileListening, ToldOnce, PassedOver, AckAfterFailure, Ending, Refusing,
            Succeeding, Over, HeardSuccess, HeardTimeout, Refused, HeardNothing, At
<1>4. CASE ClientRequest
  <2>1. PICK conn \in BOOLEAN :
          /\ tc' = [tc EXCEPT !.status = "Trying", !.registered = TRUE,
                              !.conn = conn,
                              !.timers = {"transaction", "retransmission"}]
          /\ net' = Sent(net, Invite, conn)
    BY <1>4 DEF ClientRequest, SendResult
  <2>2. /\ tc' \in Client /\ tc'.status = "Trying" /\ tc'.registered
        /\ tc'.listener = tc.listener
    BY <1>1, <2>1 DEF Client, Status, ClientTimers
  <2>3. net' \subseteq Messages /\ (Ack \in net' => Ack \in net)
    BY <1>1, <2>1 DEF Sent, Invite, Ack, Messages
  <2>4. /\ tc.status = "Idle" /\ outcomes' = outcomes /\ rx' = rx
        /\ timerB' = timerB /\ leaving' = leaving
    BY <1>4 DEF ClientRequest
  <2>5. QED
    BY <1>1, <2>2, <2>3, <2>4
<1>5. ASSUME NEW code \in Codes \cup {100}, ClientReceives(code) PROVE Keeps
  <2>1. /\ rx' = [at |-> IF Provisional(code) /\ tc.status = "Proceeding" THEN "ended" ELSE "passed",
                  code |-> code]
        /\ rx.at = "idle" /\ tc.registered
        /\ tc.status \in {"Trying", "Proceeding"}
        /\ tc' = tc /\ outcomes' = outcomes /\ timerB' = timerB /\ leaving' = leaving
        /\ net' \subseteq net
    BY <1>5 DEF ClientReceives, Taken
  <2>2. /\ rx'.code = code /\ rx'.at \in {"ended", "passed"}
        /\ rx'.at = "ended" => Provisional(code)
        /\ rx' \in [at : At, code : Codes \cup {0, 100}]
    BY <2>1
  <2>3. rx'.at = "ended" => ~Failure(rx'.code) /\ ~Success(rx'.code)
    BY <2>2, Classes
  <2>4. QED
    BY <1>1, <2>1, <2>2, <2>3
<1>6. ASSUME NEW code \in Codes \cup {100}, ClientFailureAgain(code) PROVE Keeps
  <2>1. /\ tc.status = "Completed" /\ rx.at = "idle"
        /\ UNCHANGED <<tc, outcomes, rx, timerB, leaving>>
    BY <1>6 DEF ClientFailureAgain
  <2>2. net' \subseteq Messages
    BY <1>1, <1>6 DEF ClientFailureAgain, Sent, Taken, Messages
  <2>3. QED
    BY <1>1, <2>1, <2>2
<1>7. CASE ClientProvisional
  <2>1. /\ rx.at = "passed" /\ Provisional(rx.code) /\ rx' = [rx EXCEPT !.at = "ended"]
        /\ UNCHANGED <<net, outcomes, timerB, leaving>>
    BY <1>7 DEF ClientProvisional, ReceiverGoes
  <2>2. rx' \in [at : At, code : Codes \cup {0, 100}] /\ rx'.at = "ended" /\ rx'.code = rx.code
    BY <1>1, <2>1
  <2>3. CASE tc.status = "Terminated" /\ UNCHANGED tc
    BY <1>1, <1>3, <2>1, <2>2, <2>3
  <2>4. CASE timerB = "idle" /\ tc' = [tc EXCEPT !.status = "Proceeding",
                            !.timers = @ \ {"retransmission", "transaction"}]
    <3>1. /\ tc' \in Client /\ tc'.status = "Proceeding" /\ tc'.registered = tc.registered
          /\ tc'.listener = tc.listener /\ tc'.timers = tc.timers \ {"retransmission", "transaction"}
      BY <1>1, <2>4 DEF Client, Status, ClientTimers
    <3>2. QED
      BY <1>1, <1>3, <2>1, <2>2, <2>4, <3>1
  <2>5. QED
    BY <1>7, <2>3, <2>4 DEF ClientProvisional
<1>8. CASE ClientFailure
  <2>1. /\ rx.at = "passed" /\ Failure(rx.code)
        /\ UNCHANGED <<outcomes, timerB, leaving>>
    BY <1>8 DEF ClientFailure
  <2>2. ASSUME NEW at \in At, ReceiverGoes(at)
        PROVE  rx' \in [at : At, code : Codes \cup {0, 100}] /\ rx'.at = at /\ rx'.code = rx.code
    BY <1>1, <2>2 DEF ReceiverGoes
  <2>3. CASE tc.status = "Terminated" /\ UNCHANGED <<tc, net>> /\ ReceiverGoes("idle")
    BY <1>1, <1>3, <2>1, <2>2, <2>3
  <2>4. ASSUME timerB = "idle", NEW conn \in SendResult,
               tc' = [tc EXCEPT !.status = "Completed", !.conn = conn,
                                !.timers = @ \ {"retransmission", "transaction"}],
               net' = Sent(net, Ack, conn), ReceiverGoes("ended")
        PROVE  Keeps
    <3>1. /\ tc' \in Client /\ tc'.status = "Completed" /\ tc'.registered = tc.registered
          /\ tc'.listener = tc.listener /\ tc'.timers = tc.timers \ {"retransmission", "transaction"}
      BY <1>1, <2>4 DEF Client, Status, ClientTimers, SendResult
    <3>2. net' \subseteq Messages
      BY <1>1, <2>4 DEF Sent, Messages
    <3>3. QED
      BY <1>1, <1>3, <2>1, <2>2, <2>4, <3>1, <3>2
  <2>5. QED
    BY <1>8, <2>3, <2>4 DEF ClientFailure
<1>9. CASE ClientSuccess
  <2>1. /\ rx.at = "passed" /\ Success(rx.code) /\ rx' = [rx EXCEPT !.at = "ended"]
        /\ tc' = ClientDoTerminate(tc)
        /\ UNCHANGED <<net, outcomes, timerB, leaving>>
    BY <1>9 DEF ClientSuccess, ReceiverGoes
  <2>2. rx' \in [at : At, code : Codes \cup {0, 100}] /\ rx'.at = "ended" /\ rx'.code = rx.code
    BY <1>1, <2>1
  <2>3. /\ tc' \in Client /\ tc'.status = "Terminated" /\ ~tc'.registered
        /\ tc'.listener = tc.listener /\ tc'.timers \subseteq tc.timers
    BY <1>1, <2>1, ClientTerminatedFields
  <2>4. QED
    BY <1>1, <1>3, <2>1, <2>2, <2>3
<1>10. CASE ClientChecks
  <2>1. /\ rx.at = "ended" /\ rx' = [rx EXCEPT !.at = IF tc.listener THEN "checked" ELSE "told"]
        /\ UNCHANGED <<net, tc, outcomes, timerB, leaving>>
    BY <1>10 DEF ClientChecks, ReceiverGoes
  <2>2. /\ rx' \in [at : At, code : Codes \cup {0, 100}] /\ rx'.code = rx.code
        /\ rx'.at = IF tc.listener THEN "checked" ELSE "told"
    BY <1>1, <2>1
  <2>3. QED
    BY <1>1, <1>3, <2>1, <2>2
<1>11. CASE ClientTells
  <2>1. rx.at = "checked" /\ UNCHANGED <<net, timerB, leaving>>
    BY <1>11 DEF ClientTells
  <2>2. ASSUME NEW at \in At, ReceiverGoes(at)
        PROVE  rx' \in [at : At, code : Codes \cup {0, 100}] /\ rx'.at = at /\ rx'.code = rx.code
    BY <1>1, <2>2 DEF ReceiverGoes
  <2>3. CASE ~tc.listener /\ UNCHANGED <<tc, outcomes>> /\ ReceiverGoes("idle")
    BY <1>1, <1>3, <2>1, <2>2, <2>3
  <2>4. CASE /\ outcomes' = IF Provisional(rx.code) THEN outcomes
                       ELSE Told(IF Success(rx.code) THEN "success" ELSE "failure")
             /\ tc' \in ClientAfterCallback(tc)
             /\ ReceiverGoes("told")
    <3>1. /\ tc' \in Client /\ (tc'.status = tc.status \/ tc'.status = "Terminated")
          /\ (tc' = tc \/ (tc'.status = "Terminated" /\ ~tc'.listener /\ ~tc'.registered))
          /\ tc'.timers \subseteq tc.timers
      BY <1>1, <2>4, ClientTerminatedFields DEF ClientAfterCallback
    <3>2. CASE Provisional(rx.code)
      BY <1>1, <1>3, <2>1, <2>2, <2>4, <3>1, <3>2
    <3>3. CASE Success(rx.code)
      <4>1. outcomes["success"] = 0 /\ "success" \in Outcome /\ outcomes' = Told("success")
        BY <1>1, <1>3, <2>1, <2>4, <3>3 DEF Outcome
      <4>2. /\ outcomes' \in [Outcome -> {0, 1}] /\ outcomes'["success"] = 1
            /\ outcomes'["timeout"] = outcomes["timeout"] /\ outcomes'["failure"] = outcomes["failure"]
        BY <1>1, <4>1, Tellings DEF Outcome
      <4>3. QED
        BY <1>1, <1>3, <2>1, <2>2, <2>4, <3>1, <3>3, <4>2
    <3>4. CASE Failure(rx.code)
      <4>1. outcomes["failure"] = 0 /\ "failure" \in Outcome /\ outcomes' = Told("failure")
        BY <1>1, <1>3, <2>1, <2>4, <3>4 DEF Outcome
      <4>2. /\ outcomes' \in [Outcome -> {0, 1}] /\ outcomes'["failure"] = 1
            /\ outcomes'["timeout"] = outcomes["timeout"] /\ outcomes'["success"] = outcomes["success"]
        BY <1>1, <4>1, Tellings DEF Outcome
      <4>3. QED
        BY <1>1, <1>3, <2>1, <2>2, <2>4, <3>1, <3>4, <4>2
    <3>5. QED
      BY <1>3, <2>1, <3>2, <3>3, <3>4
  <2>5. QED
    BY <1>11, <2>3, <2>4 DEF ClientTells
<1>12. CASE ClientForgets
  <2>1. /\ rx.at = "told" /\ rx' = [rx EXCEPT !.at = "idle"]
        /\ tc' = IF Provisional(rx.code) THEN tc
                 ELSE IF Success(rx.code) THEN [tc EXCEPT !.listener = FALSE]
                 ELSE IF tc.conn THEN ClientTerminated(tc)
                 ELSE [tc EXCEPT !.listener = FALSE, !.timers = @ \cup {"end"}]
        /\ UNCHANGED <<net, outcomes, timerB, leaving>>
    BY <1>12 DEF ClientForgets, ReceiverGoes
  <2>2. rx' \in [at : At, code : Codes \cup {0, 100}] /\ rx'.at = "idle" /\ rx'.code = rx.code
    BY <1>1, <2>1
  <2>3. CASE Provisional(rx.code)
    BY <1>1, <1>3, <2>1, <2>2, <2>3
  <2>4. CASE Success(rx.code) \/ Failure(rx.code)
    <3>1. /\ tc' \in Client /\ ~tc'.listener /\ tc'.timers \subseteq tc.timers \cup {"end"}
          /\ \/ tc'.status = tc.status /\ tc'.registered = tc.registered
             \/ tc'.status = "Terminated" /\ ~tc'.registered
      <4>1. CASE Failure(rx.code) /\ tc.conn
        BY <1>1, <1>3, <2>1, <4>1, ClientTerminatedFields
      <4>2. CASE ~(Failure(rx.code) /\ tc.conn)
        BY <1>1, <1>3, <2>1, <2>4, <4>2 DEF Client, ClientTimers
      <4>3. QED
        BY <4>1, <4>2
    <3>2. tc.status # "Idle"
      BY <1>1, <2>1
    <3>3. QED
      BY <1>1, <1>3, <2>1, <2>2, <3>1, <3>2
  <2>5. QED
    BY <1>3, <2>1, <2>3, <2>4
<1>13. CASE ClientRetransmissionTimeout
  <2>1. /\ "retransmission" \in tc.timers
        /\ UNCHANGED <<outcomes, rx, timerB, leaving>>
    BY <1>13 DEF ClientRetransmissionTimeout
  <2>2. CASE tc.status = "Trying" /\ ~tc.conn
    <3>1. tc' = tc /\ net' \subseteq Messages /\ (Ack \in net' => Ack \in net)
      BY <1>1, <1>13, <2>2 DEF ClientRetransmissionTimeout, Sent, Invite, Ack, Messages
    <3>2. QED
      BY <1>1, <2>1, <3>1
  <2>3. CASE ~(tc.status = "Trying" /\ ~tc.conn)
    <3>1. tc' = [tc EXCEPT !.timers = @ \ {"retransmission"}] /\ net' = net
      BY <1>13, <2>3 DEF ClientRetransmissionTimeout
    <3>2. /\ tc' \in Client /\ tc'.status = tc.status /\ tc'.timers \subseteq tc.timers
          /\ tc'.registered = tc.registered /\ tc'.listener = tc.listener
      BY <1>1, <3>1 DEF Client
    <3>3. QED
      BY <1>1, <2>1, <3>1, <3>2
  <2>4. QED
    BY <2>2, <2>3
<1>14. ASSUME NEW t \in Client, NEW timer, tc' = [t EXCEPT !.timers = @ \ {timer}]
       PROVE  /\ tc' \in Client /\ tc'.status = t.status /\ tc'.registered = t.registered
              /\ tc'.listener = t.listener /\ tc'.timers = t.timers \ {timer}
  BY <1>14 DEF Client
<1>15. CASE ClientTransactionTimeout
  <2>1. /\ tc' \in Client /\ tc'.status = "Terminated"
        /\ tc'.listener = tc.listener /\ ~tc'.registered
        /\ tc'.timers \subseteq tc.timers \ {"transaction"}
    <3>1. tc' = [ClientDoTerminate(tc) EXCEPT !.timers = @ \ {"transaction"}]
      BY <1>15 DEF ClientTransactionTimeout
    <3>2. tc.status # "Terminated" \/ ~tc.registered
      BY <1>1
    <3> DEFINE t == ClientDoTerminate(tc)
    <3>3. /\ t \in Client /\ t.status = "Terminated" /\ t.listener = tc.listener
          /\ ~t.registered /\ t.timers \subseteq tc.timers
      BY <1>1, <3>2, ClientTerminatedFields
    <3> HIDE DEF t
    <3>4. QED
      BY <1>14, <3>1, <3>3 DEF t
  <2>2. /\ timerB = "idle" /\ "transaction" \in tc.timers /\ timerB' = "ended"
        /\ UNCHANGED <<net, outcomes, rx, leaving>>
    BY <1>15 DEF ClientTransactionTimeout
  <2>3. QED
    BY <1>1, <2>1, <2>2
<1>16. CASE TimeoutChecks
  BY <1>1, <1>16 DEF TimeoutChecks
<1>17. CASE TimeoutTells
  <2>1. timerB = "checked" /\ UNCHANGED <<net, rx, leaving>>
    BY <1>17 DEF TimeoutTells
  <2>2. CASE ~tc.listener /\ UNCHANGED <<tc, outcomes>> /\ timerB' = "idle"
    BY <1>1, <2>1, <2>2
  <2>3. CASE /\ outcomes' = Told("timeout")
             /\ tc' \in ClientAfterCallback(tc)
             /\ timerB' = "told"
    <3>1. /\ tc' \in Client /\ tc'.status = "Terminated" /\ ~tc'.registered
          /\ (tc'.listener => tc.listener) /\ tc'.timers \subseteq tc.timers
      BY <1>1, <2>1, <2>3, ClientTerminatedFields DEF ClientAfterCallback
    <3>2. outcomes["timeout"] = 0 /\ "timeout" \in Outcome /\ outcomes' = Told("timeout")
      BY <1>1, <2>1, <2>3 DEF Outcome
    <3>3. /\ outcomes' \in [Outcome -> {0, 1}] /\ outcomes'["timeout"] = 1
          /\ outcomes'["failure"] = outcomes["failure"] /\ outcomes'["success"] = outcomes["success"]
      BY <1>1, <3>2, Tellings DEF Outcome
    <3>4. QED
      BY <1>1, <2>1, <2>3, <3>1, <3>3
  <2>4. QED
    BY <1>17, <2>2, <2>3 DEF TimeoutTells
<1>18. CASE TimeoutForgets \/ ClientLeaves
  <2>1. /\ tc' = [tc EXCEPT !.listener = FALSE] /\ timerB' \in {timerB, "idle"}
        /\ timerB # "idle" \/ leaving
        /\ (timerB' # timerB => timerB = "told") /\ leaving' \in BOOLEAN
        /\ UNCHANGED <<net, outcomes, rx>>
    BY <1>1, <1>18 DEF TimeoutForgets, ClientLeaves
  <2>2. /\ tc' \in Client /\ tc'.status = tc.status /\ tc'.timers = tc.timers
        /\ tc'.registered = tc.registered /\ ~tc'.listener
    BY <1>1, <2>1 DEF Client
  <2>3. QED
    BY <1>1, <2>1, <2>2
<1>19. CASE ClientEndTimeout \/ ClientTerminate
  <2>1. CASE ClientEndTimeout
    <3>1. /\ tc' \in Client /\ tc'.status = "Terminated"
          /\ ~tc'.listener /\ ~tc'.registered /\ tc'.timers \subseteq tc.timers
      <4>1. tc' = [ClientTerminated(tc) EXCEPT !.timers = @ \ {"end"}]
        BY <2>1 DEF ClientEndTimeout
      <4>2. tc.status # "Terminated" \/ ~tc.registered
        BY <1>1
      <4> DEFINE t == ClientTerminated(tc)
      <4>3. /\ t \in Client /\ t.status = "Terminated" /\ ~t.listener
            /\ ~t.registered /\ t.timers \subseteq tc.timers
        BY <1>1, <4>2, ClientTerminatedFields
      <4> HIDE DEF t
      <4>4. QED
        BY <1>14, <4>1, <4>3 DEF t
    <3>2. tc.status # "Idle" /\ UNCHANGED <<net, outcomes, rx, timerB, leaving>>
      BY <1>1, <2>1 DEF ClientEndTimeout
    <3>3. QED
      BY <1>1, <3>1, <3>2
  <2>2. CASE ClientTerminate
    <3>1. /\ tc' \in Client /\ tc'.status = "Terminated"
          /\ tc'.listener = tc.listener /\ ~tc'.registered /\ tc'.timers \subseteq tc.timers
      BY <1>1, <2>2, ClientTerminatedFields DEF ClientTerminate
    <3>2. tc.status # "Idle" /\ leaving' = TRUE /\ UNCHANGED <<net, outcomes, rx, timerB>>
      BY <2>2 DEF ClientTerminate
    <3>3. QED
      BY <1>1, <3>1, <3>2
  <2>3. QED
    BY <1>19, <2>1, <2>2
<1>20. QED
  BY <1>4, <1>5, <1>6, <1>7, <1>8, <1>9, <1>10, <1>11, <1>12, <1>13, <1>14, <1>15,
     <1>16, <1>17, <1>18, <1>19 DEF ClientStep, ClientReceiver, ClientScheduler

-----------------------------------------------------------------------------
Server == [status : Status, timers : SUBSET ServerTimers, conn : BOOLEAN,
           registered : BOOLEAN, listener : BOOLEAN]

\* A server transaction that the provider's table agrees with.
ServerOK(t) == /\ t \in Server
               /\ t.registered <=> t.status \notin {"Idle", "Terminated"}

\* terminate() of the server removes it from the provider's table.
LEMMA ServerTerminatedOK ==
  ASSUME NEW t, ServerOK(t)
  PROVE  ServerOK(ServerTerminated(t))
<1>1. CASE t.status = "Terminated"
  BY <1>1 DEF ServerOK, Server, ServerDoTerminate, ServerTerminated
<1>2. CASE t.status # "Terminated"
  <2> DEFINE u == [t EXCEPT !.status = "Terminated", !.timers = {}, !.registered = FALSE]
  <2>1. u \in Server /\ u.status = "Terminated" /\ ~u.registered
    BY DEF ServerOK, Server, Status
  <2>2. ServerTerminated(t) = [u EXCEPT !.listener = FALSE]
    BY <1>2 DEF ServerDoTerminate, ServerTerminated
  <2> HIDE DEF u
  <2>3. QED
    BY <2>1, <2>2 DEF ServerOK, Server
<1>3. QED
  BY <1>1, <1>2

\* So does a callback that re-enters terminate(), and one that does not
\* leaves the server as it was.
LEMMA ServerAfterCallbackOK ==
  ASSUME NEW t, ServerOK(t), NEW u \in ServerAfterCallback(t)
  PROVE  ServerOK(u)
BY ServerTerminatedOK DEF ServerAfterCallback

\* A status code is of one class only: the branches of respondWith() exclude
\* each other.
LEMMA ClassesDisjoint ==
  ASSUME NEW code \in Int
  PROVE  /\ Provisional(code) => ~Success(code) /\ ~Failure(code)
         /\ Success(code) => ~Failure(code)
BY DEF Provisional, Success, Failure

\* respondWith(), in any state and with any code, leaves the provider's table right.
LEMMA RespondedOK ==
  ASSUME NEW t, ServerOK(t), NEW code \in Int
  PROVE  ServerOK(Responded(t, code))
<1>1. CASE Provisional(code) /\ t.status = "Trying"
  <2>1. Responded(t, code) = [t EXCEPT !.status = "Proceeding"]
    BY <1>1, ClassesDisjoint, Zenon DEF Responded, RefusalTimers
  <2>2. QED
    BY <1>1, <2>1 DEF ServerOK, Server, Status
<1>2. CASE Success(code) /\ t.status \in {"Trying", "Proceeding"}
  <2>1. Responded(t, code) = ServerTerminated(t)
    BY <1>2, ClassesDisjoint, Zenon DEF Responded, RefusalTimers
  <2>2. QED
    BY <2>1, ServerTerminatedOK
<1>3. CASE Failure(code) /\ t.status \in {"Trying", "Proceeding"}
  <2> DEFINE more == RefusalTimers(t)
  <2>1. Responded(t, code) =
          [t EXCEPT !.status = "Completed", !.timers = @ \cup more]
    BY <1>3, ClassesDisjoint, Zenon DEF Responded
  <2>2. more \subseteq ServerTimers
    BY DEF RefusalTimers, ServerTimers
  <2> HIDE DEF more
  <2>3. t.registered /\ t.timers \cup more \subseteq ServerTimers
    BY <1>3, <2>2 DEF ServerOK, Server
  <2>4. QED
    BY <2>1, <2>3 DEF ServerOK, Server, Status
<1>4. CASE ~ \/ Provisional(code) /\ t.status = "Trying"
             \/ Success(code) /\ t.status \in {"Trying", "Proceeding"}
             \/ Failure(code) /\ t.status \in {"Trying", "Proceeding"}
  <2>1. Responded(t, code) = t
    BY <1>4 DEF Responded, RefusalTimers
  <2>2. QED
    BY <2>1
<1>5. QED
  BY <1>1, <1>2, <1>3, <1>4

\* The constructor and listen() register the server, automatic 100 or not.
LEMMA ServerStartedOK ==
  ASSUME NEW t, ServerOK(t), NEW conn \in BOOLEAN
  PROVE  ServerOK(ServerStarted(t, conn))
<1> DEFINE u == [t EXCEPT !.status = "Trying", !.registered = TRUE, !.conn = conn]
<1>1. ServerOK(u)
  BY DEF ServerOK, Server, Status
<1>2. ServerStarted(t, conn) = IF AutoTrying THEN Responded(u, 100) ELSE u
  BY DEF ServerStarted
<1> HIDE DEF u
<1>3. QED
  BY <1>1, <1>2, RespondedOK, 100 \in Int

\* What a server step may do: it never makes an ACK.
ServerEffect ==
  /\ ServerOK(ts')
  /\ response' \in Codes \cup {0, 100}
  /\ acked' \in BOOLEAN
  /\ net' \subseteq Messages
  /\ Ack \in net' \/ acked' => Ack \in net \/ acked

\* No handler of InviteTransactionServer makes an ACK out of nothing.
LEMMA ServerStepEffect ==
  ASSUME IInv, ServerStep
  PROVE  ServerEffect
<1>1. /\ ServerOK(ts) /\ response \in Codes \cup {0, 100} /\ acked \in BOOLEAN
      /\ net \subseteq Messages
  BY DEF IInv, TypeOK, ServerTypeOK, ServerOK, Server, RegisteredWhileAlive, Messages
<1>2. ASSUME NEW m, NEW conn, NEW n, n \subseteq net, m \in Messages, m # Ack
      PROVE  /\ Sent(n, m, conn) \subseteq Messages
             /\ Ack \in Sent(n, m, conn) => Ack \in net
  BY <1>1, <1>2 DEF Sent
<1>3. ASSUME NEW code \in Codes \cup {0, 100}
      PROVE  Response(code) \in Messages /\ Response(code) # Ack
  BY DEF Response, Messages, Ack
<1>4. ASSUME NEW m PROVE Taken(net, m) \subseteq net
  BY DEF Taken
<1>5. ASSUME NEW conn, NEW n, n \subseteq net
      PROVE  /\ StartedNet(n, conn) \subseteq Messages
             /\ Ack \in StartedNet(n, conn) => Ack \in net
  BY <1>1, <1>2, <1>3, <1>5 DEF StartedNet
<1>6. StartedResponse \in Codes \cup {0, 100}
  BY <1>1 DEF StartedResponse
<1>7. CASE ServerCreate
  <2>1. PICK conn \in SendResult :
          /\ ts' = ServerStarted(ts, Reliable)
          /\ net' = StartedNet(Taken(net, Invite), conn)
    BY <1>7 DEF ServerCreate
  <2>2. response' = StartedResponse /\ acked' = acked
    BY <1>7 DEF ServerCreate
  <2>3. QED
    BY <1>1, <1>4, <1>5, <1>6, <2>1, <2>2, ServerStartedOK, ReliableAssumption DEF ServerEffect
<1>8. CASE ServerListen
  <2>1. ServerOK(ts')
    BY <1>1, <1>8 DEF ServerListen, ServerOK, Server, Status
  <2>2. QED
    BY <1>1, <1>8, <2>1 DEF ServerListen, ServerEffect
<1>9. CASE ServerInvite
  <2>1. PICK conn \in SendResult :
          \/ /\ ts.status = "Waiting"
             /\ ts' \in ServerAfterCallback(ServerStarted(ts, Reliable))
             /\ net' = StartedNet(Taken(net, Invite), conn)
             /\ response' = StartedResponse
          \/ /\ ts.status \in {"Proceeding", "Completed"}
             /\ net' = Sent(Taken(net, Invite), Response(response), conn)
             /\ UNCHANGED <<ts, response>>
    BY <1>9 DEF ServerInvite
  <2>2. acked' = acked
    BY <1>9 DEF ServerInvite
  <2>3. CASE ts.status = "Waiting"
    BY <1>1, <1>4, <1>5, <1>6, <2>1, <2>2, <2>3, ServerStartedOK, ServerAfterCallbackOK, ReliableAssumption DEF ServerEffect
  <2>4. CASE ts.status # "Waiting"
    BY <1>1, <1>2, <1>3, <1>4, <2>1, <2>2, <2>4 DEF ServerEffect
  <2>5. QED
    BY <2>3, <2>4
<1>10. ASSUME NEW code \in Codes, ServerRespond(code)
       PROVE  ServerEffect
  <2>1. ts' = Responded(ts, code) /\ response' = code /\ acked' = acked
    BY <1>10 DEF ServerRespond
  <2>2. PICK conn \in SendResult : net' = SentBy(ts, net, code, conn)
    BY <1>10 DEF ServerRespond
  <2>3. net' \subseteq Messages /\ (Ack \in net' => Ack \in net)
    BY <1>1, <1>2, <1>3, <2>2 DEF SentBy
  <2>4. QED
    BY <1>1, <2>1, <2>3, RespondedOK, CodesAssumption DEF ServerEffect
<1>11. CASE ServerAck
  <2> DEFINE u == [ts EXCEPT !.status = "Confirmed",
                             !.timers = @ \ {"retransmission", "end"}]
  <2>1. PICK t \in ServerAfterCallback(u) : ts' = [t EXCEPT !.timers = @ \cup {"clearing"}]
    BY <1>11 DEF ServerAck
  <2>2. ServerOK(u)
    BY <1>1, <1>11 DEF ServerAck, ServerOK, Server, Status, ServerTimers
  <2> HIDE DEF u
  <2>3. ServerOK(t)
    BY <2>1, <2>2, ServerAfterCallbackOK
  <2>4. ServerOK(ts')
    BY <2>1, <2>3 DEF ServerOK, Server, ServerTimers
  <2>5. acked' \in BOOLEAN
    BY <1>1, <1>11 DEF ServerAck, ServerOK, Server
  <2>6. Ack \in net /\ net' \subseteq net /\ response' = response
    BY <1>11, <1>4 DEF ServerAck
  <2>7. QED
    BY <1>1, <2>4, <2>5, <2>6 DEF ServerEffect
<1>12. ASSUME NEW timer, ts' = [ts EXCEPT !.timers = @ \ {timer}]
       PROVE  ServerOK(ts')
  BY <1>1, <1>12 DEF ServerOK, Server
<1>13. ServerOK(ServerTerminated(ts))
  BY <1>1, ServerTerminatedOK
<1>14. CASE ServerRetransmissionTimeout
  <2>1. ServerOK(ts') /\ response' = response /\ acked' = acked
    BY <1>1, <1>12, <1>14 DEF ServerRetransmissionTimeout
  <2>2. net' \subseteq Messages /\ (Ack \in net' => Ack \in net)
    BY <1>1, <1>2, <1>3, <1>14 DEF ServerRetransmissionTimeout
  <2>3. QED
    BY <1>1, <2>1, <2>2 DEF ServerEffect
<1>15. CASE ServerEndTimeout
  BY <1>1, <1>12, <1>13, <1>15 DEF ServerEndTimeout, ServerEffect
<1>16. CASE ServerClearingTimeout
  BY <1>1, <1>12, <1>13, <1>16 DEF ServerClearingTimeout, ServerEffect
<1>17. CASE ServerTerminate
  BY <1>1, <1>13, <1>17 DEF ServerTerminate, ServerEffect
<1>18. QED
  BY <1>7, <1>8, <1>9, <1>10, <1>11, <1>14, <1>15, <1>16, <1>17 DEF ServerStep

\* Such an effect keeps the invariant, the client's side being untouched.
LEMMA ServerEffectInv ==
  ASSUME IInv, ServerEffect, UNCHANGED clientVars
  PROVE  IInv'
<1>1. TypeOK'
  BY DEF ServerEffect, ServerOK, Server, IInv, TypeOK, ClientTypeOK, ServerTypeOK, clientVars, Messages
<1>2. RegisteredWhileAlive' /\ AckAfterFailure'
  BY DEF ServerEffect, ServerOK, IInv, RegisteredWhileAlive, AckAfterFailure, clientVars,
         Over, HeardSuccess, Refusing, Ending
<1>3. Threads'
  BY DEF IInv, clientVars, Threads, Answering, IdleQuiet, TimerBOnce, RefusingAlone, SucceedingEnded,
         SilentWhileListening, ToldOnce, PassedOver, Ending, Refusing, Succeeding, Over,
         HeardSuccess, HeardTimeout, Refused, HeardNothing
<1>4. QED
  BY <1>1, <1>2, <1>3 DEF IInv, clientVars

-----------------------------------------------------------------------------
\* Two new transactions and an empty network.
LEMMA InitInv == Init => IInv
<1> SUFFICES ASSUME Init PROVE IInv
  OBVIOUS
<1>1. TypeOK
  <2>1. tc \in Client /\ outcomes \in [Outcome -> Nat]
    BY DEF Init, ClientInit, Client, Status
  <2>2. rx \in [at : At, code : Codes \cup {0, 100}] /\ timerB \in At /\ leaving \in BOOLEAN
    BY DEF Init, ClientInit, At
  <2>3. ts \in Server /\ response \in Codes \cup {0, 100} /\ acked \in BOOLEAN
    BY DEF Init, ServerInit, Server, Status
  <2>4. QED
    BY <2>1, <2>2, <2>3 DEF Init, TypeOK, ClientTypeOK, ServerTypeOK, Client, Server
<1>2. Threads /\ outcomes \in [Outcome -> {0, 1}]
  BY DEF Init, ClientInit, Threads, Answering, IdleQuiet, TimerBOnce, RefusingAlone,
     SucceedingEnded, SilentWhileListening, ToldOnce, PassedOver, Ending, Refusing, Succeeding,
     HeardSuccess, HeardTimeout, Refused, HeardNothing, Outcome
<1>3. QED
  BY <1>1, <1>2 DEF Init, ClientInit, ServerInit, IInv, RegisteredWhileAlive, AckAfterFailure

\* No handler of either side, in whatever step of it, breaks the invariant.
LEMMA StepInv == IInv /\ [Next]_vars => IInv'
<1> SUFFICES ASSUME IInv, [Next]_vars PROVE IInv'
  OBVIOUS
<1>1. CASE ClientStep /\ UNCHANGED serverVars
  BY <1>1, ClientStepInv
<1>2. CASE ServerStep /\ UNCHANGED clientVars
  BY <1>2, ServerStepEffect, ServerEffectInv
<1>3. CASE UNCHANGED vars
  <2>1. UNCHANGED <<clientVars, serverVars, net>>
    BY <1>3 DEF vars, clientVars, serverVars
  <2>2. QED
    BY <2>1 DEF clientVars, serverVars, IInv, TypeOK, ClientTypeOK, ServerTypeOK, Threads, Answering,
       IdleQuiet, TimerBOnce, RefusingAlone, SucceedingEnded, SilentWhileListening, ToldOnce,
       PassedOver, Ending, Refusing, Succeeding, Over, HeardSuccess, HeardTimeout, Refused,
       HeardNothing, RegisteredWhileAlive, AckAfterFailure
<1>4. QED
  BY <1>1, <1>2, <1>3, NextSplits

\* Every state of the pair is of the declared types (type correctness of the
\* two transaction classes over any network).
THEOREM TypeCorrect == Spec => []TypeOK
<1>1. IInv => TypeOK
  BY DEF IInv
<1>2. QED
  BY <1>1, InitInv, StepInv, PTL DEF Spec

\* Whatever its three threads and the network do, the user of an INVITE client
\* transaction hears nothing, one outcome, or a 2xx and a timeout that crossed:
\* a refusal excludes the others, and no outcome is told twice.
THEOREM OutcomesAgreeAlways == Spec => []OutcomesAgree
<1>1. IInv => OutcomesAgree
  BY DEF IInv, Threads, ToldOnce, Refused, HeardSuccess, HeardTimeout, OutcomesAgree, Outcome
<1>2. QED
  BY <1>1, InitInv, StepInv, PTL DEF Spec

\* The provider's table holds live transactions only, and every one whose user
\* still waits, also one that a receiver past its test revived.
THEOREM RegisteredAlways == Spec => []RegisteredWhileAlive
<1>1. IInv => RegisteredWhileAlive
  BY DEF IInv
<1>2. QED
  BY <1>1, InitInv, StepInv, PTL DEF Spec

\* The client of an acknowledged refusal never told its user of a success.
THEOREM AckMeansRefusedAlways == Spec => []AckMeansRefused
<1>1. IInv => AckMeansRefused
  BY DEF IInv, AckAfterFailure, AckMeansRefused, HeardSuccess, Outcome,
         Threads, ToldOnce, Refused, HeardTimeout
<1>2. QED
  BY <1>1, InitInv, StepInv, PTL DEF Spec
-----------------------------------------------------------------------------
(* The 2xx of an INVITE and its ACK, which no INVITE transaction carries   *)
(* (AckTransaction), over any lossy network and for any number of INVITEs: *)
(* beside the property, that there is an ack_ts where one is awaited.      *)

Transaction == [status : {"Idle", "Proceeding", "Terminated"},
                registered : BOOLEAN, timers : SUBSET Timer]

AckInv == /\ AckTypeOK /\ LivesWhileAccepted
          /\ AwaitsAck /\ ~answering => ackTs # 0
          /\ caller \in {"Call", "ReInviting"} => confirmed # 0

Transit == [Kind \X Invites -> 0..MaxCopies]

\* What the network does to the number of copies, within the bound.
LEMMA CopiesTyped ==
  ASSUME NEW t \in Transit, NEW m \in Kind \X Invites
  PROVE  /\ Plus(t, m) \in Transit
         /\ t[m] > 0 => Minus(t, m) \in Transit
  BY MaxAssumption DEF Plus, Minus, Transit

\* At first there is one INVITE, no transaction and no message in transit.
LEMMA AckInitInv == AckInit => AckInv
<1>1. 0 \in 0..MaxCopies /\ 0 \in 0..MaxInvites /\ 1 \in Invites
  BY MaxAssumption DEF Invites
<1>2. AckInit => transit \in Transit
  BY <1>1 DEF AckInit, Transit
<1>3. ASSUME AckInit PROVE AckTypeOK
  <2>1. ats \in [Invites -> [status : {"Idle", "Proceeding", "Terminated"},
                             registered : BOOLEAN, timers : SUBSET Timer]]
    BY <1>3 DEF AckInit
  <2>2. callee \in {"Invited", "Accepted", "ReInvited", "ReAccepted", "ReRefused", "Call", "Close"}
    BY <1>3 DEF AckInit
  <2>3. caller \in {"Inviting", "ReInviting", "Call", "Close"}
    BY <1>3 DEF AckInit
  <2>4. ackTs \in 0..MaxInvites /\ current \in Invites /\ asked \in Invites
          /\ confirmed \in 0..MaxInvites
    BY <1>1, <1>3 DEF AckInit
  <2>5. answering \in BOOLEAN /\ forgotten \subseteq Invites
    BY <1>3 DEF AckInit
  <2>6. transit \in [Kind \X Invites -> 0..MaxCopies]
    BY <1>2, <1>3 DEF Transit
  <2>7. QED
    BY <2>1, <2>2, <2>3, <2>4, <2>5, <2>6 DEF AckTypeOK
<1>4. AckInit => LivesWhileAccepted
  BY DEF AckInit, LivesWhileAccepted, Alive, AwaitsAck
<1>5. QED
  BY <1>3, <1>4 DEF AckInv, AckInit, AwaitsAck

\* ack_ts.terminate(): the dialog's transaction ends, the others are untouched.
LEMMA AckTsEnds ==
  ASSUME AckInv, TerminateAckTs
  PROVE  /\ ats' \in [Invites -> Transaction] /\ forgotten' \subseteq Invites
         /\ forgotten' = forgotten \ {ackTs}
         /\ \A n \in Invites : n # ackTs => ats'[n] = ats[n]
         /\ ackTs \in Invites => /\ ats'[ackTs].status = "Terminated"
                                 /\ ~ats'[ackTs].registered /\ ats'[ackTs].timers = {}
<1>1. ats \in [Invites -> Transaction] /\ forgotten \subseteq Invites
  BY DEF AckInv, AckTypeOK, Transaction
<1>2. ASSUME NEW n \in Invites
      PROVE  /\ DoTerminate(ats[n]) \in Transaction
             /\ DoTerminate(ats[n]).status = "Terminated"
             /\ ~DoTerminate(ats[n]).registered /\ DoTerminate(ats[n]).timers = {}
  <2>1. CASE ats[n].status = "Terminated"
    BY <1>1, <2>1 DEF DoTerminate, AckInv, LivesWhileAccepted, Alive, Transaction
  <2>2. CASE ats[n].status # "Terminated"
    BY <2>2 DEF DoTerminate, Transaction
  <2>3. QED
    BY <2>1, <2>2
<1>3. QED
  BY <1>1, <1>2 DEF TerminateAckTs

\* Whoever acts, and whatever the network loses or repeats, keeps the invariant.
LEMMA AckStepInv == AckInv /\ [AckNext]_ackVars => AckInv'
<1> SUFFICES ASSUME AckInv, [AckNext]_ackVars PROVE AckInv'
  OBVIOUS
<1>1. /\ ats \in [Invites -> Transaction] /\ ackTs \in 0..MaxInvites
      /\ current \in Invites /\ answering \in BOOLEAN /\ forgotten \subseteq Invites
      /\ asked \in Invites /\ confirmed \in 0..MaxInvites /\ transit \in Transit
      /\ ackTs # 0 => ackTs \in Invites
      /\ confirmed # 0 => confirmed \in Invites
      /\ MaxInvites \in Nat \ {0} /\ MaxCopies \in Nat \ {0}
  BY MaxAssumption DEF AckInv, AckTypeOK, Transaction, Invites, Transit
<1>2. /\ \A n \in Invites : /\ Alive(n) <=> (n = ackTs /\ AwaitsAck /\ ~answering) \/ n \in forgotten
                            /\ ats[n].registered <=> Alive(n)
                            /\ ats[n].timers # {} => Alive(n)
      /\ AwaitsAck /\ ~answering => ackTs # 0
      /\ caller \in {"Call", "ReInviting"} => confirmed # 0
  BY DEF AckInv, LivesWhileAccepted
<1>3. callee \in {"Invited", "Accepted", "ReInvited", "ReAccepted", "ReRefused", "Call", "Close"}
      /\ caller \in {"Inviting", "ReInviting", "Call", "Close"}
  BY DEF AckInv, AckTypeOK
<1>4. \A n \in Invites, k \in Kind : <<k, n>> \in Kind \X Invites
  OBVIOUS
\* Whatever is sent or taken leaves the network well formed.
<1>5. ASSUME NEW m \in Kind \X Invites, NEW o \in Kind \X Invites, transit[m] > 0
      PROVE  /\ Minus(transit, m) \in Transit
             /\ Plus(Minus(transit, m), o) \in Transit
  BY <1>1, <1>5, CopiesTyped
\* What a step of the caller or of the network has to show.
<1>6. ASSUME UNCHANGED calleeVars, transit' \in Transit,
             caller' \in {"Inviting", "ReInviting", "Call", "Close"},
             asked' \in Invites, confirmed' \in 0..MaxInvites,
             caller' \in {"Call", "ReInviting"} => confirmed' # 0
      PROVE  AckInv'
  BY <1>1, <1>2, <1>3, <1>6 DEF calleeVars, AckInv, AckTypeOK, LivesWhileAccepted, Alive,
     AwaitsAck, Transaction, Transit
\* And a step of the callee.
<1>7. ASSUME UNCHANGED callerVars, transit' \in Transit,
             ats' \in [Invites -> Transaction], ackTs' \in 0..MaxInvites,
             callee' \in {"Invited", "Accepted", "ReInvited", "ReAccepted", "ReRefused", "Call", "Close"},
             current' \in Invites, answering' \in BOOLEAN, forgotten' \subseteq Invites,
             LivesWhileAccepted', AwaitsAck' /\ ~answering' => ackTs' # 0
      PROVE  AckInv'
  BY <1>1, <1>2, <1>3, <1>7 DEF callerVars, AckInv, AckTypeOK, Transaction, Transit
<1>8. CASE Accept
  <2>1. /\ ats' = ats /\ ackTs' = ackTs /\ forgotten' = forgotten /\ current' = current
        /\ transit' = transit /\ answering' = TRUE /\ ~AwaitsAck
        /\ callee' \in {"Accepted", "ReAccepted"}
        /\ UNCHANGED callerVars
    BY <1>8 DEF Accept, AwaitsAck
  <2>2. LivesWhileAccepted'
    BY <1>2, <2>1 DEF LivesWhileAccepted, Alive
  <2>3. QED
    BY <1>1, <1>7, <2>1, <2>2
<1>9. CASE Respond
  <2>1. PICK timers \in {Timer, {"transaction"}} :
          ats' = [ats EXCEPT ![current] =
                    [status |-> "Proceeding", registered |-> TRUE, timers |-> timers]]
    BY <1>9 DEF Respond
  <2>2. /\ answering /\ answering' = FALSE /\ ackTs' = current
        /\ forgotten' = IF AwaitsAck THEN forgotten \ {current} ELSE forgotten \cup {current}
        /\ transit' = Plus(transit, <<"2xx", current>>)
        /\ UNCHANGED <<callee, current, callerVars>>
    BY <1>9 DEF Respond
  <2>3. /\ ats' \in [Invites -> Transaction]
        /\ ats'[current].status = "Proceeding" /\ ats'[current].registered
        /\ \A n \in Invites : n # current => ats'[n] = ats[n]
    BY <1>1, <2>1 DEF Transaction, Timer
  <2>4. AwaitsAck' = AwaitsAck
    BY <2>2 DEF AwaitsAck
  <2>5. LivesWhileAccepted'
    BY <1>1, <1>2, <2>2, <2>3, <2>4 DEF LivesWhileAccepted, Alive
  <2>6. transit' \in Transit
    BY <1>1, <1>4, <2>2, CopiesTyped DEF Kind
  <2>7. ackTs' \in 0..MaxInvites /\ ackTs' # 0
    BY <1>1, <2>2 DEF Invites
  <2>8. QED
    BY <1>1, <1>3, <1>7, <2>2, <2>3, <2>5, <2>6, <2>7
<1>10. CASE RefuseReInvite \/ RefusalAcked \/ CalleeLeaves
  <2>1. /\ UNCHANGED <<ats, ackTs, current, answering, forgotten, callerVars>>
        /\ ~AwaitsAck /\ callee' \in {"ReRefused", "Call", "Close"}
        /\ transit' = transit \/ transit' = Plus(transit, <<"refusal", current>>)
    BY <1>10 DEF RefuseReInvite, RefusalAcked, CalleeLeaves, AwaitsAck
  <2>2. LivesWhileAccepted' /\ ~AwaitsAck'
    BY <1>2, <2>1 DEF LivesWhileAccepted, Alive, AwaitsAck
  <2>3. transit' \in Transit
    BY <1>1, <1>4, <2>1, CopiesTyped DEF Kind
  <2>4. QED
    BY <1>1, <1>7, <2>1, <2>2, <2>3
<1>11. ASSUME NEW n \in Invites, NEW timer \in Timer, TimerExpires(n, timer) PROVE AckInv'
  <2>1. /\ ats' = [ats EXCEPT ![n].timers = @ \ {timer}] /\ timer \in ats[n].timers
        /\ UNCHANGED <<ackTs, callee, current, answering, forgotten, callerVars, transit>>
    BY <1>11 DEF TimerExpires
  <2>2. /\ ats' \in [Invites -> Transaction]
        /\ \A k \in Invites : /\ ats'[k].status = ats[k].status
                              /\ ats'[k].registered = ats[k].registered
                              /\ ats'[k].timers \subseteq ats[k].timers
    BY <1>1, <2>1 DEF Transaction
  <2>3. LivesWhileAccepted'
    BY <1>2, <2>1, <2>2 DEF LivesWhileAccepted, Alive, AwaitsAck
  <2>4. QED
    BY <1>1, <1>2, <1>3, <1>7, <2>1, <2>2, <2>3 DEF AwaitsAck
<1>12. ASSUME NEW n \in Invites, RepeatInvite(n) PROVE AckInv'
  <2>1. transit' \in Transit
    BY <1>1, <1>4, <1>5, <1>12 DEF RepeatInvite, Kind
  <2>2. QED
    BY <1>1, <1>2, <1>3, <1>6, <1>12, <2>1 DEF RepeatInvite, callerVars
<1>13. ASSUME NEW n \in Invites, TakeInvite(n) PROVE AckInv'
  <2>1. /\ callee' = "ReInvited" /\ current' = n
        /\ forgotten' = IF AwaitsAck /\ ~answering THEN forgotten \cup {ackTs} ELSE forgotten
        /\ UNCHANGED <<ats, ackTs, answering, callerVars>>
    BY <1>13 DEF TakeInvite
  <2>2. forgotten' \subseteq Invites /\ ~AwaitsAck'
    BY <1>1, <1>2, <2>1 DEF AwaitsAck
  <2>3. LivesWhileAccepted'
    BY <1>2, <2>1, <2>2 DEF LivesWhileAccepted, Alive
  <2>4. transit' \in Transit
    BY <1>1, <1>4, <1>5, <1>13 DEF TakeInvite, Kind
  <2>5. QED
    BY <1>1, <1>7, <2>1, <2>2, <2>3, <2>4
<1>14. ASSUME NEW n \in Invites, ReceiveAck(n) PROVE AckInv'
  <2>1. transit' \in Transit /\ UNCHANGED <<ackTs, current, answering, callerVars>>
    BY <1>1, <1>4, <1>5, <1>14 DEF ReceiveAck, Kind
  <2>2. CASE AwaitsAck
    <3>1. TerminateAckTs /\ callee' = "Call"
      BY <1>14, <2>2 DEF ReceiveAck
    <3>2. ~AwaitsAck'
      BY <3>1 DEF AwaitsAck
    <3>3. LivesWhileAccepted'
      BY <1>1, <1>2, <2>1, <3>1, <3>2, AckTsEnds DEF LivesWhileAccepted, Alive
    <3>4. QED
      BY <1>1, <1>7, <2>1, <3>1, <3>2, <3>3, AckTsEnds
  <2>3. CASE ~AwaitsAck
    <3>1. UNCHANGED <<callee, ats, forgotten>>
      BY <1>14, <2>3 DEF ReceiveAck
    <3>2. QED
      BY <1>1, <1>2, <1>3, <1>6, <2>1, <3>1 DEF calleeVars, callerVars
  <2>4. QED
    BY <2>2, <2>3
<1>15. CASE TerminateDialog
  <2>1. /\ callee' = "Close" /\ TerminateAckTs /\ ackTs' = 0 /\ ~answering
        /\ UNCHANGED <<current, answering, callerVars, transit>>
    BY <1>15 DEF TerminateDialog
  <2>2. ~AwaitsAck'
    BY <2>1 DEF AwaitsAck
  <2>3. LivesWhileAccepted'
    BY <1>1, <1>2, <2>1, <2>2, AckTsEnds DEF LivesWhileAccepted, Alive
  <2>4. QED
    BY <1>1, <1>7, <2>1, <2>2, <2>3, AckTsEnds
<1>16. CASE Retransmit \/ ReInvite \/ CallerLeaves
  <2>1. CASE Retransmit
    <3>1. transit' \in Transit
      BY <1>1, <1>4, <2>1, CopiesTyped DEF Retransmit, Kind
    <3>2. QED
      BY <1>1, <1>2, <1>3, <1>6, <2>1, <3>1 DEF Retransmit, callerVars
  <2>2. CASE ReInvite
    <3>1. asked + 1 \in Invites
      BY <1>1, <2>2 DEF ReInvite, Invites
    <3>2. transit' \in Transit
      BY <1>1, <1>4, <2>2, <3>1, CopiesTyped DEF ReInvite, Kind
    <3>3. QED
      BY <1>1, <1>2, <1>3, <1>6, <2>2, <3>1, <3>2 DEF ReInvite
  <2>3. CASE CallerLeaves
    BY <1>1, <1>2, <1>3, <1>6, <2>3 DEF CallerLeaves
  <2>4. QED
    BY <1>16, <2>1, <2>2, <2>3
<1>17. ASSUME NEW n \in Invites, ReceiveSuccess(n) PROVE AckInv'
  <2>1. <<"2xx", n>> \in Kind \X Invites /\ transit[<<"2xx", n>>] > 0
        /\ UNCHANGED <<calleeVars, asked>>
    BY <1>17 DEF ReceiveSuccess, Kind
  <2>2. CASE /\ caller \in {"Inviting", "ReInviting"} /\ n = asked
             /\ caller' = "Call" /\ confirmed' = n
             /\ transit' = Plus(Minus(transit, <<"2xx", n>>), <<"ACK", n>>)
    <3>1. transit' \in Transit /\ confirmed' \in 0..MaxInvites /\ confirmed' # 0
      BY <1>1, <1>4, <1>5, <2>1, <2>2 DEF Kind, Invites
    <3>2. QED
      BY <1>1, <1>6, <2>1, <2>2, <3>1
  <2>3. CASE /\ caller = "Call"
             /\ transit' = Plus(Minus(transit, <<"2xx", n>>), <<"ACK", confirmed>>)
             /\ UNCHANGED <<caller, confirmed>>
    <3>1. transit' \in Transit
      BY <1>1, <1>2, <1>4, <1>5, <2>1, <2>3 DEF Kind
    <3>2. QED
      BY <1>1, <1>2, <1>3, <1>6, <2>1, <2>3, <3>1
  <2>4. CASE /\ caller = "Close" \/ (caller = "ReInviting" /\ n # asked)
             /\ transit' = Minus(transit, <<"2xx", n>>)
             /\ UNCHANGED <<caller, confirmed>>
    BY <1>1, <1>2, <1>3, <1>5, <1>6, <2>1, <2>4
  <2>5. QED
    BY <1>17, <2>2, <2>3, <2>4 DEF ReceiveSuccess
<1>18. ASSUME NEW n \in Invites, ReceiveRefusal(n) PROVE AckInv'
  <2>1. transit' \in Transit
    BY <1>1, <1>4, <1>5, <1>18 DEF ReceiveRefusal, Kind
  <2>2. QED
    BY <1>1, <1>2, <1>3, <1>6, <1>18, <2>1 DEF ReceiveRefusal
<1>19. ASSUME NEW m \in Kind \X Invites, Lose(m) \/ Duplicate(m) PROVE AckInv'
  <2>1. transit' \in Transit
    BY <1>1, <1>19, CopiesTyped DEF Lose, Duplicate
  <2>2. QED
    BY <1>1, <1>2, <1>3, <1>6, <1>19, <2>1 DEF Lose, Duplicate, callerVars
<1>20. CASE UNCHANGED ackVars
  BY <1>1, <1>2, <1>3, <1>6, <1>20 DEF ackVars, calleeVars
<1>21. QED
  BY <1>8, <1>9, <1>10, <1>11, <1>12, <1>13, <1>14, <1>15, <1>16, <1>17, <1>18, <1>19, <1>20 DEF AckNext

-----------------------------------------------------------------------------
\* An AckTransactionServer lives, registered and alone with timers, exactly while
\* its dialog waits for the ACK, or for ever if the dialog lost sight of it: for
\* any number of INVITEs and of copies in transit.
THEOREM LivesWhileAcceptedAlways == AckSpec => []LivesWhileAccepted
<1>1. AckInv => LivesWhileAccepted
  BY DEF AckInv
<1>2. QED
  BY <1>1, AckInitInv, AckStepInv, PTL DEF AckSpec
=============================================================================
