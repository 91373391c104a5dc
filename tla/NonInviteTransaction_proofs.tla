--------------------- MODULE NonInviteTransaction_proofs ---------------------
(***************************************************************************)
(* TransactionClient tells at most one outcome although it keeps its       *)
(* listener: transaction_to, the only other teller, runs only while no     *)
(* final response has come.                                                *)
(***************************************************************************)
EXTENDS NonInviteTransaction, TLAPS

\* A transaction that the provider's table agrees with.
Sound(t) == t \in Transaction /\ (t.registered <=> t.status \notin {"Idle", "Terminated"})

\* transaction_to runs only while an answer is awaited, clearing_to only after.
TimersFit ==
  /\ tc.status = "Idle" => tc.timers = {}
  /\ "transaction" \in tc.timers => tc.status \in Active
  /\ "clearing" \in tc.timers => tc.status \in {"Completed", "Terminated"}

\* A client that awaits an answer has told nothing, and has its listener.
TellsLast ==
  /\ tc.status \in Active \cup {"Idle"} => outcomes = <<>>
  /\ tc.status # "Terminated" => tc.listener

\* A server that has answered can repeat its answer.
Answered == ts.status \in {"Proceeding", "Completed"} => response \in Codes

IInv == /\ Sound(tc) /\ Sound(ts)
        /\ outcomes \in Seq(Outcome) /\ OneOutcome
        /\ response \in Codes \cup {0} /\ Answered
        /\ net \subseteq {Request} \cup {Response(c) : c \in Codes}
        /\ TimersFit /\ TellsLast

-----------------------------------------------------------------------------
\* What terminate() and the lingering after a final message make of a
\* transaction (doTerminate, clearing_to).
LEMMA TerminatedSound ==
  ASSUME NEW t, Sound(t)
  PROVE  /\ Sound(DoTerminate(t)) /\ Sound(Terminated(t)) /\ Sound(Lingering(t))
         /\ DoTerminate(t).status = "Terminated" /\ Terminated(t).status = "Terminated"
         /\ DoTerminate(t).listener = t.listener /\ ~Terminated(t).listener
         /\ DoTerminate(t).timers \subseteq t.timers /\ Terminated(t).timers \subseteq t.timers
         /\ t.status # "Terminated" => DoTerminate(t).timers = {} /\ Terminated(t).timers = {}
<1> USE DEF Sound, Transaction, Status, Timer
<1>1. CASE t.status = "Terminated"
  BY <1>1 DEF DoTerminate, Terminated, Lingering
<1>2. CASE t.status # "Terminated"
  BY <1>2 DEF DoTerminate, Terminated, Lingering
<1>3. QED
  BY <1>1, <1>2

\* The messages sent stay among the declared ones (sendMessage).
LEMMA SentTyped ==
  ASSUME NEW M, NEW n \in SUBSET M, NEW m \in M, NEW conn
  PROVE  Sent(n, m, conn) \subseteq M /\ Taken(n, m) \subseteq M
  BY DEF Sent, Taken

\* sendMessage() says whether there was a connection.
LEMMA SendResultBool == SendResult \subseteq BOOLEAN
  BY DEF SendResult

Messages == {Request} \cup {Response(c) : c \in Codes}

\* The client's half of IInv.
ClientInv == /\ Sound(tc) /\ outcomes \in Seq(Outcome) /\ OneOutcome
             /\ TimersFit /\ TellsLast

\* Being told a first outcome.
LEMMA FirstOutcome ==
  ASSUME outcomes = <<>>, NEW o \in Outcome
  PROVE  /\ Append(outcomes, o) = <<o>> /\ <<o>> \in Seq(Outcome)
         /\ Len(<<o>>) = 1 /\ <<o>> # <<>>
  OBVIOUS

\* The client's step, as its user sees it: it asks (request()), is told a first
\* outcome, drops the transaction (terminate(), from a callback too) or sees
\* nothing.
Asks     == tc.status = "Idle" /\ outcomes' = outcomes
Tells    == \E o \in Outcome : tc.status \in Active /\ outcomes' = <<o>>
Drops    == tc.status # "Idle" /\ tc.listener /\ ~tc'.listener /\ outcomes' = outcomes
SeesNone == tc.status # "Idle" /\ tc'.listener = tc.listener /\ outcomes' = outcomes

ClientEffect == /\ tc'.status # "Idle" /\ net' \subseteq Messages
                /\ Asks \/ Tells \/ Drops \/ SeesNone

\* Each client action keeps the invariant and has such an effect.
LEMMA ClientStepEffect == IInv /\ ClientStep => ClientInv' /\ ClientEffect
<1> SUFFICES ASSUME IInv, ClientStep PROVE ClientInv' /\ ClientEffect
  OBVIOUS
<1> DEFINE Good == ClientInv' /\ ClientEffect
<1> USE DEF IInv, ClientInv, ClientEffect, OneOutcome, TimersFit, TellsLast
<1>1. /\ net \in SUBSET Messages /\ Request \in Messages
      /\ tc \in Transaction /\ Len(<<>>) = 0
  BY DEF Messages, Sound
<1>2. CASE ClientRequest
  <2>1. PICK conn \in SendResult :
          /\ tc' = [tc EXCEPT !.status = "Trying", !.registered = TRUE, !.conn = conn,
                              !.timers = {"transaction", "retransmission"}]
          /\ net' = Sent(net, Request, conn)
    BY <1>2 DEF ClientRequest
  <2>2. net' \subseteq Messages
    BY <1>1, <2>1, SentTyped
  <2>3. Sound(tc')
    BY <1>1, <2>1, SendResultBool DEF Sound, Transaction, Status, Timer
  <2>4. QED
    BY <1>1, <1>2, <2>1, <2>2, <2>3 DEF ClientRequest, Asks, Active, Transaction
<1>3. ASSUME NEW code \in Codes, ClientProvisional(code) PROVE Good
  <2> DEFINE t == [tc EXCEPT !.status = "Proceeding"]
  <2>1. /\ tc.status \in Active /\ Response(code) \in Messages
        /\ net' = Taken(net, Response(code))
        /\ tc' \in AfterCallback(t) /\ outcomes' = outcomes
    BY <1>3 DEF ClientProvisional, ClientReceives, Messages
  <2>2. Sound(t) /\ t.status = "Proceeding" /\ t.timers = tc.timers /\ t.listener = tc.listener
    BY <1>1, <2>1 DEF Sound, Transaction, Status, Active
  <2>3. net' \subseteq Messages
    BY <1>1, <2>1, SentTyped
  <2> HIDE DEF t
  <2>4. CASE tc' = t
    BY <1>1, <2>1, <2>2, <2>3, <2>4 DEF SeesNone, Active
  <2>5. CASE tc' = Terminated(t) /\ t.listener
    BY <1>1, <2>1, <2>2, <2>3, <2>5, TerminatedSound DEF Drops, Active
  <2>6. QED
    BY <2>1, <2>4, <2>5 DEF AfterCallback
<1>4. ASSUME NEW code \in Codes, ClientFinal(code) PROVE Good
  <2> DEFINE t == [tc EXCEPT !.status = "Completed",
                             !.timers = @ \ {"retransmission", "transaction"}]
             o == OutcomeOf(code)
  <2>1. /\ tc.status \in Active /\ Response(code) \in Messages
        /\ net' = Taken(net, Response(code))
        /\ outcomes = <<>> /\ tc.listener /\ outcomes' = Append(outcomes, o)
    BY <1>4 DEF ClientFinal, ClientReceives, Messages, Notified, Active
  <2>2. o \in Outcome
    BY DEF OutcomeOf, Outcome
  <2>3. outcomes' = <<o>> /\ outcomes' \in Seq(Outcome) /\ Len(outcomes') = 1 /\ outcomes' # <<>>
    BY <2>1, <2>2, FirstOutcome
  <2>4. PICK u \in AfterCallback(t) : tc' = Lingering(u)
    BY <1>4 DEF ClientFinal
  <2>5. /\ Sound(t) /\ t.status = "Completed" /\ t.listener
        /\ t.timers = tc.timers \ {"retransmission", "transaction"}
    BY <1>1, <2>1 DEF Sound, Transaction, Status, Active
  <2> HIDE DEF t
  <2>6. /\ Sound(u) /\ u.status \in {"Completed", "Terminated"} /\ "transaction" \notin u.timers
        /\ u.status = "Completed" => u.listener
    BY <2>4, <2>5, TerminatedSound DEF AfterCallback
  <2>7. /\ Sound(tc') /\ tc'.status \in {"Completed", "Terminated"}
        /\ "transaction" \notin tc'.timers
        /\ tc'.status = "Completed" => tc'.listener
    <3>1. CASE u.conn
      BY <2>4, <2>6, <3>1, TerminatedSound DEF Lingering
    <3>2. CASE ~u.conn
      BY <2>4, <2>6, <3>2, TerminatedSound DEF Lingering, Sound, Transaction
    <3>3. QED
      BY <3>1, <3>2
  <2>8. net' \subseteq Messages
    BY <1>1, <2>1, SentTyped
  <2>9. QED
    BY <2>1, <2>2, <2>3, <2>7, <2>8 DEF Tells, Active
<1>5. CASE ClientRetransmissionTimeout
  <2>1. net' \subseteq Messages
    <3>1. net' = net \/ \E conn \in SendResult : net' = Sent(net, Request, conn)
      BY <1>5, Zenon DEF ClientRetransmissionTimeout
    <3>2. ASSUME NEW conn \in SendResult, net' = Sent(net, Request, conn)
          PROVE  net' \subseteq Messages
      BY <1>1, <3>2, SentTyped
    <3>3. QED
      BY <1>1, <3>1, <3>2
  <2>2. /\ tc' = tc \/ tc' = [tc EXCEPT !.timers = @ \ {"retransmission"}]
        /\ outcomes' = outcomes /\ tc.timers # {}
    BY <1>5 DEF ClientRetransmissionTimeout
  <2>3. /\ Sound(tc') /\ tc'.status = tc.status /\ tc'.listener = tc.listener
        /\ tc'.timers \subseteq tc.timers
    BY <1>1, <2>2 DEF Sound, Transaction
  <2>4. tc.status # "Idle"
    BY <1>5 DEF ClientRetransmissionTimeout, Sound
  <2>5. QED
    BY <1>1, <2>1, <2>2, <2>3, <2>4 DEF SeesNone, Active
<1>6. CASE ClientTransactionTimeout
  <2>1. tc.status \in Active /\ outcomes = <<>> /\ tc.listener
    BY <1>6 DEF ClientTransactionTimeout, Active
  <2>2. "timeout" \in Outcome
    BY DEF Outcome
  <2>3. /\ outcomes' = <<"timeout">> /\ outcomes' \in Seq(Outcome)
        /\ Len(outcomes') = 1 /\ outcomes' # <<>>
    BY <1>6, <2>1, <2>2, FirstOutcome DEF ClientTransactionTimeout, Notified
  <2>4. Sound(tc') /\ tc'.status = "Terminated" /\ "transaction" \notin tc'.timers
    <3>1. tc' = [Terminated(tc) EXCEPT !.timers = @ \ {"transaction"}]
      BY <1>6 DEF ClientTransactionTimeout
    <3>2. QED
      BY <3>1, TerminatedSound DEF Sound, Transaction
  <2>5. net' = net
    BY <1>6 DEF ClientTransactionTimeout
  <2>6. QED
    BY <1>1, <2>1, <2>2, <2>3, <2>4, <2>5 DEF Tells, Active
<1>7. CASE ClientClearingTimeout
  <2>1. tc' = [DoTerminate(tc) EXCEPT !.timers = @ \ {"clearing"}] /\ "clearing" \in tc.timers
    BY <1>7 DEF ClientClearingTimeout
  <2>2. /\ Sound(tc') /\ tc'.status = "Terminated" /\ tc'.timers \subseteq tc.timers
        /\ tc'.listener = tc.listener
    BY <2>1, TerminatedSound DEF Sound, Transaction
  <2>3. tc.status \in {"Completed", "Terminated"}
    BY <2>1
  <2>4. QED
    BY <1>1, <1>7, <2>2, <2>3 DEF ClientClearingTimeout, SeesNone, Active
<1>8. CASE ClientTerminate
  <2>1. tc' = Terminated(tc) /\ tc.status \notin {"Idle", "Terminated"} /\ UNCHANGED <<net, outcomes>>
    BY <1>8 DEF ClientTerminate
  <2>2. /\ Sound(tc') /\ tc'.status = "Terminated" /\ tc'.timers = {} /\ ~tc'.listener
    BY <2>1, TerminatedSound
  <2>3. tc.listener
    BY <2>1
  <2>4. QED
    BY <1>1, <2>1, <2>2, <2>3 DEF Drops, Active
<1>9. QED
  BY <1>2, <1>3, <1>4, <1>5, <1>6, <1>7, <1>8 DEF ClientStep

\* The server's half of IInv, and its steps (listen, onReceivedMessage,
\* respondWith, onTimeout, terminate).
ServerInv == /\ Sound(ts) /\ response \in Codes \cup {0} /\ Answered
             /\ net \subseteq Messages

\* Each handler of TransactionServer leaves it in the provider's table while it
\* lives, with an answer to repeat once it has answered.
LEMMA ServerStepInv == IInv /\ ServerStep => ServerInv'
<1> SUFFICES ASSUME IInv, ServerStep PROVE ServerInv'
  OBVIOUS
<1> USE DEF IInv, ServerInv, Answered
<1>1. /\ net \in SUBSET Messages /\ Request \in Messages /\ ts \in Transaction
      /\ \A code \in Codes : Response(code) \in Messages
  BY DEF Messages, Sound
<1>2. CASE ServerCreate
  <2>1. net' \subseteq Messages
    BY <1>1, <1>2, SentTyped DEF ServerCreate
  <2>2. Sound(ts') /\ ts'.status = "Trying"
    BY <1>1, <1>2, ReliableAssumption DEF ServerCreate, Sound, Transaction, Status
  <2>3. QED
    BY <1>2, <2>1, <2>2 DEF ServerCreate
<1>3. CASE ServerListen
  <2>1. Sound(ts') /\ ts'.status = "Waiting"
    BY <1>1, <1>3 DEF ServerListen, Sound, Transaction, Status
  <2>2. QED
    BY <1>1, <1>3, <2>1 DEF ServerListen
<1>4. CASE ServerRequest
  <2>1. CASE ts.status = "Waiting"
    <3> DEFINE t == [ts EXCEPT !.status = "Trying", !.conn = Reliable]
    <3>1. Sound(t) /\ t.status = "Trying"
      BY <1>1, <2>1, ReliableAssumption DEF Sound, Transaction, Status
    <3>2. ts' \in AfterCallback(t) /\ net' = Taken(net, Request) /\ response' = response
      BY <1>4, <2>1 DEF ServerRequest
    <3> HIDE DEF t
    <3>3. Sound(ts') /\ ts'.status \in {"Trying", "Terminated"}
      BY <3>1, <3>2, TerminatedSound DEF AfterCallback
    <3>4. QED
      BY <1>1, <3>2, <3>3, SentTyped
  <2>2. CASE ts.status # "Waiting"
    <3>1. /\ response \in Codes /\ UNCHANGED <<ts, response>>
          /\ \E conn \in SendResult : net' = Sent(Taken(net, Request), Response(response), conn)
      BY <1>4, <2>2 DEF ServerRequest
    <3>2. Taken(net, Request) \in SUBSET Messages
      BY <1>1, SentTyped
    <3>3. net' \subseteq Messages
      BY <1>1, <3>1, <3>2, SentTyped
    <3>4. QED
      BY <3>1, <3>3
  <2>3. QED
    BY <2>1, <2>2
<1>5. ASSUME NEW code \in Codes, ServerRespond(code) PROVE ServerInv'
  <2>1. response' = code
    BY <1>5 DEF ServerRespond
  <2>2. CASE ts.status \in Active
    <3>1. net' \subseteq Messages
      <4>1. PICK conn \in SendResult : net' = Sent(net, Response(code), conn)
        BY <1>5, <2>2 DEF ServerRespond
      <4>2. QED
        BY <1>1, <4>1, SentTyped
    <3> DEFINE t == [ts EXCEPT !.status = "Completed"]
    <3>2. Sound(t) /\ t.status = "Completed"
      BY <1>1, <2>2 DEF Sound, Transaction, Status, Active
    <3>3. CASE Provisional(code)
      <4>1. Sound(ts')
        BY <1>1, <1>5, <2>2, <3>3 DEF ServerRespond, Sound, Transaction, Status, Active
      <4>2. QED
        BY <2>1, <3>1, <4>1
    <3>4. CASE ~Provisional(code)
      <4>1. ts' = Lingering(t)
        BY <1>5, <2>2, <3>4 DEF ServerRespond
      <4> HIDE DEF t
      <4>2. Sound(ts')
        BY <3>2, <4>1, TerminatedSound
      <4>3. QED
        BY <2>1, <3>1, <4>2
    <3>5. QED
      BY <3>3, <3>4
  <2>3. CASE ts.status \notin Active
    BY <1>1, <1>5, <2>1, <2>3 DEF ServerRespond
  <2>4. QED
    BY <2>2, <2>3
<1>6. CASE ServerClearingTimeout
  <2>1. /\ ts' = [DoTerminate(ts) EXCEPT !.timers = @ \ {"clearing"}]
        /\ UNCHANGED <<net, response>>
    BY <1>6 DEF ServerClearingTimeout
  <2>2. Sound(ts') /\ ts'.status = "Terminated"
    BY <2>1, TerminatedSound DEF Sound, Transaction
  <2>3. QED
    BY <1>1, <2>1, <2>2
<1>7. CASE ServerTerminate
  <2>1. ts' = Terminated(ts) /\ UNCHANGED <<net, response>>
    BY <1>7 DEF ServerTerminate
  <2>2. Sound(ts') /\ ts'.status = "Terminated"
    BY <2>1, TerminatedSound
  <2>3. QED
    BY <1>1, <2>1, <2>2
<1>8. QED
  BY <1>2, <1>3, <1>4, <1>5, <1>6, <1>7 DEF ServerStep

-----------------------------------------------------------------------------
\* Both transactions are new and the network is empty.
LEMMA InitInv == Init => IInv
<1>1. Init => Sound(tc) /\ Sound(ts)
  BY DEF Init, NewTransaction, Sound, Transaction, Status, Timer
<1>2. Init => TimersFit /\ TellsLast /\ Answered /\ OneOutcome
  BY DEF Init, NewTransaction, TimersFit, TellsLast, Answered, OneOutcome, Active
<1>3. QED
  BY <1>1, <1>2 DEF Init, IInv, NewTransaction

\* No step of either side breaks the inductive invariant.
LEMMA StepInv == IInv /\ [Next]_vars => IInv'
<1>1. ASSUME IInv, ClientStep, UNCHANGED serverVars PROVE IInv'
  <2>1. ClientInv' /\ ClientEffect
    BY <1>1, ClientStepEffect
  <2>2. QED
    BY <1>1, <2>1 DEF ClientInv, ClientEffect, IInv, Messages, Sound, Answered, serverVars
<1>2. ASSUME IInv, ServerStep, UNCHANGED clientVars PROVE IInv'
  <2>1. ServerInv'
    BY <1>2, ServerStepInv
  <2>2. QED
    BY <1>2, <2>1 DEF ServerInv, IInv, Messages, Sound, OneOutcome, TimersFit, TellsLast, clientVars
<1>3. ASSUME IInv, UNCHANGED vars PROVE IInv'
  BY <1>3 DEF vars, IInv, Sound, OneOutcome, TimersFit, TellsLast, Answered
<1>4. QED
  BY <1>1, <1>2, <1>3 DEF Next

\* TransactionClient tells its listener of one final outcome at most, though it
\* never resets it: a response halts transaction_to first.
THEOREM OneOutcomeAlways == Spec => []OneOutcome
<1>1. IInv => OneOutcome
  BY DEF IInv
<1>2. QED
  BY <1>1, InitInv, StepInv, PTL DEF Spec

\* SipProvider's table holds either transaction exactly while it lives.
THEOREM RegisteredAlways == Spec => []RegisteredWhileAlive
<1>1. IInv => RegisteredWhileAlive
  BY DEF IInv, Sound, RegisteredWhileAlive
<1>2. QED
  BY <1>1, InitInv, StepInv, PTL DEF Spec

\* Every state is of the declared types.
THEOREM TypeCorrect == Spec => []TypeOK
<1>1. IInv => TypeOK
  BY DEF IInv, Sound, TypeOK
<1>2. QED
  BY <1>1, InitInv, StepInv, PTL DEF Spec

\* Every step is, for the user of the client, one of the promise's or invisible.
THEOREM Refinement == Spec => KeepsPromise
<1>1. Init => Promise!Init
  BY DEF Init, NewTransaction, Promise!Init, Phase
<1>2. ASSUME IInv, [Next]_vars
      PROVE  [Promise!Next]_Promise!vars
  <2>1. CASE UNCHANGED clientVars
    BY <2>1 DEF clientVars, Phase, Promise!vars
  <2>2. CASE ClientStep
    <3>1. ClientEffect /\ IInv /\ TellsLast'
      BY <1>2, <2>2, ClientStepEffect DEF ClientInv
    <3>2. tc'.status # "Idle"
      BY <3>1 DEF ClientEffect
    <3>3. CASE Asks
      <4>1. outcomes = <<>> /\ outcomes' = <<>> /\ Phase = "idle"
        BY <3>1, <3>3 DEF Asks, IInv, TellsLast, Phase
      <4>2. ClientRequest
        BY <2>2, <3>1, <3>3 DEF ClientStep, Asks, IInv, TimersFit, ClientProvisional, ClientFinal,
           ClientReceives, ClientRetransmissionTimeout, ClientTransactionTimeout,
           ClientClearingTimeout, ClientTerminate, Active
      <4>3. tc'.listener
        BY <3>1, <4>2 DEF ClientRequest, IInv, TellsLast, Sound, Transaction
      <4>4. Phase' = "pending"
        BY <3>2, <4>1, <4>3, Zenon DEF Phase
      <4>5. QED
        BY <4>1, <4>4 DEF Promise!Next, Promise!Ask
    <3>4. ASSUME NEW o \in Outcome, tc.status \in Active, outcomes' = <<o>>
          PROVE  Promise!Next
      <4>1. outcomes = <<>> /\ tc.listener /\ tc.status # "Idle"
        BY <3>1, <3>4 DEF IInv, TellsLast, Active
      <4>2. outcomes' # <<>>
        BY <3>4
      <4>3. Phase = "pending" /\ Phase' = "told"
        BY <3>2, <4>1, <4>2, Zenon DEF Phase
      <4>4. QED
        BY <3>4, <4>3 DEF Promise!Next, Promise!Tell
    <3>5. CASE Drops
      <4>1. CASE outcomes = <<>>
        <5>1. Phase = "pending" /\ Phase' = "dropped"
          BY <3>2, <3>5, <4>1, Zenon DEF Drops, Phase
        <5>2. QED
          BY <3>5, <5>1 DEF Drops, Promise!Next, Promise!Drop
      <4>2. CASE outcomes # <<>>
        <5>1. Phase = "told" /\ Phase' = "told"
          BY <3>2, <3>5, <4>2, Zenon DEF Drops, Phase
        <5>2. QED
          BY <3>5, <5>1 DEF Drops, Promise!vars
      <4>3. QED
        BY <4>1, <4>2
    <3>6. CASE SeesNone
      <4>1. Phase' = Phase
        BY <3>2, <3>6, Zenon DEF SeesNone, Phase
      <4>2. QED
        BY <3>6, <4>1 DEF SeesNone, Promise!vars
    <3>7. QED
      BY <3>1, <3>3, <3>4, <3>5, <3>6 DEF ClientEffect, Tells
  <2>3. QED
    BY <1>2, <2>1, <2>2 DEF Next, vars, clientVars
<1>3. QED
  BY <1>1, <1>2, InitInv, StepInv, PTL DEF Spec, KeepsPromise, Promise!Spec
=============================================================================
