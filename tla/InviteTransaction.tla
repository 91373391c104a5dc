-------------------------- MODULE InviteTransaction --------------------------
(***************************************************************************)
(* An INVITE client transaction and the server transaction it reaches,     *)
(* over UDP or over a reliable transport.                                  *)
(***************************************************************************)
EXTENDS InviteTransactionServer

clientVars == <<tc, outcomes, rx, timerB, leaving>>
serverVars == <<ts, response, acked>>
vars       == <<net, tc, outcomes, rx, timerB, leaving, ts, response, acked>>

TypeOK ==
  /\ ClientTypeOK
  /\ ServerTypeOK
  /\ net \subseteq {Invite, Ack} \cup {Response(c) : c \in Codes \cup {0, 100}}

Init == net = {} /\ ClientInit /\ ServerInit

\* The client's threads, each in the handler it is in.
ClientReceiver == ClientProvisional \/ ClientFailure \/ ClientSuccess
                    \/ ClientChecks \/ ClientTells \/ ClientForgets

ClientScheduler == TimeoutChecks \/ TimeoutTells \/ TimeoutForgets

Next ==
  \/ ClientRequest /\ UNCHANGED serverVars
  \/ \E code \in Codes \cup {100} :
       /\ ClientReceives(code) \/ ClientFailureAgain(code)
       /\ UNCHANGED serverVars
  \/ ClientReceiver /\ UNCHANGED serverVars
  \/ ClientRetransmissionTimeout /\ UNCHANGED serverVars
  \/ ClientTransactionTimeout /\ UNCHANGED serverVars
  \/ ClientScheduler /\ UNCHANGED serverVars
  \/ ClientEndTimeout /\ UNCHANGED serverVars
  \/ ClientTerminate /\ UNCHANGED serverVars
  \/ ClientLeaves /\ UNCHANGED serverVars
  \/ ServerCreate /\ UNCHANGED clientVars
  \/ ServerListen /\ UNCHANGED clientVars
  \/ ServerInvite /\ UNCHANGED clientVars
  \/ (\E code \in Codes : ServerRespond(code)) /\ UNCHANGED clientVars
  \/ ServerAck /\ UNCHANGED clientVars
  \/ ServerRetransmissionTimeout /\ UNCHANGED clientVars
  \/ ServerEndTimeout /\ UNCHANGED clientVars
  \/ ServerClearingTimeout /\ UNCHANGED clientVars
  \/ ServerTerminate /\ UNCHANGED clientVars

Spec == Init /\ [][Next]_vars

\* A started timer that nobody halts fires (java.util.Timer), and a thread
\* that is in a handler goes on with it.
Fairness ==
  /\ WF_vars(ClientTransactionTimeout /\ UNCHANGED serverVars)
  /\ WF_vars(ClientEndTimeout /\ UNCHANGED serverVars)
  /\ WF_vars(ClientReceiver /\ UNCHANGED serverVars)
  /\ WF_vars(ClientScheduler /\ UNCHANGED serverVars)
  /\ WF_vars(ServerEndTimeout /\ UNCHANGED clientVars)
  /\ WF_vars(ServerClearingTimeout /\ UNCHANGED clientVars)

FairSpec == Spec /\ Fairness

-----------------------------------------------------------------------------
\* What the user of the client transaction may hear, whatever a response, timer
\* B, the user's terminate() and a listener reset without a lock cross: nothing,
\* one outcome, or a 2xx and a timeout that crossed.  A refusal excludes both,
\* and nothing is told twice (the branches of onReceivedMessage and onTimeout).
OutcomesAgree ==
  /\ \A o \in Outcome : outcomes[o] <= 1
  /\ outcomes["failure"] = 1 => outcomes["success"] = 0 /\ outcomes["timeout"] = 0

\* A transaction in the provider's table is alive, and one that is alive is in
\* it, unless its user is done with it: so none is leaked, and none is deaf
\* while its user waits, whatever ended it or a receiver past its test revived
\* (addSelectiveListener and removeSelectiveListener in request, listen,
\* onReceivedMessage, doTerminate).
RegisteredWhileAlive ==
  /\ tc.registered => tc.status \notin {"Idle", "Terminated"}
  /\ tc.status \notin {"Idle", "Terminated"} /\ tc.listener /\ ~leaving => tc.registered
  /\ ts.registered <=> ts.status \notin {"Idle", "Terminated"}

\* A server told that its refusal was acknowledged never faces a client whose
\* user believes the call was accepted, whatever answers, repeated or late, the
\* network hands it; that it was told of a timeout as well takes a receiver
\* that waited in halt() (createNon2xxAckRequest in onReceivedMessage).
AckMeansRefused == acked => /\ outcomes["success"] = 0
                            /\ outcomes["failure"] = 0 \/ outcomes["timeout"] = 0

\* A client in the provider's table that is waiting for an answer, or lingering,
\* does not do so for ever; only a 1xx, which stops both timers, lets it wait
\* without limit.
ClientSettles ==
  (tc.registered /\ tc.status \in {"Trying", "Completed"})
    ~> (~tc.registered \/ tc.status = "Proceeding")

\* A server that answered finally is eventually gone, ACK or no ACK.
ServerSettles == ts.status \in {"Completed", "Confirmed"} ~> ts.status = "Terminated"
BothSettle == ClientSettles /\ ServerSettles
=============================================================================
