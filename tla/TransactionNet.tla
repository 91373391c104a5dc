--------------------------- MODULE TransactionNet ---------------------------
(***************************************************************************)
(* What a transaction sees of SipProvider and of the transport under it.   *)
(* SipProvider.sendMessage returns the id of the connection that carried   *)
(* the message, or null: over UDP there is none, and over a                *)
(* connection-oriented transport an IOException is swallowed and null is   *)
(* returned too (sendRawMessage).  Transactions take null as "unreliable". *)
(*                                                                         *)
(* The network is the set of messages in transit.  Over UDP a message      *)
(* stays in the set when it is delivered, so it may be duplicated,         *)
(* reordered and (by never being delivered) lost, and a retransmission     *)
(* adds nothing.  Over a reliable transport delivery consumes it.          *)
(***************************************************************************)
CONSTANT Reliable

ASSUME ReliableAssumption == Reliable \in BOOLEAN

VARIABLE net

\* The connection ids sendMessage may return: TRUE stands for "not null".
SendResult == IF Reliable THEN BOOLEAN ELSE {FALSE}

\* The network after sendMessage(m) returned conn.
Sent(n, m, conn) == IF Reliable /\ ~conn THEN n ELSE n \cup {m}

\* The network after m was handed to its receiver.
Taken(n, m) == IF Reliable THEN n \ {m} ELSE n
=============================================================================
