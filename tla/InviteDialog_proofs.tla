------------------------- MODULE InviteDialog_proofs ------------------------
(***************************************************************************)
(* Two dialogs, and the calls over them.  What every step of a dialog has  *)
(* in common: a party replaces its own dialog and adds messages of its     *)
(* own; Moves and Says bound both, and they keep the invariant DInv.  The  *)
(* first theorems are about two dialogs under free users (DialogPair).     *)
(* Over their calls (Call), what each callback tells of the dialog (Told)  *)
(* ties the state of a call to that of its dialog (CallFollows), for any   *)
(* number of requests and with or without re-INVITEs and default servers.  *)
(***************************************************************************)
EXTENDS Call, DialogPair, TLAPS

OfClient == {"INVITE", "CANCEL", "BYE", "ackFailure", "ack2xx"}
Request == {"INVITE", "CANCEL", "BYE"}
Sender(m) == IF m.kind \in OfClient THEN m.from ELSE Peer(m.from)

Early  == {"Init", "Inviting"}
Asleep == {"Init", "Waiting", "Close"}
Late   == {"Call", "Byeing", "ReInviting", "ReInvited"}

\* A dialog that may answer an INVITE has its transaction waiting; every INVITE
\* server transaction has a number that was counted, from the first INVITE on;
\* one that invites has numbered its INVITE.
Fit(u) ==
  /\ u.status \in {"Invited", "ReInvited"} =>
       u.invIn \in CSeq /\ u.its[u.invIn] = "Proceeding"
  /\ \A n \in CSeq : u.its[n] # "none" => n <= u.rcseq
  /\ u.status \in {"Init", "Waiting"} => u.rcseq = 0
  /\ u.status \in {"Inviting", "ReInviting"} => u.invOut \in CSeq

\* The peer of p has given up an INVITE.
Cancelled(p, N) == \E k \in CSeq : Msg("CANCEL", Peer(p), k) \in N

\* The dialog u of p answers to the messages N that its peer may have.
AnswersKnown(p, u, N) ==
  \A n \in CSeq :
    /\ Msg("2xx", Peer(p), n) \in N => u.its[n] = "Done"
    /\ Msg("failure", Peer(p), n) \in N => u.its[n] \in {"Completed", "Done"}
    /\ Msg("2xx", Peer(p), n) \in N /\ Msg("failure", Peer(p), n) \in N => Cancelled(p, N)
    /\ Msg("byeOk", Peer(p), n) \in N => u.status = "Close"

\* Until its INVITE is answered, the caller has sent nothing else that could
\* establish the callee's dialog, which has taken one INVITE and no other, and
\* the callee has sent no INVITE.
CallerFirst ==
  /\ Status(Callee) # "Inviting"
  /\ Status(Callee) \notin Asleep => ua[Callee].rcseq >= 1
  /\ Status(Caller) = "Init" => ua[Caller].lcseq = 0
  /\ Status(Caller) \in Early =>
       /\ Status(Callee) \notin Late /\ ua[Callee].rcseq <= 1
       /\ Status(Callee) = "ReRefused" => \A n \in CSeq : ua[Callee].its[n] \in {"none", "Done"}
       /\ \A m \in net : m.from = Caller => /\ m.kind # "ack2xx"
                                            /\ m.kind = "INVITE" => m.cseq <= 1
       /\ \A m \in net : ~(m.kind = "INVITE" /\ m.from = Callee)

DInv == /\ DialogTypeOK
        /\ \A p \in Party : Fit(ua[p]) /\ AnswersKnown(p, ua[p], net)
        /\ CallerFirst

-----------------------------------------------------------------------------
(* The effect of a step of p: the dialog v becomes u, and M is sent. *)

\* An INVITE beyond all before reaches the open dialog v of p.
NewInvite(p, v) ==
  \E n \in CSeq : v.status \notin Asleep /\ n > v.rcseq /\ Arrives("INVITE", Peer(p), n)

\* A closed dialog stays closed; answers are final; the dialog is established
\* by the ACK of a 2xx or, in D_ReREFUSED, of a refusal, by a second INVITE or by
\* the answer to its own; D_ReREFUSED is reached from an established dialog or
\* when a CANCEL meets accept(); nobody waits for an INVITE again.
Moves(p, v, u) ==
  /\ v.status = "Close" => u.status = "Close"
  /\ Fit(u)
  /\ \A n \in CSeq : /\ v.its[n] = "Done" => u.its[n] = "Done"
                     /\ v.its[n] = "Completed" => u.its[n] \in {"Completed", "Done"}
                     /\ v.its[n] = "none" /\ u.its[n] # "none" =>
                          v.status \in Asleep \/ NewInvite(p, v)
  /\ u.rcseq >= v.rcseq
  /\ u.rcseq # v.rcseq => \E n \in CSeq : n = u.rcseq /\ Arrives("INVITE", Peer(p), n)
  /\ u.status = "Inviting" => v.status = "Inviting" \/ p = Caller
  /\ u.status \in Early => v.status \in Early
  /\ u.status = "Init" => v.status = "Init" /\ u.lcseq = v.lcseq
  /\ u.status \notin Asleep => v.status \notin Asleep \/ u.rcseq >= 1 \/ p = Caller
  /\ u.status \in Late => \/ v.status \in Late \cup {"Inviting"}
                          \/ \E n \in CSeq : Arrives("ack2xx", Peer(p), n)
                          \/ NewInvite(p, v)
                          \/ v.status = "ReRefused" /\ \E n \in CSeq : v.its[n] = "Completed"
  /\ u.status = "ReRefused" => \/ v.status \in Late \cup {"ReRefused"} \/ NewInvite(p, v)
                               \/ /\ v.status = "Invited"
                                  /\ \E k \in CSeq : /\ v.its[k] # "none" /\ u.its[k] = "Done"
                                                     /\ \A n \in CSeq : n # k => u.its[n] = v.its[n]
  /\ v.status \in Early /\ u.status \notin Early \cup {"Close"} =>
       \/ p = Callee
       \/ \E n \in CSeq : Arrives("2xx", p, n) \/ Arrives("INVITE", Peer(p), n)
  /\ u.status = "Waiting" /\ u.waitTs =>
       v.status = "Init" \/ (v.status = "Waiting" /\ v.waitTs)

\* Only its own messages, none to ask for anything once it is closed, and a
\* final answer only from a transaction that had given none, a 2xx and a refusal
\* at once only where a CANCEL has come.
Says(p, v, u, M) ==
  /\ \A m \in M :
       /\ Sender(m) = p
       /\ v.status = "Close" => m.kind \notin Request
       /\ m.kind = "INVITE" => v.status = "Call" \/ p = Caller
       /\ u.status \in Early => /\ m.kind # "ack2xx"
                                /\ m.kind = "INVITE" => v.status = "Init" /\ m.cseq = v.lcseq + 1
  /\ \A n \in CSeq :
       /\ Msg("2xx", Peer(p), n) \in M => /\ v.its[n] \in {"none", "Proceeding"} /\ u.its[n] = "Done"
                                          /\ Msg("failure", Peer(p), n) \in M => Cancelled(p, net)
       /\ Msg("failure", Peer(p), n) \in M => /\ v.its[n] \in {"none", "Proceeding"}
                                              /\ u.its[n] \in {"Completed", "Done"}
       /\ Msg("byeOk", Peer(p), n) \in M => u.status = "Close"

Acts(p, u, M) == /\ u \in Dialog /\ M \subseteq Message
                 /\ Become(p, u) /\ Send(M)
                 /\ Moves(p, ua[p], u) /\ Says(p, ua[p], u, M)

ActsSomehow(p) == \E u \in Dialog, M \in SUBSET Message : Acts(p, u, M)

-----------------------------------------------------------------------------
\* Peer swaps the two parties.
LEMMA PeerSwaps ==
  \A p \in Party : Peer(p) \in Party /\ Peer(p) # p /\ Peer(Peer(p)) = p
  BY PartyAssumption DEF Party, Peer

\* Whatever p does within Moves and Says, the invariant stays.
LEMMA ActsKeepInv ==
  ASSUME DInv, NEW p \in Party, ActsSomehow(p)
  PROVE  DInv'
<1>1. PICK u \in Dialog, M \in SUBSET Message : Acts(p, u, M)
  BY DEF ActsSomehow
<1>2. /\ ua \in [Party -> Dialog] /\ net \subseteq Message
      /\ ua' = [ua EXCEPT ![p] = u] /\ net' = net \cup M
      /\ ua'[p] = u /\ ua'[Peer(p)] = ua[Peer(p)]
  BY <1>1, PeerSwaps DEF Acts, Become, Send, DInv, DialogTypeOK
<1>3. DialogTypeOK'
  BY <1>2 DEF DialogTypeOK
<1>4. Fit(u) /\ AnswersKnown(p, u, net')
  <2>1. ASSUME NEW n \in CSeq
        PROVE  /\ Msg("2xx", Peer(p), n) \in net' => u.its[n] = "Done"
               /\ Msg("failure", Peer(p), n) \in net' => u.its[n] \in {"Completed", "Done"}
               /\ Msg("2xx", Peer(p), n) \in net' /\ Msg("failure", Peer(p), n) \in net' => Cancelled(p, net')
               /\ Msg("byeOk", Peer(p), n) \in net' => u.status = "Close"
    <3> DEFINE v == ua[p]
    <3>1. /\ Msg("2xx", Peer(p), n) \in net => v.its[n] = "Done"
          /\ Msg("failure", Peer(p), n) \in net => v.its[n] \in {"Completed", "Done"}
          /\ Msg("2xx", Peer(p), n) \in net /\ Msg("failure", Peer(p), n) \in net => Cancelled(p, net)
          /\ Msg("byeOk", Peer(p), n) \in net => v.status = "Close"
      BY DEF DInv, AnswersKnown
    <3>2. /\ v.its[n] = "Done" => u.its[n] = "Done"
          /\ v.its[n] = "Completed" => u.its[n] \in {"Completed", "Done"}
          /\ v.status = "Close" => u.status = "Close"
      BY <1>1 DEF Acts, Moves
    <3>3. /\ Msg("2xx", Peer(p), n) \in M => /\ v.its[n] \in {"none", "Proceeding"} /\ u.its[n] = "Done"
                                             /\ Msg("failure", Peer(p), n) \in M => Cancelled(p, net)
          /\ Msg("failure", Peer(p), n) \in M => /\ v.its[n] \in {"none", "Proceeding"}
                                                 /\ u.its[n] \in {"Completed", "Done"}
          /\ Msg("byeOk", Peer(p), n) \in M => u.status = "Close"
      BY <1>1 DEF Acts, Says
    <3>4. \A m : m \in net' <=> m \in net \/ m \in M
      BY <1>2
    <3>5. Cancelled(p, net) => Cancelled(p, net')
      BY <3>4 DEF Cancelled
    <3> HIDE DEF v
    <3>6. QED
      BY <3>1, <3>2, <3>3, <3>4, <3>5
  <2>2. Fit(u)
    BY <1>1 DEF Acts, Moves
  <2>3. QED
    BY <2>1, <2>2 DEF AnswersKnown
<1>5. AnswersKnown(Peer(p), ua[Peer(p)], net')
  <2>1. ASSUME NEW n \in CSeq, NEW k \in {"2xx", "failure", "byeOk"}
        PROVE  Msg(k, p, n) \in net' => Msg(k, p, n) \in net
    <3>1. \A m \in M : Sender(m) = p
      BY <1>1 DEF Acts, Says
    <3>2. Sender(Msg(k, p, n)) = Peer(p)
      BY DEF Sender, Msg, OfClient
    <3>3. QED
      BY <1>2, <3>1, <3>2, PeerSwaps
  <2>2. AnswersKnown(Peer(p), ua[Peer(p)], net)
    BY PeerSwaps DEF DInv
  <2>3. Cancelled(Peer(p), net) => Cancelled(Peer(p), net')
    BY <1>2 DEF Cancelled
  <2>4. QED
    BY <2>1, <2>2, <2>3, PeerSwaps DEF AnswersKnown
<1>6. \A q \in Party : Fit(ua'[q]) /\ AnswersKnown(q, ua'[q], net')
  <2>1. \A q \in Party : q = p \/ q = Peer(p)
    BY DEF Party, Peer
  <2>2. Fit(ua[Peer(p)])
    BY PeerSwaps DEF DInv
  <2>3. QED
    BY <1>2, <1>4, <1>5, <2>1, <2>2
<1>7. CallerFirst'
  <2> DEFINE v == ua[p]
  <2>1. /\ v \in Dialog /\ u \in Dialog /\ v.rcseq \in Nat /\ u.rcseq \in Nat /\ v.lcseq \in Nat
    BY <1>2, MaxCSeqAssumption DEF Dialog
  <2>2. Moves(p, v, u) /\ Says(p, v, u, M)
    BY <1>1 DEF Acts
  <2>3. CASE p = Callee
    <3>1. Peer(p) = Caller /\ Caller \in Party
      BY <2>3, PartyAssumption DEF Peer, Party
    <3>2. CallerFirst /\ Callee # Caller
      BY PartyAssumption DEF DInv
    <3>3. \A m \in M : m.from = Caller => m.kind \notin OfClient
      BY <2>2, <2>3, <3>2 DEF Says, Sender
    <3>4. u.status # "Inviting" /\ (u.status \notin Asleep => u.rcseq >= 1)
      BY <2>1, <2>2, <2>3, <3>2 DEF Moves, CallerFirst, Status
    <3>5. ASSUME ua[Caller].status \in Early
          PROVE  /\ u.status \notin Late /\ u.rcseq <= 1
                 /\ u.status = "ReRefused" => \A n \in CSeq : u.its[n] \in {"none", "Done"}
      <4>1. /\ v.status \notin Late \cup {"Inviting"} /\ v.rcseq <= 1
            /\ v.status \notin Asleep => v.rcseq >= 1
            /\ v.status = "ReRefused" => \A n \in CSeq : v.its[n] \in {"none", "Done"}
        BY <2>3, <3>2, <3>5 DEF CallerFirst, Status
      <4>2. \A m \in net : m.from = Caller => /\ m.kind # "ack2xx"
                                              /\ m.kind = "INVITE" => m.cseq <= 1
        BY <3>2, <3>5 DEF CallerFirst, Status
      <4>3. ~\E n \in CSeq : Arrives("ack2xx", Caller, n)
        BY <4>2 DEF Arrives, Msg
      <4>4. \A n \in CSeq : Arrives("INVITE", Caller, n) => n <= 1
        BY <4>2 DEF Arrives, Msg
      <4>5. ~NewInvite(p, v)
        <5>1. SUFFICES ASSUME NEW n \in CSeq, v.status \notin Asleep, n > v.rcseq,
                              Arrives("INVITE", Caller, n)
                       PROVE  FALSE
          BY <3>1 DEF NewInvite
        <5>2. n <= 1 /\ v.rcseq >= 1
          BY <4>1, <4>4, <5>1
        <5>3. QED
          BY <2>1, <5>1, <5>2, MaxCSeqAssumption DEF CSeq
      <4>6. u.status \notin Late
        BY <2>2, <3>1, <4>1, <4>3, <4>5 DEF Moves
      <4>7. u.rcseq <= 1
        BY <2>2, <3>1, <4>1, <4>4 DEF Moves
      <4>8. ASSUME u.status = "ReRefused", NEW n \in CSeq
            PROVE  u.its[n] \in {"none", "Done"}
        <5>1. /\ v.its[n] = "Done" => u.its[n] = "Done"
              /\ v.its[n] = "none" /\ u.its[n] # "none" => v.status \in Asleep
          BY <2>2, <4>5 DEF Moves
        <5>2. CASE v.status = "ReRefused"
          BY <4>1, <5>1, <5>2 DEF Asleep
        <5>3. CASE v.status # "ReRefused"
          <6>1. PICK k \in CSeq : /\ v.status = "Invited" /\ v.its[k] # "none" /\ u.its[k] = "Done"
                                  /\ \A i \in CSeq : i # k => u.its[i] = v.its[i]
            BY <2>2, <4>1, <4>5, <4>8, <5>3 DEF Moves
          <6>2. \A i \in CSeq : v.its[i] # "none" => i <= v.rcseq
            BY <2>3, <3>1, <1>2 DEF DInv, Fit
          <6>3. k = 1 /\ (v.its[n] # "none" => n = 1)
            BY <2>1, <4>1, <6>1, <6>2, MaxCSeqAssumption DEF CSeq
          <6>4. QED
            BY <6>1, <6>3
        <5>4. QED
          BY <5>2, <5>3
      <4>9. QED
        BY <4>6, <4>7, <4>8
    <3>6. ua'[Callee] = u /\ ua'[Caller] = ua[Caller]
      BY <1>2, <2>3, <3>1
    <3>7. ua[Caller].status \in Early => \A m \in net' : m.from = Caller =>
              m.kind # "ack2xx" /\ (m.kind = "INVITE" => m.cseq <= 1)
      BY <1>2, <3>2, <3>3 DEF CallerFirst, Status, OfClient
    <3>8. ua[Caller].status \in Early => \A m \in net' : ~(m.kind = "INVITE" /\ m.from = Callee)
      <4>1. ua[Caller].status \in Early => v.status # "Call"
        BY <2>3, <3>2 DEF CallerFirst, Status, Late
      <4>2. \A m \in M : m.kind = "INVITE" => v.status = "Call"
        BY <2>2, <2>3, <3>2 DEF Says
      <4>3. QED
        BY <1>2, <3>2, <4>1, <4>2 DEF CallerFirst, Status
    <3>9. QED
      BY <3>2, <3>4, <3>5, <3>6, <3>7, <3>8 DEF CallerFirst, Status
  <2>4. CASE p = Caller
    <3>1. Peer(p) = Callee /\ Callee \in Party
      BY <2>4, PartyAssumption DEF Peer, Party
    <3>2. CallerFirst /\ Callee # Caller
      BY PartyAssumption DEF DInv
    <3>3. ua'[Caller] = u /\ ua'[Callee] = ua[Callee]
      BY <1>2, <2>4, <3>1
    <3>4. u.status = "Init" => u.lcseq = 0
      BY <2>2, <2>4, <3>2 DEF Moves, CallerFirst, Status
    <3>5. ASSUME u.status \in Early
          PROVE  /\ v.status \in Early
                 /\ \A m \in net' : m.from = Caller => /\ m.kind # "ack2xx"
                                                       /\ m.kind = "INVITE" => m.cseq <= 1
      <4>1. v.status \in Early
        BY <2>2, <3>5 DEF Moves
      <4>2. \A m \in net : m.from = Caller => /\ m.kind # "ack2xx"
                                              /\ m.kind = "INVITE" => m.cseq <= 1
        BY <2>4, <3>2, <4>1 DEF CallerFirst, Status
      <4>3. \A m \in M : /\ m.kind # "ack2xx"
                         /\ m.kind = "INVITE" => v.status = "Init" /\ m.cseq = v.lcseq + 1
        BY <2>2, <3>5 DEF Says
      <4>4. v.status = "Init" => v.lcseq = 0
        BY <2>4, <3>2 DEF CallerFirst, Status
      <4>5. \A m \in M : m.kind = "INVITE" => m.cseq <= 1
        BY <2>1, <4>3, <4>4
      <4>6. QED
        BY <1>2, <4>1, <4>2, <4>3, <4>5
    <3>6. u.status \in Early => \A m \in net' : ~(m.kind = "INVITE" /\ m.from = Callee)
      <4>1. \A m \in M : ~(m.kind = "INVITE" /\ m.from = Callee)
        BY <2>2, <2>4, <3>2 DEF Says, Sender, OfClient
      <4>2. QED
        BY <1>2, <2>4, <3>2, <3>5, <4>1 DEF CallerFirst, Status
    <3>7. QED
      BY <2>4, <3>2, <3>3, <3>4, <3>5, <3>6 DEF CallerFirst, Status
  <2>5. QED
    BY <2>3, <2>4 DEF Party
<1>8. QED
  BY <1>3, <1>6, <1>7 DEF DInv

-----------------------------------------------------------------------------
\* A step that keeps the INVITE server transactions keeps Fit.
LEMMA SameServer ==
  ASSUME NEW p \in Party, NEW v \in Dialog, NEW u \in Dialog, Fit(v),
         u.its = v.its, u.rcseq = v.rcseq, u.lcseq = v.lcseq, u.invIn = v.invIn, u.invOut = v.invOut,
         u.waitTs => v.waitTs \/ v.status = "Init",
         \/ u.status = v.status
         \/ /\ v.status # "Close"
            /\ \/ u.status = "Waiting" /\ v.status = "Init" /\ p = Callee
               \/ u.status = "Close"
               \/ u.status = "Call" /\ v.status \in Late
  PROVE  Moves(p, v, u)
<1>1. v.rcseq \in Int
  BY MaxCSeqAssumption DEF Dialog
<1>2. QED
  BY <1>1 DEF Moves, Fit, Early, Late, Asleep

\* Nothing said is nothing wrong.
LEMMA Silent == \A p, v, u : Says(p, v, u, {})
  BY DEF Says

\* The dialog of p as DInv leaves it.
Own(p) == /\ ua \in [Party -> Dialog] /\ ua[p] \in Dialog /\ Fit(ua[p])
          /\ ua[p].lcseq \in 0..MaxCSeq /\ ua[p].rcseq \in 0..MaxCSeq
          /\ MaxCSeq \in Nat /\ ua = [ua EXCEPT ![p] = ua[p]] /\ net = net \cup {}
\* A dialog of the invariant is a Dialog that fits and knows its answers.
LEMMA OwnDialog == ASSUME DInv, NEW p \in Party PROVE Own(p)
  BY MaxCSeqAssumption DEF Own, DInv, DialogTypeOK, Dialog

\* What proves that a step acts.
LEMMA Acting ==
  ASSUME NEW p \in Party, NEW u \in Dialog, NEW M \in SUBSET Message,
         Become(p, u), Send(M), Moves(p, ua[p], u), Says(p, ua[p], u, M)
  PROVE  ActsSomehow(p)
  BY DEF ActsSomehow, Acts

\* The same for a step that sends nothing.
LEMMA ActingSilently ==
  ASSUME NEW p \in Party, Own(p), NEW u \in Dialog,
         Become(p, u), UNCHANGED net, Moves(p, ua[p], u)
  PROVE  ActsSomehow(p)
<1>1. {} \in SUBSET Message /\ Send({})
  BY DEF Send
<1>2. QED
  BY <1>1, Silent, Acting

\* The last transaction of a kind ends and the others stay.
LEMMA DropLastTyped ==
  ASSUME NEW S, "Done" \in S, NEW f \in [CSeq -> S]
  PROVE  /\ DropLast(f) \in [CSeq -> S]
         /\ \A n \in CSeq : /\ DropLast(f)[n] \in {f[n], "Done"}
                            /\ f[n] = "none" => DropLast(f)[n] = "none"
  BY DEF DropLast

-----------------------------------------------------------------------------
(* The operations of the user *)

\* listen(), of the callee alone.
LEMMA ListenActs ==
  ASSUME DInv, NEW p \in Party, p = Callee, Listen(p)
  PROVE  ActsSomehow(p)
<1> DEFINE u == [ua[p] EXCEPT !.status = "Waiting", !.waitTs = TRUE]
<1>0. Own(p)
  BY OwnDialog
<1>1. u \in Dialog
  BY <1>0 DEF Own, Dialog, DialogStatus
<1>2. Moves(p, ua[p], u)
  BY <1>1, <1>0, SameServer DEF Own, Listen, Status, Dialog
<1>3. Become(p, u) /\ UNCHANGED net
  BY DEF Listen
<1>4. QED
  BY <1>0, <1>1, <1>2, <1>3, ActingSilently

\* invite() comes from the caller alone; reInvite() from either.
LEMMA InviteActs ==
  ASSUME DInv, NEW p \in Party, (p = Caller /\ Invite(p)) \/ ReInvite(p)
  PROVE  ActsSomehow(p)
<1> DEFINE status == IF Invite(p) THEN "Inviting" ELSE "ReInviting"
           n == ua[p].lcseq + 1
           u == [ua[p] EXCEPT !.status = status, !.lcseq = n, !.invOut = n, !.itc[n] = "Trying"]
           M == {Msg("INVITE", p, n)}
<1>0. Own(p)
  BY OwnDialog
<1>1. n \in CSeq /\ ua[p].lcseq < MaxCSeq
  BY <1>0 DEF Own, CSeq, Invite, ReInvite, Inviting
<1>2. u \in Dialog
  <2>1. status \in DialogStatus /\ n \in 0..MaxCSeq
    BY <1>1 DEF DialogStatus, CSeq
  <2>2. ua[p] \in Dialog
    BY <1>0 DEF Own
  <2> HIDE DEF status, n
  <2>3. QED
    BY <1>1, <2>1, <2>2 DEF Dialog
<1>3. M \subseteq Message
  BY <1>1 DEF Message, Msg, Kind
<1>4. /\ Become(p, u) /\ Send(M)
      /\ \/ status = "Inviting" /\ ua[p].status = "Init" /\ p = Caller
         \/ status = "ReInviting" /\ ua[p].status = "Call"
  BY DEF Invite, ReInvite, Inviting, Status
<1>5. /\ u.status = status /\ u.invOut = n /\ u.its = ua[p].its /\ u.invIn = ua[p].invIn /\ u.rcseq = ua[p].rcseq
  BY <1>0 DEF Own, Dialog
<1>6. Moves(p, ua[p], u)
  BY <1>1, <1>4, <1>5, <1>0 DEF Own, Moves, Fit, Early, Late, Asleep
<1>7. Says(p, ua[p], u, M)
  BY <1>4, <1>5 DEF Says, Msg, Sender, OfClient, Early
<1>8. QED
  BY <1>2, <1>3, <1>4, <1>6, <1>7, Acting

\* A final answer of the pending INVITE.
LEMMA AcceptActs ==
  ASSUME DInv, NEW p \in Party, Accept(p)
  PROVE  ActsSomehow(p)
<1> DEFINE n == ua[p].invIn
           u == [ua[p] EXCEPT !.status = IF @ = "Invited" THEN "Accepted" ELSE "ReAccepted",
                              !.its[n] = "Done", !.ats[n] = "Proceeding"]
           M == {Msg("2xx", Peer(p), n)}
<1>0. Own(p)
  BY OwnDialog
<1>1. /\ ua[p].status \in {"Invited", "ReInvited"} /\ Become(p, u) /\ Send(M)
      /\ n \in CSeq /\ ua[p].its[n] = "Proceeding"
  BY <1>0 DEF Own, Accept, Status, Fit
<1>2. u \in Dialog /\ M \subseteq Message
  <2>1. M \subseteq Message
    BY <1>1, PeerSwaps DEF Message, Msg, Kind
  <2>2. u \in Dialog
    BY <1>0, <1>1 DEF Own, Dialog, DialogStatus
  <2>3. QED
    BY <2>1, <2>2
<1>3. /\ u.status \in {"Accepted", "ReAccepted"}
      /\ u.rcseq = ua[p].rcseq /\ u.its = [ua[p].its EXCEPT ![n] = "Done"]
  BY <1>1, <1>0 DEF Own, Dialog
<1>4. Moves(p, ua[p], u)
  BY <1>1, <1>3, <1>0 DEF Own, Moves, Fit, Early, Late, Asleep, Dialog
<1>5. Says(p, ua[p], u, M)
  BY <1>1, <1>3, <1>0, PeerSwaps DEF Own, Says, Msg, Sender, OfClient, Early, Dialog, Request
<1>6. QED
  BY <1>1, <1>2, <1>4, <1>5, Acting

\* accept() while a CANCEL of the peer is handled: a 2xx, and perhaps a 487.
LEMMA CrossingActs ==
  ASSUME DInv, NEW p \in Party, NEW n \in CSeq, NEW cbs, CancelMeetsAccept(p, n, cbs)
  PROVE  ActsSomehow(p)
<1> DEFINE k == ua[p].invIn
           W(status) == [ua[p] EXCEPT !.status = status, !.cts[n] = "Done",
                                      !.its[k] = "Done", !.ats[k] = "Proceeding"]
<1>0. /\ Own(p) /\ k \in CSeq /\ ua[p].its[k] = "Proceeding"
      /\ ua[p].status \in {"Invited", "ReInvited"} /\ Cancelled(p, net)
  BY OwnDialog DEF Own, Fit, CancelMeetsAccept, Status, Cancelled, Arrives
<1>1. PICK status \in {"ReAccepted", "ReRefused"} \cup
                       (IF ua[p].status = "Invited" THEN {"Accepted", "Refused"} ELSE {}),
           refused \in {{}, Refusal(p, ua[p])} :
             Become(p, W(status)) /\ Send({Msg("2xx", Peer(p), k)} \cup refused)
  BY DEF CancelMeetsAccept, Status
<1>2. refused \subseteq {Msg("failure", Peer(p), k)}
  BY <1>1 DEF Refusal
<1> DEFINE u == W(status)
           M == {Msg("2xx", Peer(p), k)} \cup refused
<1>3. /\ u \in Dialog /\ u.status = status /\ u.rcseq = ua[p].rcseq
      /\ u.its = [ua[p].its EXCEPT ![k] = "Done"] /\ DOMAIN ua[p].its = CSeq
      /\ ua[p].rcseq \in Nat
  <2>1. status \in DialogStatus
    BY <1>1 DEF DialogStatus
  <2>2. ua[p] \in Dialog /\ ua[p].rcseq \in Nat /\ DOMAIN ua[p].its = CSeq
    BY <1>0 DEF Own, Dialog
  <2> DEFINE v == ua[p]
             its == [v.its EXCEPT ![k] = "Done"]
             cts == [v.cts EXCEPT ![n] = "Done"]
             ats == [v.ats EXCEPT ![k] = "Proceeding"]
  <2>3. /\ its \in [CSeq -> {"none", "Proceeding", "Completed", "Done"}]
        /\ cts \in [CSeq -> {"none", "Waiting", "Done"}]
        /\ ats \in [CSeq -> {"none", "Proceeding", "Done"}]
    BY <1>0, <2>2 DEF Dialog
  <2>4. u = [v EXCEPT !.status = status, !.cts = cts, !.its = its, !.ats = ats]
    BY <2>2 DEF Dialog
  <2> HIDE DEF u, v, its, cts, ats
  <2>5. u \in Dialog /\ u.status = status /\ u.rcseq = v.rcseq /\ u.its = its
    BY <2>1, <2>2, <2>3, <2>4 DEF Dialog, v
  <2>6. QED
    BY <2>2, <2>5 DEF v, its
<1>4. M \in SUBSET Message
  BY <1>0, <1>2, PeerSwaps DEF Message, Msg, Kind
<1>5. status \in {"Accepted", "Refused", "ReAccepted", "ReRefused"}
  BY <1>1
<1>6. Become(p, u) /\ Send(M)
  BY <1>1
<1> HIDE DEF W, u, M
<1>7. Moves(p, ua[p], u)
  <2>1. Fit(u)
    BY <1>0, <1>3, <1>5 DEF Own, Fit
  <2>2. u.status = "ReRefused" =>
          \/ ua[p].status \in Late
          \/ /\ ua[p].status = "Invited"
             /\ \E i \in CSeq : /\ ua[p].its[i] # "none" /\ u.its[i] = "Done"
                                /\ \A j \in CSeq : j # i => u.its[j] = ua[p].its[j]
    BY <1>0, <1>3 DEF Late
  <2>3. \A i \in CSeq : /\ ua[p].its[i] = "Done" => u.its[i] = "Done"
                        /\ ua[p].its[i] = "Completed" => u.its[i] = "Completed"
                        /\ ua[p].its[i] = "none" => u.its[i] = "none"
    BY <1>0, <1>3
  <2>4. QED
    BY <1>0, <1>3, <1>5, <2>1, <2>2, <2>3 DEF Moves, Early, Late, Asleep
<1>8. Says(p, ua[p], u, M)
  <2>1. \A m \in M : m = Msg("2xx", Peer(p), k) \/ m = Msg("failure", Peer(p), k)
    BY <1>2 DEF M
  <2>2. u.its[k] = "Done"
    BY <1>0, <1>3
  <2>3. ASSUME NEW m \in M
        PROVE  Sender(m) = p /\ m.kind \in {"2xx", "failure"} /\ m.from = Peer(p) /\ m.cseq = k
    BY <2>1, PeerSwaps DEF Msg, Sender, OfClient
  <2>4. ASSUME NEW i \in CSeq
        PROVE  /\ Msg("2xx", Peer(p), i) \in M \/ Msg("failure", Peer(p), i) \in M => i = k
               /\ Msg("byeOk", Peer(p), i) \notin M
    BY <2>3 DEF Msg
  <2>5. QED
    BY <1>0, <2>2, <2>3, <2>4 DEF Says, Request
<1>9. QED
  BY <1>3, <1>4, <1>6, <1>7, <1>8, Acting

\* What respond() with a refusal changes (Refused, Refusal).
RefusalFits(p, u) ==
  /\ Refused(u) \in Dialog
  /\ Refused(u).rcseq = u.rcseq /\ Refused(u).lcseq = u.lcseq
  /\ Refused(u).invOut = u.invOut /\ Refused(u).waitTs = u.waitTs
  /\ \/ Refused(u).status = u.status /\ Refused(u) = u
     \/ u.status = "Invited" /\ Refused(u).status = "Refused"
     \/ u.status = "ReInvited" /\ Refused(u).status = "ReRefused"
  /\ \A n \in CSeq : \/ Refused(u).its[n] = u.its[n]
                     \/ u.its[n] = "Proceeding" /\ Refused(u).its[n] = "Completed"
  /\ \A m \in Refusal(p, u) : \E n \in CSeq :
        m = Msg("failure", Peer(p), n) /\ u.its[n] = "Proceeding"
                                       /\ Refused(u).its[n] = "Completed"
  /\ Refusal(p, u) \subseteq Message
\* Refused (InviteDialog.refuse()) completes the waiting transaction and no other.
LEMMA RefusedTyped ==
  ASSUME NEW p \in Party, NEW u \in Dialog, Fit(u)
  PROVE  RefusalFits(p, u)
<1> USE DEF RefusalFits
<1>1. CASE u.status \in {"Invited", "ReInvited"}
  <2> DEFINE n == u.invIn
             r == [u EXCEPT !.status = IF @ = "Invited" THEN "Refused" ELSE "ReRefused",
                            !.its[n] = "Completed"]
  <2>1. n \in CSeq /\ u.its[n] = "Proceeding"
    BY <1>1 DEF Fit
  <2>2. Refused(u) = r /\ Refusal(p, u) = {Msg("failure", Peer(p), n)}
    BY <1>1, <2>1 DEF Refused, Refusal
  <2>3. r \in Dialog
    BY <2>1 DEF Dialog, DialogStatus
  <2>4. /\ r.rcseq = u.rcseq /\ r.lcseq = u.lcseq /\ r.invOut = u.invOut /\ r.waitTs = u.waitTs
        /\ r.status = IF u.status = "Invited" THEN "Refused" ELSE "ReRefused"
        /\ r.its = [u.its EXCEPT ![n] = "Completed"] /\ DOMAIN u.its = CSeq
    BY DEF Dialog
  <2>5. Msg("failure", Peer(p), n) \in Message
    BY <2>1, PeerSwaps DEF Msg, Message, Kind
  <2> HIDE DEF r, n
  <2>6. QED
    BY <1>1, <2>1, <2>2, <2>3, <2>4, <2>5
<1>2. CASE u.status \notin {"Invited", "ReInvited"}
  BY <1>2 DEF Refused, Refusal
<1>3. QED
  BY <1>1, <1>2

\* A refusal, by the user or for a CANCEL, which ends its server (u).
LEMMA RefusalActs ==
  ASSUME DInv, NEW p \in Party, NEW u \in Dialog,
         u.status = ua[p].status, u.its = ua[p].its, u.invIn = ua[p].invIn,
         u.rcseq = ua[p].rcseq, u.lcseq = ua[p].lcseq, u.invOut = ua[p].invOut, u.waitTs = ua[p].waitTs,
         Become(p, Refused(u)), Send(Refusal(p, u))
  PROVE  ActsSomehow(p)
<1> DEFINE r == Refused(u)
<1>0. Own(p)
  BY OwnDialog
<1>1. Fit(u)
  BY <1>0 DEF Own, Fit
<1>2. /\ r \in Dialog /\ r.rcseq = u.rcseq /\ r.lcseq = u.lcseq /\ r.invOut = u.invOut /\ r.waitTs = u.waitTs
      /\ \/ r.status = u.status /\ r = u
         \/ u.status = "Invited" /\ r.status = "Refused"
         \/ u.status = "ReInvited" /\ r.status = "ReRefused"
      /\ \A n \in CSeq : \/ r.its[n] = u.its[n]
                         \/ u.its[n] = "Proceeding" /\ r.its[n] = "Completed"
      /\ \A m \in Refusal(p, u) : \E n \in CSeq :
            m = Msg("failure", Peer(p), n) /\ u.its[n] = "Proceeding" /\ r.its[n] = "Completed"
      /\ Refusal(p, u) \subseteq Message
  <2>1. RefusalFits(p, u)
    BY <1>1, RefusedTyped
  <2>2. QED
    BY <2>1 DEF RefusalFits
<1> HIDE DEF r
<1>3. Moves(p, ua[p], r)
  <2>1. Fit(r)
    BY <1>1, <1>2 DEF Fit
  <2>2. r.rcseq >= ua[p].rcseq
    BY <1>0, <1>2 DEF Own
  <2>3. QED
    BY <1>2, <2>1, <2>2 DEF Moves, Early, Late, Asleep
<1>4. Says(p, ua[p], r, Refusal(p, u))
  BY <1>2, PeerSwaps DEF Says, Msg, Sender, OfClient, Request
<1>5. Become(p, r)
  BY DEF r
<1>6. QED
  BY <1>2, <1>3, <1>4, <1>5, Acting

\* refuse(), called by the user.
LEMMA RefuseActs ==
  ASSUME DInv, NEW p \in Party, Refuse(p)
  PROVE  ActsSomehow(p)
  BY OwnDialog, RefusalActs DEF Refuse, Own

\* onCancel(): the INVITE that waits is refused, or nothing is left to cancel.
LEMMA ReceiveCancelActs ==
  ASSUME DInv, NEW p \in Party, NEW n \in CSeq, NEW cbs, ReceiveCancel(p, n, cbs)
  PROVE  ActsSomehow(p)
<1> DEFINE u == [ua[p] EXCEPT !.cts[n] = "Done"]
<1>0. Own(p)
  BY OwnDialog
<1>1. u \in Dialog
  BY <1>0 DEF Own, Dialog
<1>2. /\ u.status = ua[p].status /\ u.its = ua[p].its /\ u.invIn = ua[p].invIn
      /\ u.rcseq = ua[p].rcseq /\ u.lcseq = ua[p].lcseq /\ u.invOut = ua[p].invOut /\ u.waitTs = ua[p].waitTs
  BY <1>0 DEF Own, Dialog
<1>3. Become(p, Refused(u)) /\ Send(Refusal(p, u))
  BY DEF ReceiveCancel
<1> HIDE DEF u
<1>4. QED
  BY <1>1, <1>2, <1>3, RefusalActs

\* cancel(): the caller may cancel only what it has sent.
LEMMA CancelActs ==
  ASSUME DInv, NEW p \in Party, Cancel(p)
  PROVE  ActsSomehow(p)
<1>0. Own(p)
  BY OwnDialog
<1>1. CASE Status(p) \in {"Inviting", "ReInviting"}
  <2> DEFINE n == ua[p].invOut
             M == {Msg("CANCEL", p, n)}
             u == [ua[p] EXCEPT !.itc[n] = "Done"]
  <2>1. n \in CSeq
    BY <1>0, <1>1 DEF Own, Fit, Status
  <2>2. CASE ua[p].itc[n] = "Proceeding"
    <3>1. Send(M) /\ Become(p, ua[p])
      BY <1>0, <1>1, <2>2 DEF Cancel, Status, Become, Own
    <3>2. M \in SUBSET Message
      BY <2>1 DEF Message, Msg, Kind
    <3>3. Moves(p, ua[p], ua[p])
      BY <1>0, SameServer DEF Own
    <3>4. Says(p, ua[p], ua[p], M)
      BY <1>1 DEF Says, Msg, Sender, OfClient, Early, Status
    <3>5. QED
      BY <1>0, <3>1, <3>2, <3>3, <3>4, Acting DEF Own
  <2>3. CASE ua[p].itc[n] # "Proceeding"
    <3>1. Become(p, u) /\ UNCHANGED net
      BY <1>1, <2>3 DEF Cancel, Status
    <3>2. /\ u \in Dialog
          /\ u.its = ua[p].its /\ u.rcseq = ua[p].rcseq /\ u.invIn = ua[p].invIn
          /\ u.invOut = ua[p].invOut /\ u.waitTs = ua[p].waitTs /\ u.lcseq = ua[p].lcseq /\ u.status = ua[p].status
      BY <1>0, <2>1 DEF Own, Dialog
    <3>3. Moves(p, ua[p], u)
      BY <1>0, <3>2, SameServer DEF Own
    <3>4. QED
      BY <1>0, <3>1, <3>2, <3>3, ActingSilently
  <2>4. QED
    BY <2>2, <2>3
<1>2. CASE Status(p) = "Waiting"
  <2> DEFINE u == [ua[p] EXCEPT !.waitTs = FALSE]
  <2>1. Become(p, u) /\ UNCHANGED net
    BY <1>2 DEF Cancel
  <2>2. /\ u \in Dialog
        /\ u.its = ua[p].its /\ u.rcseq = ua[p].rcseq /\ u.invIn = ua[p].invIn
        /\ u.invOut = ua[p].invOut /\ ~u.waitTs /\ u.lcseq = ua[p].lcseq /\ u.status = ua[p].status
    BY <1>0 DEF Own, Dialog
  <2>3. Moves(p, ua[p], u)
    BY <1>0, <2>2, SameServer DEF Own
  <2>4. QED
    BY <1>0, <2>1, <2>2, <2>3, ActingSilently
<1>3. QED
  BY <1>1, <1>2 DEF Cancel

\* bye(), by itself or within the callback of a 2xx.
LEMMA ByeingTyped ==
  ASSUME NEW u \in Dialog, u.lcseq < MaxCSeq
  PROVE  /\ Byeing(u) \in Dialog /\ u.lcseq + 1 \in CSeq
         /\ Byeing(u).status = "Byeing" /\ Byeing(u).its = u.its
         /\ Byeing(u).rcseq = u.rcseq /\ Byeing(u).invIn = u.invIn
<1>1. u.lcseq + 1 \in CSeq /\ u.lcseq + 1 \in 0..MaxCSeq
  BY MaxCSeqAssumption DEF Dialog, CSeq
<1>2. QED
  BY <1>1 DEF Dialog, DialogStatus, Byeing

\* bye(): one new number, and the dialog waits for the answer.
LEMMA ByeActs ==
  ASSUME DInv, NEW p \in Party, Bye(p)
  PROVE  ActsSomehow(p)
<1> DEFINE u == Byeing(ua[p])
           M == {Msg("BYE", p, ua[p].lcseq + 1)}
<1>0. Own(p)
  BY OwnDialog
<1>1. ua[p].status = "Call" /\ ua[p].lcseq < MaxCSeq /\ Become(p, u) /\ Send(M)
  BY DEF Bye, Status
<1>2. /\ u \in Dialog /\ ua[p].lcseq + 1 \in CSeq /\ u.status = "Byeing"
      /\ u.its = ua[p].its /\ u.rcseq = ua[p].rcseq /\ u.invIn = ua[p].invIn
  BY <1>0, <1>1, ByeingTyped DEF Own
<1> HIDE DEF u
<1>3. M \in SUBSET Message
  BY <1>2 DEF Message, Msg, Kind
<1>4. Moves(p, ua[p], u)
  BY <1>0, <1>1, <1>2 DEF Own, Moves, Fit, Early, Late, Asleep
<1>5. Says(p, ua[p], u, M)
  BY <1>1, <1>2 DEF Says, Msg, Sender, OfClient, Early
<1>6. QED
  BY <1>1, <1>2, <1>3, <1>4, <1>5, Acting

\* terminate(): the dialog is closed and silent.
LEMMA TerminateActs ==
  ASSUME DInv, NEW p \in Party, NEW cbs, Terminate(p, cbs)
  PROVE  ActsSomehow(p)
<1> DEFINE v == ua[p]
           u == [v EXCEPT !.status = "Close", !.waitTs = FALSE,
                   !.itc = DropLast(@), !.its = DropLast(@), !.cts = DropLast(@),
                   !.ats = DropLast(@)]
<1>0. Own(p)
  BY OwnDialog
<1>1. Become(p, u) /\ UNCHANGED net
  BY DEF Terminate
<1>2. /\ v.itc \in [CSeq -> {"none", "Trying", "Proceeding", "Done"}]
      /\ v.its \in [CSeq -> {"none", "Proceeding", "Completed", "Done"}]
      /\ v.cts \in [CSeq -> {"none", "Waiting", "Done"}]
      /\ v.ats \in [CSeq -> {"none", "Proceeding", "Done"}]
      /\ v \in Dialog /\ Fit(v) /\ v.rcseq \in Nat
  BY <1>0 DEF Own, Dialog
<1> HIDE DEF v
<1>3. /\ DropLast(v.itc) \in [CSeq -> {"none", "Trying", "Proceeding", "Done"}]
      /\ DropLast(v.its) \in [CSeq -> {"none", "Proceeding", "Completed", "Done"}]
      /\ DropLast(v.cts) \in [CSeq -> {"none", "Waiting", "Done"}]
      /\ DropLast(v.ats) \in [CSeq -> {"none", "Proceeding", "Done"}]
      /\ \A n \in CSeq : /\ DropLast(v.its)[n] \in {v.its[n], "Done"}
                         /\ v.its[n] = "none" => DropLast(v.its)[n] = "none"
  BY <1>2, DropLastTyped
<1>4. /\ u \in Dialog /\ u.status = "Close" /\ u.rcseq = v.rcseq
      /\ u.its = DropLast(v.its)
  BY <1>2, <1>3 DEF Dialog, DialogStatus
<1> HIDE DEF u
<1>5. Fit(u)
  BY <1>2, <1>3, <1>4 DEF Fit
<1>6. Moves(p, v, u)
  BY <1>2, <1>3, <1>4, <1>5 DEF Moves, Early, Late, Asleep
<1>7. QED
  BY <1>0, <1>1, <1>4, <1>6, ActingSilently DEF v

-----------------------------------------------------------------------------
(* What the dialog receives *)

\* A new INVITE, numbered beyond all before, pending or refused at once (420).
LEMMA TakeInviteActs ==
  ASSUME DInv, NEW p \in Party, NEW n \in CSeq, NEW u \in Dialog,
         NEW canCancel, NEW notify, NEW cbs,
         n > ua[p].rcseq, u.rcseq = n, u.invIn = n, u.lcseq = ua[p].lcseq,
         u.its = [ua[p].its EXCEPT ![n] = "Proceeding"],
         Arrives("INVITE", Peer(p), n),
         \/ u.status = "Invited" /\ ua[p].status \in {"Init", "Waiting"} /\ p = Callee
         \/ u.status = "ReInvited" /\ ua[p].status \notin Asleep,
         TakeInvite(p, u, n, canCancel, notify, cbs)
  PROVE  ActsSomehow(p)
<1> DEFINE v == ua[p]
<1>0. Own(p) /\ v \in Dialog /\ Fit(v) /\ v.rcseq \in Nat /\ v.its[n] = "none"
  BY OwnDialog DEF Own, Fit, Dialog, CSeq
<1>1. /\ u.its[n] = "Proceeding"
      /\ \A k \in CSeq : k # n => u.its[k] = v.its[k]
  BY <1>0 DEF Dialog
<1>2. Fit(u)
  BY <1>0, <1>1 DEF Fit, CSeq
<1>3. Msg("1xx", Peer(p), n) \in Message
  BY PeerSwaps DEF Message, Msg, Kind
\* Any dialog that differs from u in nothing that matters here.
<1>4. ASSUME NEW w \in Dialog, Fit(w), w.rcseq = n, w.lcseq = v.lcseq,
             \/ w.status = u.status
             \/ u.status = "Invited" /\ w.status = "Refused"
             \/ u.status = "ReInvited" /\ w.status = "ReRefused",
             \A k \in CSeq : \/ w.its[k] = u.its[k]
                             \/ u.its[k] = "Proceeding" /\ w.its[k] = "Completed"
      PROVE  Moves(p, v, w)
  <2>1. \A k \in CSeq : /\ v.its[k] = "Done" => w.its[k] = "Done"
                        /\ v.its[k] = "Completed" => w.its[k] \in {"Completed", "Done"}
    BY <1>0, <1>1, <1>4
  <2>2. /\ w.rcseq >= v.rcseq /\ w.rcseq >= 1 /\ v.status # "Close"
        /\ w.status \in {"Invited", "ReInvited", "Refused", "ReRefused"}
    BY <1>0, <1>4 DEF CSeq, Asleep
  <2>3. v.status \in Asleep \/ NewInvite(p, v)
    BY <1>0 DEF NewInvite
  <2>5. w.status \in Late \cup {"ReRefused"} => NewInvite(p, v)
    BY <1>4, <2>3 DEF Late, Asleep
  <2>6. u.status = "Invited" => v.status \in {"Init", "Waiting"}
    OBVIOUS
  <2>7. QED
    BY <1>4, <2>1, <2>2, <2>3, <2>5, <2>6 DEF Moves, Early
<1>5. CASE \E w \in {u, [u EXCEPT !.cts[n] = "Waiting"]} :
             Become(p, w) /\ Send({Msg("1xx", Peer(p), n)})
  <2>1. PICK w \in {u, [u EXCEPT !.cts[n] = "Waiting"]} :
             Become(p, w) /\ Send({Msg("1xx", Peer(p), n)})
    BY <1>5
  <2>2. /\ w \in Dialog /\ w.status = u.status /\ w.its = u.its /\ w.rcseq = u.rcseq
        /\ w.lcseq = u.lcseq /\ w.invIn = u.invIn /\ w.invOut = u.invOut /\ w.waitTs = u.waitTs
    BY <2>1 DEF Dialog
  <2>3. Moves(p, v, w)
    <3>1. Fit(w)
      BY <1>2, <2>2 DEF Fit
    <3>2. QED
      BY <1>4, <2>2, <3>1
  <2>4. Says(p, v, w, {Msg("1xx", Peer(p), n)})
    BY PeerSwaps DEF Says, Msg, Sender, OfClient, Request
  <2>5. QED
    BY <1>3, <2>1, <2>2, <2>3, <2>4, Acting
<1>6. CASE Become(p, Refused(u)) /\ Send({Msg("1xx", Peer(p), n)} \cup Refusal(p, u))
  <2> DEFINE r == Refused(u)
             M == {Msg("1xx", Peer(p), n)} \cup Refusal(p, u)
  <2>1. /\ r \in Dialog /\ r.rcseq = u.rcseq /\ r.lcseq = u.lcseq /\ r.invOut = u.invOut /\ r.waitTs = u.waitTs
        /\ \/ r.status = u.status /\ r = u
           \/ u.status = "Invited" /\ r.status = "Refused"
           \/ u.status = "ReInvited" /\ r.status = "ReRefused"
        /\ \A k \in CSeq : \/ r.its[k] = u.its[k]
                           \/ u.its[k] = "Proceeding" /\ r.its[k] = "Completed"
        /\ \A m \in Refusal(p, u) : \E k \in CSeq :
              m = Msg("failure", Peer(p), k) /\ u.its[k] = "Proceeding" /\ r.its[k] = "Completed"
        /\ Refusal(p, u) \subseteq Message
    <3>1. RefusalFits(p, u)
      BY <1>2, RefusedTyped
    <3>2. QED
      BY <3>1 DEF RefusalFits
  <2>2. Become(p, r) /\ Send(M)
    BY <1>6
  <2>3. M \in SUBSET Message
    BY <1>3, <2>1
  <2> HIDE DEF r
  <2>4. Moves(p, v, r)
    <3>1. Fit(r)
      BY <1>2, <2>1 DEF Fit
    <3>2. QED
      BY <1>4, <2>1, <3>1
  <2>5. Says(p, v, r, M)
    <3>1. \A k \in CSeq : u.its[k] = "Proceeding" => v.its[k] \in {"none", "Proceeding"}
      BY <1>0, <1>1
    <3>2. ASSUME NEW m \in M
          PROVE  \/ m = Msg("1xx", Peer(p), n)
                 \/ \E k \in CSeq : /\ m = Msg("failure", Peer(p), k)
                                    /\ v.its[k] \in {"none", "Proceeding"} /\ r.its[k] = "Completed"
      BY <2>1, <3>1
    <3> HIDE DEF M, v
    <3>3. QED
      BY <3>2, PeerSwaps DEF Says, Msg, Sender, OfClient, Request
  <2>6. QED
    BY <2>1, <2>2, <2>3, <2>4, <2>5, Acting
<1>7. QED
  BY <1>5, <1>6 DEF TakeInvite

\* What an INVITE leaves of the dialog that takes it.
LEMMA InvitedByTyped ==
  ASSUME NEW v \in Dialog, NEW n \in CSeq, n > v.rcseq, NEW status \in DialogStatus
  PROVE  LET u == InvitedBy(v, status, n)
         IN  /\ u \in Dialog /\ u.rcseq = n /\ u.invIn = n /\ u.lcseq = v.lcseq
             /\ u.its = [v.its EXCEPT ![n] = "Proceeding"] /\ u.status = status
<1>1. n \in 0..MaxCSeq
  BY DEF CSeq
<1>2. QED
  BY <1>1 DEF InvitedBy, Dialog

\* The INVITE that creates the dialog, or that the waiting dialog takes.
LEMMA ReceiveFirstInviteActs ==
  ASSUME DInv, NEW p \in Party, NEW n \in CSeq, NEW cbs, ReceiveFirstInvite(p, n, cbs)
  PROVE  ActsSomehow(p)
<1> DEFINE u == InvitedBy(ua[p], "Invited", n)
           w == [u EXCEPT !.waitTs = FALSE]
<1>0. /\ Own(p) /\ n > ua[p].rcseq /\ ua[p].status \in {"Init", "Waiting"} /\ p = Callee
      /\ Arrives("INVITE", Peer(p), n)
  BY OwnDialog DEF Own, Fit, ReceiveFirstInvite, Status, Peer
<1>1. /\ u \in Dialog /\ u.rcseq = n /\ u.invIn = n /\ u.lcseq = ua[p].lcseq
      /\ u.its = [ua[p].its EXCEPT ![n] = "Proceeding"] /\ u.status = "Invited"
  <2>1. ua[p] \in Dialog /\ "Invited" \in DialogStatus
    BY <1>0 DEF Own, DialogStatus
  <2>2. QED
    BY <1>0, <2>1, InvitedByTyped
<1>2. \/ TakeInvite(p, u, n, TRUE, "onDlgInvite", cbs)
      \/ TakeInvite(p, w, n, FALSE, "onDlgInvite", cbs)
  BY DEF ReceiveFirstInvite
<1> HIDE DEF u
<1>3. /\ w \in Dialog /\ w.rcseq = n /\ w.invIn = n /\ w.lcseq = ua[p].lcseq
      /\ w.its = [ua[p].its EXCEPT ![n] = "Proceeding"] /\ w.status = "Invited"
  BY <1>1 DEF Dialog
<1> HIDE DEF w
<1>4. QED
  BY <1>0, <1>1, <1>2, <1>3, TakeInviteActs

\* An INVITE within the dialog: it has a number not seen before.
LEMMA ReceiveReInviteActs ==
  ASSUME DInv, NEW p \in Party, NEW n \in CSeq, NEW cbs, ReceiveReInvite(p, n, cbs)
  PROVE  ActsSomehow(p)
<1> DEFINE u == InvitedBy(ua[p], "ReInvited", n)
<1>0. /\ Own(p) /\ n > ua[p].rcseq /\ ua[p].status \notin Asleep
      /\ Arrives("INVITE", Peer(p), n)
      /\ TakeInvite(p, u, n, TRUE, "onDlgReInvite", cbs)
  BY OwnDialog DEF ReceiveReInvite, Registered, Asleep, Status
<1>1. /\ u \in Dialog /\ u.rcseq = n /\ u.invIn = n /\ u.lcseq = ua[p].lcseq
      /\ u.its = [ua[p].its EXCEPT ![n] = "Proceeding"] /\ u.status = "ReInvited"
  <2>1. ua[p] \in Dialog /\ "ReInvited" \in DialogStatus
    BY <1>0 DEF Own, DialogStatus
  <2>2. QED
    BY <1>0, <2>1, InvitedByTyped
<1> HIDE DEF u
<1>2. QED
  BY <1>0, <1>1, TakeInviteActs

\* The end of an INVITE server transaction that had given its answer, by an ACK
\* (ReceiveFailureAck) or timer H.
LEMMA ServerEndActs ==
  ASSUME DInv, NEW p \in Party, NEW n \in CSeq, NEW u \in Dialog,
         ua[p].its[n] = "Completed", u.its = [ua[p].its EXCEPT ![n] = "Done"],
         u.rcseq = ua[p].rcseq, u.lcseq = ua[p].lcseq, u.invIn = ua[p].invIn,
         u.invOut = ua[p].invOut, u.waitTs = ua[p].waitTs,
         \/ u.status = ua[p].status
         \/ u.status = "Close" /\ ua[p].status = "Refused"
         \/ u.status = "Call" /\ ua[p].status = "ReRefused",
         Become(p, u), UNCHANGED net
  PROVE  ActsSomehow(p)
<1>0. Own(p)
  BY OwnDialog
<1>1. DOMAIN ua[p].its = CSeq /\ ua[p].rcseq \in Nat
  BY <1>0 DEF Own, Dialog
<1>2. Fit(u)
  BY <1>0, <1>1 DEF Own, Fit
<1>3. Moves(p, ua[p], u)
  BY <1>1, <1>2 DEF Moves, Early, Late, Asleep
<1>4. QED
  BY <1>0, <1>3, ActingSilently

\* The ACK of a refusal ends the server transaction, as nothing else but its timer does.
LEMMA ReceiveFailureAckActs ==
  ASSUME DInv, NEW p \in Party, NEW n \in CSeq, NEW cbs, ReceiveFailureAck(p, n, cbs)
  PROVE  ActsSomehow(p)
<1> DEFINE u == [ua[p] EXCEPT !.its[n] = "Done"]
           w == [u EXCEPT !.cts = DropLast(@),
                          !.status = IF @ = "Refused" THEN "Close" ELSE "Call"]
<1>0. Own(p) /\ ua[p].its[n] = "Completed" /\ UNCHANGED net
  BY OwnDialog DEF ReceiveFailureAck
<1>1. /\ u \in Dialog /\ u.its = [ua[p].its EXCEPT ![n] = "Done"] /\ u.status = ua[p].status
      /\ u.rcseq = ua[p].rcseq /\ u.lcseq = ua[p].lcseq /\ u.invIn = ua[p].invIn
      /\ u.invOut = ua[p].invOut /\ u.waitTs = ua[p].waitTs
  BY <1>0 DEF Own, Dialog
<1>2. \/ Become(p, u)
      \/ u.status \in {"Refused", "ReRefused"} /\ Become(p, w)
  BY DEF ReceiveFailureAck
<1> HIDE DEF u
<1>3. DropLast(u.cts) \in [CSeq -> {"none", "Waiting", "Done"}]
  BY <1>1, DropLastTyped DEF Dialog
<1>4. /\ w \in Dialog /\ w.its = u.its /\ w.rcseq = u.rcseq /\ w.lcseq = u.lcseq
      /\ w.invIn = u.invIn /\ w.invOut = u.invOut /\ w.waitTs = u.waitTs
      /\ w.status = IF u.status = "Refused" THEN "Close" ELSE "Call"
  BY <1>1, <1>3 DEF Dialog, DialogStatus
<1> HIDE DEF w
<1>5. CASE Become(p, u)
  BY <1>0, <1>1, <1>5, ServerEndActs
<1>6. CASE u.status \in {"Refused", "ReRefused"} /\ Become(p, w)
  BY <1>0, <1>1, <1>4, <1>6, ServerEndActs
<1>7. QED
  BY <1>2, <1>5, <1>6

\* Timer H ends the transaction without a word to the dialog.
LEMMA RefusalTimeoutActs ==
  ASSUME DInv, NEW p \in Party, NEW n \in CSeq, RefusalTimeout(p, n)
  PROVE  ActsSomehow(p)
<1> DEFINE u == [ua[p] EXCEPT !.its[n] = "Done"]
<1>0. Own(p) /\ ua[p].its[n] = "Completed" /\ Become(p, u) /\ UNCHANGED net
  BY OwnDialog DEF RefusalTimeout
<1>1. /\ u \in Dialog /\ u.its = [ua[p].its EXCEPT ![n] = "Done"] /\ u.status = ua[p].status
      /\ u.rcseq = ua[p].rcseq /\ u.lcseq = ua[p].lcseq /\ u.invIn = ua[p].invIn
      /\ u.invOut = ua[p].invOut /\ u.waitTs = ua[p].waitTs
  BY <1>0 DEF Own, Dialog
<1> HIDE DEF u
<1>2. QED
  BY <1>0, <1>1, ServerEndActs

\* The ACK of a 2xx establishes the dialog that accepted.
LEMMA ReceiveAckActs ==
  ASSUME DInv, NEW p \in Party, NEW n \in CSeq, NEW cbs, ReceiveAck(p, n, cbs)
  PROVE  ActsSomehow(p)
<1> DEFINE u == [ua[p] EXCEPT !.status = "Call", !.ats = DropLast(@), !.cts = DropLast(@)]
<1>0. /\ Own(p) /\ ua[p].status \in {"Accepted", "ReAccepted"}
      /\ Arrives("ack2xx", Peer(p), n) /\ Become(p, u) /\ UNCHANGED net
  BY OwnDialog DEF ReceiveAck, Status
<1>1. /\ DropLast(ua[p].ats) \in [CSeq -> {"none", "Proceeding", "Done"}]
      /\ DropLast(ua[p].cts) \in [CSeq -> {"none", "Waiting", "Done"}]
  BY <1>0, DropLastTyped DEF Own, Dialog
<1>2. /\ u \in Dialog /\ u.its = ua[p].its /\ u.status = "Call"
      /\ u.rcseq = ua[p].rcseq /\ u.lcseq = ua[p].lcseq
  BY <1>0, <1>1 DEF Own, Dialog, DialogStatus
<1> HIDE DEF u
<1>3. Moves(p, ua[p], u)
  BY <1>0, <1>2 DEF Own, Moves, Fit, Early, Late, Asleep
<1>4. QED
  BY <1>0, <1>2, <1>3, ActingSilently

\* A BYE closes the dialog; the default server answers a BYE or INVITE with 501.
LEMMA ReceiveByeActs ==
  ASSUME DInv, NEW p \in Party, NEW n \in CSeq, NEW cbs,
         ReceiveBye(p, n, cbs) \/ NotImplemented(p, n)
  PROVE  ActsSomehow(p)
<1> DEFINE u == [ua[p] EXCEPT !.status = "Close"]
           M == {Msg("byeOk", Peer(p), n)}
           N(k) == {Msg(k, Peer(p), n)}
<1>0. Own(p) /\ M \in SUBSET Message
      /\ \A k \in {"byeFailure", "notImplemented"} : N(k) \in SUBSET Message
  BY OwnDialog, PeerSwaps DEF Message, Msg, Kind
<1>1. /\ u \in Dialog /\ u.status = "Close" /\ u.its = ua[p].its
      /\ u.rcseq = ua[p].rcseq /\ u.lcseq = ua[p].lcseq
  BY <1>0 DEF Own, Dialog, DialogStatus
<1>2. \/ Become(p, u) /\ Send(M)
      \/ \E k \in {"byeFailure", "notImplemented"} : Become(p, ua[p]) /\ Send(N(k))
  BY <1>0 DEF ReceiveBye, NotImplemented, Own, Become
<1> HIDE DEF u
<1>3. Moves(p, ua[p], u)
  BY <1>0, <1>1 DEF Own, Moves, Fit, Early, Late, Asleep
<1>4. Moves(p, ua[p], ua[p])
  BY <1>0, SameServer DEF Own
<1>5. Says(p, ua[p], u, M)
  BY <1>1, PeerSwaps DEF Says, Msg, Sender, OfClient, Request
<1>6. \A k \in {"byeFailure", "notImplemented"} : Says(p, ua[p], ua[p], N(k))
  BY PeerSwaps DEF Says, Msg, Sender, OfClient, Request
<1>7. CASE Become(p, u) /\ Send(M)
  BY <1>0, <1>1, <1>3, <1>5, <1>7, Acting
<1>8. CASE \E k \in {"byeFailure", "notImplemented"} : Become(p, ua[p]) /\ Send(N(k))
  <2>1. PICK k \in {"byeFailure", "notImplemented"} : Become(p, ua[p]) /\ Send(N(k))
    BY <1>8
  <2>2. N(k) \in SUBSET Message /\ Says(p, ua[p], ua[p], N(k)) /\ ua[p] \in Dialog
    BY <1>0, <1>6 DEF Own
  <2> HIDE DEF N
  <2>3. QED
    BY <1>4, <2>1, <2>2, Acting
<1>9. QED
  BY <1>2, <1>7, <1>8

\* A provisional answer moves the client transaction only.
LEMMA ReceiveProvisionalActs ==
  ASSUME DInv, NEW p \in Party, NEW n \in CSeq, ReceiveProvisional(p, n)
  PROVE  ActsSomehow(p)
<1> DEFINE u == [ua[p] EXCEPT !.itc[n] = "Proceeding"]
<1>0. Own(p) /\ Become(p, u) /\ UNCHANGED net
  BY OwnDialog DEF ReceiveProvisional
<1>1. /\ u \in Dialog /\ u.its = ua[p].its /\ u.status = ua[p].status
      /\ u.rcseq = ua[p].rcseq /\ u.lcseq = ua[p].lcseq /\ u.invIn = ua[p].invIn
      /\ u.invOut = ua[p].invOut /\ u.waitTs = ua[p].waitTs
  BY <1>0 DEF Own, Dialog
<1> HIDE DEF u
<1>2. Moves(p, ua[p], u)
  BY <1>0, <1>1, SameServer DEF Own
<1>3. QED
  BY <1>0, <1>1, <1>2, ActingSilently

\* The dialog u once an INVITE client transaction has ended.
LEMMA ClientDone ==
  ASSUME DInv, NEW p \in Party, NEW n \in CSeq
  PROVE  LET u == [ua[p] EXCEPT !.itc[n] = "Done"]
         IN  /\ Own(p) /\ u \in Dialog /\ u.its = ua[p].its /\ u.status = ua[p].status
             /\ u.rcseq = ua[p].rcseq /\ u.lcseq = ua[p].lcseq /\ u.invIn = ua[p].invIn
             /\ u.invOut = ua[p].invOut /\ u.waitTs = ua[p].waitTs
<1>1. Own(p)
  BY OwnDialog
<1>2. ua[p] \in Dialog
  BY <1>1 DEF Own
<1>3. QED
  BY <1>1, <1>2 DEF Dialog

\* The status of a dialog alone.
LEMMA StatusTyped ==
  ASSUME NEW u \in Dialog, NEW status \in DialogStatus
  PROVE  LET w == [u EXCEPT !.status = status]
         IN  /\ w \in Dialog /\ w.its = u.its /\ w.status = status
             /\ w.rcseq = u.rcseq /\ w.lcseq = u.lcseq /\ w.invIn = u.invIn
             /\ w.invOut = u.invOut /\ w.waitTs = u.waitTs
  BY DEF Dialog

\* A refusal closes an early dialog and leaves an established one in the call.
LEMMA ReceiveFailureActs ==
  ASSUME DInv, NEW p \in Party, NEW n \in CSeq, NEW cbs, ReceiveFailure(p, n, cbs)
  PROVE  ActsSomehow(p)
<1> DEFINE u == [ua[p] EXCEPT !.itc[n] = "Done"]
           W(status) == [u EXCEPT !.status = status]
           M == {Msg("ackFailure", p, n)}
<1>0. /\ Own(p) /\ u \in Dialog /\ u.its = ua[p].its /\ u.status = ua[p].status
      /\ u.rcseq = ua[p].rcseq /\ u.lcseq = ua[p].lcseq /\ u.invIn = ua[p].invIn
      /\ u.invOut = ua[p].invOut /\ u.waitTs = ua[p].waitTs
  BY ClientDone
<1>1. /\ Send(M)
      /\ \/ u.status = "Inviting" /\ Become(p, W("Close"))
         \/ u.status = "ReInviting" /\ Become(p, W("Call"))
         \/ Become(p, u)
  BY DEF ReceiveFailure
<1> HIDE DEF u
<1>2. PICK w \in Dialog : /\ Become(p, w)
                          /\ w.its = u.its /\ w.rcseq = u.rcseq /\ w.lcseq = u.lcseq
                          /\ w.invIn = u.invIn /\ w.invOut = u.invOut /\ w.waitTs = u.waitTs
                          /\ \/ w.status = u.status
                             \/ w.status = "Close" /\ u.status = "Inviting"
                             \/ w.status = "Call" /\ u.status = "ReInviting"
  <2>1. "Close" \in DialogStatus /\ "Call" \in DialogStatus
    BY DEF DialogStatus
  <2>2. \A s \in DialogStatus :
           /\ W(s) \in Dialog /\ W(s).its = u.its /\ W(s).status = s
           /\ W(s).rcseq = u.rcseq /\ W(s).lcseq = u.lcseq /\ W(s).invIn = u.invIn
           /\ W(s).invOut = u.invOut /\ W(s).waitTs = u.waitTs
    BY <1>0, StatusTyped
  <2> HIDE DEF W
  <2>3. QED
    BY <1>0, <1>1, <2>1, <2>2
<1>3. Moves(p, ua[p], w)
  BY <1>0, <1>2, SameServer DEF Own, Late
<1>4. M \in SUBSET Message
  BY DEF Message, Msg, Kind
<1>5. Says(p, ua[p], w, M)
  BY DEF Says, Msg, Sender, OfClient, Request
<1>6. QED
  BY <1>1, <1>2, <1>3, <1>4, <1>5, Acting

\* An INVITE without an answer closes the dialog.
LEMMA InviteTimeoutActs ==
  ASSUME DInv, NEW p \in Party, NEW n \in CSeq, NEW cbs, InviteTimeout(p, n, cbs)
  PROVE  ActsSomehow(p)
<1> DEFINE u == [ua[p] EXCEPT !.itc[n] = "Done"]
           w == [u EXCEPT !.status = "Close"]
<1>0. /\ Own(p) /\ u \in Dialog /\ u.its = ua[p].its /\ u.status = ua[p].status
      /\ u.rcseq = ua[p].rcseq /\ u.lcseq = ua[p].lcseq /\ u.invIn = ua[p].invIn
      /\ u.invOut = ua[p].invOut /\ u.waitTs = ua[p].waitTs
  BY ClientDone
<1>1. /\ UNCHANGED net
      /\ \/ u.status \in {"Inviting", "ReInviting"} /\ Become(p, w)
         \/ Become(p, u)
  BY DEF InviteTimeout
<1> HIDE DEF u
<1>2. /\ w \in Dialog /\ w.its = u.its /\ w.status = "Close"
      /\ w.rcseq = u.rcseq /\ w.lcseq = u.lcseq /\ w.invIn = u.invIn
      /\ w.invOut = u.invOut /\ w.waitTs = u.waitTs
  BY <1>0 DEF Dialog, DialogStatus
<1> HIDE DEF w
<1>3. CASE Become(p, u)
  <2>1. Moves(p, ua[p], u)
    BY <1>0, SameServer DEF Own
  <2>2. QED
    BY <1>0, <1>1, <1>3, <2>1, ActingSilently
<1>4. CASE u.status \in {"Inviting", "ReInviting"} /\ Become(p, w)
  <2>1. Moves(p, ua[p], w)
    BY <1>0, <1>2, <1>4, SameServer DEF Own
  <2>2. QED
    BY <1>0, <1>1, <1>2, <1>4, <2>1, ActingSilently
<1>5. QED
  BY <1>1, <1>3, <1>4

\* The end of a BYE client transaction, whatever it ended with.
LEMMA ByeEndsActs ==
  ASSUME DInv, NEW p \in Party, NEW n \in CSeq, NEW status \in {"Close", "Call"},
         NEW callback, NEW cbs, ByeEnds(p, n, status, callback, cbs)
  PROVE  ActsSomehow(p)
<1> DEFINE u == [ua[p] EXCEPT !.btc[n] = "Done"]
           w == [u EXCEPT !.status = status]
<1>0. /\ Own(p) /\ u \in Dialog /\ u.its = ua[p].its /\ u.status = ua[p].status
      /\ u.rcseq = ua[p].rcseq /\ u.lcseq = ua[p].lcseq /\ u.invIn = ua[p].invIn
      /\ u.invOut = ua[p].invOut /\ u.waitTs = ua[p].waitTs
  <2>1. Own(p)
    BY OwnDialog
  <2>2. ua[p] \in Dialog
    BY <2>1 DEF Own
  <2>3. QED
    BY <2>1, <2>2 DEF Dialog
<1>1. /\ UNCHANGED net
      /\ (u.status = "Byeing" /\ Become(p, w)) \/ Become(p, u)
  BY DEF ByeEnds
<1> HIDE DEF u
<1>2. /\ w \in Dialog /\ w.its = u.its /\ w.status = status
      /\ w.rcseq = u.rcseq /\ w.lcseq = u.lcseq /\ w.invIn = u.invIn
      /\ w.invOut = u.invOut /\ w.waitTs = u.waitTs
  <2>1. status \in DialogStatus
    BY DEF DialogStatus
  <2>2. QED
    BY <1>0, <2>1, StatusTyped
<1> HIDE DEF w
<1>3. CASE Become(p, u)
  <2>1. Moves(p, ua[p], u)
    BY <1>0, SameServer DEF Own
  <2>2. QED
    BY <1>0, <1>1, <1>3, <2>1, ActingSilently
<1>4. CASE u.status = "Byeing" /\ Become(p, w)
  <2>1. Moves(p, ua[p], w)
    BY <1>0, <1>2, <1>4, SameServer DEF Own, Late
  <2>2. QED
    BY <1>0, <1>1, <1>2, <1>4, <2>1, ActingSilently
<1>5. QED
  BY <1>1, <1>3, <1>4

\* The answer to the INVITE in D_INVITING or D_ReINVITING is acknowledged, and
\* the user may say bye() at once; in any other state it is dropped.
LEMMA ReceiveSuccessActs ==
  ASSUME DInv, NEW p \in Party, NEW n \in CSeq, NEW cbs, NEW byes \in BOOLEAN,
         ReceiveSuccess(p, n, cbs, byes)
  PROVE  ActsSomehow(p)
<1> DEFINE answered == ua[p].status \in {"Inviting", "ReInviting"}
           u == [ua[p] EXCEPT !.itc[n] = "Done",
                   !.status = IF @ \in {"Inviting", "ReInviting"} THEN "Call" ELSE @]
           byeMsg == IF byes THEN {Msg("BYE", p, u.lcseq + 1)} ELSE {}
           M == IF answered THEN {Msg("ack2xx", p, n)} \cup byeMsg ELSE {}
<1>0. Own(p) /\ ua[p] \in Dialog
  BY OwnDialog DEF Own
<1>1. /\ u \in Dialog /\ u.its = ua[p].its /\ u.rcseq = ua[p].rcseq
      /\ u.lcseq = ua[p].lcseq /\ u.invIn = ua[p].invIn /\ u.invOut = ua[p].invOut /\ u.waitTs = ua[p].waitTs
      /\ u.status = IF answered THEN "Call" ELSE ua[p].status
  <2>1. (IF answered THEN "Call" ELSE ua[p].status) \in DialogStatus
    BY <1>0 DEF Dialog, DialogStatus
  <2>2. QED
    BY <1>0, <2>1 DEF Dialog
<1>2. /\ byes => answered /\ u.lcseq < MaxCSeq
      /\ Become(p, IF byes THEN Byeing(u) ELSE u)
      /\ Send(M) /\ Arrives("2xx", p, n)
  BY DEF ReceiveSuccess, Status
<1> HIDE DEF u
<1>3. CASE byes
  <2> DEFINE w == Byeing(u)
  <2>1. /\ w \in Dialog /\ u.lcseq + 1 \in CSeq /\ w.status = "Byeing" /\ w.its = u.its
        /\ w.rcseq = u.rcseq /\ w.invIn = u.invIn
    BY <1>1, <1>2, <1>3, ByeingTyped
  <2>2. /\ Become(p, w) /\ answered
        /\ M = {Msg("ack2xx", p, n), Msg("BYE", p, u.lcseq + 1)}
    BY <1>2, <1>3
  <2> HIDE DEF w, M
  <2>3. M \in SUBSET Message
    BY <2>1, <2>2 DEF Message, Msg, Kind
  <2>4. Moves(p, ua[p], w)
    BY <1>0, <1>1, <1>2, <2>1, <2>2 DEF Own, Moves, Fit, Early, Late, Asleep
  <2>5. Says(p, ua[p], w, M)
    BY <2>1, <2>2 DEF Says, Msg, Sender, OfClient, Early
  <2>6. QED
    BY <1>2, <2>1, <2>2, <2>3, <2>4, <2>5, Acting
<1>4. CASE ~byes
  <2>1. Become(p, u) /\ M = IF answered THEN {Msg("ack2xx", p, n)} ELSE {}
    BY <1>2, <1>4
  <2> HIDE DEF M
  <2>2. M \in SUBSET Message
    BY <2>1 DEF Message, Msg, Kind
  <2>3. Moves(p, ua[p], u)
    BY <1>0, <1>1, <1>2 DEF Own, Moves, Fit, Early, Late, Asleep
  <2>4. Says(p, ua[p], u, M)
    BY <1>1, <2>1 DEF Says, Msg, Sender, OfClient, Early, Request
  <2>5. QED
    BY <1>1, <1>2, <2>1, <2>2, <2>3, <2>4, Acting
<1>5. QED
  BY <1>3, <1>4

-----------------------------------------------------------------------------
\* Timers alone, and then all that reaches a dialog.
LEMMA TimeoutActs ==
  ASSUME DInv, NEW p \in Party, NEW cbs, Timeout(p, cbs)
  PROVE  ActsSomehow(p)
<1>1. PICK n \in CSeq : \/ InviteTimeout(p, n, cbs)
                        \/ RefusalTimeout(p, n)
                        \/ ByeEnds(p, n, "Close", "onDlgClosed", cbs)
  BY DEF Timeout, ByeTimeout
<1>2. QED
  BY <1>1, InviteTimeoutActs, RefusalTimeoutActs, ByeEndsActs

\* All the handlers together: every event of the dialog layer acts.
LEMMA DialogEventActs ==
  ASSUME DInv, NEW p \in Party, NEW cbs, NEW byes \in BOOLEAN, DialogEvent(p, cbs, byes)
  PROVE  ActsSomehow(p)
<1>1. CASE \E n \in CSeq : ReceiveSuccess(p, n, cbs, byes)
  BY <1>1, ReceiveSuccessActs
<1>2. CASE Timeout(p, cbs)
  BY <1>2, TimeoutActs
<1>3. ASSUME NEW n \in CSeq,
             \/ ReceiveFirstInvite(p, n, cbs) \/ ReceiveReInvite(p, n, cbs)
             \/ ReceiveCancel(p, n, cbs) \/ ReceiveFailureAck(p, n, cbs)
             \/ ReceiveAck(p, n, cbs) \/ ReceiveBye(p, n, cbs) \/ NotImplemented(p, n)
      PROVE  ActsSomehow(p)
  BY <1>3, ReceiveFirstInviteActs, ReceiveReInviteActs, ReceiveCancelActs,
     ReceiveFailureAckActs, ReceiveAckActs, ReceiveByeActs
<1>4. ASSUME NEW n \in CSeq,
             \/ ReceiveProvisional(p, n) \/ ReceiveFailure(p, n, cbs)
             \/ ReceiveByeOk(p, n, cbs) \/ ReceiveByeFailure(p, n, cbs)
      PROVE  ActsSomehow(p)
  BY <1>4, ReceiveProvisionalActs, ReceiveFailureActs, ByeEndsActs
     DEF ReceiveByeOk, ReceiveByeFailure
<1>5. QED
  BY <1>1, <1>2, <1>3, <1>4 DEF DialogEvent

\* At first nothing is wrong.
LEMMA InitDInv == DialogInit => DInv
<1> SUFFICES ASSUME DialogInit PROVE DInv
  OBVIOUS
<1>1. NoDialog \in Dialog /\ Fit(NoDialog) /\ NoDialog.status = "Init" /\ NoDialog.lcseq = 0
  BY MaxCSeqAssumption DEF NoDialog, Dialog, DialogStatus, Fit
<1>2. /\ ua \in [Party -> Dialog] /\ net = {}
      /\ \A p \in Party : ua[p] = NoDialog
  BY <1>1 DEF DialogInit
<1>3. DialogTypeOK
  BY <1>2 DEF DialogTypeOK
<1>4. \A p \in Party : Fit(ua[p]) /\ AnswersKnown(p, ua[p], net)
  BY <1>1, <1>2 DEF AnswersKnown
<1>5. NoDialog.rcseq = 0
  BY DEF NoDialog
<1>6. CallerFirst
  BY <1>1, <1>2, <1>5 DEF CallerFirst, Status, Asleep, Late, Early, Party
<1>7. QED
  BY <1>3, <1>4, <1>6 DEF DInv

\* A step that changes nothing keeps the invariant.
LEMMA StutterKeepsInv == DInv /\ UNCHANGED dialogVars => DInv'
  BY DEF DInv, dialogVars, DialogTypeOK, AnswersKnown, Fit, CallerFirst, Status

-----------------------------------------------------------------------------
\* Every step is one of a party that acts within Moves and Says.
LEMMA StepActs == DInv /\ Next => \E p \in Party : ActsSomehow(p)
<1> SUFFICES ASSUME DInv, NEW p \in Party, UserStep(p) \/ DialogStep(p)
             PROVE  ActsSomehow(p)
  BY DEF Next
<1>1. CASE DialogStep(p)
  BY <1>1, DialogEventActs DEF DialogStep
<1>2. CASE UserStep(p)
  <2>1. CASE (p = Callee /\ Listen(p)) \/ (p = Caller /\ Invite(p)) \/ ReInvite(p)
    BY <2>1, ListenActs, InviteActs
  <2>2. CASE \/ Accept(p) \/ Refuse(p) \/ Bye(p) \/ Cancel(p)
             \/ \E n \in CSeq : CancelMeetsAccept(p, n, Callback)
    BY <2>2, AcceptActs, RefuseActs, ByeActs, CancelActs, CrossingActs
  <2>3. CASE Terminate(p, Callback)
    BY <2>3, TerminateActs
  <2>4. QED
    BY <1>2, <2>1, <2>2, <2>3 DEF UserStep
<1>3. QED
  BY <1>1, <1>2

\* DInv is inductive.
LEMMA StepInv == DInv /\ [Next]_dialogVars => DInv'
<1>1. DInv /\ Next => DInv'
  BY StepActs, ActsKeepInv
<1>2. QED
  BY <1>1, StutterKeepsInv

\* DInv holds in every reachable state.
LEMMA Invariance == Spec => []DInv
<1>1. Init => DInv
  BY InitDInv DEF Init
<1>2. QED
  BY <1>1, StepInv, PTL DEF Spec

\* The dialogs, their transactions and the messages keep their types.
THEOREM TypeCorrect == Spec => []TypeOK
<1>1. DInv => TypeOK
  BY DEF DInv, TypeOK
<1>2. QED
  BY <1>1, Invariance, PTL

\* accept(), refuse() and an unsupported extension race for the answer of an
\* INVITE, and one of them gives it; two go out only where the peer has sent a
\* CANCEL, handled while accept() runs.
THEOREM OneFinalAnswerAlways == Spec => []OneFinalAnswer
<1>1. DInv => OneFinalAnswer
  <2> SUFFICES ASSUME DInv, NEW p \in Party, NEW n \in CSeq
               PROVE  Arrives("2xx", p, n) /\ Arrives("failure", p, n)
                        => \E k \in CSeq : Arrives("CANCEL", p, k)
    BY DEF OneFinalAnswer
  <2>1. AnswersKnown(Peer(p), ua[Peer(p)], net)
    BY PeerSwaps DEF DInv
  <2>2. QED
    BY <2>1, PeerSwaps DEF AnswersKnown, Arrives, Cancelled
<1>2. QED
  BY <1>1, Invariance, PTL

\* The callee's dialog is established only over an answer that its caller took.
THEOREM CallIsMutualAlways == Spec => []CallIsMutual
<1>1. DInv => CallIsMutual
  BY DEF DInv, CallerFirst, CallIsMutual, Status, Early, Late
<1>2. QED
  BY <1>1, Invariance, PTL

\* The 200 of a BYE is sent by a dialog that closes, and stays closed.
THEOREM ByeAgreementAlways == Spec => []ByeAgreement
<1>1. DInv => ByeAgreement
  <2> SUFFICES ASSUME DInv, NEW p \in Party, NEW n \in CSeq, Arrives("byeOk", p, n)
               PROVE  Status(Peer(p)) = "Close"
    BY DEF ByeAgreement
  <2>1. AnswersKnown(Peer(p), ua[Peer(p)], net)
    BY PeerSwaps DEF DInv
  <2>2. QED
    BY <2>1, PeerSwaps DEF AnswersKnown, Arrives, Status
<1>2. QED
  BY <1>1, Invariance, PTL

\* Whatever reaches a closed dialog, it stays closed and asks for nothing.
THEOREM CloseIsFinalAlways == Spec => CloseIsFinal
<1>1. ASSUME DInv, Next, NEW q \in Party, Status(q) = "Close"
      PROVE  Status(q)' = "Close" /\ Asked(q)' = Asked(q)
  <2>1. PICK p \in Party, u \in Dialog, M \in SUBSET Message : Acts(p, u, M)
    BY <1>1, StepActs DEF ActsSomehow
  <2>2. /\ ua' = [ua EXCEPT ![p] = u] /\ net' = net \cup M
        /\ Moves(p, ua[p], u) /\ Says(p, ua[p], u, M)
        /\ ua \in [Party -> Dialog]
    BY <1>1, <2>1 DEF Acts, Become, Send, DInv, DialogTypeOK
  <2>3. Status(q)' = "Close"
    BY <1>1, <2>2 DEF Moves, Status
  <2>4. \A m \in M : ~(m.from = q /\ m.kind \in {"INVITE", "BYE", "CANCEL"})
    BY <1>1, <2>2 DEF Says, Sender, OfClient, Request, Status
  <2>5. Asked(q)' = Asked(q)
    BY <2>2, <2>4 DEF Asked
  <2>6. QED
    BY <2>3, <2>5
<1>2. DInv /\ [Next]_dialogVars => [StaysClosed]_dialogVars
  <2>1. DInv /\ Next => StaysClosed
    BY <1>1 DEF StaysClosed
  <2>2. QED
    BY <2>1
<1>3. QED
  BY <1>2, Invariance, PTL DEF Spec, CloseIsFinal
-----------------------------------------------------------------------------
(* The calls over the dialogs. *)

\* The dialog has been invited, or will never be.
Awake(p) == Status(p) # "Init" /\ ~(Status(p) = "Waiting" /\ ua[p].waitTs)

NoSuccess == \A m \in net' : m.kind = "2xx" => m \in net
Succeeded == \E n \in CSeq : Arrives("2xx", Caller, n)

\* The state of a call as far as its dialog decides it.
CallFollows ==
  /\ call \in [Party -> CallState]
  /\ \A p \in Party : call[p] \in {"Incoming", "Active", "Closed"} => Awake(p)
  /\ call[Caller] # "Incoming"
  /\ call[Caller] \in {"Idle", "Outgoing"} => Status(Caller) \in Early
  /\ Status(Caller) \notin Early \cup {"Close"} \/ call[Caller] = "Active" => Succeeded
  /\ Succeeded => call[Callee] \in {"Active", "Closed"}

CInv == DInv /\ CallFollows

\* What a callback says of the dialog that makes it.
Told(p, cb, byes) ==
  /\ cb \notin {"none", "onDlgInvite"} => Status(p) \notin {"Init", "Waiting"}
  /\ cb = "onDlgInvite" => p = Callee /\ ~Awake(p) /\ Status(p)' = "Invited"
  /\ cb = "onDlgReInviteFailureResponse" => Status(p) = "ReInviting"
  /\ cb = "onDlgInviteSuccessResponse" => \E n \in CSeq : Arrives("2xx", p, n)
  /\ cb \in Ending => Status(p)' # "Call"
  /\ p = Caller /\ Status(p) \in Early =>
       \/ Status(p)' \in Early
       \/ Status(p)' = "Close" /\ cb \in Ending
       \/ cb = "onDlgInviteSuccessResponse"
  /\ byes => Status(p)' = "Byeing"
  /\ NoSuccess

-----------------------------------------------------------------------------
\* A dialog given as a record by Become and the messages by Send.
LEMMA BecomeStatus ==
  ASSUME DInv, NEW p \in Party, NEW u, Become(p, u)
  PROVE  Status(p)' = u.status /\ ua'[p] = u
  BY DEF DInv, DialogTypeOK, Become, Status

\* A step that sends no 2xx adds none to the network.
LEMMA SayNoSuccess ==
  ASSUME NEW M, Send(M), \A m \in M : m.kind # "2xx"
  PROVE  NoSuccess
  BY DEF Send, NoSuccess

\* A refusal holds no 2xx.
LEMMA RefusalIsNone ==
  ASSUME NEW p \in Party, NEW u
  PROVE  \A m \in Refusal(p, u) : m.kind # "2xx"
  BY DEF Refusal, Msg

\* Every step of p acts on its dialog within Moves and Says, or not at all.
LEMMA ActsMeans ==
  ASSUME DInv, NEW p \in Party, ActsSomehow(p) \/ UNCHANGED dialogVars
  PROVE  /\ DInv' /\ net \subseteq net'
         /\ ua'[Peer(p)] = ua[Peer(p)]
         /\ Awake(p) => Awake(p)'
         /\ Status(p) = "Close" => Status(p)' = "Close"
         /\ p = Caller /\ Status(p) \in Early /\ Status(p)' \notin Early \cup {"Close"} => Succeeded
<1>1. CASE ActsSomehow(p)
  <2>1. PICK u \in Dialog, M \in SUBSET Message : Acts(p, u, M)
    BY <1>1 DEF ActsSomehow
  <2>2. Become(p, u) /\ Send(M) /\ Moves(p, ua[p], u)
    BY <2>1 DEF Acts
  <2>3. ua'[Peer(p)] = ua[Peer(p)] /\ net \subseteq net'
    BY <2>2, PeerSwaps DEF Become, Send, DInv, DialogTypeOK
  <2>4. Status(p)' = u.status /\ ua'[p] = u
    BY <2>2, BecomeStatus
  <2>5. Awake(p) => Awake(p)'
    BY <2>2, <2>4 DEF Moves, Awake, Status, Early
  <2>6. Status(p) = "Close" => Status(p)' = "Close"
    BY <2>2, <2>4 DEF Moves, Status
  <2>7. ASSUME p = Caller, Status(p) \in Early, Status(p)' \notin Early \cup {"Close"}
        PROVE  Succeeded
    <3>1. \E n \in CSeq : Arrives("2xx", p, n) \/ Arrives("INVITE", Peer(p), n)
      BY <2>2, <2>4, <2>7, PartyAssumption DEF Moves, Status
    <3>2. Peer(p) = Callee /\ \A n \in CSeq : ~Arrives("INVITE", Callee, n)
      BY <2>7 DEF Peer, DInv, CallerFirst, Arrives, Msg
    <3>3. QED
      BY <2>7, <3>1, <3>2 DEF Succeeded
  <2>8. DInv'
    BY <1>1, ActsKeepInv
  <2>9. QED
    BY <2>3, <2>5, <2>6, <2>7, <2>8
<1>2. CASE UNCHANGED dialogVars
  <2>1. DInv'
    BY <1>2, StutterKeepsInv
  <2>2. ua' = ua /\ net' = net
    BY <1>2 DEF dialogVars
  <2>3. QED
    BY <2>1, <2>2 DEF Awake, Status
<1>3. QED
  BY <1>1, <1>2

\* The callee that has answered will not be asked again as if it were new.
LEMMA SucceededAwake ==
  ASSUME DInv, Succeeded
  PROVE  Status(Callee) \notin {"Init", "Waiting"}
<1>1. PICK n \in CSeq : Msg("2xx", Caller, n) \in net
  BY DEF Succeeded, Arrives
<1>2. Callee \in Party /\ Peer(Callee) = Caller
  BY PartyAssumption DEF Party, Peer
<1>3. AnswersKnown(Callee, ua[Callee], net) /\ Fit(ua[Callee])
  BY <1>2 DEF DInv
<1>4. ua[Callee].its[n] = "Done"
  BY <1>1, <1>2, <1>3 DEF AnswersKnown
<1>5. n <= ua[Callee].rcseq
  BY <1>3, <1>4 DEF Fit
<1>6. ua[Callee].rcseq # 0
  BY <1>5 DEF CSeq
<1>7. QED
  BY <1>3, <1>6 DEF Fit, Status

-----------------------------------------------------------------------------
(* What each event tells *)

\* The callee's call layer is told of an INVITE as of what its dialog made of it.
LEMMA InviteTold ==
  ASSUME DInv, NEW p \in Party, NEW n \in CSeq, NEW cb,
         ReceiveFirstInvite(p, n, {cb}) \/ ReceiveReInvite(p, n, {cb})
  PROVE  Told(p, cb, FALSE)
<1>1. ASSUME NEW u, NEW canCancel, NEW notify, TakeInvite(p, u, n, canCancel, notify, {cb}),
             u.status \in {"Invited", "ReInvited"}
      PROVE  /\ NoSuccess /\ Status(p)' \in {"Invited", "ReInvited", "Refused", "ReRefused"}
             /\ cb = "none" \/ (cb = notify /\ Status(p)' = u.status)
  <2>1. CASE cb = notify /\ Become(p, IF canCancel THEN [u EXCEPT !.cts[n] = "Waiting"] ELSE u)
                        /\ Send({Msg("1xx", Peer(p), n)})
    <3>1. NoSuccess
      BY <2>1, SayNoSuccess DEF Msg
    <3>2. [u EXCEPT !.cts[n] = "Waiting"].status = u.status
      OBVIOUS
    <3>3. Status(p)' = u.status
      BY <2>1, <3>2, BecomeStatus
    <3>4. QED
      BY <1>1, <2>1, <3>1, <3>3
  <2>2. CASE cb = "none" /\ Become(p, Refused(u))
                         /\ Send({Msg("1xx", Peer(p), n)} \cup Refusal(p, u))
    <3>1. NoSuccess
      <4>1. \A m \in {Msg("1xx", Peer(p), n)} \cup Refusal(p, u) : m.kind # "2xx"
        BY RefusalIsNone DEF Msg
      <4>2. QED
        BY <2>2, <4>1, SayNoSuccess
    <3>2. Status(p)' = Refused(u).status
      BY <2>2, BecomeStatus
    <3>3. Refused(u).status \in {"Refused", "ReRefused"}
      BY <1>1 DEF Refused
    <3>4. QED
      BY <2>2, <3>1, <3>2, <3>3
  <2>3. QED
    BY <1>1, <2>1, <2>2 DEF TakeInvite
<1>2. CASE ReceiveFirstInvite(p, n, {cb})
  <2> DEFINE u == InvitedBy(ua[p], "Invited", n)
  <2>1. /\ p = Callee /\ ~Awake(p)
        /\ \E w \in {u, [u EXCEPT !.waitTs = FALSE]}, canCancel \in BOOLEAN :
              TakeInvite(p, w, n, canCancel, "onDlgInvite", {cb})
    BY <1>2 DEF ReceiveFirstInvite, Awake
  <2>2. \A w \in {u, [u EXCEPT !.waitTs = FALSE]} : w.status = "Invited"
    BY OwnDialog DEF InvitedBy, Own, Dialog
  <2>3. /\ NoSuccess /\ Status(p)' \in {"Invited", "ReInvited", "Refused", "ReRefused"}
        /\ cb = "none" \/ (cb = "onDlgInvite" /\ Status(p)' = "Invited")
    BY <1>1, <2>1, <2>2
  <2>4. QED
    BY <2>1, <2>3, PartyAssumption DEF Told, Ending
<1>3. CASE ReceiveReInvite(p, n, {cb})
  <2> DEFINE u == InvitedBy(ua[p], "ReInvited", n)
  <2>1. /\ Status(p) \notin {"Init", "Waiting"} /\ Arrives("INVITE", Peer(p), n)
        /\ TakeInvite(p, u, n, TRUE, "onDlgReInvite", {cb})
    BY <1>3 DEF ReceiveReInvite, Registered
  <2>2. u.status = "ReInvited"
    BY OwnDialog DEF InvitedBy, Own, Dialog
  <2>3. /\ NoSuccess /\ Status(p)' \in {"Invited", "ReInvited", "Refused", "ReRefused"}
        /\ cb = "none" \/ cb = "onDlgReInvite"
    BY <1>1, <2>1, <2>2
  <2>4. ~(p = Caller /\ Status(p) \in Early)
    BY <2>1 DEF Peer, DInv, CallerFirst, Arrives, Msg
  <2>5. QED
    BY <2>1, <2>3, <2>4 DEF Told, Ending
<1>4. QED
  BY <1>2, <1>3

\* The handlers of the callee's side tell the call what has become of its dialog.
LEMMA ServerTold ==
  ASSUME DInv, NEW p \in Party, NEW n \in CSeq, NEW cb,
         \/ ReceiveCancel(p, n, {cb}) \/ ReceiveFailureAck(p, n, {cb})
         \/ ReceiveAck(p, n, {cb}) \/ ReceiveBye(p, n, {cb})
  PROVE  Told(p, cb, FALSE)
<1>0. Own(p) /\ ua[p] \in Dialog
  BY OwnDialog DEF Own
<1>1. CASE ReceiveCancel(p, n, {cb})
  <2> DEFINE u == [ua[p] EXCEPT !.cts[n] = "Done"]
  <2>1. /\ Become(p, Refused(u)) /\ Send(Refusal(p, u)) /\ u.status = Status(p)
        /\ cb = IF Status(p) \in {"Invited", "ReInvited"} THEN "onDlgCancel" ELSE "none"
    BY <1>0, <1>1 DEF ReceiveCancel, Dialog, Status
  <2> HIDE DEF u
  <2>2. NoSuccess
    BY <2>1, RefusalIsNone, SayNoSuccess
  <2>3. Status(p)' = Refused(u).status
    BY <2>1, BecomeStatus
  <2>4. \/ Status(p) \in {"Invited", "ReInvited"} /\ Refused(u).status \in {"Refused", "ReRefused"}
        \/ Status(p) \notin {"Invited", "ReInvited"} /\ Refused(u).status = Status(p)
    BY <2>1 DEF Refused
  <2>5. QED
    BY <2>1, <2>2, <2>3, <2>4 DEF Told, Ending, Early
<1>2. CASE ReceiveFailureAck(p, n, {cb})
  <2> DEFINE u == [ua[p] EXCEPT !.its[n] = "Done"]
             w == [u EXCEPT !.cts = DropLast(@),
                            !.status = IF @ = "Refused" THEN "Close" ELSE "Call"]
  <2>1. /\ u.status = Status(p) /\ w.status = IF u.status = "Refused" THEN "Close" ELSE "Call"
    BY <1>0 DEF Status, Dialog
  <2>2. /\ NoSuccess /\ cb \in {"none", "onDlgClosed"}
        /\ \/ Become(p, u) /\ cb = "none"
           \/ u.status \in {"Refused", "ReRefused"} /\ Become(p, w)
    BY <1>2 DEF ReceiveFailureAck, NoSuccess
  <2> HIDE DEF u, w
  <2>3. \/ Status(p)' = Status(p) /\ cb = "none"
        \/ Status(p) \in {"Refused", "ReRefused"} /\ Status(p)' \in {"Close", "Call"}
    BY <2>1, <2>2, BecomeStatus
  <2>4. QED
    BY <2>2, <2>3 DEF Told, Ending, Early
<1>3. CASE ReceiveAck(p, n, {cb})
  BY <1>3 DEF ReceiveAck, Told, Ending, Early, NoSuccess
<1>4. CASE ReceiveBye(p, n, {cb})
  <2>1. /\ Become(p, [ua[p] EXCEPT !.status = "Close"]) /\ Status(p) \in {"Call", "Byeing"}
        /\ Send({Msg("byeOk", Peer(p), n)}) /\ cb = "onDlgBye"
    BY <1>4 DEF ReceiveBye
  <2>2. NoSuccess
    BY <2>1, SayNoSuccess DEF Msg
  <2>3. [ua[p] EXCEPT !.status = "Close"].status = "Close"
    BY <1>0 DEF Dialog
  <2>4. Status(p)' = "Close"
    BY <2>1, <2>3, BecomeStatus
  <2>5. QED
    BY <2>1, <2>2, <2>4 DEF Told, Ending, Early
<1>5. QED
  BY <1>1, <1>2, <1>3, <1>4

\* The handlers that call nobody change nothing a call goes by.
LEMMA UntoldTold ==
  ASSUME DInv, NEW p \in Party, NEW n \in CSeq, NEW cb, cb = "none",
         \/ NotImplemented(p, n) \/ ReceiveProvisional(p, n) \/ RefusalTimeout(p, n)
  PROVE  Told(p, cb, FALSE)
<1>0. Own(p) /\ ua[p] \in Dialog /\ ua \in [Party -> Dialog]
  BY OwnDialog DEF Own
<1>1. Status(p)' = Status(p)
  BY <1>0 DEF NotImplemented, ReceiveProvisional, RefusalTimeout, Become, Status, Dialog
<1>2. NoSuccess
  BY DEF NotImplemented, ReceiveProvisional, RefusalTimeout, NoSuccess, Send, Msg
<1>3. QED
  BY <1>1, <1>2 DEF Told, Ending

\* The end of an INVITE client transaction by a refusal or by timer B.
LEMMA FailureTold ==
  ASSUME DInv, NEW p \in Party, NEW n \in CSeq, NEW cb,
         ReceiveFailure(p, n, {cb}) \/ InviteTimeout(p, n, {cb})
  PROVE  Told(p, cb, FALSE)
<1> DEFINE u == [ua[p] EXCEPT !.itc[n] = "Done"]
           W(status) == [u EXCEPT !.status = status]
<1>0. Own(p) /\ ua[p] \in Dialog
  BY OwnDialog DEF Own
<1>1. u.status = Status(p) /\ \A s : W(s).status = s
  BY <1>0 DEF Status, Dialog
<1>2. NoSuccess
  BY DEF ReceiveFailure, InviteTimeout, NoSuccess, Send, Msg
<1>3. \/ u.status = "Inviting" /\ Become(p, W("Close"))
         /\ cb \in {"onDlgInviteFailureResponse", "onDlgInviteTimeout"}
      \/ u.status = "ReInviting" /\ Become(p, W("Close")) /\ cb = "onDlgInviteTimeout"
      \/ u.status = "ReInviting" /\ Become(p, W("Call")) /\ cb = "onDlgReInviteFailureResponse"
      \/ u.status \notin {"Inviting", "ReInviting"} /\ Become(p, u) /\ cb = "none"
  BY DEF ReceiveFailure, InviteTimeout
<1> HIDE DEF u, W
<1>4. \/ /\ Status(p) = "Inviting" /\ Status(p)' = "Close"
         /\ cb \in {"onDlgInviteFailureResponse", "onDlgInviteTimeout"}
      \/ Status(p) = "ReInviting" /\ Status(p)' = "Close" /\ cb = "onDlgInviteTimeout"
      \/ Status(p) = "ReInviting" /\ Status(p)' = "Call" /\ cb = "onDlgReInviteFailureResponse"
      \/ Status(p) \notin {"Inviting", "ReInviting"} /\ Status(p)' = Status(p) /\ cb = "none"
  BY <1>1, <1>3, BecomeStatus
<1>5. QED
  BY <1>2, <1>4 DEF Told, Ending, Early

\* The end of a BYE transaction closes the dialog, or leaves it established.
LEMMA ByeEndsTold ==
  ASSUME DInv, NEW p \in Party, NEW n \in CSeq, NEW cb, NEW status \in {"Close", "Call"},
         NEW callback \in {"onDlgByeSuccessResponse", "onDlgByeFailureResponse", "onDlgClosed"},
         ByeEnds(p, n, status, callback, {cb})
  PROVE  Told(p, cb, FALSE)
<1> DEFINE u == [ua[p] EXCEPT !.btc[n] = "Done"]
           w == [u EXCEPT !.status = status]
<1>0. Own(p) /\ ua[p] \in Dialog
  BY OwnDialog DEF Own
<1>1. u.status = Status(p) /\ w.status = status
  BY <1>0 DEF Status, Dialog
<1>2. NoSuccess
  BY DEF ByeEnds, NoSuccess
<1>3. \/ u.status = "Byeing" /\ Become(p, w) /\ cb = callback
      \/ Become(p, u) /\ cb = "none"
  BY DEF ByeEnds
<1> HIDE DEF u, w
<1>4. \/ Status(p) = "Byeing" /\ Status(p)' = status /\ cb = callback
      \/ Status(p)' = Status(p) /\ cb = "none"
  BY <1>1, <1>3, BecomeStatus
<1>5. QED
  BY <1>2, <1>4 DEF Told, Ending, Early

\* A 2xx, whether the call hangs up at once (byes) or not.
LEMMA SuccessTold ==
  ASSUME DInv, NEW p \in Party, NEW n \in CSeq, NEW cb, NEW byes \in BOOLEAN,
         ReceiveSuccess(p, n, {cb}, byes)
  PROVE  Told(p, cb, byes)
<1> DEFINE u == [ua[p] EXCEPT !.itc[n] = "Done",
                   !.status = IF @ \in {"Inviting", "ReInviting"} THEN "Call" ELSE @]
<1>0. Own(p) /\ ua[p] \in Dialog
  BY OwnDialog DEF Own
<1>1. u.status = IF Status(p) \in {"Inviting", "ReInviting"} THEN "Call" ELSE Status(p)
  BY <1>0 DEF Status, Dialog
<1>2. NoSuccess
  BY DEF ReceiveSuccess, NoSuccess, Send, Msg
<1>3. /\ Arrives("2xx", p, n)
      /\ byes => Status(p) \in {"Inviting", "ReInviting"} /\ Become(p, Byeing(u))
      /\ ~byes => Become(p, u)
      /\ \/ Status(p) = "Inviting" /\ cb = "onDlgInviteSuccessResponse"
         \/ Status(p) = "ReInviting" /\ cb = "onDlgReInviteSuccessResponse"
         \/ Status(p) \notin {"Inviting", "ReInviting"} /\ cb = "none"
  BY DEF ReceiveSuccess
<1>4. Byeing(u).status = "Byeing"
  BY <1>0 DEF Byeing, Dialog
<1> HIDE DEF u
<1>5. Status(p)' = IF byes THEN "Byeing" ELSE u.status
  BY <1>3, <1>4, BecomeStatus
<1>6. QED
  BY <1>1, <1>2, <1>3, <1>5 DEF Told, Ending, Early

\* A callback tells the truth about its dialog.
LEMMA EventTold ==
  ASSUME DInv, NEW p \in Party, NEW cb, NEW byes \in BOOLEAN, DialogEvent(p, {cb}, byes)
  PROVE  Told(p, cb, byes)
<1>1. CASE \E n \in CSeq : ReceiveSuccess(p, n, {cb}, byes)
  BY <1>1, SuccessTold
<1>2. ASSUME NEW n \in CSeq, ~byes,
             \/ ReceiveFirstInvite(p, n, {cb}) \/ ReceiveReInvite(p, n, {cb})
             \/ ReceiveCancel(p, n, {cb}) \/ ReceiveFailureAck(p, n, {cb})
             \/ ReceiveAck(p, n, {cb}) \/ ReceiveBye(p, n, {cb})
      PROVE  Told(p, cb, byes)
  <2>1. byes = FALSE
    BY <1>2
  <2>2. QED
    BY <1>2, <2>1, InviteTold, ServerTold
<1>3. ASSUME NEW n \in CSeq, ~byes,
             \/ cb = "none" /\ (NotImplemented(p, n) \/ ReceiveProvisional(p, n)
                                                    \/ RefusalTimeout(p, n))
             \/ ReceiveFailure(p, n, {cb}) \/ InviteTimeout(p, n, {cb})
             \/ ByeEnds(p, n, "Close", "onDlgByeSuccessResponse", {cb})
             \/ ByeEnds(p, n, "Call", "onDlgByeFailureResponse", {cb})
             \/ ByeEnds(p, n, "Close", "onDlgClosed", {cb})
      PROVE  Told(p, cb, byes)
  <2>1. byes = FALSE
    BY <1>3
  <2>2. QED
    BY <1>3, <2>1, UntoldTold, FailureTold, ByeEndsTold
<1>4. CASE ~byes /\ Timeout(p, {cb})
  BY <1>3, <1>4 DEF Timeout, ByeTimeout
<1>5. QED
  BY <1>1, <1>2, <1>3, <1>4 DEF DialogEvent, ReceiveByeOk, ReceiveByeFailure

-----------------------------------------------------------------------------
(* The effect of a step of p on its call, which becomes s *)

Answering == {"Active", "Closed"}

CallSteps(p, s) ==
  /\ CallBecomes(p, s) /\ s \in CallState
  /\ s \in {"Incoming", "Active", "Closed"} => call[p] = s \/ Awake(p) \/ Awake(p)'
  /\ p = Caller =>
       /\ s # "Incoming"
       /\ s \in {"Idle", "Outgoing"} => Status(p)' \in Early
       /\ s = "Active" => Succeeded
  /\ p = Callee /\ Succeeded => s \in Answering
  /\ \/ NoSuccess
     \/ /\ s \in Answering
        /\ \A m \in net' : m.kind = "2xx" => m \in net \/ m.from = Peer(p)
  /\ call[p] = "Closed" /\ Status(p) # "ReInviting" => s = "Closed"
  /\ p = Caller /\ s = "Closed" /\ (call[p] # "Closed" \/ Status(p) = "Inviting")
       => Status(p)' # "Call"

Steps(p) == /\ ActsSomehow(p) \/ UNCHANGED dialogVars
            /\ \E s \in CallState : CallSteps(p, s)

\* Such a step keeps a call in line with its dialog.
LEMMA StepsFollow ==
  ASSUME CInv, NEW p \in Party, Steps(p)
  PROVE  CInv'
<1>1. PICK s \in CallState : CallSteps(p, s)
  BY DEF Steps
<1>2. /\ DInv' /\ net \subseteq net' /\ ua'[Peer(p)] = ua[Peer(p)]
      /\ Awake(p) => Awake(p)'
      /\ Status(p) = "Close" => Status(p)' = "Close"
      /\ p = Caller /\ Status(p) \in Early /\ Status(p)' \notin Early \cup {"Close"} => Succeeded
  BY ActsMeans DEF Steps, CInv
<1>3. /\ call \in [Party -> CallState] /\ call' = [call EXCEPT ![p] = s]
      /\ call' \in [Party -> CallState] /\ call'[p] = s /\ call'[Peer(p)] = call[Peer(p)]
  BY <1>1, PeerSwaps DEF CallSteps, CallBecomes, CInv, CallFollows
<1>4. \A q \in Party : q = p \/ q = Peer(p)
  BY DEF Party, Peer
<1>5. \A q \in Party : call'[q] \in {"Incoming", "Active", "Closed"} => Awake(q)'
  <2>1. call'[p] \in {"Incoming", "Active", "Closed"} => Awake(p)'
    BY <1>1, <1>2, <1>3 DEF CallSteps, CInv, CallFollows
  <2>2. call'[Peer(p)] \in {"Incoming", "Active", "Closed"} => Awake(Peer(p))'
    BY <1>2, <1>3, PeerSwaps DEF CInv, CallFollows, Awake, Status
  <2>3. QED
    BY <1>4, <2>1, <2>2
<1>6. Succeeded => Succeeded'
  BY <1>2 DEF Succeeded, Arrives
<1>7. CASE p = Caller
  <2>1. Peer(p) = Callee /\ Caller # Callee
    BY <1>7, PartyAssumption DEF Peer
  <2>2. call'[Callee] = call[Callee] /\ call'[Caller] = s
    BY <1>3, <1>7, <2>1
  <2>3. Succeeded' => Succeeded
    <3>1. \A m \in net' : m.kind = "2xx" => m \in net \/ m.from = Callee
      BY <1>1, <2>1 DEF CallSteps, NoSuccess
    <3>2. QED
      BY <2>1, <3>1 DEF Succeeded, Arrives, Msg
  <2>4. Status(Caller)' \notin Early \cup {"Close"} => Succeeded
    BY <1>2, <1>7 DEF CInv, CallFollows
  <2>5. /\ s # "Incoming"
        /\ s = "Active" => Succeeded
        /\ s \in {"Idle", "Outgoing"} => Status(Caller)' \in Early
    BY <1>1, <1>7 DEF CallSteps
  <2>6. Succeeded => call[Callee] \in {"Active", "Closed"}
    BY DEF CInv, CallFollows
  <2>7. /\ call'[Caller] # "Incoming"
        /\ call'[Caller] \in {"Idle", "Outgoing"} => Status(Caller)' \in Early
        /\ Status(Caller)' \notin Early \cup {"Close"} \/ call'[Caller] = "Active" => Succeeded'
        /\ Succeeded' => call'[Callee] \in {"Active", "Closed"}
    BY <1>6, <2>2, <2>3, <2>4, <2>5, <2>6
  <2>8. CallFollows'
    BY <1>3, <1>5, <2>7 DEF CallFollows
  <2>9. QED
    BY <1>2, <2>8 DEF CInv
<1>8. CASE p = Callee
  <2>1. Peer(p) = Caller /\ Caller # Callee
    BY <1>8, PartyAssumption DEF Peer
  <2>2. /\ call'[Callee] = s /\ call'[Caller] = call[Caller]
        /\ Status(Caller)' = Status(Caller)
    BY <1>2, <1>3, <1>8, <2>1 DEF Status
  <2>3. Succeeded' => s \in {"Active", "Closed"}
    <3>1. Succeeded \/ s \in Answering \/ (NoSuccess /\ ~Succeeded)
      BY <1>1 DEF CallSteps
    <3>2. NoSuccess /\ ~Succeeded => ~Succeeded'
      BY DEF NoSuccess, Succeeded, Arrives, Msg
    <3>3. QED
      BY <1>1, <1>8, <3>1, <3>2 DEF CallSteps, Answering
  <2>4. /\ call[Caller] # "Incoming"
        /\ call[Caller] \in {"Idle", "Outgoing"} => Status(Caller) \in Early
        /\ Status(Caller) \notin Early \cup {"Close"} \/ call[Caller] = "Active" => Succeeded
    BY DEF CInv, CallFollows
  <2>5. /\ call'[Caller] # "Incoming"
        /\ call'[Caller] \in {"Idle", "Outgoing"} => Status(Caller)' \in Early
        /\ Status(Caller)' \notin Early \cup {"Close"} \/ call'[Caller] = "Active" => Succeeded'
        /\ Succeeded' => call'[Callee] \in {"Active", "Closed"}
    BY <1>6, <2>2, <2>3, <2>4
  <2>6. CallFollows'
    BY <1>3, <1>5, <2>5 DEF CallFollows
  <2>7. QED
    BY <1>2, <2>6 DEF CInv
<1>9. QED
  BY <1>7, <1>8 DEF Party

\* The operations of a dialog, as its call's user sees them.
LEMMA OperationMeans ==
  ASSUME DInv, NEW p \in Party
  PROVE  /\ Listen(p) => Status(p) = "Init" /\ NoSuccess
         /\ Invite(p) => Status(p) = "Init" /\ Status(p)' = "Inviting" /\ NoSuccess
         /\ ReInvite(p) => Status(p) = "Call" /\ NoSuccess
         /\ Refuse(p) => NoSuccess
         /\ Bye(p) => Status(p) = "Call" /\ Status(p)' = "Byeing" /\ NoSuccess
         /\ Cancel(p) => Status(p)' = Status(p) /\ Awake(p)' /\ NoSuccess
         /\ Accept(p) => \A m \in net' : m.kind = "2xx" => m \in net \/ m.from = Peer(p)
<1>0. ua \in [Party -> Dialog] /\ ua[p] \in Dialog
  BY OwnDialog DEF Own
<1>1. ASSUME Listen(p) PROVE Status(p) = "Init" /\ NoSuccess
  BY <1>1 DEF Listen, NoSuccess
<1>2. ASSUME Invite(p) PROVE Status(p) = "Init" /\ Status(p)' = "Inviting" /\ NoSuccess
  BY <1>0, <1>2 DEF Invite, Inviting, Become, Send, Msg, NoSuccess, Status, Dialog
<1>3. ASSUME ReInvite(p) PROVE Status(p) = "Call" /\ NoSuccess
  BY <1>3 DEF ReInvite, Inviting, Send, Msg, NoSuccess
<1>4. ASSUME Refuse(p) PROVE NoSuccess
  BY <1>4, RefusalIsNone, SayNoSuccess DEF Refuse
<1>5. ASSUME Bye(p) PROVE Status(p) = "Call" /\ Status(p)' = "Byeing" /\ NoSuccess
  BY <1>0, <1>5 DEF Bye, Byeing, Become, Send, Msg, NoSuccess, Status, Dialog
<1>6. ASSUME Cancel(p) PROVE Status(p)' = Status(p) /\ Awake(p)' /\ NoSuccess
  <2>1. CASE Status(p) \in {"Inviting", "ReInviting"}
    BY <1>0, <1>6, <2>1 DEF Cancel, Become, Send, Msg, NoSuccess, Status, Dialog, Awake
  <2>2. CASE Status(p) = "Waiting"
    BY <1>0, <1>6, <2>2 DEF Cancel, Become, NoSuccess, Status, Dialog, Awake
  <2>3. QED
    BY <1>6, <2>1, <2>2 DEF Cancel
<1>7. ASSUME Accept(p) PROVE \A m \in net' : m.kind = "2xx" => m \in net \/ m.from = Peer(p)
  BY <1>7 DEF Accept, Send, Msg
<1>8. QED
  BY <1>1, <1>2, <1>3, <1>4, <1>5, <1>6, <1>7

\* A CANCEL that meets accept() leaves an answer to the peer's INVITE behind it,
\* and a dialog that is not established.
LEMMA CrossingMeans ==
  ASSUME DInv, NEW p \in Party, NEW n \in CSeq, NEW cbs, CancelMeetsAccept(p, n, cbs)
  PROVE  /\ Status(p) \in {"Invited", "ReInvited"} /\ Status(p)' # "Call"
         /\ \A m \in net' : m.kind = "2xx" => m \in net \/ m.from = Peer(p)
<1> DEFINE k == ua[p].invIn
           W(status) == [ua[p] EXCEPT !.status = status, !.cts[n] = "Done",
                                      !.its[k] = "Done", !.ats[k] = "Proceeding"]
<1>0. Own(p) /\ ua[p] \in Dialog
  BY OwnDialog DEF Own
<1>1. PICK status \in {"ReAccepted", "ReRefused", "Accepted", "Refused"},
           refused \in {{}, Refusal(p, ua[p])} :
             /\ Status(p) \in {"Invited", "ReInvited"}
             /\ Become(p, W(status)) /\ Send({Msg("2xx", Peer(p), k)} \cup refused)
  BY DEF CancelMeetsAccept, Status
<1>2. W(status).status = status
  BY <1>0 DEF Dialog
<1> HIDE DEF W
<1>3. Status(p)' = status
  BY <1>1, <1>2, BecomeStatus
<1>4. \A m \in {Msg("2xx", Peer(p), k)} \cup refused : m.kind # "2xx" \/ m.from = Peer(p)
  BY <1>1, RefusalIsNone DEF Msg
<1>5. QED
  BY <1>1, <1>3, <1>4 DEF Send

\* Every operation of the user and every event is such a step.
LEMMA UserSteps ==
  ASSUME CInv, NEW p \in Party, CallUserStep(p)
  PROVE  Steps(p)
<1>0. /\ DInv /\ CallFollows /\ call \in [Party -> CallState]
      /\ call[p] \in CallState /\ call = [call EXCEPT ![p] = call[p]]
  BY DEF CInv, CallFollows
<1>1. /\ call[p] \in {"Incoming", "Active", "Closed"} => Awake(p)
      /\ p = Callee /\ Succeeded => call[p] \in Answering
      /\ p = Caller => /\ call[p] # "Incoming"
                       /\ call[p] \in {"Idle", "Outgoing"} => Status(p) \in Early
                       /\ call[p] = "Active" \/ Status(p) \notin Early \cup {"Close"} => Succeeded
  BY <1>0 DEF CallFollows, Answering
<1>2. UNCHANGED dialogVars => Status(p)' = Status(p) /\ NoSuccess /\ Awake(p)' = Awake(p)
  BY DEF dialogVars, Status, NoSuccess, Awake
<1>3. ASSUME p = Callee, CallListen(p) PROVE Steps(p)
  <2>1. Status(p) = "Init" /\ NoSuccess /\ ActsSomehow(p)
    BY <1>0, <1>3, OperationMeans, ListenActs DEF CallListen
  <2>2. ~Succeeded /\ call[p] \notin {"Incoming", "Active", "Closed"}
    BY <1>0, <1>1, <1>3, <2>1, SucceededAwake DEF Awake
  <2>3. CallSteps(p, "Idle")
    BY <1>3, <2>1, <2>2, PartyAssumption DEF CallSteps, CallState, CallListen
  <2>4. QED
    BY <2>1, <2>3 DEF Steps, CallState
<1>4. ASSUME p = Caller, StartCall(p) PROVE Steps(p)
  <2>1. Status(p)' = "Inviting" /\ NoSuccess /\ ActsSomehow(p) /\ call[p] = "Idle"
    BY <1>0, <1>4, OperationMeans, InviteActs DEF StartCall
  <2>2. CallSteps(p, "Outgoing")
    BY <1>4, <2>1, PartyAssumption DEF CallSteps, CallState, StartCall, Early
  <2>3. QED
    BY <2>1, <2>2 DEF Steps, CallState
<1>5. ASSUME CallAccept(p) PROVE Steps(p)
  <2>1. /\ \/ ActsSomehow(p) /\ \A m \in net' : m.kind = "2xx" => m \in net \/ m.from = Peer(p)
           \/ UNCHANGED dialogVars /\ NoSuccess
        /\ call[p] \in {"Incoming", "Active"}
    BY <1>0, <1>2, <1>5, OperationMeans, AcceptActs DEF CallAccept
  <2>2. CallSteps(p, "Active")
    BY <1>1, <1>5, <2>1 DEF CallSteps, CallState, CallAccept, Answering
  <2>3. QED
    BY <2>1, <2>2 DEF Steps, CallState
<1>10. ASSUME CancelMeetsCallAccept(p) PROVE Steps(p)
  <2>1. PICK n \in CSeq, s \in {"Active", "Closed"} :
           /\ CancelMeetsAccept(p, n, {"onDlgCancel"}) /\ CallBecomes(p, s)
           /\ call[p] \in {"Incoming", "Active"}
    BY <1>10 DEF CancelMeetsCallAccept
  <2>2. /\ ActsSomehow(p) /\ Status(p) \notin {"Init", "Waiting"} /\ Status(p)' # "Call"
        /\ \A m \in net' : m.kind = "2xx" => m \in net \/ m.from = Peer(p)
    BY <1>0, <2>1, CrossingActs, CrossingMeans DEF Status
  <2>3. CallSteps(p, s)
    BY <1>1, <2>1, <2>2 DEF CallSteps, CallState, Answering
  <2>4. QED
    BY <2>1, <2>2, <2>3 DEF Steps, CallState
<1>6. ASSUME CallRefuse(p) PROVE Steps(p)
  <2>1. /\ ActsSomehow(p) \/ UNCHANGED dialogVars
        /\ NoSuccess /\ call[p] = "Incoming"
    BY <1>0, <1>2, <1>6, OperationMeans, RefuseActs DEF CallRefuse
  <2>2. CallSteps(p, "Closed")
    BY <1>1, <1>6, <2>1 DEF CallSteps, CallState, CallRefuse, Answering
  <2>3. QED
    BY <2>1, <2>2 DEF Steps, CallState
<1>7. ASSUME CallModify(p) PROVE Steps(p)
  <2>1. ActsSomehow(p) /\ NoSuccess /\ Status(p) = "Call" /\ call' = call
    BY <1>0, <1>7, OperationMeans, InviteActs DEF CallModify
  <2>2. CallBecomes(p, call[p])
    BY <1>0, <2>1 DEF CallBecomes
  <2>3. CallSteps(p, call[p])
    BY <1>0, <1>1, <2>1, <2>2 DEF CallSteps, Early
  <2>4. QED
    BY <1>0, <2>1, <2>3 DEF Steps
<1>8. ASSUME Hangup(p) PROVE Steps(p)
  <2>1. CallBecomes(p, "Closed") /\ Status(p) # "Init" /\ HangupDialog(p)
    BY <1>8 DEF Hangup
  <2>2. CASE call[p] \in {"Idle", "Outgoing"}
    <3>1. \/ ActsSomehow(p) /\ Status(p)' = Status(p) /\ Awake(p)' /\ NoSuccess
          \/ Status(p) # "Waiting" /\ UNCHANGED dialogVars
      BY <1>0, <2>1, <2>2, OperationMeans, CancelActs DEF HangupDialog
    <3>2. Awake(p) \/ Awake(p)'
      BY <2>1, <3>1 DEF Awake
    <3>3. CallSteps(p, "Closed")
      BY <1>1, <1>2, <2>1, <2>2, <3>1, <3>2 DEF CallSteps, CallState, Answering, Early
    <3>4. QED
      BY <3>1, <3>3 DEF Steps, CallState
  <2>3. CASE call[p] = "Incoming"
    <3>1. NoSuccess /\ (ActsSomehow(p) \/ UNCHANGED dialogVars)
      BY <1>0, <1>2, <2>1, <2>3, OperationMeans, RefuseActs DEF HangupDialog
    <3>2. CallSteps(p, "Closed")
      BY <1>1, <2>1, <2>3, <3>1 DEF CallSteps, CallState, Answering
    <3>3. QED
      BY <3>1, <3>2 DEF Steps, CallState
  <2>4. CASE call[p] \in {"Active", "Closed"}
    <3>1. \/ ActsSomehow(p) /\ Status(p)' = "Byeing" /\ NoSuccess
          \/ Status(p) # "Call" /\ UNCHANGED dialogVars
      BY <1>0, <2>1, <2>4, OperationMeans, ByeActs DEF HangupDialog
    <3>2. CallSteps(p, "Closed")
      BY <1>1, <1>2, <2>1, <2>4, <3>1 DEF CallSteps, CallState, Answering
    <3>3. QED
      BY <3>1, <3>2 DEF Steps, CallState
  <2>5. QED
    BY <1>0, <2>2, <2>3, <2>4 DEF CallState
<1>9. QED
  BY <1>3, <1>4, <1>5, <1>6, <1>7, <1>8, <1>10 DEF CallUserStep

\* Every event of the dialog layer, with the call's handler.
LEMMA EventSteps ==
  ASSUME CInv, NEW p \in Party, NEW cb \in Callback, CallEvent(p, cb)
  PROVE  Steps(p)
<1> DEFINE s == CallAfter(call[p], cb)
           byes == cb = "onDlgInviteSuccessResponse" /\ call[p] = "Closed"
<1>0. /\ DInv /\ CallFollows /\ call[p] \in CallState
  BY DEF CInv, CallFollows
<1>1. /\ call[p] \in {"Incoming", "Active", "Closed"} => Awake(p)
      /\ Succeeded /\ p = Callee => call[p] \in Answering /\ Awake(p)
      /\ p = Caller => /\ call[p] # "Incoming"
                       /\ call[p] \in {"Idle", "Outgoing"} => Status(p) \in Early
                       /\ call[p] = "Active" \/ Status(p) \notin Early \cup {"Close"} => Succeeded
  BY <1>0, SucceededAwake DEF CallFollows, Answering, Awake
<1>2. DialogEvent(p, {cb}, byes) /\ CallBecomes(p, s) /\ byes \in BOOLEAN
  BY DEF CallEvent
<1>3. Told(p, cb, byes) /\ ActsSomehow(p)
  BY <1>0, <1>2, EventTold, DialogEventActs
<1> HIDE DEF byes, s
<1>4. /\ s \in CallState
      /\ s \in {call[p], "Incoming", "Active", "Closed"}
      /\ s = "Incoming" /\ s # call[p] => cb = "onDlgInvite"
      /\ s = "Active" /\ s # call[p] =>
           \/ cb = "onDlgReInviteFailureResponse"
           \/ cb = "onDlgInviteSuccessResponse" /\ call[p] # "Closed"
      /\ s = "Closed" /\ s # call[p] => cb \in Ending
      /\ cb \in Ending => s = "Closed"
      /\ cb = "onDlgInviteSuccessResponse" => s \in Answering
      /\ cb = "onDlgInvite" => s = "Incoming"
      /\ cb = "onDlgReInviteFailureResponse" => s = "Active"
      /\ cb \notin Ending \cup {"onDlgInvite", "onDlgReInviteFailureResponse",
                                "onDlgInviteSuccessResponse"} => s = call[p]
  BY <1>0 DEF s, CallAfter, AfterSuccess, Ending, CallState, Answering
<1>5. cb \notin {"none", "onDlgInvite"} => Awake(p)
  BY <1>3 DEF Told, Awake
<1>6. cb = "onDlgInvite" => p = Callee /\ ~Awake(p) /\ Awake(p)'
  BY <1>3 DEF Told, Awake
<1>7. s \in {"Incoming", "Active", "Closed"} => call[p] = s \/ Awake(p) \/ Awake(p)'
  BY <1>4, <1>5, <1>6 DEF Ending
<1>8. ASSUME p = Caller
      PROVE  /\ s # "Incoming"
             /\ s \in {"Idle", "Outgoing"} => Status(p)' \in Early
             /\ s = "Active" => Succeeded
  <2>1. s # "Incoming"
    BY <1>1, <1>4, <1>6, <1>8, PartyAssumption
  <2>2. s \in {"Idle", "Outgoing"} => Status(p)' \in Early
    <3>1. SUFFICES ASSUME s \in {"Idle", "Outgoing"} PROVE Status(p)' \in Early
      OBVIOUS
    <3>2. s = call[p] /\ cb \notin Ending /\ cb # "onDlgInviteSuccessResponse"
      BY <1>4, <3>1 DEF Answering
    <3>3. QED
      BY <1>1, <1>3, <1>8, <3>1, <3>2 DEF Told
  <2>3. s = "Active" => Succeeded
    <3>1. cb = "onDlgInviteSuccessResponse" => Succeeded
      BY <1>3, <1>8 DEF Told, Succeeded
    <3>2. cb = "onDlgReInviteFailureResponse" => Succeeded
      BY <1>1, <1>3, <1>8 DEF Told, Early
    <3>3. QED
      BY <1>1, <1>4, <1>8, <3>1, <3>2
  <2>4. QED
    BY <2>1, <2>2, <2>3
<1>9. p = Callee /\ Succeeded => s \in Answering
  BY <1>1, <1>4, <1>6 DEF Answering
<1>10. call[p] = "Closed" /\ Status(p) # "ReInviting" => s = "Closed"
  BY <1>1, <1>3, <1>4, <1>6 DEF Told, Ending, Answering
<1>11. ASSUME p = Caller, s = "Closed", call[p] # "Closed" \/ Status(p) = "Inviting"
       PROVE  Status(p)' # "Call"
  <2>1. CASE call[p] # "Closed"
    BY <1>3, <1>4, <1>11, <2>1 DEF Told
  <2>2. CASE call[p] = "Closed"
    <3>1. Status(p) \in Early
      BY <1>11, <2>2 DEF Early
    <3>2. CASE cb = "onDlgInviteSuccessResponse"
      BY <1>3, <2>2, <3>2 DEF Told, byes
    <3>3. QED
      BY <1>3, <1>11, <3>1, <3>2 DEF Told, Early
  <2>3. QED
    BY <2>1, <2>2
<1>12. NoSuccess
  BY <1>3 DEF Told
<1>13. CallSteps(p, s)
  BY <1>2, <1>4, <1>7, <1>8, <1>9, <1>10, <1>11, <1>12 DEF CallSteps
<1>14. QED
  BY <1>3, <1>4, <1>13 DEF Steps

\* Every step is a step of one party.
LEMMA NextSteps == CInv /\ CallNext => \E p \in Party : Steps(p)
  BY UserSteps, EventSteps DEF CallNext

\* The calls start with the invariant.
LEMMA InitCInv == CallInit => CInv
<1> SUFFICES ASSUME CallInit PROVE CInv
  OBVIOUS
<1>1. DInv
  BY InitDInv DEF CallInit
<1>2. /\ call \in [Party -> CallState] /\ net = {}
      /\ \A p \in Party : call[p] = "Idle" /\ Status(p) = "Init"
  BY DEF CallInit, DialogInit, NoDialog, CallState, Status
<1>3. Caller \in Party /\ Callee \in Party
  BY DEF Party
<1>4. ~Succeeded
  BY <1>2 DEF Succeeded, Arrives
<1>5. CallFollows
  BY <1>2, <1>3, <1>4 DEF CallFollows, Early
<1>6. QED
  BY <1>1, <1>5 DEF CInv

\* CInv is inductive.
LEMMA StepCInv == CInv /\ [CallNext]_callVars => CInv'
<1>1. CInv /\ CallNext => CInv'
  BY NextSteps, StepsFollow
<1>2. ASSUME CInv, UNCHANGED callVars PROVE CInv'
  <2>1. UNCHANGED dialogVars /\ ua' = ua /\ net' = net /\ call' = call
    BY <1>2 DEF callVars, dialogVars
  <2>2. DInv'
    BY <1>2, <2>1, StutterKeepsInv DEF CInv
  <2>3. CallFollows'
    BY <1>2, <2>1 DEF CInv, CallFollows, Awake, Status, Succeeded, Arrives
  <2>4. QED
    BY <2>2, <2>3 DEF CInv
<1>3. QED
  BY <1>1, <1>2

\* CInv always holds.
LEMMA CallInvariance == CallSpec => []CInv
  BY InitCInv, StepCInv, PTL DEF CallSpec

\* The callee of a call that the caller takes for active has accepted it.
THEOREM ActiveWasAcceptedAlways == CallSpec => []ActiveWasAccepted
<1>1. CInv => ActiveWasAccepted
  BY DEF CInv, CallFollows, ActiveWasAccepted
<1>2. QED
  BY <1>1, CallInvariance, PTL

\* A caller that hangs up is left with no established dialog, even when the
\* answer to its INVITE comes after the CANCEL.
THEOREM CallerHangsUpAlways == CallSpec => CallerHangsUp
<1>1. CInv /\ [CallNext]_callVars => [LeavesNoDialog]_callVars
  <2>1. ASSUME CInv, CallNext PROVE LeavesNoDialog
    <3>1. PICK p \in Party, s \in CallState : CallSteps(p, s) /\ Steps(p)
      BY <2>1, NextSteps DEF Steps
    <3>2. call' = [call EXCEPT ![p] = s] /\ call \in [Party -> CallState]
      BY <2>1, <3>1 DEF CallSteps, CallBecomes, CInv, CallFollows
    <3>3. CASE p = Caller
      BY <3>1, <3>2, <3>3 DEF CallSteps, LeavesNoDialog
    <3>4. CASE p = Callee
      <4>1. Peer(p) = Caller /\ Caller # Callee
        BY <3>4, PartyAssumption DEF Peer
      <4>2. ua'[Caller] = ua[Caller]
        BY <2>1, <3>1, <4>1, ActsMeans DEF Steps, CInv
      <4>3. call'[Caller] = call[Caller]
        BY <3>2, <3>4, <4>1
      <4>4. QED
        BY <4>2, <4>3 DEF LeavesNoDialog, Status
    <3>5. QED
      BY <3>3, <3>4 DEF Party
  <2>2. QED
    BY <2>1
<1>2. QED
  BY <1>1, CallInvariance, PTL DEF CallSpec, CallerHangsUp

\* No answer or request that comes late reopens a closed call.
THEOREM ClosedIsFinalAlways == CallSpec => ClosedIsFinal
<1>1. CInv /\ [CallNext]_callVars => [StaysHungUp]_callVars
  <2>1. ASSUME CInv, CallNext PROVE StaysHungUp
    <3>1. PICK p \in Party, s \in CallState : CallSteps(p, s)
      BY <2>1, NextSteps DEF Steps
    <3>2. call' = [call EXCEPT ![p] = s] /\ call \in [Party -> CallState]
      BY <2>1, <3>1 DEF CallSteps, CallBecomes, CInv, CallFollows
    <3>3. QED
      BY <3>1, <3>2 DEF CallSteps, StaysHungUp
  <2>2. QED
    BY <2>1
<1>2. QED
  BY <1>1, CallInvariance, PTL DEF CallSpec, ClosedIsFinal
=============================================================================
