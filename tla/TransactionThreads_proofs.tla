---------------------- MODULE TransactionThreads_proofs ----------------------
(***************************************************************************)
(* What Timer's monitor guarantees to the threads of TransactionThreads.   *)
(* The scheduler thread holds it from the moment it finds the timer        *)
(* running until it is done, so a thread that has passed halt() knows the  *)
(* timer to be quiet: no timeout is under way and none will begin.         *)
(***************************************************************************)
EXTENDS TransactionThreads, TLAPS

Told(o) == \E i \in 1..Len(told) : told[i] = o

\* No timeout is under way, and none will begin.
Quiet == ~running /\ pc["scheduler"] \in {"idle", "done"}

\* The scheduler thread holds the monitor while it runs onTimeout(), and no
\* other thread keeps it.
MonitorHeld ==
  monitor = IF pc["scheduler"] \in {"idle", "done"} THEN "free" ELSE "scheduler"

\* A thread past halt() finds the timer quiet; the refusal, which has no
\* doTerminate() to skip the halts, does so to its end.
Past == {"set", "check", "callback", "forget", "done"}
HaltedIsQuiet ==
  /\ \A t \in {"receiver", "user"} : At(t, "set") => Quiet
  /\ answer = "failure" /\ pc["receiver"] \in Past => Quiet

\* A refusal does not pass through doTerminate().
RefusalSkipsTest == At("receiver", "test") => answer = "success"

\* What was told, and by whom.
TimeoutTold == Told("timeout") => \/ At("scheduler", "forget")
                                  \/ At("scheduler", "done") /\ ~listener
RefusalTold == Told("failure") => answer = "failure" /\ pc["receiver"] \in {"forget", "done"}

\* A receiver about to tell a refusal knows that no timeout was told.
RefusalTellsFirst ==
  At("receiver", "callback") /\ answer = "failure" => ~Told("timeout")

\* A receiver at work has an answer; the user's terminate() makes no callback.
AnswerInHand == At("receiver", "idle") <=> answer = "none"
UserTellsNothing == pc["user"] \notin {"check", "callback"}

IInv == /\ TypeOK /\ MonitorHeld /\ HaltedIsQuiet /\ RefusalSkipsTest
        /\ TimeoutTold /\ RefusalTold /\ RefusalTellsFirst
        /\ AnswerInHand /\ UserTellsNothing /\ RefusedOrTimedOut

-----------------------------------------------------------------------------
\* One more callback tells one more outcome and untells none (CallListener).
LEMMA ToldAfter ==
  ASSUME NEW S, told \in Seq(S), NEW x \in S, told' = Append(told, x), NEW o
  PROVE  Told(o)' <=> Told(o) \/ o = x
<1>1. Len(told') = Len(told) + 1 /\ Len(told) \in Nat
  OBVIOUS
<1>2. \A i \in 1..Len(told) : told'[i] = told[i]
  OBVIOUS
<1>3. told'[Len(told) + 1] = x
  OBVIOUS
<1>4. QED
  BY <1>1, <1>2, <1>3 DEF Told

\* A step that makes no callback changes nothing of what was told.
LEMMA ToldSame ==
  ASSUME told' = told, NEW o
  PROVE  Told(o)' <=> Told(o)
  BY DEF Told

\* RefusedOrTimedOut, of whatever positions in told, says this of the two outcomes.
LEMMA NotBothTold == RefusedOrTimedOut <=> ~(Told("failure") /\ Told("timeout"))
  BY DEF RefusedOrTimedOut, Told

\* Types: only CallListener needs more than them, for what it tells.
LEMMA TypeStep == IInv /\ Next => TypeOK'
<1> SUFFICES ASSUME IInv, Next PROVE TypeOK'
  OBVIOUS
<1> USE DEF IInv, TypeOK, AnswerInHand, UserTellsNothing, At, Goes, Thread, Statement, AfterEnd
<1>1. ASSUME NEW class \in {"success", "failure"}, Receive(class) PROVE TypeOK'
  BY <1>1 DEF Receive
<1>2. CASE Expire
  BY <1>2 DEF Expire
<1>3. CASE UserTerminates
  BY <1>3 DEF UserTerminates
<1>4. ASSUME NEW t \in Thread, Test(t) PROVE TypeOK'
  BY <1>4 DEF Test
<1>5. ASSUME NEW t \in Thread, Halt(t) PROVE TypeOK'
  BY <1>5 DEF Halt
<1>6. ASSUME NEW t \in Thread, SetStatus(t) PROVE TypeOK'
  BY <1>6 DEF SetStatus
<1>7. ASSUME NEW t \in Thread, CheckListener(t) PROVE TypeOK'
  BY <1>7 DEF CheckListener
<1>8. ASSUME NEW t \in Thread, CallListener(t) PROVE TypeOK'
  BY <1>8 DEF CallListener
<1>9. ASSUME NEW t \in Thread, Forget(t) PROVE TypeOK'
  BY <1>9 DEF Forget
<1>10. QED
  BY <1>1, <1>2, <1>3, <1>4, <1>5, <1>6, <1>7, <1>8, <1>9 DEF Next

\* Where the threads are: the monitor is the scheduler thread's from Expire to
\* Forget, and passing halt() needs it free.
Control == MonitorHeld /\ HaltedIsQuiet /\ RefusalSkipsTest /\ AnswerInHand /\ UserTellsNothing

\* What the threads may rely on about each other: a thread past halt() finds
\* the timer quiet, since Timer.processInnerTimeout() holds the monitor.
LEMMA ControlStep == IInv /\ Next => Control'
<1> SUFFICES ASSUME IInv, Next PROVE Control'
  OBVIOUS
<1> USE DEF IInv, TypeOK, Control, MonitorHeld, HaltedIsQuiet, Quiet, Past, RefusalSkipsTest,
            AnswerInHand, UserTellsNothing, At, Goes, Thread, Statement, AfterEnd
<1>1. ASSUME NEW class \in {"success", "failure"}, Receive(class) PROVE Control'
  BY <1>1 DEF Receive
<1>2. CASE Expire
  BY <1>2 DEF Expire
<1>3. CASE UserTerminates
  BY <1>3 DEF UserTerminates
<1>4. ASSUME NEW t \in Thread, Test(t) PROVE Control'
  BY <1>4 DEF Test
<1>5. ASSUME NEW t \in Thread, Halt(t) PROVE Control'
  BY <1>5 DEF Halt
<1>6. ASSUME NEW t \in Thread, SetStatus(t) PROVE Control'
  BY <1>6 DEF SetStatus
<1>7. ASSUME NEW t \in Thread, CheckListener(t) PROVE Control'
  BY <1>7 DEF CheckListener
<1>8. ASSUME NEW t \in Thread, CallListener(t) PROVE Control'
  BY <1>8 DEF CallListener
<1>9. ASSUME NEW t \in Thread, Forget(t) PROVE Control'
  BY <1>9 DEF Forget
<1>10. QED
  BY <1>1, <1>2, <1>3, <1>4, <1>5, <1>6, <1>7, <1>8, <1>9 DEF Next

\* What the users were told.  A timeout that was told has passed Forget, or is
\* in its way, and a refusal is told by a thread that knows the timer quiet.
Telling == /\ TimeoutTold /\ RefusalTold /\ RefusalTellsFirst
           /\ ~(Told("failure") /\ Told("timeout"))

\* What was told and by whom: a refusal only by a receiver past halt(), so
\* not after a timeout, and a timeout only before it (CallListener).
LEMMA TellingStep == IInv /\ Next => Telling'
<1> SUFFICES ASSUME IInv, Next PROVE Telling'
  OBVIOUS
<1>1. ~(Told("failure") /\ Told("timeout"))
  BY NotBothTold DEF IInv
<1> USE DEF IInv, TypeOK, MonitorHeld, HaltedIsQuiet, Quiet, Past, AnswerInHand,
            RefusalSkipsTest, UserTellsNothing, TimeoutTold, RefusalTold, RefusalTellsFirst,
            Telling, At, Goes, Thread, Statement, AfterEnd
\* Steps that tell nothing.
<1>2. Telling' \/ \E t \in Thread : CallListener(t)
  <2>1. ASSUME NEW class \in {"success", "failure"}, Receive(class) PROVE Telling'
    <3>1. told' = told
      BY <2>1 DEF Receive
    <3>2. (Told("timeout")' <=> Told("timeout")) /\ (Told("failure")' <=> Told("failure"))
      BY <3>1, ToldSame
    <3>3. QED
      BY <1>1, <2>1, <3>1, <3>2 DEF Receive
  <2>2. CASE Expire
    <3>1. told' = told
      BY <2>2 DEF Expire
    <3>2. (Told("timeout")' <=> Told("timeout")) /\ (Told("failure")' <=> Told("failure"))
      BY <3>1, ToldSame
    <3>3. QED
      BY <1>1, <2>2, <3>1, <3>2 DEF Expire
  <2>3. CASE UserTerminates
    <3>1. told' = told
      BY <2>3 DEF UserTerminates
    <3>2. (Told("timeout")' <=> Told("timeout")) /\ (Told("failure")' <=> Told("failure"))
      BY <3>1, ToldSame
    <3>3. QED
      BY <1>1, <2>3, <3>1, <3>2 DEF UserTerminates
  <2>4. ASSUME NEW t \in Thread, Test(t) PROVE Telling'
    <3>1. told' = told
      BY <2>4 DEF Test
    <3>2. (Told("timeout")' <=> Told("timeout")) /\ (Told("failure")' <=> Told("failure"))
      BY <3>1, ToldSame
    <3>3. QED
      BY <1>1, <2>4, <3>1, <3>2 DEF Test
  <2>5. ASSUME NEW t \in Thread, Halt(t) PROVE Telling'
    <3>1. told' = told
      BY <2>5 DEF Halt
    <3>2. (Told("timeout")' <=> Told("timeout")) /\ (Told("failure")' <=> Told("failure"))
      BY <3>1, ToldSame
    <3>3. QED
      BY <1>1, <2>5, <3>1, <3>2 DEF Halt
  <2>6. ASSUME NEW t \in Thread, SetStatus(t) PROVE Telling'
    <3>1. told' = told
      BY <2>6 DEF SetStatus
    <3>2. (Told("timeout")' <=> Told("timeout")) /\ (Told("failure")' <=> Told("failure"))
      BY <3>1, ToldSame
    <3>3. QED
      BY <1>1, <2>6, <3>1, <3>2 DEF SetStatus
  <2>7. ASSUME NEW t \in Thread, CheckListener(t) PROVE Telling'
    <3>1. told' = told
      BY <2>7 DEF CheckListener
    <3>2. (Told("timeout")' <=> Told("timeout")) /\ (Told("failure")' <=> Told("failure"))
      BY <3>1, ToldSame
    <3>3. QED
      BY <1>1, <2>7, <3>1, <3>2 DEF CheckListener
  <2>8. ASSUME NEW t \in Thread, Forget(t) PROVE Telling'
    <3>1. told' = told
      BY <2>8 DEF Forget
    <3>2. (Told("timeout")' <=> Told("timeout")) /\ (Told("failure")' <=> Told("failure"))
      BY <3>1, ToldSame
    <3>3. QED
      BY <1>1, <2>8, <3>1, <3>2 DEF Forget
  <2>9. QED
    BY <2>1, <2>2, <2>3, <2>4, <2>5, <2>6, <2>7, <2>8 DEF Next
<1>3. ASSUME NEW t \in Thread, CallListener(t) PROVE Telling'
  <2>1. CASE told' = told
    <3>1. (Told("timeout")' <=> Told("timeout")) /\ (Told("failure")' <=> Told("failure"))
      BY <2>1, ToldSame
    <3>2. QED
      BY <1>1, <1>3, <3>1 DEF CallListener
  <2>2. CASE t = "scheduler" /\ told' = Append(told, "timeout")
    <3>1. Told("timeout")' /\ (Told("failure")' <=> Told("failure"))
      BY <2>2, ToldAfter
    <3>2. QED
      BY <1>3, <2>2, <3>1 DEF CallListener
  <2>3. CASE t = "receiver" /\ told' = Append(told, answer)
    <3>1. answer \in {"success", "failure"}
      BY <1>3, <2>3 DEF CallListener
    <3>2. /\ (Told("timeout")' <=> Told("timeout"))
          /\ Told("failure")' <=> Told("failure") \/ answer = "failure"
      BY <2>3, <3>1, ToldAfter
    <3>3. QED
      BY <1>1, <1>3, <2>3, <3>1, <3>2 DEF CallListener
  <2>4. QED
    BY <1>3, <2>1, <2>2, <2>3 DEF CallListener
<1>4. QED
  BY <1>2, <1>3

-----------------------------------------------------------------------------
\* At the start every thread is idle and nothing was told.
LEMMA InitInv == Init => IInv
<1> SUFFICES ASSUME Init PROVE IInv
  OBVIOUS
<1>1. ~Told("failure") /\ ~Told("timeout")
  BY DEF Init, Told
<1>2. TypeOK
  BY DEF Init, TypeOK, Thread, Statement
<1>3. QED
  BY <1>1, <1>2, NotBothTold
     DEF Init, IInv, MonitorHeld, HaltedIsQuiet, RefusalSkipsTest, TimeoutTold, RefusalTold,
         RefusalTellsFirst, AnswerInHand, UserTellsNothing, Past, At, Thread

\* No step of any thread breaks the inductive invariant.
LEMMA StepInv == IInv /\ [Next]_vars => IInv'
<1>1. IInv /\ Next => IInv'
  <2>1. SUFFICES ASSUME IInv, Next PROVE IInv'
    OBVIOUS
  <2>2. (RefusedOrTimedOut <=> ~(Told("failure") /\ Told("timeout")))'
    BY NotBothTold, PTL
  <2>3. QED
    BY <2>1, <2>2, TypeStep, ControlStep, TellingStep DEF IInv, Control, Telling
<1>2. IInv /\ UNCHANGED vars => IInv'
  BY DEF vars, IInv, TypeOK, MonitorHeld, HaltedIsQuiet, Quiet, RefusalSkipsTest, TimeoutTold,
         RefusalTold, RefusalTellsFirst, AnswerInHand, UserTellsNothing, RefusedOrTimedOut,
         Told, At
<1>3. QED
  BY <1>1, <1>2

\* Whatever the interleaving, once a thread is past halt() no timeout callback
\* is under way in another thread or begins (Timer.halt()).
THEOREM HaltIsFinalAlways == Spec => []HaltIsFinal
<1>1. IInv => HaltIsFinal
  BY DEF IInv, HaltedIsQuiet, Quiet, HaltIsFinal
<1>2. QED
  BY <1>1, InitInv, StepInv, PTL DEF Spec

\* Whatever the interleaving of the unsynchronized handlers of
\* InviteTransactionClient, no user hears of a refusal and of a timeout.
THEOREM RefusedOrTimedOutAlways == Spec => []RefusedOrTimedOut
<1>1. IInv => RefusedOrTimedOut
  BY DEF IInv
<1>2. QED
  BY <1>1, InitInv, StepInv, PTL DEF Spec
=============================================================================
