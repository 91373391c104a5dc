-------------------------- MODULE TransactionThreads --------------------------
(***************************************************************************)
(* InviteTransactionClient.java at the grain of its threads.  Its handlers *)
(* are not synchronized; what orders them is the monitor of a Timer, which *)
(* the scheduler thread holds while it runs onTimeout() and which halt()   *)
(* needs.  Three threads act on one transaction that is Trying:            *)
(*   receiver   onReceivedMessage() of a final response                    *)
(*   scheduler  processInnerTimeout() of transaction_to (timer B)          *)
(*   user       terminate()                                                *)
(* Retransmission and end timers tell nobody anything and are left out.    *)
(***************************************************************************)
EXTENDS Naturals, Sequences

VARIABLES pc,             \* per thread: the statement it is about to run
          answer,         \* the class of the response being received
          status, listener,
          running,        \* transaction_to.is_running
          monitor,        \* the thread that holds transaction_to's monitor
          told            \* the final callbacks made

vars == <<pc, answer, status, listener, running, monitor, told>>

Thread == {"receiver", "scheduler", "user"}

Statement == {"idle", "test", "halt", "set", "check", "callback", "forget", "done"}

TypeOK ==
  /\ pc \in [Thread -> Statement]
  /\ answer \in {"none", "success", "failure"}
  /\ status \in {"Trying", "Completed", "Terminated"}
  /\ listener \in BOOLEAN
  /\ running \in BOOLEAN
  /\ monitor \in Thread \cup {"free"}
  /\ told \in Seq({"success", "failure", "timeout"})

Init ==
  /\ pc = [t \in Thread |-> "idle"]
  /\ answer = "none"
  /\ status = "Trying"
  /\ listener = TRUE
  /\ running = TRUE
  /\ monitor = "free"
  /\ told = <<>>

At(t, s) == pc[t] = s
Goes(t, s) == pc' = [pc EXCEPT ![t] = s]

-----------------------------------------------------------------------------
(* How each thread gets to work *)

\* A final response passes the status test; a 300-699 has no doTerminate().
Receive(class) ==
  /\ At("receiver", "idle")
  /\ status = "Trying"
  /\ answer' = class
  /\ Goes("receiver", IF class = "success" THEN "test" ELSE "halt")
  /\ UNCHANGED <<status, listener, running, monitor, told>>

\* processInnerTimeout() takes the monitor; a halted timer does nothing.
Expire ==
  /\ At("scheduler", "idle")
  /\ monitor = "free"
  /\ IF running THEN Goes("scheduler", "test") /\ monitor' = "scheduler"
     ELSE Goes("scheduler", "done") /\ UNCHANGED monitor
  /\ UNCHANGED <<answer, status, listener, running, told>>

UserTerminates ==
  /\ At("user", "idle")
  /\ Goes("user", "test")
  /\ UNCHANGED <<answer, status, listener, running, monitor, told>>

-----------------------------------------------------------------------------
(* Statements *)

\* Whether the thread ends in a callback: the user's terminate() does not.
AfterEnd(t) == IF t = "user" THEN "forget" ELSE "check"

\* doTerminate()'s test: on a terminated transaction it skips the halts too.
Test(t) ==
  /\ At(t, "test")
  /\ Goes(t, IF status = "Terminated" THEN AfterEnd(t) ELSE "halt")
  /\ UNCHANGED <<answer, status, listener, running, monitor, told>>

\* Faulty variants: halt() takes no monitor; or a monitor is not reentrant.
HaltUnsynchronized(t) ==
  /\ At(t, "halt")
  /\ running' = FALSE
  /\ Goes(t, "set")
  /\ UNCHANGED <<answer, status, listener, monitor, told>>
HaltNotReentrant(t) == monitor = "free" /\ HaltUnsynchronized(t)

\* transaction_to.halt(): waits for its monitor, which is reentrant.
Halt(t) ==
  /\ At(t, "halt")
  /\ monitor \in {"free", t}
  /\ running' = FALSE
  /\ Goes(t, "set")
  /\ UNCHANGED <<answer, status, listener, monitor, told>>

\* changeStatus(): Completed on a refusal, else the end of doTerminate().
SetStatus(t) ==
  /\ At(t, "set")
  /\ status' = IF t = "receiver" /\ answer = "failure" THEN "Completed" ELSE "Terminated"
  /\ Goes(t, AfterEnd(t))
  /\ UNCHANGED <<answer, listener, running, monitor, told>>

CheckListener(t) ==
  /\ At(t, "check")
  /\ Goes(t, IF listener THEN "callback" ELSE "forget")
  /\ UNCHANGED <<answer, status, listener, running, monitor, told>>

\* The callback.  The field is read again without a lock: if it was reset
\* meanwhile, that is a NullPointerException, which ends the handler, or, when
\* the build keeps the value it tested, a callback all the same.
CallListener(t) ==
  /\ At(t, "callback")
  /\ \/ told' = Append(told, IF t = "scheduler" THEN "timeout" ELSE answer)
     \/ ~listener /\ told' = told
  /\ Goes(t, "forget")
  /\ UNCHANGED <<answer, status, listener, running, monitor>>

\* listener=null; the scheduler then leaves the timer.
Forget(t) ==
  /\ At(t, "forget")
  /\ listener' = FALSE
  /\ IF t = "scheduler" THEN monitor' = "free" /\ running' = FALSE
     ELSE UNCHANGED <<monitor, running>>
  /\ Goes(t, "done")
  /\ UNCHANGED <<answer, status, told>>

Next ==
  \/ \E class \in {"success", "failure"} : Receive(class)
  \/ Expire
  \/ UserTerminates
  \/ \E t \in Thread :
       \/ Test(t)
       \/ Halt(t)
       \/ SetStatus(t)
       \/ CheckListener(t)
       \/ CallListener(t)
       \/ Forget(t)

Spec == Init /\ [][Next]_vars

\* Every thread is scheduled.
FairSpec ==
  /\ Spec
  /\ WF_vars(Expire)
  /\ \A t \in Thread : WF_vars(Test(t) \/ Halt(t) \/ SetStatus(t)
                               \/ CheckListener(t) \/ CallListener(t) \/ Forget(t))

-----------------------------------------------------------------------------
(* Properties *)

\* halt() stops the timer for good: once a thread is past it, onTimeout() does
\* not begin (Timer.halt's comment), and is not under way in another thread.
HaltIsFinal ==
  \A t \in {"receiver", "user"} :
    At(t, "set") => ~running /\ pc["scheduler"] \in {"idle", "done"}

\* The user never hears of both a refusal and a timeout: a refusal is told
\* only by a thread that has been through halt(), and so has waited for a
\* timeout under way.
RefusedOrTimedOut ==
  ~(\E i, j \in 1..Len(told) : told[i] = "failure" /\ told[j] = "timeout")

\* No thread waits for ever for another's monitor.
ThreadsFinish == \A t \in Thread : ~At(t, "idle") ~> At(t, "done")
=============================================================================
