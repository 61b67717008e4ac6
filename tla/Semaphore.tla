------------------------------ MODULE Semaphore ------------------------------
(***************************************************************************)
(* base::Semaphore: a counter, a mutex and a condition variable.  A step    *)
(* that runs under the mutex is one action.  dec_counter and has_outstanding*)
(* notify after they have unlocked, so their notify_one is a step of its    *)
(* own, and a woken thread has to take the mutex again before it looks.     *)
(***************************************************************************)
EXTENDS Integers

CONSTANTS
  Threads,    \* the threads of the program
  Timed,      \* those that call wait( timeout_ms )
  Start,      \* the constructor's count
  Ceiling,    \* bound: no inc_counter at or above it
  MaxDebt,    \* bound: how far dec_counter may go below 0
  Paired      \* every dec_counter answers an inc_counter, as the client's do

ASSUME ThreadsAssumption == Timed \subseteq Threads

ASSUME CountsAssumption ==
  /\ Start \in Nat
  /\ Ceiling \in Nat
  /\ MaxDebt \in Nat
  /\ Paired \in BOOLEAN

VARIABLES
  counter,   \* m_counter
  pc,        \* where each thread is in its call
  passed     \* history: threads whose last wait ended with the counter at 0

semaphoreVars == <<counter, pc, passed>>

\* "idle":    in no call of the semaphore
\* "notify":  has unlocked and is about to notify_one
\* "blocked": in the wait set of m_condition
\* "woken":   taken out of the wait set, has not got the mutex back yet
States == {"idle", "notify", "blocked", "woken"}

Blocked == {t \in Threads : pc[t] = "blocked"}

SemaphoreInit ==
  /\ counter = Start
  /\ pc = [t \in Threads |-> "idle"]
  /\ passed = {}

\* notify_all, with t going to state s.
WakeAll(t, s) ==
  pc' = [u \in Threads |-> IF u = t THEN s
                           ELSE IF pc[u] = "blocked" THEN "woken" ELSE pc[u]]

-----------------------------------------------------------------------------
IncCounter(t) ==
  /\ pc[t] = "idle"
  /\ counter < Ceiling
  /\ counter' = counter + 1
  /\ UNCHANGED <<pc, passed>>

DecCounter(t) ==
  /\ pc[t] = "idle"
  /\ counter > -MaxDebt
  /\ Paired => counter > 0
  /\ counter' = counter - 1
  /\ pc' = [pc EXCEPT ![t] = "notify"]
  /\ UNCHANGED passed

\* Reads the counter, and notifies although it changed nothing.
HasOutstanding(t) ==
  /\ pc[t] = "idle"
  /\ pc' = [pc EXCEPT ![t] = "notify"]
  /\ UNCHANGED <<counter, passed>>

\* The notify_one of dec_counter and has_outstanding.
NotifyOne(t) ==
  /\ pc[t] = "notify"
  /\ \/ /\ Blocked = {}
        /\ pc' = [pc EXCEPT ![t] = "idle"]
     \/ \E u \in Blocked : pc' = [pc EXCEPT ![t] = "idle", ![u] = "woken"]
  /\ UNCHANGED <<counter, passed>>

\* notify
Notify(t) ==
  /\ pc[t] = "idle"
  /\ WakeAll(t, "idle")
  /\ UNCHANGED <<counter, passed>>

\* Mutant of Pass: wait returns without passing the news on.
PassSilently(t) ==
  /\ counter = 0
  /\ pc' = [pc EXCEPT ![t] = "idle"]
  /\ passed' = passed \cup {t}
  /\ UNCHANGED counter

\* The predicate holds: wait passes the news on with notify_all and returns.
Pass(t) ==
  /\ counter = 0
  /\ WakeAll(t, "idle")
  /\ passed' = passed \cup {t}
  /\ UNCHANGED counter

Block(t) ==
  /\ counter # 0
  /\ pc' = [pc EXCEPT ![t] = "blocked"]
  /\ UNCHANGED <<counter, passed>>

\* The call of wait: the predicate is tested before the thread blocks.
Wait(t) ==
  /\ pc[t] = "idle"
  /\ \/ Pass(t)
     \/ /\ counter # 0
        /\ pc' = [pc EXCEPT ![t] = "blocked"]
        /\ passed' = passed \ {t}
        /\ UNCHANGED counter

\* Mutant of Recheck: a wait without a predicate.
RecheckNothing(t) ==
  /\ pc[t] = "woken"
  /\ WakeAll(t, "idle")
  /\ passed' = passed \cup {t}
  /\ UNCHANGED counter

\* A woken thread has the mutex and tests the predicate again.
Recheck(t) == pc[t] = "woken" /\ (Pass(t) \/ Block(t))

\* A condition variable may wake a thread for no reason.
SpuriousWakeup(t) ==
  /\ pc[t] = "blocked"
  /\ pc' = [pc EXCEPT ![t] = "woken"]
  /\ UNCHANGED <<counter, passed>>

\* wait_for ran out of time: the predicate decides the result, and the
\* notify_all comes either way.
Timeout(t) ==
  /\ t \in Timed
  /\ pc[t] \in {"blocked", "woken"}
  /\ \/ Pass(t)
     \/ counter # 0 /\ WakeAll(t, "idle") /\ UNCHANGED <<counter, passed>>

Step(t) ==
  \/ IncCounter(t) \/ DecCounter(t) \/ HasOutstanding(t) \/ NotifyOne(t)
  \/ Notify(t) \/ Wait(t) \/ Recheck(t) \/ SpuriousWakeup(t) \/ Timeout(t)

SemaphoreNext == \E t \in Threads : Step(t)

\* The system schedules every thread that can run.  Nothing is assumed of the
\* calls the program makes, nor of spurious wakeups.
SemaphoreFairness ==
  \A t \in Threads : WF_semaphoreVars(NotifyOne(t)) /\ WF_semaphoreVars(Recheck(t))

SemaphoreSpec == SemaphoreInit /\ [][SemaphoreNext]_semaphoreVars
FairSemaphoreSpec == SemaphoreSpec /\ SemaphoreFairness

-----------------------------------------------------------------------------
SemaphoreTypeOK ==
  /\ counter \in Int
  /\ pc \in [Threads -> States]
  /\ passed \in SUBSET Threads

(* No wakeup is lost: while the counter is at 0 and a thread is blocked,    *)
(* someone is on the way who will notify it, a thread about to notify_one   *)
(* or one that will find the counter at 0 and notify_all.  dec_counter      *)
(* notifies after unlocking and wakes one thread only, so it is the         *)
(* notify_all at the end of wait that has to reach the others.              *)
NoLostWakeup ==
  counter = 0 /\ Blocked # {} => \E t \in Threads : pc[t] \in {"notify", "woken"}

(* What the semaphore promises its users, liveness included.                *)
Waiting == {t \in Threads : pc[t] \in {"blocked", "woken"}}
Gate == INSTANCE CountdownGate WITH waiting <- Waiting
ImplementsGate == Gate!Spec
ImplementsGateSafety == Gate!Safety

=============================================================================
