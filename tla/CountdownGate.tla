---------------------------- MODULE CountdownGate ----------------------------
(***************************************************************************)
(* What base::Semaphore promises: "Allows threads to wait for the counter   *)
(* to return to 0 after being incremented with reserve and decremented with *)
(* notify".  No mutex, no condition variable, no notifications: a thread    *)
(* waits, and gets through when the counter is 0.                           *)
(***************************************************************************)
EXTENDS Integers

CONSTANTS Threads,  \* the threads of the program
          Timed,    \* those that wait with a timeout
          Start     \* the counter's initial value

VARIABLES counter,  \* m_counter
          waiting,  \* threads inside wait
          passed    \* threads whose last wait returned with the counter at 0

vars == <<counter, waiting, passed>>

Init == counter = Start /\ waiting = {} /\ passed = {}

Count(d) ==
  /\ counter' = counter + d
  /\ UNCHANGED <<waiting, passed>>

Wait(t) ==
  /\ t \notin waiting
  /\ waiting' = waiting \cup {t}
  /\ passed' = passed \ {t}
  /\ UNCHANGED counter

\* A thread that finds the gate open need not be seen waiting.
Through(t) ==
  /\ counter = 0
  /\ waiting' = waiting \ {t}
  /\ passed' = passed \cup {t}
  /\ UNCHANGED counter

\* Only a thread that gave a timeout gives up, and its wait returns false.
GiveUp(t) ==
  /\ t \in waiting \cap Timed
  /\ counter # 0
  /\ waiting' = waiting \ {t}
  /\ UNCHANGED <<counter, passed>>

Next == \/ \E d \in {-1, 1} : Count(d)
        \/ \E t \in Threads : Wait(t) \/ Through(t) \/ GiveUp(t)

\* The promise: a waiting thread gets through once the counter stays at 0.
Fairness == \A t \in Threads : WF_vars(t \in waiting /\ Through(t))

Safety == Init /\ [][Next]_vars
Spec == Safety /\ Fairness
=============================================================================
