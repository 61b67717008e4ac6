---------------------------- MODULE ServiceTasksMC ----------------------------
(***************************************************************************)
(* Small instances of ServiceTasks in one: every mode of writing, and reads *)
(* with and without a buffer of the caller's, while no service runs, which  *)
(* no task needs; or a file task and queries while the service comes and    *)
(* goes.                                                                    *)
(***************************************************************************)
EXTENDS ServiceTasks

MCFiles ==
  {Read(TRUE, append) : append \in BOOLEAN} \cup {Read(FALSE, TRUE)}
  \cup {Write("AppendOrCreate", 0), Write("AppendOrCreate", 1), Write("MustCreate", 3),
        Write("OverwriteOrCreate", 0)}
MCService == {Resolve, Read(FALSE, TRUE)}
MCCalls == MCFiles \cup MCService

CallsAmong(calls) == \A o \in Ops : call'[o] \in calls \cup {NoCall}

\* What the bound leaves out are calls of the program, of which no fairness is
\* assumed.
FilesOrService ==
  \/ CallsAmong(MCFiles) /\ starts' = 0
  \/ CallsAmong(MCService)

SpecMC == Init /\ [][Next /\ FilesOrService]_vars /\ Fairness

=============================================================================
