-------------------------- MODULE NetSocketStreamMC --------------------------
(* Instances of NetSocketStream for TLC: several writes and no data, or one *)
(* write and all that reads can meet.                                       *)
EXTENDS NetSocketStream

OneWrite == CHOOSE w \in Writes : TRUE

\* What the bound leaves out are calls of the user and data that comes, of
\* which no fairness is assumed.
WritesOrReads ==
  \/ reads' = 0 /\ listening' = {}
  \/ \A w \in Writes \ {OneWrite} : write'[w] = "new"

FairSpecMC == Init /\ [][Next /\ WritesOrReads]_vars /\ Fairness
=============================================================================
