-------------------------------- MODULE Answer --------------------------------
(***************************************************************************)
(* What a response promises to the peer: of the answers the program could   *)
(* give, the bytes that arrive are the beginning of one, as long as no part *)
(* is torn; and nothing follows once the connection is cut.                 *)
(***************************************************************************)
EXTENDS SequencesExt

CONSTANT Answers  \* the whole answers, as sequences of cells

VARIABLES
  out,   \* what the kernel has taken for the peer
  torn,  \* a part went between the pieces of another
  over   \* nothing more can be sent

Init == out = <<>> /\ torn = FALSE /\ over = FALSE

Proceed ==
  /\ ~over
  /\ IsPrefix(out, out')
  /\ torn => torn'
  /\ torn' \/ \E answer \in Answers : IsPrefix(out', answer)
  /\ over' \in BOOLEAN

Spec == Init /\ [][Proceed]_<<out, torn, over>>

=============================================================================
