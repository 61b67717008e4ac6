--------------------------- MODULE EventEmitterMC ---------------------------
(* Instances of EventEmitter small enough for TLC.                         *)
EXTENDS EventEmitter

\* Keep is the library's SelectSeq, on every list of up to four listeners.
ASSUME KeepIsSelectSeq ==
  \A n \in 0 .. 4 : \A list \in [1 .. n -> Listeners] :
    /\ Purged(list) = SelectSeq(list, LAMBDA l : ~IsOnce(l))
    /\ \A l \in Listeners : Without(list, l) = SelectSeq(list, LAMBDA m : m # l)

\* Strings, as in the code: the companion of "data" is in use, no other is.
MCEvents == {"data", "data_selfdestruct", "listener_added", "listener_removed", "newListener"}
MCSelfDestruct ==
  [e \in MCEvents |-> IF e = "data" THEN "data_selfdestruct" ELSE "none"]

\* The same without selfdestruct listeners, and with fewer names.
FewEvents == {"data", "listener_added", "listener_removed", "newListener"}
NoSelfDestruct == [e \in FewEvents |-> "none"]

=============================================================================
