------------------------------ MODULE MCMscTimers ------------------------------
(* Two starts and two stops of one name or two, on two lifelines.               *)
EXTENDS MscTimers
Unnumbered == [t \in Timers |-> ""]
Symmetry ==
  UNION {Permutations(S) : S \in {Instances, Names, Starts, Timers \ Starts}}
================================================================================
