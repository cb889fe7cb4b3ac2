---------------------------- MODULE MCComponent ----------------------------
(* Instances of Component for TLC.                                         *)
EXTENDS Component, TLC

Symmetry == Permutations(Senders) \cup Permutations(Workers)
=============================================================================
