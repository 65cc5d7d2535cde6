-------------------------- MODULE MCSessionModules --------------------------
(***************************************************************************)
(* SessionModules for TLC: connections are interchangeable model values.   *)
(***************************************************************************)
EXTENDS SessionModules, TLC

ConnSymmetry == Permutations(Conns)

=============================================================================
