---------------------------- MODULE MCEntitySync ----------------------------
(***************************************************************************)
(* EntitySync for TLC: connections are interchangeable model values.       *)
(***************************************************************************)
EXTENDS EntitySync, TLC

ConnSymmetry == Permutations(Conns)

=============================================================================
