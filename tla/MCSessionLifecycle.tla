------------------------- MODULE MCSessionLifecycle -------------------------
(***************************************************************************)
(* SessionLifecycle for TLC: connections are interchangeable model values. *)
(***************************************************************************)
EXTENDS SessionLifecycle, TLC

ConnSymmetry == Permutations(Conns)

=============================================================================
