---------------------------- MODULE MCRegularGrid ----------------------------
(***************************************************************************)
(* RegularGrid for TLC: the quads a client sends, in units of 1/25 metre   *)
(* (a cell is 50 units wide).  The first set has planes of one height that *)
(* fit in a cell or span several, with centers inside and on both sides of *)
(* the grid's first cell; the second planes that are within MERGE_EPSILON  *)
(* (15 units) of them and beyond it, one of them without an area.  The     *)
(* last one makes the loop of InsertQuad merge more than once.             *)
(***************************************************************************)
EXTENDS RegularGrid

MixedSamples ==
    [x : {-30, 20, 70}, y : {0}, z : {10, 60}, ex : {5, 80}, ez : {30}]
    \cup [x : {20}, y : {10, 20}, z : {35}, ex : {0, 60}, ez : {70}]
    \cup {[x |-> 30, y |-> 0, z |-> 45, ex |-> 80, ez |-> 80]}

=============================================================================
