------------------------ MODULE SequentialIDGenerator ------------------------
(***************************************************************************)
(* The id generator of models/id.go.  A generator is a record              *)
(*   currentID    the last id handed out by counting,                      *)
(*   reusableIDs  the ids given back with Reuse and not handed out again.  *)
(* Both methods run under the generator's mutex, so each is one step of    *)
(* the component that calls it.  Session stores, sessions and entity       *)
(* component stores each own generators of this type.                      *)
(***************************************************************************)
EXTENDS Naturals

\* The zero value of SequentialIDGenerator: nothing handed out, nil map.
EmptyGenerator == [currentID |-> 0, reusableIDs |-> {}]

\* The generators whose ids do not exceed n.
Generators(n) == [currentID : 0 .. n, reusableIDs : SUBSET (1 .. n)]

\* The ids New may return: any reusable one (the code takes the first key of
\* a map iteration, whose order Go leaves open), else the next in sequence.
NewIDs(g) ==
    IF g.reusableIDs # {} THEN g.reusableIDs ELSE {g.currentID + 1}

\* The generator after New returned id.
AfterNew(g, id) ==
    [currentID   |-> IF g.reusableIDs # {} THEN g.currentID ELSE id,
     reusableIDs |-> g.reusableIDs \ {id}]

\* Reuse(id): adding to a set, so giving an id back twice is not noticed.
Reuse(g, id) == [g EXCEPT !.reusableIDs = @ \cup {id}]

=============================================================================
