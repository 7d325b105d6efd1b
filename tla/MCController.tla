---------------------------- MODULE MCController ----------------------------
(* Constants for checking Controller.                                       *)
EXTENDS Controller, TLC

CONSTANTS p1, p2, a1, a2, a3

MCTwoThenOne == (a1 :> 2) @@ (a2 :> 1)
MCOneEach == [a \in {a1, a2, a3} |-> 1]
MCOneEachOfTwo == [a \in {a1, a2} |-> 1]
MCConflict == {<<a1, a2>>, <<a2, a1>>}
MCProcessSymmetry == Permutations({p1, p2})
=============================================================================
