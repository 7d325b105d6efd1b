----------------------------- MODULE MCDispatch -----------------------------
(* Constants for checking Dispatch.                                         *)
EXTENDS Dispatch, TLC

CONSTANTS n1, n2, k1, k2, k3

\* Both tasks start at n1; the first goes on at n2.
MCAssignment == <<<<n1, n2>>, <<n1, n1>>>>
MCOneTask == <<<<n1, n1>>>>

\* After the profile was replaced, one task is followed.
MCFollowed == revision > 1 => \A t \in Task : t > 1 => tasks[t].status = "none"
MCKeySymmetry == Permutations(Key)
=============================================================================
