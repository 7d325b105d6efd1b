---------------------------- MODULE MCNodeAgent ----------------------------
(* Constants for checking NodeAgent.                                        *)
EXTENDS NodeAgent, TLC

CONSTANT n1

\* One task of two roles, both of the same node.
MCAssignment == <<<<n1, n1>>>>

\* A request that arrives late says nothing of configurations: it is not followed
\* together with an edited file of the node.
Followed == late # {} => local[n1] = 1
=============================================================================
