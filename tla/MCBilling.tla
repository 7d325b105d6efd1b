---- MODULE MCBilling ----
(* Instances of Billing for TLC. *)
EXTENDS Billing, TLC

CONSTANTS u1, u2, r1, r2, s1, s2

Users == {u1, u2}
Requests == {r1, r2}
Subs == {s1, s2}
Symmetric == Permutations(Subs) \cup Permutations(Requests)
====
