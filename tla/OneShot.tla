------------------------------- MODULE OneShot -------------------------------
(***************************************************************************)
(* What the local Controller promises about approved attempts, whatever    *)
(* happens to the processes that carry it out: an approval is consumed at   *)
(* most once, one attempt is in progress at a time, each of its commands is *)
(* launched at most once and in order, it succeeds only when all were       *)
(* launched, and once the Controller halts nothing begins, is launched or   *)
(* is settled again.                                                        *)
(***************************************************************************)
EXTENDS Naturals

CONSTANTS Attempts, CommandCount

VARIABLES
    phase,     \* what became of an attempt's approval
    launched,  \* how many of its commands were launched
    halted     \* the Controller has given up for good

vars == <<phase, launched, halted>>

Phase == {"unused", "in_progress", "succeeded", "failed", "held"}

Init ==
    /\ phase = [a \in Attempts |-> "unused"]
    /\ launched = [a \in Attempts |-> 0]
    /\ halted = FALSE

Consume(a) ==
    /\ ~halted
    /\ \A b \in Attempts : phase[b] # "in_progress"
    /\ phase[a] = "unused"
    /\ phase' = [phase EXCEPT ![a] = "in_progress"]
    /\ UNCHANGED <<launched, halted>>

Launch(a) ==
    /\ ~halted
    /\ phase[a] = "in_progress"
    /\ launched[a] < CommandCount[a]
    /\ launched' = [launched EXCEPT ![a] = @ + 1]
    /\ UNCHANGED <<phase, halted>>

Settle(a) ==
    /\ ~halted
    /\ phase[a] = "in_progress"
    /\ \/ launched[a] = CommandCount[a] /\ phase' = [phase EXCEPT ![a] = "succeeded"]
       \/ launched[a] > 0 /\ phase' = [phase EXCEPT ![a] = "failed"]
    /\ UNCHANGED <<launched, halted>>

\* The attempt in progress, if any, is held: its effects are unknown.
Halt ==
    /\ ~halted
    /\ halted' = TRUE
    /\ phase' = [a \in Attempts |->
           IF phase[a] = "in_progress" THEN "held" ELSE phase[a]]
    /\ UNCHANGED launched

Next == Halt \/ \E a \in Attempts : Consume(a) \/ Launch(a) \/ Settle(a)

Spec == Init /\ [][Next]_vars
=============================================================================
