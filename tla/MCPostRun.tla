---- MODULE MCPostRun ----
(* Instances of PostRun for TLC. *)
EXTENDS PostRun, TLC

CONSTANTS a1, a2, a3

ThreeAttempts == {a1, a2, a3}

OneTask == [a \in Attempt |-> "t1"]
TwoTasks == [a \in Attempt |-> IF a = a3 THEN "t2" ELSE "t1"]

Names == [a \in Attempt |-> 0]
Numbers == [a \in Attempt |-> IF a = a1 THEN 10 ELSE IF a = a2 THEN 9 ELSE 0]

(* The questions of a run are separate, and so are the behaviours it follows: *)
(* the attempts one after the other, the costs of one attempt with the calls  *)
(* of two commands, its times with three events, and five events about an     *)
(* attempt of one command.  TLC checks the states one step beyond those it    *)
(* follows, too.                                                              *)
AboutAttempts == /\ quotes = {}
                 /\ \A a \in Attempt : /\ evidence[a] = <<>> /\ Len(work[a]) <= 1
                                        /\ \A c \in ToSet(work[a]) : c.started = 1 /\ c.finished <= 1 /\ c.made = <<>>
AboutCosts == order = <<a1>> /\ evidence[a1] = <<>> /\ \A c \in ToSet(work[a1]) : c.started = 1 /\ c.finished <= 1
AboutTimes == order = <<a1>> /\ quotes = {} /\ Len(evidence[a1]) <= 2 /\ \A c \in ToSet(work[a1]) : c.made = <<>>
AboutEvidence == /\ order = <<a1>> /\ Len(evidence[a1]) <= 4 /\ Cardinality(quotes) <= 1
                 /\ Len(work[a1]) <= 1 /\ \A c \in ToSet(work[a1]) : c.started = 1 /\ c.finished <= 1 /\ c.made = <<>>
                 /\ \A q \in quotes : q.results = Results(a1) /\ OfKind(a1, "cost") = {}
                 /\ \A e \in ToSet(evidence[a1]) : IF e.kind = "energy" THEN e.until = 1 ELSE e.at = 1
Followed == AboutAttempts \/ AboutCosts \/ AboutTimes \/ AboutEvidence
====
