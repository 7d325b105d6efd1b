------------------------------- MODULE MCGates -------------------------------
(***************************************************************************)
(* An instance for TLC of what decides whether work is let in, and where   *)
(* to: locks and resource plans (Admission), the comparison of footprints  *)
(* (Semantic), requirement graphs (RequirementGraph) and the assignment of *)
(* roles to nodes (Registry).  The four share no state, so their steps are *)
(* not interleaved: a behaviour is one of one of them.                     *)
(***************************************************************************)
EXTENDS Admission, RequirementGraph, Semantic, Registry, FiniteSetsExt

CONSTANTS l1, l2, t1, t2, t3, t4, g1, g2, x1, x2, NoFile

Locks == {l1, l2}
Tasks == {t1, t2, t3, t4}
Gpus == {g1, g2}
Requesters == {x1, x2}
Symmetric == Permutations(Locks) \cup Permutations(Gpus) \cup Permutations(Requesters)

\* A scope of the whole source overlaps its two halves, which do not overlap each other.
Scopes == {"src", "src/a", "src/b"}
Overlapping == {<<s, r>> \in Scopes \X Scopes : s = r \/ s = "src" \/ r = "src"}

Asks(contract, scope, cpu, memory, gpus, burst) ==
  [contract |-> contract, scope |-> scope, cpu |-> cpu, memory |-> memory, gpus |-> gpus, allow_burst |-> burst]
Requests == t1 :> Asks("c1", "src/a", 1, 1, 0, FALSE) @@ t2 :> Asks("c1", "src/a", 1, 2, 1, TRUE)
         @@ t3 :> Asks("c1", "src/b", 2, 1, 1, TRUE)  @@ t4 :> Asks("c2", "src", 1, 1, 1, FALSE)
Capacities == [n \in {"n1"} |-> [cpu |-> 4, memory |-> 4, gpus |-> Gpus]]
Quotas == [p \in {"c1", "c2"} \X {"n1"} |->
  IF p[1] = "c1" THEN [base |-> [cpu |-> 2, memory |-> 2], max |-> [cpu |-> 3, memory |-> 4], tasks |-> 3, burst_until |-> 1]
  ELSE [base |-> [cpu |-> 1, memory |-> 1], max |-> [cpu |-> 1, memory |-> 1], tasks |-> 1, burst_until |-> -1]]

-----------------------------------------------------------------------------
\* Rule 2 is not active, and class 2 and fact 9 are not in the vocabulary.
Canonical == [vocabulary |-> 1, classes |-> {1}, factKeys |-> {1, 2}, activeRuleIds |-> {1}, applies |-> {<<1, 1>>, <<2, 1>>}]

NodeOf(id, dependsOn, selector, rules) ==
  [id |-> id, priority |-> IF selector = << >> THEN "optional" ELSE "mandatory", dependsOn |-> dependsOn,
   capabilitySelector |-> selector, requiredRuleIds |-> rules, acceptanceCriteria |-> <<2, 1>>]
ClassOne == <<<<1>>, << >>>>
Constrained == [allowedLicenses |-> <<2, 1>>, maximumTotalCostMicros |-> << >>, costCurrency |-> <<1>>, billingPeriod |-> 1]
Draft(revision, nodes, facts, intents) ==
  [tenantId |-> "a", revision |-> revision, selectorVocabularyDigest |-> 1, facts |-> facts, nodes |-> nodes,
   constraints |-> Constrained, approvalIntents |-> intents]

\* Every relation of dependency on three nodes in every order in which a draft lists them, and
\* those with at most three dependencies between four nodes in two orders.  Of four nodes with
\* three dependencies a draft has 82 entries, one too many, and with fewer its graph has.
OnlyOrdered(order, relation) ==
  Draft(1, [i \in DOMAIN order |-> NodeOf(order[i], SetToSeq(relation[order[i]]), ClassOne, << >>)], << >>, << >>)
Ordering == {<<OnlyOrdered(order, relation)>> : order \in SetToSeqs(1..3), relation \in [1..3 -> SUBSET (1..3)]}
       \cup {<<OnlyOrdered(order, relation)>> : order \in {<<1, 2, 3, 4>>, <<3, 1, 4, 2>>},
                relation \in {[id \in 1..4 |-> {d \in 1..4 : <<id, d>> \in pairs}] :
                                pairs \in UNION {kSubset(k, {p \in (1..4) \X (1..4) : p[1] # p[2]}) : k \in 0..3}}}

\* Two revisions of one project.
Waiver(node, rule) == [id |-> 2, target |-> [kind |-> "rule-waiver", requirementNodeId |-> node, ruleId |-> rule]]
Cost(currency, period) == [id |-> 1, target |-> [kind |-> "cost", currency |-> currency, billingPeriod |-> period]]
First == Draft(1, <<NodeOf(2, <<1>>, ClassOne, << >>), NodeOf(1, << >>, ClassOne, <<1>>)>>,
               <<[key |-> 2, value |-> 1], [key |-> 1, value |-> 1]>>, <<Waiver(1, 1), Cost(1, 1)>>)
Second == [First EXCEPT !.revision = 2, !.facts[1].value = 2]

\* Drafts that have one thing each that is refused.
Refused ==
  {[First EXCEPT !.facts = <<[key |-> 1, value |-> 1], [key |-> 1, value |-> 2]>>],
   [First EXCEPT !.facts[1].key = 9],
   [First EXCEPT !.selectorVocabularyDigest = 2],
   [First EXCEPT !.nodes[1].id = 1],
   [First EXCEPT !.nodes[1].dependsOn = <<3>>],
   [First EXCEPT !.nodes[1].requiredRuleIds = <<1>>],
   [First EXCEPT !.nodes[2].requiredRuleIds = <<2>>],
   [First EXCEPT !.nodes[1].capabilitySelector = <<<<2>>, << >>>>],
   [First EXCEPT !.nodes[1].capabilitySelector = <<<< >>, << >>>>],
   [First EXCEPT !.nodes = << >>],
   [First EXCEPT !.constraints.maximumTotalCostMicros = <<1>>, !.constraints.costCurrency = << >>],
   [First EXCEPT !.approvalIntents = <<Cost(2, 1)>>],
   [First EXCEPT !.approvalIntents = <<Cost(1, 2)>>],
   [First EXCEPT !.approvalIntents = <<Waiver(3, 1)>>],
   [First EXCEPT !.approvalIntents = <<Waiver(1, 2)>>]}

Projects == Ordering \cup {<<First, Second>>} \cup {<<draft>> : draft \in Refused}

-----------------------------------------------------------------------------
\* Paths and patterns of up to three characters.
Strings(chars) == UNION {[1..k -> chars] : k \in 1..3}
IsSafe(s) == /\ s[1] # "/" /\ Last(s) # "/"
             /\ \A i \in 1..Len(s) - 1 : s[i] # "/" \/ s[i + 1] # "/"
PathSet == {s \in Strings({"a", "b", "/"}) : IsSafe(s)}
Paths == FoldSet(LAMBDA path, all : Append(all, path), << >>, PathSet)
Patterns == {s \in Strings({"a", "b", "/", "*"}) : IsSafe(s)}

FileOf(size, facts, uncertainty) ==
  [regular |-> TRUE, text |-> TRUE, size |-> size, facts |-> facts, uncertainty |-> uncertainty]
Silent == FileOf(0, {}, {})
Holding(tracked) == [i \in DOMAIN Paths |-> IF Paths[i] \in DOMAIN tracked THEN tracked[Paths[i]] ELSE NoFile]
Writing(patterns, facts) == [in_scope_paths |-> patterns, scope |-> [write_paths |-> patterns, facts |-> facts]]

\* Two files that declare nothing, and a task for every pattern that matches one of them.
Pairs == {pair \in kSubset(2, {p \in PathSet : p[1] = "a"} \cup {<<"b">>, <<"b", "a">>}) :
            \A p, q \in pair : ~IsStrictPrefix(Append(p, "/"), q)}
SilentRepository(paths) ==
  [files |-> Holding([p \in paths |-> Silent]),
   tasks |-> {Writing({pattern}, {}) : pattern \in {s \in Patterns : \E p \in paths : ScannerMatches(p, s)}}]

\* Four files that declare a symbol each, one of which changes.
Symbol(n) == <<"symbols", n>>
Telling ==
  [files |-> Holding(<<"a", "/", "a">> :> FileOf(1, {Symbol(1)}, {}) @@ <<"a", "/", "b">> :> FileOf(1, {Symbol(2)}, {})
                  @@ <<"b">> :> FileOf(1, {Symbol(3)}, {}) @@ <<"b", "b">> :> FileOf(1, {Symbol(3)}, {})),
   tasks |-> {Writing({<<"b">>}, {Symbol(2)})} \cup
             {Writing(patterns, {}) : patterns \in
                {{<<"a">>}, {<<"a", "/", "a">>}, {<<"a", "/", "b">>}, {<<"b">>}, {<<"b", "b">>},
                 {<<"a", "/", "b">>, <<"b">>}, {<<"*">>}, {<<"*", "*">>}}}]
Changed == {FileOf(1, {Symbol(2)}, {}), FileOf(2, {Symbol(3)}, {}), FileOf(3, {Symbol(1)}, {}),
            FileOf(1, {Symbol(1), Symbol(2)}, {}), FileOf(1, {Symbol(TooLong)}, {}),
            FileOf(1, {}, {"DYNAMIC_DEPENDENCY"}), [Silent EXCEPT !.regular = FALSE],
            [FileOf(1, {Symbol(2)}, {}) EXCEPT !.text = FALSE]}

Repositories == {SilentRepository(pair) : pair \in Pairs} \cup {Telling}

-----------------------------------------------------------------------------
\* Two nodes and two providers; the first and the third model are of one connection.
Providers == "c1" :> "p1" @@ "c2" :> "p2"
Connections == <<"c1", "c2", "c1">>
Abilities == <<{"head", "coder"}, {"reviewer"}, {"general"}>>
On(model, machine) == [model |-> model, node |-> machine]
Assigning(coder, reviewer) == [role \in Role |-> IF role = "coder" THEN coder ELSE reviewer]
Asked == {Assigning(Null, Null), Assigning(On(1, 1), On(2, 2)), Assigning(On(1, 1), On(3, 1)),
          Assigning(On(3, 2), Null), Assigning(On(3, 1), On(2, 1))}

\* Nodes, connections and models come in their order, and a profile after them; a second
\* binding is followed without a profile, and a node that reports more power without bindings.
RegistryFollowed ==
  /\ data.models \in {1..k : k \in 0..3} /\ (data.profile.revision > 0 => data.models = Model)
  /\ data.nodes[1].power <= 1 /\ overdue \subseteq {2} /\ Cardinality(silent \cup overdue) <= 1
  /\ data.enrollments[2] # "none" => data.enrollments[1] = "consumed"
  /\ data.connections["c2"].status # "none" => data.connections["c1"].status # "none"
  /\ Cardinality(data.idempotency) + data.profile.revision <= 2
  /\ data.nodes[2].power = 2 => data.idempotency = {}
  /\ \A second \in data.idempotency : second.key = 2 =>
       \E first \in data.idempotency : first.key = 1 /\ first.request.node = second.request.node

-----------------------------------------------------------------------------
\* Several locks while no task runs, or several tasks and at most one lock, never renewed.
\* A project of one draft shows what becomes of the draft, and is not followed further; nor
\* are, where files declare nothing, old approvals, ends of approvals and commits.
Followed == /\ \/ running = <<>>
               \/ /\ canonical = 0 /\ Cardinality(Issued) <= 1
                  /\ \A l \in Issued : locks[l].last_heartbeat_at = locks[l].issued_at
            /\ Len(project) = 1 => graph = NoRecord
            /\ tasks # Telling.tasks => /\ commits = 0
                                        /\ \A x \in Attempt : approvals[x].status \in {"none", "approved"}
            /\ RegistryFollowed

\* What each of the four is while it does nothing.
AdmissionRests == now = 0 /\ canonical = 0 /\ Issued = {} /\ running = << >>
GraphRests == project = << >>
SemanticRests == tasks = Telling.tasks /\ commits = 0 /\ ~semantic_review_required
                 /\ \A x \in Attempt : approvals[x] = NoApproval

RegistryRests == data.enrollments = [m \in Machine |-> "none"] /\ data.models = {}
                 /\ \A c \in Connection : data.connections[c].status = "none"

GatesInit == Init /\ GraphInit /\ SemanticInit /\ RegistryInit
GatesNext ==
  \/ GraphRests /\ SemanticRests /\ RegistryRests /\ Next /\ UNCHANGED <<graphVars, semanticVars, registryVars>>
  \/ AdmissionRests /\ SemanticRests /\ RegistryRests /\ GraphNext /\ UNCHANGED <<vars, semanticVars, registryVars>>
  \/ AdmissionRests /\ GraphRests /\ RegistryRests /\ SemanticNext /\ UNCHANGED <<vars, graphVars, registryVars>>
  \/ AdmissionRests /\ GraphRests /\ SemanticRests /\ RegistryNext /\ UNCHANGED <<vars, graphVars, semanticVars>>
GatesSpec == GatesInit /\ [][GatesNext]_<<vars, graphVars, semanticVars, registryVars>>
==============================================================================
