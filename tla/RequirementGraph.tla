-------------------------- MODULE RequirementGraph --------------------------
(***************************************************************************)
(* Requirement graphs and what authorizes them, as                         *)
(* packages/engine-primitives/requirement-graph.mjs makes and checks them. *)
(*                                                                         *)
(* A draft is brought into one normal form or refused; the graph carries   *)
(* digests of its content.  An authority authorizes the digest of a graph  *)
(* for a time.  Graph and authorization are records that their holder      *)
(* keeps, and hands in again to have them verified.                        *)
(*                                                                         *)
(* A digest is modelled as the content it is computed of.  Identifiers and *)
(* texts are naturals, in the order of compareCodePoints; the shape checks *)
(* that look at one field alone are left out, but not the bound on the     *)
(* entries of all fields together.                                         *)
(***************************************************************************)
EXTENDS Integers, FiniteSets, SequencesExt

CONSTANTS
    Project,          \* the drafts of a project: a sequence of revisions
    Tenant,
    Canon,            \* vocabulary, classes, factKeys, activeRuleIds, and the pairs
                      \* of a rule and a node in "applies"
    MaxNodes, MaxFacts, MaxDependencies,   \* 256, 256 and 32 in the source
    MaxEntries,       \* MAX_GENERIC_ENTRIES: 100,000
    Offset,           \* the offsets from UTC in which times are written
    MaxClock,         \* bound: on time
    MaxReceipts,      \* bound: on authorizations
    MaxEdits          \* bound: on changes of the records by their holder

\* What a draft lists is a list.
AreListed(nodes) ==
    /\ nodes \in Seq(ToSet(nodes))
    /\ \A node \in ToSet(nodes) :
         /\ node.id \in Nat
         /\ {node.dependsOn, node.requiredRuleIds, node.acceptanceCriteria} \subseteq Seq(Nat)
         /\ node.capabilitySelector \in Seq(Seq(Nat))

IsListed(draft) ==
    /\ AreListed(draft.nodes)
    /\ draft.facts \in Seq(ToSet(draft.facts)) /\ \A fact \in ToSet(draft.facts) : fact.key \in Nat
    /\ draft.approvalIntents \in Seq(ToSet(draft.approvalIntents))
    /\ \A intent \in ToSet(draft.approvalIntents) : intent.id \in Nat
    /\ draft.constraints.allowedLicenses \in Seq(Nat)

ASSUME GraphAssumption ==
    /\ << >> \notin Project
    /\ \A revisions \in Project : \A draft \in ToSet(revisions) : IsListed(draft)
    /\ MaxNodes \in Nat /\ MaxFacts \in Nat /\ MaxDependencies \in Nat /\ MaxEntries \in Nat
    /\ Offset \subseteq Int /\ 0 \in Offset
    /\ MaxClock \in Nat /\ MaxReceipts \in Nat /\ MaxEdits \in Nat

VARIABLES
    project,        \* whose graphs are made, or << >>
    graph,          \* the record of the holder, or NoRecord
    authorization,  \* the record of the holder, or NoRecord
    accepted,       \* the last graph that was verified with its authorization, and when
    clock,
    issued,         \* what the authority gave receipts for
    edits

graphVars == <<project, graph, authorization, accepted, clock, issued, edits>>

NoRecord == [schemaVersion |-> 0]

GraphInit ==
    /\ project = << >>
    /\ graph = NoRecord /\ authorization = NoRecord /\ accepted = NoRecord
    /\ clock = 0 /\ issued = {} /\ edits = 0

-----------------------------------------------------------------------------
(* The order of the nodes                                                   *)

\* Numbers in their order.  Nothing is twice in a list that is sorted, as its checks see to.
Place(x, S) == Cardinality({y \in S : y <= x})
InOrder(S) == [i \in 1..Cardinality(S) |-> CHOOSE x \in S : Place(x, S) = i]
Sorted(s) == InOrder(ToSet(s))
SortedBy(s, field) ==
    [i \in DOMAIN s |-> CHOOSE x \in ToSet(s) : Place(x[field], {y[field] : y \in ToSet(s)}) = i]
Column(s, Field(_)) == [i \in DOMAIN s |-> Field(s[i])]

Ids(nodes) == Column(nodes, LAMBDA node : node.id)
NodeIds(nodes) == ToSet(Ids(nodes))
ById(nodes, id) == nodes[CHOOSE i \in DOMAIN nodes : nodes[i].id = id]

Dependents(nodes, id) == InOrder({node.id : node \in {node \in ToSet(nodes) : id \in ToSet(node.dependsOn)}})

Start(nodes) ==
    [ready    |-> InOrder({node.id : node \in {node \in ToSet(nodes) : node.dependsOn = << >>}}),
     indegree |-> [id \in NodeIds(nodes) |-> Len(ById(nodes, id).dependsOn)],
     ordered  |-> << >>]

\* Faulty: a node that becomes ready waits at the end.
FreedLast(s, id) ==
    LET next == s.indegree[id] - 1
    IN  [ready    |-> IF next = 0 THEN Append(s.ready, id) ELSE s.ready,
         indegree |-> [s.indegree EXCEPT ![id] = next],
         ordered  |-> s.ordered]

\* One dependency less for a node: it is ready with the last.
Freed(s, id) ==
    LET next == s.indegree[id] - 1
    IN  [ready    |-> IF next = 0 THEN Sorted(Append(s.ready, id)) ELSE s.ready,
         indegree |-> [s.indegree EXCEPT ![id] = next],
         ordered  |-> s.ordered]

\* The first that is ready is next in the order, and frees what depends on it.
Take(nodes, s) ==
    IF s.ready = << >> THEN s
    ELSE LET id == Head(s.ready)
             dependents == Dependents(nodes, id)
             freed[k \in 0..Len(dependents)] ==
                 IF k = 0 THEN [ready |-> Tail(s.ready), indegree |-> s.indegree, ordered |-> Append(s.ordered, id)]
                 ELSE Freed(freed[k - 1], dependents[k])
         IN  freed[Len(dependents)]

\* The ids in the order in which the loop takes them: one at each pass.
Ordered(nodes) ==
    LET pass[k \in 0..Len(nodes)] == IF k = 0 THEN Start(nodes) ELSE Take(nodes, pass[k - 1])
    IN  pass[Len(nodes)].ordered

-----------------------------------------------------------------------------
(* normalizeGraphDraft: what is refused                                     *)

IsStringSet(s, maximum) == Len(s) <= maximum /\ IsInjective(s)

\* A selector is << >>, for none, or its classes and its other criteria.
IsSelector(selector) ==
    selector # << >> => /\ \A i \in DOMAIN selector : IsStringSet(selector[i], MaxFacts)
                        /\ \E i \in DOMAIN selector : selector[i] # << >>

AreFacts(facts) == IsStringSet(Column(facts, LAMBDA fact : fact.key), MaxFacts)

\* All of normalizeNodes except the cycle.
AreNodes(nodes) ==
    /\ nodes # << >>
    /\ IsStringSet(Ids(nodes), MaxNodes)
    /\ \A node \in ToSet(nodes) :
         /\ IsStringSet(node.dependsOn, MaxDependencies)
         /\ ToSet(node.dependsOn) \subseteq NodeIds(nodes)
         /\ IsStringSet(node.requiredRuleIds, MaxFacts)
         /\ node.acceptanceCriteria # << >> /\ IsInjective(node.acceptanceCriteria)
         /\ IsSelector(node.capabilitySelector)
    /\ \E node \in ToSet(nodes) : node.priority = "mandatory" /\ node.capabilitySelector # << >>

\* maximumTotalCostMicros and costCurrency are sequences of at most one.
AreConstraints(constraints) ==
    /\ IsStringSet(constraints.allowedLicenses, MaxFacts)
    /\ constraints.maximumTotalCostMicros # << >> => constraints.costCurrency # << >>

IsApprovalTarget(target, nodes, constraints) ==
    IF target.kind = "cost"
    THEN /\ constraints.costCurrency \in {<< >>, <<target.currency>>}
         /\ target.billingPeriod = constraints.billingPeriod
    ELSE target.requirementNodeId \in NodeIds(nodes)

AreApprovalIntents(intents, nodes, constraints) ==
    /\ IsStringSet(Column(intents, LAMBDA intent : intent.id), MaxNodes)
    /\ \A intent \in ToSet(intents) : IsApprovalTarget(intent.target, nodes, constraints)

\* The rules that a node or a waiver names are active and apply to the node.
ValidContext(draft) ==
    /\ draft.selectorVocabularyDigest = Canon.vocabulary
    /\ \A fact \in ToSet(draft.facts) : fact.key \in Canon.factKeys
    /\ \A node \in ToSet(draft.nodes) :
         /\ node.capabilitySelector # << >> => ToSet(node.capabilitySelector[1]) \subseteq Canon.classes
         /\ \A rule \in ToSet(node.requiredRuleIds) :
              rule \in Canon.activeRuleIds /\ <<rule, node.id>> \in Canon.applies
    /\ \A intent \in ToSet(draft.approvalIntents) :
         intent.target.kind = "rule-waiver" =>
           /\ intent.target.ruleId \in Canon.activeRuleIds
           /\ <<intent.target.ruleId, intent.target.requirementNodeId>> \in Canon.applies

Acyclic(nodes) == Len(Ordered(nodes)) = Len(nodes)

\* What assertSafeDataTree visits: every object, list, and member or field of one.  A list that
\* has a member twice is refused for that; lists that are left out here are as long in a graph as
\* in its draft, and taken off MaxEntries.
InNodes(nodes, Of(_)) == Cardinality(UNION {{node.id} \X Of(node) : node \in ToSet(nodes)})
Selected(node) ==
    UNION {{i} \X ToSet(node.capabilitySelector[i]) : i \in DOMAIN node.capabilitySelector}
Selecting(nodes) == {node.id : node \in {node \in ToSet(nodes) : node.capabilitySelector # << >>}}

NodeEntries(nodes) ==
    7 * Len(nodes) + 5 * Cardinality(Selecting(nodes)) + InNodes(nodes, Selected)
    + InNodes(nodes, LAMBDA node : ToSet(node.dependsOn))
    + InNodes(nodes, LAMBDA node : ToSet(node.requiredRuleIds))
    + InNodes(nodes, LAMBDA node : ToSet(node.acceptanceCriteria))
IntentEntries(intents) ==
    5 * Len(intents) + Cardinality(UNION {{intent.id} \X DOMAIN intent.target : intent \in ToSet(intents)})

Entries(draft) ==
    16 + 3 * Len(draft.facts) + NodeEntries(draft.nodes) + IntentEntries(draft.approvalIntents)
    + Len(draft.constraints.allowedLicenses) + Len(draft.constraints.costCurrency)
    + Len(draft.constraints.maximumTotalCostMicros)

WellFormed(draft) ==
    /\ Entries(draft) <= MaxEntries
    /\ AreFacts(draft.facts)
    /\ AreNodes(draft.nodes)
    /\ AreConstraints(draft.constraints)
    /\ AreApprovalIntents(draft.approvalIntents, draft.nodes, draft.constraints)
    /\ Acyclic(draft.nodes)

-----------------------------------------------------------------------------
(* Graphs and authorizations in normal form                                 *)

\* A node whose lists are each replaced.
NodeWith(node, dependencies, selector, rules, criteria) ==
    [id |-> node.id, priority |-> node.priority, dependsOn |-> dependencies,
     capabilitySelector |-> selector, requiredRuleIds |-> rules, acceptanceCriteria |-> criteria]

\* Faulty: the criteria stay as they are listed.
NormalNodeAsListed(node) ==
    NodeWith(node, Sorted(node.dependsOn), Column(node.capabilitySelector, Sorted),
             Sorted(node.requiredRuleIds), node.acceptanceCriteria)
NormalNode(node) ==
    NodeWith(node, Sorted(node.dependsOn), Column(node.capabilitySelector, Sorted),
             Sorted(node.requiredRuleIds), Sorted(node.acceptanceCriteria))

NormalizeNodes(nodes) ==
    LET ordered == Ordered(nodes)
    IN  Column(ordered, LAMBDA id : NormalNode(ById(nodes, id)))

\* A draft whose lists are each replaced.
DraftWith(draft, facts, nodes, licenses, intents) ==
    [tenantId |-> draft.tenantId, revision |-> draft.revision,
     selectorVocabularyDigest |-> draft.selectorVocabularyDigest, facts |-> facts, nodes |-> nodes,
     constraints |-> [allowedLicenses |-> licenses, costCurrency |-> draft.constraints.costCurrency,
                      maximumTotalCostMicros |-> draft.constraints.maximumTotalCostMicros,
                      billingPeriod |-> draft.constraints.billingPeriod],
     approvalIntents |-> intents]

NormalizeGraphDraft(draft) ==
    DraftWith(draft, SortedBy(draft.facts, "key"), NormalizeNodes(draft.nodes),
              Sorted(draft.constraints.allowedLicenses), SortedBy(draft.approvalIntents, "id"))

\* What the nodes ask for, however they are named and depend on each other.
ScopePayload(g) ==
    [selectorVocabularyDigest |-> g.selectorVocabularyDigest, facts |-> g.facts,
     nodes |-> ToBag(Column(g.nodes, LAMBDA node :
        [priority |-> node.priority, capabilitySelector |-> node.capabilitySelector,
         requiredRuleIds |-> node.requiredRuleIds]))]

\* A record and more fields.
With(record, more) ==
    [field \in DOMAIN record \cup DOMAIN more |->
        IF field \in DOMAIN record THEN record[field] ELSE more[field]]

FinalizeRequirementGraph(draft) ==
    LET normalized == NormalizeGraphDraft(draft)
        payload == With(normalized, [schemaVersion |-> 1, requirementScopeDigest |-> ScopePayload(normalized)])
    IN  With(payload, [requirementGraphDigest |-> payload])

DraftOf(record) ==
    [field \in DOMAIN record \ {"schemaVersion", "requirementScopeDigest", "requirementGraphDigest"}
        |-> record[field]]

\* Faulty: a graph whose content is in order is taken to have its digests.
GraphIntegrityOfContent(record) == record # NoRecord /\ WellFormed(DraftOf(record))

\* assertRequirementGraphIntegrity, which is given no context here.  The schema version and the
\* two digests are entries, too.
RequirementGraphIntegrity(record) ==
    /\ record # NoRecord
    /\ Entries(DraftOf(record)) + 3 <= MaxEntries
    /\ WellFormed(DraftOf(record))
    /\ FinalizeRequirementGraph(DraftOf(record)) = record

\* A time is written as an hour and its offset from UTC; normalized, the offset is 0.
NormalizeTimestamp(t) == [hour |-> t.hour - t.offset, offset |-> 0]
Instant(t) == NormalizeTimestamp(t).hour
Written(instant, offset) == [hour |-> instant + offset, offset |-> offset]

\* expiresAt is a sequence of at most one.
IsAuthorizationDraft(draft) ==
    \A t \in ToSet(draft.expiresAt) : Instant(t) > Instant(draft.authorizedAt)

FinalizeAuthorization(draft) ==
    LET payload == [draft EXCEPT !.authorizedAt = NormalizeTimestamp(@),
                                 !.expiresAt = Column(@, NormalizeTimestamp)]
    IN  With(payload, [schemaVersion |-> 1, authorizationDigest |-> payload])

AuthorizationDraftOf(record) ==
    [field \in DOMAIN record \ {"schemaVersion", "authorizationDigest"} |-> record[field]]

AuthorizationIntegrity(record) ==
    /\ record # NoRecord
    /\ IsAuthorizationDraft(AuthorizationDraftOf(record))
    /\ FinalizeAuthorization(AuthorizationDraftOf(record)) = record

\* assertRequirementGraphAuthorizationIntegrity, with the time of the evaluation.
AuthorizationAccepts(record, g, evaluatedAt) ==
    /\ AuthorizationIntegrity(record)
    /\ record.tenantId = g.tenantId
    /\ record.requirementGraphDigest = g.requirementGraphDigest
    /\ Instant(record.authorizedAt) <= Instant(evaluatedAt)
    /\ \A t \in ToSet(record.expiresAt) : Instant(evaluatedAt) < Instant(t)
    /\ AuthorizationDraftOf(record) \in issued
    /\ RequirementGraphIntegrity(g)

-----------------------------------------------------------------------------
(* The holder of the records, and the authority                             *)

Begin ==
    /\ project = << >>
    /\ project' \in Project
    /\ UNCHANGED <<graph, authorization, accepted, clock, issued, edits>>

\* The holder has a revision of the project finalized.
Finalize(draft) ==
    /\ WellFormed(draft) /\ ValidContext(draft)
    /\ graph' = FinalizeRequirementGraph(draft)
    /\ UNCHANGED <<project, authorization, accepted, clock, issued, edits>>

\* The authority authorizes a graph that it was shown, from now, and gives a receipt.
Authorize(offset, expiresAt) ==
    LET draft == [tenantId |-> graph.tenantId, requirementGraphDigest |-> graph.requirementGraphDigest,
                  authorizedAt |-> Written(clock, offset), expiresAt |-> expiresAt]
    IN  /\ graph # NoRecord /\ Cardinality(issued) < MaxReceipts
        /\ IsAuthorizationDraft(draft)
        /\ RequirementGraphIntegrity(graph)
        /\ authorization' = FinalizeAuthorization(draft)
        /\ issued' = issued \cup {AuthorizationDraftOf(authorization')}
        /\ UNCHANGED <<project, graph, accepted, clock, edits>>

Expiry == {<< >>} \cup {<<Written(t, offset)>> : t \in 1..MaxClock, offset \in Offset}

\* The holder changes a graph; its digests are kept, or made anew.
EditGraph ==
    /\ graph # NoRecord /\ edits < MaxEdits
    /\ \E record \in {[graph EXCEPT !.tenantId = t] : t \in Tenant} \cup
                     {[graph EXCEPT !.nodes = Reverse(@)], [graph EXCEPT !.facts = << >>]} :
         graph' \in {record, FinalizeRequirementGraph(DraftOf(record))}
    /\ edits' = edits + 1
    /\ UNCHANGED <<project, authorization, accepted, clock, issued>>

EditAuthorization ==
    /\ authorization # NoRecord /\ edits < MaxEdits
    /\ \E record \in {[authorization EXCEPT !.tenantId = t] : t \in Tenant} \cup
                     {[authorization EXCEPT !.expiresAt = << >>],
                      [authorization EXCEPT !.requirementGraphDigest = graph.requirementGraphDigest]} :
         authorization' \in {record, FinalizeAuthorization(AuthorizationDraftOf(record))}
    /\ edits' = edits + 1
    /\ UNCHANGED <<project, graph, accepted, clock, issued>>

ClockTicks ==
    /\ issued # {} /\ clock < MaxClock
    /\ clock' = clock + 1
    /\ UNCHANGED <<project, graph, authorization, accepted, issued, edits>>

Verify(offset) ==
    /\ AuthorizationAccepts(authorization, graph, Written(clock, offset))
    /\ accepted' = [graph |-> graph, at |-> clock]
    /\ UNCHANGED <<project, graph, authorization, clock, issued, edits>>

GraphNext ==
    \/ Begin
    \/ \E draft \in ToSet(project) : Finalize(draft)
    \/ \E offset \in Offset, expiresAt \in Expiry : Authorize(offset, expiresAt)
    \/ EditGraph \/ EditAuthorization \/ ClockTicks
    \/ \E offset \in Offset : Verify(offset)

GraphSpec == GraphInit /\ [][GraphNext]_graphVars

-----------------------------------------------------------------------------
(* Properties                                                               *)

\* All orders of the nodes in which each comes after what it depends on.
Topological(nodes) ==
    {order \in SetToSeqs(NodeIds(nodes)) :
       \A i \in DOMAIN order : ToSet(ById(nodes, order[i]).dependsOn) \subseteq {order[j] : j \in 1..i-1}}

Before(s, r) == \E i \in DOMAIN s : s[i] < r[i] /\ \A j \in 1..i-1 : s[j] = r[j]

\* A dependency cycle is some nodes of which each depends on one of them.
Cyclic(nodes) ==
    \E ids \in (SUBSET NodeIds(nodes)) \ {{}} :
        \A id \in ids : ToSet(ById(nodes, id).dependsOn) \cap ids # {}

\* Nodes are ordered unless they depend on each other in a cycle, each after all it
\* depends on; and of the orders of that kind it is the first, so that the order of a
\* graph does not depend on how its draft lists the nodes.
OrderIsRight ==
    graph = NoRecord => \A draft \in ToSet(project) :
        LET nodes == draft.nodes
            ordered == Ordered(nodes)
            topological == Topological(nodes)
        IN  AreNodes(nodes) =>
              /\ Acyclic(nodes) = ~Cyclic(nodes)
              /\ Acyclic(nodes) => /\ ordered \in topological
                                  /\ \A order \in topological \ {ordered} : Before(ordered, order)

\* A node with all its lists reversed.
Turned(node) ==
    NodeWith(node, Reverse(node.dependsOn), Column(node.capabilitySelector, Reverse),
             Reverse(node.requiredRuleIds), Reverse(node.acceptanceCriteria))

\* The draft listed the other way round, wherever a list stands for a set.
Relisted(draft) ==
    DraftWith(draft, Reverse(draft.facts), Reverse(Column(draft.nodes, Turned)),
              Reverse(draft.constraints.allowedLicenses), Reverse(draft.approvalIntents))

\* What finalize returns is accepted by the integrity check, which finalizes it again, exactly
\* if its three more entries are within the bound (of a draft that is within three entries of
\* the bound, a graph is made that is never accepted); and a draft that lists the same in another
\* order has the same graph and digests.
FinalizedIsStable ==
    graph = NoRecord => \A draft \in ToSet(project) :
        /\ WellFormed(draft) = WellFormed(Relisted(draft))
        /\ WellFormed(draft) =>
             LET finalized == FinalizeRequirementGraph(draft)
             IN  /\ RequirementGraphIntegrity(finalized) = (Entries(draft) + 3 <= MaxEntries)
                 /\ finalized = FinalizeRequirementGraph(Relisted(draft))

\* Whatever the holder changes in a graph or in its authorization, wherever a time is
\* written, and although the graph moves on to another revision: what is accepted is
\* a graph that the authority was shown, in its own project, and while it is authorized.
AcceptedAsAuthorized ==
    accepted # NoRecord =>
        \E receipt \in issued :
            /\ FinalizeRequirementGraph(DraftOf(receipt.requirementGraphDigest)) = accepted.graph
            /\ receipt.tenantId = accepted.graph.tenantId
            /\ accepted.at >= receipt.authorizedAt.hour
            /\ \A t \in ToSet(receipt.expiresAt) : accepted.at < t.hour
=============================================================================
