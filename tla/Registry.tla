------------------------------ MODULE Registry ------------------------------
(***************************************************************************)
(* What an organization has told the Studio (studio/access-store.mjs): its *)
(* nodes, which enrol with a token and report what they can do, its        *)
(* connections to providers, its models and its orchestration profile; and *)
(* the assignment of roles that is made of them (studio/orchestration.mjs).*)
(* Every operation is an update: it computes a store, and saves it only if *)
(* `validate` accepts it.                                                  *)
(***************************************************************************)
EXTENDS Integers, FiniteSets, SequencesExt

CONSTANTS
    Machine,       \* the nodes there may be, one per enrollment, in the order of their ids
    MaxPower,      \* 4096 processors, and all the memory a number can say
    Provider,
    Connection,    \* connections there may be: a provider and a display name
    ProviderOf,
    Model,         \* models there may be, in the order of their ids
    ConnectionOf,
    Capabilities,  \* role_capabilities
    Role,          \* the roles beside the head
    Setting,       \* configurations of a provider on a node
    BindKey,       \* idempotency keys of a node
    Null,
    Assignments,   \* what profiles are asked for, of each role: a model and a node, or Null
    MaxProfiles    \* bound: on revisions of the profile

ASSUME RegistryAssumption ==
    /\ Machine \subseteq Nat /\ Model \subseteq Nat /\ MaxPower \in Nat
    /\ Null \notin [model : Model, node : Machine] /\ Null \notin {"automatic", "manual"}
    /\ Assignments \subseteq [Role -> [model : Model, node : Machine] \cup {Null}]
    /\ ProviderOf \in [Connection -> Provider] /\ ConnectionOf \in [Model -> Connection]

VARIABLES
    data,     \* what the store keeps of all this
    silent,   \* nodes whose last heartbeat is more than 90 seconds old
    overdue   \* enrollments whose ten minutes are over

registryVars == <<data, silent, overdue>>

\* Numbers of processors, and amounts of memory, as one number.
Power == 1..MaxPower

Reports == [adapters : SUBSET Provider, power : Power]
Reported(report) == [active |-> TRUE, adapters |-> report.adapters, power |-> report.power]
NoNode == [active |-> FALSE, adapters |-> {}, power |-> 0]
Unbound == [status |-> "pending_agent", agent_id |-> Null, config |-> Null]
NoProfile == [mode |-> Null, head |-> Null, assignments |-> [r \in Role |-> Null], revision |-> 0]

RegistryInit ==
    /\ data = [enrollments |-> [m \in Machine |-> "none"],
               nodes |-> [m \in Machine |-> NoNode],
               connections |-> [c \in Connection |-> [Unbound EXCEPT !.status = "none"]],
               models |-> {},
               profile |-> NoProfile,
               idempotency |-> {}]
    /\ silent = {}
    /\ overdue = {}

-----------------------------------------------------------------------------
(* validate                                                                 *)

Capable(model, role) == {role, "general"} \cap Capabilities[model] # {}
ProviderFor(model) == ProviderOf[ConnectionOf[model]]

ConnectionValid(d, c) ==
    d.connections[c].status = "ready" =>
        /\ d.connections[c].agent_id # Null /\ d.connections[c].config # Null
        /\ ProviderOf[c] \in d.nodes[d.connections[c].agent_id].adapters

\* Whether the assignment of a role may stand in a manual profile.
AssignmentValid(d, role, assigned) ==
    assigned # Null =>
        /\ assigned.model \in d.models /\ Capable(assigned.model, role)
        /\ d.nodes[assigned.node].active
        /\ ProviderFor(assigned.model) \in d.nodes[assigned.node].adapters

ProfileValid(d) ==
    d.profile.mode # Null =>
        /\ d.profile.head \in d.models /\ Capable(d.profile.head, "head")
        /\ \A role \in Role :
             IF d.profile.mode = "automatic" THEN d.profile.assignments[role] = Null
             ELSE AssignmentValid(d, role, d.profile.assignments[role])

Valid(d) == (\A c \in Connection : ConnectionValid(d, c)) /\ ProfileValid(d)

\* update: what the operation computed is saved, or nothing is.
Update(d) == Valid(d) /\ data' = d

-----------------------------------------------------------------------------
(* Nodes                                                                    *)

CreateNodeEnrollment(m) ==
    /\ data.enrollments[m] = "none"
    /\ Update([data EXCEPT !.enrollments[m] = "pending"])
    /\ UNCHANGED <<silent, overdue>>

EnrollmentExpires(m) ==
    /\ data.enrollments[m] = "pending"
    /\ overdue' = overdue \cup {m}
    /\ UNCHANGED <<data, silent>>

EnrollNode(m, report) ==
    /\ data.enrollments[m] = "pending" /\ m \notin overdue
    /\ Update([data EXCEPT !.enrollments[m] = "consumed",
                           !.nodes[m] = Reported(report)])
    /\ UNCHANGED <<silent, overdue>>

Online(m) == data.nodes[m].active /\ m \notin silent

\* Faulty: connections stay as they are.
HeardOnly(d, m, report) == [d EXCEPT !.nodes[m] = Reported(report)]

\* The connections of the node whose provider it does not name any more wait for an agent
\* again.
Heard(d, m, report) ==
    [d EXCEPT !.nodes[m] = Reported(report),
              !.connections = [c \in Connection |->
                  IF @[c].status = "ready" /\ @[c].agent_id = m /\ ProviderOf[c] \notin report.adapters
                  THEN Unbound ELSE @[c]]]

HeartbeatNode(m, report) ==
    /\ data.nodes[m].active
    /\ Update(Heard(data, m, report))
    /\ silent' = silent \ {m}
    /\ UNCHANGED overdue

NodeFallsSilent(m) ==
    /\ Online(m)
    /\ silent' = silent \cup {m}
    /\ UNCHANGED <<data, overdue>>

-----------------------------------------------------------------------------
(* Connections, models and the profile                                      *)

\* A second connection of the same provider and name is the first.
CreateProviderConnection(c) ==
    /\ data.connections[c].status = "none"
    /\ Update([data EXCEPT !.connections[c] = Unbound])
    /\ UNCHANGED <<silent, overdue>>

\* A request that was answered once is answered alike, and a key that was used for another
\* request is refused: neither changes the store.
BindProviderConnection(m, c, setting, key) ==
    LET connection == data.connections[c]
        request == [node |-> m, connection |-> c, config |-> setting]
    IN  /\ Online(m) /\ connection.status # "none"
        /\ ProviderOf[c] \in data.nodes[m].adapters
        /\ \A answered \in data.idempotency : <<answered.request.node, answered.key>> # <<m, key>>
        /\ connection.status = "ready" => connection.agent_id = m /\ connection.config = setting
        /\ Update([data EXCEPT !.connections[c] = [status |-> "ready", agent_id |-> m, config |-> setting],
                               !.idempotency = @ \cup {[key |-> key, request |-> request]}])
        /\ UNCHANGED <<silent, overdue>>

CreateModel(model) ==
    /\ data.connections[ConnectionOf[model]].status # "none"
    /\ model \notin data.models
    /\ Update([data EXCEPT !.models = @ \cup {model}])
    /\ UNCHANGED <<silent, overdue>>

\* What is refused of the request is what validate refuses of the profile.
SaveOrchestrationProfile(mode, head, assignments) ==
    /\ data.profile.revision < MaxProfiles
    /\ Update([data EXCEPT !.profile = [mode |-> mode, head |-> head, assignments |-> assignments,
                                        revision |-> @.revision + 1]])
    /\ UNCHANGED <<silent, overdue>>

-----------------------------------------------------------------------------
(* resolveOrchestrationAssignment                                           *)

\* A pair of a model and a node that could take a role.
Available(role) ==
    {pair \in [model : data.models, node : Machine] :
        LET connection == data.connections[ConnectionOf[pair.model]]
        IN  /\ Capable(pair.model, role) /\ Online(pair.node)
            /\ ProviderFor(pair.model) \in data.nodes[pair.node].adapters
            /\ connection.status = "ready" => connection.agent_id = pair.node}

\* An exact capability first, then what the node can do, then the ids.
Rank(pair, role) ==
    <<IF role \in Capabilities[pair.model] THEN 0 ELSE 1, - data.nodes[pair.node].power, pair.model, pair.node>>
Precedes(r, s) == \E i \in 1..4 : r[i] < s[i] /\ \A j \in 1..i - 1 : r[j] = s[j]
FirstOf(pairs, role) ==
    IF pairs = {} THEN Null
    ELSE CHOOSE p \in pairs : \A q \in pairs \ {p} : Precedes(Rank(p, role), Rank(q, role))

HeadAssignment ==
    LET pairs == {pair \in [model : data.models, node : Machine] : pair.model = data.profile.head}
                     \cap Available("head")
    IN  FirstOf(pairs, "head")

Chosen(role) ==
    IF data.profile.mode = "manual"
    THEN IF data.profile.assignments[role] \in Available(role) THEN data.profile.assignments[role] ELSE Null
    ELSE FirstOf(Available(role), role)

Apart(p, q) == p.model # q.model /\ p.node # q.node

\* Faulty: one difference is thought to be enough.
ResolvedApartInPart(roles, role) ==
    LET chosen == Chosen(role)
        coder == Chosen("coder")
    IN  IF \/ role \notin {"reviewer", "validator"} \/ "coder" \notin roles
           \/ chosen = Null \/ coder = Null \/ Apart(chosen, coder)
        THEN chosen
        ELSE IF data.profile.mode = "automatic"
        THEN FirstOf({p \in Available(role) : p.model # coder.model \/ p.node # coder.node}, role)
        ELSE Null

\* A reviewer or validator that is not apart from the coder is replaced, or left out.
Resolved(roles, role) ==
    LET chosen == Chosen(role)
        coder == Chosen("coder")
    IN  IF \/ role \notin {"reviewer", "validator"} \/ "coder" \notin roles
           \/ chosen = Null \/ coder = Null \/ Apart(chosen, coder)
        THEN chosen
        ELSE IF data.profile.mode = "automatic"
        THEN FirstOf({p \in Available(role) : Apart(p, coder)}, role)
        ELSE Null

Resolution(roles) ==
    LET assigned == [role \in roles |-> Resolved(roles, role)]
    IN  [head |-> HeadAssignment, assignments |-> assigned,
         status |-> IF HeadAssignment # Null /\ \A role \in roles : assigned[role] # Null
                    THEN "READY" ELSE "MANUAL_REVIEW_REQUIRED"]

-----------------------------------------------------------------------------
RegistryNext ==
    \/ \E m \in Machine :
         \/ CreateNodeEnrollment(m) \/ EnrollmentExpires(m) \/ NodeFallsSilent(m)
         \/ \E report \in Reports : EnrollNode(m, report) \/ HeartbeatNode(m, report)
         \/ \E c \in Connection, setting \in Setting, key \in BindKey :
              BindProviderConnection(m, c, setting, key)
    \/ \E c \in Connection : CreateProviderConnection(c)
    \/ \E model \in Model : CreateModel(model)
    \/ \E mode \in {"automatic", "manual"}, head \in data.models, assignments \in Assignments :
         SaveOrchestrationProfile(mode, head, assignments)

RegistrySpec == RegistryInit /\ [][RegistryNext]_registryVars

-----------------------------------------------------------------------------
(* Properties                                                               *)

\* A node may report whatever it has come to lack, whatever was bound to it or assigned from
\* it before; the store refuses only what a manual profile has fixed on the node, which
\* therefore falls silent.
ReportsAccepted ==
    \A m \in Machine, adapters \in SUBSET Provider :
        data.nodes[m].active =>
            (Valid(Heard(data, m, [adapters |-> adapters, power |-> data.nodes[m].power])) <=>
                \A role \in Role :
                    LET fixed == data.profile.assignments[role]
                    IN  fixed # Null /\ fixed.node = m => ProviderFor(fixed.model) \in adapters)

\* An assignment that is ready names, of what was reported last, only nodes that are online
\* and have the provider, and the bound one where a connection is bound; who reviews or
\* validates shares neither model nor node with who codes.  An automatic assignment that is
\* not ready lacks a role for which nothing of that kind is left.
AssignmentsApart ==
    data.profile.mode # Null => \A roles \in (SUBSET Role) \ {{}} :
        LET assigned == Resolution(roles).assignments
            Suits(role, pair) ==
                /\ pair \in Available(role)
                /\ role \in {"reviewer", "validator"} /\ "coder" \in roles /\ assigned["coder"] # Null =>
                     Apart(pair, assigned["coder"])
        IN  \A role \in roles :
              /\ assigned[role] # Null => Suits(role, assigned[role])
              /\ assigned[role] = Null /\ data.profile.mode = "automatic" =>
                   \A pair \in Available(role) : ~Suits(role, pair)
=============================================================================
