----------------------------- MODULE NodeAgent -----------------------------
(***************************************************************************)
(* The program that runs on a node (agent/node-agent.mjs) together with    *)
(* the task dispatch it talks to: "execute" claims the oldest role queued  *)
(* for the node, reports its start, fetches what the role before it made,  *)
(* calls the model, uploads the result and reports the end.                *)
(*                                                                         *)
(* A call of execute has a prefix from which it makes the idempotency keys *)
(* of its requests, so a claim stands for all calls of a node with one     *)
(* prefix: they run one after another, and calls with different prefixes   *)
(* run at the same time.                                                   *)
(*                                                                         *)
(* A request can be refused, be lost before the service handles it, or     *)
(* lose its answer: to the agent all three are errors.  A request it gave  *)
(* up may be handled at once or later, when the next call has begun.       *)
(***************************************************************************)
EXTENDS Dispatch, FiniteSets, Functions

CONSTANTS
    MaxConfig,     \* bound: on configurations of the one provider of a node
    NoArtifact,
    ArtifactLimit, \* the 64 artifacts the store has room for
    MaxRuns,       \* bound: on calls of execute with one prefix
    MaxExecutions, \* bound: on calls of execute whose claim is answered
    MaxLate        \* bound: on requests under way whose sender has given up

ASSUME AgentBoundAssumption ==
    /\ MaxConfig \in Nat \ {0} /\ MaxRuns \in Nat \ {0} /\ MaxExecutions \in Nat /\ MaxLate \in Nat
    /\ ArtifactLimit \in Nat
\* Prefixes are numbered in the order of their first claims.
ASSUME KeyAssumption == Key \subseteq Nat

Run == 1..MaxRuns

\* Configurations are numbered in the order in which a node has them.
Config == 1..MaxConfig
NoConfig == 0

\* An artifact is named after its ciphertext, which no two encryptions share.
Artifact == Claims \X Run
ASSUME NoArtifactAssumption == NoArtifact \notin Artifact

VARIABLES
    conn,         \* the configuration of the node's connection that is ready
    bindings,     \* of each approval: the configuration of each role, or << >>
    envelope,     \* the recorded answer to each claim
    started,      \* the run whose start an attempt was given
    predecessor,  \* of each role of a task: predecessor_artifact_id
    artifacts,    \* that the store keeps
    local,        \* providers.json of each node
    agent,        \* the call of execute with the prefix of a claim
    late,         \* requests under way whose sender has given up
    calls         \* of the model: what was called, kept to state properties

serviceVars == <<conn, bindings, envelope, started, predecessor, artifacts>>
nodeVars == <<local, agent, late, calls>>
agentVars == <<vars, serviceVars, nodeVars>>

Stage == {"idle", "start", "fetch", "model", "upload", "finish"}
Request == [kind : {"start", "upload", "finish"}, claim : Claims, run : Run,
            artifact : Artifact \cup {NoArtifact}]

AgentInit ==
    /\ Init
    /\ local = [n \in Node |-> 1]
    /\ conn = local
    /\ bindings = [t \in Task |-> << >>]
    /\ envelope = [c \in Claims |-> [binding |-> NoConfig, predecessor |-> NoArtifact]]
    /\ started = [c \in Claims |-> 0]
    /\ predecessor = [t \in Task |-> [i \in Roles(t) |-> NoArtifact]]
    /\ artifacts = {}
    /\ agent = [c \in Claims |-> [pc |-> "idle", run |-> 0, config |-> NoConfig,
                                  artifact |-> NoArtifact]]
    /\ late = {}
    /\ calls = {}

-----------------------------------------------------------------------------
(* Provider connections and approvals                                       *)

\* configureOllama once more: the file of the node keeps what it has, and a
\* connection that is ready with another configuration is not bound again.
ConfigureOllama(n) ==
    /\ n \in online
    /\ conn[n] = NoConfig
    /\ conn' = [conn EXCEPT ![n] = local[n]]
    /\ UNCHANGED <<vars, bindings, envelope, started, predecessor, artifacts, nodeVars>>

\* The operator replaces the entry in providers.json, which execute alone reads.
OperatorEditsProviders(n) ==
    /\ local[n] < MaxConfig
    /\ local' = [local EXCEPT ![n] = @ + 1]
    /\ UNCHANGED <<vars, serviceVars, agent, late, calls>>

\* A heartbeat that no longer names the provider; no manual profile names the node, or the
\* store would refuse it (Registry).
HeartbeatWithoutAdapter(n) ==
    /\ conn[n] # NoConfig
    /\ conn' = [conn EXCEPT ![n] = NoConfig]
    /\ online' = online \cup {n}
    /\ UNCHANGED <<dispatch_epoch, revision, tasks, approvals, attempts, recoveries,
                   bindings, envelope, started, predecessor, artifacts, nodeVars>>

Ready(t) == \A i \in Roles(t) : conn[Assignment[t][i]] # NoConfig
BuildExecutionBindings(t) == [i \in Roles(t) |-> conn[Assignment[t][i]]]

\* Without model_execution the task is only kept account of.
Approve(t, model_execution) ==
    /\ ApproveDispatchTask(t)
    /\ model_execution => Ready(t)
    /\ bindings' = [bindings EXCEPT ![t] =
           Append(@, IF model_execution THEN BuildExecutionBindings(t) ELSE << >>)]
    /\ UNCHANGED <<conn, envelope, started, predecessor, artifacts, nodeVars>>

ApproveRecovery(r) ==
    LET model_execution == bindings[r.task][attempts[r.attempt].approval] # << >>
    IN  /\ ApproveDispatchRecovery(r)
        /\ model_execution => Ready(r.task)
        /\ bindings' = [bindings EXCEPT ![r.task] =
               Append(@, IF model_execution THEN BuildExecutionBindings(r.task) ELSE << >>)]
        /\ UNCHANGED <<conn, envelope, started, predecessor, artifacts, nodeVars>>

-----------------------------------------------------------------------------
(* What the service does with the requests of execute                       *)

BindingOf(c) ==
    LET bound == bindings[attempts[c].task][attempts[c].approval]
    IN  IF bound = << >> THEN NoConfig ELSE bound[attempts[c].role]

\* A claim under an approval of model execution wants the connection as it was
\* approved.
Claim(c) ==
    /\ \A d \in Claims : d[1] = c[1] /\ d[2] < c[2] => attempts[d].status # "none"
    /\ ClaimDispatch(c)
    /\ UNCHANGED <<conn, bindings, started, predecessor, artifacts>>
    /\ BindingOf(c)' # NoConfig => conn[c[1]] = BindingOf(c)'
    /\ envelope' = [envelope EXCEPT ![c] =
           [binding |-> BindingOf(c)',
            predecessor |-> predecessor[attempts'[c].task][attempts'[c].role]]]

\* The recorded answer to a claim of the current epoch.
ClaimAgain(c) ==
    /\ c[1] \in online
    /\ attempts[c].status # "none"
    /\ attempts[c].dispatch_epoch = ReconciledEpoch
    /\ ListTasks
    /\ UNCHANGED serviceVars

\* Faulty: the key alone tells a repeated start.
StartOrRepeat(c, run) ==
    /\ \/ StartDispatch(c) /\ started' = [started EXCEPT ![c] = run]
       \/ /\ started[c] # 0 /\ EventAccepted(c) /\ ListTasks
          /\ UNCHANGED started
    /\ UNCHANGED <<conn, bindings, envelope, predecessor, artifacts>>

\* Every run reports its own time of start: the start of a second run of the same
\* prefix is refused when that of an earlier one was accepted.
Start(c, run) ==
    /\ StartDispatch(c)
    /\ started' = [started EXCEPT ![c] = run]
    /\ UNCHANGED <<conn, bindings, envelope, predecessor, artifacts>>

\* The attempt is at work for an organization that has not given it up; nothing is
\* recorded here of one that lost its lease.
AtWork(c) ==
    /\ c[1] \in online
    /\ ~attempts[c].lapsed
    /\ attempts[c].dispatch_epoch = dispatch_epoch
    /\ tasks[attempts[c].task].dispatch_epoch = dispatch_epoch
    /\ bindings[attempts[c].task][attempts[c].approval] # << >>

\* dispatchArtifact: for whoever the node is at work for on the role after it.
Fetchable(n, artifact) ==
    /\ artifact \in artifacts
    /\ \E t \in Task : \E i \in DOMAIN tasks[t].dispatches :
         /\ Assignment[t][i] = n
         /\ predecessor[t][i] = artifact
         /\ tasks[t].dispatches[i].status \in {"CLAIMED", "RUNNING"}
         /\ AtWork(tasks[t].dispatches[i].attempt)

\* Faulty: the oldest artifacts make room.
PutMakingRoom(c, run) ==
    /\ attempts[c].status = "RUNNING"
    /\ AtWork(c)
    /\ \A artifact \in artifacts : artifact[1] # c
    /\ artifacts' = IF Cardinality(artifacts) < ArtifactLimit
                    THEN artifacts \cup {<<c, run>>} ELSE {<<c, run>>}
    /\ UNCHANGED <<vars, conn, bindings, envelope, started, predecessor>>

\* A second upload under one key is a conflict: it is another ciphertext.
PutDispatchArtifact(c, run) ==
    /\ attempts[c].status = "RUNNING"
    /\ AtWork(c)
    /\ \A artifact \in artifacts : artifact[1] # c
    /\ Cardinality(artifacts) < ArtifactLimit
    /\ artifacts' = artifacts \cup {<<c, run>>}
    /\ UNCHANGED <<vars, conn, bindings, envelope, started, predecessor>>

\* The receipt of a success names the artifact, which is handed on.
Finish(c, run, artifact) ==
    LET task == attempts[c].task
        next == attempts[c].role + 1
        status == IF artifact = NoArtifact THEN "FAILED" ELSE "SUCCEEDED"
    IN  /\ FinishDispatch(c, status)
        /\ started[c] = run
        /\ status = "SUCCEEDED" => artifact \in artifacts /\ artifact[1] = c
        /\ predecessor' = IF status = "SUCCEEDED" /\ next \in Roles(task)
                          THEN [predecessor EXCEPT ![task][next] = artifact]
                          ELSE predecessor
        /\ UNCHANGED <<conn, bindings, envelope, started, artifacts>>

Handle(request) ==
    \/ request.kind = "start" /\ Start(request.claim, request.run)
    \/ request.kind = "upload" /\ PutDispatchArtifact(request.claim, request.run)
    \/ request.kind = "finish" /\ Finish(request.claim, request.run, request.artifact)

-----------------------------------------------------------------------------
(* execute                                                                  *)

\* Faulty: the model of the node is called, whichever was approved.
BegunWithLocal(c, binding) ==
    IF binding # NoConfig
    THEN [pc |-> "start", run |-> agent[c].run + 1, config |-> local[c[1]], artifact |-> NoArtifact]
    ELSE [agent[c] EXCEPT !.run = @ + 1]

\* The answer to the claim leads to a start only if the node is configured as the
\* envelope says.
Begun(c, binding) ==
    IF local[c[1]] = binding
    THEN [pc |-> "start", run |-> agent[c].run + 1, config |-> local[c[1]], artifact |-> NoArtifact]
    ELSE [agent[c] EXCEPT !.run = @ + 1]

Executions == FoldFunctionOnSet(+, 0, [c \in Claims |-> agent[c].run], Claims)

ExecuteNextDispatch(c) ==
    /\ agent[c].pc = "idle"
    /\ agent[c].run < MaxRuns
    /\ Executions < MaxExecutions
    /\ Claim(c) \/ ClaimAgain(c)
    /\ agent' = [agent EXCEPT ![c] = Begun(c, envelope'[c].binding)]
    /\ UNCHANGED <<local, late, calls>>

\* The claim is handled and the answer lost.
ClaimUnanswered(c) == Claim(c) /\ UNCHANGED nodeVars

\* The request that a run at work has to make next.
RequestOf(c) == [kind |-> agent[c].pc, claim |-> c, run |-> agent[c].run, artifact |-> agent[c].artifact]
Requesting(c) == agent[c].pc \in {"start", "upload", "finish"}

Goes(c, stage, artifact) ==
    agent' = [agent EXCEPT ![c].pc = stage, ![c].artifact = artifact,
                           ![c].config = IF stage = "idle" THEN NoConfig ELSE @]

\* An error between start and finish becomes the report of a failure; one of the
\* start or the finish ends the call.
Error(c) ==
    IF agent[c].pc \in {"fetch", "model", "upload"} THEN Goes(c, "finish", NoArtifact)
    ELSE Goes(c, "idle", NoArtifact)

Answered(c) ==
    /\ Requesting(c)
    /\ Handle(RequestOf(c))
    /\ CASE agent[c].pc = "start" ->
              Goes(c, IF envelope[c].predecessor = NoArtifact THEN "model" ELSE "fetch", NoArtifact)
         [] agent[c].pc = "upload" -> Goes(c, "finish", <<c, agent[c].run>>)
         [] agent[c].pc = "finish" -> Goes(c, "idle", NoArtifact)
    /\ UNCHANGED <<local, late, calls>>

FetchArtifact(c) ==
    /\ agent[c].pc = "fetch"
    /\ Fetchable(c[1], envelope[c].predecessor)
    /\ Goes(c, "model", NoArtifact)
    /\ UNCHANGED <<vars, serviceVars, local, late, calls>>

\* invokeConfiguredModel, which may have reached the model before it fails.
InvokeConfiguredModel(c) ==
    /\ agent[c].pc = "model"
    /\ calls' = calls \cup {[claim |-> c, run |-> agent[c].run, config |-> agent[c].config]}
    /\ \E stage \in {"upload", "finish"} : Goes(c, stage, NoArtifact)
    /\ UNCHANGED <<vars, serviceVars, local, late>>

\* What becomes of a request nobody waits for.
Abandoned(c) ==
    late' \in {late} \cup
        (IF Requesting(c) /\ Cardinality(late) < MaxLate THEN {late \cup {RequestOf(c)}} ELSE {})

GivesUp(c) ==
    /\ Requesting(c) \/ agent[c].pc = "fetch"
    /\ Error(c)
    /\ Abandoned(c)
    /\ UNCHANGED <<vars, serviceVars, local, calls>>

\* The process ends, also because the clock stepped back under it.
AgentCrash(c) ==
    /\ agent[c].pc # "idle"
    /\ Goes(c, "idle", NoArtifact)
    /\ Abandoned(c)
    /\ UNCHANGED <<vars, serviceVars, local, calls>>

LateArrival(request) ==
    /\ request \in late
    /\ Handle(request)
    /\ late' = late \ {request}
    /\ UNCHANGED <<local, agent, calls>>

-----------------------------------------------------------------------------
Elsewhere ==
    /\ \/ ListTasks
       \/ SaveOrchestrationProfile
       \/ \E t \in Task : CreateDispatchTask(t)
       \/ \E c \in Claims : AssessDispatchRecovery(c)
       \/ \E n \in Node : HeartbeatNode(n)
       \/ Time
    /\ UNCHANGED <<serviceVars, nodeVars>>

Administration ==
    \/ \E n \in Node :
         HeartbeatWithoutAdapter(n) \/ ConfigureOllama(n) \/ OperatorEditsProviders(n)
    \/ \E t \in Task, model_execution \in BOOLEAN : Approve(t, model_execution)
    \/ \E r \in recoveries : ApproveRecovery(r)

Execution ==
    \/ \E c \in Claims :
         \/ ExecuteNextDispatch(c) \/ ClaimUnanswered(c) \/ Answered(c)
         \/ FetchArtifact(c) \/ InvokeConfiguredModel(c) \/ GivesUp(c) \/ AgentCrash(c)
    \/ \E request \in late : LateArrival(request)

AgentNext == Elsewhere \/ Administration \/ Execution

AgentSpec == AgentInit /\ [][AgentNext]_agentVars

\* Time passes and somebody looks at the task list now and then; execute does not
\* renew its lease.
AgentFairSpec ==
    /\ AgentSpec
    /\ WF_agentVars(ListTasks /\ UNCHANGED <<serviceVars, nodeVars>>)
    /\ WF_agentVars((\E c \in Claims : LeaseExpires(c)) /\ UNCHANGED <<serviceVars, nodeVars>>)

-----------------------------------------------------------------------------
(* Properties                                                               *)

\* Every variable has its type; every approval has its bindings.
AgentTypeOK ==
    /\ TypeOK
    /\ conn \in [Node -> Config \cup {NoConfig}]
    /\ \A t \in Task : /\ Len(bindings[t]) = Len(approvals[t])
                       /\ \A i \in DOMAIN bindings[t] :
                            bindings[t][i] \in {<< >>} \cup [Roles(t) -> Config]
    /\ envelope \in [Claims -> [binding : Config \cup {NoConfig},
                                predecessor : Artifact \cup {NoArtifact}]]
    /\ started \in [Claims -> {0} \cup Run]
    /\ \A t \in Task : predecessor[t] \in [Roles(t) -> Artifact \cup {NoArtifact}]
    /\ artifacts \subseteq Artifact
    /\ local \in [Node -> Config]
    /\ agent \in [Claims -> [pc : Stage, run : {0} \cup Run, config : Config \cup {NoConfig},
                             artifact : Artifact \cup {NoArtifact}]]
    /\ late \subseteq Request
    /\ calls \subseteq [claim : Claims, run : Run, config : Config]

\* However often execute is called again, and whatever requests are lost or late,
\* an attempt calls the model at most once, and only in the run whose start the
\* service has accepted.
ModelCalledOnce ==
    \A call \in calls :
        /\ started[call.claim] = call.run
        /\ \A other \in calls : other.claim = call.claim => other = call

\* A model is called only under an approval of model execution, and only in the
\* configuration that was shown to the approver, although connections and the files
\* of the nodes change between the approval, the claim and the call.
BindingHonoured ==
    \A call \in calls : call.config = BindingOf(call.claim)

\* An attempt of model execution succeeds only with an answer of the model that is
\* stored, and the next role is given the result of the attempt that succeeded, also
\* when that role is tried again in another epoch.
ResultHandedOn ==
    \A c \in Claims :
        attempts[c].status = "SUCCEEDED" =>
            /\ <<c, started[c]>> \in artifacts
            /\ \E call \in calls : call.claim = c
            /\ attempts[c].role + 1 \in Roles(attempts[c].task) =>
                 predecessor[attempts[c].task][attempts[c].role + 1] = <<c, started[c]>>

\* No task stays at work on one role for ever: the attempt ends or is found lost,
\* whichever request of its agent is lost and wherever the agent dies.
WorkEnds ==
    \A t \in Task :
        (\E c \in Claims : Live(c) /\ attempts[c].task = t)
            ~> (\A c \in Claims : Live(c) => attempts[c].task # t)
=============================================================================
