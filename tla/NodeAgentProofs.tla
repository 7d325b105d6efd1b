---------------------------- MODULE NodeAgentProofs ----------------------------
(***************************************************************************)
(* Theorems about NodeAgent, for every number of nodes, tasks, calls of    *)
(* execute and requests that are late or lost.                             *)
(*                                                                         *)
(* The argument: every step of the agents is a step of Dispatch, whose     *)
(* invariant therefore holds here too.  What an agent goes by, the         *)
(* envelope of its claim and its own start, is fixed once it is there      *)
(* (Forth), so it does not matter what happens between two of its          *)
(* requests, nor when a request arrives that it gave up.                   *)
(***************************************************************************)
EXTENDS NodeAgent, DispatchProofs

Called(c) == \E call \in calls : call.claim = c

Binding(t) == {<< >>} \cup [Roles(t) -> Config]

ServiceTyped ==
    /\ conn \in [Node -> Config \cup {NoConfig}]
    /\ local \in [Node -> Config]
    /\ DOMAIN bindings = Task
    /\ \A t \in Task : bindings[t] \in Seq(Binding(t)) /\ Len(bindings[t]) = Len(approvals[t])
    /\ envelope \in [Claims -> [binding : Config \cup {NoConfig},
                                predecessor : Artifact \cup {NoArtifact}]]
    /\ started \in [Claims -> {0} \cup Run]
    /\ DOMAIN predecessor = Task
    /\ \A t \in Task : predecessor[t] \in [Roles(t) -> Artifact \cup {NoArtifact}]
    /\ artifacts \subseteq Artifact

\* The envelope of a claim says what was approved for it.
Enveloped ==
    \A c \in Claims : Made(attempts, c) => envelope[c].binding = BindingOf(c)

\* No run is noted of an attempt before its start.
StartNoted ==
    \A c \in Claims : attempts[c].status \in {"none", "CLAIMED"} => started[c] = 0

\* The result of an attempt that succeeded is stored and handed on.
HandedOn ==
    \A c \in Claims :
        attempts[c].status = "SUCCEEDED" =>
            /\ <<c, started[c]>> \in artifacts
            /\ attempts[c].role + 1 \in Roles(attempts[c].task) =>
                 predecessor[attempts[c].task][attempts[c].role + 1] = <<c, started[c]>>

Service == ServiceTyped /\ Enveloped /\ StartNoted /\ HandedOn

AgentTyped == agent \in [Claims -> [pc : Stage, run : {0} \cup Run, config : Config \cup {NoConfig},
                                    artifact : Artifact \cup {NoArtifact}]]

\* What a run that is under way goes by.
AgentSound(c) ==
    /\ agent[c].pc # "idle" =>
         /\ Made(attempts, c)
         /\ agent[c].run # 0
         /\ agent[c].config = envelope[c].binding
         /\ agent[c].config # NoConfig
    /\ agent[c].pc \in {"fetch", "model", "upload"} => started[c] = agent[c].run
    /\ agent[c].pc = "upload" => Called(c)
    /\ agent[c].pc # "finish" => agent[c].artifact = NoArtifact
    /\ agent[c].artifact \in {NoArtifact, <<c, agent[c].run>>}

\* What may be asked of the service, in time or late.
RequestSound(request) ==
    /\ request \in Request
    /\ request.kind = "upload" => Called(request.claim)
    /\ request.artifact \in {NoArtifact, <<request.claim, request.run>>}

CallSound(call) ==
    /\ call \in [claim : Claims, run : Run, config : Config]
    /\ Made(attempts, call.claim)
    /\ started[call.claim] = call.run
    /\ call.config = envelope[call.claim].binding

AInv ==
    /\ Service
    /\ AgentTyped
    /\ \A c \in Claims : AgentSound(c)
    /\ \A request \in late : RequestSound(request)
    /\ \A call \in calls : CallSound(call)
    /\ \A artifact \in artifacts : Called(artifact[1])
-----------------------------------------------------------------------------
(* The agents and the task dispatch.                                         *)

\* What the service does with a request is a request of Dispatch, or nothing to it.
LEMMA HandledByDispatch ==
  ASSUME NEW request \in Request, Handle(request)
  PROVE  [Next]_vars
<1>1. request.claim \in Claims
  BY DEF Request
<1>2. CASE Start(request.claim, request.run)
  BY <1>1, <1>2 DEF Start, Next, AgentRequest
<1>3. CASE PutDispatchArtifact(request.claim, request.run)
  BY <1>3 DEF PutDispatchArtifact
<1>4. CASE Finish(request.claim, request.run, request.artifact)
  <2>1. \E status \in {"SUCCEEDED", "FAILED"} : FinishDispatch(request.claim, status)
    BY <1>4 DEF Finish
  <2> QED
    BY <1>1, <2>1 DEF Next, AgentRequest
<1> QED
  BY <1>2, <1>3, <1>4 DEF Handle

LEMMA ClaimByDispatch ==
  ASSUME NEW c \in Claims, Claim(c) \/ ClaimAgain(c)
  PROVE  [Next]_vars
BY DEF Claim, ClaimAgain, Next, AgentRequest, BrowserRequest

LEMMA ElsewhereByDispatch == Elsewhere => [Next]_vars
BY DEF Elsewhere, Next, AgentRequest, BrowserRequest

LEMMA AdministeredByDispatch == Administration => [Next]_vars
<1> SUFFICES ASSUME Administration PROVE [Next]_vars
  OBVIOUS
<1>1. CASE \E n \in Node : HeartbeatWithoutAdapter(n)
  <2>1. PICK n \in Node : HeartbeatWithoutAdapter(n)
    BY <1>1
  <2>2. CASE n \in online
    BY <2>1, <2>2 DEF HeartbeatWithoutAdapter, vars
  <2>3. CASE n \notin online
    <3>1. HeartbeatNode(n)
      BY <2>1, <2>3 DEF HeartbeatWithoutAdapter, HeartbeatNode
    <3> QED
      BY <3>1 DEF Next, AgentRequest
  <2> QED
    BY <2>2, <2>3
<1>2. CASE \E n \in Node : ConfigureOllama(n) \/ OperatorEditsProviders(n)
  BY <1>2 DEF ConfigureOllama, OperatorEditsProviders
<1>3. CASE \E t \in Task, model_execution \in BOOLEAN : Approve(t, model_execution)
  BY <1>3 DEF Approve, Next, BrowserRequest
<1>4. CASE \E r \in recoveries : ApproveRecovery(r)
  BY <1>4 DEF ApproveRecovery, Next, BrowserRequest
<1> QED
  BY <1>1, <1>2, <1>3, <1>4 DEF Administration

\* The request that an agent at work makes.
LEMMA RequestMade ==
  ASSUME AgentTyped, NEW c \in Claims, Requesting(c), agent[c].run # 0
  PROVE  /\ RequestOf(c) \in Request
         /\ RequestOf(c).kind = agent[c].pc /\ RequestOf(c).claim = c
         /\ RequestOf(c).run = agent[c].run /\ RequestOf(c).artifact = agent[c].artifact
<1>1. agent[c].run \in Run /\ agent[c].artifact \in Artifact \cup {NoArtifact}
  BY DEF AgentTyped
<1> QED
  BY <1>1 DEF RequestOf, Requesting, Request

LEMMA ExecutedByDispatch ==
  ASSUME AInv, Execution
  PROVE  [Next]_vars
<1>1. CASE \E c \in Claims : ExecuteNextDispatch(c)
  BY <1>1, ClaimByDispatch DEF ExecuteNextDispatch
<1>2. CASE \E c \in Claims : ClaimUnanswered(c)
  BY <1>2, ClaimByDispatch DEF ClaimUnanswered
<1>3. CASE \E c \in Claims : Answered(c)
  <2>1. PICK c \in Claims : Answered(c)
    BY <1>3
  <2>2. RequestOf(c) \in Request
    BY <2>1, RequestMade DEF AInv, AgentSound, Answered, Requesting
  <2> QED
    BY <2>1, <2>2, HandledByDispatch DEF Answered
<1>4. CASE \E c \in Claims : FetchArtifact(c) \/ InvokeConfiguredModel(c) \/ GivesUp(c) \/ AgentCrash(c)
  BY <1>4 DEF FetchArtifact, InvokeConfiguredModel, GivesUp, AgentCrash
<1>5. CASE \E request \in late : LateArrival(request)
  BY <1>5, HandledByDispatch DEF LateArrival, AInv, RequestSound
<1> QED
  BY <1>1, <1>2, <1>3, <1>4, <1>5 DEF Execution

LEMMA StepOfDispatch == AInv /\ [AgentNext]_agentVars => [Next]_vars
<1>1. AgentNext /\ AInv => [Next]_vars
  BY ElsewhereByDispatch, AdministeredByDispatch, ExecutedByDispatch DEF AgentNext
<1>2. UNCHANGED agentVars => UNCHANGED vars
  BY DEF agentVars
<1> QED
  BY <1>1, <1>2
-----------------------------------------------------------------------------
(* How attempts and their bindings move.                                     *)

SameAttempt(c) ==
    /\ attempts'[c].task = attempts[c].task
    /\ attempts'[c].role = attempts[c].role
    /\ attempts'[c].approval = attempts[c].approval

\* An attempt is lost at most.
Quiet ==
    \A c \in Claims :
        /\ SameAttempt(c)
        /\ \/ attempts'[c].status = attempts[c].status
           \/ attempts[c].status \in Working /\ attempts'[c].status = "RECOVERY_REQUIRED"

\* An attempt is of another status, and all others are what they were.
OnlyMoved(c, status) ==
    /\ attempts'[c].status = status
    /\ \A d \in Claims \ {c} : attempts'[d] = attempts[d]

SameLengths == \A t \in Task : Len(approvals'[t]) = Len(approvals[t])

LEMMA ReconcileIsQuiet ==
  ASSUME IInv, attempts' = ReconciledAttempts
  PROVE  Quiet
BY ReconciledAttempt DEF Quiet, SameAttempt

LEMMA LapseIsQuiet ==
  ASSUME IInv, NEW c \in Claims, LeaseExpires(c)
  PROVE  Quiet
<1>1. attempts \in [Claims -> Attempt]
  BY DEF IInv, Consistent, Typed
<1>2. PICK a \in Attempt : a = attempts[c]
  BY <1>1
<1>3. attempts' = [attempts EXCEPT ![c] = [a EXCEPT !.lapsed = TRUE]]
  BY <1>1, <1>2 DEF LeaseExpires
<1>4. attempts'[c] = [a EXCEPT !.lapsed = TRUE] /\ \A d \in Claims \ {c} : attempts'[d] = attempts[d]
  BY <1>1, <1>3
<1>5. SameAttempt(c) /\ attempts'[c].status = attempts[c].status
  BY <1>2, <1>4 DEF Attempt, SameAttempt
<1> QED
  BY <1>4, <1>5 DEF Quiet, SameAttempt

LEMMA ClaimMoves ==
  ASSUME IInv, NEW c \in Claims, ClaimDispatch(c)
  PROVE  attempts[c].status = "none" /\ OnlyMoved(c, "CLAIMED") /\ SameLengths
<1>1. attempts \in [Claims -> Attempt] /\ \A t \in Task : approvals[t] \in Seq(Approval)
  BY DEF IInv, Consistent, Typed
<1> DEFINE Claimed(t, i, k) ==
        /\ ReconciledTasks[t].dispatch_epoch = ReconciledEpoch
        /\ attempts[c].status = "none"
        /\ approvals' = [approvals EXCEPT ![t][k].consumed = TRUE]
        /\ attempts' = [ReconciledAttempts EXCEPT ![c] =
               [status |-> "CLAIMED", task |-> t, role |-> i, approval |-> k,
                dispatch_epoch |-> ReconciledTasks[t].dispatch_epoch, event_sequence |-> 0,
                lapsed |-> FALSE]]
<1>2. PICK t \in Candidates(c[1]) : \E i \in Roles(t) : Claimed(t, i, Latest(Matching(t)))
  BY Zenon DEF ClaimDispatch
<1>3. PICK i \in Roles(t) : Claimed(t, i, Latest(Matching(t)))
  BY <1>2
<1>4. t \in Task /\ ReconciledAttempts = attempts
  BY <1>3, NothingLost, ReconciledKeeps DEF Candidates
<1>5. PICK k : k = Latest(Matching(t))
  OBVIOUS
<1>6. approvals' = [approvals EXCEPT ![t][k].consumed = TRUE]
  BY <1>3, <1>5
<1>7. OnlyMoved(c, "CLAIMED")
  BY <1>1, <1>3, <1>4 DEF OnlyMoved
<1>8. SameLengths
  <2> SUFFICES ASSUME NEW u \in Task PROVE Len(approvals'[u]) = Len(approvals[u])
    BY DEF SameLengths
  <2>1. approvals \in [Task -> Seq(Approval)]
    BY DEF IInv, Consistent, Typed
  <2>2. PICK a \in Seq(Approval) : a = approvals[t]
    BY <1>1, <1>4
  <2>3. approvals' = [approvals EXCEPT ![t] = [a EXCEPT ![k].consumed = TRUE]]
    BY <1>6, <2>1, <2>2
  <2>4. Len([a EXCEPT ![k].consumed = TRUE]) = Len(a)
    OBVIOUS
  <2> QED
    BY <1>4, <2>1, <2>2, <2>3, <2>4
<1> QED
  BY <1>3, <1>7, <1>8

LEMMA EventMoves ==
  ASSUME IInv, NEW c \in Claims, Made(attempts, c), EventAccepted(c), NEW status, NEW task,
         RoleEvent(c, status, task)
  PROVE  OnlyMoved(c, status) /\ SameAttempt(c) /\ approvals' = approvals
<1>1. attempts \in [Claims -> Attempt]
  BY DEF IInv, Consistent, Typed
<1>2. ReconciledAttempts = attempts
  BY NothingLost DEF EventAccepted
<1>3. PICK a \in Attempt : a = attempts[c]
  BY <1>1
<1>4. attempts' = [attempts EXCEPT ![c] = [a EXCEPT !.status = status, !.event_sequence = @ + 1]]
  BY <1>1, <1>2, <1>3 DEF RoleEvent
<1>5. /\ attempts'[c] = [a EXCEPT !.status = status, !.event_sequence = @ + 1]
      /\ \A d \in Claims \ {c} : attempts'[d] = attempts[d]
  BY <1>1, <1>4
<1>6. attempts'[c].status = status /\ SameAttempt(c)
  BY <1>3, <1>5 DEF Attempt, SameAttempt
<1> QED
  BY <1>5, <1>6 DEF OnlyMoved, RoleEvent

LEMMA ExpiryKeepsLengths ==
  ASSUME IInv, NEW t \in Task, ApprovalExpires(t)
  PROVE  SameLengths
<1>1. approvals \in [Task -> Seq(Approval)]
  BY DEF IInv, Consistent, Typed
<1>2. PICK k : approvals' = [approvals EXCEPT ![t][k].expired = TRUE]
  BY DEF ApprovalExpires
<1>3. PICK a \in Seq(Approval) : a = approvals[t]
  BY <1>1
<1>4. approvals' = [approvals EXCEPT ![t] = [a EXCEPT ![k].expired = TRUE]]
  BY <1>1, <1>2, <1>3
<1>5. Len([a EXCEPT ![k].expired = TRUE]) = Len(a)
  OBVIOUS
<1> QED
  BY <1>1, <1>3, <1>4, <1>5 DEF SameLengths

\* The approvals of a task only become more.
BindingsGrow ==
    \A t \in Task : \/ bindings'[t] = bindings[t]
                    \/ \E b \in Binding(t) : bindings'[t] = Append(bindings[t], b)

\* What was approved for an attempt is fixed.
LEMMA BindingFixed ==
  ASSUME IInv, ServiceTyped, BindingsGrow, NEW c \in Claims, Made(attempts, c), SameAttempt(c)
  PROVE  BindingOf(c)' = BindingOf(c)
<1>1. PICK t \in Task : t = attempts[c].task
  BY MadeAttempt DEF IInv
<1>2. PICK k : k = attempts[c].approval
  OBVIOUS
<1>3. k \in DOMAIN approvals[t] /\ approvals[t] \in Seq(Approval)
  BY <1>1, <1>2 DEF IInv, Consistent, Approved, Typed
<1>4. bindings[t] \in Seq(Binding(t)) /\ Len(bindings[t]) = Len(approvals[t])
  BY DEF ServiceTyped
<1>5. k \in 1..Len(bindings[t])
  BY <1>3, <1>4
<1>6. bindings'[t][k] = bindings[t][k]
  BY <1>4, <1>5 DEF BindingsGrow
<1> QED
  BY <1>1, <1>2, <1>6 DEF BindingOf, SameAttempt
-----------------------------------------------------------------------------
(* What the service keeps.                                                   *)

\* What an agent goes by is fixed once it is there.
Forth ==
    /\ \A c \in Claims :
         /\ Made(attempts, c) => Made(attempts', c) /\ envelope'[c] = envelope[c]
         /\ started[c] # 0 => started'[c] = started[c]
    /\ calls \subseteq calls'

LEMMA MadeRole ==
  ASSUME NEW epoch, NEW ts, NEW ap, NEW at, NEW rs, Consistent(epoch, ts, ap, at, rs),
         NEW c \in Claims, Made(at, c)
  PROVE  /\ at[c].task \in Task /\ at[c].role \in Roles(at[c].task)
         /\ at[c].approval \in 1..Len(ap[at[c].task])
<1>1. PICK t \in Task : t = at[c].task
  BY MadeAttempt
<1>2. WellFormed(t, ts[t]) /\ at[c].role \in DOMAIN ts[t].dispatches /\ ts[t].dispatches \in Seq(Item)
  BY <1>1, MadeAttempt, Items
<1>3. at[c].role \in Roles(t)
  BY <1>2 DEF WellFormed, Roles
<1>4. at[c].approval \in DOMAIN ap[t] /\ ap[t] \in Seq(Approval)
  BY <1>1 DEF Consistent, Approved, Typed
<1> QED
  BY <1>1, <1>3, <1>4

LEMMA QuietService ==
  ASSUME IInv, Service, Quiet, BindingsGrow, ServiceTyped',
         UNCHANGED <<envelope, started, predecessor, artifacts>>
  PROVE  Service' /\ \A c \in Claims : Made(attempts, c) => Made(attempts', c)
<1>1. \A c \in Claims : Made(attempts, c) <=> Made(attempts', c)
  BY DEF Quiet, Made, Working
<1>2. Enveloped'
  BY <1>1, BindingFixed DEF Service, Enveloped, Quiet
<1>3. StartNoted'
  BY DEF Service, StartNoted, Quiet, Working
<1>4. HandedOn'
  BY DEF Service, HandedOn, Quiet, SameAttempt, Working
<1> QED
  BY <1>1, <1>2, <1>3, <1>4 DEF Service

\* Bindings keep their types where only approvals are marked.
LEMMA TypesStay ==
  ASSUME ServiceTyped, SameLengths, UNCHANGED <<conn, local, bindings, envelope, started, predecessor, artifacts>>
  PROVE  ServiceTyped'
BY DEF ServiceTyped, SameLengths

LEMMA BindingTyped ==
  ASSUME IInv, ServiceTyped, NEW c \in Claims, Made(attempts, c)
  PROVE  BindingOf(c) \in Config \cup {NoConfig}
<1>1. PICK t \in Task : t = attempts[c].task
  BY MadeAttempt DEF IInv
<1>2. attempts[c].role \in Roles(t) /\ attempts[c].approval \in 1..Len(bindings[t])
  BY <1>1, MadeRole DEF IInv, ServiceTyped
<1>3. bindings[t] \in Seq(Binding(t))
  BY DEF ServiceTyped
<1>4. PICK b \in Binding(t) : b = bindings[t][attempts[c].approval]
  BY <1>2, <1>3
<1>5. BindingOf(c) = IF b = << >> THEN NoConfig ELSE b[attempts[c].role]
  BY <1>1, <1>4 DEF BindingOf
<1> QED
  BY <1>2, <1>4, <1>5 DEF Binding

LEMMA ClaimService ==
  ASSUME IInv, IInv', Service, NEW c \in Claims, Claim(c), UNCHANGED local
  PROVE  /\ Service'
         /\ attempts[c].status = "none" /\ Made(attempts', c)
         /\ \A d \in Claims : Made(attempts, d) => Made(attempts', d) /\ envelope'[d] = envelope[d]
         /\ started' = started /\ artifacts' = artifacts
<1>1. attempts[c].status = "none" /\ OnlyMoved(c, "CLAIMED") /\ SameLengths
  BY ClaimMoves DEF Claim
<1>2. Made(attempts', c) /\ \A d \in Claims : Made(attempts, d) => d # c /\ Made(attempts', d)
  BY <1>1 DEF Made, OnlyMoved
<1>3. PICK b, p : b = BindingOf(c)' /\ p = predecessor[attempts'[c].task][attempts'[c].role]
  OBVIOUS
<1>4. envelope' = [envelope EXCEPT ![c] = [binding |-> b, predecessor |-> p]]
  BY <1>3 DEF Claim
<1>5. UNCHANGED <<conn, bindings, started, predecessor, artifacts>>
  BY DEF Claim
<1>6. envelope \in [Claims -> [binding : Config \cup {NoConfig}, predecessor : Artifact \cup {NoArtifact}]]
  BY DEF Service, ServiceTyped
<1>7. /\ envelope'[c] = [binding |-> b, predecessor |-> p]
      /\ \A d \in Claims \ {c} : envelope'[d] = envelope[d]
  BY <1>4, <1>6
<1>8. ServiceTyped'
  <2>1. p \in Artifact \cup {NoArtifact}
    BY <1>2, <1>3, MadeRole DEF IInv, Service, ServiceTyped
  <2>2. \A t \in Task : bindings'[t] \in Seq(Binding(t)) /\ Len(bindings'[t]) = Len(approvals'[t])
    BY <1>1, <1>5 DEF Service, ServiceTyped, SameLengths
  <2>3. b \in Config \cup {NoConfig}
    <3>1. PICK t \in Task : t = attempts'[c].task
      BY <1>2, MadeAttempt DEF IInv
    <3>2. attempts'[c].role \in Roles(t) /\ attempts'[c].approval \in 1..Len(bindings'[t])
      BY <1>2, <3>1, <2>2, MadeRole DEF IInv
    <3>3. PICK f \in Binding(t) : f = bindings'[t][attempts'[c].approval]
      BY <3>2, <2>2
    <3>4. b = IF f = << >> THEN NoConfig ELSE f[attempts'[c].role]
      BY <1>3, <3>1, <3>3 DEF BindingOf
    <3> QED
      BY <3>2, <3>3, <3>4 DEF Binding
  <2>4. envelope' \in [Claims -> [binding : Config \cup {NoConfig}, predecessor : Artifact \cup {NoArtifact}]]
    BY <1>4, <1>6, <2>1, <2>3
  <2> QED
    BY <1>5, <2>2, <2>4 DEF Service, ServiceTyped
<1>9. Enveloped'
  <2> SUFFICES ASSUME NEW d \in Claims, Made(attempts', d)
               PROVE  envelope'[d].binding = BindingOf(d)'
    BY DEF Enveloped
  <2>1. CASE d = c
    BY <1>3, <1>7, <2>1
  <2>2. CASE d # c
    <3>1. attempts'[d] = attempts[d] /\ Made(attempts, d)
      BY <1>1, <2>2 DEF OnlyMoved, Made
    <3>2. BindingOf(d)' = BindingOf(d)
      BY <3>1, <1>5 DEF BindingOf
    <3> QED
      BY <1>7, <2>2, <3>1, <3>2 DEF Service, Enveloped
  <2> QED
    BY <2>1, <2>2
<1>10. StartNoted'
  BY <1>1, <1>5 DEF Service, StartNoted, OnlyMoved
<1>11. HandedOn'
  BY <1>1, <1>5 DEF Service, HandedOn, OnlyMoved
<1> QED
  BY <1>1, <1>2, <1>5, <1>7, <1>8, <1>9, <1>10, <1>11 DEF Service

LEMMA StartService ==
  ASSUME IInv, IInv', Service, NEW c \in Claims, NEW run \in Run, Start(c, run), UNCHANGED local
  PROVE  /\ Service'
         /\ \A d \in Claims : Made(attempts, d) => Made(attempts', d) /\ envelope'[d] = envelope[d]
         /\ \A d \in Claims : started[d] # 0 => started'[d] = started[d]
         /\ started'[c] = run /\ artifacts' = artifacts
<1>1. attempts[c].status = "CLAIMED" /\ Made(attempts, c)
  BY DEF Start, StartDispatch, Made
<1>2. OnlyMoved(c, "RUNNING") /\ SameAttempt(c) /\ approvals' = approvals
  BY <1>1, EventMoves DEF Start, StartDispatch
<1>3. started \in [Claims -> {0} \cup Run] /\ started[c] = 0
  BY <1>1 DEF Service, ServiceTyped, StartNoted
<1>4. /\ started' = [started EXCEPT ![c] = run]
      /\ UNCHANGED <<conn, bindings, envelope, predecessor, artifacts>>
  BY DEF Start
<1>5. started'[c] = run /\ \A d \in Claims \ {c} : started'[d] = started[d]
  BY <1>3, <1>4
<1>6. \A d \in Claims : SameAttempt(d) /\ (Made(attempts, d) <=> Made(attempts', d))
  BY <1>1, <1>2 DEF OnlyMoved, SameAttempt, Made
<1>7. ServiceTyped'
  BY <1>2, <1>3, <1>4 DEF Service, ServiceTyped
<1>8. Enveloped'
  <2>1. BindingsGrow
    BY <1>4 DEF BindingsGrow
  <2> QED
    BY <1>4, <1>6, <2>1, BindingFixed DEF Service, Enveloped
<1>9. StartNoted'
  BY <1>2, <1>5 DEF Service, StartNoted, OnlyMoved
<1>10. HandedOn'
  <2>1. \A d \in Claims : attempts'[d].status = "SUCCEEDED" =>
          attempts'[d] = attempts[d] /\ started'[d] = started[d]
    BY <1>2, <1>5 DEF OnlyMoved
  <2> QED
    BY <1>4, <2>1, SMTT(20) DEF Service, HandedOn
<1>11. Service'
  BY <1>7, <1>8, <1>9, <1>10 DEF Service
<1>12. \A d \in Claims : Made(attempts, d) => Made(attempts', d) /\ envelope'[d] = envelope[d]
  BY <1>4, <1>6
<1>13. \A d \in Claims : started[d] # 0 => started'[d] = started[d]
  BY <1>3, <1>5
<1> QED
  BY <1>4, <1>5, <1>11, <1>12, <1>13

LEMMA UploadService ==
  ASSUME IInv, Service, NEW c \in Claims, NEW run \in Run, PutDispatchArtifact(c, run), UNCHANGED local
  PROVE  /\ Service'
         /\ UNCHANGED <<vars, envelope, started>>
         /\ artifacts' = artifacts \cup {<<c, run>>}
<1>1. /\ UNCHANGED <<vars, conn, bindings, envelope, started, predecessor>>
      /\ artifacts' = artifacts \cup {<<c, run>>}
  BY DEF PutDispatchArtifact
<1>2. ServiceTyped'
  BY <1>1 DEF Service, ServiceTyped, Artifact, vars
<1>3. Enveloped' /\ StartNoted'
  BY <1>1 DEF Service, Enveloped, StartNoted, BindingOf, vars
<1>4. HandedOn'
  BY <1>1 DEF Service, HandedOn, vars
<1> QED
  BY <1>1, <1>2, <1>3, <1>4 DEF Service

LEMMA FinishService ==
  ASSUME IInv, IInv', Service, NEW c \in Claims, NEW run \in Run,
         NEW artifact \in {NoArtifact, <<c, run>>}, Finish(c, run, artifact), UNCHANGED local
  PROVE  /\ Service'
         /\ \A d \in Claims : Made(attempts, d) => Made(attempts', d)
         /\ UNCHANGED <<envelope, started, artifacts>>
<1> DEFINE status == IF artifact = NoArtifact THEN "FAILED" ELSE "SUCCEEDED"
<1>1. attempts[c].status = "RUNNING" /\ Made(attempts, c)
  BY DEF Finish, FinishDispatch, Made
<1>2. OnlyMoved(c, status) /\ SameAttempt(c) /\ approvals' = approvals
  BY <1>1, EventMoves DEF Finish, FinishDispatch
<1>3. UNCHANGED <<conn, bindings, envelope, started, artifacts>>
  BY DEF Finish
<1>4. \A d \in Claims : SameAttempt(d) /\ (Made(attempts, d) <=> Made(attempts', d))
  BY <1>1, <1>2 DEF OnlyMoved, SameAttempt, Made
<1>5. PICK t, next : t = attempts[c].task /\ next = attempts[c].role + 1
  OBVIOUS
<1>6. t \in Task /\ attempts[c].role \in Roles(t) /\ attempts[c].role \in Nat
  BY <1>1, <1>5, MadeRole DEF IInv, Roles
<1>7. predecessor' = IF status = "SUCCEEDED" /\ next \in Roles(t)
                     THEN [predecessor EXCEPT ![t][next] = artifact] ELSE predecessor
  BY <1>5 DEF Finish
<1>8. PICK f \in [Roles(t) -> Artifact \cup {NoArtifact}] : f = predecessor[t]
  BY <1>6 DEF Service, ServiceTyped
<1>9. /\ DOMAIN predecessor' = Task
      /\ \A u \in Task \ {t} : predecessor'[u] = predecessor[u]
      /\ predecessor'[t] = IF status = "SUCCEEDED" /\ next \in Roles(t)
                           THEN [f EXCEPT ![next] = artifact] ELSE f
  BY <1>6, <1>7, <1>8 DEF Service, ServiceTyped
<1>10. ServiceTyped'
  <2>1. artifact \in Artifact \cup {NoArtifact}
    BY DEF Artifact
  <2>2. predecessor'[t] \in [Roles(t) -> Artifact \cup {NoArtifact}]
    BY <1>8, <1>9, <2>1
  <2>3. \A u \in Task : predecessor'[u] \in [Roles(u) -> Artifact \cup {NoArtifact}]
    BY <1>9, <2>2 DEF Service, ServiceTyped
  <2> QED
    BY <1>2, <1>3, <1>9, <2>3 DEF Service, ServiceTyped
<1>11. Enveloped'
  <2>1. BindingsGrow
    BY <1>3 DEF BindingsGrow
  <2> QED
    BY <1>3, <1>4, <2>1, BindingFixed DEF Service, Enveloped
<1>12. StartNoted'
  BY <1>2, <1>3 DEF Service, StartNoted, OnlyMoved
<1>13. HandedOn'
  <2> SUFFICES ASSUME NEW d \in Claims, attempts'[d].status = "SUCCEEDED"
               PROVE  /\ <<d, started[d]>> \in artifacts
                      /\ attempts'[d].role + 1 \in Roles(attempts'[d].task) =>
                           predecessor'[attempts'[d].task][attempts'[d].role + 1] = <<d, started[d]>>
    BY <1>3 DEF HandedOn
  <2>1. CASE d = c
    <3>1. status = "SUCCEEDED"
      BY <1>2, <2>1 DEF OnlyMoved
    <3>2. artifact = <<c, run>> /\ artifact \in artifacts /\ started[c] = run
      BY <3>1 DEF Finish
    <3>3. attempts'[c].task = t /\ attempts'[c].role + 1 = next
      BY <1>2, <1>5 DEF SameAttempt
    <3>4. next \in Roles(t) => predecessor'[t][next] = artifact
      BY <1>8, <1>9, <3>1
    <3> QED
      BY <2>1, <3>2, <3>3, <3>4
  <2>2. CASE d # c
    <3>1. attempts'[d] = attempts[d] /\ Made(attempts, d) /\ attempts[d].status = "SUCCEEDED"
      BY <1>2, <2>2 DEF OnlyMoved, Made
    <3>2. PICK u, i : u = attempts[d].task /\ i = attempts[d].role
      OBVIOUS
    <3>3. u \in Task /\ i \in Roles(u) /\ i \in Nat
      BY <3>1, <3>2, MadeRole DEF IInv, Roles
    <3>4. ~(u = t /\ i = attempts[c].role)
      <4>1. tasks[u].dispatches[i].attempt = d
        BY <3>1, <3>2 DEF IInv, Consistent, Approved
      <4>2. tasks[t].dispatches[attempts[c].role].attempt = c
        BY <1>1, <1>5, WorkingAttempt DEF IInv, Working
      <4> QED
        BY <2>2, <4>1, <4>2
    <3>5. <<d, started[d]>> \in artifacts
      BY <3>1 DEF Service, HandedOn
    <3>6. i + 1 \in Roles(u) => predecessor[u][i + 1] = <<d, started[d]>>
      BY <3>1, <3>2 DEF Service, HandedOn
    <3>7. i + 1 \in Roles(u) => predecessor'[u][i + 1] = predecessor[u][i + 1]
      BY <1>5, <1>6, <1>8, <1>9, <3>3, <3>4
    <3> QED
      BY <3>1, <3>2, <3>5, <3>6, <3>7
  <2> QED
    BY <2>1, <2>2
<1> QED
  BY <1>3, <1>4, <1>10, <1>11, <1>12, <1>13 DEF Service
-----------------------------------------------------------------------------
(* What the agents go by.                                                    *)

\* All that did not move is as sound as it was.
LEMMA SoundTogether ==
  ASSUME AInv, Service', Forth, AgentTyped',
         \A c \in Claims : agent'[c] = agent[c] \/ AgentSound(c)',
         \A request \in late' : request \in late \/ RequestSound(request)',
         \A call \in calls' : call \in calls \/ CallSound(call)',
         \A artifact \in artifacts' : artifact \in artifacts \/ Called(artifact[1])'
  PROVE  AInv'
<1>1. \A c : Called(c) => Called(c)'
  BY DEF Forth, Called
<1>2. ASSUME NEW c \in Claims, agent'[c] = agent[c] PROVE AgentSound(c)'
  <2>1. AgentSound(c) /\ agent[c].run \in {0} \cup Run
    BY DEF AInv, AgentTyped
  <2>2. Made(attempts, c) => Made(attempts, c)' /\ envelope'[c] = envelope[c]
    BY DEF Forth, Made
  <2>3. started[c] # 0 => started'[c] = started[c]
    BY DEF Forth
  <2> QED
    BY <1>1, <1>2, <2>1, <2>2, <2>3 DEF AgentSound
<1>3. ASSUME NEW request \in late PROVE RequestSound(request)'
  BY <1>1, <1>3 DEF AInv, RequestSound
<1>4. ASSUME NEW call \in calls PROVE CallSound(call)'
  <2>1. CallSound(call) /\ call.claim \in Claims /\ call.run # 0
    BY DEF AInv, CallSound, Run
  <2>2. Made(attempts, call.claim)' /\ envelope'[call.claim] = envelope[call.claim]
        /\ started'[call.claim] = started[call.claim]
    BY <2>1 DEF Forth, CallSound, Made
  <2> QED
    BY <2>1, <2>2 DEF CallSound
<1>5. ASSUME NEW artifact \in artifacts PROVE Called(artifact[1])'
  BY <1>1, <1>5 DEF AInv
<1> QED
  BY <1>2, <1>3, <1>4, <1>5 DEF AInv

LEMMA AgentGoes ==
  ASSUME AgentTyped, NEW c \in Claims, NEW stage \in Stage, NEW artifact \in Artifact \cup {NoArtifact},
         Goes(c, stage, artifact)
  PROVE  /\ AgentTyped'
         /\ agent'[c].pc = stage /\ agent'[c].artifact = artifact /\ agent'[c].run = agent[c].run
         /\ agent'[c].config = IF stage = "idle" THEN NoConfig ELSE agent[c].config
         /\ \A d \in Claims \ {c} : agent'[d] = agent[d]
<1> DEFINE A == [pc : Stage, run : {0} \cup Run, config : Config \cup {NoConfig},
                 artifact : Artifact \cup {NoArtifact}]
<1>1. agent \in [Claims -> A]
  BY DEF AgentTyped
<1>2. PICK a \in A : a = agent[c]
  BY <1>1
<1>3. PICK config : config = IF stage = "idle" THEN NoConfig ELSE a.config
  OBVIOUS
<1>4. PICK new : new = [a EXCEPT !.pc = stage, !.artifact = artifact, !.config = config]
  OBVIOUS
<1>5. /\ new \in A /\ new.pc = stage /\ new.artifact = artifact /\ new.run = a.run /\ new.config = config
      /\ agent' = [agent EXCEPT ![c] = new]
  <2>1. config \in Config \cup {NoConfig}
    BY <1>2, <1>3
  <2>2. agent' = [agent EXCEPT ![c] = new]
    BY <1>1, <1>2, <1>3, <1>4 DEF Goes
  <2> QED
    BY <1>2, <1>4, <2>1, <2>2
<1>6. agent' \in [Claims -> A] /\ agent'[c] = new /\ \A d \in Claims \ {c} : agent'[d] = agent[d]
  BY <1>1, <1>5
<1> QED
  BY <1>2, <1>3, <1>5, <1>6 DEF AgentTyped

\* The request that an agent at work makes is sound.
LEMMA RequestIsSound ==
  ASSUME AInv, NEW c \in Claims, Requesting(c)
  PROVE  /\ RequestSound(RequestOf(c))
         /\ RequestOf(c).kind = agent[c].pc /\ RequestOf(c).claim = c
         /\ RequestOf(c).run = agent[c].run /\ RequestOf(c).artifact = agent[c].artifact
<1>1. AgentSound(c) /\ agent[c].run # 0
  BY DEF AInv, AgentSound, Requesting
<1> QED
  BY <1>1, RequestMade DEF AInv, AgentSound, RequestSound

\* Whatever sound request is handled, and whenever.
LEMMA HandledService ==
  ASSUME IInv, IInv', AInv, NEW request, RequestSound(request), Handle(request), UNCHANGED <<local, calls>>
  PROVE  /\ Service' /\ Forth
         /\ request.kind = "start" => started'[request.claim] = request.run
         /\ \A artifact \in artifacts' : artifact \in artifacts \/ Called(artifact[1])'
<1>1. /\ request.claim \in Claims /\ request.run \in Run
      /\ request.artifact \in {NoArtifact, <<request.claim, request.run>>}
      /\ request.kind = "upload" => Called(request.claim)
  BY DEF RequestSound, Request
<1>2. Service
  BY DEF AInv
<1>3. CASE request.kind = "start" /\ Start(request.claim, request.run)
  <2>1. started'[request.claim] = request.run /\ artifacts' = artifacts /\ Service'
    BY <1>1, <1>2, <1>3, StartService
  <2>2. Forth
    BY <1>1, <1>2, <1>3, StartService DEF Forth
  <2> QED
    BY <2>1, <2>2
<1>4. CASE request.kind = "upload" /\ PutDispatchArtifact(request.claim, request.run)
  <2>1. /\ Service' /\ UNCHANGED <<vars, envelope, started>>
        /\ artifacts' = artifacts \cup {<<request.claim, request.run>>}
    BY <1>1, <1>2, <1>4, UploadService
  <2>2. Called(request.claim)'
    BY <1>1, <1>4 DEF Called
  <2>3. Forth
    BY <2>1 DEF Forth, vars
  <2> QED
    BY <1>4, <2>1, <2>2, <2>3
<1>5. CASE request.kind = "finish" /\ Finish(request.claim, request.run, request.artifact)
  <2>1. /\ Service' /\ \A d \in Claims : Made(attempts, d) => Made(attempts', d)
        /\ UNCHANGED <<envelope, started, artifacts>>
    BY <1>1, <1>2, <1>5, FinishService
  <2>2. Forth
    BY <2>1 DEF Forth
  <2> QED
    BY <1>5, <2>1, <2>2
<1> QED
  BY <1>3, <1>4, <1>5 DEF Handle

-----------------------------------------------------------------------------
(* Every step keeps it all.                                                  *)

LEMMA ElsewhereKeeps ==
  ASSUME IInv, AInv, Elsewhere
  PROVE  AInv'
<1>1. UNCHANGED <<serviceVars, nodeVars>>
  BY DEF Elsewhere
<1>2. Quiet /\ SameLengths
  <2>1. CASE ListTasks \/ \E c \in Claims : AssessDispatchRecovery(c)
    <3>1. attempts' = ReconciledAttempts /\ approvals' = approvals
      BY <2>1 DEF ListTasks, AssessDispatchRecovery
    <3> QED
      BY <3>1, ReconcileIsQuiet DEF SameLengths
  <2>2. CASE \E c \in Claims : LeaseExpires(c)
    <3>1. approvals' = approvals
      BY <2>2 DEF LeaseExpires
    <3> QED
      BY <2>2, <3>1, LapseIsQuiet DEF SameLengths
  <2>3. CASE \E t \in Task : ApprovalExpires(t)
    <3>1. attempts' = attempts
      BY <2>3 DEF ApprovalExpires
    <3> QED
      BY <2>3, <3>1, ExpiryKeepsLengths DEF Quiet, SameAttempt
  <2>4. CASE \/ SaveOrchestrationProfile
             \/ \E t \in Task : CreateDispatchTask(t)
             \/ \E n \in Node : HeartbeatNode(n) \/ HeartbeatLost(n)
    <3>1. attempts' = attempts /\ approvals' = approvals
      BY <2>4 DEF SaveOrchestrationProfile, CreateDispatchTask, HeartbeatNode, HeartbeatLost
    <3> QED
      BY <3>1 DEF Quiet, SameAttempt, SameLengths
  <2> QED
    BY <2>1, <2>2, <2>3, <2>4 DEF Elsewhere, Time
<1>3. ServiceTyped'
  BY <1>1, <1>2, TypesStay DEF AInv, Service, serviceVars, nodeVars
<1>4. BindingsGrow
  BY <1>1 DEF BindingsGrow, serviceVars
<1>5. Service' /\ \A c \in Claims : Made(attempts, c) => Made(attempts', c)
  BY <1>1, <1>2, <1>3, <1>4, QuietService DEF AInv, serviceVars
<1>6. Forth
  BY <1>1, <1>5 DEF Forth, serviceVars, nodeVars
<1>7. AgentTyped' /\ agent' = agent /\ late' = late /\ calls' = calls /\ artifacts' = artifacts
  BY <1>1 DEF AInv, AgentTyped, nodeVars, serviceVars
<1> QED
  BY <1>5, <1>6, <1>7, SoundTogether

LEMMA ApprovalBinds ==
  ASSUME IInv, ServiceTyped, NEW t \in Task, NEW b \in Binding(t), NEW ticket,
         approvals' = [approvals EXCEPT ![t] = Append(@, ticket)],
         bindings' = [bindings EXCEPT ![t] = Append(@, b)],
         UNCHANGED <<conn, local, envelope, started, predecessor, artifacts>>
  PROVE  BindingsGrow /\ ServiceTyped'
<1>1. approvals \in [Task -> Seq(Approval)]
  BY DEF IInv, Consistent, Typed
<1>2. /\ DOMAIN bindings = Task
      /\ \A u \in Task : bindings[u] \in Seq(Binding(u)) /\ Len(bindings[u]) = Len(approvals[u])
  BY DEF ServiceTyped
<1>3. PICK s \in Seq(Binding(t)) : s = bindings[t]
  BY <1>2
<1>4. PICK a \in Seq(Approval) : a = approvals[t]
  BY <1>1
<1>5. bindings'[t] = Append(s, b) /\ \A u \in Task \ {t} : bindings'[u] = bindings[u]
  BY <1>2, <1>3
<1>6. approvals'[t] = Append(a, ticket) /\ \A u \in Task \ {t} : approvals'[u] = approvals[u]
  BY <1>1, <1>4
<1>7. Len(Append(s, b)) = Len(s) + 1 /\ Append(s, b) \in Seq(Binding(t)) /\ Len(Append(a, ticket)) = Len(a) + 1
  OBVIOUS
<1>8. \A u \in Task : bindings'[u] \in Seq(Binding(u)) /\ Len(bindings'[u]) = Len(approvals'[u])
  BY <1>2, <1>3, <1>4, <1>5, <1>6, <1>7
<1>9. BindingsGrow
  BY <1>3, <1>5 DEF BindingsGrow
<1>10. DOMAIN bindings' = Task
  BY <1>2
<1> QED
  BY <1>8, <1>9, <1>10 DEF ServiceTyped

LEMMA BuiltBinding ==
  ASSUME ServiceTyped, NEW t \in Task, Ready(t)
  PROVE  BuildExecutionBindings(t) \in Binding(t)
<1>1. Assignment[t] \in Seq(Node)
  BY AssignmentAssumption
<1>2. \A i \in Roles(t) : Assignment[t][i] \in Node
  BY <1>1 DEF Roles
<1>3. \A i \in Roles(t) : conn[Assignment[t][i]] \in Config
  BY <1>2 DEF Ready, ServiceTyped
<1> QED
  BY <1>3 DEF BuildExecutionBindings, Binding

LEMMA AdministrationKeeps ==
  ASSUME IInv, AInv, Administration
  PROVE  AInv'
<1> DEFINE Kept == attempts' = attempts /\ UNCHANGED <<envelope, started, predecessor, artifacts, agent, late, calls>>
<1>1. ServiceTyped
  BY DEF AInv, Service
<1>2. ASSUME NEW n \in Node, HeartbeatWithoutAdapter(n) PROVE Kept /\ BindingsGrow /\ ServiceTyped'
  <2>1. Kept /\ UNCHANGED <<bindings, approvals, local>> /\ conn' = [conn EXCEPT ![n] = NoConfig]
    BY <1>2 DEF HeartbeatWithoutAdapter, nodeVars
  <2>2. conn' \in [Node -> Config \cup {NoConfig}]
    BY <1>1, <2>1 DEF ServiceTyped
  <2> QED
    BY <1>1, <2>1, <2>2 DEF ServiceTyped, BindingsGrow
<1>3. ASSUME NEW n \in Node, ConfigureOllama(n) PROVE Kept /\ BindingsGrow /\ ServiceTyped'
  <2>1. Kept /\ UNCHANGED <<bindings, approvals, local>> /\ conn' = [conn EXCEPT ![n] = local[n]]
    BY <1>3 DEF ConfigureOllama, nodeVars, vars
  <2>2. conn' \in [Node -> Config \cup {NoConfig}]
    BY <1>1, <2>1 DEF ServiceTyped
  <2> QED
    BY <1>1, <2>1, <2>2 DEF ServiceTyped, BindingsGrow
<1>4. ASSUME NEW n \in Node, OperatorEditsProviders(n) PROVE Kept /\ BindingsGrow /\ ServiceTyped'
  <2>1. /\ Kept /\ UNCHANGED <<conn, bindings, approvals>>
        /\ local[n] < MaxConfig /\ local' = [local EXCEPT ![n] = @ + 1]
    BY <1>4 DEF OperatorEditsProviders, serviceVars, vars
  <2>2. local' \in [Node -> Config]
    BY <1>1, <2>1, AgentBoundAssumption DEF ServiceTyped, Config
  <2> QED
    BY <1>1, <2>1, <2>2 DEF ServiceTyped, BindingsGrow
<1>5. ASSUME NEW t \in Task, NEW model_execution \in BOOLEAN, Approve(t, model_execution)
      PROVE  Kept /\ BindingsGrow /\ ServiceTyped'
  <2>1. Kept /\ UNCHANGED <<conn, local>>
    BY <1>5 DEF Approve, ApproveDispatchTask, nodeVars
  <2>2. PICK b : b = IF model_execution THEN BuildExecutionBindings(t) ELSE << >>
    OBVIOUS
  <2>3. b \in Binding(t)
    BY <1>1, <1>5, <2>2, BuiltBinding DEF Approve, Binding
  <2>4. /\ approvals' = [approvals EXCEPT ![t] = Append(@, NewApproval(dispatch_epoch, FALSE))]
        /\ bindings' = [bindings EXCEPT ![t] = Append(@, b)]
    BY <1>5, <2>2 DEF Approve, ApproveDispatchTask
  <2> QED
    BY <1>1, <2>1, <2>3, <2>4, ApprovalBinds
<1>6. ASSUME NEW r \in recoveries, ApproveRecovery(r) PROVE Kept /\ BindingsGrow /\ ServiceTyped'
  <2>1. Kept /\ UNCHANGED <<conn, local>>
    BY <1>6 DEF ApproveRecovery, ApproveDispatchRecovery, nodeVars
  <2>2. PICK t \in Task : t = r.task
    BY DEF IInv, Consistent, Typed, Recovery
  <2>3. PICK model_execution \in BOOLEAN :
              /\ model_execution => Ready(t)
              /\ bindings' = [bindings EXCEPT ![t] =
                     Append(@, IF model_execution THEN BuildExecutionBindings(t) ELSE << >>)]
    BY <1>6, <2>2, Zenon DEF ApproveRecovery
  <2>4. PICK b : b = IF model_execution THEN BuildExecutionBindings(t) ELSE << >>
    OBVIOUS
  <2>5. b \in Binding(t)
    BY <1>1, <2>3, <2>4, BuiltBinding DEF Binding
  <2>6. /\ approvals' = [approvals EXCEPT ![t] = Append(@, NewApproval(r.target, TRUE))]
        /\ bindings' = [bindings EXCEPT ![t] = Append(@, b)]
    BY <1>6, <2>2, <2>3, <2>4 DEF ApproveRecovery, ApproveDispatchRecovery
  <2> QED
    BY <1>1, <2>1, <2>5, <2>6, ApprovalBinds
<1>7. Kept /\ BindingsGrow /\ ServiceTyped'
  BY <1>2, <1>3, <1>4, <1>5, <1>6 DEF Administration
<1>8. Quiet
  BY <1>7 DEF Quiet, SameAttempt
<1>9. Service'
  BY <1>7, <1>8, QuietService DEF AInv
<1>10. Forth
  BY <1>7 DEF Forth
<1>11. AgentTyped' /\ agent' = agent /\ late' = late /\ calls' = calls /\ artifacts' = artifacts
  BY <1>7 DEF AInv, AgentTyped
<1> QED
  BY <1>9, <1>10, <1>11, SoundTogether

\* A call of execute, or of the service alone, that claims a role.
LEMMA ClaimingKeeps ==
  ASSUME IInv, IInv', AInv, NEW c \in Claims, Claim(c) \/ ClaimAgain(c), UNCHANGED <<local, calls>>
  PROVE  /\ Service' /\ Forth /\ artifacts' = artifacts /\ Made(attempts', c)
<1>1. CASE Claim(c)
  <2>1. /\ Service' /\ Made(attempts', c) /\ started' = started /\ artifacts' = artifacts
        /\ \A d \in Claims : Made(attempts, d) => Made(attempts', d) /\ envelope'[d] = envelope[d]
    BY <1>1, ClaimService DEF AInv
  <2> QED
    BY <2>1 DEF Forth
<1>2. CASE ClaimAgain(c)
  <2>1. /\ Made(attempts, c) /\ attempts' = ReconciledAttempts /\ approvals' = approvals
        /\ UNCHANGED <<conn, bindings, envelope, started, predecessor, artifacts>>
    BY <1>2 DEF ClaimAgain, ListTasks, Made, serviceVars
  <2>2. Quiet
    BY <2>1, ReconcileIsQuiet
  <2>3. ServiceTyped' /\ BindingsGrow
    BY <2>1, TypesStay DEF SameLengths, BindingsGrow, AInv, Service
  <2>4. Service' /\ \A d \in Claims : Made(attempts, d) => Made(attempts', d)
    BY <2>1, <2>2, <2>3, QuietService DEF AInv
  <2> QED
    BY <2>1, <2>4 DEF Forth
<1> QED
  BY <1>1, <1>2

LEMMA ClaimUnansweredKeeps ==
  ASSUME IInv, IInv', AInv, NEW c \in Claims, ClaimUnanswered(c)
  PROVE  AInv'
<1>1. Claim(c) /\ UNCHANGED <<local, agent, late, calls>>
  BY DEF ClaimUnanswered, nodeVars
<1>2. Service' /\ Forth /\ artifacts' = artifacts
  BY <1>1, ClaimingKeeps
<1>3. AgentTyped'
  BY <1>1 DEF AInv, AgentTyped
<1> QED
  BY <1>1, <1>2, <1>3, SoundTogether

LEMMA ExecuteKeeps ==
  ASSUME IInv, IInv', AInv, NEW c \in Claims, ExecuteNextDispatch(c)
  PROVE  AInv'
<1>1. /\ agent[c].pc = "idle" /\ agent[c].run < MaxRuns
      /\ Claim(c) \/ ClaimAgain(c)
      /\ agent' = [agent EXCEPT ![c] = Begun(c, envelope'[c].binding)]
      /\ UNCHANGED <<local, late, calls>>
  BY DEF ExecuteNextDispatch
<1>2. Service' /\ Forth /\ artifacts' = artifacts /\ Made(attempts', c)
  BY <1>1, ClaimingKeeps
<1> DEFINE A == [pc : Stage, run : {0} \cup Run, config : Config \cup {NoConfig},
                 artifact : Artifact \cup {NoArtifact}]
<1>3. PICK a \in A : a = agent[c]
  BY DEF AInv, AgentTyped
<1>4. a.run + 1 \in Run /\ a.run + 1 # 0 /\ a.pc = "idle" /\ a.artifact = NoArtifact
  <2>1. a.run \in Nat /\ a.run < MaxRuns /\ MaxRuns \in Nat
    BY <1>1, <1>3, AgentBoundAssumption DEF Run
  <2> QED
    BY <1>1, <1>3, <2>1 DEF AInv, AgentSound, Run
<1>5. c[1] \in Node /\ local[c[1]] \in Config
  BY DEF Claims, AInv, Service, ServiceTyped
<1>6. PICK new : new = Begun(c, envelope'[c].binding)
  OBVIOUS
<1>7. CASE local[c[1]] = envelope'[c].binding
  <2>1. new = [pc |-> "start", run |-> a.run + 1, config |-> local[c[1]], artifact |-> NoArtifact]
    BY <1>3, <1>6, <1>7 DEF Begun
  <2>2. new \in A
    BY <1>4, <1>5, <2>1 DEF Stage
  <2>3. agent' \in [Claims -> A] /\ agent'[c] = new /\ \A d \in Claims \ {c} : agent'[d] = agent[d]
    BY <1>1, <1>6, <2>2 DEF AInv, AgentTyped
  <2>4. local[c[1]] # NoConfig
    BY <1>5 DEF Config, NoConfig
  <2>5. AgentSound(c)'
    BY <1>2, <1>4, <1>7, <2>1, <2>3, <2>4 DEF AgentSound, Made
  <2> QED
    BY <1>1, <1>2, <2>3, <2>5, SoundTogether DEF AgentTyped
<1>8. CASE local[c[1]] # envelope'[c].binding
  <2>1. new = [a EXCEPT !.run = @ + 1]
    BY <1>3, <1>6, <1>8 DEF Begun
  <2>2. new \in A /\ new.pc = "idle" /\ new.artifact = NoArtifact
    BY <1>3, <1>4, <2>1
  <2>3. agent' \in [Claims -> A] /\ agent'[c] = new /\ \A d \in Claims \ {c} : agent'[d] = agent[d]
    BY <1>1, <1>6, <2>2 DEF AInv, AgentTyped
  <2>4. AgentSound(c)'
    BY <2>2, <2>3 DEF AgentSound
  <2> QED
    BY <1>1, <1>2, <2>3, <2>4, SoundTogether DEF AgentTyped
<1> QED
  BY <1>7, <1>8

LEMMA AnsweredKeeps ==
  ASSUME IInv, IInv', AInv, NEW c \in Claims, Answered(c)
  PROVE  AInv'
<1>1. Requesting(c) /\ Handle(RequestOf(c)) /\ UNCHANGED <<local, late, calls>>
  BY DEF Answered
<1>2. /\ RequestSound(RequestOf(c))
      /\ RequestOf(c).kind = agent[c].pc /\ RequestOf(c).claim = c /\ RequestOf(c).run = agent[c].run
  BY <1>1, RequestIsSound
<1>3. /\ Service' /\ Forth
      /\ agent[c].pc = "start" => started'[c] = agent[c].run
      /\ \A artifact \in artifacts' : artifact \in artifacts \/ Called(artifact[1])'
  BY <1>1, <1>2, HandledService
<1>4. /\ AgentTyped /\ AgentSound(c) /\ agent[c].pc # "idle"
      /\ agent[c].run \in Run /\ Made(attempts, c)' /\ envelope'[c] = envelope[c]
  <2>1. AgentTyped /\ AgentSound(c) /\ agent[c].pc # "idle"
    BY <1>1 DEF AInv, Requesting
  <2>2. agent[c].run \in Run
    BY <2>1 DEF AgentTyped, AgentSound
  <2>3. Made(attempts, c)
    BY <2>1 DEF AgentSound
  <2> QED
    BY <1>3, <2>1, <2>2, <2>3 DEF Forth, Made
<1>5. ASSUME NEW stage \in Stage, NEW artifact \in Artifact \cup {NoArtifact}, Goes(c, stage, artifact),
             AgentSound(c)'
      PROVE  AInv'
  <2>1. AgentTyped' /\ \A d \in Claims \ {c} : agent'[d] = agent[d]
    BY <1>4, <1>5, AgentGoes
  <2> QED
    BY <1>1, <1>3, <1>5, <2>1, SoundTogether
<1>6. CASE agent[c].pc = "start"
  <2>1. PICK stage \in {"model", "fetch"} : Goes(c, stage, NoArtifact)
    BY <1>6, Zenon DEF Answered
  <2>2. /\ agent'[c].pc = stage /\ agent'[c].artifact = NoArtifact /\ agent'[c].run = agent[c].run
        /\ agent'[c].config = agent[c].config
    BY <1>4, <2>1, AgentGoes DEF Stage
  <2>3. AgentSound(c)'
    BY <1>3, <1>4, <1>6, <2>2 DEF AgentSound
  <2> QED
    BY <1>5, <2>1, <2>3 DEF Stage
<1>7. CASE agent[c].pc = "upload"
  <2>1. Goes(c, "finish", <<c, agent[c].run>>)
    BY <1>7, Zenon DEF Answered
  <2>2. <<c, agent[c].run>> \in Artifact
    BY <1>4 DEF Artifact
  <2>3. /\ agent'[c].pc = "finish" /\ agent'[c].artifact = <<c, agent[c].run>>
        /\ agent'[c].run = agent[c].run /\ agent'[c].config = agent[c].config
    BY <1>4, <2>1, <2>2, AgentGoes DEF Stage
  <2>4. AgentSound(c)'
    BY <1>4, <2>3 DEF AgentSound
  <2> QED
    BY <1>5, <2>1, <2>2, <2>4 DEF Stage
<1>8. CASE agent[c].pc = "finish"
  <2>1. Goes(c, "idle", NoArtifact)
    BY <1>8, Zenon DEF Answered
  <2>2. agent'[c].pc = "idle" /\ agent'[c].artifact = NoArtifact
    BY <1>4, <2>1, AgentGoes DEF Stage
  <2>3. AgentSound(c)'
    BY <2>2 DEF AgentSound
  <2> QED
    BY <1>5, <2>1, <2>3 DEF Stage
<1> QED
  BY <1>1, <1>6, <1>7, <1>8 DEF Requesting

\* A step of the agent that the service has no part in.
LEMMA AgentAlone ==
  ASSUME AInv, NEW c \in Claims, NEW stage \in Stage, Goes(c, stage, NoArtifact),
         UNCHANGED <<vars, serviceVars, local>>, calls \subseteq calls',
         stage # "idle" => agent[c].pc # "idle",
         stage \in {"fetch", "model", "upload"} => agent[c].pc \in {"fetch", "model", "upload"},
         stage = "upload" => Called(c)',
         \A request \in late' : request \in late \/ RequestSound(request)',
         \A call \in calls' : call \in calls \/ CallSound(call)'
  PROVE  AInv'
<1>1. UNCHANGED <<attempts, approvals, conn, bindings, envelope, started, predecessor, artifacts, local>>
  BY DEF vars, serviceVars
<1>2. Service'
  BY <1>1 DEF AInv, Service, ServiceTyped, Enveloped, StartNoted, HandedOn, BindingOf
<1>3. Forth
  BY <1>1 DEF Forth
<1>4. AgentTyped /\ AgentSound(c)
  BY DEF AInv
<1>5. /\ AgentTyped'
      /\ agent'[c].pc = stage /\ agent'[c].artifact = NoArtifact /\ agent'[c].run = agent[c].run
      /\ agent'[c].config = IF stage = "idle" THEN NoConfig ELSE agent[c].config
      /\ \A d \in Claims \ {c} : agent'[d] = agent[d]
  BY <1>4, AgentGoes
<1>6. AgentSound(c)'
  <2>1. Made(attempts, c)' <=> Made(attempts, c)
    BY <1>1 DEF Made
  <2> QED
    BY <1>1, <1>4, <1>5, <2>1 DEF AgentSound
<1> QED
  BY <1>1, <1>2, <1>3, <1>5, <1>6, SoundTogether

LEMMA FetchKeeps ==
  ASSUME AInv, NEW c \in Claims, FetchArtifact(c)
  PROVE  AInv'
<1>1. /\ agent[c].pc = "fetch" /\ Goes(c, "model", NoArtifact)
      /\ UNCHANGED <<vars, serviceVars, local>> /\ late' = late /\ calls' = calls
  BY DEF FetchArtifact
<1> QED
  BY <1>1, AgentAlone DEF Stage

LEMMA InvokeKeeps ==
  ASSUME AInv, NEW c \in Claims, InvokeConfiguredModel(c)
  PROVE  AInv'
<1>1. PICK call : call = [claim |-> c, run |-> agent[c].run, config |-> agent[c].config]
  OBVIOUS
<1>2. PICK stage \in {"upload", "finish"} : Goes(c, stage, NoArtifact)
  BY DEF InvokeConfiguredModel
<1>3. /\ agent[c].pc = "model" /\ calls' = calls \cup {call}
      /\ UNCHANGED <<vars, serviceVars, local>> /\ late' = late
  BY <1>1 DEF InvokeConfiguredModel
<1>4. UNCHANGED <<attempts, started, envelope>>
  BY <1>3 DEF vars, serviceVars
<1>5. AgentSound(c) /\ agent[c].run \in {0} \cup Run /\ agent[c].config \in Config \cup {NoConfig}
  BY DEF AInv, AgentTyped
<1>6. call \in [claim : Claims, run : Run, config : Config]
  BY <1>1, <1>3, <1>5 DEF AgentSound
<1>7. CallSound(call)'
  BY <1>1, <1>3, <1>4, <1>5, <1>6 DEF CallSound, AgentSound, Made
<1>8. Called(c)'
  BY <1>1, <1>3 DEF Called
<1> QED
  BY <1>2, <1>3, <1>7, <1>8, AgentAlone DEF Stage

LEMMA AbandonedSound ==
  ASSUME AInv, NEW c \in Claims, Abandoned(c), calls' = calls
  PROVE  \A request \in late' : request \in late \/ RequestSound(request)'
<1>1. PICK asked : asked = RequestOf(c)
  OBVIOUS
<1>2. Requesting(c) => RequestSound(asked)
  BY <1>1, RequestIsSound
<1>3. Requesting(c) => RequestSound(asked)'
  BY <1>2 DEF RequestSound, Called
<1>4. \A request \in late' : request \in late \/ (Requesting(c) /\ request = asked)
  BY <1>1 DEF Abandoned
<1> QED
  BY <1>3, <1>4

LEMMA GivesUpKeeps ==
  ASSUME AInv, NEW c \in Claims, GivesUp(c)
  PROVE  AInv'
<1>1. /\ Requesting(c) \/ agent[c].pc = "fetch"
      /\ Error(c) /\ Abandoned(c)
      /\ UNCHANGED <<vars, serviceVars, local>> /\ calls' = calls
  BY DEF GivesUp
<1>2. \A request \in late' : request \in late \/ RequestSound(request)'
  BY <1>1, AbandonedSound
<1>3. PICK stage \in {"finish", "idle"} : Goes(c, stage, NoArtifact)
  BY <1>1 DEF Error
<1>4. agent[c].pc # "idle"
  BY <1>1 DEF Requesting
<1> QED
  BY <1>1, <1>2, <1>3, <1>4, AgentAlone DEF Stage

LEMMA CrashKeeps ==
  ASSUME AInv, NEW c \in Claims, AgentCrash(c)
  PROVE  AInv'
<1>1. /\ Goes(c, "idle", NoArtifact) /\ Abandoned(c)
      /\ UNCHANGED <<vars, serviceVars, local>> /\ calls' = calls
  BY DEF AgentCrash
<1>2. \A request \in late' : request \in late \/ RequestSound(request)'
  BY <1>1, AbandonedSound
<1> QED
  BY <1>1, <1>2, AgentAlone DEF Stage

LEMMA LateKeeps ==
  ASSUME IInv, IInv', AInv, NEW request \in late, LateArrival(request)
  PROVE  AInv'
<1>1. /\ Handle(request) /\ UNCHANGED <<local, agent, calls>>
      /\ late' = late \ {request}
  BY DEF LateArrival
<1>2. RequestSound(request)
  BY DEF AInv
<1>3. /\ Service' /\ Forth
      /\ \A artifact \in artifacts' : artifact \in artifacts \/ Called(artifact[1])'
  BY <1>1, <1>2, HandledService
<1>4. AgentTyped'
  BY <1>1 DEF AInv, AgentTyped
<1> QED
  BY <1>1, <1>3, <1>4, SoundTogether

LEMMA StepKeeps ==
  ASSUME IInv, IInv', AInv, [AgentNext]_agentVars
  PROVE  AInv'
<1>1. CASE Execution
  BY <1>1, ExecuteKeeps, ClaimUnansweredKeeps, AnsweredKeeps, FetchKeeps, InvokeKeeps, GivesUpKeeps,
     CrashKeeps, LateKeeps DEF Execution
<1>2. CASE UNCHANGED agentVars
  <2>1. UNCHANGED <<attempts, approvals, conn, bindings, envelope, started, predecessor, artifacts,
                    local, agent, late, calls>>
    BY <1>2 DEF agentVars, vars, serviceVars, nodeVars
  <2>2. Service'
    BY <2>1 DEF AInv, Service, ServiceTyped, Enveloped, StartNoted, HandedOn, BindingOf
  <2>3. Forth /\ AgentTyped'
    BY <2>1 DEF AInv, AgentTyped, Forth
  <2> QED
    BY <2>1, <2>2, <2>3, SoundTogether
<1> QED
  BY <1>1, <1>2, ElsewhereKeeps, AdministrationKeeps DEF AgentNext

LEMMA AgentInitAInv == AgentInit => AInv
<1> SUFFICES ASSUME AgentInit PROVE AInv
  OBVIOUS
<1>1. /\ attempts = [c \in Claims |-> NoAttempt] /\ approvals = [t \in Task |-> << >>]
      /\ \A c \in Claims : attempts[c].status = "none"
  BY DEF AgentInit, Init, NoAttempt
<1>2. AgentTyped /\ \A c \in Claims : AgentSound(c)
  BY DEF AgentInit, AgentTyped, AgentSound, Stage, NoConfig
<1>3. ServiceTyped
  <2>1. local \in [Node -> Config] /\ conn \in [Node -> Config \cup {NoConfig}]
    BY AgentBoundAssumption DEF AgentInit, Config
  <2>2. \A t \in Task : bindings[t] \in Seq(Binding(t)) /\ Len(bindings[t]) = Len(approvals[t])
    BY <1>1 DEF AgentInit
  <2> QED
    BY <2>1, <2>2 DEF AgentInit, ServiceTyped
<1>4. Enveloped /\ StartNoted /\ HandedOn
  BY <1>1 DEF AgentInit, Enveloped, StartNoted, HandedOn, Made
<1> QED
  BY <1>2, <1>3, <1>4 DEF AgentInit, AInv, Service

-----------------------------------------------------------------------------
(* Theorems.                                                                 *)

LEMMA AgentInvariance == AgentSpec => [](IInv /\ AInv)
<1>1. AgentInit => IInv /\ AInv
  BY InitIInv, AgentInitAInv DEF AgentInit
<1>2. IInv /\ AInv /\ [AgentNext]_agentVars => (IInv /\ AInv)'
  <2>1. IInv /\ AInv /\ [AgentNext]_agentVars => IInv'
    BY StepOfDispatch, NextIInv
  <2> QED
    BY <2>1, StepKeeps
<1> QED
  BY <1>1, <1>2, PTL DEF AgentSpec

\* The agents ask nothing of the task dispatch that Dispatch does not model: with everything
\* that is proved of Dispatch, they implement it.
THEOREM AgentsUseDispatch == AgentSpec => Spec
<1>1. AgentInit => Init
  BY DEF AgentInit
<1>2. AInv /\ [AgentNext]_agentVars => [Next]_vars
  BY StepOfDispatch
<1> QED
  BY <1>1, <1>2, AgentInvariance, PTL DEF AgentSpec, Spec

\* The agents, the connections and the store of artifacts keep their types.
THEOREM AgentTypeCorrect == AgentSpec => []AgentTypeOK
<1>1. IInv /\ AInv => AgentTypeOK
  <2> SUFFICES ASSUME IInv, AInv PROVE AgentTypeOK
    OBVIOUS
  <2>1. TypeOK
    BY DEF IInv, Consistent, Typed, WellFormed, TypeOK
  <2>2. late \subseteq Request /\ calls \subseteq [claim : Claims, run : Run, config : Config]
    BY DEF AInv, RequestSound, CallSound
  <2>3. \A t \in Task : \A i \in DOMAIN bindings[t] : bindings[t][i] \in Binding(t)
    BY DEF AInv, Service, ServiceTyped
  <2> QED
    BY <2>1, <2>2, <2>3 DEF AInv, Service, ServiceTyped, AgentTyped, Binding, AgentTypeOK
<1> QED
  BY <1>1, AgentInvariance, PTL

\* However many calls of execute there are, and whatever requests are lost, late or handled
\* after their sender died, an attempt calls the model at most once, in the run whose start
\* the service accepted.
THEOREM ModelIsCalledOnce == AgentSpec => []ModelCalledOnce
<1>1. AInv => ModelCalledOnce
  <2> SUFFICES ASSUME AInv, NEW call \in calls, NEW other \in calls, other.claim = call.claim
               PROVE  started[call.claim] = call.run /\ other = call
    BY DEF ModelCalledOnce
  <2>1. CallSound(call) /\ CallSound(other)
    BY DEF AInv
  <2>2. call.run = other.run /\ call.config = other.config
    BY <2>1 DEF CallSound
  <2> QED
    BY <2>1, <2>2 DEF CallSound
<1> QED
  BY <1>1, AgentInvariance, PTL

\* The configuration that calls the model is the one that was approved for the role, however
\* connections and the files of the nodes changed since.
THEOREM BindingIsHonoured == AgentSpec => []BindingHonoured
<1>1. AInv => BindingHonoured
  BY DEF AInv, Service, Enveloped, CallSound, BindingHonoured
<1> QED
  BY <1>1, AgentInvariance, PTL

\* A success has an answer of the model behind it, stored and handed to the next role, and
\* neither a late request nor another epoch takes it back.
THEOREM ResultIsHandedOn == AgentSpec => []ResultHandedOn
<1>1. AInv => ResultHandedOn
  <2> SUFFICES ASSUME AInv, NEW c \in Claims, attempts[c].status = "SUCCEEDED"
               PROVE  \E call \in calls : call.claim = c
    BY DEF AInv, Service, HandedOn, ResultHandedOn
  <2>1. PICK result \in artifacts : result = <<c, started[c]>>
    BY DEF AInv, Service, HandedOn
  <2>2. Called(result[1]) /\ result[1] = c
    BY <2>1 DEF AInv
  <2> QED
    BY <2>2 DEF Called
<1> QED
  BY <1>1, AgentInvariance, PTL

\* What holds of the task dispatch holds of it at work with its agents: attempts and roles
\* agree, attempts were approved, the store stays one that validate accepts, epochs fence.
THEOREM DispatchHoldsWithAgents ==
    AgentSpec => [](AttemptsAgree /\ RolesInOrder /\ AttemptsApproved /\ StoreValid) /\ EpochFences
BY AgentsUseDispatch, AttemptsAndRolesAgree, RolesFollowEachOther, AttemptsWereApproved,
   StoreStaysValid, EpochsFence, PTL
=============================================================================
