------------------------------ MODULE Dispatch ------------------------------
(***************************************************************************)
(* The task dispatch of one organization in the Studio's access store      *)
(* (studio/access-store.mjs, studio/task-dispatch.mjs): tasks are chains   *)
(* of roles, each assigned to a node; administrators approve a task and,   *)
(* after an uncertain attempt, its recovery; agents claim a role, report   *)
(* its start, its progress and its end under a lease.                      *)
(*                                                                         *)
(* The store serializes its operations (update), and one that throws saves *)
(* nothing, so an operation is one action and a refused request no step.   *)
(* Requests come from agents and browsers that may be late, repeat          *)
(* themselves or have been overtaken: an action is enabled whenever some   *)
(* request would be accepted.  A repeated request gets the recorded answer *)
(* and saves what ListTasks saves, at most.                                 *)
(*                                                                         *)
(* Time is what became of deadlines: of an approval, of a lease, of a       *)
(* node's last heartbeat.  They pass in any order.                          *)
(***************************************************************************)
EXTENDS Naturals, Sequences

CONSTANTS
    TaskCount,    \* tasks are numbered in the order of their creation
    Node,
    Assignment,   \* the node of each role of a task, the head's first
    Key,          \* idempotency keys of claims: a bound on claims of a node
    MaxApprovals, \* bound: on approvals of a task
    MaxRevision,  \* bound: on saves of the orchestration profile
    MaxSequence,  \* bound: on events of an attempt
    NoClaim

Task == 1..TaskCount
Claims == Node \X Key

ASSUME TaskCountAssumption == TaskCount \in Nat
ASSUME AssignmentAssumption ==
    /\ Assignment \in [Task -> Seq(Node)]
    /\ \A t \in Task : Len(Assignment[t]) \in 2..5
ASSUME BoundAssumption ==
    MaxApprovals \in Nat /\ MaxRevision \in Nat \ {0} /\ MaxSequence \in Nat
ASSUME NoClaimAssumption == NoClaim \notin Claims

VARIABLES
    dispatch_epoch,  \* of the organization
    revision,        \* of its orchestration profile
    online,          \* nodes whose last heartbeat is recent enough
    tasks,
    approvals,       \* of each task, oldest first
    attempts,        \* by the claim that made them
    recoveries       \* recovery assessments

vars == <<dispatch_epoch, revision, online, tasks, approvals, attempts, recoveries>>

Roles(t) == 1..Len(Assignment[t])

TaskStatus == {"none", "AWAITING_APPROVAL", "AWAITING_RECOVERY_APPROVAL", "QUEUED",
               "ACTIVE", "SUCCEEDED", "FAILED", "RECOVERY_REQUIRED"}
AttemptStatus == {"none", "CLAIMED", "RUNNING", "SUCCEEDED", "FAILED", "RECOVERY_REQUIRED"}
ItemStatus == (AttemptStatus \ {"none"}) \cup
    {"WAITING_APPROVAL", "WAITING_RECOVERY_APPROVAL", "WAITING_DEPENDENCY", "QUEUED", "BLOCKED"}

Item == [status : ItemStatus, attempt : Claims \cup {NoClaim}]
TaskRecord == [status : TaskStatus, profile_revision : Nat, dispatch_epoch : Nat,
               dispatches : Seq(Item)]
Approval == [dispatch_epoch : Nat, recovery : BOOLEAN, expired : BOOLEAN, consumed : BOOLEAN]
Attempt == [status : AttemptStatus, task : 0..TaskCount, role : Nat, approval : Nat,
            dispatch_epoch : Nat, event_sequence : Nat, lapsed : BOOLEAN]
Recovery == [task : Task, role : Nat, attempt : Claims, previous : Nat, target : Nat]

NoTask == [status |-> "none", profile_revision |-> 0, dispatch_epoch |-> 0, dispatches |-> << >>]
NoAttempt == [status |-> "none", task |-> 0, role |-> 0, approval |-> 0,
              dispatch_epoch |-> 0, event_sequence |-> 0, lapsed |-> FALSE]

Init ==
    /\ dispatch_epoch = 1
    /\ revision = 1
    /\ online = Node
    /\ tasks = [t \in Task |-> NoTask]
    /\ approvals = [t \in Task |-> << >>]
    /\ attempts = [c \in Claims |-> NoAttempt]
    /\ recoveries = {}

-----------------------------------------------------------------------------
(* approvalForTask: the latest approval of the task as it is now.           *)

Matching(t) == {i \in 1..Len(approvals[t]) :
                   approvals[t][i].dispatch_epoch = tasks[t].dispatch_epoch}
Latest(indices) == CHOOSE i \in indices : \A j \in indices : j <= i
Unconsumed(t) == {i \in Matching(t) : ~approvals[t][i].consumed}
LiveApproval(t) == \E i \in Unconsumed(t) : ~approvals[t][i].expired

-----------------------------------------------------------------------------
(* reconcileData                                                            *)

Live(c) == attempts[c].status \in {"CLAIMED", "RUNNING"}
Lost(c) ==
    /\ Live(c)
    /\ tasks[attempts[c].task].status = "ACTIVE"
    /\ attempts[c].lapsed \/ c[1] \notin online
LostOf(t) == {c \in Claims : Lost(c) /\ attempts[c].task = t}
QueuedItems(t) == {i \in DOMAIN tasks[t].dispatches : tasks[t].dispatches[i].status = "QUEUED"}

Blocked(items) ==
    [i \in DOMAIN items |->
        IF items[i].status = "WAITING_DEPENDENCY" THEN [items[i] EXCEPT !.status = "BLOCKED"]
        ELSE items[i]]

\* A queued task without a live approval goes back to wait for one.
Demoted(t) ==
    LET recovery == \E i \in Unconsumed(t) :
                       i = Latest(Unconsumed(t)) /\ approvals[t][i].recovery
        item == CHOOSE i \in QueuedItems(t) : \A j \in QueuedItems(t) : i <= j
    IN  [tasks[t] EXCEPT
           !.status = IF recovery THEN "AWAITING_RECOVERY_APPROVAL" ELSE "AWAITING_APPROVAL",
           !.dispatches[item].status =
               IF recovery THEN "WAITING_RECOVERY_APPROVAL" ELSE "WAITING_APPROVAL"]

\* An active one whose attempt lost its lease or its node is fenced.
FencedTask(t) ==
    LET lost == CHOOSE c \in LostOf(t) : TRUE
    IN  [tasks[t] EXCEPT
           !.status = "RECOVERY_REQUIRED",
           !.dispatches = Blocked([@ EXCEPT ![attempts[lost].role].status = "RECOVERY_REQUIRED"])]

Reconciled(t) ==
    IF tasks[t].status = "QUEUED" /\ QueuedItems(t) # {} /\ ~LiveApproval(t) THEN Demoted(t)
    ELSE IF LostOf(t) # {} THEN FencedTask(t)
    ELSE tasks[t]

ReconciledTasks == [t \in Task |-> Reconciled(t)]
\* Faulty: the loss is recorded in the task alone.
ReconciledTasksOnly == [c \in Claims |-> attempts[c]]

ReconciledAttempts ==
    [c \in Claims |-> IF Lost(c) THEN [attempts[c] EXCEPT !.status = "RECOVERY_REQUIRED"]
                      ELSE attempts[c]]
\* Faulty: a loss does not move the epoch.
EpochUnmoved == dispatch_epoch

ReconciledEpoch ==
    IF \E c \in Claims : Lost(c) THEN dispatch_epoch + 1 ELSE dispatch_epoch

-----------------------------------------------------------------------------
(* Requests of browsers                                                     *)

\* Faulty: listing only reads.
ListTasksReadOnly == UNCHANGED vars

\* dispatchTasks and reconcileDispatches.
ListTasks ==
    /\ tasks' = ReconciledTasks
    /\ attempts' = ReconciledAttempts
    /\ dispatch_epoch' = ReconciledEpoch
    /\ UNCHANGED <<revision, online, approvals, recoveries>>

SaveOrchestrationProfile ==
    /\ revision < MaxRevision
    /\ revision' = revision + 1
    /\ UNCHANGED <<dispatch_epoch, online, tasks, approvals, attempts, recoveries>>

CreateDispatchTask(t) ==
    /\ tasks[t].status = "none"
    /\ t > 1 => tasks[t - 1].status # "none"
    /\ tasks' = [tasks EXCEPT ![t] =
           [status |-> "AWAITING_APPROVAL",
            profile_revision |-> revision,
            dispatch_epoch |-> dispatch_epoch,
            dispatches |-> [i \in Roles(t) |->
                [status |-> IF i = 1 THEN "WAITING_APPROVAL" ELSE "WAITING_DEPENDENCY",
                 attempt |-> NoClaim]]]]
    /\ UNCHANGED <<dispatch_epoch, revision, online, approvals, attempts, recoveries>>

NewApproval(epoch, recovery) ==
    [dispatch_epoch |-> epoch, recovery |-> recovery, expired |-> FALSE, consumed |-> FALSE]

ApproveDispatchTask(t) ==
    /\ tasks[t].status = "AWAITING_APPROVAL"
    /\ tasks[t].profile_revision = revision
    /\ tasks[t].dispatch_epoch = dispatch_epoch
    /\ Len(approvals[t]) < MaxApprovals
    /\ approvals' = [approvals EXCEPT ![t] = Append(@, NewApproval(dispatch_epoch, FALSE))]
    /\ tasks' = [tasks EXCEPT ![t].status = "QUEUED", ![t].dispatches[1].status = "QUEUED"]
    /\ UNCHANGED <<dispatch_epoch, revision, online, attempts, recoveries>>

\* Faulty: an attempt can be assessed again, for another epoch.
UnassessedForEpoch(c) == \A r \in recoveries : r.attempt = c => r.target # ReconciledEpoch

\* An attempt is assessed once.
Unassessed(c) == \A r \in recoveries : r.attempt # c

\* What dispatchRecoveryAssessment asks of the reconciled task and attempt.
AssessDispatchRecovery(c) ==
    LET attempt == ReconciledAttempts[c]
        t == attempt.task
        task == ReconciledTasks[t]
    IN  /\ attempt.status = "RECOVERY_REQUIRED"
        /\ task.status = "RECOVERY_REQUIRED"
        /\ task.profile_revision = revision
        /\ Unassessed(c)
        /\ attempt.dispatch_epoch = task.dispatch_epoch
        /\ task.dispatches[attempt.role] = [status |-> "RECOVERY_REQUIRED", attempt |-> c]
        /\ ReconciledEpoch > task.dispatch_epoch
        /\ recoveries' = recoveries \cup
               {[task |-> t, role |-> attempt.role, attempt |-> c,
                 previous |-> task.dispatch_epoch, target |-> ReconciledEpoch]}
        /\ tasks' = ReconciledTasks
        /\ attempts' = ReconciledAttempts
        /\ dispatch_epoch' = ReconciledEpoch
        /\ UNCHANGED <<revision, online, approvals>>

\* What validate asks of the epoch of a task: every assessment of the task is for it, or of it.
RecoveriesAllow(t, epoch) ==
    \A r \in recoveries : r.task = t => epoch \in {r.previous, r.target}

\* prepareRecoveredDispatchTask, unless an approval of the same recovery expired
\* before: then the task is prepared already.
Resumed(r) ==
    [tasks[r.task] EXCEPT
        !.dispatch_epoch = r.target,
        !.status = "QUEUED",
        !.dispatches[r.role] = [status |-> "QUEUED", attempt |-> NoClaim]]

\* The store is computed, and saved if validate accepts it: it may not, see StoreValid.
ApproveDispatchRecovery(r) ==
    LET task == tasks[r.task]
        item == task.dispatches[r.role]
    IN  /\ r.target = dispatch_epoch
        /\ task.profile_revision = revision
        /\ \/ /\ task.status = "RECOVERY_REQUIRED"
              /\ task.dispatch_epoch = r.previous
              /\ item = [status |-> "RECOVERY_REQUIRED", attempt |-> r.attempt]
           \/ /\ task.status = "AWAITING_RECOVERY_APPROVAL"
              /\ task.dispatch_epoch = r.target
              /\ item = [status |-> "WAITING_RECOVERY_APPROVAL", attempt |-> NoClaim]
        /\ Len(approvals[r.task]) < MaxApprovals
        /\ approvals' = [approvals EXCEPT ![r.task] = Append(@, NewApproval(r.target, TRUE))]
        /\ tasks' = [tasks EXCEPT ![r.task] = Resumed(r)]
        /\ RecoveriesAllow(r.task, tasks'[r.task].dispatch_epoch)
        /\ UNCHANGED <<dispatch_epoch, revision, online, attempts, recoveries>>

-----------------------------------------------------------------------------
(* Requests of agents                                                       *)

Candidates(n) ==
    {t \in Task :
        /\ ReconciledTasks[t].status \in {"QUEUED", "ACTIVE"}
        /\ \E i \in Roles(t) : /\ ReconciledTasks[t].dispatches[i].status = "QUEUED"
                               /\ Assignment[t][i] = n}

\* Only the oldest role queued for the node is considered.  The first claim of a
\* task consumes its approval.
ClaimDispatch(c) ==
    \E t \in Candidates(c[1]) : \E i \in Roles(t) :
        LET task == ReconciledTasks[t]
            approval == Latest(Matching(t))
            first == ~approvals[t][approval].consumed
        IN  /\ \A other \in Candidates(c[1]) : t <= other
            /\ task.dispatches[i].status = "QUEUED"
            /\ Assignment[t][i] = c[1]
            /\ attempts[c].status = "none"
            /\ c[1] \in online
            /\ task.dispatch_epoch = ReconciledEpoch
            /\ task.profile_revision = revision
            /\ Matching(t) # {}
            /\ first => ~approvals[t][approval].expired
            /\ approvals' = [approvals EXCEPT ![t][approval].consumed = TRUE]
            /\ attempts' = [ReconciledAttempts EXCEPT ![c] =
                   [status |-> "CLAIMED", task |-> t, role |-> i, approval |-> approval,
                    dispatch_epoch |-> task.dispatch_epoch, event_sequence |-> 0,
                    lapsed |-> FALSE]]
            /\ tasks' = [ReconciledTasks EXCEPT
                   ![t].status = IF first THEN "ACTIVE" ELSE @,
                   ![t].dispatches[i] = [status |-> "CLAIMED", attempt |-> c]]
            /\ dispatch_epoch' = ReconciledEpoch
            /\ UNCHANGED <<revision, online, recoveries>>

\* What roleEvent asks of an event of attempt c, after reconciliation.
EventAccepted(c) ==
    /\ attempts[c].dispatch_epoch = ReconciledEpoch
    /\ ReconciledTasks[attempts[c].task].dispatch_epoch = ReconciledEpoch
    /\ attempts[c].event_sequence < MaxSequence
    /\ ~attempts[c].lapsed

\* The attempt and its task after the event.
RoleEvent(c, status, task) ==
    /\ attempts' = [ReconciledAttempts EXCEPT ![c].status = status,
                                              ![c].event_sequence = @ + 1]
    /\ tasks' = [ReconciledTasks EXCEPT ![attempts[c].task] = task]
    /\ dispatch_epoch' = ReconciledEpoch
    /\ UNCHANGED <<revision, online, approvals, recoveries>>

TaskOf(c) == ReconciledTasks[attempts[c].task]

StartDispatch(c) ==
    /\ attempts[c].status = "CLAIMED"
    /\ EventAccepted(c)
    /\ RoleEvent(c, "RUNNING",
           [TaskOf(c) EXCEPT !.dispatches[attempts[c].role].status = "RUNNING"])

ProgressDispatch(c) ==
    /\ attempts[c].status = "RUNNING"
    /\ EventAccepted(c)
    /\ RoleEvent(c, "RUNNING", TaskOf(c))

\* Faulty: the next role is one off.
AdvancedAgain(task, i) ==
    IF i < Len(task.dispatches)
    THEN [task EXCEPT !.dispatches[i].status = "QUEUED"]
    ELSE [task EXCEPT !.dispatches[i].status = "SUCCEEDED", !.status = "SUCCEEDED"]

\* The next role, waiting or blocked, is queued; after the last the task is done.
Advanced(task, i) ==
    IF i < Len(task.dispatches)
    THEN [task EXCEPT !.dispatches[i].status = "SUCCEEDED",
                      !.dispatches[i + 1].status = "QUEUED"]
    ELSE [task EXCEPT !.dispatches[i].status = "SUCCEEDED", !.status = "SUCCEEDED"]

\* Faulty: the next role is tried anyway.
FailedThenNext(task, i) ==
    IF i < Len(task.dispatches)
    THEN [task EXCEPT !.dispatches[i].status = "FAILED",
                      !.dispatches[i + 1].status = "QUEUED"]
    ELSE [task EXCEPT !.dispatches[i].status = "FAILED", !.status = "FAILED"]

Failed(task, i) ==
    [task EXCEPT !.status = "FAILED",
                 !.dispatches = Blocked([@ EXCEPT ![i].status = "FAILED"])]

FinishDispatch(c, status) ==
    /\ attempts[c].status = "RUNNING"
    /\ EventAccepted(c)
    /\ RoleEvent(c, status,
           IF status = "SUCCEEDED" THEN Advanced(TaskOf(c), attempts[c].role)
           ELSE Failed(TaskOf(c), attempts[c].role))

\* The store keeps when it last heard of a node.
HeartbeatNode(n) ==
    /\ n \notin online
    /\ online' = online \cup {n}
    /\ UNCHANGED <<dispatch_epoch, revision, tasks, approvals, attempts, recoveries>>

-----------------------------------------------------------------------------
(* Time passes.                                                             *)

HeartbeatLost(n) ==
    /\ n \in online
    /\ online' = online \ {n}
    /\ UNCHANGED <<dispatch_epoch, revision, tasks, approvals, attempts, recoveries>>

LeaseExpires(c) ==
    /\ Live(c)
    /\ ~attempts[c].lapsed
    /\ attempts' = [attempts EXCEPT ![c].lapsed = TRUE]
    /\ UNCHANGED <<dispatch_epoch, revision, online, tasks, approvals, recoveries>>

ApprovalExpires(t) ==
    /\ \E i \in Unconsumed(t) :
         /\ ~approvals[t][i].expired
         /\ approvals' = [approvals EXCEPT ![t][i].expired = TRUE]
    /\ UNCHANGED <<dispatch_epoch, revision, online, tasks, attempts, recoveries>>

-----------------------------------------------------------------------------
AgentRequest ==
    \/ \E c \in Claims :
         \/ ClaimDispatch(c) \/ StartDispatch(c) \/ ProgressDispatch(c)
         \/ \E status \in {"SUCCEEDED", "FAILED"} : FinishDispatch(c, status)
    \/ \E n \in Node : HeartbeatNode(n)

BrowserRequest ==
    \/ ListTasks
    \/ SaveOrchestrationProfile
    \/ \E t \in Task : CreateDispatchTask(t) \/ ApproveDispatchTask(t)
    \/ \E c \in Claims : AssessDispatchRecovery(c)
    \/ \E r \in recoveries : ApproveDispatchRecovery(r)

Time ==
    \/ \E n \in Node : HeartbeatLost(n)
    \/ \E c \in Claims : LeaseExpires(c)
    \/ \E t \in Task : ApprovalExpires(t)

Next == AgentRequest \/ BrowserRequest \/ Time

Spec == Init /\ [][Next]_vars

-----------------------------------------------------------------------------
(* Properties                                                               *)

\* Every variable has its type, and a task has an item for each of its roles.
TypeOK ==
    /\ dispatch_epoch \in Nat
    /\ revision \in Nat
    /\ online \subseteq Node
    /\ tasks \in [Task -> TaskRecord]
    /\ approvals \in [Task -> Seq(Approval)]
    /\ attempts \in [Claims -> Attempt]
    /\ recoveries \subseteq Recovery
    /\ \A t \in Task :
         tasks[t].status # "none" => Len(tasks[t].dispatches) = Len(Assignment[t])

\* Two places say what became of an attempt, the attempt and the role it is the
\* attempt of.  They agree after every request, a role that no attempt carries is
\* not at work, and no live attempt is left behind by its task.
AttemptsAgree ==
    /\ \A t \in Task : \A i \in DOMAIN tasks[t].dispatches :
         LET item == tasks[t].dispatches[i]
         IN  IF item.attempt = NoClaim
             THEN item.status \notin AttemptStatus
             ELSE /\ item.status = attempts[item.attempt].status
                  /\ attempts[item.attempt].task = t
                  /\ attempts[item.attempt].role = i
    /\ \A c \in Claims :
         Live(c) => tasks[attempts[c].task].dispatches[attempts[c].role].attempt = c

\* One role of a task is at work or may be claimed at a time, and only after
\* every role before it succeeded, through any number of losses and recoveries.
RolesInOrder ==
    \A t \in Task : \A i \in DOMAIN tasks[t].dispatches :
        tasks[t].dispatches[i].status \notin {"WAITING_DEPENDENCY", "BLOCKED"} =>
            \A j \in 1..(i - 1) : tasks[t].dispatches[j].status = "SUCCEEDED"

\* Every attempt at a role was approved by itself: an approval carries a role at most
\* once, it was consumed by the claim, and a role gets another attempt only after the
\* uncertain end of the one before it was assessed, never because time passed.
AttemptsApproved ==
    /\ \A c, d \in Claims :
         /\ c # d /\ attempts[c].status # "none" /\ attempts[d].status # "none"
         /\ attempts[c].task = attempts[d].task
         /\ attempts[c].role = attempts[d].role
         => attempts[c].approval # attempts[d].approval
    /\ \A c \in Claims : attempts[c].status # "none" =>
         /\ attempts[c].approval \in DOMAIN approvals[attempts[c].task]
         /\ approvals[attempts[c].task][attempts[c].approval].consumed
         /\ \/ tasks[attempts[c].task].dispatches[attempts[c].role].attempt = c
            \/ /\ attempts[c].status = "RECOVERY_REQUIRED"
               /\ \E r \in recoveries : r.attempt = c

\* What validate relates before it lets a store be saved or loaded: nothing the service
\* accepts can make the service unable to read its own file.  Only what the approval of a
\* recovery computes is checked by the action; all other requests are accepted here whatever
\* they compute, and compute a store that validate accepts.  It refuses the approval of
\* a recovery exactly if the attempt that was assessed was itself made after a recovery.
StoreValid ==
    /\ \A t \in Task :
         /\ tasks[t].dispatch_epoch <= dispatch_epoch
         /\ \A i \in DOMAIN approvals[t] :
               approvals[t][i].dispatch_epoch <= tasks[t].dispatch_epoch
         /\ RecoveriesAllow(t, tasks[t].dispatch_epoch)
    /\ \A c \in Claims : attempts[c].status # "none" =>
         /\ attempts[c].dispatch_epoch <= tasks[attempts[c].task].dispatch_epoch
         /\ attempts[c].dispatch_epoch =
               approvals[attempts[c].task][attempts[c].approval].dispatch_epoch
    /\ \A r \in recoveries :
         /\ r.previous = attempts[r.attempt].dispatch_epoch
         /\ r.previous < r.target
         /\ r.target <= dispatch_epoch
         /\ RecoveriesAllow(r.task, r.target) <=>
               ~\E s \in recoveries : s.task = r.task /\ s.target = r.previous

\* The epoch moves exactly when an attempt is lost, once for all that one request
\* finds lost, and takes every task with it that is not recovered at that epoch:
\* none of them is at work in the new one.  An attempt of an epoch that was left
\* reports nothing any more: all that can still happen to it is its own loss.
EpochFences ==
    [][/\ dispatch_epoch' # dispatch_epoch <=>
            \E c \in Claims : Live(c) /\ attempts'[c].status = "RECOVERY_REQUIRED"
       /\ dispatch_epoch' \in {dispatch_epoch, dispatch_epoch + 1}
       /\ dispatch_epoch' # dispatch_epoch =>
            \A t \in Task : tasks'[t].dispatch_epoch < dispatch_epoch'
       /\ \A c \in Claims :
            /\ attempts[c].status # "none"
            /\ [attempts'[c] EXCEPT !.lapsed = FALSE] # [attempts[c] EXCEPT !.lapsed = FALSE]
            => \/ attempts[c].dispatch_epoch = dispatch_epoch'
               \/ attempts'[c].status = "RECOVERY_REQUIRED"]_vars

-----------------------------------------------------------------------------
(* What the documentation says and the code does not do                     *)

\* A task is not made ready to run after its profile revision or its epoch
\* changed (tenant-task-dispatch-design, acceptance conditions).
QueuedIsCurrent ==
    [][\A t \in Task : \A i \in DOMAIN tasks[t].dispatches :
         tasks[t].dispatches[i].status # "QUEUED" /\ tasks'[t].dispatches[i].status = "QUEUED"
         => /\ tasks'[t].profile_revision = revision'
            /\ tasks'[t].dispatch_epoch = dispatch_epoch']_vars

\* The exact assessment of a lost attempt can be approved as long as the epoch and
\* the profile it names are current (TENANT-DISPATCH-RECOVERY, step 4).
AssessedCanBeApproved ==
    \A r \in recoveries :
        /\ r.target = dispatch_epoch
        /\ tasks[r.task].status = "RECOVERY_REQUIRED"
        /\ tasks[r.task].profile_revision = revision
        /\ tasks[r.task].dispatches[r.role].attempt = r.attempt
        => RecoveriesAllow(r.task, r.target)
=============================================================================
