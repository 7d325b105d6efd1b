----------------------------- MODULE Controller -----------------------------
(***************************************************************************)
(* The local Controller: CLI invocations of approve, run and recover that  *)
(* share one state directory, the owner directory that excludes them from  *)
(* one another, the journal they append to, and the children that run      *)
(* starts (core/controller/controller.mjs, store.mjs, gates.mjs).          *)
(*                                                                         *)
(* An invocation is a process that may die between any two of its steps.   *)
(* Its owner directory and its child outlive it, and the directory stays   *)
(* too when making or removing it fails.  A journal write may fail with    *)
(* nothing, everything or a part of the line on disk.  The environment     *)
(* edits the repository, also back to what it was, lets approvals age, and *)
(* an operator removes owner directories by hand.                          *)
(*                                                                         *)
(* init and status are not actions: init creates the state this module     *)
(* starts from, status reads the journal and changes nothing.              *)
(***************************************************************************)
EXTENDS ControllerStore, FiniteSets

CONSTANTS
    Process,           \* invocations that can be alive at a time
    MaxBaseline,       \* bound: the versions of the repository are 0..MaxBaseline
    MaxEdits,          \* bound: it is edited at most this often
    MaxAge,            \* bound: approvals age at most this far
    MaxMistakes        \* bound: so often does the operator remove the owner
                       \* directory of a process that is alive

ASSUME BoundAssumption ==
    /\ MaxBaseline \in Nat
    /\ MaxEdits \in Nat
    /\ MaxAge \in 0..2
    /\ MaxMistakes \in Nat

CONSTANTS NoOwner,     \* no owner directory
          DeadOwner    \* one whose process is gone, or was not able to make all of it
                       \* or to remove it: nobody but the operator does

ASSUME OwnerAssumption ==
    /\ NoOwner \notin Process
    /\ DeadOwner \notin Process
    /\ NoOwner # DeadOwner

VARIABLES
    store,     \* what the journal on disk reduces to
    corrupt,   \* the journal no longer replays
    owner,     \* the owner directory
    mistakes,  \* removals of the owner directory of a live process
    child,     \* the command processes started, by attempt and index
    repo,      \* the versions the repository has been in, the present one last
    age,       \* how far an approval's lifetime has run out
    pc,        \* where an invocation is
    call,      \* what an invocation was asked to do
    meta,      \* the store as the session of an invocation last saw it
    pend,      \* the event an invocation is appending
    outcome    \* the receipt an invocation is going to return, unless it cannot
               \* release its owner directory when it closes and reports that instead

disk == <<store, corrupt, owner>>
world == <<child, repo, age, mistakes>>
session == <<pc, call, meta, pend, outcome>>
vars == <<store, corrupt, owner, mistakes, child, repo, age, pc, call, meta, pend, outcome>>

Commands == {c \in Attempts \X (1..MaxCommands) : c[2] <= CommandCount[c[1]]}

\* A command process: not started, running, or closed with an exit code, and how
\* many versions the repository had been in when it was started and when it closed.
Child == [state : {"none", "alive", "exit_0", "exit_nonzero"}, started : Nat, closed : Nat]
NoChild == [state |-> "none", started |-> 0, closed |-> 0]
Alive(c) == child[c].state = "alive"

Version == repo[Len(repo)]

\* The lifetime of an approval: 0 while enough is left for a command, 1 when less
\* than a command's timeout is left, 2 when none is.
Fresh(a) == age[a] = 0
Expired == {a \in Attempts : age[a] = 2}

Locations == {"idle", "read", "decide", "dispatch", "append", "write",
              "loop", "evidence", "spawn", "running", "inspect", "drain", "close"}
Operations == {"approve", "run", "recover"}

Call == [op : Operations, attempt : Attempts, request : Request,
         expired : SUBSET Attempts]
NoCall == [op |-> "none"]
NoEvent == [type |-> "none"]
AnyAttempt == CHOOSE a \in Attempts : TRUE   \* recover names no attempt

Outcome == {"none", "BLOCKED"} \cup AttemptStatus

Init ==
    /\ store = InitialStore
    /\ corrupt = FALSE
    /\ owner = NoOwner
    /\ mistakes = 0
    /\ child = [c \in Commands |-> NoChild]
    /\ repo = <<0>>
    /\ age = [a \in Attempts |-> 0]
    /\ pc = [p \in Process |-> "idle"]
    /\ call = [p \in Process |-> NoCall]
    /\ meta = [p \in Process |-> InitialStore]
    /\ pend = [p \in Process |-> NoEvent]
    /\ outcome = [p \in Process |-> "none"]

-----------------------------------------------------------------------------
(* The shape of an invocation's steps.                                      *)

Goto(p, location) == pc' = [pc EXCEPT ![p] = location]

\* The session is over: go on to release the owner directory and return this
\* receipt.
Return(p, receipt) ==
    /\ Goto(p, "close")
    /\ outcome' = [outcome EXCEPT ![p] = receipt]
    /\ meta' = [meta EXCEPT ![p] = InitialStore]
    /\ pend' = [pend EXCEPT ![p] = NoEvent]

EventOf(p, type) ==
    [type |-> type, attempt |-> call[p].attempt, index |-> NoIndex,
     status |-> "SUCCEEDED", request |-> call[p].request, expired |-> call[p].expired]

Submit(p, event) ==
    /\ Goto(p, "append")
    /\ pend' = [pend EXCEPT ![p] = event]

SubmitFinished(p, status) ==
    Submit(p, [EventOf(p, "FINISHED") EXCEPT !.status = status])

Forget(p) ==
    /\ Goto(p, "idle")
    /\ call' = [call EXCEPT ![p] = NoCall]
    /\ meta' = [meta EXCEPT ![p] = InitialStore]
    /\ pend' = [pend EXCEPT ![p] = NoEvent]
    /\ outcome' = [outcome EXCEPT ![p] = "none"]

-----------------------------------------------------------------------------
(* Entering and leaving: withStore.                                         *)

\* mkdir of the owner directory excludes every other invocation; one that finds
\* it there returns OWNER_PRESENT and changes nothing.  approve reads the clock
\* before, so approvals that expire in between still count as peers.
Begin(p, op, a, request, expired) ==
    /\ pc[p] = "idle"
    /\ owner = NoOwner
    /\ owner' = p
    /\ Goto(p, "read")
    /\ call' = [call EXCEPT ![p] =
           [op |-> op, attempt |-> a, request |-> request, expired |-> expired]]
    /\ UNCHANGED <<store, corrupt, world, meta, pend, outcome>>

\* mkdir succeeds and the token cannot be written: the directory stays, without an
\* owner that could remove it.
BeginFailed(p) ==
    /\ pc[p] = "idle"
    /\ owner = NoOwner
    /\ owner' = DeadOwner
    /\ UNCHANGED <<store, corrupt, world, session>>

\* The requests an invocation is given are those prepare has returned so far.
Requests == [control_epoch : 1..store.control_epoch, baseline : {repo[k] : k \in DOMAIN repo}]

BeginApprove(p) ==
    \E a \in Attempts, request \in Requests, expired \in SUBSET Expired :
        Begin(p, "approve", a, request, expired)

BeginRun(p) ==
    \E a \in Attempts, request \in Requests : Begin(p, "run", a, request, {})

BeginRecover(p) ==
    Begin(p, "recover", AnyAttempt, [control_epoch |-> 1, baseline |-> 0], {})

ReadStore(p) ==
    /\ pc[p] = "read"
    /\ ~corrupt
    /\ meta' = [meta EXCEPT ![p] = store]
    /\ Goto(p, "decide")
    /\ UNCHANGED <<disk, world, call, pend, outcome>>

\* run answers BLOCKED to a journal it cannot replay.
ReadCorrupt(p) ==
    /\ pc[p] = "read"
    /\ corrupt
    /\ Return(p, IF call[p].op = "run" THEN "BLOCKED" ELSE "none")
    /\ UNCHANGED <<disk, world, call>>

\* Only the session that still holds the owner directory removes it.  Looking at
\* the token, unlink or rmdir may fail: then the directory stays.
Close(p) ==
    /\ pc[p] = "close"
    /\ owner' \in IF owner = p THEN {NoOwner, DeadOwner} ELSE {owner}
    /\ Forget(p)
    /\ UNCHANGED <<store, corrupt, world>>

-----------------------------------------------------------------------------
(* session.append.  The checks and the write are two steps: another process *)
(* can act between them.                                                    *)

RunEvents == {"PREPARED", "COMMAND_PREPARED", "COMMAND_STARTED", "COMMAND_FINISHED",
              "FINISHED"}

Checked(p) ==
    /\ pc[p] = "append"
    /\ owner = p
    /\ ~corrupt
    /\ meta[p] = store
    /\ Accepts(meta[p], pend[p])
    /\ Goto(p, "write")
    /\ UNCHANGED <<disk, world, call, meta, pend, outcome>>

\* Faulty: a final event that could not be appended is reported as if it had been.
FailUnnoticed(p) ==
    IF pend[p].type = "COMMAND_STARTED"
    THEN Goto(p, "drain") /\ UNCHANGED <<meta, pend, outcome>>
    ELSE Return(p, IF pend[p].type = "FINISHED" THEN pend[p].status ELSE "none")

\* A refused or failed append ends the session, whose later appends are all
\* refused.  While a child is being started, the runner is told first and the
\* session outlives its answer.
Fail(p) ==
    IF pend[p].type = "COMMAND_STARTED"
    THEN Goto(p, "drain") /\ UNCHANGED <<meta, pend, outcome>>
    ELSE Return(p, IF pend[p].type \in RunEvents THEN "RECOVERY_REQUIRED" ELSE "none")

\* The owner was lost, the journal changed, the event is out of turn, or the
\* journal has no room for it.
AppendRefused(p) ==
    /\ pc[p] = "append"
    /\ Fail(p)
    /\ UNCHANGED <<disk, world, call>>

\* One whole line reaches the journal.  It belongs to the hash chain only if the
\* session still knows the last event.
LineWritten(p) ==
    IF meta[p] = store /\ ~corrupt
    THEN store' = Reduce(store, pend[p]) /\ UNCHANGED corrupt
    ELSE corrupt' = TRUE /\ UNCHANGED store

\* Faulty: a command is started without a recorded intent.
AfterWithoutIntent(p) ==
    CASE pend[p].type = "SEMANTIC_ASSESSED" -> "close"
      [] pend[p].type = "PREPARED" -> "evidence"
      [] pend[p].type = "COMMAND_FINISHED" -> "loop"
      [] pend[p].type = "COMMAND_STARTED" -> "running"
      [] OTHER -> "close"

After(p) ==
    CASE pend[p].type = "SEMANTIC_ASSESSED" ->
           IF call[p].op = "run" /\ NonOverlapping(meta[p], pend[p].attempt, pend[p].expired)
           THEN "dispatch" ELSE "close"
      [] pend[p].type \in {"PREPARED", "COMMAND_FINISHED"} -> "loop"
      [] pend[p].type = "COMMAND_PREPARED" -> "evidence"
      [] pend[p].type = "COMMAND_STARTED" -> "running"
      [] OTHER -> "close"

Receipt(p) ==
    CASE pend[p].type = "FINISHED" -> pend[p].status
      [] pend[p].type = "SEMANTIC_ASSESSED" -> "BLOCKED"
      [] OTHER -> "none"

Written(p) ==
    /\ pc[p] = "write"
    /\ LineWritten(p)
    /\ IF After(p) = "close"
       THEN Return(p, Receipt(p))
       ELSE /\ Goto(p, After(p))
            /\ meta' = [meta EXCEPT ![p] = Reduce(@, pend[p])]
            /\ pend' = [pend EXCEPT ![p] = NoEvent]
            /\ UNCHANGED outcome
    /\ UNCHANGED <<owner, world, call>>

\* write or fsync reports an error although the line is on disk ...
WrittenUnacknowledged(p) ==
    /\ pc[p] = "write"
    /\ LineWritten(p)
    /\ Fail(p)
    /\ UNCHANGED <<owner, world, call>>

\* ... or after a part of it.
WrittenInPart(p) ==
    /\ pc[p] = "write"
    /\ corrupt' = TRUE
    /\ Fail(p)
    /\ UNCHANGED <<store, owner, world, call>>

-----------------------------------------------------------------------------
(* approve and recover                                                      *)

\* The request can no longer be prepared as it was: a fence, an attempt in
\* progress, an edit of the repository, a dirty worktree.
ApproveRefused(p) ==
    /\ pc[p] = "decide"
    /\ call[p].op = "approve"
    /\ Return(p, "BLOCKED")
    /\ UNCHANGED <<disk, world, call>>

\* Faulty: a fence does not keep a request from being prepared.
PreparableFenced(s, request) ==
    /\ Pending(s) = {}
    /\ request = [control_epoch |-> s.control_epoch, baseline |-> Version]

\* What prepareRequest asks of the state and the repository.
Preparable(s, request) ==
    /\ ~Fenced(s)
    /\ Pending(s) = {}
    /\ request = [control_epoch |-> s.control_epoch, baseline |-> Version]

Approve(p) ==
    LET s == meta[p]
        admitted == NonOverlapping(s, call[p].attempt, call[p].expired)
    IN  /\ pc[p] = "decide"
        /\ call[p].op = "approve"
        /\ Preparable(s, call[p].request)
        /\ Submit(p, EventOf(p, IF admitted THEN "APPROVED" ELSE "SEMANTIC_ASSESSED"))
        /\ UNCHANGED <<disk, world, call, meta, outcome>>

Recover(p) ==
    /\ pc[p] = "decide"
    /\ call[p].op = "recover"
    /\ IF Pending(meta[p]) = {}
       THEN Return(p, "none")
       ELSE Submit(p, EventOf(p, "RECOVERED")) /\ UNCHANGED <<meta, outcome>>
    /\ UNCHANGED <<disk, world, call>>

-----------------------------------------------------------------------------
(* run: admission                                                           *)

Deciding(p) == pc[p] = "decide" /\ call[p].op = "run"
SameRequest(p) == meta[p].approvals[call[p].attempt] = call[p].request

RunRejected(p) ==
    /\ Deciding(p)
    /\ Approved(meta[p], call[p].attempt)
    /\ ~SameRequest(p)
    /\ Return(p, "none")
    /\ UNCHANGED <<disk, world, call>>

\* The attempt was run before: its recorded status, and no execution.
RunReplayed(p) ==
    /\ Deciding(p)
    /\ Attempted(meta[p], call[p].attempt)
    /\ SameRequest(p)
    /\ Return(p, meta[p].status[call[p].attempt])
    /\ UNCHANGED <<disk, world, call>>

RunBlocked(p) ==
    /\ Deciding(p)
    /\ ~Attempted(meta[p], call[p].attempt)
    /\ Approved(meta[p], call[p].attempt) => SameRequest(p)
    /\ \/ Fenced(meta[p])
       \/ Pending(meta[p]) # {}
       \/ ~Approved(meta[p], call[p].attempt)
    /\ Return(p, "BLOCKED")
    /\ UNCHANGED <<disk, world, call>>

\* Faulty: every recorded approval counts as assessed.
NeedsNoAssessment(s, a) == s.semantic_assessments[a] = "none" /\ ~Approved(s, a)

NeedsAssessment(s, a) == s.semantic_assessments[a] = "none"

\* An approval recorded without an assessment is assessed now; one that has its
\* assessment goes on to dispatch.
RunAssessed(p) ==
    LET s == meta[p]
        a == call[p].attempt
    IN  /\ Deciding(p)
        /\ ~Attempted(s, a)
        /\ ~Fenced(s)
        /\ Pending(s) = {}
        /\ Approved(s, a)
        /\ SameRequest(p)
        /\ IF NeedsAssessment(s, a)
           THEN Submit(p, [EventOf(p, "SEMANTIC_ASSESSED") EXCEPT !.expired = Expired])
           ELSE Goto(p, "dispatch") /\ UNCHANGED pend
        /\ UNCHANGED <<disk, world, call, meta, outcome>>

-----------------------------------------------------------------------------
(* run: dispatch.  What checkDispatch and checkApprovalTime require of the  *)
(* state, the repository and the clock.                                     *)

Gate(p) ==
    LET s == meta[p]
    IN  /\ ~Fenced(s)
        /\ SameRequest(p)
        /\ call[p].request.control_epoch = s.control_epoch
        /\ Fresh(call[p].attempt)
        /\ Version = call[p].request.baseline

Dispatch(p) ==
    /\ pc[p] = "dispatch"
    /\ Gate(p)
    /\ ~Attempted(meta[p], call[p].attempt)
    /\ ~meta[p].reservation
    /\ Pending(meta[p]) = {}
    /\ Submit(p, EventOf(p, "PREPARED"))
    /\ UNCHANGED <<disk, world, call, meta, outcome>>

\* The gate refuses, for one of its reasons or for want of capacity or a
\* governor lock.
DispatchRefused(p) ==
    /\ pc[p] = "dispatch"
    /\ Return(p, "BLOCKED")
    /\ UNCHANGED <<disk, world, call>>

MoreCommands(p) ==
    /\ LastSucceeded(meta[p], call[p].attempt)
    /\ Len(meta[p].command_results[call[p].attempt]) < CommandCount[call[p].attempt]

PrepareCommand(p) ==
    LET a == call[p].attempt
    IN  /\ pc[p] = "loop"
        /\ MoreCommands(p)
        /\ Gate(p)
        /\ meta[p].reservation
        /\ Pending(meta[p]) = {a}
        /\ Submit(p, [EventOf(p, "COMMAND_PREPARED") EXCEPT !.index = NextIndex(meta[p], a)])
        /\ UNCHANGED <<disk, world, call, meta, outcome>>

\* The gate refuses the next command of an attempt that has already begun.
CommandRefused(p) ==
    /\ pc[p] = "loop"
    /\ MoreCommands(p)
    /\ SubmitFinished(p, "RECOVERY_REQUIRED")
    /\ UNCHANGED <<disk, world, call, meta, outcome>>

Finish(p) ==
    LET results == meta[p].command_results[call[p].attempt]
    IN  /\ pc[p] = "loop"
        /\ ~MoreCommands(p)
        /\ SubmitFinished(p, results[Len(results)])
        /\ UNCHANGED <<disk, world, call, meta, outcome>>

-----------------------------------------------------------------------------
(* run: one command                                                         *)

Current(p) == <<call[p].attempt, NextIndex(meta[p], call[p].attempt)>>
CommandEvent(p, type) == [EventOf(p, type) EXCEPT !.index = Current(p)[2]]
CommandFinished(p, status) == [CommandEvent(p, "COMMAND_FINISHED") EXCEPT !.status = status]

\* evidencePath insists on the owner directory once more.
Evidence(p) ==
    /\ pc[p] = "evidence"
    /\ owner = p
    /\ Goto(p, "spawn")
    /\ UNCHANGED <<disk, world, call, meta, pend, outcome>>

EvidenceOwnerLost(p) ==
    /\ pc[p] = "evidence"
    /\ owner # p
    /\ Return(p, "RECOVERY_REQUIRED")
    /\ UNCHANGED <<disk, world, call>>

\* Its directory could not be made, or is not one.
EvidenceFailed(p) ==
    /\ pc[p] = "evidence"
    /\ SubmitFinished(p, "RECOVERY_REQUIRED")
    /\ UNCHANGED <<disk, world, call, meta, outcome>>

\* beforeSpawn reads the clock a last time.
Spawn(p) ==
    /\ pc[p] = "spawn"
    /\ Fresh(call[p].attempt)
    /\ child' = [child EXCEPT ![Current(p)] =
           [state |-> "alive", started |-> Len(repo), closed |-> 0]]
    /\ Submit(p, CommandEvent(p, "COMMAND_STARTED"))
    /\ UNCHANGED <<disk, repo, age, mistakes, call, meta, outcome>>

\* The evidence file, the clock or spawn itself stands in the way.
NotSpawned(p) ==
    /\ pc[p] = "spawn"
    /\ Submit(p, CommandFinished(p, "RECOVERY_REQUIRED"))
    /\ UNCHANGED <<disk, world, call, meta, outcome>>

\* Faulty: a child that is not seen to close has failed.
RunnerResultsUnclosed(c) ==
    CASE child[c].state = "exit_0" -> {"SUCCEEDED"} [] OTHER -> {"FAILED"}

\* Faulty: the runner waits for the close of the child however long it takes.
RunnerResultsOfClosed(c) ==
    CASE child[c].state = "exit_0" -> {"SUCCEEDED"}
      [] child[c].state = "exit_nonzero" -> {"FAILED"}
      [] OTHER -> {}

\* What the runner makes of a child: its exit code once it has closed, and
\* RECOVERY_REQUIRED for a limit, a signal, or a close it has not seen.
RunnerResults(c) ==
    {"RECOVERY_REQUIRED"} \cup
        CASE child[c].state = "exit_0" -> {"SUCCEEDED"}
          [] child[c].state = "exit_nonzero" -> {"FAILED"}
          [] OTHER -> {}

Resolve(p) ==
    /\ pc[p] = "running"
    /\ \E status \in RunnerResults(Current(p)) :
         pend' = [pend EXCEPT ![p] = CommandFinished(p, status)]
    /\ Goto(p, "inspect")
    /\ UNCHANGED <<disk, world, call, meta, outcome>>

\* Faulty: the repository is not looked at again.
InspectNothing(p) ==
    /\ pc[p] = "inspect"
    /\ Submit(p, pend[p])
    /\ UNCHANGED <<disk, world, call, meta, outcome>>

\* A result counts only on the repository that was approved.  What the repository
\* was while the child ran is not known: one that was changed and changed back
\* passes.
Inspect(p) ==
    /\ pc[p] = "inspect"
    /\ Version = call[p].request.baseline
    /\ Submit(p, pend[p])
    /\ UNCHANGED <<disk, world, call, meta, outcome>>

InspectFailed(p) ==
    /\ pc[p] = "inspect"
    /\ Submit(p, [pend[p] EXCEPT !.status = "RECOVERY_REQUIRED"])
    /\ UNCHANGED <<disk, world, call, meta, outcome>>

\* The child could not be recorded as started: the runner terminates it and
\* nothing more is appended.
Drain(p) ==
    /\ pc[p] = "drain"
    /\ Return(p, "RECOVERY_REQUIRED")
    /\ UNCHANGED <<disk, world, call>>

-----------------------------------------------------------------------------
(* The environment                                                          *)

Crash(p) ==
    /\ pc[p] # "idle"
    /\ owner' = IF owner = p THEN DeadOwner ELSE owner
    /\ Forget(p)
    /\ UNCHANGED <<store, corrupt, world>>

OperatorRemovesOwner ==
    /\ owner # NoOwner
    /\ owner' = NoOwner
    /\ IF owner = DeadOwner
       THEN UNCHANGED mistakes
       ELSE mistakes < MaxMistakes /\ mistakes' = mistakes + 1
    /\ UNCHANGED <<store, corrupt, child, repo, age, session>>

ChildCloses ==
    /\ \E c \in Commands, state \in {"exit_0", "exit_nonzero"} :
         /\ Alive(c)
         /\ child' = [child EXCEPT ![c].state = state, ![c].closed = Len(repo)]
    /\ UNCHANGED <<disk, repo, age, mistakes, session>>

\* The repository changes, to a new version or back to an earlier one.
Edit ==
    /\ Len(repo) <= MaxEdits
    /\ \E version \in 0..MaxBaseline \ {Version} : repo' = Append(repo, version)
    /\ UNCHANGED <<disk, child, age, mistakes, session>>

ApprovalAges ==
    /\ \E a \in Attempts :
         /\ Approved(store, a)
         /\ age[a] < MaxAge
         /\ age' = [age EXCEPT ![a] = @ + 1]
    /\ UNCHANGED <<disk, child, repo, mistakes, session>>

-----------------------------------------------------------------------------
Step(p) ==
    \/ ReadStore(p) \/ ReadCorrupt(p) \/ Close(p)
    \/ Checked(p) \/ AppendRefused(p)
    \/ Written(p) \/ WrittenUnacknowledged(p) \/ WrittenInPart(p)
    \/ ApproveRefused(p) \/ Approve(p) \/ Recover(p)
    \/ RunRejected(p) \/ RunReplayed(p) \/ RunBlocked(p) \/ RunAssessed(p)
    \/ Dispatch(p) \/ DispatchRefused(p)
    \/ PrepareCommand(p) \/ CommandRefused(p) \/ Finish(p)
    \/ Evidence(p) \/ EvidenceOwnerLost(p) \/ EvidenceFailed(p) \/ Spawn(p) \/ NotSpawned(p)
    \/ Resolve(p) \/ Inspect(p) \/ InspectFailed(p) \/ Drain(p)

Environment == OperatorRemovesOwner \/ ChildCloses \/ Edit \/ ApprovalAges

Next ==
    \/ \E p \in Process :
         \/ BeginApprove(p) \/ BeginRun(p) \/ BeginRecover(p) \/ BeginFailed(p)
         \/ Step(p) \/ Crash(p)
    \/ Environment

Spec == Init /\ [][Next]_vars

\* An invocation that is not killed keeps executing: its steps are the
\* synchronous code of one process, and the runner's timers bound the one place
\* where it waits.
FairSpec == Spec /\ \A p \in Process : WF_vars(Step(p))

-----------------------------------------------------------------------------
(* Properties                                                               *)

\* Every variable has its type, and an invocation that has begun has a call, one
\* that is appending has an event.
TypeOK ==
    /\ store \in Store
    /\ corrupt \in BOOLEAN
    /\ owner \in Process \cup {NoOwner, DeadOwner}
    /\ mistakes \in Nat
    /\ child \in [Commands -> Child]
    /\ repo \in Seq(Nat) /\ repo # <<>>
    /\ age \in [Attempts -> 0..2]
    /\ pc \in [Process -> Locations]
    /\ call \in [Process -> Call \cup {NoCall}]
    /\ meta \in [Process -> Store]
    /\ pend \in [Process -> Event \cup {NoEvent}]
    /\ outcome \in [Process -> Outcome]
    /\ \A p \in Process :
         /\ pc[p] # "idle" => call[p] \in Call
         /\ pc[p] \in {"append", "write", "inspect"} => pend[p] \in Event

\* The one task slot of the policy is taken exactly while an attempt is in
\* progress or its effects are unknown, and never by two attempts (the
\* reservation of PREPARED, released by FINISHED alone).
ReservationAccounted ==
    /\ \A a, b \in Pending(store) : a = b
    /\ store.reservation <=>
         \E a \in Attempts : Incomplete(store, a) \/ store.status[a] = "RECOVERY_REQUIRED"

\* The epoch of a journal moves at most once, and whatever moves it leaves a
\* fence behind: no approval of the first epoch is dispatched in the second.
EpochMovesOnce ==
    /\ store.control_epoch \in {1, 2}
    /\ store.control_epoch = 2 => Fenced(store)

\* At no time do two command processes run, whichever invocations died, lost
\* their owner directory or left a child behind.
AtMostOneLiveChild == \A c, d \in Commands : Alive(c) /\ Alive(d) => c = d

\* A journal that can be read knows of every command process: it was started
\* after its intent was on disk, and no restart takes its attempt for unused.
IntentIsDurable ==
    \A c \in Commands :
        child[c].state # "none" /\ ~corrupt =>
            /\ Attempted(store, c[1])
            /\ c[2] < NextIndex(store, c[1]) \/ store.active_index[c[1]] = c[2]

\* Between the two moments the repository was once in this version.
OnVersion(version, first, last) == \E k \in first..last : repo[k] = version

\* A look at the repository that lets a command start is no older than this: the close
\* of the command before, or any version a request can have been prepared on.
Since(c) == IF c[2] = 1 THEN 1 ELSE child[<<c[1], c[2] - 1>>].closed

\* A recorded result is what the child did, and an attempt succeeded only if each of
\* its commands did.  However often the repository is changed and changed back, a
\* result is recorded only on a look that finds the approved version after the child
\* has closed, and the next command is started only after such a look.  What the
\* repository was while the child ran the Controller does not know: it compares what
\* it finds when it looks.
ResultsObserved ==
    \A a \in Attempts :
        LET results == store.command_results[a]
            version == store.approvals[a].baseline
            observed(i, exit) ==
                LET c == <<a, i>>
                IN  /\ child[c].state = exit
                    /\ OnVersion(version, Since(c), child[c].started)
                    /\ OnVersion(version, child[c].closed, Len(repo))
        IN  /\ \A i \in 1..Len(results) :
                 /\ results[i] = "SUCCEEDED" => observed(i, "exit_0")
                 /\ results[i] = "FAILED" => observed(i, "exit_nonzero")
            /\ store.status[a] = "SUCCEEDED" =>
                 \A i \in 1..CommandCount[a] : observed(i, "exit_0")

\* An append the Controller asks for finds the journal as its session left it,
\* and the reducer accepts every event of a run: two sessions never interleave
\* and run never dead-locks itself in the state machine of its own journal.
SessionsExclusive ==
    \A p \in Process :
        pc[p] \in {"append", "write"} =>
            /\ owner = p
            /\ ~corrupt
            /\ meta[p] = store
            /\ pend[p].type \in RunEvents => Accepts(store, pend[p])

\* A receipt tells the truth: a final status is on disk before it is returned,
\* and BLOCKED means the approval is still unused, as far as a journal can be read
\* (the receipts of run).
ReceiptsHonest ==
    \A p \in Process :
        pc[p] = "close" /\ call[p].op = "run" =>
            /\ outcome[p] \in {"SUCCEEDED", "FAILED"} =>
                 store.status[call[p].attempt] = outcome[p]
            /\ outcome[p] = "BLOCKED" /\ ~corrupt => ~Attempted(store, call[p].attempt)

\* No command of an attempt is started twice, and none before the commands
\* declared ahead of it have closed with exit code 0.
StartedOnceInOrder ==
    [][\A p \in Process : Spawn(p) =>
         /\ child[Current(p)].state = "none"
         /\ \A i \in 1..(Current(p)[2] - 1) :
              child[<<Current(p)[1], i>>].state = "exit_0"]_vars

\* Once the journal records a fence nothing is approved or started again: there
\* is no way back from RECOVERY_REQUIRED or MANUAL_DECISION_REQUIRED.
FenceIsFinal ==
    [][Fenced(store) =>
         /\ Fenced(store')
         /\ store'.approvals = store.approvals
         /\ \A c \in Commands : child[c].state = "none" => child'[c].state = "none"]_vars

\* An attempt begins only while no other usable approval touches the same
\* interfaces, however long ago either was assessed.
NoOverlappingDispatch ==
    [][\A a \in Attempts : ~Attempted(store, a) /\ Attempted(store', a) =>
         NonOverlapping(store, a, Expired)]_vars

\* The promise of OneShot, read off the journal and the children.
Phase(status) ==
    CASE status \in {"PREPARED", "RUNNING"} -> "in_progress"
      [] status = "SUCCEEDED" -> "succeeded"
      [] status = "FAILED" -> "failed"
      [] status = "RECOVERY_REQUIRED" -> "held"
      [] OTHER -> "unused"

Launched(a) == {i \in 1..CommandCount[a] : child[<<a, i>>].state # "none"}

Promise == INSTANCE OneShot WITH
    phase <- [a \in Attempts |-> Phase(store.status[a])],
    launched <- [a \in Attempts |-> Cardinality(Launched(a))],
    halted <- Fenced(store)

\* The Controller keeps the promise of OneShot: every step of it consumes,
\* launches, settles or halts as that specification allows, or does none of these.
ImplementsOneShot == Promise!Spec

\* An invocation ends, whatever fails on its way.  Not so what it leaves: its owner
\* directory stays when it cannot be removed, until the operator removes it.
SessionsEnd ==
    \A p \in Process : (pc[p] # "idle" \/ owner = p) ~> (pc[p] = "idle" /\ owner # p)
=============================================================================
