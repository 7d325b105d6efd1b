# Formal models of Eoduksini

TLA+ models of the program in `src/`, the TLC runs that check them on small
instances, and TLAPS proofs of what matters most for every instance.

Eoduksini runs approved work and can afterwards say what happened to it. Two parts carry
that promise, and the models follow them: the **local Controller**, a command line program
that executes the commands of an approved request at most once and records in a journal
what it knows of their effects, and the **Studio**, a service that hands the roles of a task
to nodes of an organization under leases and fences what it lost sight of.

## Inventory

| Component | State | Operations | Hard behaviour | What makes it correct |
|---|---|---|---|---|
| Controller journal, `core/controller/state.mjs` | events, replayed into approvals, assessments, attempts, reservation, fences, control epoch | `reduce` | long sequences of events; paths through errors | an event that must be recorded is accepted; one slot, one fence, one epoch move |
| Controller operations, `controller.mjs`, `store.mjs` | owner directory, journal file, the session of a process | `approve`, `run`, `recover` (and `init`, `status`, `economics`, post-run recordings) | processes that die anywhere, failing writes, an owner directory removed too early, children that outlive their parent | no command starts twice or unrecorded; no two commands at a time; receipts are true |
| Gates, `gates.mjs` | none | `prepareRequest`, `checkDispatch`, `checkApprovalTime` | state read earlier than it is used | nothing is dispatched on stale approval, epoch or repository |
| Runner, `runner.mjs` | one promise, two timers, a child, a callback | `executeCommand` | event, timer and callback order | a result is said only of a close that was seen; the promise always resolves |
| Task dispatch, `studio/access-store.mjs`, `studio/task-dispatch.mjs` | tasks, approvals, attempts, recoveries, epoch, in one JSON file | create, approve, claim, started, progress, finished, assess, approve recovery, list | late and repeated requests, lost leases, fences that concern other tasks | roles in order, every attempt approved by itself, no silent retry, no event of a past epoch |
| Node agent, `agent/`, with the bindings and artifacts of `model-execution.mjs`, `artifact-transport.mjs` | credential file, `providers.json`, one execution under way per call; at the service bindings of an approval, artifacts | claim, started, fetch, call of the model, upload, finished; configure, heartbeat | every request and every answer may be lost or late, the agent dies anywhere and is called again, configurations change meanwhile | the model is called at most once, as approved; what is handed on is the result that succeeded; no role is at work for ever |
| Registry and orchestration, `access-store.mjs`, `orchestration.mjs` | enrollments, nodes, connections, models, the profile | enroll, heartbeat, bind, create, save a profile; resolve an assignment | nodes and bindings change under what was built on them | a report can be kept; who reviews shares nothing with who codes |
| Billing, `studio/billing.mjs`, billing operations of `access-store.mjs`, `plans.mjs` | requests, the subscription of an account, the ids of feedback | checkout, feedback | a call with two awaits, a payment service whose answer is lost and whose feedback is early, late, repeated, out of order | access only for what was paid; a request is bound to one contract |
| Sessions, `auth.mjs` | flows and sessions in memory | login, logout | expiry, limits | not modelled |
| Governor, `core/governor.mjs` | locks with leases, kept by the caller | `issueLock`, `heartbeat`, `providerFailed`, `validateDecision`, `unlock` | lapse against renewal, failure and decision | one lock per scope; a lapsed lock holds its scope and is never revived |
| Resource plans, `core/reuse.mjs`, `resource-quota.mjs` | none: usage is the caller's | `resourcePlan` over quota, node and devices | the order of admissions and ends | limits hold in every order |
| Metering and post-run evidence, `core/metering.mjs`, `postrun.mjs`, `economics.mjs` | the record of an attempt, events of evidence | record a review, adoption, cost, energy interval; summarize | the order of events, attempts half observed, costs computed before they are recorded | nothing adopted unreviewed; no cost from part of the usage that can be known; what is complete stays so |
| Requirement graph, `packages/engine-primitives/requirement-graph.mjs` | none: graph and authorization are records of a caller | finalize, authorize, verify | order must not depend on the draft; records are edited, mixed up and handed in at any time | a topological order that is least; only what was authorized, while it is, is accepted |
| Semantic admission, `core/semantic.mjs` | none: footprints are in the requests | scan, assess | limits of the scan, patterns that end within a name, a repository that changes | two requests that were admitted write no common file and redeclare nothing of each other |
| Scheduler, network policy, server and pages, adapters, project contracts | none of their own | | | not modelled, below |

How they interact: `controller.mjs` calls the gates and the store, hands `runner.mjs` a
callback that appends to the journal, and gets a result back; everything a later process
knows comes from the journal. Agents and browsers call the Studio over HTTP; the Studio's
store runs one operation at a time (`update`) and writes the whole file or nothing.

`PROJECT.json` lists the components with their status, and the hazards with the line each
one bites at.

## Modules

**ControllerStore** is `state.mjs`: the state a journal reduces to, `Accepts` (the checks of
`reduce`) and `Reduce` (its effect). A journal is represented by the state it reduces to; the
events each move something forward that never moves back, so two prefixes of one journal
differ as states, and comparing states stands for the hash chain and the size check. A
request is what its digest is compared for: its epoch and the repository version.

**Controller** composes the reducer with `controller.mjs`, `store.mjs` and `gates.mjs`. An
invocation is a process with a location `pc`; every location is a place where the process
may die or another one may act:

| Location | Code |
|---|---|
| `idle` → `read` | `mkdir` of the owner directory in `withStore` |
| `read` → `decide` | `readStore` |
| `decide` | the body of `approve`, `run` (up to dispatch) or `recover` |
| `dispatch` | `checkDispatch` and `checkTime` before `PREPARED` |
| `append` → `write` → next | the checks of `session.append`, then the write |
| `loop` | the head of the loop over commands |
| `evidence`, `spawn`, `running`, `inspect` | `evidencePath`, `beforeSpawn` and `spawn`, the runner, `planTask` afterwards |
| `drain` | the runner terminating a child whose start could not be recorded |
| `close` | `finally` of `withStore` |

Making the owner directory may fail after `mkdir`, and so may looking at it and removing it at the end:
then it stays and is nobody's (`DeadOwner`), until the operator removes it (`BeginFailed`, `Close`).

The environment edits the repository, also back to a version it was in before, lets approvals age,
closes children and removes owner directories. The repository is the sequence `repo` of the versions it has
been in; the code sees the last one when it looks. `MaxMistakes` says how often the operator removes the directory of a live
process: 0 is the operator the documentation asks for.

**OneShot** is the abstract specification: an approval is consumed at most once, one attempt
is in progress at a time, commands are launched once and in order, halting is final. The run
`controller_run` checks that Controller implements it under the mapping `Promise`.

**Runner** is `executeCommand`: each event handler, timer and callback is an action.

**Dispatch** is the dispatch of one organization. Operations are serialized by `update` and a
refused one saves nothing, so an operation is an action and a refusal is no step; the exception
is the one the code makes, that reading (`ListTasks`) reconciles and saves. `validate` is asked, as in the
code, of what was computed, before it is saved. Only the approval of a recovery can compute a store that it
refuses: there its check is a condition on the new state. All other operations have no such condition, and
`StoreValid` says that they need none, and exactly which approvals it refuses. Deadlines are facts
that become true at some time (`expired`, `lapsed`, `online`), in any order.

**Billing** is the checkout and the feedback of subscriptions. A checkout call is at a place
(`pc`) between its awaits, where a restart of the Studio ends it; the operations of the access
store are atomic, as `update` makes them. The payment service is external: a contract, its
payments and the feedback it has `sent`; a message that was sent may be taken at any time, any
number of times, or never. The history of what was applied serves the properties only.

**PostRun** is the metering record as far as later evidence depends on it (lineage, times,
model calls), the four kinds of evidence with the checks of the reducer, and the summary. Under the owner
directory a recording reads the journal and appends one event, so that is one action. A cost is
computed before, from a reading of its own without the directory (`QuoteCost`, `controller.mjs:282-287`),
and is recorded later (`RecordCost`) if the results are still those it names. `work` holds what the record
knows of a command (`calls`) beside what its child did (`made`, a history variable): a child calls models until
it closes, also after its run lost it, and of a command that was lost perhaps nothing is recorded. A
repeated or conflicting event id adds nothing and is left out. It is a view of
its own on the journal, beside Controller, whose events PREPARED, COMMAND_STARTED,
COMMAND_FINISHED and FINISHED or RECOVERED are `Prepare`, `CommandStarted`, `CommandFinished` and `Finish`.

**NodeAgent** extends Dispatch with the program of a node: one call of `execute` is a claim's
`agent` record with its stage; `Answered` is a request that is handled and answered, `GivesUp` one
that is not, whose handling may come later (`late`); a refusal, a lost request and a lost answer are
the same error to the agent. `Begun` is the comparison of the envelope with `providers.json`,
`Start` the event that the agent's own time makes unrepeatable. The operations of Dispatch are
taken as they are and conjoined with what they do to bindings, artifacts and receipts; approvals
with and without model execution are both made. `calls` records calls of the model for the
properties only.

**Governor** is the locks of one project. The functions are pure; `locks` is what their caller
keeps. Two scopes overlap or not by a constant relation, which `scopeOverlap` computes.
**Admission** extends it with the tasks that run: `Admit` asks `Free` (the check of `writerGate`)
and the resource plan, in the order `checkDispatch` does. The usage a plan is made of is summed
over the tasks that run, which is the caller's part and external.

**RequirementGraph** is what `requirement-graph.mjs` makes of a draft and how it verifies what a
holder hands in again. A digest is the content it is computed of, so a record that was changed fits
its digests only by being what they were made of. The shape checks of one field alone (lengths,
characters, shapes of identifiers) are left out. The bound on the entries of all fields together is in:
`Entries` counts what `assertSafeDataTree` visits, of a draft and of a record, which has three more. Sets, references, duplicates, cycles, times with
offsets, the scope payload and the Canon context are in, too.

**Semantic** is the scan of the tracked files for one request and its assessment against the
requests that wait. What the scanner finds in the text of one file is given with the file; the
limits, the matching of patterns and the comparison are modelled, paths and patterns as sequences
of characters, because a pattern may end within a name. Approvals of older versions, without a
footprint, are in.

**Registry** is what an organization tells the Studio of its nodes, connections, models and profile,
each operation saved only if `validate` accepts what it computed, and `Resolution`, the assignment of
roles that is made of them. Dispatch takes its result as the constant `Assignment`, and NodeAgent the
connection of a node as `conn`: those models do not look at how the profile was made. The two are
not composed: a task keeps the assignment it was created with.

`MC*` modules hold the constants of the runs. **MCGates** takes Admission, RequirementGraph, Semantic
and Registry together; they share no state, and a behaviour of it is one of one of the four. The modules named
`*Proofs` hold the proofs: `ControllerProofs` of the reducer and of Controller, and `ExclusionProofs`, which
extends it, of Controller under a careful operator; `RunnerProofs`, `DispatchProofs`, `BillingProofs` and
`PostRunProofs` of the module of that name; `NodeAgentProofs`, which extends `DispatchProofs`, of NodeAgent;
`GatesProofs` of Governor, Admission, RequirementGraph, Semantic and Registry. Operators commented *Faulty* are variants of one definition
with a plausible bug; the list `mutants` in `PROJECT.json` says which property each of them
must break, which shows that the property can fail.

## Runs

| Run | States | What it shows |
|---|---|---|
| `controller_run` | 370 000 | two invocations, attempts of two and one commands, a repository that is changed and changed back, owner directories that stay: slot, results, order, fences, receipts, and OneShot is implemented |
| `controller_semantic` | 178 000 | three attempts, two overlapping, one approved without an assessment: no overlapping dispatch; an invocation ends, whatever fails |
| `controller_premature` | 1 100 000 | one removal of a live process's directory: still one command at a time, and none without its intent on disk |
| `runner` | 2 263 | every order of events of one command; the promise resolves |
| `dispatch_tasks` | 635 000 | two tasks on two nodes, one of which works for both: roles in order, every attempt approved, the file can be read again, fences |
| `agent` | 338 000 | one task of two roles, three calls of `execute` with two runs each: one call of the model, as approved; results handed on; no role at work for ever |
| `billing` | 990 000 | two checkouts against an unreliable payment service |
| `postrun` | 44 000 | three attempts; the costs of one attempt of two commands with their model calls; one with every measurement and three events; one with five events |
| `gates` | 134 000 | locks through their leases; tasks let in and ended in any order; drafts and records of requirement graphs; footprints of two requests; the registry of two nodes |
| `dispatch_stale_queue`, `dispatch_second_recovery`, `postrun_numbered` | | the findings below |

Bounds. Two invocations suffice for every interleaving of one that was overtaken and one that
overtook it; a third adds none, since only one holds the directory. Two attempts show what one
does to another, two commands the boundary between commands. In `controller_run` the repository
changes twice, to another version and back or to a version that stays (for a result only the approved version
counts, so all others are one), and approvals do not age there: a gate may refuse for another reason at any time. They age through
all three stages in `controller_semantic`, where what is left of one matters to others. In
Dispatch two tasks share a node, claims (`Key`) are enough for a first attempt and its
replacement, `MaxApprovals` for an expiry and a recovery, one new profile, and events enough for
start, progress and end. In Billing two contracts and two requests show one request with two
contracts and one account with two requests; two payments and four applied messages are a payment,
a failure or a second payment, the end, and one repetition; `Memory` 2 stands for the 1000 ids the
store remembers. In PostRun `MaxRecorded` 2 stands for 64, times 1 and 2 are before and after, two calls of a command are one
with and one without usage, and two costs are one computed early and one computed late.
In Admission (run `gates`) an interval of 1 and leases of 2 and 3 let a heartbeat be missed before and together
with the lease, within a `MaxTime` of 3; the quota of the first contract has a base below its
maximum, a burst that ends and room for three tasks, that of the second has none of these.
In NodeAgent three executions of at most two runs give a first attempt, its repetition under the same
prefix and its replacement after a recovery; one late request, two configurations, room for two
artifacts. In RequirementGraph the drafts are every relation of dependency on three nodes in every
order of listing, all of up to three dependencies on four nodes in two orders, one draft for each of
fifteen refusals, with `MaxEntries` such that some drafts are above it, some within three entries of it and
most below, and a project of two revisions with one edit of a record, two receipts, two offsets and
times up to 2. In Semantic patterns and paths have up to three characters over a, b and /, which holds
every way in which a pattern can end within, at or beyond a name; limits of two files, two bytes and
one fact per field are passed by the four files that declare something. In Registry two nodes with two
providers and three models, of which two share a connection, let a reviewer be unfit for each reason there
is; one profile is made, of five assignments. Every bound is a CONSTANT named in the module. Symmetry is used over
invocations and claim keys in runs without liveness properties.

Some runs follow a part of the behaviours only, in a constraint named `Followed` (or
`MCFollowed`) of their MC module, because their questions are separate. `postrun` follows
three attempts of one command without calls or evidence, or the costs of one attempt with all calls up to the
first event, or one attempt with every measurement and up to three events, or an
attempt of one command with up to five. `dispatch_tasks` follows one task after a profile was
replaced. `agent` does not follow a late request together with an edited file of the node. `gates`
follows any locks while nothing runs, and any tasks beside at most one lock that was never renewed; of
a project of one draft only what becomes of the draft; commits, expiry and old approvals only where
files declare something; and in the registry nodes, connections and models that come in the order of
their ids, a profile after all models, and at most two of bindings and profiles together.

Fairness. `FairSpec` of Controller: a process that is not killed executes its next step; between
two steps nothing in the code waits, except for the runner, whose promise resolves by `Resolves`.
`FairSpec` of Runner: timers fire, Node reports a spawn or an error, the callback settles (it is
a synchronous append); nothing of the child. `AgentFairSpec` of NodeAgent: somebody lists the tasks
again and again (the page polls), and time passes, so that some lease which can run out does. Nothing
is assumed of agents, which may never be called again, and their requests alone do not record
a loss (below): `WorkEnds` holds because `execute` does not renew its lease.

What may surprise. An append of the Controller is always allowed to be refused: the journal may be
full and the owner lost. Refusals of a gate are always possible: capacity, locks, the clock and
paths are not modelled. The wall clock does not step back between invocations. Approval ids do not
collide. The invocation that finds the owner directory present changes nothing and is not an
action. The answer of a repeated request is not kept in Dispatch: it saves what `ListTasks` saves.
Equal timestamps, which the code orders by insertion, do not occur. Execution bindings, artifacts
and receipts of model execution are in NodeAgent, not in Dispatch, to which they only add refusals.
`AgentTypeOK` is checked by no run; the run `agent` spends its time on the other properties.
A second upload under one key is refused in NodeAgent, because each encryption gives another
ciphertext. A heartbeat without the provider is always accepted there, which says that no manual
profile names the node. `LapsedNotEntitled`
is said of feedback taken in the order it was sent: without that order it does not hold (below).
`providerFailed` looks at nothing and puts even a lock that was given back into recovery, beside a younger lock of the same scope, so
`OneGovernorPerScope` speaks of locks that are held, not of locks in recovery.

## Findings

1. `dispatch_stale_queue`: a finished role queues its successor even when the profile the task
   was made for has been replaced; the design forbids a task to become ready then.
2. `dispatch_second_recovery`: `validate` compares a task's epoch with every recovery it ever had,
   so the second recovery of a task can be assessed but never approved, and its task is stuck.
3. `postrun_numbered`: the parent of a retry is the last entry of an object's keys, and a JavaScript
   object lists ids made of digits first and in numeric order; a new attempt may then name another
   attempt than the previous one, which the metering document calls its parent.

Behaviours met while modelling that no run is spent on, because no document decides them:

- a node looks only at its oldest queued role, and one that became stale hides the younger ones;
- an assessment is void when the epoch moves before its approval, and the attempt cannot be
  assessed again;
- a claim or a role event that discovers a loss is refused and saves nothing, so the loss is
  recorded only by a request that succeeds, usually the next listing of tasks;
- a report of a payment that is delivered after the report of the cancellation makes the account
  entitled again, for good: `applySubscription` keeps no time of a report;
- a node that a manual profile names and that stops reporting the adapter has every heartbeat refused
  (`validate` finds the profile invalid, `INVALID_ACCESS_STORE`) until the profile is replaced, and so
  counts as silent 90 seconds later: `ReportsAccepted` says that this is the only report refused;
- a repeated `bind` with an old key is answered "ready" although the connection waits for an agent again;
- a ready assignment may put two roles of one unbound connection on different nodes; bound to one of them
  it can then never be approved for model execution;
- automatic assignment takes the first coder, also if another one would leave room for a reviewer;
- if the answer to `enroll` is lost the token is used up, and nobody holds the credential of the node;
- `execute` called again with the key of an attempt whose start was accepted conflicts at `started`, because
  the time of start is part of the request: the attempt waits for its lease to run out;
- `execute` that claims a task approved without model execution uses up the approval and stops, since
  there is no binding to compare;
- an authorized graph is verified without the Canon context it was finalized in, which may have moved;
- requests are compared with the waiting requests of all epochs, though `docs/LOCAL-CONTROLLER.md:154` speaks
  of those of the same epoch; that refuses more, not less;
- the write paths a policy declares are in the request but not in the footprint that is compared;
- on Windows `scannerMatches` ignores case and `pathOverlap` does not; the model is that of POSIX;
- of a lost attempt only the commands seen to end count, so an accepted energy interval may end
  before its last command started;
- usage of a lost attempt is called OBSERVED when it is known of every call that was recorded
  (`metering.mjs:287-300`), though its last command may have made calls nobody saw, and a cost made of it is
  recorded as ESTIMATED: `CostCoversCalls` excepts that command, and nothing else;
- a repository that is changed while a command runs and is changed back before the Controller looks passes as
  unchanged (`controller.mjs:195-201`): `ResultsObserved` speaks of what was found at each look, which is
  what the code can know;
- an owner directory that could not be made whole or removed stays (`store.mjs:124-128`, 178-182) and refuses
  every invocation until the operator removes it: `SessionsEnd` says that invocations end, not that what they
  leave is gone;
- a draft of a requirement graph that is less than three entries below the bound (99,998 to 100,000) is finalized and
  authorized, but its record fails `assertRequirementGraphIntegrity` for ever: `FinalizedIsStable` says that
  there are no other such drafts.

## Proofs

Every theorem holds for any value of the constants that the assumptions of the modules allow: there are
attempts, each has between one and sixteen commands, overlap is symmetric, owners are distinct from
processes, an assignment has two to five roles, and so on. The bounds of the runs
(`MaxBaseline`, `MaxEvents`, ...) are arbitrary there.

### Controller

Three invariants stand on each other.

| Invariant | Module | Says | Gives |
|---|---|---|---|
| `IInv` | ControllerProofs | types; the journal is a `Journal` (slot and statuses, epoch and fences agree); what a session appends is `Admissible` in the state it remembers | `TypeOK`, `ReservationAccounted`, `EpochMovesOnce` |
| `CInv` | ControllerProofs | what the journal holds of an attempt is `Chained`, its assessments are `Apart`; children and journal agree; every invocation's own view is sound (`Own`); no two run one attempt (`Alone`) | `IntentIsDurable`, `AtMostOneLiveChild`, `ResultsObserved`, `StartedOnceInOrder`, `NoOverlappingDispatch` |
| `XInv` | ExclusionProofs | one invocation is under way, it remembers the journal as it is, and the journal stands where its location says | `SessionsExclusive`, `ReceiptsHonest`, `FenceIsFinal`, `ImplementsOneShot` |

None of the properties is inductive: an event may be appended long after it was decided on, by a
session that has been overtaken. `IInv` therefore speaks of sessions. `LineWritten` makes a line part of
the journal only when the remembered state is the journal's own, so the journal moves only by
accepted events (`LineWrittenKeeps`), and `JournalKept` in `ControllerProofs` shows, event by
event, that those keep it a `Journal`. The owner directory plays no part in the argument.

It plays none in `CInv` either, which holds for any number of owner directories removed by mistake. What
excludes two invocations there is the journal: an invocation is `Armed`, about to start a command, only
after its own `COMMAND_PREPARED` became a line of the journal as it remembered it. From then on the
journal stands at that command (`ArmedWell`) and cannot be moved past it by another one, since the
reducer accepts for that attempt only the end of the command, which only the invocation that runs
the attempt submits (`Alone`). A recovery changes the status of the attempt and nothing of its
commands, so even an invocation that outlives a recovery starts a command that nobody else starts. When
a write leaves a part of a line the journal moves no more; then a child may be unknown to it, which is
why `IntentIsDurable` speaks of a journal that can be read. `ResultsObserved` needs moments: a child
holds how many versions the repository had been in when it started and when it closed. What the repository
was it has been for good, so a look that found the approved version stays found; the look after a command
closed, without which its result would not be SUCCEEDED, is the one that lets the next command start. A living child is at the command
its attempt stands at (`Standing`), and the attempt holds the one slot (`SlotAgrees`): hence one living
child. For `NoOverlappingDispatch` the assessment made earlier is related to every approval that
was added later (`Apart`): whoever came second was compared with the first, and overlap is symmetric.

`XInv` needs the care of the operator, `MaxMistakes = 0`, and so do the four theorems made from it: the run
`controller_premature` is about what is left without it. An invocation that is not idle holds the
owner directory, so there is one, so its session is the journal; then each of its events finds the
state it was decided in, and the reducer accepts it (`InTurn`). Behind a fence nothing is accepted
(`NothingBehindFence`): a fence leaves no attempt in progress, and an approval of the first epoch cannot be
prepared in the second. The refinement `PromiseIsKept` maps a step to what it does to phases, children
and fence (`PhaseStep`, `SpawnLaunches`, `SettledWasLaunched`): a step of the journal is a Consume, a
Settle, a Halt or a stutter, a start of a child is a Launch, and an attempt whose results all say
SUCCEEDED has as many children as commands.

### Runner

`RunnerProofs` proves `[]TypeOK`, `[]ResultObserved`, `[]OrphanWasSignalled` and `[]NeverStranded`.
The strengthening relates what the runner noted to what happened to the child: a signal that was
sent, a rejected callback or an exit by signal each leave a reason, and each state of the child
without a reason leaves a timer.

### Dispatch

`DispatchProofs` proves the type of the store, `AttemptsAgree`, `RolesInOrder`, `AttemptsApproved`, `StoreValid`
and `EpochFences` for any tasks, assignments, nodes and claims. Most requests change the store twice, they
reconcile it and then do what they were sent for; so the invariant `Consistent` is an operator on a
store, and each half of a request is shown to lead from a consistent store to a consistent one. It adds
to the properties what they lean on: the roles of a task up to one succeeded and those after it wait
(`Ordered`), the status of a task is one its front role allows (`Suits`), the latest approval of a task is
of its epoch and free exactly while it is needed (`Ticketed`), an assessed attempt stays as it was
assessed (`Dated`). That `validate` refuses the approval of a recovery exactly if the attempt was itself made
after one, and nothing else, needs one more (`Chained`): a task whose epoch is one it was assessed in still
stands at that role, lost, so of two assessments of a task one begins in the epoch the other leads to.

### Billing

`BillingProofs` proves the types, `EntitledWasPaid`, `LapsedNotEntitled` and `BindingIsFinal` for any accounts,
requests and contracts, any memory of feedback ids, and feedback taken in any order any number of
times. A request has one contract at most because a checkout asks once (`OneContract`), so the answer
and the feedback, whichever comes first, name the same (`Truthful`). The service says last of a contract that
it ended (`EndIsLast`), and an entitled account is so by the last message about its requests
(`EntitledByLast`): were all of them ended and taken in the order they were sent, that message would be
followed by an end.

### Node agent

`AgentsUseDispatch` shows that NodeAgent implements Dispatch: whatever an agent, its network and the artifact
store do to the tasks, attempts and approvals of an organization, a request of Dispatch does, or nothing. So
all theorems about Dispatch hold of the store that agents work against (`DispatchHoldsWithAgents`).
The invariant for the rest, `AInv`, has two halves. Of the service: the envelope of a claim says
what its approval froze (`Enveloped`), no run is noted before the start (`StartNoted`), a success has its
artifact stored and named to the next role (`HandedOn`). Of what may still arrive: a run that is under
way goes by the envelope and, once it was started, is the one noted (`AgentSound`); an upload, in time or
late, follows a call of the model (`RequestSound`); a call is of the run that is noted (`CallSound`). What
an agent goes by is fixed once it is there, which is why neither an edited file nor a late request
matters: `ModelCalledOnce`, `BindingHonoured` and `ResultHandedOn` follow. `AgentTypeOK`, which no run checks,
is proved.

### Post-run

`EvidenceInv` (the last review and the last decision are found where the checks look for them) gives
`AdoptionWasReviewed`, and with it a summary is complete exactly if all four kinds of evidence are there, so
that it stays so (`CompleteStays`). A cost that was computed covers an attempt (`Covered`) if the results are still those
the cost names: results are only added, so while they are the same no command was recorded meanwhile, and what
is recorded of a command is what its child did, but for the last one of an attempt that was lost (`CostInv`).
That the sum of all calls is the sum over commands is an induction over the calls of a command and over the
commands (`CostCoversCalls`). The retry index counts the attempts of the task that came before (`Counted`), and the
parent is one of them (`Descends`); that it is the one before is not so (the third finding).

### Gates

Governor: `LocksTypeOK` carries the order of issue, last heartbeat, expiry and now, which makes it the
inductive invariant for the other two: `issueLock` refuses a scope that any lock short of UNLOCKED
overlaps, so a new lock meets only locks given back, and no other step turns a status into
GOVERNOR_LOCKED; a lapsed lock stays lapsed because `heartbeat` and `unlock` ask for the state,
not the status. Admission does to the locks only what Governor does (`AdmissionUsesGovernor`).

Admission: limits are sums over the tasks that run, and a task that ends leaves a sum over fewer. The
invariant says of the sum of the first tasks, for each task, that it was within the base or the
task was a burst; taking a task out of the middle leaves that true because no request is negative.

RequirementGraph: what is accepted fits its digests, and the digest of a graph finalizes to that graph
(`DigestSaysGraph`); a receipt has its times without offsets (`ReceiptSound`), so that it can be compared
with the clock however it was written.

The order of the nodes is right for any draft (`OrdersAreRight`). Kahn's loop stays in line with what it has
taken (`InLine`): the indegree of a node is the number of its dependencies not yet taken, and the ready list
is what is free, in order of identifier. `Take` keeps that, by an inner loop over the nodes it frees
(`Freeing`), so every node taken was the first that was free (`Greedy`). A greedy order is complete exactly if
there is no cycle (`CompleteWithoutCycle`), and no other order of the dependencies comes before it
(`GreedyIsFirst`), so that it is one only (`GreedyIsOne`).

From that, a finalized graph is stable (`FinalizedGraphsAreStable`), except within three entries of the bound. Two drafts that say the same, list by list
(`SameDraft`), are both well formed or neither is, and have one normal form (`DraftsAreSame`): sorting forgets
the order of listing, and so does the order of the nodes, and both have as many entries (`EntriesAreSame`). A draft listed the other way round says the
same as the draft (`RelistedIsSame`), and so does its normal form (`NormalizedIsSame`). Both theorems ask of the
constants that the drafts of a project list sequences where the shape checks of the source want arrays
(`IsListed`, in `GraphAssumption`).

Semantic: `FootprintsApart` relates each approval that waits to each other one, whichever came first, for
conflict is mutual, and one without a footprint blocks all. `ApprovedApart` says more, of files and what they
declare. Two lemmas bridge the gap. If two patterns match one path, then `PathOverlap` of the patterns
(`MatchersOverlap`): what a pattern matches begins with the part before its first star, by induction over
the places the pattern reaches, and goes on there with "/" if there is no star. And a scan without a
doubt has read every file its task may write and kept every fact of it (`CertainFootprintHoldsAll`), by
induction over the loop, in which no doubt is ever taken back.

Registry: what is saved passed `validate`; with the types of its records (`DataTyped`) that is the invariant,
and a report can break it only by lacking what a manual profile names. `AssignmentsApart` holds of
the first candidates by rank, for any nodes, connections and models.

Induction. The proofs about sums, paths, scans and the loops over nodes use induction over numbers, by the least counterexample
(`Least`) or as a set of numbers that holds zero and every successor (`Induction`), and define
recursive functions by `Recursion`, since the theorems of the library about both take an operator.

### Only model-checked

Liveness (`SessionsEnd`, `Resolves`, `WorkEnds`): fairness and ENABLED are out of the prover's reach.
The three findings are counterexamples, which need no proof.

## Not modelled

- Sessions and login (`auth.mjs`), accounts, organizations and members: maps with limits and expiry,
  read and written in one turn, whose checks are about text and signatures.
- The server and its pages: routing and rendering; every change of state is a call of the access store.
- The scheduler, the network policy, the environment of a subprocess and the canonical form of the engine
  primitives: pure choices, checks and texts, which `core/reuse.mjs` hands on; a digest is its content here.
- What the semantic scanner takes from the text of one file, and the wording of prompts.
- Project contracts, installation, runtime adapters, scripts: validation, copying, input and output.
- Of modelled parts: sizes of events and of the journal, the clock stepping back between invocations,
  currency and energy arithmetic, ciphers and the files of an agent.

## Plan

What is left, in this order: sizes of events and of the journal, so that the headroom `PREPARED` reserves can be shown to suffice; the
clock of the Controller stepping back between invocations.
