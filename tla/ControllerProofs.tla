-------------------------- MODULE ControllerProofs --------------------------
(***************************************************************************)
(* What holds of the Controller's journal and of the command processes it  *)
(* tells of, whatever its invocations, their crashes, the disk, the        *)
(* operator and the repository do, for any number of attempts, commands,   *)
(* processes and owner directories removed by mistake.                     *)
(*                                                                         *)
(* The argument, in three parts:                                           *)
(*   The reducer maps states to states, and the events a session appends   *)
(*   preserve Journal (JournalKept).                                       *)
(*   A session appends only events that the reducer accepts in the state   *)
(*   the session remembers (Checked), and the line it writes is part of    *)
(*   the journal only if that state is the journal's (LineWritten).  So    *)
(*   the journal moves only by accepted events and stays a Journal, and no *)
(*   assumption on the owner directory is needed.                          *)
(*   An invocation that is about to start a command is armed by its        *)
(*   recorded intent, and no two are armed for one attempt; what the       *)
(*   journal holds of an attempt moves by the one invocation that runs it. *)
(***************************************************************************)
EXTENDS Controller, TLAPS

-----------------------------------------------------------------------------
(* The reducer.                                                              *)

\* An attempt that takes the task slot: it is in progress or its effects are
\* unknown.
Held(s, a) == Incomplete(s, a) \/ s.status[a] = "RECOVERY_REQUIRED"

\* The slot is taken exactly while an attempt holds it, and one at most does.
SlotAgrees(s) ==
    /\ \A a, b \in Attempts : Held(s, a) /\ Held(s, b) => a = b
    /\ s.reservation <=> \E a \in Attempts : Held(s, a)

\* The epoch moves away from 1 only under a fence, a fence finds or leaves no
\* attempt in progress, and every approval is of the first epoch: so nothing can
\* be prepared, and the epoch not moved again, behind a fence.
EpochAgrees(s) ==
    /\ s.control_epoch \in {1, 2}
    /\ s.control_epoch = 2 => Fenced(s)
    /\ s.semantic_review_required => s.control_epoch = 2
    /\ Fenced(s) => \A a \in Attempts : ~Incomplete(s, a)
    /\ \A a \in Attempts : Approved(s, a) => s.approvals[a].control_epoch = 1

Journal(s) == SlotAgrees(s) /\ EpochAgrees(s)

\* What the Controller adds to the checks of the reducer before it appends an
\* approval or an assessment.
Admissible(s, e) ==
    e.type \in {"APPROVED", "SEMANTIC_ASSESSED"} => ~Fenced(s) /\ Pending(s) = {}

-----------------------------------------------------------------------------
LEMMA InitialStoreType == InitialStore \in Store
BY DEF InitialStore, Store, Request, NoRequest, AssessmentStatus, AttemptStatus,
       ResultStatus, NoIndex

LEMMA InitialJournal == Journal(InitialStore)
BY DEF InitialStore, Journal, SlotAgrees, EpochAgrees, Held, Incomplete, Fenced,
       Approved, NoRequest

\* The reducer is total on events: whatever it accepts, it returns a state.
LEMMA ReduceType ==
    ASSUME NEW s \in Store, NEW e \in Event
    PROVE  Reduce(s, e) \in Store
<1> USE DEF Store, Event
<1> DEFINE next_epoch == s.control_epoch + 1
<1>0. next_epoch \in Nat \ {0}
  OBVIOUS
<1>1. CASE e.type = "SEMANTIC_ASSESSED"
  <2>1. [s EXCEPT !.semantic_assessments[e.attempt] = "NON_OVERLAPPING"] \in Store
    BY DEF AssessmentStatus
  <2>2. ASSUME NEW n \in Nat \ {0}
        PROVE  [s EXCEPT !.semantic_assessments[e.attempt] = "MANUAL_DECISION_REQUIRED",
                         !.control_epoch = n,
                         !.semantic_review_required = TRUE] \in Store
    BY DEF AssessmentStatus
  <2> QED
    BY <1>0, <1>1, <2>1, <2>2 DEF Reduce, SemanticAssessed
<1>2. CASE e.type = "APPROVED"
  BY <1>2 DEF Reduce, AssessmentStatus
<1>3. CASE e.type = "PREPARED"
  BY <1>3 DEF Reduce, AttemptStatus
<1>4. CASE e.type = "RECOVERED"
  <2> DEFINE held == [a \in Attempts |->
                        IF Incomplete(s, a) THEN "RECOVERY_REQUIRED" ELSE s.status[a]]
  <2>1. held \in [Attempts -> AttemptStatus]
    BY DEF AttemptStatus, ResultStatus
  <2>2. ASSUME NEW f \in [Attempts -> AttemptStatus], NEW n \in Nat \ {0}
        PROVE  [s EXCEPT !.status = f,
                         !.control_epoch = n,
                         !.recovery_required = TRUE] \in Store
    OBVIOUS
  <2>3. Recovered(s) \in Store
    BY <1>0, <2>1, <2>2 DEF Recovered
  <2> QED
    BY <1>4, <2>3 DEF Reduce
<1>5. CASE e.type = "COMMAND_PREPARED"
  BY <1>5 DEF Reduce, AttemptStatus
<1>6. CASE e.type = "COMMAND_STARTED"
  BY <1>6 DEF Reduce, AttemptStatus
<1>7. CASE e.type = "COMMAND_FINISHED"
  <2>1. Append(s.command_results[e.attempt], e.status) \in Seq(ResultStatus)
    OBVIOUS
  <2>2. ASSUME NEW results \in Seq(ResultStatus)
        PROVE  [s EXCEPT !.command_results[e.attempt] = results,
                         !.active_index[e.attempt] = NoIndex] \in Store
    BY DEF NoIndex
  <2> QED
    BY <1>7, <2>1, <2>2 DEF Reduce
<1>8. CASE e.type = "FINISHED"
  BY <1>8 DEF Reduce, Finished, AttemptStatus
<1> QED
  BY <1>1, <1>2, <1>3, <1>4, <1>5, <1>6, <1>7, <1>8

-----------------------------------------------------------------------------
\* An accepted and admissible event leaves a Journal behind a Journal.
LEMMA JournalKept ==
    ASSUME NEW s \in Store, NEW e \in Event,
           Journal(s), Accepts(s, e), Admissible(s, e)
    PROVE  Journal(Reduce(s, e))
<1> DEFINE a == e.attempt
           t == Reduce(s, e)
<1> USE DEF Store, Event, Journal, SlotAgrees, EpochAgrees, Held, Incomplete, Pending,
            Fenced, Approved, Attempted, InProgress
<1>1. CASE AcceptsSemanticAssessed(s, e)
  <2>1. /\ e.type = "SEMANTIC_ASSESSED" /\ ~Fenced(s) /\ s.control_epoch = 1
        /\ \A b \in Attempts : ~Incomplete(s, b)
    BY <1>1 DEF AcceptsSemanticAssessed, Admissible
  <2>2. /\ t.status = s.status /\ t.reservation = s.reservation
        /\ t.approvals = s.approvals /\ t.recovery_required = s.recovery_required
        /\ \/ /\ t.control_epoch = s.control_epoch
              /\ t.semantic_review_required = s.semantic_review_required
           \/ /\ t.control_epoch = s.control_epoch + 1
              /\ t.semantic_review_required = TRUE
    BY <2>1 DEF Reduce, SemanticAssessed
  <2> QED
    BY <2>1, <2>2
<1>2. CASE AcceptsApproved(s, e)
  <2>1. /\ e.type = "APPROVED" /\ ~Fenced(s) /\ s.control_epoch = 1
        /\ e.request.control_epoch = 1
    BY <1>2 DEF AcceptsApproved, Admissible
  <2>2. /\ t.status = s.status /\ t.reservation = s.reservation
        /\ t.approvals = [s.approvals EXCEPT ![a] = e.request]
        /\ t.recovery_required = s.recovery_required
        /\ t.control_epoch = s.control_epoch
        /\ t.semantic_review_required = s.semantic_review_required
    BY <2>1 DEF Reduce
  <2> QED
    BY <2>1, <2>2
<1>3. CASE AcceptsPrepared(s, e)
  <2>1. /\ e.type = "PREPARED" /\ ~Fenced(s)
        /\ \A b \in Attempts : ~Held(s, b)
    BY <1>3 DEF AcceptsPrepared
  <2>2. /\ t.status = [s.status EXCEPT ![a] = "PREPARED"] /\ t.reservation = TRUE
        /\ t.approvals = s.approvals
        /\ t.recovery_required = s.recovery_required
        /\ t.control_epoch = s.control_epoch
        /\ t.semantic_review_required = s.semantic_review_required
    BY <2>1 DEF Reduce
  <2> QED
    BY <2>1, <2>2
<1>4. CASE AcceptsRecovered(s, e)
  <2>1. e.type = "RECOVERED" /\ ~Fenced(s) /\ s.control_epoch = 1
    BY <1>4 DEF AcceptsRecovered
  <2>2. /\ t.status = [b \in Attempts |->
                         IF Incomplete(s, b) THEN "RECOVERY_REQUIRED" ELSE s.status[b]]
        /\ t.reservation = s.reservation
        /\ t.approvals = s.approvals
        /\ t.recovery_required = TRUE
        /\ t.control_epoch = s.control_epoch + 1
        /\ t.semantic_review_required = s.semantic_review_required
    BY <2>1 DEF Reduce, Recovered
  <2> QED
    BY <2>1, <2>2
<1>5. CASE AcceptsCommandPrepared(s, e) \/ AcceptsCommandStarted(s, e)
  <2>1. /\ e.type \in {"COMMAND_PREPARED", "COMMAND_STARTED"} /\ InProgress(s, a)
    BY <1>5 DEF AcceptsCommandPrepared, AcceptsCommandStarted
  <2>2. /\ t.status \in {[s.status EXCEPT ![a] = "PREPARED"], [s.status EXCEPT ![a] = "RUNNING"]}
        /\ t.reservation = s.reservation
        /\ t.approvals = s.approvals
        /\ t.recovery_required = s.recovery_required
        /\ t.control_epoch = s.control_epoch
        /\ t.semantic_review_required = s.semantic_review_required
    BY <2>1 DEF Reduce
  <2>3. \A b \in Attempts : /\ Incomplete(t, b) <=> Incomplete(s, b)
                            /\ Held(t, b) <=> Held(s, b)
    BY <2>1, <2>2
  <2> QED
    BY <2>2, <2>3
<1>6. CASE AcceptsCommandFinished(s, e)
  <2>1. e.type = "COMMAND_FINISHED"
    BY <1>6 DEF AcceptsCommandFinished
  <2>2. /\ t.status = s.status /\ t.reservation = s.reservation
        /\ t.approvals = s.approvals
        /\ t.recovery_required = s.recovery_required
        /\ t.control_epoch = s.control_epoch
        /\ t.semantic_review_required = s.semantic_review_required
    BY <2>1 DEF Reduce
  <2> QED
    BY <2>2
<1>7. CASE AcceptsFinished(s, e)
  <2>1. /\ e.type = "FINISHED" /\ InProgress(s, a) /\ ~Fenced(s)
        /\ \A b \in Attempts \ {a} : ~Held(s, b)
    BY <1>7 DEF AcceptsFinished
  <2>2. /\ t.status = [s.status EXCEPT ![a] = e.status]
        /\ t.reservation = (e.status = "RECOVERY_REQUIRED")
        /\ t.approvals = s.approvals
        /\ t.recovery_required = (e.status = "RECOVERY_REQUIRED")
        /\ t.control_epoch = s.control_epoch
        /\ t.semantic_review_required = s.semantic_review_required
    BY <2>1 DEF Reduce, Finished
  <2> QED
    BY <2>1, <2>2 DEF ResultStatus
<1> QED
  BY <1>1, <1>2, <1>3, <1>4, <1>5, <1>6, <1>7 DEF Accepts
-----------------------------------------------------------------------------
(* The journal.                                                              *)

DiskType ==
    /\ store \in Store
    /\ corrupt \in BOOLEAN
    /\ owner \in Process \cup {NoOwner, DeadOwner}

WorldType ==
    /\ mistakes \in Nat
    /\ child \in [Commands -> Child]
    /\ repo \in Seq(Nat) /\ repo # << >> /\ repo[1] = 0
    /\ age \in [Attempts -> 0..2]
    /\ \A c \in Commands :
         /\ child[c].state # "none" => child[c].started \in 1..Len(repo)
         /\ child[c].state \in {"exit_0", "exit_nonzero"} => child[c].closed \in 1..Len(repo)

SessionType ==
    /\ pc \in [Process -> Locations]
    /\ call \in [Process -> Call \cup {NoCall}]
    /\ meta \in [Process -> Store]
    /\ pend \in [Process -> Event \cup {NoEvent}]
    /\ outcome \in [Process -> Outcome]

\* An invocation under way has a call; what it is appending is an event that its
\* session may append in the state it remembers, accepted once it was checked.
Session(p) ==
    /\ pc[p] # "idle" => call[p] \in Call
    /\ pc[p] \in {"append", "write", "inspect"} =>
         pend[p] \in Event /\ Admissible(meta[p], pend[p])
    /\ pc[p] = "write" => Accepts(meta[p], pend[p])

SessionsAgree == SessionType /\ \A p \in Process : Session(p)

IInv == DiskType /\ WorldType /\ SessionsAgree /\ Journal(store)

-----------------------------------------------------------------------------
(* The shapes of a step, as far as sessions are concerned                   *)

LEMMA EventOfType ==
    ASSUME NEW p \in Process, call[p] \in Call,
           NEW type \in {"SEMANTIC_ASSESSED", "APPROVED", "PREPARED",
                         "COMMAND_PREPARED", "COMMAND_STARTED",
                         "COMMAND_FINISHED", "FINISHED", "RECOVERED"}
    PROVE  EventOf(p, type) \in Event /\ EventOf(p, type).type = type
BY DEF EventOf, Event, Call, NoIndex, ResultStatus

LEMMA EventWith ==
    ASSUME NEW event \in Event
    PROVE  /\ \A i \in Nat : /\ [event EXCEPT !.index = i] \in Event
                             /\ [event EXCEPT !.index = i].type = event.type
           /\ \A r \in ResultStatus : /\ [event EXCEPT !.status = r] \in Event
                                      /\ [event EXCEPT !.status = r].type = event.type
           /\ \A x \in SUBSET Attempts : /\ [event EXCEPT !.expired = x] \in Event
                                         /\ [event EXCEPT !.expired = x].type = event.type
BY DEF Event

LEMMA MoveKeeps ==
    ASSUME NEW p \in Process, SessionsAgree, pc[p] # "idle",
           NEW location \in Locations \ {"idle", "append", "write", "inspect"},
           Goto(p, location), UNCHANGED <<call, meta, pend, outcome>>
    PROVE  SessionsAgree'
BY DEF SessionsAgree, SessionType, Session, Goto

LEMMA SubmitKeeps ==
    ASSUME NEW p \in Process, SessionsAgree, pc[p] # "idle",
           NEW event \in Event, Admissible(meta[p], event),
           Submit(p, event), UNCHANGED <<call, meta, outcome>>
    PROVE  SessionsAgree'
BY DEF SessionsAgree, SessionType, Session, Submit, Goto, Locations

LEMMA ReturnKeeps ==
    ASSUME NEW p \in Process, SessionsAgree, pc[p] # "idle",
           NEW receipt \in Outcome, Return(p, receipt), UNCHANGED call
    PROVE  SessionsAgree'
BY InitialStoreType DEF SessionsAgree, SessionType, Session, Return, Goto, Locations

LEMMA ForgetKeeps ==
    ASSUME NEW p \in Process, SessionsAgree, Forget(p)
    PROVE  SessionsAgree'
BY InitialStoreType DEF SessionsAgree, SessionType, Session, Forget, Goto, Locations,
                        Outcome, AttemptStatus

LEMMA FailKeeps ==
    ASSUME NEW p \in Process, SessionsAgree, pc[p] # "idle", Fail(p), UNCHANGED call
    PROVE  SessionsAgree'
<1>1. CASE pend[p].type = "COMMAND_STARTED"
  BY <1>1, MoveKeeps DEF Fail, Locations
<1>2. CASE pend[p].type # "COMMAND_STARTED"
  <2>1. Return(p, IF pend[p].type \in RunEvents THEN "RECOVERY_REQUIRED" ELSE "none")
    BY <1>2 DEF Fail
  <2> QED
    BY <2>1, ReturnKeeps DEF Outcome, AttemptStatus, ResultStatus
<1> QED
  BY <1>1, <1>2

-----------------------------------------------------------------------------
(* Entering, reading and leaving                                            *)

LEMMA BeginKeeps ==
    ASSUME IInv, NEW p \in Process, NEW op \in Operations, NEW a \in Attempts,
           NEW request \in Request, NEW expired \in SUBSET Attempts,
           Begin(p, op, a, request, expired)
    PROVE  IInv'
<1>1. [op |-> op, attempt |-> a, request |-> request, expired |-> expired] \in Call
  BY DEF Call
<1>2. SessionsAgree'
  BY <1>1 DEF IInv, SessionsAgree, SessionType, Session, Begin, Goto, Locations
<1> QED
  BY <1>2 DEF IInv, DiskType, WorldType, Begin, world

LEMMA BeginsKeep ==
    ASSUME IInv, NEW p \in Process,
           BeginApprove(p) \/ BeginRun(p) \/ BeginRecover(p) \/ BeginFailed(p)
    PROVE  IInv'
<1>1. Requests \subseteq Request
  <2>1. \A k \in DOMAIN repo : repo[k] \in Nat
    BY DEF IInv, WorldType
  <2> QED
    BY <2>1 DEF IInv, DiskType, Store, Requests, Request
<1>2. Expired \subseteq Attempts
  BY DEF Expired
<1>3. CASE BeginApprove(p)
  BY <1>1, <1>2, <1>3, BeginKeeps DEF BeginApprove, Operations
<1>4. CASE BeginRun(p)
  BY <1>1, <1>4, BeginKeeps DEF BeginRun, Operations
<1>5. CASE BeginRecover(p)
  <2>1. AnyAttempt \in Attempts
    BY AttemptsAssumption DEF AnyAttempt
  <2>2. [control_epoch |-> 1, baseline |-> 0] \in Request
    BY DEF Request
  <2> QED
    BY <1>5, <2>1, <2>2, BeginKeeps DEF BeginRecover, Operations
<1>6. CASE BeginFailed(p)
  BY <1>6 DEF BeginFailed, IInv, DiskType, WorldType, SessionsAgree, SessionType, Session, world, session
<1> QED
  BY <1>3, <1>4, <1>5, <1>6

LEMMA ReadsKeep ==
    ASSUME IInv, NEW p \in Process, ReadStore(p) \/ ReadCorrupt(p)
    PROVE  IInv'
<1>1. CASE ReadStore(p)
  <2>1. SessionsAgree'
    BY <1>1 DEF IInv, DiskType, SessionsAgree, SessionType, Session, ReadStore, Goto, Locations
  <2> QED
    BY <1>1, <2>1 DEF IInv, DiskType, WorldType, ReadStore, disk, world
<1>2. CASE ReadCorrupt(p)
  <2> DEFINE receipt == IF call[p].op = "run" THEN "BLOCKED" ELSE "none"
  <2>1. receipt \in Outcome
    BY DEF Outcome
  <2>2. SessionsAgree'
    BY <1>2, <2>1, ReturnKeeps DEF IInv, ReadCorrupt
  <2> QED
    BY <1>2, <2>2 DEF IInv, DiskType, WorldType, ReadCorrupt, disk, world
<1> QED
  BY <1>1, <1>2

LEMMA LeavingKeeps ==
    ASSUME IInv, NEW p \in Process, Close(p) \/ Crash(p)
    PROVE  IInv'
<1>1. SessionsAgree'
  BY ForgetKeeps DEF IInv, Close, Crash
<1>2. /\ owner' \in {owner, NoOwner, DeadOwner}
      /\ UNCHANGED <<store, corrupt, child, repo, age, mistakes>>
  BY DEF Close, Crash, world
<1> QED
  BY <1>1, <1>2 DEF IInv, DiskType, WorldType

-----------------------------------------------------------------------------
(* Appending                                                                *)

LEMMA CheckedKeeps ==
    ASSUME IInv, NEW p \in Process, Checked(p)
    PROVE  IInv'
<1>1. SessionsAgree'
  BY DEF IInv, SessionsAgree, SessionType, Session, Checked, Goto, Locations
<1> QED
  BY <1>1 DEF IInv, DiskType, WorldType, Checked, disk, world

LEMMA AppendRefusedKeeps ==
    ASSUME IInv, NEW p \in Process, AppendRefused(p)
    PROVE  IInv'
<1>1. SessionsAgree'
  BY FailKeeps DEF IInv, AppendRefused
<1> QED
  BY <1>1 DEF IInv, DiskType, WorldType, AppendRefused, disk, world

\* The line that a session writes moves the journal by an accepted event, or
\* leaves it unreadable as it was.
LEMMA LineWrittenKeeps ==
    ASSUME IInv, NEW p \in Process, pc[p] = "write", LineWritten(p)
    PROVE  store' \in Store /\ corrupt' \in BOOLEAN /\ Journal(store')
<1>1. CASE meta[p] = store /\ ~corrupt
  <2>1. /\ pend[p] \in Event
        /\ Admissible(store, pend[p])
        /\ Accepts(store, pend[p])
    BY <1>1 DEF IInv, SessionsAgree, Session
  <2>2. store' = Reduce(store, pend[p]) /\ corrupt' = corrupt
    BY <1>1 DEF LineWritten
  <2>3. store \in Store /\ corrupt \in BOOLEAN /\ Journal(store)
    BY DEF IInv, DiskType
  <2>4. Reduce(store, pend[p]) \in Store
    BY <2>1, <2>3, ReduceType
  <2>5. Journal(Reduce(store, pend[p]))
    BY <2>1, <2>3, JournalKept
  <2> QED
    BY <2>2, <2>3, <2>4, <2>5
<1>2. CASE ~(meta[p] = store /\ ~corrupt)
  BY <1>2 DEF LineWritten, IInv, DiskType
<1> QED
  BY <1>1, <1>2

LEMMA WritingKeeps ==
    ASSUME IInv, NEW p \in Process,
           Written(p) \/ WrittenUnacknowledged(p) \/ WrittenInPart(p)
    PROVE  IInv'
<1>1. CASE Written(p)
  <2>1. pc[p] = "write" /\ LineWritten(p) /\ UNCHANGED <<owner, world, call>>
    BY <1>1 DEF Written
  <2>2. pend[p] \in Event /\ meta[p] \in Store
    BY <2>1 DEF IInv, SessionsAgree, SessionType, Session
  <2>3. CASE After(p) = "close"
    <3>1. Receipt(p) \in Outcome
      BY <2>2 DEF Receipt, Outcome, AttemptStatus, Event
    <3>2. Return(p, Receipt(p))
      BY <1>1, <2>3 DEF Written
    <3> QED
      BY <2>1, <3>1, <3>2, ReturnKeeps, LineWrittenKeeps DEF IInv, DiskType, WorldType, world
  <2>4. CASE After(p) # "close"
    <3>1. After(p) \in Locations \ {"idle", "append", "write", "inspect"}
      BY DEF After, Locations
    <3>2. Reduce(meta[p], pend[p]) \in Store
      BY <2>2, ReduceType
    <3>3. /\ pc' = [pc EXCEPT ![p] = After(p)]
          /\ meta' = [meta EXCEPT ![p] = Reduce(meta[p], pend[p])]
          /\ pend' = [pend EXCEPT ![p] = NoEvent]
          /\ UNCHANGED <<call, outcome>>
      BY <1>1, <2>4 DEF Written, Goto
    <3>4. SessionsAgree'
      BY <2>1, <3>1, <3>2, <3>3 DEF IInv, SessionsAgree, SessionType, Session
    <3> QED
      BY <2>1, <3>4, LineWrittenKeeps DEF IInv, DiskType, WorldType, world
  <2> QED
    BY <2>3, <2>4
<1>2. CASE WrittenUnacknowledged(p)
  <2>1. /\ pc[p] = "write" /\ LineWritten(p) /\ Fail(p) /\ UNCHANGED <<owner, world, call>>
    BY <1>2 DEF WrittenUnacknowledged
  <2> QED
    BY <2>1, FailKeeps, LineWrittenKeeps DEF IInv, DiskType, WorldType, world
<1>3. CASE WrittenInPart(p)
  <2>1. /\ pc[p] = "write" /\ Fail(p) /\ corrupt' = TRUE
        /\ UNCHANGED <<store, owner, world, call>>
    BY <1>3 DEF WrittenInPart
  <2> QED
    BY <2>1, FailKeeps DEF IInv, DiskType, WorldType, world
<1> QED
  BY <1>1, <1>2, <1>3

-----------------------------------------------------------------------------
(* Deciding and running: steps that leave the disk alone                    *)

\* What a step that ends in a receipt, or only moves on, preserves.
LEMMA QuietKeeps ==
    ASSUME IInv, SessionsAgree', UNCHANGED <<disk, world>>
    PROVE  IInv'
BY DEF IInv, DiskType, WorldType, disk, world

LEMMA DecidingKeeps ==
    ASSUME IInv, NEW p \in Process,
           \/ ApproveRefused(p) \/ Approve(p) \/ Recover(p)
           \/ RunRejected(p) \/ RunReplayed(p) \/ RunBlocked(p) \/ RunAssessed(p)
    PROVE  IInv'
<1>0. /\ pc[p] = "decide" /\ pc[p] # "idle" /\ call[p] \in Call /\ meta[p] \in Store
      /\ SessionsAgree /\ UNCHANGED <<disk, world, call>>
  BY DEF IInv, SessionsAgree, SessionType, Session, ApproveRefused, Approve, Recover,
         RunRejected, RunReplayed, RunBlocked, RunAssessed, Deciding
<1>1. CASE ApproveRefused(p) \/ RunRejected(p) \/ RunBlocked(p)
  <2>1. Return(p, "BLOCKED") \/ Return(p, "none")
    BY <1>1 DEF ApproveRefused, RunRejected, RunBlocked
  <2> QED
    BY <1>0, <2>1, ReturnKeeps, QuietKeeps DEF Outcome
<1>2. CASE RunReplayed(p)
  <2>1. meta[p].status[call[p].attempt] \in Outcome
    BY <1>0 DEF Store, Call, Outcome
  <2> QED
    BY <1>0, <1>2, <2>1, ReturnKeeps, QuietKeeps DEF RunReplayed
<1>3. CASE Approve(p)
  <2>1. PICK type \in {"APPROVED", "SEMANTIC_ASSESSED"} : Submit(p, EventOf(p, type))
    BY <1>3 DEF Approve
  <2>2. EventOf(p, type) \in Event
    BY <1>0, EventOfType
  <2>3. Admissible(meta[p], EventOf(p, type))
    BY <1>3 DEF Approve, Preparable, Admissible
  <2> QED
    BY <1>0, <1>3, <2>1, <2>2, <2>3, SubmitKeeps, QuietKeeps DEF Approve
<1>4. CASE Recover(p)
  <2>1. CASE Pending(meta[p]) = {}
    BY <1>0, <1>4, <2>1, ReturnKeeps, QuietKeeps DEF Recover, Outcome
  <2>2. CASE Pending(meta[p]) # {}
    <3>1. /\ EventOf(p, "RECOVERED") \in Event
          /\ Admissible(meta[p], EventOf(p, "RECOVERED"))
      BY <1>0, EventOfType DEF Admissible
    <3> QED
      BY <1>0, <1>4, <2>2, <3>1, SubmitKeeps, QuietKeeps DEF Recover
  <2> QED
    BY <2>1, <2>2
<1>5. CASE RunAssessed(p)
  <2>1. CASE NeedsAssessment(meta[p], call[p].attempt)
    <3> DEFINE event == [EventOf(p, "SEMANTIC_ASSESSED") EXCEPT !.expired = Expired]
    <3>1. event \in Event
      BY <1>0, EventOfType, EventWith DEF Expired
    <3>2. Admissible(meta[p], event)
      BY <1>5 DEF RunAssessed, Admissible
    <3>3. Submit(p, event) /\ UNCHANGED <<meta, outcome>>
      BY <1>5, <2>1 DEF RunAssessed
    <3> QED
      BY <1>0, <3>1, <3>2, <3>3, SubmitKeeps, QuietKeeps
  <2>2. CASE ~NeedsAssessment(meta[p], call[p].attempt)
    BY <1>0, <1>5, <2>2, MoveKeeps, QuietKeeps DEF RunAssessed, Locations
  <2> QED
    BY <2>1, <2>2
<1> QED
  BY <1>1, <1>2, <1>3, <1>4, <1>5

\* Any event but an approval or an assessment is admissible.
LEMMA RunEventAdmissible ==
    ASSUME NEW s, NEW event, event.type \in RunEvents
    PROVE  Admissible(s, event)
BY DEF Admissible, RunEvents

LEMMA SubmitFinishedKeeps ==
    ASSUME NEW p \in Process, SessionsAgree, pc[p] # "idle", NEW status \in ResultStatus,
           SubmitFinished(p, status), UNCHANGED <<call, meta, outcome>>
    PROVE  SessionsAgree'
<1> DEFINE event == [EventOf(p, "FINISHED") EXCEPT !.status = status]
<1>1. call[p] \in Call
  BY DEF SessionsAgree, Session
<1>2. event \in Event /\ event.type = "FINISHED"
  BY <1>1, EventOfType, EventWith
<1>3. Admissible(meta[p], event)
  BY <1>2 DEF Admissible
<1>4. Submit(p, event)
  BY DEF SubmitFinished
<1> QED
  BY <1>2, <1>3, <1>4, SubmitKeeps

\* The result of an attempt with no more commands is that of its last command:
\* there is one, because every request declares a command.
LEMMA LastResult ==
    ASSUME IInv, NEW p \in Process, pc[p] # "idle", ~MoreCommands(p)
    PROVE  LET results == meta[p].command_results[call[p].attempt]
           IN  results[Len(results)] \in ResultStatus
<1> DEFINE results == meta[p].command_results[call[p].attempt]
<1>1. call[p].attempt \in Attempts /\ results \in Seq(ResultStatus)
  BY DEF IInv, SessionsAgree, SessionType, Session, Call, Store
<1>2. CommandCount[call[p].attempt] \in Nat /\ CommandCount[call[p].attempt] > 0
  BY <1>1, CommandCountAssumption DEF MaxCommands
<1>3. results # << >>
  BY <1>1, <1>2 DEF MoreCommands, LastSucceeded
<1> QED
  BY <1>1, <1>3

LEMMA DispatchingKeeps ==
    ASSUME IInv, NEW p \in Process,
           \/ Dispatch(p) \/ DispatchRefused(p)
           \/ PrepareCommand(p) \/ CommandRefused(p) \/ Finish(p)
    PROVE  IInv'
<1>0. /\ pc[p] # "idle" /\ call[p] \in Call /\ meta[p] \in Store
      /\ SessionsAgree /\ UNCHANGED <<disk, world, call>>
  BY DEF IInv, SessionsAgree, SessionType, Session, Dispatch, DispatchRefused,
         PrepareCommand, CommandRefused, Finish
<1>1. CASE Dispatch(p)
  BY <1>0, <1>1, EventOfType, RunEventAdmissible, SubmitKeeps, QuietKeeps
     DEF Dispatch, RunEvents
<1>2. CASE DispatchRefused(p)
  BY <1>0, <1>2, ReturnKeeps, QuietKeeps DEF DispatchRefused, Outcome
<1>3. CASE PrepareCommand(p)
  <2> DEFINE index == NextIndex(meta[p], call[p].attempt)
             event == [EventOf(p, "COMMAND_PREPARED") EXCEPT !.index = index]
  <2>1. index \in Nat
    BY <1>0 DEF NextIndex, Store, Call
  <2>2. event \in Event /\ event.type = "COMMAND_PREPARED"
    BY <1>0, <2>1, EventOfType, EventWith
  <2>3. Submit(p, event) /\ UNCHANGED <<meta, outcome>>
    BY <1>3 DEF PrepareCommand
  <2>4. Admissible(meta[p], event)
    BY <2>2 DEF Admissible
  <2> QED
    BY <1>0, <2>2, <2>3, <2>4, SubmitKeeps, QuietKeeps
<1>4. CASE CommandRefused(p)
  BY <1>0, <1>4, SubmitFinishedKeeps, QuietKeeps DEF CommandRefused, ResultStatus
<1>5. CASE Finish(p)
  BY <1>0, <1>5, LastResult, SubmitFinishedKeeps, QuietKeeps DEF Finish
<1> QED
  BY <1>1, <1>2, <1>3, <1>4, <1>5

LEMMA CommandEventType ==
    ASSUME IInv, NEW p \in Process, pc[p] # "idle", NEW status \in ResultStatus
    PROVE  /\ CommandEvent(p, "COMMAND_STARTED") \in Event
           /\ Admissible(meta[p], CommandEvent(p, "COMMAND_STARTED"))
           /\ CommandFinished(p, status) \in Event
           /\ Admissible(meta[p], CommandFinished(p, status))
<1>1. call[p] \in Call /\ meta[p] \in Store
  BY DEF IInv, SessionsAgree, SessionType, Session
<1>2. Current(p)[2] \in Nat
  BY <1>1 DEF Current, NextIndex, Store, Call
<1>3. \A type \in {"COMMAND_STARTED", "COMMAND_FINISHED"} :
        CommandEvent(p, type) \in Event /\ CommandEvent(p, type).type = type
  BY <1>1, <1>2, EventOfType, EventWith DEF CommandEvent
<1>4. CommandFinished(p, status) \in Event /\ CommandFinished(p, status).type = "COMMAND_FINISHED"
  BY <1>3, EventWith DEF CommandFinished
<1> QED
  BY <1>3, <1>4, RunEventAdmissible DEF RunEvents

LEMMA CommandKeeps ==
    ASSUME IInv, NEW p \in Process,
           \/ Evidence(p) \/ EvidenceOwnerLost(p) \/ EvidenceFailed(p)
           \/ Spawn(p) \/ NotSpawned(p) \/ Resolve(p) \/ Inspect(p) \/ InspectFailed(p)
           \/ Drain(p)
    PROVE  IInv'
<1>0. /\ pc[p] # "idle" /\ SessionsAgree /\ UNCHANGED <<disk, call>>
  BY DEF IInv, Evidence, EvidenceOwnerLost, EvidenceFailed, Spawn, NotSpawned, Resolve,
         Inspect, InspectFailed, Drain
<1>1. CASE Evidence(p)
  BY <1>0, <1>1, MoveKeeps, QuietKeeps DEF Evidence, Locations
<1>2. CASE EvidenceOwnerLost(p) \/ Drain(p)
  BY <1>0, <1>2, ReturnKeeps, QuietKeeps
     DEF EvidenceOwnerLost, Drain, Outcome, AttemptStatus, ResultStatus
<1>3. CASE EvidenceFailed(p)
  BY <1>0, <1>3, SubmitFinishedKeeps, QuietKeeps DEF EvidenceFailed, ResultStatus
<1>4. CASE Spawn(p)
  <2>1. SessionsAgree'
    BY <1>0, <1>4, CommandEventType, SubmitKeeps DEF Spawn, ResultStatus
  <2>2. /\ Len(repo) \in Nat \ {0}
        /\ [state |-> "alive", started |-> Len(repo), closed |-> 0] \in Child
    BY DEF IInv, WorldType, Child
  <2>3. /\ child' \in [Commands -> Child]
        /\ \A c \in Commands :
             \/ child'[c] = child[c]
             \/ child'[c].state = "alive" /\ child'[c].started = Len(repo)
    BY <1>4, <2>2 DEF Spawn, IInv, WorldType
  <2>4. WorldType'
    BY <1>4, <2>2, <2>3 DEF Spawn, IInv, WorldType
  <2> QED
    BY <1>0, <1>4, <2>1, <2>4 DEF Spawn, IInv, DiskType, disk
<1>5. CASE NotSpawned(p)
  BY <1>0, <1>5, CommandEventType, SubmitKeeps, QuietKeeps DEF NotSpawned, ResultStatus
<1>6. CASE Resolve(p)
  <2>1. PICK status \in RunnerResults(Current(p)) :
           pend' = [pend EXCEPT ![p] = CommandFinished(p, status)]
    BY <1>6 DEF Resolve
  <2>2. status \in ResultStatus
    BY DEF RunnerResults, ResultStatus
  <2>3. /\ CommandFinished(p, status) \in Event
        /\ Admissible(meta[p], CommandFinished(p, status))
    BY <1>0, <2>2, CommandEventType
  <2>4. SessionsAgree'
    BY <1>0, <1>6, <2>1, <2>3 DEF Resolve, Goto, SessionsAgree, SessionType, Session, Locations
  <2> QED
    BY <1>0, <1>6, <2>4, QuietKeeps DEF Resolve
<1>7. CASE Inspect(p) \/ InspectFailed(p)
  <2>1. PICK event \in {pend[p], [pend[p] EXCEPT !.status = "RECOVERY_REQUIRED"]} :
           Submit(p, event) /\ UNCHANGED <<world, call, meta, outcome>>
    BY <1>7 DEF Inspect, InspectFailed
  <2>2. pend[p] \in Event /\ Admissible(meta[p], pend[p])
    BY <1>7 DEF Inspect, InspectFailed, IInv, SessionsAgree, Session
  <2>3. event \in Event /\ Admissible(meta[p], event)
    BY <2>1, <2>2, EventWith DEF Admissible, ResultStatus
  <2> QED
    BY <1>0, <2>1, <2>3, SubmitKeeps, QuietKeeps
<1> QED
  BY <1>1, <1>2, <1>3, <1>4, <1>5, <1>6, <1>7

LEMMA EnvironmentKeeps ==
    ASSUME IInv, Environment
    PROVE  IInv'
<1>1. SessionsAgree' /\ UNCHANGED <<store, corrupt>>
  BY DEF IInv, SessionsAgree, SessionType, Session, Environment, OperatorRemovesOwner,
         ChildCloses, Edit, ApprovalAges, session, disk
<1>2. owner' \in {owner, NoOwner}
  BY DEF Environment, OperatorRemovesOwner, ChildCloses, Edit, ApprovalAges, disk
<1>3. WorldType'
  <2>1. CASE OperatorRemovesOwner
    BY <2>1 DEF OperatorRemovesOwner, IInv, WorldType
  <2>2. CASE ChildCloses
    <3>1. PICK c \in Commands, state \in {"exit_0", "exit_nonzero"} :
            /\ Alive(c)
            /\ child' = [child EXCEPT ![c].state = state, ![c].closed = Len(repo)]
      BY <2>2 DEF ChildCloses
    <3>2. /\ Len(repo) \in Nat \ {0} /\ child \in [Commands -> Child] /\ UNCHANGED <<repo, age, mistakes>>
      BY <2>2 DEF ChildCloses, IInv, WorldType
    <3>3. /\ child' \in [Commands -> Child]
          /\ child'[c].started = child[c].started /\ child'[c].closed = Len(repo)
          /\ \A d \in Commands \ {c} : child'[d] = child[d]
      BY <3>1, <3>2 DEF Child
    <3> QED
      BY <3>1, <3>2, <3>3 DEF IInv, WorldType, Alive
  <2>3. CASE Edit
    <3>1. PICK version \in Nat : repo' = Append(repo, version)
      BY <2>3 DEF Edit
    <3>2. /\ repo' \in Seq(Nat) /\ repo' # << >> /\ repo'[1] = 0
          /\ Len(repo') = Len(repo) + 1 /\ Len(repo) \in Nat
      BY <3>1 DEF IInv, WorldType
    <3> QED
      BY <2>3, <3>2 DEF Edit, IInv, WorldType, disk
  <2>4. CASE ApprovalAges
    BY <2>4, BoundAssumption DEF ApprovalAges, IInv, WorldType, disk
  <2> QED
    BY <2>1, <2>2, <2>3, <2>4 DEF Environment
<1> QED
  BY <1>1, <1>2, <1>3 DEF IInv, DiskType

-----------------------------------------------------------------------------
LEMMA InitIInv == Init => IInv
<1> SUFFICES ASSUME Init PROVE IInv
  OBVIOUS
<1>1. DiskType
  BY InitialStoreType DEF Init, DiskType
<1>2. WorldType
  BY DEF Init, WorldType, Child, NoChild
<1>3. SessionsAgree
  BY InitialStoreType DEF Init, SessionsAgree, SessionType, Session, Locations, Outcome
<1> QED
  BY <1>1, <1>2, <1>3, InitialJournal DEF Init, IInv

LEMMA NextIInv == IInv /\ [Next]_vars => IInv'
<1> SUFFICES ASSUME IInv, [Next]_vars PROVE IInv'
  OBVIOUS
<1>1. ASSUME NEW p \in Process, Step(p) PROVE IInv'
  BY <1>1, ReadsKeep, LeavingKeeps, CheckedKeeps, AppendRefusedKeeps, WritingKeeps,
     DecidingKeeps, DispatchingKeeps, CommandKeeps DEF Step
<1>2. ASSUME NEW p \in Process,
             BeginApprove(p) \/ BeginRun(p) \/ BeginRecover(p) \/ BeginFailed(p) \/ Crash(p)
      PROVE  IInv'
  BY <1>2, BeginsKeep, LeavingKeeps
<1>3. CASE UNCHANGED vars
  BY <1>3 DEF vars, IInv, DiskType, WorldType, SessionsAgree, SessionType, Session
<1> QED
  BY <1>1, <1>2, <1>3, EnvironmentKeeps DEF Next

THEOREM Invariance == Spec => []IInv
BY InitIInv, NextIInv, PTL DEF Spec

\* Every variable of the Controller keeps its type.
THEOREM TypeCorrect == Spec => []TypeOK
<1>1. IInv => TypeOK
  BY DEF IInv, DiskType, WorldType, SessionsAgree, SessionType, Session, TypeOK
<1> QED
  BY <1>1, Invariance, PTL

\* The task slot is taken exactly while an attempt is in progress or its effects
\* are unknown, and never by two, whatever happens to sessions and owners.
THEOREM ReservationIsAccounted == Spec => []ReservationAccounted
<1>1. IInv => ReservationAccounted
  BY DEF IInv, DiskType, Journal, SlotAgrees, Held, Pending, ReservationAccounted
<1> QED
  BY <1>1, Invariance, PTL

\* The control epoch moves at most once, and only with a fence.
THEOREM EpochIsMovedOnce == Spec => []EpochMovesOnce
<1>1. IInv => EpochMovesOnce
  BY DEF IInv, Journal, EpochAgrees, EpochMovesOnce
<1> QED
  BY <1>1, Invariance, PTL
-----------------------------------------------------------------------------
(* The command processes.                                                    *)

\* What the journal holds of an attempt fits together.
Chained(s, a) ==
    LET results == s.command_results[a]
    IN  /\ s.status[a] = "none" => results = << >> /\ s.active_index[a] = NoIndex
        /\ Len(results) <= CommandCount[a]
        /\ \A i \in 1..(Len(results) - 1) : results[i] = "SUCCEEDED"
        /\ s.active_index[a] # NoIndex =>
             /\ s.active_index[a] = NextIndex(s, a)
             /\ NextIndex(s, a) <= CommandCount[a]
             /\ LastSucceeded(s, a)
        /\ s.status[a] = "SUCCEEDED" =>
             /\ Len(results) = CommandCount[a]
             /\ \A i \in 1..CommandCount[a] : results[i] = "SUCCEEDED"

\* An assessment that found an approval apart from the others still holds, and holds of the
\* approvals that came later.
Apart(s, expired) ==
    /\ \A a \in Attempts :
         /\ s.semantic_assessments[a] = "NON_OVERLAPPING" => a \notin Uncertain
         /\ s.semantic_assessments[a] = "MANUAL_DECISION_REQUIRED" => s.semantic_review_required
    /\ \A a, b \in Attempts :
         /\ a # b
         /\ s.semantic_assessments[a] = "NON_OVERLAPPING"
         /\ Approved(s, a) /\ Approved(s, b)
         /\ ~Attempted(s, a) /\ ~Attempted(s, b)
         /\ a \notin expired /\ b \notin expired
         => b \notin Uncertain /\ <<a, b>> \notin Overlap

Kept(s, expired) == Apart(s, expired) /\ \A a \in Attempts : Chained(s, a)

-----------------------------------------------------------------------------
(* Children and the journal.                                                 *)

\* The command of an attempt the journal stands at.
Standing(s, c) ==
    /\ Held(s, c[1])
    /\ \/ c[2] = NextIndex(s, c[1]) /\ LastSucceeded(s, c[1])
       \/ c[2] = Len(s.command_results[c[1]]) /\ LastIs(s, c[1], "RECOVERY_REQUIRED")

Known(s, c) ==
    /\ Attempted(s, c[1])
    /\ c[2] < NextIndex(s, c[1]) \/ s.active_index[c[1]] = c[2]

\* What a result says of how a child ended.
Exits(status, c) ==
    /\ status = "SUCCEEDED" => child[c].state = "exit_0"
    /\ status = "FAILED" => child[c].state = "exit_nonzero"

\* The repository was in this version after the command before had closed and before
\* this one was started.
Gated(c, version) ==
    /\ c[2] > 1 => /\ <<c[1], c[2] - 1>> \in Commands
                   /\ child[<<c[1], c[2] - 1>>].state \in {"exit_0", "exit_nonzero"}
    /\ OnVersion(version, Since(c), child[c].started)

\* A result the journal may hold of a child.
Tells(status, c, version) ==
    /\ Exits(status, c)
    /\ status \in {"SUCCEEDED", "FAILED"} =>
         Gated(c, version) /\ OnVersion(version, child[c].closed, Len(repo))

ChildrenAgree ==
    /\ \A c \in Commands :
         /\ child[c].state # "none" /\ ~corrupt => Known(store, c)
         /\ Alive(c) => Standing(store, c)
    /\ \A a \in Attempts : \A i \in 1..Len(store.command_results[a]) :
         Tells(store.command_results[a][i], <<a, i>>, store.approvals[a].baseline)

-----------------------------------------------------------------------------
(* Invocations.                                                              *)

CommandEvents == {"COMMAND_PREPARED", "COMMAND_STARTED", "COMMAND_FINISHED", "FINISHED"}
Appending(p, types) == pc[p] \in {"append", "write"} /\ pend[p].type \in types

\* p runs an attempt; it may start a command; it has started one.
Engaged(p) ==
    \/ pc[p] \in {"loop", "evidence", "spawn", "running", "inspect", "drain"}
    \/ Appending(p, CommandEvents)
Armed(p) ==
    \/ pc[p] \in {"evidence", "spawn"}
    \/ pc[p] = "write" /\ pend[p].type = "COMMAND_PREPARED"
Spawned(p) == pc[p] \in {"running", "inspect"} \/ Appending(p, {"COMMAND_STARTED"})

Asked(p) ==
    /\ pc[p] # "idle" =>
         OnVersion(call[p].request.baseline, 1, Len(repo)) /\ call[p].expired \subseteq Expired
    /\ pc[p] \in {"append", "write", "inspect"} =>
         /\ pend[p].attempt = call[p].attempt
         /\ pend[p].request = call[p].request
         /\ pend[p].expired \subseteq Expired
    /\ Engaged(p) \/ Appending(p, {"PREPARED"}) =>
         meta[p].approvals[call[p].attempt] = call[p].request
    /\ Apart(meta[p], Expired)
    /\ pc[p] = "dispatch" => meta[p].semantic_assessments[call[p].attempt] = "NON_OVERLAPPING"
    /\ Appending(p, {"PREPARED"}) => NonOverlapping(meta[p], call[p].attempt, Expired)

ArmedWell(p) ==
    Armed(p) =>
      /\ Current(p) \in Commands
      /\ LastSucceeded(meta[p], call[p].attempt)
      /\ Held(store, call[p].attempt)
      /\ store.approvals[call[p].attempt] = call[p].request
      /\ store.command_results[call[p].attempt] = meta[p].command_results[call[p].attempt]
      /\ child[Current(p)].state = "none"
      /\ pc[p] # "write" /\ ~corrupt => store.active_index[call[p].attempt] = Current(p)[2]

Reports(p) ==
    /\ Spawned(p) =>
         /\ Current(p) \in Commands
         /\ child[Current(p)].state # "none"
         /\ Gated(Current(p), call[p].request.baseline)
    /\ pc[p] = "inspect" =>
         /\ pend[p].type = "COMMAND_FINISHED"
         /\ pend[p].index = Current(p)[2]
         /\ Exits(pend[p].status, Current(p))
    /\ Appending(p, {"COMMAND_FINISHED"}) =>
         /\ <<call[p].attempt, pend[p].index>> \in Commands
         /\ Tells(pend[p].status, <<call[p].attempt, pend[p].index>>, call[p].request.baseline)

Own(p) == Asked(p) /\ ArmedWell(p) /\ Reports(p)

\* One invocation runs an attempt, as long as the journal is read at all; one is armed for it.
Alone ==
    /\ \A p \in Process : Engaged(p) /\ ~corrupt => Attempted(store, call[p].attempt)
    /\ \A p, q \in Process :
         /\ p # q /\ Engaged(p) /\ Engaged(q)
         /\ ~corrupt \/ (Armed(p) /\ Armed(q))
         => call[p].attempt # call[q].attempt

CInv ==
    /\ Kept(store, Expired)
    /\ ChildrenAgree
    /\ \A p \in Process : Own(p)
    /\ Alone

-----------------------------------------------------------------------------
(* Events and the journal.                                                   *)

\* An attempt that an event is not about.
Untouched(s, t, b) ==
    /\ t.command_results[b] = s.command_results[b]
    /\ t.active_index[b] = s.active_index[b]
    /\ Held(s, b) => Held(t, b)
    /\ Attempted(t, b) <=> Attempted(s, b)
    /\ t.status[b] = "SUCCEEDED" <=> s.status[b] = "SUCCEEDED"
    /\ Attempted(s, b) => t.approvals[b] = s.approvals[b]

LEMMA EventTouches ==
    ASSUME NEW s \in Store, NEW e \in Event, Accepts(s, e), NEW b \in Attempts,
           b # e.attempt \/ e.type \notin CommandEvents \cup {"PREPARED"}
    PROVE  Untouched(s, Reduce(s, e), b)
<1> DEFINE t == Reduce(s, e)
<1>0. e.attempt \in Attempts /\ e.type \in {"SEMANTIC_ASSESSED", "APPROVED", "RECOVERED", "PREPARED"} \cup CommandEvents
  BY DEF Event, CommandEvents
<1>1. CASE e.type \in {"SEMANTIC_ASSESSED", "APPROVED"}
  <2>1. t.command_results = s.command_results /\ t.active_index = s.active_index /\ t.status = s.status
    BY <1>1 DEF Reduce, SemanticAssessed, Store
  <2>2. Attempted(s, b) => t.approvals[b] = s.approvals[b]
    <3>1. CASE e.type = "SEMANTIC_ASSESSED"
      BY <3>1 DEF Reduce, SemanticAssessed, Store
    <3>2. CASE e.type = "APPROVED"
      <4>1. ~Attempted(s, e.attempt)
        BY <3>2 DEF Accepts, AcceptsSemanticAssessed, AcceptsApproved, AcceptsPrepared, AcceptsRecovered,
           AcceptsCommandPrepared, AcceptsCommandStarted, AcceptsCommandFinished, AcceptsFinished
      <4> QED
        BY <3>2, <4>1 DEF Reduce, Store
    <3> QED
      BY <1>1, <3>1, <3>2
  <2> QED
    BY <2>1, <2>2 DEF Untouched, Held, Incomplete, Attempted
<1>2. CASE e.type = "RECOVERED"
  <2>1. /\ t.command_results = s.command_results /\ t.active_index = s.active_index
        /\ t.status = [a \in Attempts |-> IF Incomplete(s, a) THEN "RECOVERY_REQUIRED" ELSE s.status[a]]
        /\ t.approvals = s.approvals
    BY <1>2 DEF Reduce, Recovered, Store
  <2> QED
    BY <2>1 DEF Untouched, Held, Incomplete, Attempted
<1>3. CASE e.type \in CommandEvents \cup {"PREPARED"}
  <2>1. b # e.attempt
    BY <1>3
  <2>2. /\ t.command_results[b] = s.command_results[b] /\ t.active_index[b] = s.active_index[b]
        /\ t.status[b] = s.status[b] /\ t.approvals[b] = s.approvals[b]
    BY <1>0, <1>3, <2>1 DEF Reduce, Finished, Store, CommandEvents
  <2> QED
    BY <2>2 DEF Untouched, Held, Incomplete, Attempted
<1> QED
  BY <1>0, <1>1, <1>2, <1>3

\* What an accepted event of a run does to its own attempt.
LEMMA RunEffects ==
    ASSUME NEW s \in Store, NEW e \in Event, Accepts(s, e), e.type \in CommandEvents \cup {"PREPARED"}
    PROVE  LET t == Reduce(s, e)
               a == e.attempt
           IN  /\ e.type = "PREPARED" =>
                    /\ ~Attempted(s, a) /\ t.status[a] = "PREPARED"
                    /\ t.command_results[a] = s.command_results[a] /\ t.active_index[a] = s.active_index[a]
               /\ e.type \in CommandEvents => Incomplete(s, a)
               /\ e.type = "COMMAND_PREPARED" =>
                    /\ e.index = NextIndex(s, a) /\ e.index <= CommandCount[a]
                    /\ s.active_index[a] = NoIndex /\ LastSucceeded(s, a)
                    /\ t.status[a] = "PREPARED" /\ t.active_index[a] = e.index
                    /\ t.command_results[a] = s.command_results[a]
               /\ e.type = "COMMAND_STARTED" =>
                    /\ t.status[a] = "RUNNING" /\ t.active_index[a] = s.active_index[a]
                    /\ t.command_results[a] = s.command_results[a]
               /\ e.type = "COMMAND_FINISHED" =>
                    /\ e.index = NextIndex(s, a) /\ s.active_index[a] = e.index
                    /\ t.status[a] = s.status[a] /\ t.active_index[a] = NoIndex
                    /\ t.command_results[a] = Append(s.command_results[a], e.status)
               /\ e.type = "FINISHED" =>
                    /\ t.status[a] = e.status /\ t.active_index[a] = s.active_index[a]
                    /\ t.command_results[a] = s.command_results[a]
                    /\ e.status = "SUCCEEDED" =>
                         /\ s.active_index[a] = NoIndex
                         /\ Len(s.command_results[a]) = CommandCount[a]
                         /\ \A i \in 1..CommandCount[a] : s.command_results[a][i] = "SUCCEEDED"
                    /\ e.status = "FAILED" => LastIs(s, a, "FAILED")
<1> DEFINE t == Reduce(s, e)
           a == e.attempt
<1>0. a \in Attempts
  BY DEF Event
<1>1. CASE e.type = "PREPARED"
  BY <1>0, <1>1 DEF Accepts, AcceptsSemanticAssessed, AcceptsApproved, AcceptsPrepared, AcceptsRecovered,
     AcceptsCommandPrepared, AcceptsCommandStarted, AcceptsCommandFinished, AcceptsFinished,
     Reduce, Store, CommandEvents
<1>2. CASE e.type = "COMMAND_PREPARED"
  <2>1. AcceptsCommandPrepared(s, e)
    BY <1>2 DEF Accepts, AcceptsSemanticAssessed, AcceptsApproved, AcceptsPrepared, AcceptsRecovered,
       AcceptsCommandStarted, AcceptsCommandFinished, AcceptsFinished
  <2> QED
    BY <1>0, <1>2, <2>1 DEF AcceptsCommandPrepared, InProgress, Reduce, Store
<1>3. CASE e.type = "COMMAND_STARTED"
  <2>1. AcceptsCommandStarted(s, e)
    BY <1>3 DEF Accepts, AcceptsSemanticAssessed, AcceptsApproved, AcceptsPrepared, AcceptsRecovered,
       AcceptsCommandPrepared, AcceptsCommandFinished, AcceptsFinished
  <2> QED
    BY <1>0, <1>3, <2>1 DEF AcceptsCommandStarted, InProgress, Reduce, Store
<1>4. CASE e.type = "COMMAND_FINISHED"
  <2>1. AcceptsCommandFinished(s, e)
    BY <1>4 DEF Accepts, AcceptsSemanticAssessed, AcceptsApproved, AcceptsPrepared, AcceptsRecovered,
       AcceptsCommandPrepared, AcceptsCommandStarted, AcceptsFinished
  <2> QED
    BY <1>0, <1>4, <2>1 DEF AcceptsCommandFinished, InProgress, Reduce, Store
<1>5. CASE e.type = "FINISHED"
  <2>1. AcceptsFinished(s, e)
    BY <1>5 DEF Accepts, AcceptsSemanticAssessed, AcceptsApproved, AcceptsPrepared, AcceptsRecovered,
       AcceptsCommandPrepared, AcceptsCommandStarted, AcceptsCommandFinished
  <2> QED
    BY <1>0, <1>5, <2>1 DEF AcceptsFinished, InProgress, Reduce, Finished, Store
<1> QED
  BY <1>1, <1>2, <1>3, <1>4, <1>5 DEF CommandEvents

LEMMA ChainedKept ==
    ASSUME NEW s \in Store, NEW e \in Event, Accepts(s, e), NEW b \in Attempts, Chained(s, b)
    PROVE  Chained(Reduce(s, e), b)
<1> DEFINE t == Reduce(s, e)
           results == s.command_results[b]
<1>1. /\ results \in Seq(ResultStatus) /\ s.active_index[b] \in Nat /\ CommandCount[b] \in Nat
      /\ Len(results) \in Nat /\ e.attempt \in Attempts /\ e.status \in ResultStatus
  <2>1. results \in Seq(ResultStatus) /\ s.active_index[b] \in Nat
    BY DEF Store
  <2>2. CommandCount[b] \in 1..16
    BY CommandCountAssumption DEF MaxCommands
  <2>3. e.attempt \in Attempts /\ e.status \in ResultStatus
    BY DEF Event
  <2> QED
    BY <2>1, <2>2, <2>3
<1>2. CASE b # e.attempt \/ e.type \notin CommandEvents \cup {"PREPARED"}
  <2>1. Untouched(s, t, b)
    BY <1>2, EventTouches
  <2> QED
    BY <2>1 DEF Untouched, Chained, Attempted, NextIndex, LastSucceeded
<1>3. CASE b = e.attempt /\ e.type = "PREPARED"
  <2>1. /\ t.status[b] = "PREPARED" /\ t.command_results[b] = results /\ t.active_index[b] = s.active_index[b]
    BY <1>3, RunEffects
  <2> QED
    BY <2>1 DEF Chained, NextIndex, LastSucceeded
<1>4. CASE b = e.attempt /\ e.type = "COMMAND_PREPARED"
  <2>1. /\ e.index = NextIndex(s, b) /\ e.index <= CommandCount[b] /\ LastSucceeded(s, b)
        /\ t.status[b] = "PREPARED" /\ t.active_index[b] = e.index /\ t.command_results[b] = results
    BY <1>4, RunEffects DEF CommandEvents
  <2> QED
    BY <1>1, <2>1 DEF Chained, NextIndex, LastSucceeded
<1>5. CASE b = e.attempt /\ e.type = "COMMAND_STARTED"
  <2>1. /\ t.status[b] = "RUNNING" /\ t.active_index[b] = s.active_index[b] /\ t.command_results[b] = results
    BY <1>5, RunEffects DEF CommandEvents
  <2> QED
    BY <2>1 DEF Chained, NextIndex, LastSucceeded
<1>6. CASE b = e.attempt /\ e.type = "COMMAND_FINISHED"
  <2>1. /\ e.index = NextIndex(s, b) /\ s.active_index[b] = e.index /\ Incomplete(s, b)
        /\ t.status[b] = s.status[b] /\ t.active_index[b] = NoIndex
        /\ t.command_results[b] = Append(results, e.status)
    BY <1>6, RunEffects DEF CommandEvents
  <2>2. e.index # NoIndex
    BY <1>1, <2>1 DEF NextIndex, NoIndex
  <2>3. NextIndex(s, b) <= CommandCount[b] /\ LastSucceeded(s, b)
        /\ \A i \in 1..(Len(results) - 1) : results[i] = "SUCCEEDED"
    BY <2>1, <2>2 DEF Chained
  <2>4. \A i \in 1..Len(results) : results[i] = "SUCCEEDED"
    BY <1>1, <2>3 DEF LastSucceeded
  <2>5. PICK appended : appended = Append(results, e.status)
    OBVIOUS
  <2>6. /\ Len(appended) = Len(results) + 1 /\ \A i \in 1..Len(results) : appended[i] = results[i]
    BY <1>1, <2>5
  <2>7. t.command_results[b] = appended /\ t.status[b] \in {"PREPARED", "RUNNING"}
    BY <2>1, <2>5 DEF Incomplete
  <2>8. \A i \in 1..(Len(appended) - 1) : appended[i] = "SUCCEEDED"
    BY <1>1, <2>4, <2>6
  <2> QED
    BY <1>1, <2>1, <2>3, <2>6, <2>7, <2>8 DEF Chained, NextIndex
<1>7. CASE b = e.attempt /\ e.type = "FINISHED"
  <2>1. /\ t.status[b] = e.status /\ t.active_index[b] = s.active_index[b] /\ t.command_results[b] = results
        /\ e.status = "SUCCEEDED" =>
             /\ Len(results) = CommandCount[b]
             /\ \A i \in 1..CommandCount[b] : results[i] = "SUCCEEDED"
    BY <1>7, RunEffects DEF CommandEvents
  <2>2. t.status[b] # "none"
    BY <1>1, <2>1 DEF ResultStatus
  <2> QED
    BY <2>1, <2>2 DEF Chained, NextIndex, LastSucceeded
<1> QED
  BY <1>2, <1>3, <1>4, <1>5, <1>6, <1>7 DEF CommandEvents

\* The other side of NonOverlapping: a later approval was compared with those before it.
LEMMA ApartKept ==
    ASSUME NEW s \in Store, NEW e \in Event, Accepts(s, e), NEW expired, Apart(s, expired),
           e.expired \subseteq expired
    PROVE  Apart(Reduce(s, e), expired)
<1> DEFINE t == Reduce(s, e)
           a == e.attempt
<1>0. /\ a \in Attempts /\ s.semantic_assessments \in [Attempts -> AssessmentStatus]
      /\ s.approvals \in [Attempts -> Request \cup {NoRequest}]
      /\ \A x, y \in Attempts : <<x, y>> \in Overlap => <<y, x>> \in Overlap
  BY OverlapAssumption DEF Store, Event
<1>1. CASE e.type = "SEMANTIC_ASSESSED"
  <2>1. t.approvals = s.approvals /\ t.status = s.status
    BY <1>1 DEF Reduce, SemanticAssessed, Store
  <2>2. CASE NonOverlapping(s, a, e.expired)
    <3>1. /\ t.semantic_assessments = [s.semantic_assessments EXCEPT ![a] = "NON_OVERLAPPING"]
          /\ t.semantic_review_required = s.semantic_review_required
      BY <1>1, <2>2 DEF Reduce, SemanticAssessed, Store
    <3>2. /\ a \notin Uncertain
          /\ \A b \in Attempts \ {a} : Approved(s, b) /\ b \notin expired /\ ~Attempted(s, b)
               => b \notin Uncertain /\ <<a, b>> \notin Overlap
      BY <2>2 DEF NonOverlapping, Peers
    <3> QED
      BY <1>0, <2>1, <3>1, <3>2 DEF Apart, Approved, Attempted
  <2>3. CASE ~NonOverlapping(s, a, e.expired)
    <3>1. /\ t.semantic_assessments = [s.semantic_assessments EXCEPT ![a] = "MANUAL_DECISION_REQUIRED"]
          /\ t.semantic_review_required = TRUE
      BY <1>1, <2>3 DEF Reduce, SemanticAssessed, Store
    <3> QED
      BY <1>0, <2>1, <3>1 DEF Apart, Approved, Attempted
  <2> QED
    BY <2>2, <2>3
<1>2. CASE e.type = "APPROVED"
  <2>1. NonOverlapping(s, a, e.expired)
    BY <1>2 DEF Accepts, AcceptsSemanticAssessed, AcceptsApproved, AcceptsPrepared, AcceptsRecovered,
       AcceptsCommandPrepared, AcceptsCommandStarted, AcceptsCommandFinished, AcceptsFinished
  <2>2. /\ t.semantic_assessments = [s.semantic_assessments EXCEPT ![a] = "NON_OVERLAPPING"]
        /\ t.approvals = [s.approvals EXCEPT ![a] = e.request]
        /\ t.status = s.status /\ t.semantic_review_required = s.semantic_review_required
    BY <1>2 DEF Reduce, Store
  <2>3. /\ a \notin Uncertain
        /\ \A b \in Attempts \ {a} : Approved(s, b) /\ b \notin expired /\ ~Attempted(s, b)
             => b \notin Uncertain /\ <<a, b>> \notin Overlap
    BY <2>1 DEF NonOverlapping, Peers
  <2>4. \A b \in Attempts \ {a} : t.approvals[b] = s.approvals[b] /\ t.semantic_assessments[b] = s.semantic_assessments[b]
    BY <1>0, <2>2
  <2> QED
    BY <1>0, <2>2, <2>3, <2>4, ZenonT(60) DEF Apart, Approved, Attempted
<1>3. CASE e.type \notin {"SEMANTIC_ASSESSED", "APPROVED"}
  <2>1. /\ t.approvals = s.approvals /\ t.semantic_assessments = s.semantic_assessments
        /\ t.semantic_review_required = s.semantic_review_required
    BY <1>3 DEF Reduce, Recovered, Finished, Store, Event
  <2>2. \A b \in Attempts : Attempted(s, b) => Attempted(t, b)
    <3> SUFFICES ASSUME NEW b \in Attempts, Attempted(s, b) PROVE Attempted(t, b)
      OBVIOUS
    <3>1. CASE b # a \/ e.type \notin CommandEvents \cup {"PREPARED"}
      BY <3>1, EventTouches DEF Untouched
    <3>2. CASE b = a /\ e.type \in CommandEvents \cup {"PREPARED"}
      <4>1. t.status[a] \in {"PREPARED", "RUNNING", e.status, s.status[a]} /\ e.status \in ResultStatus
        BY <3>2, RunEffects DEF CommandEvents, Event
      <4> QED
        BY <3>2, <4>1 DEF Attempted, ResultStatus
    <3> QED
      BY <3>1, <3>2
  <2> QED
    BY <2>1, <2>2 DEF Apart, Approved
<1> QED
  BY <1>1, <1>2, <1>3

\* As time passes there is less to compare.
LEMMA ApartLater ==
    ASSUME NEW s, NEW expired, NEW later, expired \subseteq later, Apart(s, expired)
    PROVE  Apart(s, later)
BY DEF Apart

LEMMA InitialKept == \A expired : Kept(InitialStore, expired)
BY CommandCountAssumption DEF Kept, Apart, Chained, InitialStore, NoIndex, MaxCommands

-----------------------------------------------------------------------------
(* A line on disk.                                                           *)

\* What LineWritten does to the journal: an accepted event, or nothing any more.
LEMMA LineEffect ==
    ASSUME IInv, NEW p \in Process, pc[p] = "write", LineWritten(p)
    PROVE  /\ pend[p] \in Event /\ store \in Store
           /\ \/ corrupt' /\ store' = store
              \/ /\ ~corrupt /\ ~corrupt' /\ meta[p] = store
                 /\ Accepts(store, pend[p]) /\ store' = Reduce(store, pend[p])
BY DEF IInv, DiskType, SessionsAgree, Session, LineWritten

LEMMA CommandType ==
    ASSUME NEW c \in Commands
    PROVE  /\ c = <<c[1], c[2]>> /\ c[1] \in Attempts /\ c[2] \in Nat /\ c[2] >= 1
           /\ c[2] <= CommandCount[c[1]] /\ CommandCount[c[1]] \in Nat
<1>1. c \in Attempts \X (1..16) /\ c[2] <= CommandCount[c[1]]
  BY DEF Commands, MaxCommands
<1>2. c = <<c[1], c[2]>> /\ c[1] \in Attempts /\ c[2] \in 1..16
  BY <1>1
<1>3. CommandCount[c[1]] \in 1..16
  BY <1>2, CommandCountAssumption DEF MaxCommands
<1> QED
  BY <1>1, <1>2, <1>3

LEMMA KnownKept ==
    ASSUME NEW s \in Store, NEW e \in Event, Accepts(s, e), NEW c \in Commands, Known(s, c)
    PROVE  Known(Reduce(s, e), c)
<1> DEFINE t == Reduce(s, e)
           b == c[1]
<1>1. /\ b \in Attempts /\ c[2] \in Nat /\ c[2] >= 1 /\ s.command_results[b] \in Seq(ResultStatus)
      /\ e.status \in ResultStatus
  BY CommandType DEF Store, Event
<1>2. CASE b # e.attempt \/ e.type \notin CommandEvents \cup {"PREPARED"}
  BY <1>1, <1>2, EventTouches DEF Untouched, Known, NextIndex
<1>3. CASE b = e.attempt /\ e.type = "PREPARED"
  BY <1>3, RunEffects DEF Known
<1>4. CASE b = e.attempt /\ e.type \in {"COMMAND_PREPARED", "COMMAND_STARTED"}
  <2>1. /\ t.command_results[b] = s.command_results[b] /\ t.status[b] \in {"PREPARED", "RUNNING"}
        /\ t.active_index[b] = s.active_index[b] \/ s.active_index[b] = NoIndex
    BY <1>4, RunEffects DEF CommandEvents
  <2> QED
    BY <1>1, <2>1 DEF Known, Attempted, NextIndex, NoIndex
<1>5. CASE b = e.attempt /\ e.type = "COMMAND_FINISHED"
  <2>1. /\ s.active_index[b] = NextIndex(s, b) /\ t.status[b] = s.status[b]
        /\ t.command_results[b] = Append(s.command_results[b], e.status)
    BY <1>5, RunEffects DEF CommandEvents
  <2>2. NextIndex(t, b) = NextIndex(s, b) + 1 /\ NextIndex(s, b) \in Nat
    BY <1>1, <2>1 DEF NextIndex
  <2> QED
    BY <1>1, <2>1, <2>2 DEF Known, Attempted
<1>6. CASE b = e.attempt /\ e.type = "FINISHED"
  <2>1. /\ t.command_results[b] = s.command_results[b] /\ t.status[b] = e.status
        /\ t.active_index[b] = s.active_index[b]
    BY <1>6, RunEffects DEF CommandEvents
  <2> QED
    BY <1>1, <2>1 DEF Known, Attempted, NextIndex, ResultStatus
<1> QED
  BY <1>2, <1>3, <1>4, <1>5, <1>6 DEF CommandEvents

\* The journal stays where a command stands, unless the event is a result of that command that
\* is not of a child that runs.
LEMMA StandingKept ==
    ASSUME NEW s \in Store, NEW e \in Event, Accepts(s, e), NEW c \in Commands, Standing(s, c),
           Chained(s, c[1]),
           /\ e.type = "COMMAND_FINISHED" /\ e.attempt = c[1] /\ e.index = c[2]
           => e.status = "RECOVERY_REQUIRED"
    PROVE  Standing(Reduce(s, e), c)
<1> DEFINE t == Reduce(s, e)
           b == c[1]
           results == s.command_results[b]
<1>1. /\ b \in Attempts /\ c[2] \in Nat /\ c[2] >= 1 /\ results \in Seq(ResultStatus)
      /\ e.status \in ResultStatus /\ Len(results) \in Nat
      /\ c[2] <= CommandCount[b] /\ CommandCount[b] \in Nat
  BY CommandType DEF Store, Event
<1>2. CASE b # e.attempt \/ e.type \notin CommandEvents \cup {"PREPARED"}
  BY <1>1, <1>2, EventTouches, SMTT(60) DEF Untouched, Standing, NextIndex, LastSucceeded, LastIs
<1>3. CASE b = e.attempt /\ e.type \in {"PREPARED", "COMMAND_PREPARED", "COMMAND_STARTED"}
  <2>1. /\ t.command_results[b] = results /\ t.status[b] \in {"PREPARED", "RUNNING"}
    BY <1>3, RunEffects DEF CommandEvents
  <2> QED
    BY <2>1 DEF Standing, Held, Incomplete, NextIndex, LastSucceeded, LastIs
<1>4. CASE b = e.attempt /\ e.type = "COMMAND_FINISHED"
  <2>1. /\ e.index = NextIndex(s, b) /\ s.active_index[b] = e.index /\ t.status[b] = s.status[b]
        /\ t.command_results[b] = Append(results, e.status) /\ Incomplete(s, b)
    BY <1>4, RunEffects, SMTT(60) DEF CommandEvents
  <2>2. s.active_index[b] # NoIndex
    BY <1>1, <2>1 DEF NextIndex, NoIndex
  <2>3. LastSucceeded(s, b)
    BY <2>2 DEF Chained
  <2>4. c[2] = NextIndex(s, b)
    BY <2>3 DEF Standing, LastSucceeded, LastIs
  <2>5. e.status = "RECOVERY_REQUIRED"
    BY <1>4, <2>1, <2>4
  <2>6. PICK appended : appended = Append(results, e.status)
    OBVIOUS
  <2>7. Len(appended) = c[2] /\ appended # << >> /\ appended[Len(appended)] = e.status
    BY <1>1, <2>4, <2>6, SMTT(60) DEF NextIndex
  <2>8. t.command_results[b] = appended /\ Held(t, b)
    BY <2>1, <2>6 DEF Held, Incomplete
  <2> QED
    BY <2>5, <2>7, <2>8 DEF Standing, LastIs
<1>5. CASE b = e.attempt /\ e.type = "FINISHED"
  <2>1. /\ t.command_results[b] = results /\ t.status[b] = e.status
        /\ e.status = "SUCCEEDED" => /\ Len(results) = CommandCount[b]
                                     /\ \A i \in 1..CommandCount[b] : results[i] = "SUCCEEDED"
        /\ e.status = "FAILED" => LastIs(s, b, "FAILED")
    BY <1>5, RunEffects DEF CommandEvents
  <2>2. e.status # "SUCCEEDED"
    <3> SUFFICES ASSUME e.status = "SUCCEEDED" PROVE FALSE
      OBVIOUS
    <3>1. results[CommandCount[b]] = "SUCCEEDED" /\ Len(results) = CommandCount[b]
      BY <1>1, <2>1
    <3> QED
      BY <1>1, <3>1 DEF Standing, NextIndex, LastIs
  <2>3. e.status # "FAILED"
    BY <2>1 DEF Standing, LastSucceeded, LastIs
  <2>4. t.status[b] = "RECOVERY_REQUIRED"
    BY <1>1, <2>1, <2>2, <2>3 DEF ResultStatus
  <2> QED
    BY <2>1, <2>4 DEF Standing, Held, NextIndex, LastSucceeded, LastIs
<1> QED
  BY <1>2, <1>3, <1>4, <1>5 DEF CommandEvents

\* Results are added by COMMAND_FINISHED alone, and no event changes an approval that has results.
LEMMA ResultsKept ==
    ASSUME NEW s \in Store, NEW e \in Event, Accepts(s, e), NEW b \in Attempts, Chained(s, b),
           NEW i \in 1..Len(Reduce(s, e).command_results[b])
    PROVE  \/ /\ i \in 1..Len(s.command_results[b])
              /\ Reduce(s, e).command_results[b][i] = s.command_results[b][i]
              /\ Reduce(s, e).approvals[b] = s.approvals[b]
           \/ /\ e.type = "COMMAND_FINISHED" /\ e.attempt = b /\ i = e.index
              /\ Reduce(s, e).command_results[b][i] = e.status
              /\ Reduce(s, e).approvals[b] = s.approvals[b]
<1> DEFINE t == Reduce(s, e)
           results == s.command_results[b]
<1>1. /\ results \in Seq(ResultStatus) /\ Len(results) \in Nat /\ e.status \in ResultStatus /\ e.attempt \in Attempts
  BY DEF Store, Event
<1>2. CASE e.type = "COMMAND_FINISHED" /\ e.attempt = b
  <2>1. e.index = Len(results) + 1 /\ t.command_results[b] = Append(results, e.status)
    BY <1>2, RunEffects DEF CommandEvents, NextIndex
  <2>2. t.approvals[b] = s.approvals[b]
    BY <1>2 DEF Reduce, Store
  <2>3. PICK appended : appended = Append(results, e.status)
    OBVIOUS
  <2>4. /\ Len(appended) = Len(results) + 1 /\ appended[Len(results) + 1] = e.status
        /\ \A j \in 1..Len(results) : appended[j] = results[j]
    BY <1>1, <2>3
  <2>5. i \in 1..Len(appended) /\ t.command_results[b] = appended
    BY <2>1, <2>3
  <2> QED
    BY <1>1, <1>2, <2>1, <2>2, <2>4, <2>5
<1>3. CASE ~(e.type = "COMMAND_FINISHED" /\ e.attempt = b)
  <2>1. t.command_results[b] = results
    <3>1. CASE b # e.attempt \/ e.type \notin CommandEvents \cup {"PREPARED"}
      BY <3>1, EventTouches DEF Untouched
    <3>2. CASE b = e.attempt /\ e.type \in CommandEvents \cup {"PREPARED"}
      BY <1>3, <3>2, RunEffects DEF CommandEvents
    <3> QED
      BY <3>1, <3>2
  <2>2. t.approvals[b] = s.approvals[b]
    <3>1. CASE e.type = "APPROVED"
      <4>1. ~Attempted(s, e.attempt)
        BY <3>1 DEF Accepts, AcceptsSemanticAssessed, AcceptsApproved, AcceptsPrepared, AcceptsRecovered,
           AcceptsCommandPrepared, AcceptsCommandStarted, AcceptsCommandFinished, AcceptsFinished
      <4>2. b # e.attempt
        <5>1. results # << >>
          BY <1>1, <2>1
        <5> QED
          BY <4>1, <5>1 DEF Chained, Attempted
      <4> QED
        BY <3>1, <4>2 DEF Reduce, Store
    <3>2. CASE e.type # "APPROVED"
      BY <3>2 DEF Reduce, SemanticAssessed, Recovered, Finished, Store, Event
    <3> QED
      BY <3>1, <3>2
  <2> QED
    BY <2>1, <2>2
<1> QED
  BY <1>2, <1>3

-----------------------------------------------------------------------------
(* What a step leaves to the invocations that do not take it.                *)

Same(q) == pc'[q] = pc[q] /\ call'[q] = call[q] /\ meta'[q] = meta[q] /\ pend'[q] = pend[q]

\* The world only moves on: what the repository was it has been, and children that were
\* started stay what they were when they close.
Later ==
    /\ Len(repo) <= Len(repo') /\ \A k \in 1..Len(repo) : repo'[k] = repo[k]
    /\ Expired \subseteq Expired'
    /\ corrupt => corrupt'
    /\ \A c \in Commands : child[c].state # "none" =>
         /\ child'[c].state # "none"
         /\ child'[c].started = child[c].started
         /\ ~Alive(c) => child'[c] = child[c]

LEMMA CallFacts ==
    ASSUME IInv, NEW p \in Process, pc[p] # "idle"
    PROVE  /\ call[p].attempt \in Attempts /\ call[p].request \in Request
           /\ call[p].expired \in SUBSET Attempts
           /\ call[p].request.baseline \in Nat /\ meta[p] \in Store
           /\ meta[p].command_results[call[p].attempt] \in Seq(ResultStatus)
           /\ NextIndex(meta[p], call[p].attempt) \in Nat \ {0}
           /\ Current(p) = <<call[p].attempt, NextIndex(meta[p], call[p].attempt)>>
<1>1. call[p] \in Call /\ meta[p] \in Store
  BY DEF IInv, SessionsAgree, SessionType, Session
<1>2. /\ call[p].attempt \in Attempts /\ call[p].request \in Request /\ call[p].expired \in SUBSET Attempts
      /\ call[p].request.baseline \in Nat
  BY <1>1 DEF Call, Request
<1>3. meta[p].command_results[call[p].attempt] \in Seq(ResultStatus)
  BY <1>1, <1>2 DEF Store
<1> QED
  BY <1>1, <1>2, <1>3 DEF NextIndex, Current

\* What the repository was it has been.
LEMMA OnVersionLater ==
    ASSUME IInv, IInv', Later, NEW version, NEW first \in Nat \ {0}, NEW last \in 0..Len(repo),
           OnVersion(version, first, last), NEW later \in Nat, last <= later
    PROVE  OnVersion(version, first, later)'
<1>1. Len(repo) \in Nat
  BY DEF IInv, WorldType
<1>2. PICK k \in first..last : repo[k] = version
  BY DEF OnVersion
<1>3. k \in 1..Len(repo) /\ k \in first..later
  BY <1>1, <1>2
<1>4. repo'[k] = version
  BY <1>2, <1>3 DEF Later
<1> QED
  BY <1>3, <1>4 DEF OnVersion

LEMMA Repository ==
    ASSUME IInv
    PROVE  /\ Len(repo) \in Nat \ {0} /\ Version \in Nat
           /\ \A k \in 1..Len(repo) : repo[k] \in Nat
BY DEF IInv, WorldType, Version

LEMMA GatedLater ==
    ASSUME IInv, IInv', Later, NEW c \in Commands, child[c].state # "none", NEW version, Gated(c, version)
    PROVE  Gated(c, version)'
<1> DEFINE before == <<c[1], c[2] - 1>>
<1>1. /\ Len(repo) \in Nat \ {0} /\ child[c].started \in 1..Len(repo)
      /\ child'[c].started = child[c].started
      /\ c[2] \in Nat /\ c[2] >= 1
  BY Repository, CommandType DEF IInv, WorldType, Later
<1>2. c[2] > 1 => /\ before \in Commands /\ child[before].state \in {"exit_0", "exit_nonzero"}
                  /\ child'[before] = child[before] /\ child[before].closed \in 1..Len(repo)
  BY DEF Gated, IInv, WorldType, Later, Alive
<1>3. Since(c)' = Since(c) /\ Since(c) \in Nat \ {0}
  BY <1>1, <1>2 DEF Since
<1>4. OnVersion(version, Since(c), child[c].started)'
  <2>1. PICK first \in Nat \ {0}, last \in 0..Len(repo) : first = Since(c) /\ last = child[c].started
    BY <1>1, <1>3
  <2>2. OnVersion(version, first, last)'
    BY <2>1, OnVersionLater DEF Gated
  <2> QED
    BY <1>1, <1>3, <2>1, <2>2 DEF OnVersion
<1> QED
  BY <1>2, <1>4 DEF Gated

\* What is told of a child that closed stays true.
LEMMA TellsLater ==
    ASSUME IInv, IInv', Later, NEW c \in Commands, NEW status, NEW version, Tells(status, c, version)
    PROVE  Tells(status, c, version)'
<1>1. CASE status \in {"SUCCEEDED", "FAILED"}
  <2>1. /\ child[c].state \in {"exit_0", "exit_nonzero"} /\ child'[c] = child[c]
        /\ child[c].closed \in 1..Len(repo)
    BY <1>1 DEF Tells, Exits, Later, Alive, IInv, WorldType
  <2>2. Gated(c, version)'
    BY <1>1, <2>1, GatedLater DEF Tells
  <2>3. OnVersion(version, child[c].closed, Len(repo))'
    <3>1. PICK first \in Nat \ {0} : first = child[c].closed
      BY <2>1, Repository
    <3>2. /\ Len(repo) \in 0..Len(repo) /\ Len(repo') \in Nat /\ Len(repo) <= Len(repo')
      BY Repository DEF IInv, WorldType, Later
    <3>3. OnVersion(version, first, Len(repo))
      BY <1>1, <3>1 DEF Tells
    <3>4. PICK later \in Nat : later = Len(repo')
      BY <3>2
    <3>5. OnVersion(version, first, later)'
      BY <3>2, <3>3, <3>4, OnVersionLater
    <3> QED
      BY <2>1, <3>1, <3>4, <3>5 DEF OnVersion
  <2> QED
    BY <2>1, <2>2, <2>3 DEF Tells, Exits
<1>2. CASE status \notin {"SUCCEEDED", "FAILED"}
  BY <1>2 DEF Tells, Exits
<1> QED
  BY <1>1, <1>2

LEMMA FrameKeeps ==
    ASSUME IInv, IInv', NEW q \in Process, Own(q), Same(q), Later,
           Armed(q) => /\ Held(store', call[q].attempt)
                       /\ store'.approvals[call[q].attempt] = store.approvals[call[q].attempt]
                       /\ store'.command_results[call[q].attempt] = store.command_results[call[q].attempt]
                       /\ ~corrupt' => store'.active_index[call[q].attempt] = store.active_index[call[q].attempt]
                       /\ child'[Current(q)].state = "none"
    PROVE  Own(q)'
<1>1. Expired \subseteq Expired'
  BY DEF Later
<1>2. /\ Current(q)' = Current(q) /\ Armed(q)' = Armed(q) /\ Engaged(q)' = Engaged(q) /\ Spawned(q)' = Spawned(q)
  BY DEF Same, Current, Armed, Engaged, Spawned, Appending
<1>3. Asked(q)'
  <2>1. pc[q] # "idle" => OnVersion(call[q].request.baseline, 1, Len(repo))'
    <3>1. /\ Len(repo) \in 0..Len(repo) /\ Len(repo') \in Nat /\ Len(repo) <= Len(repo') /\ 1 \in Nat \ {0}
      BY Repository DEF IInv, WorldType, Later
    <3>2. PICK version, later : version = call[q].request.baseline /\ later = Len(repo')
      OBVIOUS
    <3>3. pc[q] # "idle" => OnVersion(version, 1, later)'
      BY <3>1, <3>2, OnVersionLater DEF Own, Asked
    <3> QED
      BY <3>2, <3>3 DEF Same, OnVersion
  <2>2. Apart(meta[q], Expired')
    BY <1>1, ApartLater DEF Own, Asked
  <2>3. Appending(q, {"PREPARED"}) => NonOverlapping(meta[q], call[q].attempt, Expired')
    BY <1>1 DEF Own, Asked, NonOverlapping, Peers
  <2> QED
    BY <1>1, <1>2, <2>1, <2>2, <2>3 DEF Own, Asked, Same, Appending
<1>4. ArmedWell(q)'
  BY <1>2 DEF Own, ArmedWell, Same, Later
<1>5. Reports(q)'
  <2>1. CASE pc[q] \in {"running", "inspect"} \/ Appending(q, {"COMMAND_STARTED", "COMMAND_FINISHED"})
    <3>1. pc[q] # "idle"
      BY <2>1 DEF Appending
    <3>2. Spawned(q) => Current(q) \in Commands /\ child[Current(q)].state # "none"
      BY DEF Own, Reports
    <3>3. Spawned(q) => child'[Current(q)].state # "none"
      BY <3>2 DEF Later
    <3>4. pc[q] = "inspect" => Exits(pend[q].status, Current(q))'
      <4>1. SUFFICES ASSUME pc[q] = "inspect" PROVE Exits(pend[q].status, Current(q))'
        OBVIOUS
      <4>2. Current(q) \in Commands /\ Exits(pend[q].status, Current(q))
        BY <3>2, <4>1 DEF Spawned, Own, Reports
      <4>3. pend[q].status \in {"SUCCEEDED", "FAILED"} => child'[Current(q)] = child[Current(q)]
        BY <4>2 DEF Exits, Later, Alive
      <4> QED
        BY <1>2, <4>2, <4>3 DEF Same, Exits
    <3>5. Appending(q, {"COMMAND_FINISHED"}) =>
            Tells(pend[q].status, <<call[q].attempt, pend[q].index>>, call[q].request.baseline)'
      <4>1. SUFFICES ASSUME Appending(q, {"COMMAND_FINISHED"})
                     PROVE  Tells(pend[q].status, <<call[q].attempt, pend[q].index>>, call[q].request.baseline)'
        OBVIOUS
      <4>2. <<call[q].attempt, pend[q].index>> \in Commands
        BY <4>1 DEF Own, Reports
      <4>3. PICK c \in Commands, status \in {pend[q].status}, version \in {call[q].request.baseline} :
              c = <<call[q].attempt, pend[q].index>>
        BY <4>2
      <4>4. Tells(status, c, version)
        BY <4>1, <4>3 DEF Own, Reports
      <4>5. Tells(status, c, version)'
        BY <4>4, TellsLater
      <4> QED
        BY <4>3, <4>5 DEF Tells, Exits, Gated, Since, OnVersion, Same
    <3>6. /\ Appending(q, {"COMMAND_FINISHED"})' = Appending(q, {"COMMAND_FINISHED"})
          /\ pc'[q] = pc[q] /\ call'[q].attempt = call[q].attempt /\ pend'[q].index = pend[q].index
          /\ Appending(q, {"COMMAND_FINISHED"}) => <<call[q].attempt, pend[q].index>> \in Commands
      BY DEF Appending, Same, Own, Reports
    <3>7. pc[q] = "inspect" => pend'[q].type = "COMMAND_FINISHED" /\ pend'[q].index = Current(q)[2]
      BY DEF Own, Reports, Same
    <3>8. Spawned(q) => Gated(Current(q), call[q].request.baseline)'
      <4>1. SUFFICES ASSUME Spawned(q) PROVE Gated(Current(q), call[q].request.baseline)'
        OBVIOUS
      <4>2. PICK c \in Commands, version \in {call[q].request.baseline} : c = Current(q)
        BY <3>2, <4>1
      <4>3. Gated(c, version) /\ child[c].state # "none"
        BY <3>2, <4>1, <4>2 DEF Own, Reports
      <4>4. Gated(c, version)'
        BY <4>3, GatedLater
      <4> QED
        BY <1>2, <4>2, <4>4 DEF Gated, Since, OnVersion, Same
    <3> QED
      BY <1>2, <3>2, <3>3, <3>4, <3>5, <3>6, <3>7, <3>8 DEF Reports
  <2>2. CASE ~(pc[q] \in {"running", "inspect"} \/ Appending(q, {"COMMAND_STARTED", "COMMAND_FINISHED"}))
    BY <2>2 DEF Reports, Spawned, Appending, Same
  <2> QED
    BY <2>1, <2>2
<1> QED
  BY <1>3, <1>4, <1>5 DEF Own

\* No event takes an attempt for unused again.
LEMMA AttemptedKept ==
    ASSUME NEW s \in Store, NEW e \in Event, Accepts(s, e), NEW b \in Attempts, Attempted(s, b)
    PROVE  Attempted(Reduce(s, e), b)
<1>1. CASE b # e.attempt \/ e.type \notin CommandEvents \cup {"PREPARED"}
  BY <1>1, EventTouches DEF Untouched
<1>2. CASE b = e.attempt /\ e.type \in CommandEvents \cup {"PREPARED"}
  <2>1. Reduce(s, e).status[b] \in {"PREPARED", "RUNNING", e.status, s.status[b]} /\ e.status \in ResultStatus
    BY <1>2, RunEffects DEF CommandEvents, Event
  <2> QED
    BY <2>1 DEF Attempted, ResultStatus
<1> QED
  BY <1>1, <1>2

LEMMA ArmedEngaged == \A p \in Process : Armed(p) => Engaged(p)
BY DEF Armed, Engaged, Appending, CommandEvents

\* The disk of a step of p: unchanged, spoilt, or written to.
DiskMoves(p) ==
    \/ UNCHANGED <<store, corrupt>>
    \/ corrupt' = TRUE /\ UNCHANGED store
    \/ pc[p] = "write" /\ LineWritten(p)

LEMMA DiskEffect ==
    ASSUME IInv, NEW p \in Process, DiskMoves(p)
    PROVE  /\ corrupt => corrupt'
           /\ \/ store' = store /\ (corrupt' = corrupt \/ corrupt')
              \/ /\ pc[p] = "write" /\ pend[p] \in Event /\ store \in Store
                 /\ ~corrupt /\ ~corrupt' /\ meta[p] = store
                 /\ Accepts(store, pend[p]) /\ store' = Reduce(store, pend[p])
<1>1. CASE UNCHANGED <<store, corrupt>> \/ (corrupt' = TRUE /\ UNCHANGED store)
  BY <1>1
<1>2. CASE pc[p] = "write" /\ LineWritten(p)
  BY <1>2, LineEffect
<1> QED
  BY <1>1, <1>2 DEF DiskMoves

LEMMA TellsStill ==
    ASSUME UNCHANGED <<child, repo>>, NEW status, NEW c, NEW version, Tells(status, c, version)
    PROVE  Tells(status, c, version)'
<1>1. Exits(status, c)' = Exits(status, c)
  BY DEF Exits
<1>2. Gated(c, version)' = Gated(c, version)
  BY DEF Gated, Since, OnVersion
<1>3. OnVersion(version, child[c].closed, Len(repo))' = OnVersion(version, child[c].closed, Len(repo))
  BY DEF OnVersion
<1> QED
  BY <1>1, <1>2, <1>3 DEF Tells

\* What the journal and the children keep of each other while a line is written.
LEMMA LineChildren ==
    ASSUME IInv, CInv, NEW p \in Process, DiskMoves(p), UNCHANGED <<child, repo, age>>
    PROVE  Kept(store, Expired)' /\ ChildrenAgree'
<1>1. Expired' = Expired
  BY DEF Expired
<1>2. CASE store' = store /\ (corrupt' = corrupt \/ corrupt')
  <2>1. ASSUME NEW a \in Attempts, NEW i \in 1..Len(store.command_results[a])
        PROVE  Tells(store.command_results[a][i], <<a, i>>, store.approvals[a].baseline)'
    <3>1. PICK status, version : /\ status = store.command_results[a][i]
                                 /\ version = store.approvals[a].baseline
      OBVIOUS
    <3>2. Tells(status, <<a, i>>, version)'
      BY <3>1, TellsStill DEF CInv, ChildrenAgree
    <3> QED
      BY <1>2, <3>1, <3>2 DEF Tells, Exits, Gated, Since, OnVersion
  <2> QED
    BY <1>1, <1>2, <2>1 DEF CInv, Kept, Apart, ChildrenAgree, Alive
<1>3. CASE /\ pc[p] = "write" /\ pend[p] \in Event /\ store \in Store
           /\ ~corrupt /\ ~corrupt' /\ meta[p] = store
           /\ Accepts(store, pend[p]) /\ store' = Reduce(store, pend[p])
  <2> DEFINE t == Reduce(store, pend[p])
  <2>1. /\ pend[p].attempt = call[p].attempt /\ pend[p].expired \subseteq Expired
        /\ call[p].attempt \in Attempts
    BY <1>3, CallFacts DEF CInv, Own, Asked
  <2>2. Apart(store, Expired) /\ \A b \in Attempts : Chained(store, b)
    BY DEF CInv, Kept
  <2>3. Apart(t, Expired)
    BY <1>3, <2>1, <2>2, ApartKept
  <2>4. \A b \in Attempts : Chained(t, b)
    BY <1>3, <2>2, ChainedKept
  <2>5. pend[p].type = "COMMAND_FINISHED" =>
          /\ <<call[p].attempt, pend[p].index>> \in Commands
          /\ Tells(pend[p].status, <<call[p].attempt, pend[p].index>>, call[p].request.baseline)
          /\ store.approvals[call[p].attempt] = call[p].request
    BY <1>3 DEF CInv, Own, Reports, Asked, Appending, Engaged, CommandEvents
  <2>6. ASSUME NEW c \in Commands
        PROVE  /\ child[c].state # "none" => Known(t, c)
               /\ Alive(c) => Standing(t, c)
    <3>1. /\ child[c].state # "none" => Known(store, c)
          /\ Alive(c) => Standing(store, c)
      BY <1>3 DEF CInv, ChildrenAgree
    <3>2. child[c].state # "none" => Known(t, c)
      BY <1>3, <3>1, KnownKept
    <3>3. ASSUME Alive(c) PROVE Standing(t, c)
      <4>1. Chained(store, c[1]) /\ c = <<c[1], c[2]>>
        BY <2>2, CommandType
      <4>2. ASSUME pend[p].type = "COMMAND_FINISHED", pend[p].attempt = c[1], pend[p].index = c[2]
            PROVE  pend[p].status = "RECOVERY_REQUIRED"
        <5>1. Tells(pend[p].status, c, call[p].request.baseline)
          BY <2>1, <2>5, <4>1, <4>2
        <5> QED
          BY <1>3, <3>3, <5>1 DEF Tells, Exits, Alive, Event, ResultStatus
      <4> QED
        BY <1>3, <3>1, <3>3, <4>1, <4>2, StandingKept
    <3> QED
      BY <3>1, <3>2, <3>3
  <2>7. ASSUME NEW a \in Attempts, NEW i \in 1..Len(t.command_results[a])
        PROVE  Tells(t.command_results[a][i], <<a, i>>, t.approvals[a].baseline)
    <3>1. Chained(store, a)
      BY <2>2
    <3>2. CASE /\ i \in 1..Len(store.command_results[a])
               /\ t.command_results[a][i] = store.command_results[a][i]
               /\ t.approvals[a] = store.approvals[a]
      <4>1. Tells(store.command_results[a][i], <<a, i>>, store.approvals[a].baseline)
        BY <3>2 DEF CInv, ChildrenAgree
      <4> QED
        BY <3>2, <4>1
    <3>3. CASE /\ pend[p].type = "COMMAND_FINISHED" /\ pend[p].attempt = a /\ i = pend[p].index
               /\ t.command_results[a][i] = pend[p].status
               /\ t.approvals[a] = store.approvals[a]
      BY <2>1, <2>5, <3>3
    <3> QED
      BY <1>3, <3>1, <3>2, <3>3, ResultsKept
  <2> QED
    <3>1. ASSUME NEW a \in Attempts, NEW i \in 1..Len(store'.command_results[a])
          PROVE  Tells(store.command_results[a][i], <<a, i>>, store.approvals[a].baseline)'
      <4>1. PICK status, version : /\ status = t.command_results[a][i]
                                   /\ version = t.approvals[a].baseline
        OBVIOUS
      <4>2. Tells(status, <<a, i>>, version)'
        BY <1>3, <2>7, <3>1, <4>1, TellsStill
      <4> QED
        BY <1>3, <4>1, <4>2 DEF Tells, Exits, Gated, Since, OnVersion
    <3> QED
      BY <1>1, <1>3, <2>3, <2>4, <2>6, <3>1 DEF Kept, ChildrenAgree, Alive
<1> QED
  BY <1>2, <1>3, DiskEffect

\* Nobody else writes about an attempt for which an invocation is armed.
LEMMA LineOthers ==
    ASSUME IInv, IInv', CInv, NEW p \in Process, DiskMoves(p), UNCHANGED <<child, repo, age>>,
           NEW q \in Process, q # p, Same(q)
    PROVE  Own(q)'
<1>1. Expired' = Expired /\ Own(q)
  BY DEF Expired, CInv
<1>2. (corrupt => corrupt') /\ Len(repo) \in Nat
  BY DiskEffect, Repository
<1>3. Later
  BY <1>1, <1>2 DEF Later, Alive
<1>4. ASSUME Armed(q)
      PROVE  /\ Held(store', call[q].attempt)
             /\ store'.approvals[call[q].attempt] = store.approvals[call[q].attempt]
             /\ store'.command_results[call[q].attempt] = store.command_results[call[q].attempt]
             /\ ~corrupt' => store'.active_index[call[q].attempt] = store.active_index[call[q].attempt]
             /\ child'[Current(q)].state = "none"
  <2>1. Held(store, call[q].attempt) /\ child[Current(q)].state = "none"
    BY <1>1, <1>4 DEF Own, ArmedWell
  <2>2. CASE store' = store
    BY <2>1, <2>2
  <2>3. CASE /\ pc[p] = "write" /\ pend[p] \in Event /\ store \in Store
             /\ ~corrupt /\ ~corrupt' /\ meta[p] = store
             /\ Accepts(store, pend[p]) /\ store' = Reduce(store, pend[p])
    <3>1. Engaged(q) /\ call[q].attempt \in Attempts
      BY <1>4, ArmedEngaged, CallFacts DEF Armed
    <3>2. pend[p].attempt = call[p].attempt
      BY <2>3 DEF CInv, Own, Asked
    <3>3. call[q].attempt # pend[p].attempt \/ pend[p].type \notin CommandEvents \cup {"PREPARED"}
      <4>1. CASE pend[p].type \in CommandEvents
        <5>1. Engaged(p)
          BY <2>3, <4>1 DEF Engaged, Appending
        <5> QED
          BY <2>3, <3>1, <3>2, <5>1 DEF CInv, Alone
      <4>2. CASE pend[p].type = "PREPARED"
        <5>1. ~Attempted(store, pend[p].attempt)
          BY <2>3, <4>2, RunEffects
        <5>2. Attempted(store, call[q].attempt)
          BY <2>3, <3>1 DEF CInv, Alone
        <5> QED
          BY <5>1, <5>2
      <4> QED
        BY <4>1, <4>2
    <3>4. Untouched(store, store', call[q].attempt)
      BY <2>3, <3>1, <3>3, EventTouches
    <3> QED
      BY <2>1, <3>4 DEF Untouched, Held, Incomplete, Attempted
  <2> QED
    BY <2>2, <2>3, DiskEffect
<1> QED
  BY <1>1, <1>3, <1>4, FrameKeeps

-----------------------------------------------------------------------------
(* A step of an invocation that engages it in nothing new.                   *)

Retains(p) ==
    /\ Own(p)'
    /\ Engaged(p)' => Engaged(p) /\ call'[p] = call[p]
    /\ Armed(p)' => Armed(p)
    /\ \A q \in Process \ {p} : Same(q)

LEMMA RetainsAlone ==
    ASSUME IInv, CInv, NEW p \in Process, Retains(p), DiskMoves(p)
    PROVE  Alone'
<1>1. \A q \in Process : /\ Engaged(q)' => Engaged(q) /\ call'[q] = call[q]
                         /\ Armed(q)' => Armed(q)
  BY DEF Retains, Same, Engaged, Armed, Appending
<1>2. ASSUME NEW q \in Process, Engaged(q), Attempted(store, call[q].attempt)
      PROVE  Attempted(store', call[q].attempt)
  <2>1. call[q].attempt \in Attempts
    BY <1>2, CallFacts DEF Engaged, Appending
  <2> QED
    BY <1>2, <2>1, DiskEffect, AttemptedKept
<1>3. corrupt => corrupt'
  BY DiskEffect
<1>4. ASSUME NEW q \in Process, Engaged(q)', ~corrupt' PROVE Attempted(store', call'[q].attempt)
  BY <1>1, <1>2, <1>3, <1>4 DEF CInv, Alone
<1>5. ASSUME NEW q \in Process, NEW r \in Process, q # r, Engaged(q)', Engaged(r)',
             ~corrupt' \/ (Armed(q)' /\ Armed(r)')
      PROVE  call'[q].attempt # call'[r].attempt
  BY <1>1, <1>3, <1>5 DEF CInv, Alone
<1> QED
  BY <1>4, <1>5 DEF Alone

LEMMA RetainsKeeps ==
    ASSUME IInv, IInv', CInv, NEW p \in Process, Retains(p), DiskMoves(p), UNCHANGED <<child, repo, age>>
    PROVE  CInv'
<1>1. Kept(store, Expired)' /\ ChildrenAgree'
  BY LineChildren
<1>2. \A q \in Process : Own(q)'
  BY LineOthers DEF Retains
<1> QED
  BY <1>1, <1>2, RetainsAlone DEF CInv

LEMMA ReturnRetains ==
    ASSUME IInv, CInv, NEW p \in Process, pc[p] # "idle", NEW receipt, Return(p, receipt),
           UNCHANGED <<call, repo, age>>
    PROVE  Retains(p)
<1>1. /\ pc'[p] = "close" /\ meta'[p] = InitialStore /\ call'[p] = call[p]
      /\ \A q \in Process \ {p} : Same(q)
  BY DEF IInv, SessionsAgree, SessionType, Return, Goto, Same
<1>2. Expired' = Expired /\ Apart(InitialStore, Expired)
  BY InitialKept DEF Expired, Kept
<1>3. ~Engaged(p)' /\ ~Armed(p)' /\ ~Spawned(p)'
  BY <1>1 DEF Engaged, Armed, Spawned, Appending
<1>4. Asked(p)'
  BY <1>1, <1>2, <1>3 DEF CInv, Own, Asked, Appending, OnVersion
<1> QED
  BY <1>1, <1>3, <1>4 DEF Retains, Own, ArmedWell, Reports, Appending

LEMMA ForgetRetains ==
    ASSUME IInv, CInv, NEW p \in Process, Forget(p), UNCHANGED <<repo, age>>
    PROVE  Retains(p)
<1>1. /\ pc'[p] = "idle" /\ meta'[p] = InitialStore /\ \A q \in Process \ {p} : Same(q)
  BY DEF IInv, SessionsAgree, SessionType, Forget, Goto, Same
<1>2. Expired' = Expired /\ Apart(InitialStore, Expired)
  BY InitialKept DEF Expired, Kept
<1>3. ~Engaged(p)' /\ ~Armed(p)' /\ ~Spawned(p)'
  BY <1>1 DEF Engaged, Armed, Spawned, Appending
<1>4. Asked(p)'
  BY <1>1, <1>2, <1>3 DEF Asked, Appending
<1> QED
  BY <1>1, <1>3, <1>4 DEF Retains, Own, ArmedWell, Reports, Appending

\* An event an invocation may ask to append.
Sound(p, event) ==
    /\ event.attempt = call[p].attempt
    /\ event.request = call[p].request
    /\ event.expired \subseteq Expired
    /\ event.type \in CommandEvents => Engaged(p)
    /\ event.type = "PREPARED" => SameRequest(p) /\ NonOverlapping(meta[p], call[p].attempt, Expired)
    /\ event.type = "COMMAND_FINISHED" =>
         /\ <<call[p].attempt, event.index>> \in Commands
         /\ Tells(event.status, <<call[p].attempt, event.index>>, call[p].request.baseline)

LEMMA SubmitRetains ==
    ASSUME IInv, CInv, NEW p \in Process, pc[p] # "idle", NEW event, Sound(p, event), Submit(p, event),
           UNCHANGED <<call, meta, repo, age>>,
           event.type # "COMMAND_STARTED" => UNCHANGED child,
           event.type = "COMMAND_STARTED" =>
             /\ Current(p) \in Commands
             /\ child'[Current(p)].state # "none"
             /\ Gated(Current(p), call[p].request.baseline)'
    PROVE  Retains(p)
<1>1. /\ pc'[p] = "append" /\ pend'[p] = event /\ \A q \in Process \ {p} : Same(q)
      /\ call'[p] = call[p] /\ meta'[p] = meta[p]
  BY DEF IInv, SessionsAgree, SessionType, Submit, Goto, Same
<1>2. Expired' = Expired /\ Current(p)' = Current(p)
  BY DEF Expired, Current
<1>3. ~Armed(p)' /\ (Spawned(p)' <=> event.type = "COMMAND_STARTED")
  BY <1>1 DEF Armed, Spawned, Appending
<1>4. Engaged(p)' => Engaged(p) /\ event.type \in CommandEvents
  BY <1>1 DEF Engaged, Appending, Sound
<1>5. Asked(p)'
  <2>1. /\ OnVersion(call[p].request.baseline, 1, Len(repo)) /\ call[p].expired \subseteq Expired
        /\ Apart(meta[p], Expired)
        /\ Engaged(p) => meta[p].approvals[call[p].attempt] = call[p].request
    BY DEF CInv, Own, Asked
  <2>2. Appending(p, {"PREPARED"})' <=> event.type = "PREPARED"
    BY <1>1 DEF Appending
  <2>3. Engaged(p)' \/ Appending(p, {"PREPARED"})' => meta[p].approvals[call[p].attempt] = call[p].request
    BY <1>4, <2>1, <2>2 DEF Sound, SameRequest
  <2> QED
    BY <1>1, <1>2, <2>1, <2>2, <2>3 DEF Asked, Sound, OnVersion
<1>6. Reports(p)'
  <2>1. Appending(p, {"COMMAND_FINISHED"})' <=> event.type = "COMMAND_FINISHED"
    BY <1>1 DEF Appending
  <2>2. Spawned(p)' => (/\ Current(p) \in Commands
                        /\ child[Current(p)].state # "none"
                        /\ Gated(Current(p), call[p].request.baseline))'
    BY <1>1, <1>2, <1>3
  <2>3. Appending(p, {"COMMAND_FINISHED"})' =>
          (/\ <<call[p].attempt, pend[p].index>> \in Commands
           /\ Tells(pend[p].status, <<call[p].attempt, pend[p].index>>, call[p].request.baseline))'
    BY <1>1, <2>1 DEF Sound, Tells, Exits, Gated, Since, OnVersion
  <2> QED
    BY <1>1, <2>2, <2>3 DEF Reports
<1> QED
  BY <1>1, <1>3, <1>4, <1>5, <1>6 DEF Retains, Own, ArmedWell

\* p only moves on, to a place that asks nothing more of it.
LEMMA MoveRetains ==
    ASSUME IInv, CInv, NEW p \in Process, UNCHANGED <<call, meta, pend, child, repo, age>>,
           \/ Goto(p, "dispatch") /\ pc[p] = "decide"
                /\ meta[p].semantic_assessments[call[p].attempt] = "NON_OVERLAPPING"
           \/ Goto(p, "drain") /\ Appending(p, {"COMMAND_STARTED"})
    PROVE  Retains(p)
<1>1. /\ pc'[p] \in {"dispatch", "drain"} /\ call'[p] = call[p] /\ meta'[p] = meta[p]
      /\ pc'[p] = "dispatch" => meta[p].semantic_assessments[call[p].attempt] = "NON_OVERLAPPING"
      /\ pc'[p] = "drain" => Engaged(p)
      /\ \A q \in Process \ {p} : Same(q)
      /\ pc[p] # "idle"
  BY DEF IInv, SessionsAgree, SessionType, Goto, Same, Engaged, Appending, CommandEvents
<1>2. Expired' = Expired
  BY DEF Expired
<1>3. (Engaged(p)' => Engaged(p)) /\ ~Armed(p)' /\ ~Spawned(p)'
  BY <1>1 DEF Engaged, Armed, Spawned, Appending
<1>4. Asked(p)'
  BY <1>1, <1>2, <1>3 DEF CInv, Own, Asked, Appending, OnVersion
<1> QED
  BY <1>1, <1>3, <1>4 DEF Retains, Own, ArmedWell, Reports, Appending

LEMMA FailRetains ==
    ASSUME IInv, CInv, NEW p \in Process, pc[p] \in {"append", "write"}, Fail(p),
           UNCHANGED <<call, child, repo, age>>
    PROVE  Retains(p)
<1>1. CASE pend[p].type = "COMMAND_STARTED"
  BY <1>1, MoveRetains DEF Fail, Appending
<1>2. CASE pend[p].type # "COMMAND_STARTED"
  BY <1>2, ReturnRetains DEF Fail
<1> QED
  BY <1>1, <1>2

-----------------------------------------------------------------------------
(* Entering, leaving, and appending that fails.                              *)

LEMMA BeginChildren ==
    ASSUME IInv, IInv', CInv, NEW p \in Process, BeginApprove(p) \/ BeginRun(p) \/ BeginRecover(p)
    PROVE  CInv'
<1>0. Len(repo) \in Nat \ {0} /\ DOMAIN repo = 1..Len(repo)
  BY DEF IInv, WorldType
<1>1. PICK op, a, request, expired :
        /\ Begin(p, op, a, request, expired)
        /\ OnVersion(request.baseline, 1, Len(repo)) /\ expired \subseteq Expired
  <2>1. ASSUME BeginApprove(p) \/ BeginRun(p)
        PROVE  \E op, a, expired : \E request \in Requests :
                 Begin(p, op, a, request, expired) /\ expired \subseteq Expired
    BY <2>1 DEF BeginApprove, BeginRun
  <2>2. \A request \in Requests : OnVersion(request.baseline, 1, Len(repo))
    BY <1>0 DEF Requests, OnVersion
  <2>3. CASE BeginRecover(p)
    <3>1. OnVersion(0, 1, Len(repo))
      BY <1>0 DEF OnVersion, IInv, WorldType
    <3> QED
      BY <2>3, <3>1 DEF BeginRecover
  <2> QED
    BY <2>1, <2>2, <2>3
<1>2. /\ pc'[p] = "read" /\ call'[p].request = request /\ call'[p].expired = expired /\ meta'[p] = meta[p]
      /\ \A q \in Process \ {p} : Same(q)
      /\ UNCHANGED <<store, corrupt, child, repo, age>>
  BY <1>1 DEF IInv, SessionsAgree, SessionType, Begin, Goto, Same, world
<1>3. ~Engaged(p)' /\ ~Armed(p)' /\ ~Spawned(p)' /\ Expired' = Expired
  BY <1>2 DEF Engaged, Armed, Spawned, Appending, Expired
<1>4. Asked(p)'
  BY <1>1, <1>2, <1>3 DEF CInv, Own, Asked, Appending, OnVersion
<1>5. Retains(p)
  BY <1>2, <1>3, <1>4 DEF Retains, Own, ArmedWell, Reports, Appending
<1> QED
  BY <1>2, <1>5, RetainsKeeps DEF DiskMoves

LEMMA LeaveChildren ==
    ASSUME IInv, IInv', CInv, NEW p \in Process, Close(p) \/ Crash(p)
    PROVE  CInv'
BY ForgetRetains, RetainsKeeps DEF Close, Crash, DiskMoves, world

LEMMA ReadChildren ==
    ASSUME IInv, IInv', CInv, NEW p \in Process, ReadStore(p) \/ ReadCorrupt(p)
    PROVE  CInv'
<1>1. CASE ReadStore(p)
  <2>1. /\ pc'[p] = "decide" /\ call'[p] = call[p] /\ meta'[p] = store /\ pc[p] = "read"
        /\ \A q \in Process \ {p} : Same(q)
        /\ UNCHANGED <<store, corrupt, child, repo, age>>
    BY <1>1 DEF IInv, SessionsAgree, SessionType, ReadStore, Goto, Same, disk, world
  <2>2. ~Engaged(p)' /\ ~Armed(p)' /\ ~Spawned(p)' /\ Expired' = Expired
    BY <2>1 DEF Engaged, Armed, Spawned, Appending, Expired
  <2>3. Asked(p)'
    BY <2>1, <2>2 DEF CInv, Own, Asked, Appending, Kept, OnVersion
  <2>4. Retains(p)
    BY <2>1, <2>2, <2>3 DEF Retains, Own, ArmedWell, Reports, Appending
  <2> QED
    BY <2>1, <2>4, RetainsKeeps DEF DiskMoves
<1>2. CASE ReadCorrupt(p)
  <2>1. Return(p, IF call[p].op = "run" THEN "BLOCKED" ELSE "none")
    BY <1>2 DEF ReadCorrupt
  <2> QED
    BY <1>2, <2>1, ReturnRetains, RetainsKeeps DEF ReadCorrupt, DiskMoves, disk, world
<1> QED
  BY <1>1, <1>2

LEMMA FailingChildren ==
    ASSUME IInv, IInv', CInv, NEW p \in Process,
           AppendRefused(p) \/ WrittenUnacknowledged(p) \/ WrittenInPart(p)
    PROVE  CInv'
<1>1. /\ Fail(p) /\ UNCHANGED <<call, child, repo, age>> /\ DiskMoves(p) /\ pc[p] \in {"append", "write"}
  BY DEF AppendRefused, WrittenUnacknowledged, WrittenInPart, DiskMoves, disk, world
<1> QED
  BY <1>1, FailRetains, RetainsKeeps

-----------------------------------------------------------------------------
(* Deciding and running                                                      *)

LEMMA QuietChildren ==
    ASSUME IInv, IInv', CInv, NEW p \in Process, Retains(p), UNCHANGED <<disk, world>>
    PROVE  CInv'
BY RetainsKeeps DEF DiskMoves, disk, world

\* The events an invocation makes of its call are sound as far as they repeat it.
LEMMA EventSound ==
    ASSUME IInv, CInv, NEW p \in Process, pc[p] # "idle", NEW event, NEW type,
           \/ event = EventOf(p, type)
           \/ \E i : event = [EventOf(p, type) EXCEPT !.index = i]
           \/ \E r : event = [EventOf(p, type) EXCEPT !.status = r]
           \/ event = [EventOf(p, type) EXCEPT !.expired = Expired],
           type \in CommandEvents => Engaged(p),
           type \notin {"PREPARED", "COMMAND_FINISHED"}
    PROVE  Sound(p, event) /\ event.type = type
<1>1. /\ event.attempt = call[p].attempt /\ event.request = call[p].request
      /\ event.expired \in {call[p].expired, Expired} /\ event.type = type
  BY DEF EventOf
<1>2. call[p].expired \subseteq Expired
  BY DEF CInv, Own, Asked
<1> QED
  BY <1>1, <1>2 DEF Sound

LEMMA DecideChildren ==
    ASSUME IInv, IInv', CInv, NEW p \in Process,
           \/ ApproveRefused(p) \/ Approve(p) \/ Recover(p)
           \/ RunRejected(p) \/ RunReplayed(p) \/ RunBlocked(p) \/ RunAssessed(p)
    PROVE  CInv'
<1>0. /\ pc[p] = "decide" /\ pc[p] # "idle" /\ UNCHANGED <<disk, world, call, child, repo, age>>
  BY DEF ApproveRefused, Approve, Recover, RunRejected, RunReplayed, RunBlocked, RunAssessed, Deciding, world
<1>1. CASE ApproveRefused(p) \/ RunRejected(p) \/ RunReplayed(p) \/ RunBlocked(p)
           \/ (Recover(p) /\ Pending(meta[p]) = {})
  <2>1. \E receipt : Return(p, receipt)
    BY <1>1 DEF ApproveRefused, RunRejected, RunReplayed, RunBlocked, Recover
  <2> QED
    BY <1>0, <2>1, ReturnRetains, QuietChildren
<1>2. CASE Approve(p) \/ (Recover(p) /\ Pending(meta[p]) # {})
  <2>1. PICK type \in {"APPROVED", "SEMANTIC_ASSESSED", "RECOVERED"} :
          Submit(p, EventOf(p, type)) /\ UNCHANGED meta
    BY <1>2 DEF Approve, Recover
  <2>2. Sound(p, EventOf(p, type)) /\ EventOf(p, type).type # "COMMAND_STARTED"
    BY <1>0, EventSound DEF CommandEvents
  <2> QED
    BY <1>0, <2>1, <2>2, SubmitRetains, QuietChildren
<1>3. CASE RunAssessed(p)
  <2>1. CASE NeedsAssessment(meta[p], call[p].attempt)
    <3> DEFINE event == [EventOf(p, "SEMANTIC_ASSESSED") EXCEPT !.expired = Expired]
    <3>1. Submit(p, event) /\ UNCHANGED meta
      BY <1>3, <2>1 DEF RunAssessed
    <3>2. Sound(p, event) /\ event.type # "COMMAND_STARTED"
      BY <1>0, EventSound DEF CommandEvents
    <3> QED
      BY <1>0, <3>1, <3>2, SubmitRetains, QuietChildren
  <2>2. CASE ~NeedsAssessment(meta[p], call[p].attempt)
    <3>1. /\ call[p].attempt \in Attempts /\ meta[p] \in Store /\ Apart(meta[p], Expired)
      BY <1>0, CallFacts DEF CInv, Own, Asked
    <3>2. meta[p].semantic_assessments[call[p].attempt] = "NON_OVERLAPPING"
      BY <1>3, <2>2, <3>1 DEF RunAssessed, NeedsAssessment, Fenced, Apart, Store, AssessmentStatus
    <3>3. Goto(p, "dispatch") /\ UNCHANGED <<meta, pend>>
      BY <1>3, <2>2 DEF RunAssessed
    <3> QED
      BY <1>0, <3>2, <3>3, MoveRetains, QuietChildren
  <2> QED
    BY <2>1, <2>2
<1> QED
  BY <1>1, <1>2, <1>3

LEMMA DispatchChildren ==
    ASSUME IInv, IInv', CInv, NEW p \in Process,
           \/ Dispatch(p) \/ DispatchRefused(p)
           \/ PrepareCommand(p) \/ CommandRefused(p) \/ Finish(p) \/ EvidenceFailed(p)
    PROVE  CInv'
<1>0. /\ pc[p] \in {"dispatch", "loop", "evidence"} /\ pc[p] # "idle"
      /\ UNCHANGED <<disk, world, call, child, repo, age>>
  BY DEF Dispatch, DispatchRefused, PrepareCommand, CommandRefused, Finish, EvidenceFailed, world
<1>1. CASE DispatchRefused(p)
  BY <1>0, <1>1, ReturnRetains, QuietChildren DEF DispatchRefused
<1>2. CASE Dispatch(p)
  <2> DEFINE a == call[p].attempt
  <2>1. /\ a \in Attempts /\ call[p].request \in Request /\ Apart(meta[p], Expired)
        /\ meta[p].semantic_assessments[a] = "NON_OVERLAPPING" /\ call[p].expired \subseteq Expired
    BY <1>0, <1>2, CallFacts DEF CInv, Own, Asked, Dispatch
  <2>2. /\ SameRequest(p) /\ ~Attempted(meta[p], a) /\ a \notin Expired /\ Approved(meta[p], a)
    <3>1. SameRequest(p) /\ ~Attempted(meta[p], a) /\ age[a] = 0
      BY <1>2 DEF Dispatch, Gate, Fresh
    <3>2. call[p].request # NoRequest
      BY <2>1 DEF Request, NoRequest
    <3> QED
      BY <3>1, <3>2 DEF Expired, Approved, SameRequest
  <2>3. NonOverlapping(meta[p], a, Expired)
    BY <2>1, <2>2 DEF NonOverlapping, Peers, Apart
  <2>4. Sound(p, EventOf(p, "PREPARED")) /\ EventOf(p, "PREPARED").type = "PREPARED"
    BY <2>1, <2>2, <2>3 DEF Sound, EventOf, CommandEvents
  <2>5. Submit(p, EventOf(p, "PREPARED")) /\ UNCHANGED meta
    BY <1>2 DEF Dispatch
  <2> QED
    BY <1>0, <2>4, <2>5, SubmitRetains, QuietChildren
<1>3. CASE PrepareCommand(p) \/ CommandRefused(p) \/ Finish(p) \/ EvidenceFailed(p)
  <2>1. Engaged(p)
    BY <1>3 DEF Engaged, PrepareCommand, CommandRefused, Finish, EvidenceFailed
  <2>2. PICK event : /\ Submit(p, event) /\ UNCHANGED meta
                     /\ \/ \E i : event = [EventOf(p, "COMMAND_PREPARED") EXCEPT !.index = i]
                        \/ \E r : event = [EventOf(p, "FINISHED") EXCEPT !.status = r]
    BY <1>3 DEF PrepareCommand, CommandRefused, Finish, EvidenceFailed, SubmitFinished
  <2>3. Sound(p, event) /\ event.type # "COMMAND_STARTED"
    <3>1. CASE \E i : event = [EventOf(p, "COMMAND_PREPARED") EXCEPT !.index = i]
      <4>1. Sound(p, event) /\ event.type = "COMMAND_PREPARED"
        BY <1>0, <2>1, <3>1, EventSound
      <4> QED
        BY <4>1
    <3>2. CASE \E r : event = [EventOf(p, "FINISHED") EXCEPT !.status = r]
      <4>1. Sound(p, event) /\ event.type = "FINISHED"
        BY <1>0, <2>1, <3>2, EventSound
      <4> QED
        BY <4>1
    <3> QED
      BY <2>2, <3>1, <3>2
  <2> QED
    BY <1>0, <2>2, <2>3, SubmitRetains, QuietChildren
<1> QED
  BY <1>1, <1>2, <1>3

\* What an invocation makes of its child.
LEMMA CommandFields ==
    ASSUME NEW p \in Process, NEW status
    PROVE  /\ CommandFinished(p, status).type = "COMMAND_FINISHED"
           /\ CommandFinished(p, status).attempt = call[p].attempt
           /\ CommandFinished(p, status).request = call[p].request
           /\ CommandFinished(p, status).expired = call[p].expired
           /\ CommandFinished(p, status).index = Current(p)[2]
           /\ CommandFinished(p, status).status = status
           /\ CommandEvent(p, "COMMAND_STARTED").type = "COMMAND_STARTED"
           /\ CommandEvent(p, "COMMAND_STARTED").attempt = call[p].attempt
           /\ CommandEvent(p, "COMMAND_STARTED").request = call[p].request
           /\ CommandEvent(p, "COMMAND_STARTED").expired = call[p].expired
BY DEF CommandFinished, CommandEvent, EventOf

LEMMA EvidenceChildren ==
    ASSUME IInv, IInv', CInv, NEW p \in Process,
           Evidence(p) \/ EvidenceOwnerLost(p) \/ Drain(p) \/ NotSpawned(p)
    PROVE  CInv'
<1>0. /\ pc[p] \in {"evidence", "spawn", "drain"} /\ pc[p] # "idle" /\ Engaged(p)
      /\ UNCHANGED <<disk, world, call, store, corrupt, child, repo, age>>
  BY DEF Evidence, EvidenceOwnerLost, Drain, NotSpawned, Engaged, world, disk
<1>1. CASE EvidenceOwnerLost(p) \/ Drain(p)
  BY <1>0, <1>1, ReturnRetains, QuietChildren DEF EvidenceOwnerLost, Drain
<1>2. CASE Evidence(p)
  <2>1. /\ pc[p] = "evidence" /\ pc'[p] = "spawn" /\ call'[p] = call[p] /\ meta'[p] = meta[p]
        /\ \A q \in Process \ {p} : Same(q)
    BY <1>2 DEF IInv, SessionsAgree, SessionType, Evidence, Goto, Same
  <2>2. Armed(p) /\ ~Spawned(p)' /\ Expired' = Expired /\ Current(p)' = Current(p)
    BY <1>0, <2>1 DEF Armed, Spawned, Appending, Expired, Current
  <2>3. Asked(p)'
    BY <1>0, <2>1, <2>2 DEF CInv, Own, Asked, Appending, OnVersion
  <2>4. ArmedWell(p)'
    BY <1>0, <2>1, <2>2 DEF CInv, Own, ArmedWell
  <2>5. Retains(p)
    BY <1>0, <2>1, <2>2, <2>3, <2>4 DEF Retains, Own, Reports, Appending
  <2> QED
    BY <1>0, <2>5, QuietChildren
<1>3. CASE NotSpawned(p)
  <2> DEFINE event == CommandFinished(p, "RECOVERY_REQUIRED")
  <2>1. Current(p) \in Commands /\ Current(p) = <<call[p].attempt, Current(p)[2]>>
    BY <1>3 DEF NotSpawned, CInv, Own, ArmedWell, Armed, Current
  <2>2. call[p].expired \subseteq Expired
    BY <1>0 DEF CInv, Own, Asked
  <2>3. Sound(p, event) /\ event.type = "COMMAND_FINISHED"
    BY <1>0, <2>1, <2>2, CommandFields DEF Sound, Tells, Exits
  <2>4. Submit(p, event) /\ UNCHANGED meta
    BY <1>3 DEF NotSpawned
  <2> QED
    BY <1>0, <2>3, <2>4, SubmitRetains, QuietChildren
<1> QED
  BY <1>1, <1>2, <1>3

LEMMA ResolveChildren ==
    ASSUME IInv, IInv', CInv, NEW p \in Process, Resolve(p)
    PROVE  CInv'
<1>1. PICK status \in RunnerResults(Current(p)) : pend' = [pend EXCEPT ![p] = CommandFinished(p, status)]
  BY DEF Resolve
<1>2. /\ pc[p] = "running" /\ pc'[p] = "inspect" /\ call'[p] = call[p] /\ meta'[p] = meta[p]
      /\ pend'[p] = CommandFinished(p, status)
      /\ \A q \in Process \ {p} : Same(q)
      /\ UNCHANGED <<disk, world, store, corrupt, child, repo, age>>
  BY <1>1 DEF IInv, SessionsAgree, SessionType, Resolve, Goto, Same, world, disk
<1>3. ~Armed(p)' /\ Spawned(p) /\ Engaged(p) /\ Expired' = Expired /\ Current(p)' = Current(p)
  BY <1>2 DEF Armed, Spawned, Appending, Engaged, Expired, Current
<1>4. /\ Current(p) \in Commands /\ child[Current(p)].state # "none"
      /\ Gated(Current(p), call[p].request.baseline)
  BY <1>3 DEF CInv, Own, Reports
<1>5. Asked(p)'
  BY <1>2, <1>3, CommandFields DEF CInv, Own, Asked, Appending, OnVersion
<1>6. Exits(status, Current(p))
  <2>1. child[Current(p)] \in Child
    BY <1>4 DEF IInv, WorldType
  <2> QED
    BY <1>1, <2>1 DEF Exits, RunnerResults, Child
<1>7. Reports(p)'
  BY <1>2, <1>3, <1>4, <1>6, CommandFields DEF Reports, Appending, Exits, Gated, Since, OnVersion
<1>8. Retains(p)
  BY <1>2, <1>3, <1>5, <1>7 DEF Retains, Own, ArmedWell
<1> QED
  BY <1>2, <1>8, QuietChildren

\* A result that stands was inspected after its child had closed.
LEMMA InspectChildren ==
    ASSUME IInv, IInv', CInv, NEW p \in Process, Inspect(p) \/ InspectFailed(p)
    PROVE  CInv'
<1>1. /\ pc[p] = "inspect" /\ pc[p] # "idle" /\ UNCHANGED <<disk, world, call, meta, child, repo, age>>
      /\ Spawned(p) /\ Engaged(p)
  BY DEF Inspect, InspectFailed, world, Spawned, Engaged
<1>2. /\ Current(p) \in Commands /\ Current(p) = <<call[p].attempt, pend[p].index>>
      /\ Gated(Current(p), call[p].request.baseline)
      /\ pend[p].type = "COMMAND_FINISHED"
      /\ Exits(pend[p].status, Current(p))
  BY <1>1 DEF CInv, Own, Reports, Current
<1>3. /\ pend[p].attempt = call[p].attempt /\ pend[p].request = call[p].request
      /\ pend[p].expired \subseteq Expired /\ pend[p] \in Event
  BY <1>1 DEF CInv, Own, Asked, IInv, SessionsAgree, Session
<1>4. PICK event \in Event : /\ Submit(p, event) /\ event.type = "COMMAND_FINISHED" /\ Sound(p, event)
  <2>1. CASE Inspect(p)
    <3>1. repo[Len(repo)] = call[p].request.baseline /\ Submit(p, pend[p])
      BY <2>1 DEF Inspect, Version
    <3>2. Tells(pend[p].status, Current(p), call[p].request.baseline)
      <4>1. SUFFICES ASSUME pend[p].status \in {"SUCCEEDED", "FAILED"}
                     PROVE  OnVersion(call[p].request.baseline, child[Current(p)].closed, Len(repo))
        BY <1>2 DEF Tells
      <4>2. child[Current(p)].closed \in 1..Len(repo) /\ Len(repo) \in Nat
        BY <1>2, <4>1, Repository DEF Exits, IInv, WorldType
      <4> QED
        BY <3>1, <4>2 DEF OnVersion
    <3>3. Sound(p, pend[p])
      BY <1>1, <1>2, <1>3, <3>2 DEF Sound
    <3> QED
      BY <1>2, <1>3, <3>1, <3>3
  <2>2. CASE InspectFailed(p)
    <3> DEFINE event == [pend[p] EXCEPT !.status = "RECOVERY_REQUIRED"]
    <3>1. /\ event \in Event /\ event.type = pend[p].type /\ event.attempt = pend[p].attempt
          /\ event.request = pend[p].request /\ event.expired = pend[p].expired
          /\ event.index = pend[p].index /\ event.status = "RECOVERY_REQUIRED"
      BY <1>3 DEF Event, ResultStatus
    <3>2. Sound(p, event)
      BY <1>1, <1>2, <1>3, <3>1 DEF Sound, Tells, Exits
    <3>3. Submit(p, event)
      BY <2>2 DEF InspectFailed
    <3> QED
      BY <1>2, <3>1, <3>2, <3>3
  <2> QED
    BY <2>1, <2>2
<1> QED
  BY <1>1, <1>4, SubmitRetains, QuietChildren

-----------------------------------------------------------------------------
(* A line that is checked, and one that is written.                          *)

LEMMA CheckedChildren ==
    ASSUME IInv, IInv', CInv, NEW p \in Process, Checked(p)
    PROVE  CInv'
<1> DEFINE a == call[p].attempt
           c == Current(p)
<1>1. /\ pc[p] = "append" /\ pc[p] # "idle" /\ pc'[p] = "write"
      /\ call'[p] = call[p] /\ meta'[p] = meta[p] /\ pend'[p] = pend[p]
      /\ ~corrupt /\ meta[p] = store /\ Accepts(store, pend[p])
      /\ \A q \in Process \ {p} : Same(q)
      /\ UNCHANGED <<disk, world, store, corrupt, child, repo, age>>
  BY DEF IInv, SessionsAgree, SessionType, Checked, Goto, Same, world, disk
<1>2. /\ Engaged(p)' = Engaged(p) /\ Spawned(p)' = Spawned(p) /\ Current(p)' = Current(p) /\ Expired' = Expired
      /\ \A types : Appending(p, types)' = Appending(p, types)
      /\ Armed(p)' <=> pend[p].type = "COMMAND_PREPARED"
  BY <1>1 DEF Engaged, Armed, Spawned, Appending, Current, Expired
<1>3. Asked(p)' /\ Reports(p)'
  <2>1. Asked(p)'
    BY <1>1, <1>2 DEF CInv, Own, Asked, OnVersion
  <2>2. Gated(c, call[p].request.baseline)' = Gated(c, call[p].request.baseline)
    BY <1>1, <1>2 DEF Gated, Since, OnVersion
  <2>3. Appending(p, {"COMMAND_FINISHED"}) =>
          Tells(pend[p].status, <<a, pend[p].index>>, call[p].request.baseline)'
    <3>1. PICK status, d, version : /\ status = pend[p].status /\ d = <<a, pend[p].index>>
                                    /\ version = call[p].request.baseline
      OBVIOUS
    <3>2. Appending(p, {"COMMAND_FINISHED"}) => Tells(status, d, version)'
      BY <1>1, <3>1, TellsStill DEF CInv, Own, Reports
    <3> QED
      BY <1>1, <3>1, <3>2 DEF Tells, Exits, Gated, Since, OnVersion
  <2> QED
    BY <1>1, <1>2, <2>1, <2>2, <2>3 DEF CInv, Own, Reports
<1>4. ArmedWell(p)'
  <2>1. SUFFICES ASSUME pend[p].type = "COMMAND_PREPARED" PROVE ArmedWell(p)'
    BY <1>2 DEF ArmedWell
  <2>2. /\ a \in Attempts /\ pend[p].attempt = a /\ pend[p] \in Event /\ store \in Store
        /\ NextIndex(store, a) \in Nat \ {0} /\ c = <<a, NextIndex(store, a)>>
    BY <1>1, CallFacts DEF CInv, Own, Asked, IInv, SessionsAgree, Session
  <2>3. /\ Incomplete(store, a) /\ pend[p].index = NextIndex(store, a) /\ pend[p].index <= CommandCount[a]
        /\ store.active_index[a] = NoIndex /\ LastSucceeded(store, a)
    BY <1>1, <2>1, <2>2, RunEffects DEF CommandEvents
  <2>4. c \in Commands
    <3>1. CommandCount[a] \in 1..16
      BY <2>2, CommandCountAssumption DEF MaxCommands
    <3>2. NextIndex(store, a) \in 1..16
      BY <2>2, <2>3, <3>1
    <3> QED
      BY <2>2, <2>3, <3>2 DEF Commands, MaxCommands
  <2>5. child[c].state = "none"
    BY <1>1, <2>2, <2>3, <2>4 DEF CInv, ChildrenAgree, Known, NoIndex
  <2>6. Held(store, a)
    BY <2>3 DEF Held
  <2>7. store.approvals[a] = call[p].request
    BY <1>1, <2>1 DEF CInv, Own, Asked, Engaged, Appending, CommandEvents
  <2> QED
    BY <1>1, <1>2, <2>3, <2>4, <2>5, <2>6, <2>7 DEF ArmedWell
<1>5. DiskMoves(p)
  BY <1>1 DEF DiskMoves
<1>6. \A q \in Process : Own(q)'
  BY <1>1, <1>3, <1>4, <1>5, LineOthers DEF Own
<1>7. Alone'
  <2>1. \A q \in Process : Engaged(q)' = Engaged(q) /\ call'[q] = call[q]
    BY <1>1, <1>2 DEF Same, Engaged, Appending
  <2> QED
    BY <1>1, <2>1 DEF CInv, Alone
<1> QED
  BY <1>1, <1>5, <1>6, <1>7, LineChildren DEF CInv

\* The session goes on with what its event made of the state it remembers.
LEMMA GoneOn ==
    ASSUME IInv, CInv, NEW p \in Process, Written(p), After(p) # "close"
    PROVE  /\ pc[p] = "write" /\ pc[p] # "idle" /\ DiskMoves(p)
           /\ pc'[p] = After(p) /\ call'[p] = call[p] /\ meta'[p] = Reduce(meta[p], pend[p])
           /\ pend'[p] = NoEvent
           /\ \A q \in Process \ {p} : Same(q)
           /\ UNCHANGED <<child, repo, age>> /\ Expired' = Expired
           /\ meta[p] \in Store /\ pend[p] \in Event /\ Accepts(meta[p], pend[p])
           /\ call[p].attempt \in Attempts /\ pend[p].attempt = call[p].attempt
           /\ pend[p].expired \subseteq Expired
           /\ Apart(meta'[p], Expired)
           /\ OnVersion(call[p].request.baseline, 1, Len(repo)) /\ call[p].expired \subseteq Expired
<1>1. /\ pc[p] = "write" /\ pc'[p] = After(p) /\ call'[p] = call[p]
      /\ meta'[p] = Reduce(meta[p], pend[p]) /\ pend'[p] = NoEvent
      /\ LineWritten(p) /\ \A q \in Process \ {p} : Same(q)
      /\ UNCHANGED <<child, repo, age>>
  BY DEF IInv, SessionsAgree, SessionType, Written, Goto, Same, world
<1>2. meta[p] \in Store /\ pend[p] \in Event /\ Accepts(meta[p], pend[p])
  BY <1>1 DEF IInv, SessionsAgree, SessionType, Session
<1>3. /\ pend[p].attempt = call[p].attempt /\ pend[p].expired \subseteq Expired /\ Apart(meta[p], Expired)
      /\ OnVersion(call[p].request.baseline, 1, Len(repo)) /\ call[p].expired \subseteq Expired
  BY <1>1 DEF CInv, Own, Asked
<1>4. Apart(Reduce(meta[p], pend[p]), Expired)
  BY <1>2, <1>3, ApartKept
<1> QED
  BY <1>1, <1>2, <1>3, <1>4, CallFacts DEF DiskMoves, Expired

LEMMA AssessedGoesOn ==
    ASSUME IInv, CInv, NEW p \in Process, Written(p), After(p) # "close", pend[p].type = "SEMANTIC_ASSESSED"
    PROVE  Retains(p)
<1>1. After(p) = "dispatch" /\ NonOverlapping(meta[p], pend[p].attempt, pend[p].expired)
  BY DEF After
<1>2. meta'[p].semantic_assessments[call[p].attempt] = "NON_OVERLAPPING"
  <2>1. PICK s \in Store, e \in Event : s = meta[p] /\ e = pend[p] /\ e.attempt \in Attempts
    BY GoneOn
  <2>2. Reduce(s, e) = [s EXCEPT !.semantic_assessments[e.attempt] = "NON_OVERLAPPING"]
    BY <1>1, <2>1 DEF Reduce, SemanticAssessed
  <2>3. Reduce(s, e).semantic_assessments[e.attempt] = "NON_OVERLAPPING"
    BY <2>1, <2>2 DEF Store
  <2>4. meta'[p] = Reduce(s, e) /\ call[p].attempt = e.attempt
    BY <2>1, GoneOn
  <2> QED
    BY <2>3, <2>4
<1>3. ~Engaged(p)' /\ ~Armed(p)' /\ ~Spawned(p)' /\ \A types : ~Appending(p, types)'
  BY <1>1, GoneOn DEF Engaged, Armed, Spawned, Appending
<1>4. Asked(p)'
  BY <1>1, <1>2, <1>3, GoneOn DEF Asked, OnVersion
<1> QED
  BY <1>1, <1>3, <1>4, GoneOn DEF Retains, Own, ArmedWell, Reports

\* The approval is that of the request, before and after.
LEMMA AskedGoesOn ==
    ASSUME IInv, CInv, NEW p \in Process, Written(p), After(p) # "close",
           pend[p].type \in CommandEvents \cup {"PREPARED"}
    PROVE  Asked(p)' /\ \A types : ~Appending(p, types)'
<1>1. After(p) \in {"loop", "evidence", "running"}
  BY DEF After, CommandEvents
<1>2. meta[p].approvals[call[p].attempt] = call[p].request
  BY GoneOn DEF CInv, Own, Asked, Engaged, Appending
<1>3. meta'[p].approvals = meta[p].approvals
  <2>1. PICK s \in Store, e \in Event : s = meta[p] /\ e = pend[p]
    BY GoneOn
  <2>2. Reduce(s, e).approvals = s.approvals
    BY <2>1 DEF Reduce, Finished, Store, CommandEvents
  <2> QED
    BY <2>1, <2>2, GoneOn
<1>4. \A types : ~Appending(p, types)'
  BY <1>1, GoneOn DEF Appending
<1> QED
  BY <1>1, <1>2, <1>3, <1>4, GoneOn DEF Asked, OnVersion

LEMMA CommandGoesOn ==
    ASSUME IInv, CInv, NEW p \in Process, Written(p), After(p) # "close", pend[p].type \in CommandEvents
    PROVE  Retains(p)
<1> DEFINE a == call[p].attempt
<1>0. Asked(p)' /\ \A types : ~Appending(p, types)'
  BY AskedGoesOn
<1>1. Engaged(p)
  BY GoneOn DEF Engaged, Appending
<1>2. CASE pend[p].type = "COMMAND_FINISHED"
  <2>1. pc'[p] = "loop"
    BY <1>2, GoneOn DEF After
  <2>2. ~Armed(p)' /\ ~Spawned(p)'
    BY <1>0, <2>1 DEF Armed, Spawned
  <2> QED
    BY <1>0, <1>1, <2>1, <2>2, GoneOn DEF Retains, Own, ArmedWell, Reports
<1>3. CASE pend[p].type = "COMMAND_STARTED"
  <2>1. pc'[p] = "running"
    BY <1>3, GoneOn DEF After
  <2>2. ~Armed(p)' /\ Spawned(p)
    BY <1>3, <2>1, GoneOn DEF Armed, Spawned, Appending
  <2>3. meta'[p].command_results[a] = meta[p].command_results[a]
    BY <1>3, GoneOn, RunEffects, SMTT(60) DEF CommandEvents
  <2>4. Current(p)' = Current(p)
    BY <2>3, GoneOn DEF Current, NextIndex
  <2>5. Gated(Current(p), call[p].request.baseline)' = Gated(Current(p), call[p].request.baseline)
    BY <2>4, GoneOn DEF Gated, Since, OnVersion
  <2>6. Reports(p)'
    BY <1>0, <2>1, <2>2, <2>4, <2>5, GoneOn DEF CInv, Own, Reports
  <2> QED
    BY <1>0, <1>1, <2>2, <2>6, GoneOn DEF Retains, Own, ArmedWell
<1>4. CASE pend[p].type = "COMMAND_PREPARED"
  <2>1. pc'[p] = "evidence"
    BY <1>4, GoneOn DEF After
  <2>2. Armed(p) /\ ~Spawned(p)'
    BY <1>0, <1>4, <2>1, GoneOn DEF Armed, Spawned
  <2>3. /\ meta'[p].command_results[a] = meta[p].command_results[a]
        /\ pend[p].index = NextIndex(meta[p], a)
    BY <1>4, GoneOn, RunEffects DEF CommandEvents
  <2>4. /\ Current(p)' = Current(p) /\ Current(p)[2] = pend[p].index
    BY <2>3, GoneOn DEF Current, NextIndex
  <2>5. /\ Current(p) \in Commands
        /\ LastSucceeded(meta[p], a) /\ Held(store, a)
        /\ store.approvals[a] = call[p].request
        /\ store.command_results[a] = meta[p].command_results[a]
        /\ child[Current(p)].state = "none"
    BY <2>2 DEF CInv, Own, ArmedWell
  <2>6. LastSucceeded(meta'[p], a)
    BY <2>3, <2>5 DEF LastSucceeded
  <2>7. /\ Held(store', a) /\ store'.command_results[a] = store.command_results[a]
        /\ store'.approvals[a] = store.approvals[a]
        /\ ~corrupt' => store'.active_index[a] = pend[p].index
    <3>1. LineWritten(p) /\ pc[p] = "write"
      BY DEF Written
    <3>2. CASE store' = store /\ corrupt'
      BY <2>5, <3>2
    <3>3. CASE Accepts(store, pend[p]) /\ store' = Reduce(store, pend[p])
      <4>1. store'.status[a] = "PREPARED" /\ store'.active_index[a] = pend[p].index
            /\ store'.command_results[a] = store.command_results[a]
        BY <1>4, <3>1, <3>3, LineEffect, GoneOn, RunEffects DEF CommandEvents
      <4>2. store'.approvals = store.approvals
        <5>1. PICK s \in Store, e \in Event : s = store /\ e = pend[p] /\ e.type = "COMMAND_PREPARED"
          BY <1>4, <3>1, LineEffect
        <5>2. Reduce(s, e).approvals = s.approvals
          BY <5>1 DEF Reduce, Store
        <5> QED
          BY <3>3, <5>1, <5>2
      <4> QED
        BY <4>1, <4>2 DEF Held, Incomplete
    <3> QED
      BY <3>1, <3>2, <3>3, LineEffect
  <2>8. ArmedWell(p)'
    BY <2>3, <2>4, <2>5, <2>6, <2>7, GoneOn DEF ArmedWell
  <2> QED
    BY <1>0, <1>1, <2>1, <2>2, <2>8, GoneOn DEF Retains, Own, Reports
<1>5. pend[p].type # "FINISHED"
  BY DEF After
<1> QED
  BY <1>2, <1>3, <1>4, <1>5 DEF CommandEvents

\* An attempt that begins was nobody's before.
LEMMA PreparedChildren ==
    ASSUME IInv, IInv', CInv, NEW p \in Process, Written(p), pend[p].type = "PREPARED"
    PROVE  CInv'
<1>0. After(p) = "loop"
  BY DEF After
<1>1. Asked(p)' /\ \A types : ~Appending(p, types)'
  BY <1>0, AskedGoesOn
<1>2. ~Armed(p)' /\ ~Spawned(p)' /\ pc'[p] = "loop"
  BY <1>0, <1>1, GoneOn DEF Armed, Spawned
<1>3. Own(p)'
  BY <1>1, <1>2 DEF Own, ArmedWell, Reports
<1>4. DiskMoves(p) /\ UNCHANGED <<child, repo, age>> /\ \A q \in Process \ {p} : Same(q)
  BY <1>0, GoneOn
<1>5. \A q \in Process : Own(q)'
  BY <1>3, <1>4, LineOthers
<1>6. \A q \in Process \ {p} : /\ Engaged(q)' = Engaged(q) /\ call'[q] = call[q]
                               /\ Armed(q)' = Armed(q)
  BY <1>4 DEF Same, Engaged, Armed, Appending
<1>7. call'[p].attempt = call[p].attempt /\ pend[p].attempt = call[p].attempt
  BY <1>0, GoneOn
<1>8. Alone'
  <2>1. CASE corrupt'
    BY <1>2, <1>6, <2>1 DEF CInv, Alone
  <2>2. CASE ~corrupt'
    <3>1. /\ ~corrupt /\ store \in Store /\ pend[p] \in Event
          /\ Accepts(store, pend[p]) /\ store' = Reduce(store, pend[p])
      BY <2>2, LineEffect DEF Written
    <3>2. ~Attempted(store, call[p].attempt) /\ Attempted(store', call[p].attempt)
      BY <1>7, <3>1, RunEffects DEF Attempted
    <3>3. ASSUME NEW q \in Process \ {p}, Engaged(q)
          PROVE  /\ Attempted(store', call[q].attempt)
                 /\ call[q].attempt # call[p].attempt
      <4>1. Attempted(store, call[q].attempt) /\ call[q].attempt \in Attempts
        BY <3>1, <3>3, CallFacts DEF CInv, Alone, Engaged, Appending
      <4> QED
        BY <3>1, <3>2, <4>1, AttemptedKept
    <3> QED
      BY <1>6, <1>7, <3>1, <3>2, <3>3 DEF CInv, Alone
  <2> QED
    BY <2>1, <2>2
<1> QED
  BY <1>4, <1>5, <1>8, LineChildren DEF CInv

LEMMA WrittenChildren ==
    ASSUME IInv, IInv', CInv, NEW p \in Process, Written(p)
    PROVE  CInv'
<1>1. pc[p] = "write" /\ pc[p] # "idle" /\ DiskMoves(p) /\ UNCHANGED <<call, child, repo, age>>
  BY DEF Written, DiskMoves, world
<1>2. CASE After(p) = "close"
  BY <1>1, <1>2, ReturnRetains, RetainsKeeps DEF Written
<1>3. CASE After(p) # "close"
  <2>1. pend[p].type \in {"SEMANTIC_ASSESSED", "PREPARED"} \cup CommandEvents
    BY <1>3 DEF After, CommandEvents
  <2>2. CASE pend[p].type = "PREPARED"
    BY <2>2, PreparedChildren
  <2>3. CASE pend[p].type # "PREPARED"
    <3>1. Retains(p)
      BY <1>3, <2>1, <2>3, AssessedGoesOn, CommandGoesOn
    <3> QED
      BY <1>1, <3>1, RetainsKeeps
  <2> QED
    BY <2>2, <2>3
<1> QED
  BY <1>2, <1>3

-----------------------------------------------------------------------------
(* A child is started.                                                       *)

LEMMA ResultCommand ==
    ASSUME IInv, CInv, NEW a \in Attempts, NEW i \in 1..Len(store.command_results[a])
    PROVE  /\ <<a, i>> \in Commands /\ i \in Nat /\ i < NextIndex(store, a)
           /\ Tells(store.command_results[a][i], <<a, i>>, store.approvals[a].baseline)
<1>1. store.command_results[a] \in Seq(ResultStatus) /\ Len(store.command_results[a]) <= CommandCount[a]
  BY DEF IInv, DiskType, Store, CInv, Kept, Chained
<1>2. CommandCount[a] \in 1..16 /\ Len(store.command_results[a]) \in Nat
  BY <1>1, CommandCountAssumption DEF MaxCommands
<1>3. i \in 1..16 /\ i <= CommandCount[a]
  <2>1. PICK n \in Nat, m \in 1..16 : n = Len(store.command_results[a]) /\ m = CommandCount[a]
    BY <1>2
  <2>2. n <= m /\ i \in 1..n
    BY <1>1, <2>1
  <2> QED
    BY <2>1, <2>2, SMTT(60)
<1> QED
  BY <1>2, <1>3 DEF Commands, MaxCommands, NextIndex, CInv, ChildrenAgree

LEMMA SpawnFacts ==
    ASSUME IInv, CInv, NEW p \in Process, Spawn(p)
    PROVE  /\ Armed(p) /\ Engaged(p) /\ Current(p) \in Commands
           /\ Current(p) = <<call[p].attempt, NextIndex(store, call[p].attempt)>>
           /\ call[p].attempt \in Attempts
           /\ child[Current(p)].state = "none" /\ Len(repo) \in Nat \ {0}
           /\ store.approvals[call[p].attempt] = call[p].request
           /\ LastSucceeded(store, call[p].attempt) /\ Held(store, call[p].attempt)
           /\ ~corrupt => store.active_index[call[p].attempt] = Current(p)[2]
           /\ child' = [child EXCEPT ![Current(p)] =
                          [state |-> "alive", started |-> Len(repo), closed |-> 0]]
           /\ UNCHANGED <<store, corrupt, owner, repo, age, call, meta>> /\ Expired' = Expired
<1>1. pc[p] = "spawn" /\ Armed(p) /\ Engaged(p)
  BY DEF Spawn, Armed, Engaged
<1>2. call[p].attempt \in Attempts
  BY <1>1, CallFacts
<1>3. /\ Current(p) \in Commands /\ LastSucceeded(meta[p], call[p].attempt) /\ Held(store, call[p].attempt)
      /\ store.command_results[call[p].attempt] = meta[p].command_results[call[p].attempt]
      /\ child[Current(p)].state = "none"
      /\ store.approvals[call[p].attempt] = call[p].request
      /\ ~corrupt => store.active_index[call[p].attempt] = Current(p)[2]
  BY <1>1 DEF CInv, Own, ArmedWell
<1> QED
  BY <1>1, <1>2, <1>3, Repository DEF Spawn, disk, Current, NextIndex, LastSucceeded, IInv, WorldType, Expired

\* The inspection behind the result before, or for the first command the version the
\* request was prepared on, is the look that lets this command start.
LEMMA SpawnGated ==
    ASSUME IInv, IInv', CInv, NEW p \in Process, Spawn(p),
           OnVersion(call[p].request.baseline, 1, Len(repo))
    PROVE  Gated(Current(p), call[p].request.baseline)'
<1> DEFINE a == call[p].attempt
           c == Current(p)
           results == store.command_results[a]
           version == call[p].request.baseline
<1>1. /\ c \in Commands /\ c = <<a, Len(results) + 1>> /\ a \in Attempts
      /\ store.approvals[a].baseline = version
      /\ child'[c].started = Len(repo) /\ \A d \in Commands \ {c} : child'[d] = child[d]
      /\ repo' = repo /\ Current(p)' = c /\ call'[p] = call[p]
  <2>1. child \in [Commands -> Child] /\ c \in Commands
    BY SpawnFacts DEF IInv, WorldType
  <2>2. /\ child'[c] = [state |-> "alive", started |-> Len(repo), closed |-> 0]
        /\ \A d \in Commands \ {c} : child'[d] = child[d]
    BY <2>1, SpawnFacts
  <2>3. Current(p)' = c
    BY SpawnFacts DEF Current
  <2> QED
    BY <2>1, <2>2, <2>3, SpawnFacts DEF NextIndex
<1>2. Len(results) \in Nat /\ results \in Seq(ResultStatus)
  BY <1>1 DEF IInv, DiskType, Store
<1>3. CASE Len(results) = 0
  BY <1>1, <1>3 DEF Gated, Since, OnVersion
<1>4. CASE Len(results) # 0
  <2> DEFINE before == <<a, Len(results)>>
  <2>1. results[Len(results)] = "SUCCEEDED" /\ Len(results) \in 1..Len(results)
    BY <1>2, <1>4, SpawnFacts DEF LastSucceeded
  <2>2. before \in Commands /\ Tells("SUCCEEDED", before, version)
    BY <1>1, <2>1, ResultCommand
  <2>3. /\ child[before].state = "exit_0"
        /\ OnVersion(version, child[before].closed, Len(repo))
    BY <2>2 DEF Tells, Exits
  <2>4. /\ c[1] = a /\ c[2] = Len(results) + 1
        /\ c[2] - 1 = Len(results) /\ c[2] > 1 /\ before # c
    <3>1. PICK n \in Nat : n = Len(results) /\ n # 0
      BY <1>2, <1>4
    <3>2. PICK b : b = a
      OBVIOUS
    <3>3. c = <<b, n + 1>> /\ before = <<b, n>>
      BY <1>1, <3>1, <3>2
    <3>4. <<b, n>> # <<b, n + 1>> /\ n + 1 - 1 = n /\ n + 1 > 1
      BY <3>1
    <3> QED
      BY <3>1, <3>2, <3>3, <3>4
  <2>5. child'[before] = child[before]
    BY <1>1, <2>2, <2>4
  <2>6. <<c[1], c[2] - 1>> = before /\ c[2] # 1
    BY <1>2, <2>4
  <2>7. Since(c)' = child[before].closed /\ child'[before].state = "exit_0"
    BY <1>1, <2>3, <2>5, <2>6 DEF Since
  <2>8. OnVersion(version, Since(c), child[c].started)'
    BY <1>1, <2>3, <2>7 DEF OnVersion
  <2> QED
    BY <1>1, <2>2, <2>6, <2>7, <2>8 DEF Gated
<1> QED
  BY <1>3, <1>4

LEMMA SpawnChildren ==
    ASSUME IInv, IInv', CInv, NEW p \in Process, Spawn(p)
    PROVE  CInv'
<1> DEFINE c == Current(p)
           a == call[p].attempt
           started == [state |-> "alive", started |-> Len(repo), closed |-> 0]
<1>0. /\ child \in [Commands -> Child] /\ c \in Commands /\ c = <<a, NextIndex(store, a)>>
      /\ child'[c] = started /\ \A d \in Commands \ {c} : child'[d] = child[d]
  BY SpawnFacts DEF IInv, WorldType
<1>1. Later
  BY <1>0, SpawnFacts DEF Later, Alive
<1>2. Retains(p)
  <2> DEFINE event == CommandEvent(p, "COMMAND_STARTED")
  <2>1. pc[p] # "idle" /\ Submit(p, event)
    BY DEF Spawn
  <2>2. call[p].expired \subseteq Expired /\ OnVersion(call[p].request.baseline, 1, Len(repo))
    BY <2>1 DEF CInv, Own, Asked
  <2>3. Sound(p, event) /\ event.type = "COMMAND_STARTED"
    BY <2>2, CommandFields, SpawnFacts DEF Sound
  <2>4. Gated(c, call[p].request.baseline)'
    BY <2>2, SpawnGated
  <2> QED
    BY <1>0, <2>1, <2>3, <2>4, SubmitRetains, SpawnFacts
<1>3. ASSUME NEW q \in Process \ {p} PROVE Own(q)'
  <2>1. Same(q) /\ Own(q)
    BY <1>2 DEF Retains, CInv
  <2>2. ASSUME Armed(q)
        PROVE  /\ Held(store', call[q].attempt)
               /\ store'.approvals[call[q].attempt] = store.approvals[call[q].attempt]
               /\ store'.command_results[call[q].attempt] = store.command_results[call[q].attempt]
               /\ ~corrupt' => store'.active_index[call[q].attempt] = store.active_index[call[q].attempt]
               /\ child'[Current(q)].state = "none"
    <3>1. Current(q) \in Commands /\ child[Current(q)].state = "none" /\ Held(store, call[q].attempt)
      BY <2>1, <2>2 DEF Own, ArmedWell
    <3>2. call[q].attempt # a
      BY <2>2, ArmedEngaged, SpawnFacts DEF CInv, Alone
    <3>3. Current(q) # c
      BY <1>0, <3>2 DEF Current
    <3> QED
      BY <1>0, <3>1, <3>3, SpawnFacts
  <2> QED
    BY <1>1, <2>1, <2>2, FrameKeeps
<1>4. ChildrenAgree'
  <2>1. ASSUME NEW d \in Commands
        PROVE  (/\ child[d].state # "none" /\ ~corrupt => Known(store, d)
                /\ Alive(d) => Standing(store, d))'
    <3>1. CASE d # c
      BY <1>0, <2>1, <3>1, SpawnFacts DEF CInv, ChildrenAgree, Alive
    <3>2. CASE d = c
      <4>1. d[1] = a /\ d[2] = NextIndex(store, a)
        BY <1>0, <3>2
      <4>2. Standing(store, d)
        BY <4>1, SpawnFacts DEF Standing
      <4>3. ~corrupt => Known(store, d)
        BY <3>2, <4>1, SpawnFacts DEF Known, Held, Incomplete, Attempted
      <4> QED
        BY <1>0, <3>2, <4>2, <4>3, SpawnFacts
    <3> QED
      BY <3>1, <3>2
  <2>2. ASSUME NEW b \in Attempts, NEW i \in 1..Len(store.command_results[b])
        PROVE  Tells(store.command_results[b][i], <<b, i>>, store.approvals[b].baseline)'
    <3>1. PICK d \in Commands, status \in {store.command_results[b][i]},
               version \in {store.approvals[b].baseline} : d = <<b, i>>
      BY ResultCommand
    <3>2. Tells(status, d, version)
      BY <3>1, ResultCommand
    <3>3. Tells(status, d, version)'
      BY <1>1, <3>2, TellsLater
    <3> QED
      BY <3>1, <3>3, SpawnFacts DEF Tells, Exits, Gated, Since, OnVersion
  <2> QED
    BY <2>1, <2>2, SpawnFacts DEF ChildrenAgree
<1>5. Alone'
  BY <1>2, RetainsAlone, SpawnFacts DEF DiskMoves
<1>6. Kept(store, Expired)'
  BY SpawnFacts DEF CInv
<1> QED
  BY <1>2, <1>3, <1>4, <1>5, <1>6 DEF CInv, Retains

-----------------------------------------------------------------------------
(* The environment, which no invocation notices.                             *)

LEMMA WorldChildren ==
    ASSUME IInv, IInv', CInv, Later, UNCHANGED <<store, corrupt, session>>,
           \A c \in Commands : /\ child[c].state = "none" => child'[c] = child[c]
                               /\ Alive(c)' => Alive(c)
    PROVE  CInv'
<1>0. Expired \subseteq Expired' /\ child \in [Commands -> Child]
  BY DEF IInv, WorldType, Later
<1>1. Kept(store, Expired)'
  BY <1>0, ApartLater DEF CInv, Kept
<1>2. ChildrenAgree'
  <2>1. ASSUME NEW c \in Commands
        PROVE  (/\ child[c].state # "none" /\ ~corrupt => Known(store, c)
                /\ Alive(c) => Standing(store, c))'
    <3>1. child'[c].state # "none" => child[c].state # "none"
      BY <2>1
    <3> QED
      BY <1>0, <2>1, <3>1 DEF CInv, ChildrenAgree
  <2>2. ASSUME NEW a \in Attempts, NEW i \in 1..Len(store.command_results[a])
        PROVE  Tells(store.command_results[a][i], <<a, i>>, store.approvals[a].baseline)'
    <3>1. PICK c \in Commands, status \in {store.command_results[a][i]},
               version \in {store.approvals[a].baseline} : c = <<a, i>>
      BY ResultCommand
    <3>2. Tells(status, c, version)
      BY <3>1, ResultCommand
    <3>3. Tells(status, c, version)'
      BY <3>2, TellsLater
    <3> QED
      BY <3>1, <3>3 DEF Tells, Exits, Gated, Since, OnVersion
  <2> QED
    BY <2>1, <2>2 DEF ChildrenAgree
<1>3. ASSUME NEW q \in Process PROVE Own(q)'
  <2>1. Same(q) /\ Own(q)
    BY DEF Same, session, CInv
  <2>2. Armed(q) => /\ Held(store', call[q].attempt)
                    /\ child'[Current(q)].state = "none"
    BY <2>1 DEF Own, ArmedWell
  <2> QED
    BY <2>1, <2>2, FrameKeeps
<1>4. Alone'
  BY DEF CInv, Alone, Engaged, Armed, Appending, session
<1> QED
  BY <1>1, <1>2, <1>3, <1>4 DEF CInv

LEMMA EnvironmentChildren ==
    ASSUME IInv, IInv', CInv, Environment \/ (\E p \in Process : BeginFailed(p)) \/ UNCHANGED vars
    PROVE  CInv'
<1>0. child \in [Commands -> Child] /\ Len(repo) \in Nat \ {0} /\ repo \in Seq(Nat) /\ age \in [Attempts -> 0..2]
  BY DEF IInv, WorldType
<1>1. CASE OperatorRemovesOwner \/ (\E p \in Process : BeginFailed(p)) \/ UNCHANGED vars
  <2>1. UNCHANGED <<store, corrupt, session, child, repo, age>>
    BY <1>1 DEF OperatorRemovesOwner, BeginFailed, vars, session, world
  <2>2. Later
    BY <1>0, <2>1 DEF Later, Expired
  <2> QED
    BY <2>1, <2>2, WorldChildren DEF Alive
<1>2. CASE ChildCloses
  <2>1. UNCHANGED <<store, corrupt, session, repo, age>>
    BY <1>2 DEF ChildCloses, disk
  <2>2. PICK c \in Commands, state \in {"exit_0", "exit_nonzero"} :
          Alive(c) /\ child' = [child EXCEPT ![c].state = state, ![c].closed = Len(repo)]
    BY <1>2 DEF ChildCloses
  <2>3. /\ child'[c].state = state /\ child'[c].started = child[c].started
        /\ \A d \in Commands \ {c} : child'[d] = child[d]
    BY <1>0, <2>2 DEF Child
  <2>4. Later
    BY <1>0, <2>1, <2>2, <2>3 DEF Later, Expired, Alive
  <2> QED
    BY <2>1, <2>2, <2>3, <2>4, WorldChildren DEF Alive
<1>3. CASE Edit
  <2>1. /\ UNCHANGED <<store, corrupt, session, child, age>>
        /\ \E version \in Nat : repo' = Append(repo, version)
    BY <1>3 DEF Edit, disk
  <2>2. Len(repo) <= Len(repo') /\ \A k \in 1..Len(repo) : repo'[k] = repo[k]
    BY <1>0, <2>1
  <2>3. Later
    BY <1>0, <2>1, <2>2 DEF Later, Expired
  <2> QED
    BY <2>1, <2>3, WorldChildren DEF Alive
<1>4. CASE ApprovalAges
  <2>1. UNCHANGED <<store, corrupt, session, child, repo>>
    BY <1>4 DEF ApprovalAges, disk
  <2>2. Expired \subseteq Expired'
    <3>1. PICK a \in Attempts : age[a] < MaxAge /\ age' = [age EXCEPT ![a] = age[a] + 1]
      BY <1>4 DEF ApprovalAges
    <3>2. age[a] # 2
      BY <1>0, <3>1, BoundAssumption
    <3> QED
      BY <1>0, <3>1, <3>2 DEF Expired
  <2>3. Later
    BY <1>0, <2>1, <2>2 DEF Later
  <2> QED
    BY <2>1, <2>3, WorldChildren DEF Alive
<1> QED
  BY <1>1, <1>2, <1>3, <1>4 DEF Environment

-----------------------------------------------------------------------------
LEMMA InitCInv == Init => CInv
<1> SUFFICES ASSUME Init PROVE CInv
  OBVIOUS
<1>1. Kept(store, Expired)
  BY InitialKept DEF Init
<1>2. ChildrenAgree
  <2>1. \A c \in Commands : child[c].state = "none"
    BY DEF Init, NoChild
  <2>2. \A a \in Attempts : store.command_results[a] = << >>
    BY DEF Init, InitialStore
  <2> QED
    BY <2>1, <2>2 DEF ChildrenAgree, Alive
<1>3. ASSUME NEW p \in Process PROVE Own(p)
  BY InitialKept DEF Init, Own, Asked, ArmedWell, Reports, Engaged, Armed, Spawned, Appending, Kept
<1>4. Alone
  BY DEF Init, Alone, Engaged, Appending
<1> QED
  BY <1>1, <1>2, <1>3, <1>4 DEF CInv

LEMMA NextCInv == IInv /\ IInv' /\ CInv /\ [Next]_vars => CInv'
<1> SUFFICES ASSUME IInv, IInv', CInv, [Next]_vars PROVE CInv'
  OBVIOUS
<1>1. ASSUME NEW p \in Process, Step(p) PROVE CInv'
  BY <1>1, ReadChildren, LeaveChildren, CheckedChildren, FailingChildren, WrittenChildren,
     DecideChildren, DispatchChildren, EvidenceChildren, SpawnChildren, ResolveChildren,
     InspectChildren DEF Step
<1>2. ASSUME NEW p \in Process, BeginApprove(p) \/ BeginRun(p) \/ BeginRecover(p) \/ Crash(p)
      PROVE  CInv'
  BY <1>2, BeginChildren, LeaveChildren
<1>3. ASSUME NEW p \in Process, BeginFailed(p) PROVE CInv'
  BY <1>3, EnvironmentChildren
<1> QED
  BY <1>1, <1>2, <1>3, EnvironmentChildren DEF Next

THEOREM ChildrenInvariance == Spec => [](IInv /\ CInv)
BY InitIInv, NextIInv, InitCInv, NextCInv, PTL DEF Spec

\* A journal that can be read knows of every command process, however often the operator
\* removed the owner directory of an invocation that was alive.
THEOREM IntentsAreDurable == Spec => []IntentIsDurable
<1>1. CInv => IntentIsDurable
  BY DEF CInv, ChildrenAgree, Known, IntentIsDurable
<1> QED
  BY <1>1, ChildrenInvariance, PTL

\* No two command processes run at a time: each stands where the journal stands in the one
\* attempt that holds the task slot.
THEOREM OneLiveChild == Spec => []AtMostOneLiveChild
<1>1. ASSUME IInv, CInv PROVE AtMostOneLiveChild
  <2>1. SUFFICES ASSUME NEW c \in Commands, NEW d \in Commands, Alive(c), Alive(d) PROVE c = d
    BY DEF AtMostOneLiveChild
  <2>2. Standing(store, c) /\ Standing(store, d)
    BY <1>1, <2>1 DEF CInv, ChildrenAgree
  <2>3. /\ c = <<c[1], c[2]>> /\ d = <<d[1], d[2]>> /\ c[1] \in Attempts /\ d[1] \in Attempts
    BY CommandType
  <2>4. c[1] = d[1]
    BY <1>1, <2>2, <2>3 DEF Standing, IInv, Journal, SlotAgrees
  <2>5. c[2] = d[2]
    BY <2>2, <2>4 DEF Standing, LastSucceeded, LastIs
  <2> QED
    BY <2>3, <2>4, <2>5
<1> QED
  BY <1>1, ChildrenInvariance, PTL

\* A recorded result is what the child did, recorded on a look at the repository that
\* found the approved version after the child had closed, however often it was changed
\* and changed back; and the next command is started only after such a look.
THEOREM ResultsAreObserved == Spec => []ResultsObserved
<1>1. ASSUME IInv, CInv PROVE ResultsObserved
  <2>1. SUFFICES ASSUME NEW a \in Attempts
                 PROVE  LET results == store.command_results[a]
                            version == store.approvals[a].baseline
                            observed(i, exit) ==
                              LET c == <<a, i>>
                              IN  /\ child[c].state = exit
                                  /\ OnVersion(version, Since(c), child[c].started)
                                  /\ OnVersion(version, child[c].closed, Len(repo))
                        IN  /\ \A i \in 1..Len(results) :
                                 /\ results[i] = "SUCCEEDED" => observed(i, "exit_0")
                                 /\ results[i] = "FAILED" => observed(i, "exit_nonzero")
                            /\ store.status[a] = "SUCCEEDED" =>
                                 \A i \in 1..CommandCount[a] : observed(i, "exit_0")
    BY DEF ResultsObserved
  <2>2. \A i \in 1..Len(store.command_results[a]) :
          Tells(store.command_results[a][i], <<a, i>>, store.approvals[a].baseline)
    BY <1>1 DEF CInv, ChildrenAgree
  <2>3. store.status[a] = "SUCCEEDED" =>
          /\ Len(store.command_results[a]) = CommandCount[a]
          /\ \A i \in 1..CommandCount[a] : store.command_results[a][i] = "SUCCEEDED"
    BY <1>1 DEF CInv, Kept, Chained
  <2> QED
    BY <2>2, <2>3 DEF Tells, Exits, Gated
<1> QED
  BY <1>1, ChildrenInvariance, PTL

\* No command is started twice, and none before those declared ahead of it have closed with
\* exit code 0.
THEOREM CommandsStartInOrder == Spec => StartedOnceInOrder
<1>1. ASSUME IInv, CInv, NEW p \in Process, Spawn(p)
      PROVE  /\ child[Current(p)].state = "none"
             /\ \A i \in 1..(Current(p)[2] - 1) : child[<<Current(p)[1], i>>].state = "exit_0"
  <2> DEFINE a == call[p].attempt
             results == store.command_results[a]
  <2>1. /\ a \in Attempts /\ Current(p) = <<a, Len(results) + 1>> /\ LastSucceeded(store, a)
        /\ child[Current(p)].state = "none"
    BY <1>1, SpawnFacts DEF NextIndex
  <2>2. Len(results) \in Nat /\ \A i \in 1..(Len(results) - 1) : results[i] = "SUCCEEDED"
    <3>1. results \in Seq(ResultStatus) /\ Chained(store, a)
      BY <1>1, <2>1 DEF IInv, DiskType, Store, CInv, Kept
    <3> QED
      BY <3>1 DEF Chained
  <2>3. \A i \in 1..Len(results) : results[i] = "SUCCEEDED"
    BY <1>1, <2>1, <2>2 DEF LastSucceeded, IInv, DiskType, Store
  <2>4. \A i \in 1..Len(results) : Tells(results[i], <<a, i>>, store.approvals[a].baseline)
    BY <1>1, <2>1, ResultCommand
  <2>5. \A i \in 1..Len(results) : child[<<a, i>>].state = "exit_0"
    BY <2>3, <2>4 DEF Tells, Exits
  <2>6. Current(p)[1] = a /\ Current(p)[2] - 1 = Len(results)
    BY <2>1, <2>2
  <2> QED
    BY <2>1, <2>5, <2>6
<1>2. IInv /\ CInv =>
        \A p \in Process : Spawn(p) =>
          /\ child[Current(p)].state = "none"
          /\ \A i \in 1..(Current(p)[2] - 1) : child[<<Current(p)[1], i>>].state = "exit_0"
  BY <1>1
<1> QED
  BY <1>2, ChildrenInvariance, PTL DEF StartedOnceInOrder

\* The journal moves by the lines that invocations write.
LEMMA StoreMoves ==
    ASSUME [Next]_vars, store' # store
    PROVE  \E p \in Process : pc[p] = "write" /\ LineWritten(p) /\ child' = child
<1>1. ASSUME NEW p \in Process, Step(p)
      PROVE  store' = store \/ (pc[p] = "write" /\ LineWritten(p) /\ child' = child)
  <2>1. CASE Written(p) \/ WrittenUnacknowledged(p)
    BY <2>1 DEF Written, WrittenUnacknowledged, world
  <2>2. CASE ReadStore(p) \/ ReadCorrupt(p) \/ Close(p) \/ Checked(p) \/ AppendRefused(p) \/ WrittenInPart(p)
    BY <2>2 DEF ReadStore, ReadCorrupt, Close, Checked, AppendRefused, WrittenInPart, disk
  <2>3. CASE \/ ApproveRefused(p) \/ Approve(p) \/ Recover(p)
             \/ RunRejected(p) \/ RunReplayed(p) \/ RunBlocked(p) \/ RunAssessed(p)
    BY <2>3 DEF ApproveRefused, Approve, Recover, RunRejected, RunReplayed, RunBlocked, RunAssessed, disk
  <2>4. CASE \/ Dispatch(p) \/ DispatchRefused(p)
             \/ PrepareCommand(p) \/ CommandRefused(p) \/ Finish(p)
    BY <2>4 DEF Dispatch, DispatchRefused, PrepareCommand, CommandRefused, Finish, disk
  <2>5. CASE \/ Evidence(p) \/ EvidenceOwnerLost(p) \/ EvidenceFailed(p) \/ Spawn(p) \/ NotSpawned(p)
             \/ Resolve(p) \/ Inspect(p) \/ InspectFailed(p) \/ Drain(p)
    BY <2>5 DEF Evidence, EvidenceOwnerLost, EvidenceFailed, Spawn, NotSpawned, Resolve, Inspect,
       InspectFailed, Drain, disk
  <2> QED
    BY <1>1, <2>1, <2>2, <2>3, <2>4, <2>5 DEF Step
<1>2. ASSUME NEW p \in Process,
             BeginApprove(p) \/ BeginRun(p) \/ BeginRecover(p) \/ BeginFailed(p) \/ Crash(p)
      PROVE  store' = store
  BY <1>2 DEF BeginApprove, BeginRun, BeginRecover, BeginFailed, Begin, Crash
<1>3. Environment \/ UNCHANGED vars => store' = store
  BY DEF Environment, OperatorRemovesOwner, ChildCloses, Edit, ApprovalAges, disk, vars
<1> QED
  BY <1>1, <1>2, <1>3 DEF Next

\* An attempt begins only while no other usable approval touches the same interfaces, however
\* long ago either of them was assessed.
THEOREM DispatchesDoNotOverlap == Spec => NoOverlappingDispatch
<1>1. ASSUME IInv, CInv, [Next]_vars, NEW a \in Attempts, ~Attempted(store, a), Attempted(store', a)
      PROVE  NonOverlapping(store, a, Expired)
  <2>1. PICK p \in Process : pc[p] = "write" /\ LineWritten(p)
    BY <1>1, StoreMoves
  <2>2. /\ pend[p] \in Event /\ store \in Store /\ meta[p] = store
        /\ Accepts(store, pend[p]) /\ store' = Reduce(store, pend[p])
    BY <1>1, <2>1, LineEffect
  <2>3. a = pend[p].attempt /\ pend[p].type \in CommandEvents \cup {"PREPARED"}
    BY <1>1, <2>2, EventTouches DEF Untouched
  <2>4. pend[p].type = "PREPARED"
    BY <1>1, <2>2, <2>3, RunEffects DEF Attempted, Incomplete
  <2>5. pend[p].attempt = call[p].attempt /\ NonOverlapping(meta[p], call[p].attempt, Expired)
    BY <1>1, <2>1, <2>4 DEF CInv, Own, Asked, Appending
  <2> QED
    BY <2>2, <2>3, <2>5
<1>2. IInv /\ CInv /\ [Next]_vars =>
        \A a \in Attempts : ~Attempted(store, a) /\ Attempted(store', a) =>
          NonOverlapping(store, a, Expired)
  BY <1>1
<1> QED
  BY <1>2, ChildrenInvariance, PTL DEF Spec, NoOverlappingDispatch
=============================================================================
