--------------------------- MODULE ExclusionProofs ---------------------------
(***************************************************************************)
(* What holds of the Controller while the operator removes no owner        *)
(* directory of an invocation that is alive, for any number of attempts,   *)
(* commands and invocations, crashes and failing writes.                   *)
(*                                                                         *)
(* The argument: the owner directory is that of the one invocation under   *)
(* way, so what its session remembers is the journal, and every event of a *)
(* run finds the journal where the reducer accepts it.                     *)
(***************************************************************************)
EXTENDS ControllerProofs, FiniteSetTheorems

\* One invocation is under way at most.
Exclusive ==
    /\ mistakes = 0
    /\ \A p \in Process : pc[p] # "idle" => owner = p

\* Where the journal stands while an invocation runs a command.
AtLoop(s, a) == InProgress(s, a) /\ s.active_index[a] = NoIndex
AtCommand(s, a, status) ==
    /\ InProgress(s, a)
    /\ s.status[a] = status
    /\ s.active_index[a] = NextIndex(s, a)

\* An invocation that reads and writes the journal remembers it as it is.
Remembers(p) ==
    pc[p] \in {"decide", "dispatch", "append", "write", "loop", "evidence", "spawn",
               "running", "inspect"} => ~corrupt /\ meta[p] = store

InTurn(p) ==
    LET a == call[p].attempt
    IN  /\ pc[p] = "dispatch" => ~Attempted(store, a)
        /\ pc[p] = "loop" => AtLoop(store, a)
        /\ pc[p] \in {"evidence", "spawn"} => AtCommand(store, a, "PREPARED")
        /\ pc[p] \in {"running", "inspect"} => AtCommand(store, a, "RUNNING")
        /\ pc[p] \in {"append", "write"} /\ pend[p].type \in RunEvents => Accepts(store, pend[p])

Honest(p) ==
    pc[p] = "close" /\ call[p].op = "run" =>
      /\ outcome[p] \in {"SUCCEEDED", "FAILED"} => store.status[call[p].attempt] = outcome[p]
      /\ outcome[p] = "BLOCKED" /\ ~corrupt => ~Attempted(store, call[p].attempt)

Orderly(p) == Remembers(p) /\ InTurn(p) /\ Honest(p)

XInv == Exclusive /\ \A p \in Process : Orderly(p)

-----------------------------------------------------------------------------
(* What accepted events do to the attempt that is run.                       *)

LEMMA AcceptedRun ==
    ASSUME NEW s \in Store, NEW e \in Event, Accepts(s, e)
    PROVE  /\ e.type \in CommandEvents => InProgress(s, e.attempt)
           /\ e.type = "PREPARED" => AcceptsPrepared(s, e)
           /\ e.type = "SEMANTIC_ASSESSED" => AcceptsSemanticAssessed(s, e)
           /\ e.type = "APPROVED" => AcceptsApproved(s, e)
           /\ e.type = "RECOVERED" => Pending(s) # {}
<1>1. CASE AcceptsSemanticAssessed(s, e) \/ AcceptsApproved(s, e)
  BY <1>1 DEF AcceptsSemanticAssessed, AcceptsApproved, CommandEvents
<1>2. CASE AcceptsPrepared(s, e) \/ AcceptsRecovered(s, e)
  BY <1>2 DEF AcceptsPrepared, AcceptsRecovered, CommandEvents
<1>3. CASE AcceptsCommandPrepared(s, e) \/ AcceptsCommandStarted(s, e)
  BY <1>3 DEF AcceptsCommandPrepared, AcceptsCommandStarted
<1>4. CASE AcceptsCommandFinished(s, e) \/ AcceptsFinished(s, e)
  BY <1>4 DEF AcceptsCommandFinished, AcceptsFinished
<1> QED
  BY <1>1, <1>2, <1>3, <1>4 DEF Accepts

LEMMA TurnEffects ==
    ASSUME NEW s \in Store, NEW e \in Event, Accepts(s, e), Chained(s, e.attempt)
    PROVE  LET t == Reduce(s, e)
               a == e.attempt
           IN  /\ e.type = "SEMANTIC_ASSESSED" => ~Attempted(t, a)
               /\ e.type \in {"PREPARED", "COMMAND_FINISHED"} => AtLoop(t, a)
               /\ e.type = "COMMAND_PREPARED" => AtCommand(t, a, "PREPARED")
               /\ e.type = "COMMAND_STARTED" => AtCommand(t, a, "RUNNING")
               /\ e.type = "FINISHED" => t.status[a] = e.status
<1> DEFINE t == Reduce(s, e)
           a == e.attempt
<1>0. a \in Attempts
  BY DEF Event
<1>1. CASE e.type = "SEMANTIC_ASSESSED"
  <2>1. ~Attempted(s, a)
    BY <1>1, AcceptedRun DEF AcceptsSemanticAssessed
  <2>2. t.status = s.status
    BY <1>1 DEF Reduce, SemanticAssessed, Store
  <2> QED
    BY <1>1, <2>1, <2>2 DEF Attempted
<1>2. CASE e.type = "PREPARED"
  <2>1. ~Attempted(s, a) /\ ~s.recovery_required /\ s.active_index[a] = NoIndex
    BY <1>2, AcceptedRun DEF AcceptsPrepared, Chained, Attempted
  <2>2. t.reservation = TRUE /\ t.recovery_required = s.recovery_required
    BY <1>2 DEF Reduce, Store
  <2>3. t.status[a] = "PREPARED" /\ t.active_index[a] = s.active_index[a]
    BY <1>2, RunEffects
  <2> QED
    BY <1>2, <2>1, <2>2, <2>3 DEF AtLoop, InProgress, Incomplete, CommandEvents
<1>3. CASE e.type \in {"COMMAND_PREPARED", "COMMAND_STARTED", "COMMAND_FINISHED"}
  <2>1. InProgress(s, a)
    BY <1>3, AcceptedRun DEF CommandEvents
  <2>2. t.reservation = s.reservation /\ t.recovery_required = s.recovery_required
    BY <1>3 DEF Reduce, Store
  <2>3. CASE e.type = "COMMAND_PREPARED"
    BY <2>1, <2>2, <2>3, RunEffects DEF AtCommand, InProgress, Incomplete, CommandEvents, NextIndex
  <2>4. CASE e.type = "COMMAND_STARTED"
    <3>1. s.active_index[a] = NextIndex(s, a)
      BY <2>4, AcceptedRun DEF Accepts, AcceptsSemanticAssessed, AcceptsApproved, AcceptsPrepared,
         AcceptsRecovered, AcceptsCommandPrepared, AcceptsCommandStarted, AcceptsCommandFinished,
         AcceptsFinished
    <3> QED
      BY <2>1, <2>2, <2>4, <3>1, RunEffects DEF AtCommand, InProgress, Incomplete, CommandEvents, NextIndex
  <2>5. CASE e.type = "COMMAND_FINISHED"
    BY <2>1, <2>2, <2>5, RunEffects DEF AtLoop, InProgress, Incomplete, CommandEvents
  <2> QED
    BY <1>3, <2>3, <2>4, <2>5
<1>4. CASE e.type = "FINISHED"
  BY <1>4, RunEffects DEF CommandEvents
<1>5. CASE e.type \in {"APPROVED", "RECOVERED"}
  BY <1>5
<1> QED
  BY <1>1, <1>2, <1>3, <1>4, <1>5 DEF Event

-----------------------------------------------------------------------------
(* The shapes of a step of the one invocation.                               *)

LEMMA OneSteps ==
    ASSUME XInv, NEW p \in Process, pc[p] # "idle", UNCHANGED <<owner, mistakes>>,
           \A q \in Process \ {p} : Same(q), Orderly(p)'
    PROVE  XInv'
<1>1. \A q \in Process \ {p} : pc'[q] = "idle"
  BY DEF XInv, Exclusive, Same
<1>2. Exclusive'
  BY <1>1 DEF XInv, Exclusive
<1>3. \A q \in Process \ {p} : Orderly(q)'
  BY <1>1 DEF Orderly, Remembers, InTurn, Honest
<1> QED
  BY <1>2, <1>3 DEF XInv

LEMMA ReturnOrderly ==
    ASSUME IInv, NEW p \in Process, NEW receipt, Return(p, receipt), UNCHANGED call,
           call[p].op = "run" =>
             /\ receipt \in {"SUCCEEDED", "FAILED"} => store'.status[call[p].attempt] = receipt
             /\ receipt = "BLOCKED" /\ ~corrupt' => ~Attempted(store', call[p].attempt)
    PROVE  Orderly(p)' /\ \A q \in Process \ {p} : Same(q)
<1>1. /\ pc'[p] = "close" /\ outcome'[p] = receipt /\ call'[p] = call[p]
      /\ \A q \in Process \ {p} : Same(q)
  BY DEF IInv, SessionsAgree, SessionType, Return, Goto, Same
<1> QED
  BY <1>1 DEF Orderly, Remembers, InTurn, Honest

LEMMA SubmitOrderly ==
    ASSUME IInv, NEW p \in Process, NEW event, Submit(p, event), UNCHANGED <<call, meta, store, corrupt>>,
           ~corrupt, meta[p] = store,
           event.type \in RunEvents => Accepts(store, event)
    PROVE  Orderly(p)' /\ \A q \in Process \ {p} : Same(q)
<1>1. /\ pc'[p] = "append" /\ pend'[p] = event /\ meta'[p] = meta[p]
      /\ \A q \in Process \ {p} : Same(q)
  BY DEF IInv, SessionsAgree, SessionType, Submit, Goto, Same
<1> QED
  BY <1>1 DEF Orderly, Remembers, InTurn, Honest

LEMMA FailOrderly ==
    ASSUME IInv, NEW p \in Process, Fail(p), UNCHANGED call
    PROVE  Orderly(p)' /\ \A q \in Process \ {p} : Same(q)
<1>1. CASE pend[p].type = "COMMAND_STARTED"
  <2>1. pc'[p] = "drain" /\ \A q \in Process \ {p} : Same(q)
    BY <1>1 DEF IInv, SessionsAgree, SessionType, Fail, Goto, Same
  <2> QED
    BY <2>1 DEF Orderly, Remembers, InTurn, Honest
<1>2. CASE pend[p].type # "COMMAND_STARTED"
  <2>1. PICK receipt \in {"RECOVERY_REQUIRED", "none"} : Return(p, receipt)
    BY <1>2 DEF Fail
  <2> QED
    BY <2>1, ReturnOrderly
<1> QED
  BY <1>1, <1>2

-----------------------------------------------------------------------------
(* Entering and leaving                                                      *)

LEMMA EnterExclusive ==
    ASSUME IInv, XInv, NEW p \in Process, BeginApprove(p) \/ BeginRun(p) \/ BeginRecover(p)
    PROVE  XInv'
<1>1. PICK op, a, request, expired : Begin(p, op, a, request, expired)
  BY DEF BeginApprove, BeginRun, BeginRecover
<1>2. /\ owner = NoOwner /\ owner' = p /\ mistakes' = mistakes /\ pc'[p] = "read"
      /\ \A q \in Process \ {p} : pc'[q] = pc[q]
  BY <1>1 DEF IInv, SessionsAgree, SessionType, Begin, Goto, world
<1>3. \A q \in Process \ {p} : pc'[q] = "idle"
  BY <1>2, OwnerAssumption DEF XInv, Exclusive
<1>4. Exclusive'
  BY <1>2, <1>3 DEF XInv, Exclusive
<1>5. \A q \in Process : Orderly(q)'
  BY <1>2, <1>3 DEF Orderly, Remembers, InTurn, Honest
<1> QED
  BY <1>4, <1>5 DEF XInv

\* An owner directory that could not be made all of is nobody's.
LEMMA BeginFailedExclusive ==
    ASSUME IInv, XInv, NEW p \in Process, BeginFailed(p)
    PROVE  XInv'
<1>1. /\ owner = NoOwner /\ owner' = DeadOwner
      /\ UNCHANGED <<store, corrupt, mistakes, pc, call, meta, pend, outcome>>
  BY DEF BeginFailed, world, session
<1>2. \A q \in Process : pc'[q] = "idle"
  BY <1>1, OwnerAssumption DEF XInv, Exclusive
<1>3. Exclusive'
  BY <1>1, <1>2 DEF XInv, Exclusive
<1>4. \A q \in Process : Orderly(q)'
  BY <1>2 DEF Orderly, Remembers, InTurn, Honest
<1> QED
  BY <1>3, <1>4 DEF XInv

LEMMA LeaveExclusive ==
    ASSUME IInv, XInv, NEW p \in Process, Close(p) \/ Crash(p)
    PROVE  XInv'
<1>1. /\ pc[p] # "idle" /\ mistakes' = mistakes /\ pc'[p] = "idle"
      /\ \A q \in Process \ {p} : pc'[q] = pc[q]
  BY DEF IInv, SessionsAgree, SessionType, Close, Crash, Forget, Goto, world
<1>2. \A q \in Process : pc'[q] = "idle"
  BY <1>1 DEF XInv, Exclusive
<1>3. Exclusive'
  BY <1>1, <1>2 DEF XInv, Exclusive
<1>4. \A q \in Process : Orderly(q)'
  BY <1>2 DEF Orderly, Remembers, InTurn, Honest
<1> QED
  BY <1>3, <1>4 DEF XInv

LEMMA WorldExclusive ==
    ASSUME XInv, MaxMistakes = 0, Environment \/ UNCHANGED vars
    PROVE  XInv'
<1>1. UNCHANGED <<store, corrupt, pc, call, meta, pend, outcome>>
  BY DEF Environment, OperatorRemovesOwner, ChildCloses, Edit, ApprovalAges, disk, session, vars
<1>2. Exclusive'
  <2>1. CASE OperatorRemovesOwner
    <3>1. owner = DeadOwner /\ mistakes' = mistakes
      BY <2>1 DEF OperatorRemovesOwner, XInv, Exclusive
    <3>2. \A p \in Process : pc[p] = "idle"
      BY <3>1, OwnerAssumption DEF XInv, Exclusive
    <3> QED
      BY <1>1, <3>1, <3>2 DEF XInv, Exclusive
  <2>2. CASE ~OperatorRemovesOwner
    <3>1. UNCHANGED <<owner, mistakes>>
      BY <2>2 DEF Environment, ChildCloses, Edit, ApprovalAges, disk, vars
    <3> QED
      BY <1>1, <3>1 DEF XInv, Exclusive
  <2> QED
    BY <2>1, <2>2
<1>3. ASSUME NEW p \in Process PROVE Orderly(p)'
  <2>1. Orderly(p)
    BY DEF XInv
  <2> QED
    BY <1>1, <2>1 DEF Orderly, Remembers, InTurn, Honest
<1> QED
  BY <1>2, <1>3 DEF XInv

-----------------------------------------------------------------------------
(* Reading and deciding                                                      *)

LEMMA ReadExclusive ==
    ASSUME IInv, XInv, NEW p \in Process, ReadStore(p) \/ ReadCorrupt(p)
    PROVE  XInv'
<1>1. CASE ReadStore(p)
  <2>1. /\ pc[p] # "idle" /\ UNCHANGED <<owner, mistakes, store, corrupt>> /\ ~corrupt
        /\ pc'[p] = "decide" /\ meta'[p] = store
        /\ \A q \in Process \ {p} : Same(q)
    BY <1>1 DEF IInv, SessionsAgree, SessionType, ReadStore, Goto, Same, disk, world
  <2>2. Orderly(p)'
    BY <2>1 DEF Orderly, Remembers, InTurn, Honest
  <2> QED
    BY <2>1, <2>2, OneSteps
<1>2. CASE ReadCorrupt(p)
  <2>1. /\ pc[p] # "idle" /\ UNCHANGED <<owner, mistakes, corrupt, call>> /\ corrupt
    BY <1>2 DEF ReadCorrupt, disk, world
  <2>2. PICK receipt \in {"BLOCKED", "none"} : Return(p, receipt)
    BY <1>2 DEF ReadCorrupt
  <2>3. Orderly(p)' /\ \A q \in Process \ {p} : Same(q)
    BY <2>1, <2>2, ReturnOrderly
  <2> QED
    BY <2>1, <2>3, OneSteps
<1> QED
  BY <1>1, <1>2

LEMMA DecideExclusive ==
    ASSUME IInv, XInv, NEW p \in Process,
           \/ ApproveRefused(p) \/ Approve(p) \/ Recover(p)
           \/ RunRejected(p) \/ RunReplayed(p) \/ RunBlocked(p) \/ RunAssessed(p)
    PROVE  XInv'
<1>0. /\ pc[p] = "decide" /\ pc[p] # "idle" /\ UNCHANGED <<call, owner, mistakes, store, corrupt>>
      /\ ~corrupt /\ meta[p] = store
  <2>1. pc[p] = "decide" /\ UNCHANGED <<disk, world, call>>
    BY DEF ApproveRefused, Approve, Recover, RunRejected, RunReplayed, RunBlocked, RunAssessed, Deciding
  <2> QED
    BY <2>1 DEF XInv, Orderly, Remembers, disk, world
<1>1. CASE \/ ApproveRefused(p) \/ RunRejected(p) \/ RunReplayed(p) \/ RunBlocked(p)
           \/ (Recover(p) /\ Pending(meta[p]) = {})
  <2>1. PICK receipt :
          /\ Return(p, receipt)
          /\ call[p].op = "run" =>
               /\ receipt \in {"SUCCEEDED", "FAILED"} => store.status[call[p].attempt] = receipt
               /\ receipt = "BLOCKED" => ~Attempted(store, call[p].attempt)
    <3>1. CASE ApproveRefused(p)
      BY <3>1 DEF ApproveRefused
    <3>2. CASE RunRejected(p) \/ (Recover(p) /\ Pending(meta[p]) = {})
      <4>1. Return(p, "none")
        BY <3>2 DEF RunRejected, Recover
      <4> QED
        BY <4>1
    <3>3. CASE RunReplayed(p)
      <4>1. Return(p, store.status[call[p].attempt]) /\ call[p].attempt \in Attempts /\ store \in Store
        BY <1>0, <3>3, CallFacts DEF RunReplayed
      <4>2. store.status[call[p].attempt] # "BLOCKED"
        BY <4>1 DEF Store, AttemptStatus, ResultStatus
      <4> QED
        BY <4>1, <4>2
    <3>4. CASE RunBlocked(p)
      BY <1>0, <3>4 DEF RunBlocked
    <3> QED
      BY <1>1, <3>1, <3>2, <3>3, <3>4
  <2>2. Orderly(p)' /\ \A q \in Process \ {p} : Same(q)
    BY <1>0, <2>1, ReturnOrderly
  <2> QED
    BY <1>0, <2>2, OneSteps
<1>2. CASE \/ Approve(p) \/ (Recover(p) /\ Pending(meta[p]) # {})
           \/ (RunAssessed(p) /\ NeedsAssessment(meta[p], call[p].attempt))
  <2>1. PICK event : Submit(p, event) /\ UNCHANGED meta /\ event.type \notin RunEvents
    <3>1. CASE Approve(p)
      <4>1. PICK type \in {"APPROVED", "SEMANTIC_ASSESSED"} : Submit(p, EventOf(p, type)) /\ UNCHANGED meta
        BY <3>1 DEF Approve
      <4>2. EventOf(p, type).type \notin RunEvents
        BY DEF EventOf, RunEvents
      <4> QED
        BY <4>1, <4>2
    <3>2. CASE Recover(p) /\ Pending(meta[p]) # {}
      BY <3>2 DEF Recover, EventOf, RunEvents
    <3>3. CASE RunAssessed(p) /\ NeedsAssessment(meta[p], call[p].attempt)
      BY <3>3 DEF RunAssessed, EventOf, RunEvents
    <3> QED
      BY <1>2, <3>1, <3>2, <3>3
  <2>2. Orderly(p)' /\ \A q \in Process \ {p} : Same(q)
    BY <1>0, <2>1, SubmitOrderly
  <2> QED
    BY <1>0, <2>2, OneSteps
<1>3. CASE RunAssessed(p) /\ ~NeedsAssessment(meta[p], call[p].attempt)
  <2>1. /\ pc'[p] = "dispatch" /\ call'[p] = call[p] /\ meta'[p] = meta[p]
        /\ ~Attempted(store, call[p].attempt)
        /\ \A q \in Process \ {p} : Same(q)
    BY <1>0, <1>3 DEF IInv, SessionsAgree, SessionType, RunAssessed, Goto, Same
  <2>2. Orderly(p)'
    BY <1>0, <2>1 DEF Orderly, Remembers, InTurn, Honest
  <2> QED
    BY <1>0, <2>1, <2>2, OneSteps
<1> QED
  BY <1>1, <1>2, <1>3

-----------------------------------------------------------------------------
(* Dispatching: what an invocation submits, the journal accepts.             *)

\* The journal as the invocation finds it.
LEMMA AtHand ==
    ASSUME IInv, CInv, XInv, NEW p \in Process,
           pc[p] \in {"dispatch", "loop", "evidence", "spawn", "running", "inspect"}
    PROVE  /\ ~corrupt /\ meta[p] = store /\ store \in Store /\ InTurn(p) /\ pc[p] # "idle"
           /\ call[p].attempt \in Attempts /\ call[p].request \in Request
           /\ Chained(store, call[p].attempt)
           /\ store.command_results[call[p].attempt] \in Seq(ResultStatus)
           /\ Len(store.command_results[call[p].attempt]) \in Nat
           /\ CommandCount[call[p].attempt] \in 1..16
<1>1. ~corrupt /\ meta[p] = store /\ InTurn(p)
  BY DEF XInv, Orderly, Remembers
<1>2. pc[p] # "idle" /\ call[p].attempt \in Attempts /\ call[p].request \in Request
  BY CallFacts
<1>3. store \in Store /\ Chained(store, call[p].attempt)
  BY <1>2 DEF IInv, DiskType, CInv, Kept
<1>4. store.command_results[call[p].attempt] \in Seq(ResultStatus)
  BY <1>2, <1>3 DEF Store
<1> QED
  BY <1>1, <1>2, <1>3, <1>4, CommandCountAssumption DEF MaxCommands

LEMMA SubmitExclusive ==
    ASSUME IInv, XInv, NEW p \in Process, pc[p] # "idle", NEW event, Submit(p, event),
           UNCHANGED <<call, meta, store, corrupt, owner, mistakes>>,
           ~corrupt, meta[p] = store, event.type \in RunEvents => Accepts(store, event)
    PROVE  XInv'
<1>1. Orderly(p)' /\ \A q \in Process \ {p} : Same(q)
  BY SubmitOrderly
<1> QED
  BY <1>1, OneSteps

LEMMA DispatchExclusive ==
    ASSUME IInv, CInv, XInv, NEW p \in Process, Dispatch(p) \/ DispatchRefused(p)
    PROVE  XInv'
<1> DEFINE a == call[p].attempt
<1>0. /\ pc[p] = "dispatch" /\ UNCHANGED <<call, owner, mistakes, store, corrupt>>
  BY DEF Dispatch, DispatchRefused, disk, world
<1>1. CASE DispatchRefused(p)
  <2>1. ~Attempted(store, a)
    BY <1>0, AtHand DEF InTurn
  <2>2. Return(p, "BLOCKED")
    BY <1>1 DEF DispatchRefused
  <2>3. Orderly(p)' /\ \A q \in Process \ {p} : Same(q)
    BY <1>0, <2>1, <2>2, ReturnOrderly
  <2> QED
    BY <1>0, <2>3, AtHand, OneSteps
<1>2. CASE Dispatch(p)
  <2> DEFINE event == EventOf(p, "PREPARED")
  <2>1. /\ ~Fenced(store) /\ store.approvals[a] = call[p].request
        /\ call[p].request.control_epoch = store.control_epoch
        /\ ~Attempted(store, a) /\ ~store.reservation
    BY <1>0, <1>2, AtHand DEF Dispatch, Gate, SameRequest
  <2>2. call[p].request # NoRequest
    BY <1>0, AtHand DEF Request, NoRequest
  <2>3. event.type = "PREPARED" /\ event.attempt = a /\ event.request = call[p].request
    BY DEF EventOf
  <2>4. AcceptsPrepared(store, event)
    BY <2>1, <2>2, <2>3 DEF AcceptsPrepared, Approved, Fenced
  <2>5. Submit(p, event) /\ UNCHANGED meta
    BY <1>2 DEF Dispatch
  <2> QED
    BY <1>0, <2>4, <2>5, AtHand, SubmitExclusive DEF Accepts
<1> QED
  BY <1>1, <1>2

LEMMA FinishExclusive ==
    ASSUME IInv, CInv, XInv, NEW p \in Process, PrepareCommand(p) \/ CommandRefused(p) \/ Finish(p) \/ EvidenceFailed(p)
    PROVE  XInv'
<1> DEFINE a == call[p].attempt
           results == store.command_results[a]
<1>0. /\ pc[p] \in {"loop", "evidence"} /\ UNCHANGED <<call, meta, owner, mistakes, store, corrupt>>
  BY DEF PrepareCommand, CommandRefused, Finish, EvidenceFailed, disk, world
<1>1. /\ InProgress(store, a) /\ (pc[p] = "loop" => store.active_index[a] = NoIndex)
      /\ ~corrupt /\ meta[p] = store
  BY <1>0, AtHand DEF InTurn, AtLoop, AtCommand
<1>2. PICK n \in Nat, m \in 1..16 : n = Len(results) /\ m = CommandCount[a]
  BY <1>0, AtHand
<1>3. /\ results \in Seq(ResultStatus) /\ n <= m
      /\ \A i \in 1..(n - 1) : results[i] = "SUCCEEDED"
  BY <1>0, <1>2, AtHand DEF Chained
<1>4. CASE PrepareCommand(p)
  <2> DEFINE event == [EventOf(p, "COMMAND_PREPARED") EXCEPT !.index = NextIndex(store, a)]
  <2>1. /\ LastSucceeded(store, a) /\ Len(results) < CommandCount[a] /\ pc[p] = "loop"
        /\ Submit(p, event)
    BY <1>1, <1>4 DEF PrepareCommand, MoreCommands
  <2>2. event.type = "COMMAND_PREPARED" /\ event.attempt = a /\ event.index = NextIndex(store, a)
    BY DEF EventOf
  <2>3. NextIndex(store, a) <= CommandCount[a]
    <3>1. n < m
      BY <1>2, <2>1
    <3> QED
      BY <1>2, <3>1 DEF NextIndex
  <2>4. AcceptsCommandPrepared(store, event)
    BY <1>1, <2>1, <2>2, <2>3 DEF AcceptsCommandPrepared
  <2> QED
    BY <1>0, <2>1, <2>4, AtHand, SubmitExclusive DEF Accepts
<1>5. CASE CommandRefused(p) \/ EvidenceFailed(p)
  <2> DEFINE event == [EventOf(p, "FINISHED") EXCEPT !.status = "RECOVERY_REQUIRED"]
  <2>1. Submit(p, event)
    BY <1>5 DEF CommandRefused, EvidenceFailed, SubmitFinished
  <2>2. event.type = "FINISHED" /\ event.attempt = a /\ event.status = "RECOVERY_REQUIRED"
    BY DEF EventOf
  <2>3. AcceptsFinished(store, event)
    BY <1>1, <2>2 DEF AcceptsFinished
  <2> QED
    BY <1>0, <2>1, <2>3, AtHand, SubmitExclusive DEF Accepts
<1>6. CASE Finish(p)
  <2> DEFINE last == results[Len(results)]
             event == [EventOf(p, "FINISHED") EXCEPT !.status = last]
  <2>1. /\ pc[p] = "loop" /\ Submit(p, event)
        /\ ~(LastSucceeded(store, a) /\ Len(results) < CommandCount[a])
    BY <1>1, <1>6 DEF Finish, MoreCommands, SubmitFinished
  <2>2. event.type = "FINISHED" /\ event.attempt = a /\ event.status = last
    BY DEF EventOf
  <2>3. results # << >>
    <3>1. SUFFICES ASSUME results = << >> PROVE FALSE
      OBVIOUS
    <3>2. n = 0 /\ ~(n < m)
      BY <1>2, <2>1, <3>1 DEF LastSucceeded
    <3> QED
      BY <3>2
  <2>5. ASSUME last = "SUCCEEDED"
        PROVE  Len(results) = CommandCount[a] /\ \A i \in 1..CommandCount[a] : results[i] = "SUCCEEDED"
    <3>1. LastSucceeded(store, a)
      BY <2>5 DEF LastSucceeded
    <3>2. Len(results) = CommandCount[a]
      <4>1. ~(n < m)
        BY <1>2, <2>1, <3>1
      <4>2. n = m
        BY <1>3, <4>1
      <4> QED
        BY <1>2, <4>2
    <3>3. \A i \in 1..n : results[i] = "SUCCEEDED"
      <4>1. results[n] = "SUCCEEDED"
        BY <1>2, <2>5
      <4> QED
        BY <1>3, <4>1
    <3> QED
      BY <1>2, <3>2, <3>3
  <2>6. AcceptsFinished(store, event)
    BY <1>1, <2>1, <2>2, <2>3, <2>5 DEF AcceptsFinished, LastIs
  <2> QED
    BY <1>0, <2>1, <2>6, AtHand, SubmitExclusive DEF Accepts
<1> QED
  BY <1>4, <1>5, <1>6

-----------------------------------------------------------------------------
(* One command                                                               *)

LEMMA CommandExclusive ==
    ASSUME IInv, CInv, XInv, NEW p \in Process, Spawn(p) \/ NotSpawned(p) \/ Inspect(p) \/ InspectFailed(p)
    PROVE  XInv'
<1> DEFINE a == call[p].attempt
<1>0. /\ pc[p] \in {"spawn", "inspect"} /\ UNCHANGED <<call, meta, owner, mistakes, store, corrupt>>
  BY DEF Spawn, NotSpawned, Inspect, InspectFailed, disk, world
<1>1. /\ ~corrupt /\ meta[p] = store /\ Current(p)[2] = NextIndex(store, a)
      /\ pc[p] = "spawn" => AtCommand(store, a, "PREPARED")
      /\ pc[p] = "inspect" => AtCommand(store, a, "RUNNING")
  BY <1>0, AtHand DEF InTurn, Current
<1>2. CASE Spawn(p)
  <2> DEFINE event == CommandEvent(p, "COMMAND_STARTED")
  <2>1. event.type = "COMMAND_STARTED" /\ event.attempt = a /\ event.index = NextIndex(store, a)
    BY <1>1 DEF CommandEvent, EventOf
  <2>2. pc[p] = "spawn" /\ Submit(p, event)
    BY <1>2 DEF Spawn
  <2>3. AcceptsCommandStarted(store, event)
    BY <1>1, <2>1, <2>2 DEF AcceptsCommandStarted, AtCommand
  <2> QED
    BY <1>0, <1>1, <2>2, <2>3, SubmitExclusive DEF Accepts
<1>3. CASE NotSpawned(p) \/ Inspect(p) \/ InspectFailed(p)
  <2>1. PICK event : /\ Submit(p, event) /\ event.type = "COMMAND_FINISHED" /\ event.attempt = a
                     /\ event.index = NextIndex(store, a)
                     /\ pc[p] = "spawn" => event.status = "RECOVERY_REQUIRED"
    <3>1. CASE NotSpawned(p)
      BY <1>1, <3>1, CommandFields DEF NotSpawned
    <3>2. CASE Inspect(p) \/ InspectFailed(p)
      <4>1. pc[p] = "inspect"
        BY <3>2 DEF Inspect, InspectFailed
      <4>2. /\ pend[p] \in Event /\ pend[p].type = "COMMAND_FINISHED" /\ pend[p].attempt = a
            /\ pend[p].index = NextIndex(store, a)
        BY <1>1, <4>1 DEF CInv, Own, Reports, Asked, IInv, SessionsAgree, Session
      <4>3. PICK e \in {pend[p], [pend[p] EXCEPT !.status = "RECOVERY_REQUIRED"]} : Submit(p, e)
        BY <3>2 DEF Inspect, InspectFailed
      <4>4. e.type = pend[p].type /\ e.attempt = pend[p].attempt /\ e.index = pend[p].index
        BY <4>2, <4>3 DEF Event
      <4> QED
        BY <4>1, <4>2, <4>3, <4>4
    <3> QED
      BY <1>3, <3>1, <3>2
  <2>2. AcceptsCommandFinished(store, event)
    BY <1>0, <1>1, <2>1 DEF AcceptsCommandFinished, AtCommand
  <2> QED
    BY <1>0, <1>1, <2>1, <2>2, SubmitExclusive DEF Accepts
<1> QED
  BY <1>2, <1>3

LEMMA WaitExclusive ==
    ASSUME IInv, CInv, XInv, NEW p \in Process, Evidence(p) \/ EvidenceOwnerLost(p) \/ Resolve(p) \/ Drain(p)
    PROVE  XInv'
<1>0. /\ pc[p] # "idle" /\ UNCHANGED <<call, owner, mistakes, store, corrupt>>
  BY DEF Evidence, EvidenceOwnerLost, Resolve, Drain, disk, world
<1>1. CASE EvidenceOwnerLost(p) \/ Drain(p)
  <2>1. Return(p, "RECOVERY_REQUIRED")
    BY <1>1 DEF EvidenceOwnerLost, Drain
  <2>2. Orderly(p)' /\ \A q \in Process \ {p} : Same(q)
    BY <1>0, <2>1, ReturnOrderly
  <2> QED
    BY <1>0, <2>2, OneSteps
<1>2. CASE Evidence(p) \/ Resolve(p)
  <2>1. /\ \/ pc[p] = "evidence" /\ pc'[p] = "spawn"
           \/ pc[p] = "running" /\ pc'[p] = "inspect"
        /\ meta'[p] = meta[p] /\ call'[p] = call[p]
        /\ \A q \in Process \ {p} : Same(q)
    BY <1>2 DEF IInv, SessionsAgree, SessionType, Evidence, Resolve, Goto, Same
  <2>2. Orderly(p)'
    BY <1>0, <2>1 DEF XInv, Orderly, Remembers, InTurn, Honest
  <2> QED
    BY <1>0, <2>1, <2>2, OneSteps
<1> QED
  BY <1>1, <1>2

-----------------------------------------------------------------------------
(* Appending                                                                 *)

LEMMA CheckedExclusive ==
    ASSUME IInv, XInv, NEW p \in Process, Checked(p) \/ AppendRefused(p)
    PROVE  XInv'
<1>0. pc[p] # "idle" /\ UNCHANGED <<call, owner, mistakes, store, corrupt>>
  BY DEF Checked, AppendRefused, disk, world
<1>1. CASE Checked(p)
  <2>1. /\ pc[p] = "append" /\ pc'[p] = "write" /\ meta'[p] = meta[p] /\ pend'[p] = pend[p]
        /\ \A q \in Process \ {p} : Same(q)
    BY <1>1 DEF IInv, SessionsAgree, SessionType, Checked, Goto, Same
  <2>2. Orderly(p)'
    BY <1>0, <2>1 DEF XInv, Orderly, Remembers, InTurn, Honest
  <2> QED
    BY <1>0, <2>1, <2>2, OneSteps
<1>2. CASE AppendRefused(p)
  <2>1. Orderly(p)' /\ \A q \in Process \ {p} : Same(q)
    BY <1>0, <1>2, FailOrderly DEF AppendRefused
  <2> QED
    BY <1>0, <2>1, OneSteps
<1> QED
  BY <1>1, <1>2

\* What the one invocation writes belongs to the journal.
LEMMA OnDisk ==
    ASSUME IInv, CInv, XInv, NEW p \in Process, pc[p] = "write", LineWritten(p)
    PROVE  /\ ~corrupt /\ ~corrupt' /\ meta[p] = store /\ store \in Store /\ pend[p] \in Event
           /\ Accepts(store, pend[p]) /\ store' = Reduce(store, pend[p])
           /\ pend[p].attempt = call[p].attempt /\ Chained(store, pend[p].attempt)
<1>1. ~corrupt /\ meta[p] = store
  BY DEF XInv, Orderly, Remembers
<1>2. pend[p].attempt = call[p].attempt /\ call[p].attempt \in Attempts
  BY CallFacts DEF CInv, Own, Asked
<1> QED
  BY <1>1, <1>2, LineEffect DEF LineWritten, CInv, Kept

LEMMA WrittenExclusive ==
    ASSUME IInv, CInv, XInv, NEW p \in Process, Written(p)
    PROVE  XInv'
<1> DEFINE a == call[p].attempt
<1>0. /\ pc[p] = "write" /\ pc[p] # "idle" /\ LineWritten(p) /\ UNCHANGED <<call, owner, mistakes>>
  BY DEF Written, world
<1>1. /\ pend[p].type = "SEMANTIC_ASSESSED" => ~Attempted(store', a)
      /\ pend[p].type \in {"PREPARED", "COMMAND_FINISHED"} => AtLoop(store', a)
      /\ pend[p].type = "COMMAND_PREPARED" => AtCommand(store', a, "PREPARED")
      /\ pend[p].type = "COMMAND_STARTED" => AtCommand(store', a, "RUNNING")
      /\ pend[p].type = "FINISHED" => store'.status[a] = pend[p].status
      /\ ~corrupt' /\ meta[p] = store /\ store' = Reduce(store, pend[p])
  BY <1>0, OnDisk, TurnEffects
<1>2. CASE After(p) = "close"
  <2>1. Return(p, Receipt(p))
    BY <1>2 DEF Written
  <2>2. /\ Receipt(p) \in {"SUCCEEDED", "FAILED"} => store'.status[a] = Receipt(p)
        /\ Receipt(p) = "BLOCKED" => ~Attempted(store', a)
    <3>1. CASE pend[p].type = "FINISHED"
      <4>1. pend[p].status # "BLOCKED"
        BY <1>0, OnDisk DEF Event, ResultStatus
      <4> QED
        BY <1>1, <3>1, <4>1 DEF Receipt
    <3>2. CASE pend[p].type # "FINISHED"
      BY <1>1, <3>2 DEF Receipt
    <3> QED
      BY <3>1, <3>2
  <2>3. Orderly(p)' /\ \A q \in Process \ {p} : Same(q)
    BY <1>0, <2>1, <2>2, ReturnOrderly
  <2> QED
    BY <1>0, <2>3, OneSteps
<1>3. CASE After(p) # "close"
  <2>1. /\ pc'[p] = After(p) /\ call'[p] = call[p] /\ meta'[p] = store'
        /\ \A q \in Process \ {p} : Same(q)
    BY <1>0, <1>1, <1>3 DEF IInv, SessionsAgree, SessionType, Written, Goto, Same
  <2>2. /\ After(p) = "dispatch" => pend[p].type = "SEMANTIC_ASSESSED"
        /\ After(p) = "loop" => pend[p].type \in {"PREPARED", "COMMAND_FINISHED"}
        /\ After(p) = "evidence" => pend[p].type = "COMMAND_PREPARED"
        /\ After(p) = "running" => pend[p].type = "COMMAND_STARTED"
        /\ After(p) \in {"dispatch", "loop", "evidence", "running"}
    BY <1>3 DEF After
  <2>3. Orderly(p)'
    BY <1>1, <2>1, <2>2 DEF Orderly, Remembers, InTurn, Honest
  <2> QED
    BY <1>0, <2>1, <2>3, OneSteps
<1> QED
  BY <1>2, <1>3

LEMMA FailedExclusive ==
    ASSUME IInv, XInv, NEW p \in Process, WrittenUnacknowledged(p) \/ WrittenInPart(p)
    PROVE  XInv'
<1>1. Fail(p) /\ pc[p] # "idle" /\ UNCHANGED <<call, owner, mistakes>>
  BY DEF WrittenUnacknowledged, WrittenInPart, world
<1>2. Orderly(p)' /\ \A q \in Process \ {p} : Same(q)
  BY <1>1, FailOrderly
<1> QED
  BY <1>1, <1>2, OneSteps

-----------------------------------------------------------------------------
LEMMA InitXInv == Init => XInv
BY DEF Init, XInv, Exclusive, Orderly, Remembers, InTurn, Honest

LEMMA NextXInv ==
    ASSUME MaxMistakes = 0
    PROVE  IInv /\ CInv /\ XInv /\ [Next]_vars => XInv'
<1> SUFFICES ASSUME IInv, CInv, XInv, [Next]_vars PROVE XInv'
  OBVIOUS
<1>1. ASSUME NEW p \in Process, Step(p) PROVE XInv'
  BY <1>1, ReadExclusive, LeaveExclusive, CheckedExclusive, WrittenExclusive, FailedExclusive,
     DecideExclusive, DispatchExclusive, FinishExclusive, CommandExclusive, WaitExclusive DEF Step
<1>2. ASSUME NEW p \in Process,
             BeginApprove(p) \/ BeginRun(p) \/ BeginRecover(p) \/ BeginFailed(p) \/ Crash(p)
      PROVE  XInv'
  BY <1>2, EnterExclusive, BeginFailedExclusive, LeaveExclusive
<1> QED
  BY <1>1, <1>2, WorldExclusive DEF Next

LEMMA ExclusionInvariance ==
    ASSUME MaxMistakes = 0
    PROVE  Spec => [](IInv /\ CInv /\ XInv)
BY ChildrenInvariance, InitXInv, NextXInv, PTL DEF Spec

\* Two sessions never interleave, and the reducer accepts every event of a run, as long as the
\* operator removes no owner directory of an invocation that is alive.
THEOREM SessionsAreExclusive ==
    ASSUME MaxMistakes = 0
    PROVE  Spec => []SessionsExclusive
<1>1. XInv => SessionsExclusive
  BY DEF XInv, Exclusive, Orderly, Remembers, InTurn, SessionsExclusive
<1> QED
  BY <1>1, ExclusionInvariance, PTL

\* A receipt of run tells the truth: a final status is on disk before it is returned, and
\* BLOCKED means that the approval is still unused, with the same care of the operator.
THEOREM ReceiptsAreHonest ==
    ASSUME MaxMistakes = 0
    PROVE  Spec => []ReceiptsHonest
<1>1. XInv => ReceiptsHonest
  BY DEF XInv, Orderly, Honest, ReceiptsHonest
<1> QED
  BY <1>1, ExclusionInvariance, PTL

-----------------------------------------------------------------------------
(* The fence                                                                 *)

LEMMA NothingBehindFence ==
    ASSUME NEW s \in Store, NEW e \in Event, Journal(s), Accepts(s, e), Admissible(s, e)
    PROVE  ~Fenced(s)
<1>1. CASE e.type \in {"APPROVED", "SEMANTIC_ASSESSED"}
  BY <1>1 DEF Admissible
<1>2. CASE e.type = "PREPARED"
  <2>1. AcceptsPrepared(s, e) /\ e.attempt \in Attempts
    BY <1>2, AcceptedRun DEF Event
  <2> QED
    BY <2>1 DEF AcceptsPrepared, Journal, EpochAgrees, Fenced
<1>3. CASE e.type = "RECOVERED"
  BY <1>3, AcceptedRun DEF Pending, Journal, EpochAgrees
<1>4. CASE e.type \in CommandEvents
  <2>1. InProgress(s, e.attempt) /\ e.attempt \in Attempts
    BY <1>4, AcceptedRun DEF Event
  <2> QED
    BY <2>1 DEF InProgress, Journal, EpochAgrees
<1> QED
  BY <1>1, <1>2, <1>3, <1>4 DEF Event, CommandEvents

\* A step that changes the journal appends an accepted event, before any fence.
LEMMA StoreSteps ==
    ASSUME IInv, [Next]_vars, store' # store
    PROVE  \E p \in Process :
             /\ pc[p] = "write" /\ LineWritten(p) /\ child' = child
             /\ store \in Store /\ pend[p] \in Event /\ meta[p] = store
             /\ Accepts(store, pend[p]) /\ Admissible(store, pend[p])
             /\ store' = Reduce(store, pend[p]) /\ ~Fenced(store)
<1>1. PICK p \in Process : pc[p] = "write" /\ LineWritten(p) /\ child' = child
  BY StoreMoves
<1>2. /\ store \in Store /\ pend[p] \in Event /\ meta[p] = store
      /\ Accepts(store, pend[p]) /\ store' = Reduce(store, pend[p])
  BY <1>1, LineEffect
<1>3. Admissible(store, pend[p]) /\ Journal(store)
  BY <1>1, <1>2 DEF IInv, SessionsAgree, Session
<1> QED
  BY <1>1, <1>2, <1>3, NothingBehindFence

\* Children are started by Spawn alone.
LEMMA ChildSteps ==
    ASSUME IInv, [Next]_vars
    PROVE  \/ \E p \in Process : Spawn(p)
           \/ \A c \in Commands : child'[c].state = "none" <=> child[c].state = "none"
<1>1. ASSUME NEW p \in Process, Step(p) PROVE Spawn(p) \/ child' = child
  <2>1. CASE Written(p) \/ WrittenUnacknowledged(p) \/ WrittenInPart(p)
    BY <2>1 DEF Written, WrittenUnacknowledged, WrittenInPart, world
  <2>2. CASE ReadStore(p) \/ ReadCorrupt(p) \/ Close(p) \/ Checked(p) \/ AppendRefused(p)
    BY <2>2 DEF ReadStore, ReadCorrupt, Close, Checked, AppendRefused, world
  <2>3. CASE \/ ApproveRefused(p) \/ Approve(p) \/ Recover(p)
             \/ RunRejected(p) \/ RunReplayed(p) \/ RunBlocked(p) \/ RunAssessed(p)
    BY <2>3 DEF ApproveRefused, Approve, Recover, RunRejected, RunReplayed, RunBlocked, RunAssessed, world
  <2>4. CASE \/ Dispatch(p) \/ DispatchRefused(p)
             \/ PrepareCommand(p) \/ CommandRefused(p) \/ Finish(p)
    BY <2>4 DEF Dispatch, DispatchRefused, PrepareCommand, CommandRefused, Finish, world
  <2>5. CASE \/ Evidence(p) \/ EvidenceOwnerLost(p) \/ EvidenceFailed(p) \/ NotSpawned(p)
             \/ Resolve(p) \/ Inspect(p) \/ InspectFailed(p) \/ Drain(p)
    BY <2>5 DEF Evidence, EvidenceOwnerLost, EvidenceFailed, NotSpawned, Resolve, Inspect,
       InspectFailed, Drain, world
  <2> QED
    BY <1>1, <2>1, <2>2, <2>3, <2>4, <2>5 DEF Step
<1>2. ASSUME NEW p \in Process,
             BeginApprove(p) \/ BeginRun(p) \/ BeginRecover(p) \/ BeginFailed(p) \/ Crash(p)
      PROVE  child' = child
  BY <1>2 DEF BeginApprove, BeginRun, BeginRecover, BeginFailed, Begin, Crash, world
<1>3. CASE ChildCloses
  <2>1. PICK c \in Commands, state \in {"exit_0", "exit_nonzero"} :
          Alive(c) /\ child' = [child EXCEPT ![c].state = state, ![c].closed = Len(repo)]
    BY <1>3 DEF ChildCloses
  <2>2. /\ child[c].state = "alive" /\ child'[c].state = state
        /\ \A d \in Commands \ {c} : child'[d] = child[d]
    BY <2>1 DEF Alive, IInv, WorldType, Child
  <2> QED
    BY <2>2
<1>4. CASE OperatorRemovesOwner \/ Edit \/ ApprovalAges \/ UNCHANGED vars
  BY <1>4 DEF OperatorRemovesOwner, Edit, ApprovalAges, vars
<1> QED
  BY <1>1, <1>2, <1>3, <1>4 DEF Next, Environment

\* Nothing is started behind a fence while one invocation at most is under way.
LEMMA SpawnOpen ==
    ASSUME IInv, CInv, XInv, NEW p \in Process, Spawn(p)
    PROVE  ~Fenced(store) /\ Incomplete(store, call[p].attempt)
<1>1. AtCommand(store, call[p].attempt, "PREPARED") /\ call[p].attempt \in Attempts
  BY SpawnFacts DEF Spawn, XInv, Orderly, InTurn
<1> QED
  BY <1>1 DEF AtCommand, InProgress, IInv, Journal, EpochAgrees

\* Once the journal records a fence nothing is approved or started again, as long as the operator
\* removes no owner directory of an invocation that is alive.
THEOREM FencesAreFinal ==
    ASSUME MaxMistakes = 0
    PROVE  Spec => FenceIsFinal
<1>1. ASSUME IInv, CInv, XInv, [Next]_vars, Fenced(store)
      PROVE  /\ Fenced(store')
             /\ store'.approvals = store.approvals
             /\ \A c \in Commands : child[c].state = "none" => child'[c].state = "none"
  <2>1. store' = store
    BY <1>1, StoreSteps
  <2>2. ~\E p \in Process : Spawn(p)
    BY <1>1, SpawnOpen
  <2> QED
    BY <1>1, <2>1, <2>2, ChildSteps
<1>2. IInv /\ CInv /\ XInv /\ [Next]_vars =>
        (Fenced(store) =>
           /\ Fenced(store')
           /\ store'.approvals = store.approvals
           /\ \A c \in Commands : child[c].state = "none" => child'[c].state = "none")
  BY <1>1
<1> QED
  BY <1>2, ExclusionInvariance, PTL DEF Spec, FenceIsFinal

-----------------------------------------------------------------------------
(* The promise of OneShot                                                    *)

Phases(s) == [a \in Attempts |-> Phase(s.status[a])]
Started == [a \in Attempts |-> Cardinality(Launched(a))]

LEMMA IntervalSize ==
    ASSUME NEW a \in Attempts
    PROVE  IsFiniteSet(1..CommandCount[a]) /\ Cardinality(1..CommandCount[a]) = CommandCount[a]
<1>1. PICK n \in 1..16 : n = CommandCount[a]
  BY CommandCountAssumption DEF MaxCommands
<1>2. 1 \in Int /\ n \in Int /\ ~(1 > n) /\ n - 1 + 1 = n
  OBVIOUS
<1>3. /\ IsFiniteSet(1..n)
      /\ Cardinality(1..n) = IF 1 > n THEN 0 ELSE n - 1 + 1
  BY <1>2, FS_Interval
<1> QED
  BY <1>1, <1>2, <1>3

LEMMA LaunchedSize ==
    ASSUME NEW a \in Attempts
    PROVE  /\ IsFiniteSet(Launched(a)) /\ Cardinality(Launched(a)) \in Nat
           /\ Cardinality(Launched(a)) <= CommandCount[a] /\ CommandCount[a] \in Nat \ {0}
           /\ Launched(a) = {} => Cardinality(Launched(a)) = 0
           /\ Launched(a) # {} => Cardinality(Launched(a)) > 0
           /\ Launched(a) = 1..CommandCount[a] => Cardinality(Launched(a)) = CommandCount[a]
<1>1. PICK n \in 1..16 : n = CommandCount[a]
  BY CommandCountAssumption DEF MaxCommands
<1>2. IsFiniteSet(1..n) /\ Cardinality(1..n) = n
  BY <1>1, IntervalSize
<1>3. Launched(a) \subseteq 1..n
  BY <1>1 DEF Launched
<1>4. IsFiniteSet(Launched(a)) /\ Cardinality(Launched(a)) <= n
  BY <1>2, <1>3, FS_Subset
<1>5. Cardinality(Launched(a)) \in Nat
  BY <1>4, FS_CardinalityType
<1>6. Launched(a) = {} <=> Cardinality(Launched(a)) = 0
  BY <1>4, FS_EmptySet
<1> QED
  BY <1>1, <1>2, <1>4, <1>5, <1>6

\* What an accepted event does to the phases of attempts.
PhaseMoves(s, t, e) ==
    LET f == Phases(s)
        g == Phases(t)
        a == e.attempt
    IN  \/ g = f /\ (Fenced(t) <=> Fenced(s))
        \/ /\ e.type = "PREPARED" /\ (Fenced(t) <=> Fenced(s))
           /\ f[a] = "unused" /\ (\A b \in Attempts : f[b] # "in_progress")
           /\ g = [f EXCEPT ![a] = "in_progress"]
        \/ /\ e.type = "FINISHED" /\ (Fenced(t) <=> Fenced(s))
           /\ f[a] = "in_progress"
           /\ \/ e.status = "SUCCEEDED" /\ g = [f EXCEPT ![a] = "succeeded"]
              \/ e.status = "FAILED" /\ g = [f EXCEPT ![a] = "failed"]
        \/ /\ Fenced(t)
           /\ g = [b \in Attempts |-> IF f[b] = "in_progress" THEN "held" ELSE f[b]]


LEMMA PhaseStep ==
    ASSUME NEW s \in Store, NEW e \in Event, Journal(s), Accepts(s, e), Admissible(s, e)
    PROVE  PhaseMoves(s, Reduce(s, e), e)
<1> DEFINE t == Reduce(s, e)
           a == e.attempt
<1>0. a \in Attempts /\ e.status \in ResultStatus /\ ~Fenced(s)
  BY NothingBehindFence DEF Event
<1>1. ASSUME t.status = s.status, Fenced(t) <=> Fenced(s)
      PROVE  PhaseMoves(s, t, e)
  <2>1. Phases(t) = Phases(s)
    BY <1>1 DEF Phases
  <2> QED
    BY <1>1, <2>1 DEF PhaseMoves
<1>2. ASSUME Fenced(t), \A b \in Attempts : t.status[b] = IF Incomplete(s, b) THEN "RECOVERY_REQUIRED" ELSE s.status[b]
      PROVE  PhaseMoves(s, t, e)
  <2>1. Phases(t) = [b \in Attempts |-> IF Phases(s)[b] = "in_progress" THEN "held" ELSE Phases(s)[b]]
    BY <1>2 DEF Phases, Phase, Incomplete
  <2> QED
    BY <1>2, <2>1 DEF PhaseMoves
<1>3. CASE e.type = "SEMANTIC_ASSESSED"
  <2>1. t.status = s.status /\ t.recovery_required = s.recovery_required /\ Pending(s) = {}
    BY <1>3 DEF Reduce, SemanticAssessed, Store, Admissible
  <2>2. t.semantic_review_required = s.semantic_review_required \/ t.semantic_review_required = TRUE
    BY <1>0, <1>3 DEF Reduce, SemanticAssessed, Store
  <2>3. CASE Fenced(t)
    BY <1>2, <2>1, <2>3 DEF Pending
  <2>4. CASE ~Fenced(t)
    BY <1>0, <1>1, <2>1, <2>4
  <2> QED
    BY <2>3, <2>4
<1>4. CASE e.type = "APPROVED"
  <2>1. /\ t.status = s.status /\ t.recovery_required = s.recovery_required
        /\ t.semantic_review_required = s.semantic_review_required
    BY <1>4 DEF Reduce, Store
  <2> QED
    BY <1>1, <2>1 DEF Fenced
<1>5. CASE e.type = "PREPARED"
  <2>1. AcceptsPrepared(s, e)
    BY <1>5, AcceptedRun
  <2>2. /\ t.status = [s.status EXCEPT ![a] = "PREPARED"] /\ t.recovery_required = s.recovery_required
        /\ t.semantic_review_required = s.semantic_review_required
    BY <1>5 DEF Reduce, Store
  <2>3. s.status \in [Attempts -> AttemptStatus]
    BY DEF Store
  <2>4. Phases(t) = [Phases(s) EXCEPT ![a] = "in_progress"]
    BY <1>0, <2>2, <2>3 DEF Phases, Phase
  <2>5. Phases(s)[a] = "unused"
    BY <1>0, <2>1 DEF AcceptsPrepared, Attempted, Phases, Phase
  <2>6. \A b \in Attempts : Phases(s)[b] # "in_progress"
    BY <2>1 DEF AcceptsPrepared, Journal, SlotAgrees, Held, Incomplete, Phases, Phase
  <2> QED
    BY <1>5, <2>2, <2>4, <2>5, <2>6 DEF PhaseMoves, Fenced
<1>6. CASE e.type = "RECOVERED"
  <2>1. t.recovery_required = TRUE
    BY <1>6 DEF Reduce, Recovered, Store
  <2>2. \A b \in Attempts : t.status[b] = IF Incomplete(s, b) THEN "RECOVERY_REQUIRED" ELSE s.status[b]
    BY <1>6 DEF Reduce, Recovered, Store
  <2> QED
    BY <1>2, <2>1, <2>2 DEF Fenced
<1>7. CASE e.type \in {"COMMAND_PREPARED", "COMMAND_STARTED", "COMMAND_FINISHED"}
  <2>1. Incomplete(s, a)
    BY <1>7, AcceptedRun DEF CommandEvents, InProgress
  <2>2. /\ t.status \in {s.status, [s.status EXCEPT ![a] = "PREPARED"], [s.status EXCEPT ![a] = "RUNNING"]}
        /\ t.recovery_required = s.recovery_required
        /\ t.semantic_review_required = s.semantic_review_required
    BY <1>7 DEF Reduce, Store
  <2>3. s.status \in [Attempts -> AttemptStatus]
    BY DEF Store
  <2>4. \A b \in Attempts : Phase(t.status[b]) = Phase(s.status[b])
    BY <1>0, <2>1, <2>2, <2>3 DEF Phase, Incomplete
  <2>5. Phases(t) = Phases(s)
    BY <2>4 DEF Phases
  <2> QED
    BY <2>2, <2>5 DEF PhaseMoves, Fenced
<1>8. CASE e.type = "FINISHED"
  <2>1. InProgress(s, a)
    BY <1>8, AcceptedRun DEF CommandEvents
  <2>2. /\ t.status = [s.status EXCEPT ![a] = e.status]
        /\ t.recovery_required = (e.status = "RECOVERY_REQUIRED")
        /\ t.semantic_review_required = s.semantic_review_required
    BY <1>8 DEF Reduce, Finished, Store
  <2>3. s.status \in [Attempts -> AttemptStatus]
    BY DEF Store
  <2>4. Phases(s)[a] = "in_progress"
    BY <1>0, <2>1 DEF InProgress, Incomplete, Phases, Phase
  <2>5. CASE e.status = "RECOVERY_REQUIRED"
    <3>1. \A b \in Attempts : Incomplete(s, b) => b = a
      BY <1>0, <2>1 DEF Journal, SlotAgrees, Held, InProgress
    <3>2. \A b \in Attempts : t.status[b] = IF Incomplete(s, b) THEN "RECOVERY_REQUIRED" ELSE s.status[b]
      BY <1>0, <2>1, <2>2, <2>3, <2>5, <3>1 DEF InProgress
    <3> QED
      BY <1>2, <2>2, <2>5, <3>2 DEF Fenced
  <2>6. CASE e.status \in {"SUCCEEDED", "FAILED"}
    <3>1. \/ e.status = "SUCCEEDED" /\ Phases(t) = [Phases(s) EXCEPT ![a] = "succeeded"]
          \/ e.status = "FAILED" /\ Phases(t) = [Phases(s) EXCEPT ![a] = "failed"]
      BY <1>0, <2>2, <2>3, <2>6 DEF Phases, Phase
    <3>2. Fenced(t) <=> Fenced(s)
      BY <1>0, <2>2, <2>6 DEF Fenced
    <3> QED
      BY <1>8, <2>4, <3>1, <3>2 DEF PhaseMoves
  <2> QED
    BY <1>0, <2>5, <2>6 DEF ResultStatus
<1> QED
  BY <1>3, <1>4, <1>5, <1>6, <1>7, <1>8 DEF Event


LEMMA InLaunched ==
    ASSUME NEW a \in Attempts, NEW i \in 1..CommandCount[a]
    PROVE  <<a, i>> \in Commands
<1>1. PICK n \in 1..16 : n = CommandCount[a]
  BY CommandCountAssumption DEF MaxCommands
<1>2. i \in 1..n
  BY <1>1
<1>3. i \in 1..16 /\ i <= n
  BY <1>2
<1> QED
  BY <1>1, <1>3 DEF Commands, MaxCommands

LEMMA SameLaunched ==
    ASSUME \A c \in Commands : child'[c].state = "none" <=> child[c].state = "none"
    PROVE  Started' = Started
<1>1. ASSUME NEW a \in Attempts PROVE Launched(a)' = Launched(a)
  BY InLaunched DEF Launched
<1> QED
  BY <1>1 DEF Started

\* A child more, a command launched more.
LEMMA SpawnLaunches ==
    ASSUME IInv, CInv, XInv, NEW p \in Process, Spawn(p)
    PROVE  \E a \in Attempts :
             /\ ~Fenced(store) /\ Phases(store)[a] = "in_progress"
             /\ Started[a] < CommandCount[a] /\ Started' = [Started EXCEPT ![a] = @ + 1]
             /\ store' = store
<1>0. PICK a \in Attempts : a = call[p].attempt
  BY SpawnFacts
<1>1. PICK i \in Nat :
        /\ <<a, i>> \in Commands /\ child[<<a, i>>].state = "none"
        /\ child' = [child EXCEPT ![<<a, i>>] =
                       [state |-> "alive", started |-> Len(repo), closed |-> 0]]
        /\ store' = store
  <2>1. /\ Current(p) = <<a, NextIndex(store, a)>> /\ Current(p) \in Commands
        /\ child[Current(p)].state = "none" /\ store' = store
        /\ child' = [child EXCEPT ![Current(p)] =
                       [state |-> "alive", started |-> Len(repo), closed |-> 0]]
    BY <1>0, SpawnFacts
  <2>2. NextIndex(store, a) \in Nat
    BY DEF IInv, DiskType, Store, NextIndex
  <2> QED
    BY <2>1, <2>2
<1>2. ~Fenced(store) /\ Incomplete(store, a)
  BY <1>0, SpawnOpen
<1>3. Phases(store)[a] = "in_progress"
  BY <1>1, <1>2 DEF Phases, Phase, Incomplete
<1>4. i \in 1..CommandCount[a]
  <2>1. PICK c \in Commands : c = <<a, i>>
    BY <1>1
  <2>2. c[1] = a /\ c[2] = i
    BY <2>1
  <2> QED
    BY <2>1, <2>2, CommandType
<1>5. /\ child \in [Commands -> Child]
      /\ child'[<<a, i>>].state = "alive"
      /\ \A d \in Commands : d # <<a, i>> => child'[d] = child[d]
  BY <1>1 DEF IInv, WorldType
<1>6. Launched(a)' = Launched(a) \cup {i} /\ i \notin Launched(a)
  <2>1. ASSUME NEW j \in 1..CommandCount[a]
        PROVE  child'[<<a, j>>].state # "none" <=> (child[<<a, j>>].state # "none" \/ j = i)
    <3>1. <<a, j>> \in Commands
      BY <1>1, InLaunched
    <3>2. CASE j = i
      BY <1>5, <3>2
    <3>3. CASE j # i
      BY <1>5, <3>1, <3>3
    <3> QED
      BY <3>2, <3>3
  <2> QED
    BY <1>1, <1>4, <2>1 DEF Launched
<1>7. ASSUME NEW b \in Attempts, b # a PROVE Launched(b)' = Launched(b)
  <2>1. \A j \in 1..CommandCount[b] : child'[<<b, j>>] = child[<<b, j>>]
    BY <1>5, <1>7, InLaunched
  <2> QED
    BY <2>1 DEF Launched
<1>8. Cardinality(Launched(a)') = Cardinality(Launched(a)) + 1
  BY <1>1, <1>6, LaunchedSize, FS_AddElement
<1>9. Cardinality(Launched(a)') <= CommandCount[a]
  <2>1. /\ IsFiniteSet(1..CommandCount[a]) /\ Cardinality(1..CommandCount[a]) = CommandCount[a]
    BY <1>1, IntervalSize
  <2>2. Launched(a)' \subseteq 1..CommandCount[a]
    BY DEF Launched
  <2> QED
    BY <2>1, <2>2, FS_Subset
<1>10. PICK m \in Nat : m = Cardinality(Launched(a))
  BY <1>1, LaunchedSize
<1>11. PICK n \in 1..16 : n = CommandCount[a]
  BY <1>1, CommandCountAssumption DEF MaxCommands
<1>12. m < n
  BY <1>8, <1>9, <1>10, <1>11
<1>13. Started' = [Started EXCEPT ![a] = @ + 1]
  <2>1. \A b \in Attempts : Cardinality(Launched(b)') = IF b = a THEN Cardinality(Launched(a)) + 1 ELSE Cardinality(Launched(b))
    BY <1>7, <1>8
  <2> QED
    BY <1>1, <2>1 DEF Started
<1> QED
  BY <1>1, <1>2, <1>3, <1>10, <1>11, <1>12, <1>13 DEF Started


\* A result that is not RECOVERY_REQUIRED was told by a child.
LEMMA SettledWasLaunched ==
    ASSUME IInv, CInv, NEW e \in Event, e.type = "FINISHED", Accepts(store, e)
    PROVE  /\ e.status = "SUCCEEDED" => Started[e.attempt] = CommandCount[e.attempt]
           /\ e.status = "FAILED" => Started[e.attempt] > 0
<1>1. PICK a \in Attempts : a = e.attempt
  BY DEF Event
<1>2. PICK results \in Seq(ResultStatus) : results = store.command_results[a]
  BY DEF IInv, DiskType, Store
<1>3. /\ e.status = "SUCCEEDED" =>
           /\ Len(results) = CommandCount[a]
           /\ \A i \in 1..CommandCount[a] : results[i] = "SUCCEEDED"
      /\ e.status = "FAILED" => results # << >> /\ results[Len(results)] = "FAILED"
  BY <1>1, <1>2, RunEffects DEF LastIs, CommandEvents, IInv, DiskType
<1>4. ASSUME NEW i \in 1..Len(results), results[i] \in {"SUCCEEDED", "FAILED"}
      PROVE  i \in Launched(a)
  <2>1. /\ <<a, i>> \in Commands
        /\ Tells(results[i], <<a, i>>, store.approvals[a].baseline)
    BY <1>2, ResultCommand
  <2>2. child[<<a, i>>].state # "none"
    BY <1>4, <2>1 DEF Tells, Exits
  <2>3. PICK c \in Commands : c = <<a, i>>
    BY <2>1
  <2>4. i \in 1..CommandCount[a]
    <3>1. c[1] = a /\ c[2] = i
      BY <2>3
    <3> QED
      BY <2>3, <3>1, CommandType
  <2> QED
    BY <2>2, <2>4 DEF Launched
<1>5. CASE e.status = "SUCCEEDED"
  <2>1. Launched(a) = 1..CommandCount[a]
    BY <1>3, <1>4, <1>5 DEF Launched
  <2> QED
    BY <1>1, <1>5, <2>1, LaunchedSize DEF Started
<1>6. CASE e.status = "FAILED"
  <2>1. Len(results) \in 1..Len(results)
    BY <1>2, <1>3, <1>6
  <2>2. Launched(a) # {}
    BY <1>3, <1>4, <1>6, <2>1
  <2> QED
    BY <1>1, <1>6, <2>2, LaunchedSize DEF Started
<1> QED
  BY <1>5, <1>6

LEMMA PromisedInit == Init => Promise!Init
<1>1. ASSUME Init PROVE Phases(store) = [a \in Attempts |-> "unused"]
  BY <1>1 DEF Init, InitialStore, Phases, Phase
<1>2. ASSUME Init PROVE Started = [a \in Attempts |-> 0]
  <2>1. \A a \in Attempts : Launched(a) = {}
    BY <1>2, InLaunched DEF Init, NoChild, Launched
  <2> QED
    BY <2>1, LaunchedSize DEF Started
<1>3. ASSUME Init PROVE Fenced(store) = FALSE
  BY <1>3 DEF Init, InitialStore, Fenced
<1> QED
  BY <1>1, <1>2, <1>3 DEF Promise!Init, Phases, Started

LEMMA PromisedNext == IInv /\ CInv /\ XInv /\ [Next]_vars => [Promise!Next]_(Promise!vars)
<1> SUFFICES ASSUME IInv, CInv, XInv, [Next]_vars
             PROVE  [Promise!Next]_(Promise!vars)
  OBVIOUS
<1>1. CASE store' # store
  <2>1. PICK p \in Process :
          /\ child' = child /\ store \in Store /\ pend[p] \in Event
          /\ Accepts(store, pend[p]) /\ Admissible(store, pend[p])
          /\ store' = Reduce(store, pend[p]) /\ ~Fenced(store)
    BY <1>1, StoreSteps
  <2>2. PICK e \in Event : e = pend[p]
    BY <2>1
  <2>3. PhaseMoves(store, store', e) /\ e.attempt \in Attempts
    BY <2>1, <2>2, PhaseStep DEF IInv, Event
  <2>4. Started' = Started
    BY <2>1, SameLaunched
  <2>0. ASSUME Fenced(store') <=> Fenced(store) PROVE Fenced(store)' = Fenced(store)
    BY <2>0 DEF Fenced
  <2>5. CASE Phases(store') = Phases(store) /\ (Fenced(store') <=> Fenced(store))
    BY <2>0, <2>4, <2>5 DEF Promise!vars, Phases, Started
  <2>6. CASE /\ e.type = "PREPARED" /\ (Fenced(store') <=> Fenced(store))
             /\ Phases(store)[e.attempt] = "unused"
             /\ \A b \in Attempts : Phases(store)[b] # "in_progress"
             /\ Phases(store') = [Phases(store) EXCEPT ![e.attempt] = "in_progress"]
    <3>1. Promise!Consume(e.attempt)
      BY <2>0, <2>1, <2>4, <2>6 DEF Promise!Consume, Phases, Started
    <3> QED
      BY <2>3, <3>1 DEF Promise!Next
  <2>7. CASE /\ e.type = "FINISHED" /\ (Fenced(store') <=> Fenced(store))
             /\ Phases(store)[e.attempt] = "in_progress"
             /\ \/ e.status = "SUCCEEDED" /\ Phases(store') = [Phases(store) EXCEPT ![e.attempt] = "succeeded"]
                \/ e.status = "FAILED" /\ Phases(store') = [Phases(store) EXCEPT ![e.attempt] = "failed"]
    <3>1. /\ e.status = "SUCCEEDED" => Started[e.attempt] = CommandCount[e.attempt]
          /\ e.status = "FAILED" => Started[e.attempt] > 0
      BY <2>1, <2>2, <2>7, SettledWasLaunched
    <3>2. Promise!Settle(e.attempt)
      BY <2>0, <2>1, <2>4, <2>7, <3>1 DEF Promise!Settle, Phases, Started
    <3> QED
      BY <2>3, <3>2 DEF Promise!Next
  <2>8. CASE /\ Fenced(store')
             /\ Phases(store') =
                  [b \in Attempts |-> IF Phases(store)[b] = "in_progress" THEN "held" ELSE Phases(store)[b]]
    <3>1. Promise!Halt
      BY <2>1, <2>4, <2>8 DEF Promise!Halt, Phases, Started
    <3> QED
      BY <3>1 DEF Promise!Next
  <2> QED
    BY <2>3, <2>5, <2>6, <2>7, <2>8 DEF PhaseMoves
<1>2. CASE \E p \in Process : Spawn(p)
  <2>1. PICK a \in Attempts :
          /\ ~Fenced(store) /\ Phases(store)[a] = "in_progress"
          /\ Started[a] < CommandCount[a] /\ Started' = [Started EXCEPT ![a] = @ + 1]
          /\ store' = store
    BY <1>2, SpawnLaunches
  <2>2. Promise!Launch(a)
    BY <2>1 DEF Promise!Launch, Phases, Started
  <2> QED
    BY <2>2 DEF Promise!Next
<1>3. CASE store' = store /\ ~\E p \in Process : Spawn(p)
  <2>1. Started' = Started
    BY <1>3, ChildSteps, SameLaunched
  <2> QED
    BY <1>3, <2>1 DEF Promise!vars, Phases, Started
<1> QED
  BY <1>1, <1>2, <1>3

\* The Controller keeps the promise of OneShot: an approval is consumed once, its commands are
\* launched once and in order, it succeeds only when all were, and after a halt nothing begins,
\* is launched or is settled, as long as the operator removes no owner directory of an invocation
\* that is alive.
THEOREM PromiseIsKept ==
    ASSUME MaxMistakes = 0
    PROVE  Spec => ImplementsOneShot
BY PromisedInit, PromisedNext, ExclusionInvariance, PTL DEF Spec, ImplementsOneShot, Promise!Spec
=============================================================================
