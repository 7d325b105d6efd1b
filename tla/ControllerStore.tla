--------------------------- MODULE ControllerStore ---------------------------
(***************************************************************************)
(* The state a local Controller derives from its journal, and the reducer  *)
(* that derives it: core/controller/state.mjs.                             *)
(*                                                                         *)
(* A journal is append-only and replayed from its first event, so it is    *)
(* represented by the state it reduces to.  No two prefixes of one journal *)
(* reduce to the same state (every event moves an attempt, an approval, an *)
(* assessment or the epoch forward), so comparing states is comparing      *)
(* journals: this is what the hash chain and the size check do in the code.*)
(*                                                                         *)
(* A request is abstracted to what its digest is compared for: the attempt *)
(* it names, the control epoch it was prepared in and the repository       *)
(* version it was planned against.                                         *)
(***************************************************************************)
EXTENDS Naturals, Sequences

CONSTANTS
    Attempts,      \* attempt ids
    CommandCount,  \* commands of the request of an attempt
    Overlap,       \* pairs of attempts whose semantic footprints intersect
    Uncertain,     \* attempts whose footprint the scanner could not settle
    Legacy         \* attempts approved by a version that assessed nothing

MaxCommands == 16   \* the most a policy may allow an attempt

ASSUME AttemptsAssumption == Attempts # {}

ASSUME CommandCountAssumption == CommandCount \in [Attempts -> 1..MaxCommands]

ASSUME OverlapAssumption ==
    /\ Overlap \subseteq Attempts \X Attempts
    /\ \A a, b \in Attempts : <<a, b>> \in Overlap => <<b, a>> \in Overlap

ASSUME LegacyAssumption ==
    /\ Uncertain \subseteq Attempts
    /\ Legacy \subseteq Attempts

ResultStatus == {"SUCCEEDED", "FAILED", "RECOVERY_REQUIRED"}
AttemptStatus == {"none", "PREPARED", "RUNNING"} \cup ResultStatus
AssessmentStatus == {"none", "NON_OVERLAPPING", "MANUAL_DECISION_REQUIRED"}

Request == [control_epoch : Nat \ {0}, baseline : Nat]
NoRequest == [control_epoch |-> 0, baseline |-> 0]
NoIndex == 0   \* active_index = null; a command's index counts from 1

Store ==
    [control_epoch : Nat \ {0},
     approvals : [Attempts -> Request \cup {NoRequest}],
     semantic_assessments : [Attempts -> AssessmentStatus],
     status : [Attempts -> AttemptStatus],
     active_index : [Attempts -> Nat],
     command_results : [Attempts -> Seq(ResultStatus)],
     reservation : BOOLEAN,
     recovery_required : BOOLEAN,
     semantic_review_required : BOOLEAN]

\* The state after INIT, to which an older version may have added approvals.
InitialStore ==
    [control_epoch |-> 1,
     approvals |-> [a \in Attempts |->
         IF a \in Legacy THEN [control_epoch |-> 1, baseline |-> 0] ELSE NoRequest],
     semantic_assessments |-> [a \in Attempts |-> "none"],
     status |-> [a \in Attempts |-> "none"],
     active_index |-> [a \in Attempts |-> NoIndex],
     command_results |-> [a \in Attempts |-> << >>],
     reservation |-> FALSE,
     recovery_required |-> FALSE,
     semantic_review_required |-> FALSE]

Approved(s, a) == s.approvals[a] # NoRequest
Attempted(s, a) == s.status[a] # "none"
Incomplete(s, a) == s.status[a] \in {"PREPARED", "RUNNING"}
Pending(s) == {a \in Attempts : Incomplete(s, a)}
Fenced(s) == s.semantic_review_required \/ s.recovery_required
NextIndex(s, a) == Len(s.command_results[a]) + 1
\* Faulty: a command that failed does not stop its attempt.
LastNotHeld(s, a) ==
    s.command_results[a] # << >> =>
        s.command_results[a][Len(s.command_results[a])] # "RECOVERY_REQUIRED"

LastSucceeded(s, a) ==
    s.command_results[a] # << >> =>
        s.command_results[a][Len(s.command_results[a])] = "SUCCEEDED"
LastIs(s, a, status) ==
    /\ s.command_results[a] # << >>
    /\ s.command_results[a][Len(s.command_results[a])] = status

-----------------------------------------------------------------------------
(* Semantic admission: a request is compared with every other approval that *)
(* is not expired (at the time the caller read) and not attempted.          *)

Peers(s, a, expired) ==
    {b \in Attempts \ {a} : Approved(s, b) /\ b \notin expired /\ ~Attempted(s, b)}

NonOverlapping(s, a, expired) ==
    /\ a \notin Uncertain
    /\ \A b \in Peers(s, a, expired) : b \notin Uncertain /\ <<a, b>> \notin Overlap

-----------------------------------------------------------------------------
(* Events.  Every event names its attempt; RECOVERED concerns all pending   *)
(* ones.  "index", "status", "request" and "expired" are read only by the   *)
(* types that carry them.                                                   *)

Event ==
    [type : {"SEMANTIC_ASSESSED", "APPROVED", "PREPARED", "COMMAND_PREPARED",
             "COMMAND_STARTED", "COMMAND_FINISHED", "FINISHED", "RECOVERED"},
     attempt : Attempts,
     index : Nat,
     status : ResultStatus,
     request : Request,
     expired : SUBSET Attempts]

AcceptsSemanticAssessed(s, e) ==
    /\ e.type = "SEMANTIC_ASSESSED"
    /\ s.semantic_assessments[e.attempt] = "none"
    /\ ~Attempted(s, e.attempt)
    /\ e.request.control_epoch = s.control_epoch
    /\ Approved(s, e.attempt) => s.approvals[e.attempt] = e.request
    /\ NonOverlapping(s, e.attempt, e.expired) => Approved(s, e.attempt)

AcceptsApproved(s, e) ==
    /\ e.type = "APPROVED"
    /\ ~Approved(s, e.attempt)
    /\ ~Attempted(s, e.attempt)
    /\ s.semantic_assessments[e.attempt] = "none"
    /\ e.request.control_epoch = s.control_epoch
    /\ NonOverlapping(s, e.attempt, e.expired)

AcceptsPrepared(s, e) ==
    /\ e.type = "PREPARED"
    /\ Approved(s, e.attempt)
    /\ ~Attempted(s, e.attempt)
    /\ ~s.recovery_required
    /\ ~s.reservation
    /\ s.approvals[e.attempt].control_epoch = s.control_epoch
    /\ e.request = s.approvals[e.attempt]

AcceptsRecovered(s, e) == e.type = "RECOVERED" /\ Pending(s) # {}

\* What every event of a running attempt requires.
InProgress(s, a) == Incomplete(s, a) /\ s.reservation /\ ~s.recovery_required

AcceptsCommandPrepared(s, e) ==
    /\ e.type = "COMMAND_PREPARED"
    /\ InProgress(s, e.attempt)
    /\ e.index = NextIndex(s, e.attempt)
    /\ e.index <= CommandCount[e.attempt]
    /\ s.active_index[e.attempt] = NoIndex
    /\ LastSucceeded(s, e.attempt)

AcceptsCommandStarted(s, e) ==
    /\ e.type = "COMMAND_STARTED"
    /\ InProgress(s, e.attempt)
    /\ s.status[e.attempt] = "PREPARED"
    /\ e.index = NextIndex(s, e.attempt)
    /\ s.active_index[e.attempt] = e.index

\* Faulty: a command ends only after its start was recorded.
AcceptsStartedFinished(s, e) ==
    /\ e.type = "COMMAND_FINISHED"
    /\ InProgress(s, e.attempt)
    /\ e.index = NextIndex(s, e.attempt)
    /\ s.active_index[e.attempt] = e.index
    /\ s.status[e.attempt] = "RUNNING"

AcceptsCommandFinished(s, e) ==
    /\ e.type = "COMMAND_FINISHED"
    /\ InProgress(s, e.attempt)
    /\ e.index = NextIndex(s, e.attempt)
    /\ s.active_index[e.attempt] = e.index
    /\ s.status[e.attempt] = "RUNNING" \/ e.status = "RECOVERY_REQUIRED"

AcceptsFinished(s, e) ==
    /\ e.type = "FINISHED"
    /\ InProgress(s, e.attempt)
    /\ e.status = "SUCCEEDED" =>
         /\ s.active_index[e.attempt] = NoIndex
         /\ Len(s.command_results[e.attempt]) = CommandCount[e.attempt]
         /\ \A i \in 1..CommandCount[e.attempt] :
               s.command_results[e.attempt][i] = "SUCCEEDED"
    /\ e.status = "FAILED" =>
         /\ s.active_index[e.attempt] = NoIndex
         /\ LastIs(s, e.attempt, "FAILED")

\* The event passes the checks of reduce in state s.
Accepts(s, e) ==
    \/ AcceptsSemanticAssessed(s, e)
    \/ AcceptsApproved(s, e)
    \/ AcceptsPrepared(s, e)
    \/ AcceptsRecovered(s, e)
    \/ AcceptsCommandPrepared(s, e)
    \/ AcceptsCommandStarted(s, e)
    \/ AcceptsCommandFinished(s, e)
    \/ AcceptsFinished(s, e)

\* A recovery or a semantic fence moves the control epoch, which is what makes
\* every approval recorded before it unusable.
SemanticAssessed(s, e) ==
    IF NonOverlapping(s, e.attempt, e.expired)
    THEN [s EXCEPT !.semantic_assessments[e.attempt] = "NON_OVERLAPPING"]
    ELSE [s EXCEPT !.semantic_assessments[e.attempt] = "MANUAL_DECISION_REQUIRED",
                   !.control_epoch = @ + 1,
                   !.semantic_review_required = TRUE]

\* Faulty: the epoch moves without a fence.
RecoveredUnfenced(s) ==
    [s EXCEPT !.status = [a \in Attempts |->
                  IF Incomplete(s, a) THEN "RECOVERY_REQUIRED" ELSE @[a]],
              !.control_epoch = @ + 1]

\* Faulty: an interrupted attempt may be run again.
RecoveredForRetry(s) ==
    [s EXCEPT !.status = [a \in Attempts |-> IF Incomplete(s, a) THEN "none" ELSE @[a]],
              !.active_index = [a \in Attempts |-> NoIndex],
              !.reservation = FALSE]

Recovered(s) ==
    [s EXCEPT !.status = [a \in Attempts |->
                  IF Incomplete(s, a) THEN "RECOVERY_REQUIRED" ELSE @[a]],
              !.control_epoch = @ + 1,
              !.recovery_required = TRUE]

\* Faulty: the slot is free whatever became of the attempt.
FinishedReleasing(s, e) ==
    [s EXCEPT !.status[e.attempt] = e.status,
              !.reservation = FALSE,
              !.recovery_required = (e.status = "RECOVERY_REQUIRED")]

Finished(s, e) ==
    [s EXCEPT !.status[e.attempt] = e.status,
              !.reservation = (e.status = "RECOVERY_REQUIRED"),
              !.recovery_required = (e.status = "RECOVERY_REQUIRED")]

\* The state after an accepted event.
Reduce(s, e) ==
    LET a == e.attempt
    IN  CASE e.type = "SEMANTIC_ASSESSED" -> SemanticAssessed(s, e)
          [] e.type = "APPROVED" ->
               [s EXCEPT !.approvals[a] = e.request,
                         !.semantic_assessments[a] = "NON_OVERLAPPING"]
          [] e.type = "PREPARED" ->
               [s EXCEPT !.status[a] = "PREPARED", !.reservation = TRUE]
          [] e.type = "RECOVERED" -> Recovered(s)
          [] e.type = "COMMAND_PREPARED" ->
               [s EXCEPT !.active_index[a] = e.index, !.status[a] = "PREPARED"]
          [] e.type = "COMMAND_STARTED" -> [s EXCEPT !.status[a] = "RUNNING"]
          [] e.type = "COMMAND_FINISHED" ->
               [s EXCEPT !.command_results[a] = Append(@, e.status),
                         !.active_index[a] = NoIndex]
          [] e.type = "FINISHED" -> Finished(s, e)
=============================================================================
