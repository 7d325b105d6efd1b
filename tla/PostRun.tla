---------------------------------- MODULE PostRun ----------------------------------
(***************************************************************************)
(* What the Controller's journal says of an attempt besides its commands:  *)
(* the metering record (core/metering.mjs), and the reviews, adoptions,    *)
(* costs and energy readings recorded for it afterwards (the post-run      *)
(* events of core/controller/state.mjs and controller.mjs).  The journal is *)
(* read and appended to while the owner directory is held, so that part of *)
(* a recording is one action; a cost is computed before, from a reading of *)
(* its own, and is two.  A recording that is refused, or names an id the   *)
(* journal has already, whether to repeat that event or to change it, adds *)
(* nothing and is no step: ids are left out.                               *)
(*                                                                         *)
(* Times are those written in the records.  Whoever records evidence must  *)
(* be named by the policy, a further refusal that is left out, and name    *)
(* the digest of the results of the attempt.                               *)
(***************************************************************************)
EXTENDS Integers, SequencesExt

CONSTANTS Attempt,
          TaskOf,       \* the task of an attempt
          IntegerKey,   \* of an attempt id that is the decimal digits of an array index: its rank, from 1; or 0
          None,
          MaxRecorded,  \* reviews, and adoptions, an attempt may have; 64 in the code
          MaxCommands, MaxCalls, MaxQuotes, MaxTime, MaxTokens   \* bounds

ASSUME PostRunAssumption ==
  /\ None \notin Attempt \cup {"SUCCEEDED", "FAILED", "RECOVERY_REQUIRED"}
  /\ IntegerKey \in [Attempt -> Nat]
  /\ \A a, b \in Attempt : IntegerKey[a] = IntegerKey[b] => a = b \/ IntegerKey[a] = 0
  /\ MaxRecorded \in Nat /\ MaxCommands \in Nat \ {0} /\ MaxCalls \in Nat /\ MaxQuotes \in Nat
  /\ MaxTime \in Nat \ {0} /\ MaxTokens \in Nat

VARIABLES status,    \* of an attempt
          lineage,   \* parent_attempt_id and retry_index
          work,      \* a record per command spawned: measurement, result, the invocations recorded of it,
                     \* and (history) those its child has made
          quotes,    \* costs that were computed and are not recorded
          evidence,  \* the post-run events of an attempt, of all kinds, as recorded
          order      \* history variable: the attempts in the order they were prepared

vars == <<status, lineage, work, quotes, evidence, order>>

Time == 1 .. MaxTime
Call == [seen : {TRUE}, tokens : 0 .. MaxTokens] \cup [seen : {FALSE}, tokens : {0}]   \* a model call, its usage observed or not
Decision == {"ADOPTED", "PARTIALLY_ADOPTED", "REJECTED", "REVERTED"}
Verdict == {"PASS", "NEEDS_FIX", "REJECTED", "BLOCKED"}
Adopting == {"ADOPTED", "PARTIALLY_ADOPTED"}
Ended == {"SUCCEEDED", "FAILED", "LOST"}

Init == /\ status = [a \in Attempt |-> "none"]
        /\ lineage = [a \in Attempt |-> [parent |-> None, retry |-> 0]]
        /\ work = [a \in Attempt |-> <<>>]
        /\ quotes = {}
        /\ evidence = [a \in Attempt |-> <<>>]
        /\ order = <<>>

-----------------------------------------------------------------------------
(* The metering record. *)

\* The i-th attempt comes before the j-th as Object.entries lists them: ids that spell integers
\* first, ascending, the others in the order they were prepared.
ListedBefore(i, j) ==
  LET m == IntegerKey[order[i]]
      n == IntegerKey[order[j]]
  IN \/ m # 0 /\ (n = 0 \/ m < n)
     \/ m = 0 /\ n = 0 /\ i < j

LastListed(prior) ==
  IF prior = {} THEN None ELSE order[CHOOSE i \in prior : \A j \in prior \ {i} : ListedBefore(j, i)]

\* initialMeteringRecord: the attempts of the same task that are listed, of which the last is the parent.
LineageOf(a) == LET prior == {i \in DOMAIN order : TaskOf[order[i]] = TaskOf[a]} IN
                [parent |-> LastListed(prior), retry |-> Cardinality(prior)]

\* PREPARED: no attempt holds the slot, nor has one been lost.
Prepare(a) == /\ status[a] = "none"
              /\ \A b \in Attempt : status[b] \notin {"RUNNING", "LOST"}
              /\ status' = [status EXCEPT ![a] = "RUNNING"]
              /\ lineage' = [lineage EXCEPT ![a] = LineageOf(a)]
              /\ order' = Append(order, a)
              /\ UNCHANGED <<work, quotes, evidence>>

Result == {"SUCCEEDED", "FAILED", "RECOVERY_REQUIRED"}

\* command_results, for which the result digest stands.
Results(a) == {i \in DOMAIN work[a] : work[a][i].result # None}

\* A child is spawned after the one before succeeded, and COMMAND_STARTED says so, or the attempt
\* is lost; a wall clock that steps back between two commands loses the attempt, too.
CommandStarted(a, t) ==
  /\ status[a] = "RUNNING" /\ Len(work[a]) < MaxCommands
  /\ \A c \in ToSet(work[a]) : c.result = "SUCCEEDED" /\ t >= c.finished
  /\ work' = [work EXCEPT ![a] = Append(@, [started |-> t, finished |-> 0, result |-> None,
                                            made |-> <<>>, calls |-> <<>>])]
  /\ UNCHANGED <<status, lineage, quotes, evidence, order>>

\* A child that was not seen to close calls a model; it may outlive the run that lost it.
CallModel(a, call) ==
  /\ work[a] # <<>> /\ Last(work[a]).finished = 0
  /\ LET n == Len(work[a]) IN /\ Len(work[a][n].made) < MaxCalls
                             /\ work' = [work EXCEPT ![a][n].made = Append(@, call)]
  /\ UNCHANGED <<status, lineage, quotes, evidence, order>>

\* COMMAND_FINISHED.  Of a command whose close was not observed (t = 0), whose clock stepped back or
\* whose receipt cannot be read only RECOVERY_REQUIRED is known, and perhaps no call.
CommandFinished(a, t, result) ==
  /\ status[a] = "RUNNING" /\ work[a] # <<>> /\ Last(work[a]).result = None
  /\ LET n == Len(work[a])
         c == work[a][n]
     IN /\ t >= c.started \/ result = "RECOVERY_REQUIRED"
        /\ \E calls \in {c.made, <<>>} :
             /\ calls = c.made \/ result = "RECOVERY_REQUIRED"
             /\ work' = [work EXCEPT ![a][n] = [c EXCEPT !.finished = t, !.result = result, !.calls = calls]]
  /\ UNCHANGED <<status, lineage, quotes, evidence, order>>

\* FINISHED by the result of the last command, or RECOVERED: an attempt can be lost at any time.
Finish(a, s) == /\ status[a] = "RUNNING"
                /\ s # "LOST" => work[a] # <<>> /\ Last(work[a]).result = s
                /\ status' = [status EXCEPT ![a] = s]
                /\ UNCHANGED <<lineage, work, quotes, evidence, order>>

\* aggregate: first start, and last finish that was observed, of any command.
StartedAt(a) == IF work[a] = <<>> THEN 0 ELSE Head(work[a]).started
FinishedAt(a) == LET seen == SelectSeq(work[a], LAMBDA c : c.finished # 0) IN
                 IF seen = <<>> THEN 0 ELSE Last(seen).finished

Calls(a) == FlattenSeq([i \in DOMAIN work[a] |-> work[a][i].calls])
Total(amounts) == LET sum[n \in 0 .. Len(amounts)] == IF n = 0 THEN 0 ELSE sum[n - 1] + amounts[n]
                  IN sum[Len(amounts)]
Tokens(calls) == Total([i \in DOMAIN calls |-> calls[i].tokens])

\* Faulty: calls whose usage is missing are skipped.
UsageOfSeen(a) == LET calls == SelectSeq(Calls(a), LAMBDA c : c.seen) IN
                  IF calls = <<>> THEN None ELSE Tokens(calls)

\* appendInvocations: usage is OBSERVED when it was for every call that is recorded.
Usage(a) == LET calls == Calls(a) IN
            IF calls = <<>> \/ \E i \in DOMAIN calls : ~calls[i].seen THEN None ELSE Tokens(calls)

-----------------------------------------------------------------------------
(* The events recorded afterwards. *)

OfKind(a, kind) == {i \in DOMAIN evidence[a] : evidence[a][i].kind = kind}
LastOf(a, kind) == evidence[a][Max(OfKind(a, kind))]

ReviewStatus(a) == IF OfKind(a, "review") = {} THEN "PENDING" ELSE LastOf(a, "review").verdict

\* Faulty: an adoption that is taken back leaves the decision open.
AdoptionStatusReset(a) ==
  IF OfKind(a, "adoption") = {} \/ LastOf(a, "adoption").decision = "REVERTED"
  THEN "PENDING" ELSE LastOf(a, "adoption").decision

AdoptionStatus(a) == IF OfKind(a, "adoption") = {} THEN "PENDING" ELSE LastOf(a, "adoption").decision

\* The attempt has ended and the end of a command was observed.
Bound(a) == status[a] \in Ended /\ FinishedAt(a) # 0

RoomFor(a, kind) == Cardinality(OfKind(a, kind)) < MaxRecorded

Record(e) == /\ Bound(e.attempt)
             /\ evidence' = [evidence EXCEPT ![e.attempt] = Append(@, e)]
             /\ UNCHANGED <<status, lineage, work, order>>

RecordReview(a, at, verdict) ==
  /\ at >= FinishedAt(a)
  /\ RoomFor(a, "review")
  /\ Record([kind |-> "review", attempt |-> a, at |-> at, verdict |-> verdict])
  /\ UNCHANGED quotes

\* Faulty: the time of the review is not compared.
AdoptableAtAnyTime(a, at, decision) ==
  /\ at >= FinishedAt(a)
  /\ decision \in Adopting => status[a] = "SUCCEEDED" /\ ReviewStatus(a) = "PASS"
  /\ decision = "REVERTED" => AdoptionStatus(a) \in Adopting

Adoptable(a, at, decision) ==
  /\ at >= FinishedAt(a)
  /\ OfKind(a, "review") # {} => at >= LastOf(a, "review").at
  /\ decision \in Adopting => status[a] = "SUCCEEDED" /\ ReviewStatus(a) = "PASS"
  /\ decision = "REVERTED" => AdoptionStatus(a) \in Adopting

RecordAdoption(a, at, decision) ==
  /\ Adoptable(a, at, decision)
  /\ RoomFor(a, "adoption")
  /\ Record([kind |-> "adoption", attempt |-> a, at |-> at, decision |-> decision])
  /\ UNCHANGED quotes

\* createCostEvent: the journal is read without the owner directory, and if prices can be compared
\* the tokens are taken from it.  The results are those the caller names.
QuoteCost(a, comparable) ==
  /\ status[a] # "none"
  /\ comparable => Usage(a) # None
  /\ Cardinality(quotes) < MaxQuotes
  /\ quotes' = quotes \cup {[attempt |-> a, results |-> Results(a), comparable |-> comparable,
                             tokens |-> IF comparable THEN Usage(a) ELSE 0]}
  /\ UNCHANGED <<status, lineage, work, evidence, order>>

\* COST_RECORDED: of the results the attempt ended with; one per attempt.
RecordCost(q, at) ==
  /\ q.results = Results(q.attempt)
  /\ at >= FinishedAt(q.attempt)
  /\ OfKind(q.attempt, "cost") = {}
  /\ Record([kind |-> "cost", attempt |-> q.attempt, at |-> at, comparable |-> q.comparable, tokens |-> q.tokens])
  /\ quotes' = quotes \ {q}

Spans(a, from, until) == from <= StartedAt(a) /\ until >= FinishedAt(a)

RecordEnergy(a, from, until) ==
  /\ Spans(a, from, until)
  /\ OfKind(a, "energy") = {}
  /\ Record([kind |-> "energy", attempt |-> a, from |-> from, until |-> until])
  /\ UNCHANGED quotes

-----------------------------------------------------------------------------
\* economicsSummary: an attempt is settled when none of its four statuses is open.
Metered == {a \in Attempt : status[a] # "none"}
Settled(a) == /\ ReviewStatus(a) # "PENDING" /\ AdoptionStatus(a) # "PENDING"
              /\ OfKind(a, "cost") # {} /\ OfKind(a, "energy") # {}
Complete == \A a \in Metered : Settled(a)

Next ==
  \/ \E a \in Attempt :
       \/ Prepare(a)
       \/ \E t \in Time : CommandStarted(a, t)
       \/ \E t \in {0} \cup Time, result \in Result : CommandFinished(a, t, result)
       \/ \E call \in Call : CallModel(a, call)
       \/ \E s \in Ended : Finish(a, s)
       \/ \E comparable \in BOOLEAN : QuoteCost(a, comparable)
       \/ \E at \in Time :
            \/ \E verdict \in Verdict : RecordReview(a, at, verdict)
            \/ \E decision \in Decision : RecordAdoption(a, at, decision)
            \/ \E until \in at .. MaxTime : RecordEnergy(a, at, until)
  \/ \E q \in quotes, at \in Time : RecordCost(q, at)

Spec == Init /\ [][Next]_vars

-----------------------------------------------------------------------------
\* What was adopted had succeeded and been passed by a review recorded before the decision and
\* dated no later, and the last review before the decision was no other verdict.
AdoptionWasReviewed ==
  \A a \in Attempt : \A j \in DOMAIN evidence[a] :
    LET e == evidence[a][j]
        reviews == {i \in 1 .. j - 1 : evidence[a][i].kind = "review"}
    IN e.kind = "adoption" /\ e.decision \in Adopting =>
         /\ status[a] = "SUCCEEDED"
         /\ \E i \in reviews : /\ evidence[a][i].verdict = "PASS" /\ evidence[a][i].at <= e.at
                               /\ \A k \in reviews : k <= i

\* A cost that is compared with a price is that of every model call of the attempt, none of which
\* lacks its usage, also if it was computed while the attempt was under way; only of the last command
\* of a LOST attempt it is what was recorded, which may leave out calls its child has made.
CostCoversCalls ==
  \A a \in Attempt : \A e \in ToSet(evidence[a]) : e.kind = "cost" /\ e.comparable =>
    LET lost == IF status[a] = "LOST" THEN {Len(work[a])} ELSE {}
    IN /\ \A i \in DOMAIN work[a] \ lost : \A call \in ToSet(work[a][i].made) : call.seen
       /\ e.tokens = Total([i \in DOMAIN work[a] |-> Tokens(IF i \in lost THEN work[a][i].calls ELSE work[a][i].made)])

\* A COMPLETE summary stays so until another attempt is prepared: no later review or decision
\* opens what was settled.
CompleteStays == [][Complete /\ Metered' = Metered => Complete']_vars

\* The attempts of a task form a chain: each names the attempt of the task before it, and counts
\* those before it (docs: a new attempt of the task points to the previous attempt).
RetryChain ==
  \A i \in DOMAIN order :
    LET earlier == {j \in 1 .. i - 1 : TaskOf[order[j]] = TaskOf[order[i]]}
        l == lineage[order[i]]
    IN /\ l.retry = Cardinality(earlier)
       /\ IF earlier = {} THEN l.parent = None
          ELSE \E j \in earlier : l.parent = order[j] /\ \A k \in earlier : k <= j
====
