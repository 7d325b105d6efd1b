------------------------------- MODULE PostRunProofs -------------------------------
(***************************************************************************)
(* Theorems about PostRun, for every number of attempts, commands, times   *)
(* and recorded events.                                                    *)
(*                                                                         *)
(* What is recorded of an attempt only grows, and the last event of a kind *)
(* is the one appended last; what an adoption needs is therefore there     *)
(* when it is recorded and stays there.  That a set of positions has a     *)
(* last one is part of the invariant.                                      *)
(***************************************************************************)
EXTENDS PostRun, FiniteSetTheorems, WellFoundedInduction, TLAPS

Kind == {"review", "adoption", "cost", "energy"}

HasLast(S) == \E i \in S : \A j \in S : i >= j

EventTyped(e) ==
  /\ e.kind \in Kind
  /\ e.kind = "review" => e.verdict \in Verdict /\ e.at \in Time
  /\ e.kind = "adoption" => e.decision \in Decision /\ e.at \in Time

EvidenceTyped ==
  /\ DOMAIN evidence = Attempt
  /\ \A a \in Attempt : /\ \E S : evidence[a] \in Seq(S)
                        /\ \A i \in DOMAIN evidence[a] : EventTyped(evidence[a][i])

StatusTyped == status \in [Attempt -> {"none", "RUNNING"} \cup Ended]

\* The events of a kind have a last one.
LastKnown == \A a \in Attempt, kind \in Kind : OfKind(a, kind) # {} => HasLast(OfKind(a, kind))

\* A cost that was computed is of an attempt.
QuotesTyped == \A q \in quotes : q.attempt \in Attempt

EvidenceInv == StatusTyped /\ EvidenceTyped /\ LastKnown /\ AdoptionWasReviewed

SameTask(a) == {i \in DOMAIN order : TaskOf[order[i]] = TaskOf[a]}
Earlier(i) == {j \in 1 .. i - 1 : TaskOf[order[j]] = TaskOf[order[i]]}

\* One of some attempts is listed after all others.
IsLastListed(i, S) == \A j \in S \ {i} : ListedBefore(j, i)

\* The attempts that were prepared, and what was written down of each when it was.
ChainInv ==
  /\ StatusTyped
  /\ order \in Seq(Attempt) /\ DOMAIN lineage = Attempt
  /\ \A i \in DOMAIN order : status[order[i]] # "none"
  /\ \A a \in Attempt : SameTask(a) # {} => \E i \in SameTask(a) : IsLastListed(i, SameTask(a))

Counted == \A i \in DOMAIN order : lineage[order[i]].retry = Cardinality(Earlier(i))
\* A retry names an attempt of its task that was prepared before it.
Descends == \A i \in DOMAIN order :
  IF Earlier(i) = {} THEN lineage[order[i]].parent = None
  ELSE \E j \in Earlier(i) : lineage[order[i]].parent = order[j]

-----------------------------------------------------------------------------
LEMMA LastIsLast ==
  ASSUME NEW S, HasLast(S)
  PROVE  Max(S) \in S /\ \A j \in S : Max(S) >= j
BY DEF HasLast, Max

LEMMA Appended ==
  ASSUME NEW S, NEW s \in Seq(S), NEW e
  PROVE  /\ Append(s, e) \in Seq(S \cup {e})
         /\ Len(s) \in Nat /\ DOMAIN s = 1 .. Len(s)
         /\ DOMAIN Append(s, e) = 1 .. Len(s) + 1
         /\ \A i \in 1 .. Len(s) : Append(s, e)[i] = s[i]
         /\ Append(s, e)[Len(s) + 1] = e
<1>1. s \in Seq(S \cup {e})
  OBVIOUS
<1> QED
  BY <1>1

\* A position added behind all others is the last.
LEMMA NewLast ==
  ASSUME NEW n \in Nat, NEW S \in SUBSET (1 .. n)
  PROVE  HasLast(S \cup {n + 1})
BY DEF HasLast

\* What recording an event changes.
LEMMA Grown ==
  ASSUME EvidenceTyped, NEW a \in Attempt, NEW e, EventTyped(e),
         evidence' = [evidence EXCEPT ![a] = Append(@, e)]
  PROVE  /\ EvidenceTyped'
         /\ \A b \in Attempt \ {a} : evidence'[b] = evidence[b]
         /\ \E n \in Nat : /\ DOMAIN evidence[a] = 1 .. n
                           /\ DOMAIN evidence'[a] = 1 .. n + 1
                           /\ \A i \in 1 .. n : evidence'[a][i] = evidence[a][i]
                           /\ evidence'[a][n + 1] = e
<1>1. PICK S : evidence[a] \in Seq(S)
  BY DEF EvidenceTyped
<1>2. PICK n : n = Len(evidence[a])
  OBVIOUS
<1>3. /\ evidence'[a] = Append(evidence[a], e) /\ DOMAIN evidence' = Attempt
      /\ \A b \in Attempt \ {a} : evidence'[b] = evidence[b]
  BY DEF EvidenceTyped
<1>4. /\ n \in Nat /\ DOMAIN evidence[a] = 1 .. n /\ DOMAIN evidence'[a] = 1 .. n + 1
      /\ \A i \in 1 .. n : evidence'[a][i] = evidence[a][i]
      /\ evidence'[a][n + 1] = e /\ evidence'[a] \in Seq(S \cup {e})
  BY <1>1, <1>2, <1>3, Appended
<1>5. \A i \in DOMAIN evidence'[a] : i \in 1 .. n \/ i = n + 1
  BY <1>4
<1>6. \A i \in DOMAIN evidence'[a] : EventTyped(evidence'[a][i])
  BY <1>4, <1>5 DEF EvidenceTyped
<1>7. \A b \in Attempt : (\E T : evidence'[b] \in Seq(T))
                         /\ \A i \in DOMAIN evidence'[b] : EventTyped(evidence'[b][i])
  <2> TAKE b \in Attempt
  <2>1. CASE b = a
    BY <1>4, <1>6, <2>1
  <2>2. CASE b # a
    BY <1>3, <2>2 DEF EvidenceTyped
  <2> QED
    BY <2>1, <2>2
<1>8. EvidenceTyped'
  BY <1>3, <1>7 DEF EvidenceTyped, EventTyped
<1> QED
  BY <1>3, <1>4, <1>8

-----------------------------------------------------------------------------
(* Evidence.                                                                 *)

\* An adoption that is recorded finds what it needs; an event that is recorded takes
\* nothing away from an earlier adoption.
LEMMA RecordKeeps ==
  ASSUME EvidenceInv, NEW a \in Attempt, NEW e, EventTyped(e), e.attempt = a, Record(e),
         e.kind = "adoption" /\ e.decision \in Adopting =>
           /\ status[a] = "SUCCEEDED" /\ ReviewStatus(a) = "PASS"
           /\ OfKind(a, "review") # {} => e.at >= LastOf(a, "review").at
  PROVE  EvidenceInv'
<1>1. evidence' = [evidence EXCEPT ![a] = Append(@, e)] /\ status' = status
  BY DEF Record
<1>2. EvidenceTyped' /\ \A b \in Attempt \ {a} : evidence'[b] = evidence[b]
  BY <1>1, Grown DEF EvidenceInv
<1>3. PICK n \in Nat : /\ DOMAIN evidence[a] = 1 .. n
                       /\ DOMAIN evidence'[a] = 1 .. n + 1
                       /\ \A i \in 1 .. n : evidence'[a][i] = evidence[a][i]
                       /\ evidence'[a][n + 1] = e
  BY <1>1, Grown DEF EvidenceInv
<1>4. \A kind \in Kind : /\ OfKind(a, kind) \in SUBSET (1 .. n)
                         /\ OfKind(a, kind)' = OfKind(a, kind) \cup (IF e.kind = kind THEN {n + 1} ELSE {})
  BY <1>3 DEF OfKind
<1>5. LastKnown'
  <2> SUFFICES ASSUME NEW b \in Attempt, NEW kind \in Kind, OfKind(b, kind)' # {}
               PROVE  HasLast(OfKind(b, kind)')
    BY DEF LastKnown, HasLast
  <2>1. CASE b # a
    <3>1. OfKind(b, kind)' = OfKind(b, kind)
      BY <1>2, <2>1 DEF OfKind
    <3> QED
      BY <3>1 DEF EvidenceInv, LastKnown
  <2>2. CASE b = a /\ e.kind = kind
    BY <1>3, <1>4, <2>2, NewLast
  <2>3. CASE b = a /\ e.kind # kind
    <3>1. OfKind(b, kind)' = OfKind(b, kind)
      BY <1>4, <2>3
    <3> QED
      BY <3>1 DEF EvidenceInv, LastKnown
  <2> QED
    BY <2>1, <2>2, <2>3
<1>6. AdoptionWasReviewed'
  <2> SUFFICES ASSUME NEW b \in Attempt, NEW j \in DOMAIN evidence'[b],
                      evidence'[b][j].kind = "adoption", evidence'[b][j].decision \in Adopting
               PROVE  /\ status[b] = "SUCCEEDED"
                      /\ \E i \in {i \in 1 .. j - 1 : evidence'[b][i].kind = "review"} :
                           /\ evidence'[b][i].verdict = "PASS" /\ evidence'[b][i].at <= evidence'[b][j].at
                           /\ \A k \in {k \in 1 .. j - 1 : evidence'[b][k].kind = "review"} : k <= i
    BY <1>1 DEF AdoptionWasReviewed
  <2>1. CASE b # a
    BY <1>2, <2>1 DEF EvidenceInv, AdoptionWasReviewed
  <2>2. CASE b = a /\ j \in 1 .. n
    <3>1. /\ evidence[b][j].kind = "adoption" /\ evidence[b][j].decision \in Adopting
          /\ j \in DOMAIN evidence[b] /\ \A i \in 1 .. j - 1 : evidence'[b][i] = evidence[b][i]
          /\ evidence'[b][j] = evidence[b][j]
      BY <1>3, <2>2
    <3>2. PICK i \in {i \in 1 .. j - 1 : evidence[b][i].kind = "review"} :
                 /\ evidence[b][i].verdict = "PASS" /\ evidence[b][i].at <= evidence[b][j].at
                 /\ \A k \in {k \in 1 .. j - 1 : evidence[b][k].kind = "review"} : k <= i
      BY <3>1 DEF EvidenceInv, AdoptionWasReviewed
    <3>3. status[b] = "SUCCEEDED"
      BY <3>1 DEF EvidenceInv, AdoptionWasReviewed
    <3> QED
      BY <3>1, <3>2, <3>3
  <2>3. CASE b = a /\ j = n + 1
    <3>1. e.kind = "adoption" /\ e.decision \in Adopting /\ evidence'[b][j] = e
      BY <1>3, <2>3
    <3>2. status[a] = "SUCCEEDED" /\ OfKind(a, "review") # {} /\ LastOf(a, "review").verdict = "PASS"
      BY <3>1 DEF ReviewStatus
    <3>3. PICK i : i = Max(OfKind(a, "review"))
      OBVIOUS
    <3>4. i \in OfKind(a, "review") /\ \A k \in OfKind(a, "review") : i >= k
      BY <3>2, <3>3, LastIsLast DEF EvidenceInv, LastKnown, Kind
    <3>5. evidence[a][i].verdict = "PASS" /\ e.at >= evidence[a][i].at
      BY <3>1, <3>2, <3>3 DEF LastOf
    <3>6. i \in 1 .. n /\ evidence[a][i].kind = "review" /\ evidence'[a][i] = evidence[a][i]
      BY <1>3, <3>4 DEF OfKind
    <3>7. evidence[a][i].at \in Time /\ e.at \in Time
      BY <1>3, <3>1, <3>6 DEF EvidenceInv, EvidenceTyped, EventTyped
    <3>8. evidence[a][i].at <= e.at
      BY <3>5, <3>7, PostRunAssumption DEF Time
    <3>9. \A k \in 1 .. n : evidence'[a][k].kind = "review" => k <= i
      BY <1>3, <3>4, <3>6 DEF OfKind
    <3>10. j - 1 = n
      BY <2>3
    <3> QED
      BY <2>3, <3>1, <3>2, <3>5, <3>6, <3>8, <3>9, <3>10
  <2> QED
    BY <1>3, <2>1, <2>2, <2>3
<1>7. StatusTyped'
  BY <1>1 DEF EvidenceInv, StatusTyped
<1> QED
  BY <1>2, <1>5, <1>6, <1>7 DEF EvidenceInv

\* A step that records nothing keeps what a success has, and no success is taken back.
LEMMA NothingRecorded ==
  ASSUME EvidenceInv, evidence' = evidence, StatusTyped',
         \A a \in Attempt : status[a] = "SUCCEEDED" => status'[a] = "SUCCEEDED"
  PROVE  EvidenceInv'
<1>1. EvidenceTyped' /\ LastKnown'
  BY DEF EvidenceInv, EvidenceTyped, LastKnown, OfKind
<1>2. AdoptionWasReviewed'
  BY DEF EvidenceInv, AdoptionWasReviewed
<1> QED
  BY <1>1, <1>2 DEF EvidenceInv

LEMMA PrepareKeeps ==
  ASSUME EvidenceInv, NEW a \in Attempt, Prepare(a)
  PROVE  EvidenceInv'
<1>1. status' = [status EXCEPT ![a] = "RUNNING"] /\ status[a] = "none" /\ evidence' = evidence
  BY DEF Prepare
<1>2. StatusTyped' /\ \A b \in Attempt : status[b] = "SUCCEEDED" => status'[b] = "SUCCEEDED"
  BY <1>1 DEF EvidenceInv, StatusTyped
<1> QED
  BY <1>1, <1>2, NothingRecorded

LEMMA FinishKeeps ==
  ASSUME EvidenceInv, NEW a \in Attempt, NEW s \in Ended, Finish(a, s)
  PROVE  EvidenceInv'
<1>1. status' = [status EXCEPT ![a] = s] /\ status[a] = "RUNNING" /\ evidence' = evidence
  BY DEF Finish
<1>2. StatusTyped' /\ \A b \in Attempt : status[b] = "SUCCEEDED" => status'[b] = "SUCCEEDED"
  BY <1>1 DEF EvidenceInv, StatusTyped
<1> QED
  BY <1>1, <1>2, NothingRecorded

LEMMA ReviewKeeps ==
  ASSUME EvidenceInv, NEW a \in Attempt, NEW at \in Time, NEW verdict \in Verdict, RecordReview(a, at, verdict)
  PROVE  EvidenceInv'
<1>1. PICK e : e = [kind |-> "review", attempt |-> a, at |-> at, verdict |-> verdict]
  OBVIOUS
<1>2. Record(e) /\ EventTyped(e) /\ e.attempt = a /\ e.kind # "adoption"
  BY <1>1 DEF RecordReview, EventTyped, Kind
<1> QED
  BY <1>2, RecordKeeps

LEMMA AdoptionKeeps ==
  ASSUME EvidenceInv, NEW a \in Attempt, NEW at \in Time, NEW decision \in Decision,
         RecordAdoption(a, at, decision)
  PROVE  EvidenceInv'
<1>1. PICK e : e = [kind |-> "adoption", attempt |-> a, at |-> at, decision |-> decision]
  OBVIOUS
<1>2. Record(e) /\ EventTyped(e) /\ e.attempt = a /\ e.decision = decision /\ e.at = at
  BY <1>1 DEF RecordAdoption, EventTyped, Kind
<1>3. /\ decision \in Adopting => status[a] = "SUCCEEDED" /\ ReviewStatus(a) = "PASS"
      /\ OfKind(a, "review") # {} => at >= LastOf(a, "review").at
  BY DEF RecordAdoption, Adoptable
<1> QED
  BY <1>2, <1>3, RecordKeeps

LEMMA CostKeeps ==
  ASSUME EvidenceInv, NEW q, NEW at \in Time, q.attempt \in Attempt, RecordCost(q, at)
  PROVE  EvidenceInv'
<1>1. PICK e : e = [kind |-> "cost", attempt |-> q.attempt, at |-> at, comparable |-> q.comparable, tokens |-> q.tokens]
  OBVIOUS
<1>2. Record(e) /\ EventTyped(e) /\ e.attempt = q.attempt /\ e.kind # "adoption"
  BY <1>1 DEF RecordCost, EventTyped, Kind
<1> QED
  BY <1>2, RecordKeeps

LEMMA EnergyKeeps ==
  ASSUME EvidenceInv, NEW a \in Attempt, NEW from, NEW until, RecordEnergy(a, from, until)
  PROVE  EvidenceInv'
<1>1. PICK e : e = [kind |-> "energy", attempt |-> a, from |-> from, until |-> until]
  OBVIOUS
<1>2. Record(e) /\ EventTyped(e) /\ e.attempt = a /\ e.kind # "adoption"
  BY <1>1 DEF RecordEnergy, EventTyped, Kind
<1> QED
  BY <1>2, RecordKeeps

LEMMA RunKeeps ==
  ASSUME EvidenceInv, status' = status, evidence' = evidence
  PROVE  EvidenceInv'
BY NothingRecorded DEF EvidenceInv, StatusTyped

LEMMA QuotesTypedStep == QuotesTyped /\ [Next]_vars => QuotesTyped'
<1> SUFFICES ASSUME QuotesTyped, [Next]_vars PROVE QuotesTyped'
  OBVIOUS
<1>1. ASSUME NEW a \in Attempt, NEW comparable \in BOOLEAN, QuoteCost(a, comparable)
      PROVE  QuotesTyped'
  BY <1>1 DEF QuoteCost, QuotesTyped
<1>2. CASE quotes' \subseteq quotes
  BY <1>2 DEF QuotesTyped
<1> QED
  BY <1>1, <1>2 DEF Next, vars, Prepare, CommandStarted, CallModel, CommandFinished, Finish,
                    RecordReview, RecordAdoption, RecordCost, RecordEnergy

LEMMA EvidenceStep == QuotesTyped /\ EvidenceInv /\ [Next]_vars => EvidenceInv'
<1> SUFFICES ASSUME QuotesTyped, EvidenceInv, [Next]_vars PROVE EvidenceInv'
  OBVIOUS
<1>1. CASE status' = status /\ evidence' = evidence
  BY <1>1, RunKeeps
<1>2. CASE Next
  <2>1. CASE \E q \in quotes, at \in Time : RecordCost(q, at)
    BY <2>1, CostKeeps DEF QuotesTyped
  <2>2. ASSUME NEW a \in Attempt,
               \/ \E t \in Time : CommandStarted(a, t)
               \/ \E call \in Call : CallModel(a, call)
               \/ \E t \in {0} \cup Time, result \in Result : CommandFinished(a, t, result)
               \/ \E comparable \in BOOLEAN : QuoteCost(a, comparable)
        PROVE  EvidenceInv'
    BY <1>1, <2>2 DEF CommandStarted, CallModel, CommandFinished, QuoteCost
  <2>3. ASSUME NEW a \in Attempt, NEW at \in Time,
               \/ \E verdict \in Verdict : RecordReview(a, at, verdict)
               \/ \E decision \in Decision : RecordAdoption(a, at, decision)
               \/ \E until \in at .. MaxTime : RecordEnergy(a, at, until)
        PROVE  EvidenceInv'
    BY <2>3, ReviewKeeps, AdoptionKeeps, EnergyKeeps
  <2>4. ASSUME NEW a \in Attempt, Prepare(a) \/ \E s \in Ended : Finish(a, s)
        PROVE  EvidenceInv'
    BY <2>4, PrepareKeeps, FinishKeeps
  <2> QED
    BY <1>2, <2>1, <2>2, <2>3, <2>4 DEF Next
<1> QED
  BY <1>1, <1>2 DEF vars

LEMMA EvidenceInit == Init => EvidenceInv
<1> SUFFICES ASSUME Init PROVE EvidenceInv
  OBVIOUS
<1>1. \A a \in Attempt : evidence[a] = <<>> /\ evidence[a] \in Seq({})
  BY DEF Init
<1>2. EvidenceTyped /\ LastKnown /\ AdoptionWasReviewed
  BY <1>1 DEF Init, EvidenceTyped, LastKnown, OfKind, AdoptionWasReviewed
<1> QED
  BY <1>2 DEF Init, StatusTyped, EvidenceInv

LEMMA EvidenceInvariance == Spec => [](QuotesTyped /\ EvidenceInv)
<1>1. Init => QuotesTyped
  BY DEF Init, QuotesTyped
<1> QED
  BY <1>1, EvidenceInit, EvidenceStep, QuotesTypedStep, PTL DEF Spec

\* What was adopted had succeeded and been passed, and the pass was the last verdict before the
\* decision, in whatever order reviews, adoptions and reverts are recorded.
THEOREM AdoptionsWereReviewed == Spec => []AdoptionWasReviewed
<1>1. EvidenceInv => AdoptionWasReviewed
  BY DEF EvidenceInv
<1> QED
  BY <1>1, EvidenceInvariance, PTL

-----------------------------------------------------------------------------
(* The summary.                                                              *)

Evidenced(a) == \A kind \in Kind : OfKind(a, kind) # {}

LEMMA SettledIsEvidenced ==
  ASSUME EvidenceInv
  PROVE  \A a \in Attempt : Settled(a) <=> Evidenced(a)
<1> SUFFICES ASSUME NEW a \in Attempt PROVE Settled(a) <=> Evidenced(a)
  OBVIOUS
<1>1. ASSUME NEW kind \in Kind, OfKind(a, kind) # {}
      PROVE  EventTyped(LastOf(a, kind)) /\ LastOf(a, kind).kind = kind
  <2>1. Max(OfKind(a, kind)) \in OfKind(a, kind)
    BY <1>1, LastIsLast DEF EvidenceInv, LastKnown
  <2> QED
    BY <2>1 DEF OfKind, LastOf, EvidenceInv, EvidenceTyped
<1>2. ReviewStatus(a) # "PENDING" <=> OfKind(a, "review") # {}
  BY <1>1 DEF ReviewStatus, EventTyped, Kind, Verdict
<1>3. AdoptionStatus(a) # "PENDING" <=> OfKind(a, "adoption") # {}
  BY <1>1 DEF AdoptionStatus, EventTyped, Kind, Decision
<1> QED
  BY <1>2, <1>3 DEF Settled, Evidenced, Kind

LEMMA EvidenceStays ==
  ASSUME QuotesTyped, EvidenceInv, [Next]_vars, NEW a \in Attempt, NEW kind \in Kind
  PROVE  OfKind(a, kind) \subseteq OfKind(a, kind)'
<1>1. CASE evidence' = evidence
  BY <1>1 DEF OfKind
<1>2. ASSUME NEW e, e.attempt \in Attempt, Record(e)
      PROVE  OfKind(a, kind) \subseteq OfKind(a, kind)'
  <2>1. PICK S : evidence[a] \in Seq(S)
    BY DEF EvidenceInv, EvidenceTyped
  <2>2. evidence'[a] = evidence[a] \/ evidence'[a] = Append(evidence[a], e)
    BY <1>2 DEF Record, EvidenceInv, EvidenceTyped
  <2>3. \A i \in DOMAIN evidence[a] : i \in DOMAIN evidence'[a] /\ evidence'[a][i] = evidence[a][i]
    BY <2>1, <2>2, Appended
  <2> QED
    BY <2>3 DEF OfKind
<1>3. evidence' = evidence \/ \E e : e.attempt \in Attempt /\ Record(e)
  <2>1. CASE UNCHANGED vars
    BY <2>1 DEF vars
  <2>2. CASE Next
    <3>1. \/ evidence' = evidence
          \/ \E q \in quotes, at \in Time : RecordCost(q, at)
          \/ \E b \in Attempt, at \in Time :
               \/ \E verdict \in Verdict : RecordReview(b, at, verdict)
               \/ \E decision \in Decision : RecordAdoption(b, at, decision)
               \/ \E until \in at .. MaxTime : RecordEnergy(b, at, until)
      BY <2>2 DEF Next, Prepare, CommandStarted, CallModel, CommandFinished, Finish, QuoteCost
    <3> QED
      BY <3>1 DEF RecordReview, RecordAdoption, RecordCost, RecordEnergy, QuotesTyped
  <2> QED
    BY <2>1, <2>2
<1> QED
  BY <1>1, <1>2, <1>3

\* A summary that is complete stays so until another attempt is prepared: no review, decision,
\* cost or reading that comes later opens an attempt again.
THEOREM SummaryStaysComplete == Spec => CompleteStays
<1>1. EvidenceInv => \A a \in Attempt : Settled(a) <=> Evidenced(a)
  BY SettledIsEvidenced
<1>2. /\ QuotesTyped /\ EvidenceInv /\ [Next]_vars
      /\ \A a \in Attempt : Settled(a) <=> Evidenced(a)
      /\ (\A a \in Attempt : Settled(a) <=> Evidenced(a))'
      => [Complete /\ Metered' = Metered => Complete']_vars
  <2> SUFFICES ASSUME QuotesTyped, EvidenceInv, [Next]_vars, Complete, Metered' = Metered,
                      \A a \in Attempt : Settled(a) <=> Evidenced(a),
                      (\A a \in Attempt : Settled(a) <=> Evidenced(a))',
                      NEW a \in Metered'
               PROVE  Settled(a)'
    BY DEF Complete
  <2>1. a \in Attempt /\ Evidenced(a)
    BY DEF Complete, Metered
  <2>2. Evidenced(a)'
    BY <2>1, EvidenceStays DEF Evidenced
  <2> QED
    BY <2>1, <2>2
<1> QED
  BY <1>1, <1>2, EvidenceInvariance, PTL DEF Spec, CompleteStays

-----------------------------------------------------------------------------
(* Sums over calls.  What a recursive function computes is shown by induction over sets of *)
(* numbers.                                                                                *)

Inductive(S) == S \subseteq Nat /\ 0 \in S /\ \A n \in S : n + 1 \in S

\* The numbers below the least that were missing are fewer than those below any other.
LEMMA Induction ==
  ASSUME NEW S, Inductive(S)
  PROVE  S = Nat
<1>1. PICK R : R = StrictSubsetOrdering(Nat)
  OBVIOUS
<1>2. IsWellFoundedOn(R, FiniteSubsetsOf(Nat))
  BY <1>1, FS_StrictSubsetOrderingWellFounded
<1>3. PICK T : T = {1 .. n : n \in Nat \ S}
  OBVIOUS
<1>4. SUFFICES ASSUME S # Nat PROVE FALSE
  OBVIOUS
<1>5. T # {}
  BY <1>3, <1>4 DEF Inductive
<1>6. T \subseteq FiniteSubsetsOf(Nat)
  <2>1. \A n \in Nat : IsFiniteSet(1 .. n)
    BY FS_Interval
  <2>2. \A n \in Nat : 1 .. n \in FiniteSubsetsOf(Nat)
    BY <2>1 DEF FiniteSubsetsOf
  <2> QED
    BY <1>3, <2>2
<1>7. PICK x \in T : \A y \in T : ~ (<<y, x>> \in R)
  BY <1>2, <1>5, <1>6, WFMin
<1>8. PICK n \in Nat \ S : x = 1 .. n
  BY <1>3, <1>7
<1>9. PICK m \in Nat : n = m + 1
  <2>1. n # 0 /\ n \in Nat
    BY <1>8 DEF Inductive
  <2>2. n - 1 \in Nat /\ n = (n - 1) + 1
    BY <2>1
  <2> QED
    BY <2>2
<1>10. m \notin S
  BY <1>8, <1>9 DEF Inductive
<1>11. 1 .. m \in T
  BY <1>3, <1>10
<1>12. <<1 .. m, 1 .. n>> \in R
  <2>1. 1 .. m \subseteq 1 .. n /\ n \in 1 .. n /\ n \notin 1 .. m
    BY <1>9
  <2>2. 1 .. m # 1 .. n /\ 1 .. n \subseteq Nat
    BY <2>1
  <2> QED
    BY <1>1, <2>1, <2>2 DEF StrictSubsetOrdering
<1> QED
  BY <1>7, <1>8, <1>11, <1>12

StepsIn(step, D, n) == \A i \in 1 .. n : step[i] \in [D -> D]
Computes(f, D, start, step, n) ==
  /\ f \in [0 .. n -> D] /\ f[0] = start
  /\ \A i \in 1 .. n : f[i] = step[i][f[i - 1]]

\* There is a function that starts as given and goes on by given steps.
LEMMA Recursion ==
  ASSUME NEW D, NEW start \in D, NEW n \in Nat, NEW step, StepsIn(step, D, n)
  PROVE  \E f : Computes(f, D, start, step, n)
<1>1. PICK S : S = {k \in Nat : k <= n => \E f : Computes(f, D, start, step, k)}
  OBVIOUS
<1>2. 0 \in S
  <2>1. PICK f : f = [i \in 0 .. 0 |-> start]
    OBVIOUS
  <2>2. Computes(f, D, start, step, 0)
    BY <2>1 DEF Computes
  <2> QED
    BY <1>1, <2>2
<1>3. ASSUME NEW k \in S PROVE k + 1 \in S
  <2>1. SUFFICES ASSUME k \in Nat, k + 1 <= n PROVE \E f : Computes(f, D, start, step, k + 1)
    BY <1>1
  <2>2. PICK f : Computes(f, D, start, step, k)
    BY <1>1, <2>1
  <2>3. f[k] \in D /\ step[k + 1] \in [D -> D]
    BY <2>1, <2>2 DEF Computes, StepsIn
  <2>4. PICK d \in D : d = step[k + 1][f[k]]
    BY <2>3
  <2>5. PICK g : g = [i \in 0 .. k + 1 |-> IF i = k + 1 THEN d ELSE f[i]]
    OBVIOUS
  <2>6. ASSUME NEW i \in 1 .. k + 1 PROVE g[i] = step[i][g[i - 1]]
    <3>1. CASE i = k + 1
      BY <2>1, <2>4, <2>5, <3>1
    <3>2. CASE i # k + 1
      BY <2>1, <2>2, <2>5, <3>2 DEF Computes
    <3> QED
      BY <3>1, <3>2
  <2>7. g \in [0 .. k + 1 -> D] /\ g[0] = start
    BY <2>1, <2>2, <2>5 DEF Computes
  <2> QED
    BY <2>6, <2>7 DEF Computes
<1>4. S = Nat
  BY <1>1, <1>2, <1>3, Induction DEF Inductive
<1> QED
  BY <1>1, <1>4

\* The sums of the first amounts.
Adds(f, amount, n) ==
  /\ f \in [0 .. n -> Nat] /\ f[0] = 0
  /\ \A i \in 1 .. n : f[i] = f[i - 1] + amount[i]

Alike(v, w, k) == \A i \in 1 .. k : w[i] = v[i]

LEMMA SumsExist ==
  ASSUME NEW n \in Nat, NEW amount \in [1 .. n -> Nat]
  PROVE  \E f : Adds(f, amount, n)
<1>1. PICK step : step = [i \in 1 .. n |-> [x \in Nat |-> x + amount[i]]]
  OBVIOUS
<1>2. StepsIn(step, Nat, n)
  BY <1>1 DEF StepsIn
<1>3. PICK f : Computes(f, Nat, 0, step, n)
  BY <1>2, Recursion
<1>4. ASSUME NEW i \in 1 .. n PROVE f[i] = f[i - 1] + amount[i]
  <2>1. f[i - 1] \in Nat /\ f[i] = step[i][f[i - 1]]
    BY <1>3 DEF Computes
  <2> QED
    BY <1>1, <2>1
<1> QED
  BY <1>3, <1>4 DEF Computes, Adds

LEMMA SumsAgree ==
  ASSUME NEW n \in Nat, NEW k \in 0 .. n, NEW v, NEW w, NEW f, NEW g,
         Adds(f, v, k), Adds(g, w, n), Alike(v, w, k)
  PROVE  \A i \in 0 .. k : g[i] = f[i]
<1>1. PICK S : S = {i \in Nat : i <= k => g[i] = f[i]}
  OBVIOUS
<1>2. 0 \in S
  BY <1>1 DEF Adds
<1>3. ASSUME NEW i \in S PROVE i + 1 \in S
  <2>1. SUFFICES ASSUME i + 1 <= k PROVE g[i + 1] = f[i + 1]
    BY <1>1
  <2>2. g[i] = f[i] /\ i \in Nat
    BY <1>1, <2>1
  <2>3. f[i + 1] = f[i] + v[i + 1] /\ g[i + 1] = g[i] + w[i + 1] /\ w[i + 1] = v[i + 1]
    BY <2>1, <2>2 DEF Adds, Alike
  <2> QED
    BY <2>2, <2>3
<1>4. S = Nat
  BY <1>1, <1>2, <1>3, Induction DEF Inductive
<1> QED
  BY <1>1, <1>4

\* What Total adds up are the sums.
LEMMA TotalIsSum ==
  ASSUME NEW s \in Seq(Nat)
  PROVE  \E f : Adds(f, s, Len(s)) /\ Total(s) = f[Len(s)]
<1>0. PICK n \in Nat : n = Len(s) /\ s \in [1 .. n -> Nat]
  OBVIOUS
<1>1. PICK f : Adds(f, s, n)
  BY <1>0, SumsExist
<1>2. PICK g : g = [i \in 0 .. n |-> IF i = 0 THEN 0 ELSE f[i - 1] + s[i]]
  OBVIOUS
<1>3. ASSUME NEW i \in 0 .. n PROVE f[i] = g[i]
  BY <1>1, <1>2 DEF Adds
<1>4. f = g
  BY <1>1, <1>2, <1>3 DEF Adds
<1>5. PICK h : h = CHOOSE c : c = [i \in 0 .. n |-> IF i = 0 THEN 0 ELSE c[i - 1] + s[i]]
  OBVIOUS
<1>6. h = [i \in 0 .. n |-> IF i = 0 THEN 0 ELSE h[i - 1] + s[i]]
  BY <1>2, <1>4, <1>5
<1>7. PICK S : S = {i \in Nat : i <= n => h[i] \in Nat}
  OBVIOUS
<1>8. S = Nat
  <2>1. 0 \in S
    BY <1>6, <1>7
  <2>2. ASSUME NEW i \in S PROVE i + 1 \in S
    BY <1>0, <1>6, <1>7
  <2> QED
    BY <1>7, <2>1, <2>2, Induction DEF Inductive
<1>9. h[0] = 0 /\ \A i \in 1 .. n : h[i] = h[i - 1] + s[i]
  BY <1>6
<1>10. h = [i \in 0 .. n |-> h[i]]
  BY <1>6, Zenon
<1>11. \A i \in 0 .. n : h[i] \in Nat
  BY <1>7, <1>8
<1>12. Adds(h, s, n)
  BY <1>9, <1>10, <1>11 DEF Adds
<1>13. Total(s) = h[n]
  BY <1>0, <1>5 DEF Total
<1> QED
  BY <1>0, <1>12, <1>13

LEMMA Concatenated ==
  ASSUME NEW D, NEW s \in Seq(D), NEW t \in Seq(D)
  PROVE  /\ s \o t \in Seq(D) /\ Len(s \o t) = Len(s) + Len(t)
         /\ \A i \in 1 .. Len(s) : (s \o t)[i] = s[i]
         /\ \A i \in 1 .. Len(t) : (s \o t)[Len(s) + i] = t[i]
OBVIOUS

\* The total of amounts put together.
LEMMA TotalOfBoth ==
  ASSUME NEW s \in Seq(Nat), NEW t \in Seq(Nat)
  PROVE  Total(s \o t) = Total(s) + Total(t) /\ Total(s) \in Nat
<1>1. PICK m \in Nat : m = Len(s) /\ s \in [1 .. m -> Nat]
  OBVIOUS
<1>2. PICK n \in Nat : n = Len(t)
  OBVIOUS
<1>3. PICK u : u = s \o t
  OBVIOUS
<1>4. /\ u \in Seq(Nat) /\ Len(u) = m + n
      /\ \A i \in 1 .. m : u[i] = s[i]
      /\ \A i \in 1 .. n : u[m + i] = t[i]
  BY <1>1, <1>2, <1>3
<1>5. PICK f : Adds(f, s, m) /\ Total(s) = f[m]
  BY <1>1, TotalIsSum
<1>6. PICK g : Adds(g, t, n) /\ Total(t) = g[n]
  BY <1>2, TotalIsSum
<1>7. PICK h : Adds(h, u, m + n) /\ Total(u) = h[m + n]
  BY <1>4, TotalIsSum
<1>8. h[m] = f[m]
  <2>1. Alike(s, u, m) /\ m \in 0 .. m + n /\ m + n \in Nat
    BY <1>4 DEF Alike
  <2>2. \A i \in 0 .. m : h[i] = f[i]
    BY <1>5, <1>7, <2>1, SumsAgree
  <2> QED
    BY <2>2
<1>9. PICK S : S = {i \in Nat : i <= n => h[m + i] = f[m] + g[i]}
  OBVIOUS
<1>10. 0 \in S
  BY <1>5, <1>6, <1>8, <1>9 DEF Adds
<1>11. ASSUME NEW i \in S PROVE i + 1 \in S
  <2>1. SUFFICES ASSUME i + 1 <= n PROVE h[m + (i + 1)] = f[m] + g[i + 1]
    BY <1>9
  <2>2. i \in Nat /\ h[m + i] = f[m] + g[i] /\ f[m] \in Nat /\ g[i] \in Nat
    BY <1>5, <1>6, <1>9, <2>1 DEF Adds
  <2>3. m + (i + 1) \in 1 .. m + n /\ (m + (i + 1)) - 1 = m + i /\ i + 1 \in 1 .. n
    BY <2>1, <2>2
  <2>4. h[m + (i + 1)] = h[m + i] + u[m + (i + 1)]
    BY <1>7, <2>3 DEF Adds
  <2>5. g[i + 1] = g[(i + 1) - 1] + t[i + 1] /\ u[m + (i + 1)] = t[i + 1]
    BY <1>4, <1>6, <2>3 DEF Adds
  <2>6. t[i + 1] \in Nat /\ (i + 1) - 1 = i
    BY <1>2, <2>2, <2>3
  <2> QED
    BY <2>2, <2>4, <2>5, <2>6
<1>12. n \in S
  BY <1>9, <1>10, <1>11, Induction DEF Inductive
<1> QED
  BY <1>3, <1>5, <1>6, <1>7, <1>9, <1>12 DEF Adds

AllSeen(calls) == \A i \in DOMAIN calls : calls[i].seen

\* Calls put together.
LEMMA TokensOfBoth ==
  ASSUME NEW s \in Seq(Call), NEW t \in Seq(Call)
  PROVE  /\ Tokens(s \o t) = Tokens(s) + Tokens(t) /\ Tokens(s) \in Nat
         /\ AllSeen(s \o t) => AllSeen(s) /\ AllSeen(t)
<1>1. PICK m \in Nat : m = Len(s) /\ s \in [1 .. m -> Call]
  OBVIOUS
<1>2. PICK n \in Nat : n = Len(t) /\ t \in [1 .. n -> Call]
  OBVIOUS
<1>3. PICK u : u = s \o t
  OBVIOUS
<1>4. /\ u \in Seq(Call) /\ Len(u) = m + n /\ DOMAIN u = 1 .. m + n
      /\ \A i \in 1 .. m : u[i] = s[i]
      /\ \A i \in 1 .. n : u[m + i] = t[i]
  BY <1>1, <1>2, <1>3
<1>5. \A call \in Call : call.tokens \in Nat
  <2>1. MaxTokens \in Nat
    BY PostRunAssumption
  <2>2. ASSUME NEW call \in [seen : {TRUE}, tokens : 0 .. MaxTokens] PROVE call.tokens \in Nat
    BY <2>1
  <2>3. ASSUME NEW call \in [seen : {FALSE}, tokens : {0}] PROVE call.tokens \in Nat
    OBVIOUS
  <2> QED
    BY <2>2, <2>3 DEF Call
<1>6. PICK a : a = [i \in DOMAIN s |-> s[i].tokens]
  OBVIOUS
<1>7. PICK b : b = [i \in DOMAIN t |-> t[i].tokens]
  OBVIOUS
<1>8. PICK c : c = [i \in DOMAIN u |-> u[i].tokens]
  OBVIOUS
<1>9. a \in Seq(Nat) /\ Len(a) = m /\ \A i \in 1 .. m : a[i] = s[i].tokens
  BY <1>1, <1>5, <1>6
<1>10. b \in Seq(Nat) /\ Len(b) = n /\ \A i \in 1 .. n : b[i] = t[i].tokens
  BY <1>2, <1>5, <1>7
<1>11. c = a \o b
  <2>1. DOMAIN c = 1 .. m + n /\ \A i \in 1 .. m + n : c[i] = u[i].tokens
    BY <1>4, <1>8
  <2>2. PICK d : d = a \o b
    OBVIOUS
  <2>3. /\ d \in Seq(Nat) /\ Len(d) = m + n
        /\ \A i \in 1 .. m : d[i] = a[i]
        /\ \A i \in 1 .. n : d[m + i] = b[i]
    <3>0. a \in Seq(Nat) /\ b \in Seq(Nat)
      BY <1>9, <1>10
    <3>1. /\ a \o b \in Seq(Nat) /\ Len(a \o b) = Len(a) + Len(b)
          /\ \A i \in 1 .. Len(a) : (a \o b)[i] = a[i]
          /\ \A i \in 1 .. Len(b) : (a \o b)[Len(a) + i] = b[i]
      BY <3>0, Concatenated
    <3> QED
      BY <1>9, <1>10, <2>2, <3>1, Zenon
  <2>4. ASSUME NEW i \in 1 .. m + n PROVE c[i] = d[i]
    <3>1. CASE i <= m
      <4>1. i \in 1 .. m
        BY <3>1
      <4>2. c[i] = u[i].tokens /\ u[i] = s[i]
        BY <1>4, <2>1, <4>1
      <4>3. d[i] = a[i] /\ a[i] = s[i].tokens
        BY <1>9, <2>3, <4>1
      <4> QED
        BY <4>2, <4>3
    <3>2. CASE i > m
      <4>1. PICK j \in 1 .. n : i = m + j
        <5>1. i - m \in 1 .. n /\ i = m + (i - m)
          BY <3>2
        <5> QED
          BY <5>1
      <4> QED
        BY <1>4, <1>10, <2>1, <2>3, <3>2, <4>1
    <3> QED
      BY <3>1, <3>2
  <2>5. DOMAIN d = 1 .. m + n /\ d = [i \in 1 .. m + n |-> d[i]]
    BY <2>3
  <2>6. c = [i \in 1 .. m + n |-> c[i]]
    BY <1>4, <1>8
  <2> QED
    BY <2>2, <2>4, <2>5, <2>6
<1>12. Total(c) = Total(a) + Total(b) /\ Total(a) \in Nat
  BY <1>9, <1>10, <1>11, TotalOfBoth
<1>13. Tokens(u) = Total(c) /\ Tokens(s) = Total(a) /\ Tokens(t) = Total(b)
  BY <1>6, <1>7, <1>8 DEF Tokens
<1>14. ASSUME AllSeen(u) PROVE AllSeen(s) /\ AllSeen(t)
  <2>1. ASSUME NEW i \in 1 .. m PROVE s[i].seen
    BY <1>4, <1>14, <2>1 DEF AllSeen
  <2>2. ASSUME NEW i \in 1 .. n PROVE t[i].seen
    <3>1. m + i \in 1 .. m + n
      OBVIOUS
    <3> QED
      BY <1>4, <1>14, <3>1 DEF AllSeen
  <2> QED
    BY <1>1, <1>2, <2>1, <2>2 DEF AllSeen
<1> QED
  BY <1>3, <1>12, <1>13, <1>14

LEMMA TokensOfNone == Tokens(<< >>) = 0
<1>1. PICK a : a = [i \in DOMAIN << >> |-> << >>[i].tokens]
  OBVIOUS
<1>2. a \in Seq(Nat) /\ Len(a) = 0
  BY <1>1
<1>3. Total(a) = 0
  BY <1>2, TotalIsSum DEF Adds
<1> QED
  BY <1>1, <1>3 DEF Tokens

\* The first sequences, one after the other.
Joins(f, seqs, n) ==
  /\ f[0] = << >> /\ \A i \in 0 .. n : f[i] \in Seq(Call)
  /\ \A i \in 1 .. n : f[i] = f[i - 1] \o seqs[i]

LEMMA FlattenJoins ==
  ASSUME NEW n \in Nat \ {0}, NEW seqs \in [1 .. n -> Seq(Call)]
  PROVE  \E f : Joins(f, seqs, n) /\ FlattenSeq(seqs) = f[n]
<1>0. \A s \in Seq(Call) : << >> \o s = s
  OBVIOUS
<1>1. PICK step : step = [i \in 1 .. n |-> [s \in Seq(Call) |-> s \o seqs[i]]]
  OBVIOUS
<1>2. StepsIn(step, Seq(Call), n)
  BY <1>1 DEF StepsIn
<1>3. PICK f : Computes(f, Seq(Call), << >>, step, n)
  <2>1. << >> \in Seq(Call)
    OBVIOUS
  <2> QED
    BY <1>2, <2>1, Recursion
<1>4. Joins(f, seqs, n)
  <2>1. ASSUME NEW i \in 1 .. n PROVE f[i] = f[i - 1] \o seqs[i]
    <3>1. f[i - 1] \in Seq(Call) /\ f[i] = step[i][f[i - 1]]
      BY <1>3 DEF Computes
    <3> QED
      BY <1>1, <3>1
  <2> QED
    BY <1>3, <2>1 DEF Computes, Joins
<1>5. f[1] = seqs[1]
  <2>0. 1 \in 1 .. n
    OBVIOUS
  <2>1. f[1] = f[1 - 1] \o seqs[1] /\ f[0] = << >>
    BY <1>4, <2>0, Zenon DEF Joins
  <2>2. 1 - 1 = 0 /\ seqs[1] \in Seq(Call)
    BY <2>0
  <2> QED
    BY <1>0, <2>1, <2>2
<1>6. PICK g : g = [i \in 1 .. n |-> f[i]]
  OBVIOUS
<1>7. PICK e : e = [i \in 1 .. n |-> IF i = 1 THEN seqs[i] ELSE g[i - 1] \o seqs[i]]
  OBVIOUS
<1>8. g = e
  <2>1. ASSUME NEW i \in 1 .. n PROVE g[i] = e[i]
    <3>1. CASE i = 1
      BY <1>6, <1>7, <1>5, <3>1
    <3>2. CASE i # 1
      <4>1. i - 1 \in 1 .. n
        BY <3>2
      <4> QED
        BY <1>4, <1>6, <1>7, <3>2, <4>1 DEF Joins
    <3> QED
      BY <3>1, <3>2
  <2> QED
    BY <1>6, <1>7, <2>1
<1>9. PICK h : h = CHOOSE c : c = [i \in 1 .. n |-> IF i = 1 THEN seqs[i] ELSE c[i - 1] \o seqs[i]]
  OBVIOUS
<1>10. h = [i \in 1 .. n |-> IF i = 1 THEN seqs[i] ELSE h[i - 1] \o seqs[i]]
  BY <1>7, <1>8, <1>9
<1>11. FlattenSeq(seqs) = h[n]
  <2>1. Len(seqs) = n /\ n # 0
    OBVIOUS
  <2> QED
    BY <1>9, <2>1 DEF FlattenSeq
<1>12. PICK S : S = {i \in Nat : i + 1 <= n => h[i + 1] = f[i + 1]}
  OBVIOUS
<1>13. 0 \in S
  <2>1. h[1] = seqs[1]
    BY <1>10
  <2> QED
    BY <1>12, <1>5, <2>1
<1>14. ASSUME NEW i \in S PROVE i + 1 \in S
  <2>1. i \in Nat
    BY <1>12
  <2>2. SUFFICES ASSUME (i + 1) + 1 <= n PROVE h[(i + 1) + 1] = f[(i + 1) + 1]
    BY <1>12, <2>1
  <2>3. PICK k \in Nat : k = (i + 1) + 1 /\ k \in 1 .. n /\ k # 1 /\ k - 1 = i + 1
    BY <2>1, <2>2
  <2>4. h[k] = h[k - 1] \o seqs[k]
    BY <1>10, <2>3
  <2>5. f[k] = f[k - 1] \o seqs[k]
    BY <1>4, <2>3 DEF Joins
  <2>6. h[k - 1] = f[k - 1]
    BY <1>12, <2>2, <2>3
  <2> QED
    BY <2>3, <2>4, <2>5, <2>6
<1>15. S = Nat
  BY <1>12, <1>13, <1>14, Induction DEF Inductive
<1>16. h[n] = f[n]
  <2>1. PICK k \in Nat : k + 1 = n
    <3>1. n - 1 \in Nat /\ (n - 1) + 1 = n
      OBVIOUS
    <3> QED
      BY <3>1
  <2>2. k + 1 <= n => h[k + 1] = f[k + 1]
    BY <1>12, <1>15
  <2> QED
    BY <2>1, <2>2
<1> QED
  BY <1>4, <1>11, <1>16

\* The calls of several commands, together and one by one.
LEMMA TokensOfAll ==
  ASSUME NEW n \in Nat \ {0}, NEW seqs \in [1 .. n -> Seq(Call)]
  PROVE  /\ Tokens(FlattenSeq(seqs)) = Total([i \in 1 .. n |-> Tokens(seqs[i])])
         /\ AllSeen(FlattenSeq(seqs)) => \A i \in 1 .. n : AllSeen(seqs[i])
<1>1. PICK f : Joins(f, seqs, n) /\ FlattenSeq(seqs) = f[n]
  BY FlattenJoins
<1>2. PICK amount : amount = [i \in 1 .. n |-> Tokens(seqs[i])]
  OBVIOUS
<1>3. \A i \in 1 .. n : Tokens(seqs[i]) \in Nat
  BY TokensOfBoth
<1>4. amount \in Seq(Nat) /\ Len(amount) = n
  BY <1>2, <1>3
<1>5. PICK g : Adds(g, amount, n) /\ Total(amount) = g[n]
  BY <1>4, TotalIsSum
<1>6. ASSUME NEW i \in 1 .. n
      PROVE  /\ Tokens(f[i]) = Tokens(f[i - 1]) + amount[i]
             /\ AllSeen(f[i]) => AllSeen(f[i - 1]) /\ AllSeen(seqs[i])
  <2>0. i - 1 \in 0 .. n
    OBVIOUS
  <2>1. f[i - 1] \in Seq(Call) /\ seqs[i] \in Seq(Call) /\ f[i] = f[i - 1] \o seqs[i]
    BY <1>1, <2>0 DEF Joins
  <2>2. amount[i] = Tokens(seqs[i])
    BY <1>2
  <2>3. /\ Tokens(f[i - 1] \o seqs[i]) = Tokens(f[i - 1]) + Tokens(seqs[i])
        /\ AllSeen(f[i - 1] \o seqs[i]) => AllSeen(f[i - 1]) /\ AllSeen(seqs[i])
    BY <2>1, TokensOfBoth, Zenon
  <2> QED
    BY <2>1, <2>2, <2>3
<1>7. PICK S : S = {i \in Nat : i <= n => /\ Tokens(f[i]) = g[i]
                                          /\ AllSeen(f[i]) => \A j \in 1 .. i : AllSeen(seqs[j])}
  OBVIOUS
<1>8. 0 \in S
  <2>1. Tokens(f[0]) = g[0]
    BY <1>1, <1>5, TokensOfNone DEF Joins, Adds
  <2> QED
    BY <1>7, <2>1
<1>9. ASSUME NEW i \in S PROVE i + 1 \in S
  <2>1. PICK k \in Nat : k = i + 1 /\ k - 1 = i /\ i \in Nat
    BY <1>7
  <2>2. SUFFICES ASSUME k <= n
                 PROVE  /\ Tokens(f[k]) = g[k]
                        /\ AllSeen(f[k]) => \A j \in 1 .. k : AllSeen(seqs[j])
    BY <1>7, <2>1
  <2>3. k \in 1 .. n /\ i <= n
    BY <2>1, <2>2
  <2>4. /\ Tokens(f[k]) = Tokens(f[i]) + amount[k]
        /\ AllSeen(f[k]) => AllSeen(f[i]) /\ AllSeen(seqs[k])
    BY <1>6, <2>1, <2>3
  <2>5. g[k] = g[i] + amount[k]
    BY <1>5, <2>1, <2>3 DEF Adds
  <2>6. Tokens(f[i]) = g[i] /\ (AllSeen(f[i]) => \A j \in 1 .. i : AllSeen(seqs[j]))
    BY <1>7, <2>3
  <2>7. ASSUME AllSeen(f[k]), NEW j \in 1 .. k PROVE AllSeen(seqs[j])
    <3>1. j = k \/ j \in 1 .. i
      BY <2>1
    <3> QED
      BY <2>4, <2>6, <2>7, <3>1
  <2> QED
    BY <2>4, <2>5, <2>6, <2>7
<1>10. n \in S
  BY <1>7, <1>8, <1>9, Induction DEF Inductive
<1> QED
  BY <1>1, <1>2, <1>5, <1>7, <1>10

-----------------------------------------------------------------------------
(* The commands of an attempt, as they are recorded.                         *)

Measured == [started : Time, finished : {0} \cup Time, result : Result \cup {None}, made : Seq(Call), calls : Seq(Call)]

Known == {"SUCCEEDED", "FAILED"}   \* the results of a command whose calls are known

\* The commands before the last succeeded, and so did all of an attempt that did.
WorkOf(a) ==
  \A i \in DOMAIN work[a] :
    /\ work[a][i].result \in Known => work[a][i].finished # 0 /\ work[a][i].calls = work[a][i].made
    /\ i < Len(work[a]) => work[a][i].result = "SUCCEEDED"
    /\ i = Len(work[a]) /\ status[a] \in Known => work[a][i].result \in Known

WorkInv ==
  /\ StatusTyped
  /\ work \in [Attempt -> Seq(Measured)]
  /\ \A a \in Attempt : WorkOf(a)

\* One more command.
LEMMA Spawned ==
  ASSUME WorkInv, NEW a \in Attempt, NEW t \in Time, CommandStarted(a, t)
  PROVE  \E n \in Nat, c \in Measured :
           /\ DOMAIN work[a] = 1 .. n /\ DOMAIN work'[a] = 1 .. n + 1 /\ Len(work'[a]) = n + 1
           /\ \A i \in 1 .. n : work'[a][i] = work[a][i] /\ work[a][i].result = "SUCCEEDED"
           /\ work'[a][n + 1] = c /\ c.result = None /\ c.calls = <<>>
           /\ work' \in [Attempt -> Seq(Measured)] /\ \A b \in Attempt \ {a} : work'[b] = work[b]
<1>1. PICK c : c = [started |-> t, finished |-> 0, result |-> None, made |-> <<>>, calls |-> <<>>]
  OBVIOUS
<1>2. c \in Measured
  BY <1>1 DEF Measured
<1>3. PICK old \in Seq(Measured) : old = work[a]
  BY DEF WorkInv
<1>4. PICK n \in Nat : n = Len(old) /\ DOMAIN old = 1 .. n
  OBVIOUS
<1>5. PICK new : new = Append(old, c)
  OBVIOUS
<1>6. /\ new \in Seq(Measured) /\ Len(new) = n + 1 /\ DOMAIN new = 1 .. n + 1
      /\ \A i \in 1 .. n : new[i] = old[i]
      /\ new[n + 1] = c
  BY <1>2, <1>4, <1>5
<1>7. work' = [work EXCEPT ![a] = new]
  BY <1>1, <1>3, <1>5 DEF CommandStarted
<1>8. \A i \in 1 .. n : work[a][i].result = "SUCCEEDED"
  BY <1>3, <1>4 DEF CommandStarted, ToSet
<1>9. work'[a] = new /\ work' \in [Attempt -> Seq(Measured)] /\ \A b \in Attempt \ {a} : work'[b] = work[b]
  BY <1>6, <1>7 DEF WorkInv
<1>10. /\ DOMAIN work[a] = 1 .. n /\ DOMAIN work'[a] = 1 .. n + 1 /\ Len(work'[a]) = n + 1
       /\ \A i \in 1 .. n : work'[a][i] = work[a][i] /\ work[a][i].result = "SUCCEEDED"
       /\ work'[a][n + 1] = c /\ c.result = None /\ c.calls = <<>>
  BY <1>1, <1>3, <1>4, <1>6, <1>8, <1>9
<1> QED
  BY <1>2, <1>9, <1>10

\* The last command, when it is written again.
LEMMA Rewritten ==
  ASSUME WorkInv, NEW a \in Attempt, work[a] # <<>>, NEW c \in Measured,
         work' = [work EXCEPT ![a] = [work[a] EXCEPT ![Len(work[a])] = c]]
  PROVE  \E n \in Nat \ {0} :
           /\ n = Len(work[a]) /\ DOMAIN work[a] = 1 .. n /\ DOMAIN work'[a] = 1 .. n /\ Len(work'[a]) = n
           /\ \A i \in 1 .. n : i # n => work'[a][i] = work[a][i]
           /\ work[a][n] \in Measured /\ Last(work[a]) = work[a][n] /\ work'[a][n] = c
           /\ work' \in [Attempt -> Seq(Measured)] /\ \A b \in Attempt \ {a} : work'[b] = work[b]
<1>1. PICK old \in Seq(Measured) : old = work[a]
  BY DEF WorkInv
<1>2. PICK n \in Nat \ {0} : n = Len(old) /\ old \in [1 .. n -> Measured]
  BY <1>1
<1>3. PICK new : new = [old EXCEPT ![n] = c]
  OBVIOUS
<1>4. new \in [1 .. n -> Measured] /\ new[n] = c /\ \A i \in 1 .. n : i # n => new[i] = old[i]
  BY <1>2, <1>3
<1>5. new \in Seq(Measured) /\ Len(new) = n
  BY <1>4
<1>6. work' = [work EXCEPT ![a] = new]
  BY <1>1, <1>2, <1>3
<1>7. work'[a] = new /\ work' \in [Attempt -> Seq(Measured)] /\ \A b \in Attempt \ {a} : work'[b] = work[b]
  BY <1>5, <1>6 DEF WorkInv
<1>8. /\ n = Len(work[a]) /\ DOMAIN work[a] = 1 .. n /\ DOMAIN work'[a] = 1 .. n /\ Len(work'[a]) = n
      /\ \A i \in 1 .. n : i # n => work'[a][i] = work[a][i]
      /\ work[a][n] \in Measured /\ work'[a][n] = c
  <2>1. DOMAIN old = 1 .. n /\ old[n] \in Measured /\ DOMAIN new = 1 .. n
    BY <1>2, <1>4
  <2> QED
    BY <1>1, <1>2, <1>4, <1>5, <1>7, <2>1
<1>9. Last(work[a]) = work[a][n]
  BY <1>8 DEF Last
<1> QED
  BY <1>7, <1>8, <1>9

\* What a model call, and the end of a command, write.
LEMMA Called ==
  ASSUME WorkInv, NEW a \in Attempt, NEW call \in Call, CallModel(a, call)
  PROVE  /\ work[a] # <<>> /\ Last(work[a]).finished = 0
         /\ \E c \in Measured :
              /\ work' = [work EXCEPT ![a] = [work[a] EXCEPT ![Len(work[a])] = c]]
              /\ c.result = work[a][Len(work[a])].result /\ c.calls = work[a][Len(work[a])].calls
              /\ c.finished = work[a][Len(work[a])].finished
<1>1. work[a] # <<>> /\ Last(work[a]).finished = 0 /\ work[a] \in Seq(Measured)
  BY DEF CallModel, WorkInv
<1>2. PICK n \in Nat \ {0} : n = Len(work[a])
  BY <1>1
<1>3. work[a][n] \in Measured
  BY <1>1, <1>2
<1>4. PICK c : c = [work[a][n] EXCEPT !.made = Append(work[a][n].made, call)]
  OBVIOUS
<1>5. /\ c \in Measured
      /\ c.result = work[a][n].result /\ c.calls = work[a][n].calls /\ c.finished = work[a][n].finished
  <2>1. PICK old \in Measured : old = work[a][n]
    BY <1>3
  <2>2. PICK made : made = Append(old.made, call)
    OBVIOUS
  <2>3. made \in Seq(Call)
    BY <2>1, <2>2 DEF Measured
  <2>4. c = [old EXCEPT !.made = made]
    BY <1>4, <2>1, <2>2
  <2>5. /\ c.started = old.started /\ c.finished = old.finished /\ c.result = old.result
        /\ c.made = made /\ c.calls = old.calls
        /\ c = [started |-> c.started, finished |-> c.finished, result |-> c.result, made |-> c.made, calls |-> c.calls]
    BY <2>1, <2>4 DEF Measured
  <2>6. c \in Measured
    BY <2>1, <2>3, <2>5 DEF Measured
  <2> QED
    BY <2>1, <2>5, <2>6
<1>6. work' = [work EXCEPT ![a] = [work[a] EXCEPT ![n] = c]]
  BY <1>1, <1>2, <1>4 DEF CallModel
<1> QED
  BY <1>1, <1>2, <1>5, <1>6

AnswerWritten(a, result) ==
  \E c \in Measured :
    /\ work' = [work EXCEPT ![a] = [work[a] EXCEPT ![Len(work[a])] = c]]
    /\ c.result = result /\ (result \in Known => c.finished # 0 /\ c.calls = c.made)

LEMMA Returned ==
  ASSUME WorkInv, NEW a \in Attempt, NEW t \in {0} \cup Time, NEW result \in Result, CommandFinished(a, t, result)
  PROVE  work[a] # <<>> /\ work[a][Len(work[a])].result = None /\ AnswerWritten(a, result)
<1>1. work[a] # <<>> /\ Last(work[a]).result = None /\ work[a] \in Seq(Measured)
  BY DEF CommandFinished, WorkInv
<1>2. PICK n \in Nat \ {0} : n = Len(work[a])
  BY <1>1
<1>3. PICK old \in Measured : old = work[a][n]
  BY <1>1, <1>2
<1>4. PICK calls \in {old.made, <<>>} :
        /\ t >= old.started \/ result = "RECOVERY_REQUIRED"
        /\ calls = old.made \/ result = "RECOVERY_REQUIRED"
        /\ work' = [work EXCEPT ![a][n] = [old EXCEPT !.finished = t, !.result = result, !.calls = calls]]
  BY <1>2, <1>3 DEF CommandFinished
<1>5. PICK c : c = [old EXCEPT !.finished = t, !.result = result, !.calls = calls]
  OBVIOUS
<1>6. calls \in Seq(Call) /\ old.started \in Time
  <2>1. old.started \in Time /\ old.made \in Seq(Call)
    BY <1>3 DEF Measured
  <2>2. <<>> \in Seq(Call)
    OBVIOUS
  <2> QED
    BY <1>4, <2>1, <2>2
<1>7. c \in Measured /\ c.result = result /\ c.finished = t /\ c.calls = calls /\ c.made = old.made
  BY <1>3, <1>5, <1>6 DEF Measured
<1>8. result \in Known => c.finished # 0 /\ c.calls = c.made
  BY <1>4, <1>6, <1>7 DEF Known, Time
<1>9. work' = [work EXCEPT ![a] = [work[a] EXCEPT ![n] = c]]
  BY <1>4, <1>5
<1> QED
  BY <1>1, <1>2, <1>7, <1>8, <1>9 DEF Last, AnswerWritten

\* The attempt that a step writes, and the others.
LEMMA OneWritten ==
  ASSUME WorkInv, NEW a \in Attempt, StatusTyped', work' \in [Attempt -> Seq(Measured)], WorkOf(a)',
         \A b \in Attempt \ {a} : work'[b] = work[b] /\ status'[b] = status[b]
  PROVE  WorkInv'
<1>1. ASSUME NEW b \in Attempt PROVE WorkOf(b)'
  <2>1. CASE b # a
    <3>1. WorkOf(b) /\ work'[b] = work[b] /\ status'[b] = status[b]
      BY <2>1 DEF WorkInv
    <3>2. PICK w, s : w = work[b] /\ s = status[b]
      OBVIOUS
    <3> QED
      BY <3>1, <3>2 DEF WorkOf
  <2> QED
    BY <2>1
<1> QED
  BY <1>1 DEF WorkInv

LEMMA StartKeepsWork ==
  ASSUME WorkInv, NEW a \in Attempt, NEW t \in Time, CommandStarted(a, t)
  PROVE  WorkInv'
<1>1. PICK n \in Nat, c \in Measured :
           /\ DOMAIN work[a] = 1 .. n /\ DOMAIN work'[a] = 1 .. n + 1 /\ Len(work'[a]) = n + 1
           /\ \A i \in 1 .. n : work'[a][i] = work[a][i] /\ work[a][i].result = "SUCCEEDED"
           /\ work'[a][n + 1] = c /\ c.result = None /\ c.calls = <<>>
           /\ work' \in [Attempt -> Seq(Measured)] /\ \A b \in Attempt \ {a} : work'[b] = work[b]
  BY Spawned
<1>2. status' = status /\ status[a] = "RUNNING"
  BY DEF CommandStarted
<1>3. ASSUME NEW i \in 1 .. n + 1
      PROVE  /\ work'[a][i].result \in Known => work'[a][i].finished # 0 /\ work'[a][i].calls = work'[a][i].made
             /\ i < n + 1 => work'[a][i].result = "SUCCEEDED"
             /\ i = n + 1 /\ status'[a] \in Known => work'[a][i].result \in Known
  <2>1. CASE i \in 1 .. n
    BY <1>1, <1>2, <2>1 DEF WorkInv, WorkOf
  <2>2. CASE i = n + 1
    BY <1>1, <1>2, <2>2, PostRunAssumption DEF Known
  <2> QED
    BY <2>1, <2>2
<1>4. WorkOf(a)'
  BY <1>1, <1>3 DEF WorkOf
<1>5. StatusTyped'
  BY <1>2 DEF WorkInv, StatusTyped
<1> QED
  BY <1>1, <1>2, <1>4, <1>5, OneWritten

\* The last command gets another record, with the same result, or with one it did not have.
LEMMA RewriteKeepsWork ==
  ASSUME WorkInv, NEW a \in Attempt, work[a] # <<>>, NEW c \in Measured,
         work' = [work EXCEPT ![a] = [work[a] EXCEPT ![Len(work[a])] = c]], status' = status,
         c.result \in Known => c.finished # 0 /\ c.calls = c.made,
         status[a] \in Known => c.result = work[a][Len(work[a])].result
  PROVE  WorkInv'
<1>1. PICK n \in Nat \ {0} :
           /\ n = Len(work[a]) /\ DOMAIN work[a] = 1 .. n /\ DOMAIN work'[a] = 1 .. n /\ Len(work'[a]) = n
           /\ \A i \in 1 .. n : i # n => work'[a][i] = work[a][i]
           /\ work'[a][n] = c
           /\ work' \in [Attempt -> Seq(Measured)] /\ \A b \in Attempt \ {a} : work'[b] = work[b]
  BY Rewritten
<1>2. ASSUME NEW i \in 1 .. n
      PROVE  /\ work'[a][i].result \in Known => work'[a][i].finished # 0 /\ work'[a][i].calls = work'[a][i].made
             /\ i < n => work'[a][i].result = "SUCCEEDED"
             /\ i = n /\ status'[a] \in Known => work'[a][i].result \in Known
  <2>1. CASE i # n
    BY <1>1, <2>1 DEF WorkInv, WorkOf
  <2>2. CASE i = n
    <3>1. status[a] \in Known => work[a][n].result \in Known
      BY <1>1 DEF WorkInv, WorkOf
    <3> QED
      BY <1>1, <2>2, <3>1
  <2> QED
    BY <2>1, <2>2
<1>3. WorkOf(a)'
  BY <1>1, <1>2 DEF WorkOf
<1>4. StatusTyped'
  BY DEF WorkInv, StatusTyped
<1> QED
  BY <1>1, <1>3, <1>4, OneWritten

LEMMA CallKeepsWork ==
  ASSUME WorkInv, NEW a \in Attempt, NEW call \in Call, CallModel(a, call)
  PROVE  WorkInv'
<1>1. PICK c \in Measured :
        /\ work' = [work EXCEPT ![a] = [work[a] EXCEPT ![Len(work[a])] = c]]
        /\ c.result = work[a][Len(work[a])].result
  BY Called
<1>2. work[a] # <<>> /\ Last(work[a]).finished = 0
  BY Called
<1>3. PICK n \in Nat \ {0} : n = Len(work[a]) /\ DOMAIN work[a] = 1 .. n /\ Last(work[a]) = work[a][n]
  <2>1. PICK s \in Seq(Measured) : s = work[a]
    BY DEF WorkInv
  <2>2. Len(s) \in Nat \ {0} /\ DOMAIN s = 1 .. Len(s) /\ Last(s) = s[Len(s)]
    BY <1>2, <2>1 DEF Last
  <2> QED
    BY <2>1, <2>2
<1>4. c.result \notin Known
  BY <1>1, <1>2, <1>3 DEF WorkInv, WorkOf
<1>5. status' = status
  BY DEF CallModel
<1> QED
  BY <1>1, <1>2, <1>4, <1>5, RewriteKeepsWork

LEMMA ReturnKeepsWork ==
  ASSUME WorkInv, NEW a \in Attempt, NEW t \in {0} \cup Time, NEW result \in Result, CommandFinished(a, t, result)
  PROVE  WorkInv'
<1>1. PICK c \in Measured :
        /\ work' = [work EXCEPT ![a] = [work[a] EXCEPT ![Len(work[a])] = c]]
        /\ c.result = result /\ (result \in Known => c.finished # 0 /\ c.calls = c.made)
  BY Returned DEF AnswerWritten
<1>2. work[a] # <<>>
  BY Returned
<1>3. status' = status /\ status[a] \notin Known
  BY DEF CommandFinished, Known
<1> QED
  BY <1>1, <1>2, <1>3, RewriteKeepsWork

LEMMA FinishKeepsWork ==
  ASSUME WorkInv, NEW a \in Attempt, NEW s \in Ended, Finish(a, s)
  PROVE  WorkInv'
<1>1. work' = work /\ status' = [status EXCEPT ![a] = s]
  BY DEF Finish
<1>2. StatusTyped' /\ status'[a] = s /\ \A b \in Attempt \ {a} : status'[b] = status[b]
  BY <1>1 DEF WorkInv, StatusTyped
<1>3. s \in Known => Last(work[a]).result \in Known
  BY DEF Finish, Known
<1>4. s \in Known => work[a][Len(work[a])].result \in Known
  BY <1>3 DEF Last
<1>5. WorkOf(a)'
  BY <1>1, <1>2, <1>4 DEF WorkInv, WorkOf
<1> QED
  BY <1>1, <1>2, <1>5, OneWritten DEF WorkInv

LEMMA WorkStep == WorkInv /\ [Next]_vars => WorkInv'
<1> SUFFICES ASSUME WorkInv, [Next]_vars PROVE WorkInv'
  OBVIOUS
<1>1. CASE work' = work /\ status' = status
  BY <1>1 DEF WorkInv, WorkOf, StatusTyped
<1>2. ASSUME NEW a \in Attempt, Prepare(a)
      PROVE  WorkInv'
  <2>1. work' = work /\ status' = [status EXCEPT ![a] = "RUNNING"]
    BY <1>2 DEF Prepare
  <2>2. StatusTyped' /\ status'[a] = "RUNNING" /\ \A b \in Attempt \ {a} : status'[b] = status[b]
    BY <2>1 DEF WorkInv, StatusTyped
  <2>3. WorkOf(a)'
    BY <2>1, <2>2 DEF WorkInv, WorkOf, Known
  <2> QED
    BY <2>1, <2>2, <2>3, OneWritten DEF WorkInv
<1>3. CASE Next
  <2>1. CASE \E a \in Attempt :
               \/ \E comparable \in BOOLEAN : QuoteCost(a, comparable)
               \/ \E at \in Time :
                    \/ \E verdict \in Verdict : RecordReview(a, at, verdict)
                    \/ \E decision \in Decision : RecordAdoption(a, at, decision)
                    \/ \E until \in at .. MaxTime : RecordEnergy(a, at, until)
    BY <1>1, <2>1 DEF QuoteCost, RecordReview, RecordAdoption, RecordEnergy, Record
  <2>2. CASE \E q \in quotes, at \in Time : RecordCost(q, at)
    BY <1>1, <2>2 DEF RecordCost, Record
  <2> QED
    BY <1>2, <1>3, <2>1, <2>2, StartKeepsWork, CallKeepsWork, ReturnKeepsWork, FinishKeepsWork DEF Next
<1> QED
  BY <1>1, <1>3 DEF vars

LEMMA WorkInit == Init => WorkInv
BY DEF Init, WorkInv, WorkOf, StatusTyped

\* What a step does to the record of an attempt: nothing, a command is spawned, or one has a
\* result that had none; an attempt that has ended stays as it ended.
Kept(a) ==
  /\ DOMAIN work'[a] = DOMAIN work[a]
  /\ \A i \in DOMAIN work[a] : work'[a][i].calls = work[a][i].calls /\ work'[a][i].result = work[a][i].result
Longer(a) ==
  \E n \in Nat :
    /\ DOMAIN work[a] = 1 .. n /\ DOMAIN work'[a] = 1 .. n + 1
    /\ \A i \in 1 .. n : work'[a][i].calls = work[a][i].calls /\ work'[a][i].result = work[a][i].result
    /\ work'[a][n + 1].calls = <<>> /\ work'[a][n + 1].result = None
Answered(a) ==
  /\ Results(a) \subseteq Results(a)'
  /\ \E n \in Results(a)' : n \notin Results(a)

LEMMA WorkChanges ==
  ASSUME WorkInv, [Next]_vars, NEW a \in Attempt
  PROVE  /\ Kept(a) \/ (status[a] = "RUNNING" /\ (Longer(a) \/ Answered(a)))
         /\ status[a] \in Ended => status'[a] = status[a]
<1> USE PostRunAssumption
<1>1. CASE work' = work
  <2>1. status' = status \/ (\E b \in Attempt : Prepare(b) \/ \E s \in Ended : Finish(b, s))
    <3>1. CASE UNCHANGED vars
      BY <3>1 DEF vars
    <3>2. ASSUME NEW b \in Attempt,
                 \/ \E t \in Time : CommandStarted(b, t)
                 \/ \E t \in {0} \cup Time, result \in Result : CommandFinished(b, t, result)
                 \/ \E call \in Call : CallModel(b, call)
                 \/ \E comparable \in BOOLEAN : QuoteCost(b, comparable)
                 \/ \E at \in Time : \/ \E verdict \in Verdict : RecordReview(b, at, verdict)
                                     \/ \E decision \in Decision : RecordAdoption(b, at, decision)
                                     \/ \E until \in at .. MaxTime : RecordEnergy(b, at, until)
          PROVE  status' = status
      BY <3>2 DEF CommandStarted, CallModel, CommandFinished, QuoteCost, RecordReview,
                  RecordAdoption, RecordEnergy, Record
    <3>3. ASSUME NEW q \in quotes, NEW at \in Time, RecordCost(q, at) PROVE status' = status
      BY <3>3 DEF RecordCost, Record
    <3> QED
      BY <3>1, <3>2, <3>3 DEF Next
  <2>2. status[a] \in Ended => status'[a] = status[a]
    BY <2>1 DEF Prepare, Finish, WorkInv, StatusTyped, Ended
  <2> QED
    BY <1>1, <2>2 DEF Kept
<1>2. ASSUME NEW b \in Attempt, NEW t \in Time, CommandStarted(b, t)
      PROVE  status' = status /\ (Kept(a) \/ (status[a] = "RUNNING" /\ Longer(a)))
  <2>1. PICK n \in Nat, c \in Measured :
           /\ DOMAIN work[b] = 1 .. n /\ DOMAIN work'[b] = 1 .. n + 1
           /\ \A i \in 1 .. n : work'[b][i] = work[b][i]
           /\ work'[b][n + 1] = c /\ c.result = None /\ c.calls = <<>>
           /\ \A d \in Attempt \ {b} : work'[d] = work[d]
    BY <1>2, Spawned
  <2>2. status' = status /\ status[b] = "RUNNING"
    BY <1>2 DEF CommandStarted
  <2>3. CASE a = b
    BY <2>1, <2>2, <2>3 DEF Longer
  <2>4. CASE a # b
    BY <2>1, <2>2, <2>4 DEF Kept
  <2> QED
    BY <2>3, <2>4
<1>3. ASSUME NEW b \in Attempt, NEW call \in Call, CallModel(b, call)
      PROVE  status' = status /\ Kept(a)
  <2>1. work[b] # <<>>
    BY <1>3, Called
  <2>2. PICK c \in Measured :
              /\ work' = [work EXCEPT ![b] = [work[b] EXCEPT ![Len(work[b])] = c]]
              /\ c.result = work[b][Len(work[b])].result /\ c.calls = work[b][Len(work[b])].calls
    BY <1>3, Called
  <2>3. PICK n \in Nat \ {0} :
           /\ n = Len(work[b]) /\ DOMAIN work[b] = 1 .. n /\ DOMAIN work'[b] = 1 .. n
           /\ \A i \in 1 .. n : i # n => work'[b][i] = work[b][i]
           /\ work'[b][n] = c
           /\ \A d \in Attempt \ {b} : work'[d] = work[d]
    BY <2>1, <2>2, Rewritten
  <2>4. status' = status
    BY <1>3 DEF CallModel
  <2> QED
    BY <2>2, <2>3, <2>4 DEF Kept
<1>4. ASSUME NEW b \in Attempt, NEW t \in {0} \cup Time, NEW result \in Result, CommandFinished(b, t, result)
      PROVE  status' = status /\ (Kept(a) \/ (status[a] = "RUNNING" /\ Answered(a)))
  <2>1. work[b] # <<>> /\ work[b][Len(work[b])].result = None /\ AnswerWritten(b, result)
    BY <1>4, Returned
  <2>2. PICK c \in Measured :
              work' = [work EXCEPT ![b] = [work[b] EXCEPT ![Len(work[b])] = c]] /\ c.result = result
    BY <2>1 DEF AnswerWritten
  <2>3. PICK n \in Nat \ {0} :
           /\ n = Len(work[b]) /\ DOMAIN work[b] = 1 .. n /\ DOMAIN work'[b] = 1 .. n
           /\ \A i \in 1 .. n : i # n => work'[b][i] = work[b][i]
           /\ work'[b][n] = c
           /\ \A d \in Attempt \ {b} : work'[d] = work[d]
    BY <2>1, <2>2, Rewritten
  <2>4. status' = status /\ status[b] = "RUNNING" /\ result # None
    BY <1>4 DEF CommandFinished, Result
  <2>5. CASE a = b
    <3>1. n \in Results(a)' /\ n \notin Results(a)
      BY <2>1, <2>2, <2>3, <2>4, <2>5 DEF Results
    <3>2. Results(a) \subseteq Results(a)'
      BY <2>1, <2>3, <2>5 DEF Results
    <3> QED
      BY <2>4, <2>5, <3>1, <3>2 DEF Answered
  <2>6. CASE a # b
    BY <2>3, <2>4, <2>6 DEF Kept
  <2> QED
    BY <2>5, <2>6
<1>5. \/ work' = work
      \/ \E b \in Attempt : \/ \E t \in Time : CommandStarted(b, t)
                            \/ \E call \in Call : CallModel(b, call)
                            \/ \E t \in {0} \cup Time, result \in Result : CommandFinished(b, t, result)
  <2>1. CASE UNCHANGED vars
    BY <2>1 DEF vars
  <2>2. ASSUME NEW b \in Attempt,
               \/ Prepare(b)
               \/ \E s \in Ended : Finish(b, s)
               \/ \E comparable \in BOOLEAN : QuoteCost(b, comparable)
               \/ \E at \in Time : \/ \E verdict \in Verdict : RecordReview(b, at, verdict)
                                   \/ \E decision \in Decision : RecordAdoption(b, at, decision)
                                   \/ \E until \in at .. MaxTime : RecordEnergy(b, at, until)
        PROVE  work' = work
    BY <2>2 DEF Prepare, Finish, QuoteCost, RecordReview, RecordAdoption, RecordEnergy, Record
  <2>3. ASSUME NEW q \in quotes, NEW at \in Time, RecordCost(q, at) PROVE work' = work
    BY <2>3 DEF RecordCost, Record
  <2> QED
    BY <2>1, <2>2, <2>3 DEF Next
<1> QED
  BY <1>1, <1>2, <1>3, <1>4, <1>5

-----------------------------------------------------------------------------
(* What a cost covers.                                                       *)

\* The tokens are those of all calls that are recorded, none of which lacks its usage.
Covered(a, tokens) ==
  /\ \A i \in DOMAIN work[a] : AllSeen(work[a][i].calls)
  /\ tokens = Total([i \in DOMAIN work[a] |-> Tokens(work[a][i].calls)])

\* Usage that is known was seen of every call, and is that of all commands.
LEMMA UsageCovers ==
  ASSUME NEW a \in Attempt, WorkInv, Usage(a) # None
  PROVE  Covered(a, Usage(a))
<1>1. PICK n \in Nat : n = Len(work[a]) /\ work[a] \in [1 .. n -> Measured]
  BY DEF WorkInv
<1>2. PICK seqs : seqs = [i \in 1 .. n |-> work[a][i].calls]
  OBVIOUS
<1>3. seqs \in [1 .. n -> Seq(Call)]
  BY <1>1, <1>2 DEF Measured
<1>4. Calls(a) = FlattenSeq(seqs)
  BY <1>1, <1>2 DEF Calls
<1>5. /\ FlattenSeq(seqs) # << >> /\ AllSeen(FlattenSeq(seqs))
      /\ Usage(a) = Tokens(FlattenSeq(seqs))
  BY <1>4 DEF Usage, AllSeen
<1>6. n # 0
  <2>1. n = 0 => seqs = << >> /\ Len(seqs) = 0
    BY <1>2
  <2> QED
    BY <1>5, <2>1 DEF FlattenSeq
<1>7. /\ Tokens(FlattenSeq(seqs)) = Total([i \in 1 .. n |-> Tokens(seqs[i])])
      /\ \A i \in 1 .. n : AllSeen(seqs[i])
  BY <1>3, <1>5, <1>6, TokensOfAll
<1>8. [i \in 1 .. n |-> Tokens(seqs[i])] = [i \in DOMAIN work[a] |-> Tokens(work[a][i].calls)]
  BY <1>1, <1>2
<1> QED
  BY <1>1, <1>2, <1>5, <1>7, <1>8 DEF Covered

\* A command that is spawned has made no call yet.
LEMMA CoveredStays ==
  ASSUME WorkInv, NEW a \in Attempt, NEW tokens, Covered(a, tokens), Kept(a) \/ Longer(a)
  PROVE  Covered(a, tokens)'
<1>1. CASE Kept(a)
  <2>1. [i \in DOMAIN work'[a] |-> Tokens(work'[a][i].calls)] = [i \in DOMAIN work[a] |-> Tokens(work[a][i].calls)]
    BY <1>1 DEF Kept
  <2> QED
    BY <1>1, <2>1 DEF Kept, Covered
<1>2. CASE Longer(a)
  <2>1. PICK n \in Nat :
          /\ DOMAIN work[a] = 1 .. n /\ DOMAIN work'[a] = 1 .. n + 1
          /\ \A i \in 1 .. n : work'[a][i].calls = work[a][i].calls
          /\ work'[a][n + 1].calls = <<>>
    BY <1>2 DEF Longer
  <2>2. PICK s : s = [i \in 1 .. n |-> Tokens(work[a][i].calls)]
    OBVIOUS
  <2>3. \A i \in 1 .. n : Tokens(work[a][i].calls) \in Nat
    <3>1. \A i \in 1 .. n : work[a][i] \in Measured
      BY <2>1 DEF WorkInv
    <3>2. \A i \in 1 .. n : work[a][i].calls \in Seq(Call)
      BY <3>1 DEF Measured
    <3> QED
      BY <3>2, TokensOfBoth
  <2>4. s \in Seq(Nat) /\ Len(s) = n
    BY <2>2, <2>3
  <2>5. [i \in 1 .. n + 1 |-> Tokens(work'[a][i].calls)] = s \o <<0>>
    <3>1. \A i \in 1 .. n + 1 : i \in 1 .. n \/ i = n + 1
      OBVIOUS
    <3>2. \A i \in 1 .. n + 1 : Tokens(work'[a][i].calls) = IF i \in 1 .. n THEN s[i] ELSE 0
      BY <2>1, <2>2, <3>1, TokensOfNone
    <3> QED
      BY <2>4, <3>2
  <2>6. Total(<<0>>) = 0
    <3>1. <<0>> \in Seq(Nat) /\ Len(<<0>>) = 1
      OBVIOUS
    <3>2. PICK g : Adds(g, <<0>>, 1) /\ Total(<<0>>) = g[1]
      BY <3>1, TotalIsSum
    <3> QED
      BY <3>2 DEF Adds
  <2>7. Total(s \o <<0>>) = Total(s)
    <3>1. <<0>> \in Seq(Nat)
      OBVIOUS
    <3>2. Total(s \o <<0>>) = Total(s) + Total(<<0>>) /\ Total(s) \in Nat
      BY <2>4, <3>1, TotalOfBoth
    <3> QED
      BY <2>6, <3>2
  <2>8. \A i \in 1 .. n + 1 : AllSeen(work'[a][i].calls)
    BY <2>1 DEF Covered, AllSeen
  <2> QED
    BY <2>1, <2>2, <2>5, <2>7, <2>8 DEF Covered
<1> QED
  BY <1>1, <1>2

CostCovered(a, e) == e.kind = "cost" /\ e.comparable => Covered(a, e.tokens)

\* A cost that is computed is of the calls recorded so far; as long as no further result is, it
\* remains right, and afterwards it names other results.  An attempt that has evidence has ended.
CostInv ==
  /\ EvidenceInv /\ WorkInv
  /\ \A a \in Attempt : DOMAIN evidence[a] # {} => status[a] \in Ended
  /\ \A a \in Attempt : \A i \in DOMAIN evidence[a] : CostCovered(a, evidence[a][i])
  /\ \A q \in quotes : /\ q.attempt \in Attempt
                       /\ q.results \subseteq Results(q.attempt)
                       /\ q.comparable /\ q.results = Results(q.attempt) => Covered(q.attempt, q.tokens)

LEMMA ResultsStay ==
  ASSUME WorkInv, NEW a \in Attempt, Kept(a) \/ Longer(a)
  PROVE  Results(a)' = Results(a)
<1>1. CASE Kept(a)
  BY <1>1 DEF Kept, Results
<1>2. CASE Longer(a)
  <2>1. PICK n \in Nat :
          /\ DOMAIN work[a] = 1 .. n /\ DOMAIN work'[a] = 1 .. n + 1
          /\ \A i \in 1 .. n : work'[a][i].result = work[a][i].result
          /\ work'[a][n + 1].result = None
    BY <1>2 DEF Longer
  <2> QED
    BY <2>1 DEF Results
<1> QED
  BY <1>1, <1>2

\* A cost that is computed, and one that is recorded, says what the record says at the time.
LEMMA QuotesStep ==
  ASSUME CostInv, [Next]_vars, NEW q \in quotes'
  PROVE  /\ q.attempt \in Attempt
         /\ q.results \subseteq Results(q.attempt)'
         /\ q.comparable /\ q.results = Results(q.attempt)' => Covered(q.attempt, q.tokens)'
<1>1. ASSUME q.attempt \in Attempt, q.results \subseteq Results(q.attempt),
             q.comparable /\ q.results = Results(q.attempt) => Covered(q.attempt, q.tokens)
      PROVE  /\ q.results \subseteq Results(q.attempt)'
             /\ q.comparable /\ q.results = Results(q.attempt)' => Covered(q.attempt, q.tokens)'
  <2>1. Kept(q.attempt) \/ Longer(q.attempt) \/ Answered(q.attempt)
    BY <1>1, WorkChanges DEF CostInv
  <2>2. CASE Kept(q.attempt) \/ Longer(q.attempt)
    BY <1>1, <2>2, ResultsStay, CoveredStays DEF CostInv
  <2>3. CASE Answered(q.attempt)
    BY <1>1, <2>3 DEF Answered
  <2> QED
    BY <2>1, <2>2, <2>3
<1>2. CASE q \in quotes
  BY <1>1, <1>2 DEF CostInv
<1>3. CASE q \notin quotes
  <2>1. PICK a \in Attempt, comparable \in BOOLEAN : QuoteCost(a, comparable)
    BY <1>3 DEF Next, vars, Prepare, CommandStarted, CallModel, CommandFinished, Finish,
                RecordReview, RecordAdoption, RecordCost, RecordEnergy
  <2>2. /\ q = [attempt |-> a, results |-> Results(a), comparable |-> comparable,
                tokens |-> IF comparable THEN Usage(a) ELSE 0]
        /\ comparable => Usage(a) # None
    BY <1>3, <2>1 DEF QuoteCost
  <2>3. /\ q.attempt = a /\ q.results = Results(a) /\ q.comparable = comparable
        /\ q.comparable => q.tokens = Usage(a)
    BY <2>2
  <2>4. q.comparable => Covered(a, q.tokens)
    BY <2>2, <2>3, UsageCovers DEF CostInv
  <2> QED
    BY <1>1, <2>3, <2>4
<1> QED
  BY <1>2, <1>3

LEMMA RecordedCost ==
  ASSUME CostInv, [Next]_vars
  PROVE  \/ evidence' = evidence
         \/ \E e : e.attempt \in Attempt /\ Record(e) /\ CostCovered(e.attempt, e)
<1>1. CASE UNCHANGED vars
  BY <1>1 DEF vars
<1>2. ASSUME NEW q \in quotes, NEW at \in Time, RecordCost(q, at)
      PROVE  \E e : e.attempt \in Attempt /\ Record(e) /\ CostCovered(e.attempt, e)
  <2>1. PICK e : e = [kind |-> "cost", attempt |-> q.attempt, at |-> at, comparable |-> q.comparable, tokens |-> q.tokens]
    OBVIOUS
  <2>2. Record(e) /\ q.results = Results(q.attempt)
    BY <1>2, <2>1 DEF RecordCost
  <2>3. e.attempt = q.attempt /\ e.comparable = q.comparable /\ e.tokens = q.tokens
    BY <2>1
  <2>4. e.attempt \in Attempt /\ (e.comparable => Covered(e.attempt, e.tokens))
    BY <2>2, <2>3 DEF CostInv
  <2> QED
    BY <2>2, <2>4 DEF CostCovered
<1>3. ASSUME NEW a \in Attempt, NEW at \in Time,
             \/ \E verdict \in Verdict : RecordReview(a, at, verdict)
             \/ \E decision \in Decision : RecordAdoption(a, at, decision)
             \/ \E until \in at .. MaxTime : RecordEnergy(a, at, until)
      PROVE  \E e : e.attempt \in Attempt /\ Record(e) /\ CostCovered(e.attempt, e)
  <2>1. ASSUME NEW verdict, RecordReview(a, at, verdict)
        PROVE  \E e : e.attempt \in Attempt /\ Record(e) /\ e.kind # "cost"
    BY <2>1 DEF RecordReview
  <2>2. ASSUME NEW decision, RecordAdoption(a, at, decision)
        PROVE  \E e : e.attempt \in Attempt /\ Record(e) /\ e.kind # "cost"
    BY <2>2 DEF RecordAdoption
  <2>3. ASSUME NEW until, RecordEnergy(a, at, until)
        PROVE  \E e : e.attempt \in Attempt /\ Record(e) /\ e.kind # "cost"
    BY <2>3 DEF RecordEnergy
  <2> QED
    BY <1>3, <2>1, <2>2, <2>3 DEF CostCovered
<1>4. CASE Next
  BY <1>2, <1>3, <1>4 DEF Next, Prepare, CommandStarted, CallModel, CommandFinished, Finish, QuoteCost
<1> QED
  BY <1>1, <1>4

LEMMA CostStep == CostInv /\ EvidenceInv' /\ [Next]_vars => CostInv'
<1> SUFFICES ASSUME CostInv, EvidenceInv', [Next]_vars PROVE CostInv'
  OBVIOUS
<1>1. WorkInv'
  BY WorkStep DEF CostInv
<1>2. ASSUME NEW a \in Attempt, NEW i \in DOMAIN evidence'[a]
      PROVE  status[a] \in Ended /\ CostCovered(a, evidence'[a][i])
  <2>1. CASE evidence' = evidence
    BY <2>1 DEF CostInv
  <2>2. CASE \E e : e.attempt \in Attempt /\ Record(e) /\ CostCovered(e.attempt, e)
    <3>1. PICK e : e.attempt \in Attempt /\ Record(e) /\ CostCovered(e.attempt, e)
      BY <2>2
    <3>2. PICK S : evidence[a] \in Seq(S)
      BY DEF CostInv, EvidenceInv, EvidenceTyped
    <3>3. /\ DOMAIN evidence = Attempt /\ status[e.attempt] \in Ended
          /\ evidence' = [evidence EXCEPT ![e.attempt] = Append(@, e)]
      BY <3>1 DEF Record, Bound, CostInv, EvidenceInv, EvidenceTyped
    <3>4. CASE e.attempt # a
      BY <3>3, <3>4 DEF CostInv
    <3>5. CASE e.attempt = a
      <4>1. evidence'[a] = Append(evidence[a], e)
        BY <3>3, <3>5
      <4>2. \/ i \in DOMAIN evidence[a] /\ evidence'[a][i] = evidence[a][i]
            \/ evidence'[a][i] = e
        BY <3>2, <4>1, Appended
      <4> QED
        BY <3>1, <3>3, <3>5, <4>2 DEF CostInv
    <3> QED
      BY <3>4, <3>5
  <2> QED
    BY <2>1, <2>2, RecordedCost
<1>3. ASSUME NEW a \in Attempt, NEW i \in DOMAIN evidence'[a]
      PROVE  status'[a] \in Ended /\ CostCovered(a, evidence[a][i])'
  <2>1. status'[a] = status[a] /\ status[a] \in Ended /\ Kept(a)
    BY <1>2, WorkChanges DEF CostInv, Ended
  <2>2. PICK tokens : tokens = evidence'[a][i].tokens
    OBVIOUS
  <2>3. Covered(a, tokens) => Covered(a, tokens)'
    BY <2>1, CoveredStays DEF CostInv
  <2>4. Covered(a, tokens)' <=> Covered(a, evidence[a][i].tokens)'
    BY <2>2 DEF Covered
  <2> QED
    BY <1>2, <2>1, <2>2, <2>3, <2>4 DEF CostCovered
<1>4. \A a \in Attempt : DOMAIN evidence'[a] # {} => status'[a] \in Ended
  BY <1>3
<1>5. (\A a \in Attempt : \A i \in DOMAIN evidence[a] : CostCovered(a, evidence[a][i]))'
  BY <1>3
<1> QED
  BY <1>1, <1>4, <1>5, QuotesStep DEF CostInv

\* A cost that can be compared was made of every model call of the attempt, but for those of the
\* last command of a LOST one that are not recorded, whenever it was computed, and no call that
\* is recorded later takes that away.
THEOREM CostsCoverCalls == Spec => []CostCoversCalls
<1>1. Init => CostInv
  <2>1. Init => quotes = {} /\ \A a \in Attempt : DOMAIN evidence[a] = {}
    BY DEF Init
  <2> QED
    BY <2>1, EvidenceInit, WorkInit DEF CostInv
<1>2. CostInv /\ [Next]_vars => CostInv'
  <2>1. CostInv => QuotesTyped /\ EvidenceInv
    BY DEF CostInv, QuotesTyped
  <2> QED
    BY <2>1, EvidenceStep, CostStep
<1>3. CostInv => CostCoversCalls
  <2> SUFFICES ASSUME CostInv, NEW a \in Attempt, NEW e \in ToSet(evidence[a]), e.kind = "cost", e.comparable
               PROVE  LET lost == IF status[a] = "LOST" THEN {Len(work[a])} ELSE {}
                      IN /\ \A i \in DOMAIN work[a] \ lost : \A call \in ToSet(work[a][i].made) : call.seen
                         /\ e.tokens = Total([i \in DOMAIN work[a] |->
                                                Tokens(IF i \in lost THEN work[a][i].calls ELSE work[a][i].made)])
    BY DEF CostCoversCalls
  <2> DEFINE lost == IF status[a] = "LOST" THEN {Len(work[a])} ELSE {}
  <2>1. PICK k \in DOMAIN evidence[a] : e = evidence[a][k]
    BY DEF ToSet
  <2>2. Covered(a, e.tokens) /\ status[a] \in Ended
    BY <2>1 DEF CostInv, CostCovered
  <2>3. ASSUME NEW i \in DOMAIN work[a], i \notin lost
        PROVE  work[a][i].calls = work[a][i].made
    <3>1. PICK n \in Nat : n = Len(work[a]) /\ DOMAIN work[a] = 1 .. n
      BY DEF CostInv, WorkInv
    <3>2. i < n \/ (i = n /\ status[a] \in Known)
      BY <2>2, <2>3, <3>1 DEF Ended, Known
    <3>3. WorkOf(a)
      BY DEF CostInv, WorkInv
    <3>4. work[a][i].result \in Known
      BY <3>1, <3>2, <3>3 DEF WorkOf, Known
    <3> QED
      BY <3>3, <3>4 DEF WorkOf
  <2>4. [i \in DOMAIN work[a] |-> Tokens(work[a][i].calls)]
          = [i \in DOMAIN work[a] |-> Tokens(IF i \in lost THEN work[a][i].calls ELSE work[a][i].made)]
    BY <2>3
  <2>5. ASSUME NEW i \in DOMAIN work[a], i \notin lost, NEW call \in ToSet(work[a][i].made)
        PROVE  call.seen
    <3>1. AllSeen(work[a][i].made)
      BY <2>2, <2>3, <2>5 DEF Covered
    <3> QED
      BY <2>5, <3>1 DEF AllSeen, ToSet
  <2> QED
    BY <2>2, <2>4, <2>5 DEF Covered
<1> QED
  BY <1>1, <1>2, <1>3, PTL DEF Spec

-----------------------------------------------------------------------------
(* The chain of attempts.                                                    *)

\* What preparing an attempt adds to those prepared.
LEMMA Ordered ==
  ASSUME ChainInv, NEW a \in Attempt, Prepare(a)
  PROVE  \E n \in Nat :
           /\ DOMAIN order = 1 .. n /\ DOMAIN order' = 1 .. n + 1
           /\ \A i \in 1 .. n : order'[i] = order[i] /\ order[i] # a /\ order[i] \in Attempt
           /\ order'[n + 1] = a /\ order' \in Seq(Attempt)
<1>1. order' = Append(order, a) /\ status[a] = "none"
  BY DEF Prepare
<1>2. PICK n : n = Len(order)
  OBVIOUS
<1>3. \A i \in DOMAIN order : order[i] # a
  BY <1>1 DEF ChainInv
<1> QED
  BY <1>1, <1>2, <1>3 DEF ChainInv

LEMMA PreparedChain ==
  ASSUME ChainInv, NEW a \in Attempt, Prepare(a)
  PROVE  ChainInv'
<1>1. PICK n \in Nat :
           /\ DOMAIN order = 1 .. n /\ DOMAIN order' = 1 .. n + 1
           /\ \A i \in 1 .. n : order'[i] = order[i] /\ order[i] # a /\ order[i] \in Attempt
           /\ order'[n + 1] = a /\ order' \in Seq(Attempt)
  BY Ordered
<1>2. status' = [status EXCEPT ![a] = "RUNNING"] /\ DOMAIN lineage' = Attempt
  BY DEF Prepare, ChainInv
<1>3. StatusTyped'
  BY <1>2 DEF ChainInv, StatusTyped
<1>4. \A i \in 1 .. n + 1 : i \in 1 .. n \/ i = n + 1
  OBVIOUS
<1>5. \A i \in DOMAIN order' : status'[order'[i]] # "none"
  BY <1>1, <1>2, <1>4 DEF ChainInv, StatusTyped
<1>6. ASSUME NEW b \in Attempt, SameTask(b)' # {}
      PROVE  \E i \in SameTask(b)' : IsLastListed(i, SameTask(b))'
  <2>1. SameTask(b) \in SUBSET (1 .. n)
    BY <1>1 DEF SameTask
  <2>2. \A i, j \in 1 .. n : ListedBefore(i, j)' <=> ListedBefore(i, j)
    BY <1>1 DEF ListedBefore
  <2>3. CASE TaskOf[a] = TaskOf[b]
    <3>1. SameTask(b)' = SameTask(b) \cup {n + 1}
      BY <1>1, <1>4, <2>3 DEF SameTask
    <3>2. CASE SameTask(b) = {}
      BY <3>1, <3>2 DEF IsLastListed
    <3>3. CASE SameTask(b) # {}
      <4>1. PICK last \in SameTask(b) : IsLastListed(last, SameTask(b))
        BY <3>3 DEF ChainInv
      <4>2. \A i \in 1 .. n + 1 : order'[i] \in Attempt /\ IntegerKey[order'[i]] \in Nat
        BY <1>1, <1>4, PostRunAssumption
      <4>3. \A i \in 1 .. n : order'[i] # order'[n + 1]
        BY <1>1
      <4>4. ListedBefore(last, n + 1)' \/ ListedBefore(n + 1, last)'
        BY <2>1, <4>2, <4>3, PostRunAssumption DEF ListedBefore
      <4>5. \A j \in SameTask(b) \ {last} : ListedBefore(j, last)'
        BY <2>1, <2>2, <4>1 DEF IsLastListed
      <4>6. \A j \in SameTask(b) \ {last} : ListedBefore(last, n + 1)' => ListedBefore(j, n + 1)'
        BY <2>1, <4>2, <4>5 DEF ListedBefore
      <4>7. CASE ListedBefore(last, n + 1)'
        <5>1. \A j \in SameTask(b)' \ {n + 1} : ListedBefore(j, n + 1)'
          BY <3>1, <4>6, <4>7
        <5> QED
          BY <3>1, <5>1 DEF IsLastListed
      <4>8. CASE ListedBefore(n + 1, last)'
        <5>1. \A j \in SameTask(b)' \ {last} : ListedBefore(j, last)'
          BY <3>1, <4>5, <4>8
        <5> QED
          BY <3>1, <5>1 DEF IsLastListed
      <4> QED
        BY <4>4, <4>7, <4>8
    <3> QED
      BY <3>2, <3>3
  <2>4. CASE TaskOf[a] # TaskOf[b]
    <3>1. SameTask(b)' = SameTask(b)
      BY <1>1, <1>4, <2>4 DEF SameTask
    <3>2. PICK last \in SameTask(b) : IsLastListed(last, SameTask(b))
      BY <1>6, <3>1 DEF ChainInv
    <3>3. IsLastListed(last, SameTask(b))'
      BY <2>1, <2>2, <3>1, <3>2 DEF IsLastListed
    <3> QED
      BY <3>1, <3>2, <3>3
  <2> QED
    BY <2>3, <2>4
<1>7. (\A b \in Attempt : SameTask(b) # {} => \E i \in SameTask(b) : IsLastListed(i, SameTask(b)))'
  BY <1>6
<1> QED
  BY <1>1, <1>2, <1>3, <1>5, <1>7 DEF ChainInv

\* The step of an attempt that is prepared already leaves the chain alone.
LEMMA UnorderedStep ==
  ASSUME ChainInv, [Next]_vars, \A a \in Attempt : ~Prepare(a)
  PROVE  /\ order' = order /\ lineage' = lineage /\ StatusTyped'
         /\ \A a \in Attempt : status[a] # "none" => status'[a] # "none"
<1>1. CASE UNCHANGED vars
  BY <1>1 DEF vars, ChainInv, StatusTyped
<1>2. CASE \E a \in Attempt, s \in Ended : Finish(a, s)
  BY <1>2 DEF Finish, ChainInv, StatusTyped, Ended
<1>3. CASE order' = order /\ lineage' = lineage /\ status' = status
  BY <1>3 DEF ChainInv, StatusTyped
<1>4. CASE Next
  <2>1. CASE \E a \in Attempt :
               \/ \E t \in Time : CommandStarted(a, t)
               \/ \E call \in Call : CallModel(a, call)
               \/ \E t \in {0} \cup Time, result \in Result : CommandFinished(a, t, result)
               \/ \E comparable \in BOOLEAN : QuoteCost(a, comparable)
    BY <1>3, <2>1 DEF CommandStarted, CallModel, CommandFinished, QuoteCost
  <2>2. CASE \E a \in Attempt, at \in Time :
                    \/ \E verdict \in Verdict : RecordReview(a, at, verdict)
                    \/ \E decision \in Decision : RecordAdoption(a, at, decision)
                    \/ \E until \in at .. MaxTime : RecordEnergy(a, at, until)
    BY <1>3, <2>2 DEF RecordReview, RecordAdoption, RecordEnergy, Record
  <2>3. CASE \E q \in quotes, at \in Time : RecordCost(q, at)
    BY <1>3, <2>3 DEF RecordCost, Record
  <2> QED
    BY <1>2, <1>4, <2>1, <2>2, <2>3 DEF Next
<1> QED
  BY <1>1, <1>4

LEMMA ChainStep == ChainInv /\ [Next]_vars => ChainInv'
<1> SUFFICES ASSUME ChainInv, [Next]_vars PROVE ChainInv'
  OBVIOUS
<1>1. CASE \E a \in Attempt : Prepare(a)
  BY <1>1, PreparedChain
<1>2. CASE \A a \in Attempt : ~Prepare(a)
  <2>1. /\ order' = order /\ lineage' = lineage /\ StatusTyped'
        /\ \A a \in Attempt : status[a] # "none" => status'[a] # "none"
    BY <1>2, UnorderedStep
  <2>2. \A i \in DOMAIN order : order[i] \in Attempt
    BY DEF ChainInv
  <2> QED
    BY <2>1, <2>2 DEF ChainInv, SameTask, IsLastListed, ListedBefore
<1> QED
  BY <1>1, <1>2

\* What is written down of the attempts prepared before stays.
LEMMA EarlierStay ==
  ASSUME ChainInv, NEW a \in Attempt, Prepare(a), NEW i \in DOMAIN order
  PROVE  /\ i \in DOMAIN order' /\ lineage'[order'[i]] = lineage[order[i]] /\ Earlier(i)' = Earlier(i)
         /\ \A j \in Earlier(i) : order'[j] = order[j]
<1>1. PICK n \in Nat :
           /\ DOMAIN order = 1 .. n /\ DOMAIN order' = 1 .. n + 1
           /\ \A k \in 1 .. n : order'[k] = order[k] /\ order[k] # a /\ order[k] \in Attempt
  BY Ordered
<1>2. lineage' = [lineage EXCEPT ![a] = LineageOf(a)] /\ DOMAIN lineage = Attempt
  BY DEF Prepare, ChainInv
<1>3. \A k \in 1 .. i - 1 : k \in 1 .. n
  BY <1>1
<1> QED
  BY <1>1, <1>2, <1>3 DEF Earlier

\* What is written down of the attempt prepared now.
LEMMA NewestSays ==
  ASSUME ChainInv, NEW a \in Attempt, Prepare(a), NEW i \in DOMAIN order' \ DOMAIN order
  PROVE  /\ lineage'[order'[i]] = LineageOf(a) /\ Earlier(i)' = SameTask(a)
         /\ \A j \in SameTask(a) : order'[j] = order[j]
<1>1. PICK n \in Nat :
           /\ DOMAIN order = 1 .. n /\ DOMAIN order' = 1 .. n + 1
           /\ \A k \in 1 .. n : order'[k] = order[k] /\ order[k] # a /\ order[k] \in Attempt
           /\ order'[n + 1] = a
  BY Ordered
<1>2. lineage' = [lineage EXCEPT ![a] = LineageOf(a)] /\ DOMAIN lineage = Attempt
  BY DEF Prepare, ChainInv
<1>3. i = n + 1 /\ i - 1 = n
  BY <1>1
<1> QED
  BY <1>1, <1>2, <1>3 DEF Earlier, SameTask

LEMMA CountStep == ChainInv /\ Counted /\ [Next]_vars => Counted'
<1> SUFFICES ASSUME ChainInv, Counted, [Next]_vars PROVE Counted'
  OBVIOUS
<1>1. CASE \A a \in Attempt : ~Prepare(a)
  BY <1>1, UnorderedStep DEF Counted, Earlier
<1>2. ASSUME NEW a \in Attempt, Prepare(a), NEW i \in DOMAIN order'
      PROVE  lineage'[order'[i]].retry = Cardinality(Earlier(i)')
  <2>1. CASE i \in DOMAIN order
    BY <1>2, <2>1, EarlierStay DEF Counted
  <2>2. CASE i \notin DOMAIN order
    <3>1. LineageOf(a).retry = Cardinality(SameTask(a))
      BY DEF LineageOf, SameTask
    <3> QED
      BY <1>2, <2>2, <3>1, NewestSays
  <2> QED
    BY <2>1, <2>2
<1> QED
  BY <1>1, <1>2 DEF Counted

\* The parent is one of the attempts of the task, whatever their order in the listing.
LEMMA ParentOf ==
  ASSUME ChainInv, NEW a \in Attempt, SameTask(a) # {}
  PROVE  \E j \in SameTask(a) : LineageOf(a).parent = order[j]
<1>1. PICK chosen : chosen = CHOOSE i \in SameTask(a) : \A j \in SameTask(a) \ {i} : ListedBefore(j, i)
  OBVIOUS
<1>2. \E i \in SameTask(a) : \A j \in SameTask(a) \ {i} : ListedBefore(j, i)
  BY DEF ChainInv, IsLastListed
<1>3. chosen \in SameTask(a)
  BY <1>1, <1>2
<1>4. LineageOf(a).parent = order[chosen]
  BY <1>1 DEF LineageOf, LastListed, SameTask
<1> QED
  BY <1>3, <1>4

LEMMA ParentStep == ChainInv /\ Descends /\ [Next]_vars => Descends'
<1> SUFFICES ASSUME ChainInv, Descends, [Next]_vars PROVE Descends'
  OBVIOUS
<1>1. CASE \A a \in Attempt : ~Prepare(a)
  BY <1>1, UnorderedStep DEF Descends, Earlier
<1>2. ASSUME NEW a \in Attempt, Prepare(a), NEW i \in DOMAIN order'
      PROVE  IF Earlier(i)' = {} THEN lineage'[order'[i]].parent = None
             ELSE \E j \in Earlier(i)' : lineage'[order'[i]].parent = order'[j]
  <2>1. CASE i \in DOMAIN order
    <3>1. IF Earlier(i) = {} THEN lineage[order[i]].parent = None
          ELSE \E j \in Earlier(i) : lineage[order[i]].parent = order[j]
      BY <2>1 DEF Descends
    <3> QED
      BY <1>2, <2>1, <3>1, EarlierStay
  <2>2. CASE i \notin DOMAIN order
    <3>1. SameTask(a) = {} => LineageOf(a).parent = None
      BY DEF LineageOf, LastListed, SameTask
    <3> QED
      BY <1>2, <2>2, <3>1, NewestSays, ParentOf
  <2> QED
    BY <2>1, <2>2
<1>3. CASE \E a \in Attempt : Prepare(a)
  BY <1>2, <1>3 DEF Descends
<1> QED
  BY <1>1, <1>3

LEMMA ChainInit == Init => ChainInv /\ Counted /\ Descends
<1> SUFFICES ASSUME Init PROVE ChainInv /\ Counted /\ Descends
  OBVIOUS
<1>1. DOMAIN order = {} /\ order \in Seq(Attempt)
  BY DEF Init
<1> QED
  BY <1>1 DEF Init, ChainInv, StatusTyped, SameTask, Counted, Descends

\* Whatever the ids are, the retry index of an attempt counts the attempts of its task that
\* were prepared before it.
THEOREM RetriesAreCounted == Spec => []Counted
BY ChainInit, ChainStep, CountStep, PTL DEF Spec

\* Whatever the ids are, a retry names as its parent an attempt of the same task that was prepared
\* before it, and only the first attempt of a task names none: following the parents of an attempt
\* never comes back to it and ends at the first.  It need not be the one before, see RetryChain.
THEOREM RetriesDescend == Spec => []Descends
BY ChainInit, ChainStep, ParentStep, PTL DEF Spec
=============================================================================
