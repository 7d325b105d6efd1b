---------------------------- MODULE RunnerProofs ----------------------------
(***************************************************************************)
(* The safety properties of Runner, proved.  Runner has no constants, so   *)
(* TLC checks all of it as well; the invariant below says why they hold.   *)
(***************************************************************************)
EXTENDS Runner, TLAPS

\* How far the child has got, as the status, its exit and the callback tell it.
ChildAgrees ==
    /\ status = "idle" => os = "none" /\ signal = "none"
    /\ status = "waiting" => os # "none"
    /\ exit = "none" <=> os \in {"none", "starting", "running"}
    /\ callback # "none" => os \notin {"none", "starting"}
    /\ os = "running" => callback # "none"

\* A promise that is resolved has its result, and its timers are off.
PromiseAgrees ==
    /\ result = "none" <=> status # "finished"
    /\ status # "waiting" => deadline = "off" /\ grace = "off"

\* While the promise is open, whatever went wrong has left its reason: a signal,
\* a start that failed or was not recorded, a grace period outliving the close.
ReasonsKept ==
    status = "waiting" =>
        /\ signal = "sent" => reasons # {}
        /\ callback = "rejected" => reasons # {}
        /\ callback = "none" /\ os \in {"exited", "closed"} => reasons # {}
        /\ grace = "armed" /\ closeObserved => reasons # {}

\* Somebody waits for the child until it closes, and a grace period is given
\* only to a child that is gone or was told to go.
Watched ==
    /\ status = "waiting" /\ ~closeObserved => deadline = "armed" \/ grace = "armed"
    /\ status = "waiting" /\ closeObserved => callback = "pending"
    /\ grace = "armed" /\ os \in {"starting", "running"} => signal = "sent"

IInv ==
    /\ TypeOK
    /\ ChildAgrees
    /\ PromiseAgrees
    /\ ReasonsKept
    /\ Watched
    /\ ResultObserved
    /\ OrphanWasSignalled

LEMMA InitIInv == Init => IInv
BY DEF Init, IInv, TypeOK, ChildAgrees, PromiseAgrees, ReasonsKept, Watched,
       ResultObserved, OrphanWasSignalled, closeObserved, Reason, Exit

-----------------------------------------------------------------------------
(* The two ways in which an event leaves the promise.                       *)

\* finish: the result is a word for the reasons and the exit code.
LEMMA FinishResolves ==
    ASSUME NEW why \in SUBSET Reason, NEW code \in {"none"} \cup Exit,
           NEW closed \in BOOLEAN, Finish(why, code, closed)
    PROVE  /\ status' = "finished" /\ deadline' = "off" /\ grace' = "off"
           /\ reasons' \in SUBSET Reason
           /\ result' \in {"SUCCEEDED", "FAILED", "RECOVERY_REQUIRED"}
           /\ result' \in {"SUCCEEDED", "FAILED"} =>
                 /\ why = {}
                 /\ code # "signal"
                 /\ closed => code # "unknown"
                 /\ result' = "SUCCEEDED" <=> code = "zero"
BY DEF Finish, ResultFor, ReasonsOf, Reason, Exit

\* Nothing else touches a promise that is resolved.
LEMMA ContinueKeeps ==
    ASSUME NEW why \in SUBSET Reason, NEW timer \in {"off", "armed"},
           TypeOK, Continue(why, timer)
    PROVE  /\ status' = status /\ result' = result /\ deadline' = deadline
           /\ reasons' \in SUBSET Reason
           /\ grace' \in {"off", "armed"}
           /\ status # "finished" => reasons' = why /\ grace' = timer
           /\ status = "finished" => reasons' = reasons /\ grace' = "off"
BY DEF Continue, TypeOK

-----------------------------------------------------------------------------
LEMMA NextIInv == IInv /\ [Next]_vars => IInv'
<1> SUFFICES ASSUME IInv, [Next]_vars PROVE IInv'
  OBVIOUS
<1> USE DEF IInv, TypeOK, Reason, Exit, closeObserved, process,
            ChildAgrees, PromiseAgrees, ReasonsKept, Watched, ResultObserved,
            OrphanWasSignalled
<1>1. CASE Refuse
  BY <1>1 DEF Refuse
<1>2. CASE Launch
  <2>1. CASE deadline' = "armed" /\ UNCHANGED <<reasons, grace, signal>>
    BY <1>2, <2>1 DEF Launch
  <2>2. CASE deadline' = "off" /\ reasons' = {"TIMED_OUT"} /\ grace' = "armed" /\ signal' = "sent"
    BY <1>2, <2>2 DEF Launch
  <2> QED
    BY <1>2, <2>1, <2>2 DEF Launch
<1>3. CASE Spawned
  BY <1>3 DEF Spawned, Continue, RequireRecovery, Terminate, ClockSteps
<1>4. CASE SpawnError
  BY <1>4 DEF SpawnError, Continue, ClockSteps
<1>5. CASE Output
  <2>1. PICK why \in SUBSET {"OUTPUT_LIMIT", "EVIDENCE_FAILED", "CLOCK_ROLLBACK"} :
           why # {} /\ RequireRecovery(why)
    BY <1>5 DEF Output
  <2>2. /\ os \in {"running", "exited"} /\ status = "waiting"
        /\ UNCHANGED <<callback, os, exit, status, result, deadline>>
        /\ grace' = "armed"
    BY <1>5, <2>1 DEF Output, RequireRecovery, Continue
  <2>3. signal' = IF os = "running" THEN "sent" ELSE signal
    BY <2>1, <2>2 DEF RequireRecovery, Terminate
  <2>4. reasons' = reasons \cup why
    BY <2>1, <2>2 DEF RequireRecovery, Continue
  <2>5. reasons' # {} /\ reasons' \subseteq Reason
    <3>1. PICK reason \in why : TRUE
      BY <2>1
    <3>2. reason \in reasons'
      BY <2>4, <3>1
    <3> QED
      BY <2>1, <2>4, <3>2
  <2> QED
    BY <2>2, <2>3, <2>5
<1>6. CASE Exits
  BY <1>6 DEF Exits, Continue, ClockSteps, ReasonsOf
<1>7. CASE Closes
  <2>1. PICK step \in ClockSteps :
           IF status = "waiting" /\ callback # "pending"
           THEN Finish(reasons \cup step, exit, TRUE)
           ELSE Continue(reasons \cup step, "off")
    BY <1>7 DEF Closes
  <2>2. reasons \cup step \in SUBSET Reason
    BY DEF ClockSteps
  <2>3. os = "exited" /\ os' = "closed" /\ UNCHANGED <<callback, exit, signal>>
    BY <1>7 DEF Closes
  <2>4. CASE status = "waiting" /\ callback # "pending"
    BY <2>1, <2>2, <2>3, <2>4, FinishResolves
  <2>5. CASE ~(status = "waiting" /\ callback # "pending")
    BY <2>1, <2>2, <2>3, <2>5, ContinueKeeps
  <2> QED
    BY <2>4, <2>5
<1>8. CASE StartRecorded
  BY <1>8 DEF StartRecorded, Continue, Finish, ResultFor, ReasonsOf
<1>9. CASE StartNotRecorded
  BY <1>9 DEF StartNotRecorded, Continue, Finish, ResultFor, ReasonsOf, Terminate
<1>10. CASE DeadlineFires
  BY <1>10 DEF DeadlineFires, Terminate
<1>11. CASE GraceFires
  BY <1>11 DEF GraceFires, Finish, ResultFor, ReasonsOf
<1>12. CASE Done \/ UNCHANGED vars
  BY <1>12 DEF Done, vars
<1> QED
  BY <1>1, <1>2, <1>3, <1>4, <1>5, <1>6, <1>7, <1>8, <1>9, <1>10, <1>11, <1>12 DEF Next

THEOREM Invariance == Spec => []IInv
BY InitIInv, NextIInv, PTL DEF Spec

\* Every variable of one executeCommand call keeps its type.
THEOREM TypeCorrect == Spec => []TypeOK
<1>1. IInv => TypeOK
  BY DEF IInv
<1> QED
  BY <1>1, Invariance, PTL

\* SUCCEEDED and FAILED are only ever said of a child that was recorded as
\* started, was sent no signal and was seen to close with that exit code.
THEOREM ResultsAreObserved == Spec => []ResultObserved
<1>1. IInv => ResultObserved
  BY DEF IInv
<1> QED
  BY <1>1, Invariance, PTL

\* The promise never resolves over a running child that was not told to stop.
THEOREM OrphansAreSignalled == Spec => []OrphanWasSignalled
<1>1. IInv => OrphanWasSignalled
  BY DEF IInv
<1> QED
  BY <1>1, Invariance, PTL

\* As long as the promise is open, a timer or the start callback is outstanding.
THEOREM SomethingResolves == Spec => []NeverStranded
<1>1. IInv => NeverStranded
  BY DEF IInv, Watched, NeverStranded
<1> QED
  BY <1>1, Invariance, PTL
=============================================================================
