------------------------------- MODULE Runner -------------------------------
(***************************************************************************)
(* One call of executeCommand (core/controller/runner.mjs): a child        *)
(* process, the events Node delivers about it, the asynchronous callback   *)
(* that records its start, a deadline timer and a grace timer, in whatever *)
(* order they happen.                                                      *)
(*                                                                         *)
(* Node delivers "spawn" or "error" before any timer or other event of the *)
(* child, and "close" after "exit" (or after "error").  The exit of the    *)
(* child does not close it: a descendant may keep its pipes open.          *)
(***************************************************************************)
EXTENDS Naturals

VARIABLES
    status,    \* of the promise executeCommand returns
    result,    \* the status of the result it resolves with
    reasons,   \* recoveryReason and what else would have set it
    callback,  \* onStarted
    deadline,
    grace,     \* the two timers
    os,        \* the child process itself
    exit,      \* how it exited
    signal     \* whether the runner sent it one

vars == <<status, result, reasons, callback, deadline, grace, os, exit, signal>>
process == <<os, exit>>

closeObserved == os = "closed"   \* the runner sees a close as it happens

Reason == {"TIMED_OUT", "OUTPUT_LIMIT", "EVIDENCE_FAILED", "CLOCK_ROLLBACK",
           "ON_STARTED_FAILED", "SPAWN_FAILED", "SIGNALED", "UNKNOWN_CLOSE",
           "CLOSE_UNOBSERVED", "REFUSED"}
Exit == {"zero", "nonzero", "signal", "unknown"}

Init ==
    /\ status = "idle"
    /\ result = "none"
    /\ reasons = {}
    /\ callback = "none"
    /\ deadline = "off"
    /\ grace = "off"
    /\ os = "none"
    /\ exit = "none"
    /\ signal = "none"

-----------------------------------------------------------------------------
(* finish: the first call resolves the promise and clears both timers.  The *)
(* clock may turn out to have stepped back, or the evidence file fail to    *)
(* reach the disk, even now.                                                *)

\* What the exit code itself gives away, of a child seen to close or not.
ReasonsOf(code, closed) ==
    (IF code = "signal" THEN {"SIGNALED"} ELSE {}) \cup
    (IF code = "unknown" /\ closed THEN {"UNKNOWN_CLOSE"} ELSE {})

ResultFor(why, code) ==
    IF why # {} THEN "RECOVERY_REQUIRED"
    ELSE IF code = "zero" THEN "SUCCEEDED" ELSE "FAILED"

Finish(why, code, closed) ==
    /\ status' = "finished"
    /\ deadline' = "off"
    /\ grace' = "off"
    /\ \E late \in {{}, {"CLOCK_ROLLBACK"}, {"EVIDENCE_FAILED"}} :
         reasons' = why \cup late \cup ReasonsOf(code, closed)
    /\ result' = ResultFor(reasons', code)

\* Nothing of the promise changes once it is resolved; before that the reasons
\* are noted and the grace timer is started or left alone.
Continue(why, timer) ==
    /\ reasons' = IF status = "finished" THEN reasons ELSE why
    /\ grace' = IF status = "finished" THEN "off" ELSE timer
    /\ UNCHANGED <<status, result, deadline>>

\* Faulty: the condition is inverted.
TerminateGone == signal' = IF os \in {"starting", "running"} THEN signal ELSE "sent"

\* terminateDirectChild sends a signal unless the child is known to be gone.
Terminate == signal' = IF os \in {"starting", "running"} THEN "sent" ELSE signal

\* requireRecovery.
RequireRecovery(why) == Continue(reasons \cup why, "armed") /\ Terminate

ClockSteps == {{}, {"CLOCK_ROLLBACK"}}   \* what reading the wall clock can add

-----------------------------------------------------------------------------
(* The synchronous part                                                     *)

\* No evidence file, invalid options, a refusal of beforeSpawn or of spawn.
Refuse ==
    /\ status = "idle"
    /\ status' = "finished"
    /\ reasons' = {"REFUSED"}
    /\ result' = "RECOVERY_REQUIRED"
    /\ UNCHANGED <<callback, deadline, grace, process, signal>>

\* The deadline may have passed before the timer could be set.
Launch ==
    /\ status = "idle"
    /\ status' = "waiting"
    /\ os' = "starting"
    /\ \/ deadline' = "armed" /\ UNCHANGED <<reasons, grace, signal>>
       \/ /\ deadline' = "off"
          /\ reasons' = {"TIMED_OUT"}
          /\ grace' = "armed"
          /\ signal' = "sent"
    /\ UNCHANGED <<result, callback, exit>>

-----------------------------------------------------------------------------
(* Events of the child                                                      *)

Spawned ==
    /\ os = "starting"
    /\ os' = "running"
    /\ callback' = "pending"
    /\ \E step \in ClockSteps :
         IF step = {} THEN Continue(reasons, grace) /\ UNCHANGED signal
         ELSE RequireRecovery(step)
    /\ UNCHANGED exit

SpawnError ==
    /\ os = "starting"
    /\ os' = "exited"
    /\ exit' = "nonzero"
    /\ \E step \in ClockSteps : Continue(reasons \cup {"SPAWN_FAILED"} \cup step, "armed")
    /\ UNCHANGED <<callback, signal>>

\* A chunk of output: over the limit, not saved, or read at an earlier time than
\* the last one.  (A chunk within the limits changes nothing kept here.)
Output ==
    /\ os \in {"running", "exited"}
    /\ status = "waiting"
    /\ \E why \in SUBSET {"OUTPUT_LIMIT", "EVIDENCE_FAILED", "CLOCK_ROLLBACK"} :
         why # {} /\ RequireRecovery(why)
    /\ UNCHANGED <<callback, process>>

Exits ==
    /\ os = "running"
    /\ os' = "exited"
    /\ \E how \in Exit, step \in ClockSteps :
         /\ exit' = how
         /\ Continue(reasons \cup step \cup ReasonsOf(how, FALSE), "armed")
    /\ UNCHANGED <<callback, signal>>

\* The grace timer is dropped; the promise waits for onStarted alone.
Closes ==
    /\ os = "exited"
    /\ os' = "closed"
    /\ \E step \in ClockSteps :
         IF status = "waiting" /\ callback # "pending"
         THEN Finish(reasons \cup step, exit, TRUE)
         ELSE Continue(reasons \cup step, "off")
    /\ UNCHANGED <<callback, exit, signal>>

-----------------------------------------------------------------------------
(* onStarted, whose outcome arrives in a later turn of the event loop       *)

StartRecorded ==
    /\ callback = "pending"
    /\ callback' = "resolved"
    /\ IF status = "waiting" /\ closeObserved
       THEN Finish(reasons, exit, TRUE)
       ELSE Continue(reasons, grace)
    /\ UNCHANGED <<process, signal>>

StartNotRecorded ==
    /\ callback = "pending"
    /\ callback' = "rejected"
    /\ Terminate
    /\ IF status = "waiting" /\ closeObserved
       THEN Finish(reasons \cup {"ON_STARTED_FAILED"}, exit, TRUE)
       ELSE Continue(reasons \cup {"ON_STARTED_FAILED"}, "armed")
    /\ UNCHANGED process

-----------------------------------------------------------------------------
(* Timers                                                                   *)

\* Faulty: nothing waits for the child to go.
DeadlineFiresAlone ==
    /\ deadline = "armed"
    /\ os # "starting"
    /\ deadline' = "off"
    /\ reasons' = reasons \cup {"TIMED_OUT"}
    /\ Terminate
    /\ UNCHANGED <<status, result, grace, callback, process>>

DeadlineFires ==
    /\ deadline = "armed"
    /\ os # "starting"
    /\ deadline' = "off"
    /\ reasons' = reasons \cup {"TIMED_OUT"}
    /\ grace' = "armed"
    /\ Terminate
    /\ UNCHANGED <<status, result, callback, process>>

\* Faulty: a close that was not seen is no reason for recovery.
GraceFiresQuietly ==
    /\ grace = "armed"
    /\ os # "starting"
    /\ Finish(reasons, exit, closeObserved)
    /\ UNCHANGED <<callback, process, signal>>

GraceFires ==
    /\ grace = "armed"
    /\ os # "starting"
    /\ Finish(reasons \cup (IF closeObserved THEN {} ELSE {"CLOSE_UNOBSERVED"}),
              exit, closeObserved)
    /\ UNCHANGED <<callback, process, signal>>

-----------------------------------------------------------------------------
\* The child may run, or hold its pipes open, for ever.
Done == status = "finished" /\ UNCHANGED vars

Next ==
    \/ Refuse \/ Launch
    \/ Spawned \/ SpawnError \/ Output \/ Exits \/ Closes
    \/ StartRecorded \/ StartNotRecorded
    \/ DeadlineFires \/ GraceFires
    \/ Done

Spec == Init /\ [][Next]_vars

\* The call is made, timers fire, Node reports whether the child started, and
\* the callback (a synchronous append in the Controller) settles.  Nothing is
\* assumed of the child.
FairSpec ==
    /\ Spec
    /\ WF_vars(Refuse \/ Launch)
    /\ WF_vars(Spawned \/ SpawnError)
    /\ WF_vars(StartRecorded \/ StartNotRecorded)
    /\ WF_vars(DeadlineFires)
    /\ WF_vars(GraceFires)

-----------------------------------------------------------------------------
(* Properties                                                               *)

TypeOK ==
    /\ status \in {"idle", "waiting", "finished"}
    /\ result \in {"none", "SUCCEEDED", "FAILED", "RECOVERY_REQUIRED"}
    /\ reasons \subseteq Reason
    /\ callback \in {"none", "pending", "resolved", "rejected"}
    /\ deadline \in {"off", "armed"}
    /\ grace \in {"off", "armed"}
    /\ os \in {"none", "starting", "running", "exited", "closed"}
    /\ exit \in {"none"} \cup Exit
    /\ signal \in {"none", "sent"}

\* SUCCEEDED and FAILED are said only of a child that was recorded as started
\* and seen to close by itself, with the exit code that the word stands for and
\* nothing gone wrong on the way, whatever order callbacks and timers came in.
ResultObserved ==
    result \in {"SUCCEEDED", "FAILED"} =>
        /\ os = "closed"
        /\ callback = "resolved"
        /\ signal = "none"
        /\ exit = IF result = "SUCCEEDED" THEN "zero" ELSE "nonzero"

\* A child is left running behind a resolved promise only after the runner has
\* tried to terminate it.
OrphanWasSignalled == status = "finished" /\ os \in {"starting", "running"} => signal = "sent"

\* Until the promise resolves something is left that will resolve it: a timer, or
\* the callback after the close.  (A timer cleared too early would strand it.)
NeverStranded ==
    status = "waiting" =>
        \/ deadline = "armed"
        \/ grace = "armed"
        \/ callback = "pending"

\* A call resolves in bounded time even if the child never exits or never closes.
Resolves == <>(status = "finished")
=============================================================================
