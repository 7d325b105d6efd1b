---------------------------------- MODULE Admission ----------------------------------
(***************************************************************************)
(* Tasks that are let in to run: past the governor's locks (writerGate)    *)
(* and within the resource plan (resourcePlan of core/reuse.mjs over       *)
(* packages/engine-primitives/resource-quota.mjs), in the order in which   *)
(* checkDispatch of the Controller asks for them.  The usage that a plan   *)
(* is made of is the caller's account of the tasks that run; a node short  *)
(* of free memory, and a device without VRAM, may refuse any task.         *)
(***************************************************************************)
EXTENDS Governor, SequencesExt

CONSTANTS Task, Contract, Node, Gpu,
          Request,    \* of a task: its contract, scope, cpu, memory, gpus and allow_burst
          Capacity,   \* of a node: cpu, memory and devices
          Quota       \* of a contract at a node: base, max (cpu and memory), tasks, burst_until (-1 for null)

ASSUME AdmissionAssumption ==
  /\ \A t \in Task : Request[t].contract \in Contract /\ Request[t].scope \in Scope
  /\ \A r \in {"cpu", "memory"} :
       /\ \A t \in Task : Request[t][r] \in Nat
       /\ \A n \in Node : Capacity[n][r] \in Nat
       /\ \A c \in Contract, n \in Node :
            Quota[<<c, n>>].base[r] \in Nat /\ Quota[<<c, n>>].max[r] \in Nat /\ Quota[<<c, n>>].base[r] <= Quota[<<c, n>>].max[r]
  /\ \A c \in Contract, n \in Node : Quota[<<c, n>>].tasks \in Nat

VARIABLE running   \* the tasks that run, in the order they were let in

vars == <<locks, now, canonical, running>>

Resource == {"cpu", "memory"}
Init == GovernorInit /\ running = <<>>

-----------------------------------------------------------------------------
\* The tasks that run at a node, of a contract, by their places; and what some of them use, up
\* to each place.
At(n) == {i \in DOMAIN running : running[i].node = n}
Of(c, n) == {i \in At(n) : Request[running[i].task].contract = c}
Used(places, r) ==
  LET sum[i \in 0..Len(running)] ==
        IF i = 0 THEN 0 ELSE sum[i - 1] + (IF i \in places THEN Request[running[i].task][r] ELSE 0)
  IN  sum
Usage(places, r) == Used(places, r)[Len(running)]
LeasedGpus(n) == UNION {running[i].gpus : i \in At(n)}

FitsNode(t, n) == \A r \in Resource : Usage(At(n), r) + Request[t][r] <= Capacity[n][r]

\* Faulty: the tasks that run are not counted.
FitsAlone(t, n, limit) == \A r \in Resource : Request[t][r] <= limit[r]

Fits(t, n, limit) == \A r \in Resource : Usage(Of(Request[t].contract, n), r) + Request[t][r] <= limit[r]

\* decideResourceAdmission, after the limits of the node.
Tier(t, n) ==
  LET quota == Quota[<<Request[t].contract, n>>] IN
  IF Cardinality(Of(Request[t].contract, n)) >= quota.tasks THEN "BLOCKED"
  ELSE IF Fits(t, n, quota.base) THEN "BASE"
  ELSE IF Request[t].allow_burst /\ quota.burst_until >= now /\ Fits(t, n, quota.max) THEN "BURST"
  ELSE "BLOCKED"

\* decideGpuAdmission picks those with most free VRAM, which is the node's to know.
Leasable(t, n) == {gpus \in SUBSET (Capacity[n].gpus \ LeasedGpus(n)) : Cardinality(gpus) = Request[t].gpus}

Admit(t, n, gpus) ==
  /\ \A x \in ToSet(running) : x.task # t
  /\ Free(Request[t].scope)
  /\ FitsNode(t, n)
  /\ Tier(t, n) # "BLOCKED"
  /\ gpus \in Leasable(t, n)
  /\ running' = Append(running, [task |-> t, node |-> n, tier |-> Tier(t, n), gpus |-> gpus, at |-> now])
  /\ UNCHANGED governor

Release(i) == running' = RemoveAt(running, i) /\ UNCHANGED governor

Next == \/ GovernorNext /\ UNCHANGED running
        \/ \E t \in Task, n \in Node : \E gpus \in Leasable(t, n) : Admit(t, n, gpus)
        \/ \E i \in DOMAIN running : Release(i)

Spec == Init /\ [][Next]_vars

-----------------------------------------------------------------------------
\* No device is leased to two tasks that run.
DevicesApart ==
  \A i, j \in DOMAIN running :
    i # j /\ running[i].node = running[j].node => running[i].gpus \cap running[j].gpus = {}

\* In any order of admissions and ends: a node runs no more than it holds and leases no device
\* twice, a contract stays within its limits, and it uses more than its base only if the
\* youngest of its tasks was let in as a burst, at a time when bursts were allowed.
WithinLimits ==
  /\ DevicesApart
  /\ \A n \in Node :
       /\ \A r \in Resource : Usage(At(n), r) <= Capacity[n][r]
       /\ \A c \in Contract :
            LET tasks == Of(c, n)
                over == \E r \in Resource : Usage(tasks, r) > Quota[<<c, n>>].base[r]
                youngest == running[Max(tasks)]
            IN  /\ Cardinality(tasks) <= Quota[<<c, n>>].tasks
                /\ \A r \in Resource : Usage(tasks, r) <= Quota[<<c, n>>].max[r]
                /\ over => /\ youngest.tier = "BURST"
                           /\ youngest.at <= Quota[<<c, n>>].burst_until
                           /\ Request[youngest.task].allow_burst
====
