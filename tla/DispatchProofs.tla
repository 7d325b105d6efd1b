----------------------------- MODULE DispatchProofs -----------------------------
(***************************************************************************)
(* Theorems about Dispatch, for every number of tasks, roles and nodes.    *)
(*                                                                         *)
(* The store of an organization is consistent when the conjuncts of        *)
(* Consistent hold.  They speak of an epoch, tasks, approvals, attempts    *)
(* and recoveries and not of the variables, because most requests change   *)
(* the store twice: they reconcile it, and then do what they were sent for.*)
(***************************************************************************)
EXTENDS Dispatch, TLAPS

Waiting == {"WAITING_DEPENDENCY", "BLOCKED"}
Working == {"CLAIMED", "RUNNING"}

\* Where a chain of roles stands: the roles up to one succeeded, those after it wait.
Ordered(items) ==
    \A i \in DOMAIN items : items[i].status \notin Waiting =>
        \A j \in 1..(i - 1) : items[j].status = "SUCCEEDED"

\* What a role that does not wait and has not succeeded says of its task.
Suits(status, role) ==
    /\ role = "WAITING_APPROVAL" => status = "AWAITING_APPROVAL"
    /\ role = "WAITING_RECOVERY_APPROVAL" => status = "AWAITING_RECOVERY_APPROVAL"
    /\ role = "QUEUED" => status \in {"QUEUED", "ACTIVE"}
    /\ role \in Working => status = "ACTIVE"
    /\ role \in {"RECOVERY_REQUIRED", "FAILED"} => status = role

WellFormed(t, task) ==
    /\ task \in TaskRecord
    /\ task.status = "none" => task.dispatches = << >>
    /\ task.status # "none" => Len(task.dispatches) = Len(Assignment[t])
    /\ Ordered(task.dispatches)
    /\ \A i \in DOMAIN task.dispatches : Suits(task.status, task.dispatches[i].status)
    /\ task.status = "AWAITING_APPROVAL" => task.dispatches[1].status = "WAITING_APPROVAL"

Typed(epoch, ts, ap, at, rs) ==
    /\ epoch \in Nat
    /\ ts \in [Task -> TaskRecord]
    /\ \A t \in Task : WellFormed(t, ts[t])
    /\ ap \in [Task -> Seq(Approval)]
    /\ at \in [Claims -> Attempt]
    /\ rs \subseteq Recovery

Made(at, c) == at[c].status # "none"

\* AttemptsAgree, and an attempt was made only at a role the chain had come to.
Carried(ts, at) ==
    /\ \A t \in Task : \A i \in DOMAIN ts[t].dispatches :
         LET item == ts[t].dispatches[i]
         IN  IF item.attempt = NoClaim THEN item.status \notin AttemptStatus
             ELSE /\ item.status = at[item.attempt].status
                  /\ at[item.attempt].task = t
                  /\ at[item.attempt].role = i
    /\ \A c \in Claims : at[c].status \in Working =>
         ts[at[c].task].dispatches[at[c].role].attempt = c
    /\ \A c \in Claims : Made(at, c) =>
         /\ at[c].task \in Task
         /\ at[c].role \in DOMAIN ts[at[c].task].dispatches
         /\ LET task == ts[at[c].task]
            IN  /\ task.dispatches[at[c].role].status \notin Waiting
                /\ task.status = "ACTIVE" => task.dispatches[at[c].role].status # "QUEUED"

\* The latest approval of a task is for the task as it is; a queued task has one that is free,
\* and one for its first role unless it is for a recovery.
Ticketed(ts, ap) ==
    \A t \in Task :
      LET last == ap[t][Len(ap[t])]
      IN  /\ ts[t].status = "none" => ap[t] = << >>
          /\ ap[t] # << >> => last.dispatch_epoch = ts[t].dispatch_epoch
          /\ ts[t].status = "QUEUED" =>
               /\ ap[t] # << >>
               /\ ~last.consumed
               /\ ~last.recovery => ts[t].dispatches[1].status = "QUEUED"
          /\ ts[t].status = "ACTIVE" => ap[t] # << >> /\ last.consumed

\* AttemptsApproved.
Approved(ts, ap, at, rs) ==
    /\ \A c, d \in Claims :
         c # d /\ Made(at, c) /\ Made(at, d) /\ at[c].task = at[d].task /\ at[c].role = at[d].role
         => at[c].approval # at[d].approval
    /\ \A c \in Claims : Made(at, c) =>
         /\ at[c].approval \in DOMAIN ap[at[c].task]
         /\ ap[at[c].task][at[c].approval].consumed
         /\ \/ ts[at[c].task].dispatches[at[c].role].attempt = c
            \/ at[c].status = "RECOVERY_REQUIRED" /\ \E r \in rs : r.attempt = c

\* StoreValid, and an assessment is of an attempt that stays as it was assessed.
Dated(epoch, ts, ap, at, rs) ==
    /\ \A t \in Task :
         /\ ts[t].dispatch_epoch <= epoch
         /\ \A i \in DOMAIN ap[t] : ap[t][i].dispatch_epoch <= ts[t].dispatch_epoch
    /\ \A r \in rs : ts[r.task].dispatch_epoch \in {r.previous, r.target}
    /\ \A c \in Claims : Made(at, c) =>
         /\ at[c].dispatch_epoch <= ts[at[c].task].dispatch_epoch
         /\ at[c].dispatch_epoch = ap[at[c].task][at[c].approval].dispatch_epoch
    /\ \A r \in rs :
         /\ r.previous = at[r.attempt].dispatch_epoch
         /\ r.previous < r.target
         /\ r.target <= epoch
         /\ at[r.attempt].status = "RECOVERY_REQUIRED"
         /\ at[r.attempt].task = r.task
         /\ at[r.attempt].role = r.role

Consistent(epoch, ts, ap, at, rs) ==
    /\ Typed(epoch, ts, ap, at, rs)
    /\ Carried(ts, at)
    /\ Ticketed(ts, ap)
    /\ Approved(ts, ap, at, rs)
    /\ Dated(epoch, ts, ap, at, rs)

IInv ==
    /\ Consistent(dispatch_epoch, tasks, approvals, attempts, recoveries)
    /\ revision \in Nat
    /\ online \subseteq Node
-----------------------------------------------------------------------------
(* Roles and tasks.                                                          *)

Passive == Waiting \cup {"SUCCEEDED"}

\* new is task with another status, epoch and i-th item.
Replaced(task, new, status, epoch, i, item) ==
    /\ new \in TaskRecord
    /\ new.status = status /\ new.dispatch_epoch = epoch /\ new.profile_revision = task.profile_revision
    /\ DOMAIN new.dispatches = DOMAIN task.dispatches
    /\ Len(new.dispatches) = Len(task.dispatches)
    /\ new.dispatches[i] = item
    /\ \A j \in DOMAIN task.dispatches \ {i} : new.dispatches[j] = task.dispatches[j]

LEMMA Items ==
  ASSUME NEW task \in TaskRecord
  PROVE  /\ task.dispatches \in Seq(Item) /\ task.status \in TaskStatus
         /\ task.dispatch_epoch \in Nat /\ task.profile_revision \in Nat
         /\ Len(task.dispatches) \in Nat /\ DOMAIN task.dispatches = 1..Len(task.dispatches)
         /\ \A i \in DOMAIN task.dispatches :
              /\ i \in Nat /\ task.dispatches[i] \in Item
              /\ task.dispatches[i].status \in ItemStatus
              /\ task.dispatches[i].attempt \in Claims \cup {NoClaim}
<1>1. /\ task.dispatches \in Seq(Item) /\ task.status \in TaskStatus
      /\ task.dispatch_epoch \in Nat /\ task.profile_revision \in Nat
  BY DEF TaskRecord
<1>2. /\ Len(task.dispatches) \in Nat /\ DOMAIN task.dispatches = 1..Len(task.dispatches)
      /\ \A i \in DOMAIN task.dispatches : i \in Nat /\ task.dispatches[i] \in Item
  BY <1>1
<1> QED
  BY <1>1, <1>2 DEF Item

\* At most one role of a chain is neither done nor waiting.
LEMMA OneFront ==
  ASSUME NEW items \in Seq(Item), Ordered(items), NEW i \in DOMAIN items, NEW j \in DOMAIN items,
         items[i].status \notin Passive, items[j].status \notin Passive
  PROVE  i = j
<1>1. i \in Nat /\ j \in Nat /\ i > 0 /\ j > 0
  OBVIOUS
<1>2. ~(i < j)
  <2> SUFFICES ASSUME i < j PROVE FALSE
    OBVIOUS
  <2>1. i \in 1..(j - 1)
    BY <1>1
  <2> QED
    BY <2>1 DEF Ordered, Passive
<1>3. ~(j < i)
  <2> SUFFICES ASSUME j < i PROVE FALSE
    OBVIOUS
  <2>1. j \in 1..(i - 1)
    BY <1>1
  <2> QED
    BY <2>1 DEF Ordered, Passive
<1> QED
  BY <1>1, <1>2, <1>3

\* A record with some fields replaced.
LEMMA ReplacedItem ==
  ASSUME NEW task \in TaskRecord, NEW i \in DOMAIN task.dispatches, NEW item \in Item,
         NEW status \in TaskStatus, NEW epoch \in Nat, NEW new,
         \/ /\ new = [task EXCEPT !.dispatch_epoch = epoch, !.status = status, !.dispatches[i] = item]
         \/ new = [task EXCEPT !.status = status, !.dispatches[i] = item] /\ epoch = task.dispatch_epoch
         \/ /\ new = [task EXCEPT !.status = status, !.dispatches[i].status = item.status]
            /\ epoch = task.dispatch_epoch /\ item.attempt = task.dispatches[i].attempt
         \/ /\ new = [task EXCEPT !.dispatches[i].status = item.status] /\ status = task.status
            /\ epoch = task.dispatch_epoch /\ item.attempt = task.dispatches[i].attempt
  PROVE  Replaced(task, new, status, epoch, i, item)
<1> DEFINE ds == [task.dispatches EXCEPT ![i] = item]
<1>1. ds \in Seq(Item) /\ DOMAIN ds = DOMAIN task.dispatches /\ Len(ds) = Len(task.dispatches)
      /\ ds[i] = item /\ \A j \in DOMAIN task.dispatches \ {i} : ds[j] = task.dispatches[j]
  BY Items
<1>2. item.attempt = task.dispatches[i].attempt =>
        [task.dispatches EXCEPT ![i].status = item.status] = ds
  <2>1. \A old \in Item : item.attempt = old.attempt => [old EXCEPT !.status = item.status] = item
    BY DEF Item
  <2>2. item.attempt = task.dispatches[i].attempt => [task.dispatches[i] EXCEPT !.status = item.status] = item
    BY <2>1, Items
  <2> QED
    BY <2>2
<1> HIDE DEF ds
<1>3. new.dispatches = ds /\ new.status = status /\ new.dispatch_epoch = epoch
      /\ new.profile_revision = task.profile_revision /\ new \in TaskRecord
  BY <1>1, <1>2 DEF TaskRecord, ds
<1> QED
  BY <1>1, <1>3 DEF Replaced

\* A chain stays in order when the role it stands at becomes something else.
LEMMA FrontMoves ==
  ASSUME NEW t \in Task, NEW task, WellFormed(t, task), NEW i \in DOMAIN task.dispatches,
         task.dispatches[i].status \notin Passive,
         NEW new \in TaskRecord, Len(new.dispatches) = Len(task.dispatches),
         \A j \in DOMAIN task.dispatches \ {i} :
           \/ new.dispatches[j].status = task.dispatches[j].status
           \/ task.dispatches[j].status \in Waiting /\ new.dispatches[j].status \in Waiting,
         new.status # "none", Suits(new.status, new.dispatches[i].status),
         new.status = "AWAITING_APPROVAL" => new.dispatches[1].status = "WAITING_APPROVAL"
  PROVE  WellFormed(t, new)
<1>1. task \in TaskRecord /\ Ordered(task.dispatches)
  BY DEF WellFormed
<1>2. /\ DOMAIN task.dispatches = 1..Len(task.dispatches) /\ Len(task.dispatches) \in Nat
      /\ DOMAIN new.dispatches = DOMAIN task.dispatches /\ task.dispatches \in Seq(Item)
  BY <1>1, Items
<1>3. task.status # "none"
  BY <1>2 DEF WellFormed
<1>4. \A j \in DOMAIN task.dispatches \ {i} : task.dispatches[j].status \in Passive
  BY <1>1, <1>2, OneFront
<1>5. \A j \in DOMAIN task.dispatches \ {i} : new.dispatches[j].status \in Passive
  BY <1>4 DEF Passive
<1>6. Ordered(new.dispatches)
  <2> SUFFICES ASSUME NEW j \in DOMAIN task.dispatches, new.dispatches[j].status \notin Waiting,
                      NEW k \in 1..(j - 1)
               PROVE  new.dispatches[k].status = "SUCCEEDED"
    BY <1>2 DEF Ordered
  <2>1. k \in DOMAIN task.dispatches /\ k < j
    BY <1>2
  <2>2. task.dispatches[j].status \notin Waiting
    BY DEF Passive, Waiting
  <2>3. task.dispatches[k].status = "SUCCEEDED"
    BY <1>1, <2>2 DEF Ordered
  <2>4. k # i
    BY <2>3 DEF Passive
  <2> QED
    BY <2>1, <2>3, <2>4 DEF Waiting
<1>7. \A j \in DOMAIN task.dispatches : Suits(new.status, new.dispatches[j].status)
  BY <1>5 DEF Suits, Passive, Waiting, Working
<1> QED
  BY <1>2, <1>3, <1>6, <1>7 DEF WellFormed

\* The common case of it.
LEMMA FrontReplaced ==
  ASSUME NEW t \in Task, NEW task, WellFormed(t, task), NEW i \in DOMAIN task.dispatches,
         task.dispatches[i].status \notin Passive,
         NEW item \in Item, NEW status \in TaskStatus \ {"none"}, NEW epoch \in Nat,
         NEW new, Replaced(task, new, status, epoch, i, item), Suits(status, item.status),
         status = "AWAITING_APPROVAL" => i = 1 /\ item.status = "WAITING_APPROVAL"
  PROVE  WellFormed(t, new)
<1>1. /\ new \in TaskRecord /\ Len(new.dispatches) = Len(task.dispatches)
      /\ new.status = status /\ new.dispatches[i] = item
      /\ \A j \in DOMAIN task.dispatches \ {i} : new.dispatches[j] = task.dispatches[j]
  BY DEF Replaced
<1> QED
  BY <1>1, FrontMoves

\* What Blocked leaves of a chain.
LEMMA BlockedItems ==
  ASSUME NEW items \in Seq(Item)
  PROVE  /\ Blocked(items) \in Seq(Item) /\ Len(Blocked(items)) = Len(items)
         /\ DOMAIN Blocked(items) = DOMAIN items
         /\ \A i \in DOMAIN items :
              /\ Blocked(items)[i].attempt = items[i].attempt
              /\ \/ Blocked(items)[i] = items[i]
                 \/ items[i].status = "WAITING_DEPENDENCY" /\ Blocked(items)[i].status = "BLOCKED"
<1> DEFINE b(i) == IF items[i].status = "WAITING_DEPENDENCY" THEN [items[i] EXCEPT !.status = "BLOCKED"]
                   ELSE items[i]
<1>1. ASSUME NEW i \in DOMAIN items
      PROVE  /\ b(i) \in Item /\ b(i).attempt = items[i].attempt
             /\ b(i) = items[i] \/ (items[i].status = "WAITING_DEPENDENCY" /\ b(i).status = "BLOCKED")
  <2>1. items[i] \in Item
    OBVIOUS
  <2> QED
    BY <2>1 DEF Item, ItemStatus
<1>2. Blocked(items) = [i \in 1..Len(items) |-> b(i)] /\ DOMAIN items = 1..Len(items) /\ Len(items) \in Nat
  BY DEF Blocked
<1> HIDE DEF b
<1>3. Blocked(items) \in Seq(Item) /\ Len(Blocked(items)) = Len(items)
  BY <1>1, <1>2
<1> QED
  BY <1>1, <1>2, <1>3

\* new is task after its i-th role ended badly: what waited is blocked.
Closed(task, new, i, status) ==
    /\ new \in TaskRecord
    /\ new.status = status /\ new.dispatch_epoch = task.dispatch_epoch
    /\ new.profile_revision = task.profile_revision
    /\ DOMAIN new.dispatches = DOMAIN task.dispatches
    /\ Len(new.dispatches) = Len(task.dispatches)
    /\ new.dispatches[i].status = status
    /\ \A j \in DOMAIN task.dispatches : new.dispatches[j].attempt = task.dispatches[j].attempt
    /\ \A j \in DOMAIN task.dispatches \ {i} :
         \/ new.dispatches[j].status = task.dispatches[j].status
         \/ task.dispatches[j].status \in Waiting /\ new.dispatches[j].status \in Waiting

LEMMA ClosedTask ==
  ASSUME NEW t \in Task, NEW task, WellFormed(t, task), NEW i \in DOMAIN task.dispatches,
         task.dispatches[i].status \notin Passive,
         NEW status \in {"FAILED", "RECOVERY_REQUIRED"},
         NEW new, new = [task EXCEPT !.status = status,
                                     !.dispatches = Blocked([@ EXCEPT ![i].status = status])]
  PROVE  Closed(task, new, i, status) /\ WellFormed(t, new)
<1>1. task \in TaskRecord /\ task.dispatches \in Seq(Item) /\ task.dispatches[i] \in Item
  BY Items DEF WellFormed
<1> DEFINE item == [task.dispatches[i] EXCEPT !.status = status]
           ds == [task.dispatches EXCEPT ![i] = item]
<1>2. item \in Item /\ item.status = status /\ item.attempt = task.dispatches[i].attempt
  BY <1>1 DEF Item, ItemStatus, AttemptStatus
<1> HIDE DEF item
<1>3. /\ ds \in Seq(Item) /\ DOMAIN ds = DOMAIN task.dispatches /\ Len(ds) = Len(task.dispatches)
      /\ ds[i] = item /\ \A j \in DOMAIN task.dispatches \ {i} : ds[j] = task.dispatches[j]
  BY <1>1, <1>2
<1>4. new = [task EXCEPT !.status = status, !.dispatches = Blocked(ds)]
  BY DEF item
<1> HIDE DEF ds
<1>5. /\ Blocked(ds) \in Seq(Item) /\ Len(Blocked(ds)) = Len(ds) /\ DOMAIN Blocked(ds) = DOMAIN ds
      /\ \A j \in DOMAIN ds :
           /\ Blocked(ds)[j].attempt = ds[j].attempt
           /\ \/ Blocked(ds)[j] = ds[j]
              \/ ds[j].status = "WAITING_DEPENDENCY" /\ Blocked(ds)[j].status = "BLOCKED"
  BY <1>3, BlockedItems
<1>6. /\ new \in TaskRecord /\ new.status = status /\ new.dispatches = Blocked(ds)
      /\ new.dispatch_epoch = task.dispatch_epoch /\ new.profile_revision = task.profile_revision
  <2>1. PICK b \in Seq(Item) : b = Blocked(ds)
    BY <1>5
  <2> QED
    BY <2>1, <1>1, <1>4 DEF TaskRecord, TaskStatus
<1>7. new.dispatches[i].status = status
  BY <1>2, <1>3, <1>5, <1>6
<1>8. Closed(task, new, i, status)
  BY <1>2, <1>3, <1>5, <1>6, <1>7, ZenonT(60) DEF Closed, Waiting
<1>9. Suits(new.status, new.dispatches[i].status) /\ new.status \notin {"none", "AWAITING_APPROVAL"}
  BY <1>6, <1>7 DEF Suits, Working
<1>10. WellFormed(t, new)
  BY <1>1, <1>8, <1>9, FrontMoves, ZenonT(60) DEF Closed
<1> QED
  BY <1>8, <1>10

\* new is task after its i-th role succeeded.
Succeeded(task, new, i) ==
    /\ new \in TaskRecord
    /\ new.dispatch_epoch = task.dispatch_epoch /\ new.profile_revision = task.profile_revision
    /\ DOMAIN new.dispatches = DOMAIN task.dispatches
    /\ Len(new.dispatches) = Len(task.dispatches)
    /\ new.dispatches[i].status = "SUCCEEDED"
    /\ \A j \in DOMAIN task.dispatches : new.dispatches[j].attempt = task.dispatches[j].attempt
    /\ i < Len(task.dispatches) => /\ new.status = task.status
                                   /\ task.dispatches[i + 1].status \in Waiting
                                   /\ new.dispatches[i + 1].status = "QUEUED"
    /\ i = Len(task.dispatches) => new.status = "SUCCEEDED"
    /\ \A j \in DOMAIN task.dispatches \ {i, i + 1} : new.dispatches[j] = task.dispatches[j]

LEMMA AdvancedTask ==
  ASSUME NEW t \in Task, NEW task, WellFormed(t, task), NEW i \in DOMAIN task.dispatches,
         task.dispatches[i].status \in Working
  PROVE  Succeeded(task, Advanced(task, i), i) /\ WellFormed(t, Advanced(task, i))
<1>1. /\ task \in TaskRecord /\ task.dispatches \in Seq(Item) /\ Ordered(task.dispatches)
      /\ DOMAIN task.dispatches = 1..Len(task.dispatches) /\ Len(task.dispatches) \in Nat
      /\ \A j \in DOMAIN task.dispatches : task.dispatches[j] \in Item
      /\ task.status = "ACTIVE" /\ task.dispatches[i].status \notin Passive
  BY Items DEF WellFormed, Suits, Working, Passive, Waiting
<1>2. \A j \in DOMAIN task.dispatches : j > i => task.dispatches[j].status \in Waiting
  <2> SUFFICES ASSUME NEW j \in DOMAIN task.dispatches, j > i, task.dispatches[j].status \notin Waiting
               PROVE  FALSE
    OBVIOUS
  <2>1. i \in 1..(j - 1)
    BY <1>1
  <2> QED
    BY <2>1, <1>1 DEF Ordered, Working
<1> DEFINE new == Advanced(task, i)
           done == [task.dispatches[i] EXCEPT !.status = "SUCCEEDED"]
           next == [task.dispatches[i + 1] EXCEPT !.status = "QUEUED"]
<1>3. done \in Item /\ done.status = "SUCCEEDED" /\ done.attempt = task.dispatches[i].attempt
  <2>1. task.dispatches[i] \in Item
    BY <1>1
  <2> QED
    BY <2>1 DEF Item, ItemStatus, AttemptStatus
<1>4. CASE i < Len(task.dispatches)
  <2>1. i + 1 \in DOMAIN task.dispatches /\ i + 1 # i /\ i + 1 > i
    BY <1>1, <1>4
  <2>2. next \in Item /\ next.status = "QUEUED" /\ next.attempt = task.dispatches[i + 1].attempt
    <3>1. task.dispatches[i + 1] \in Item
      BY <1>1, <2>1
    <3> QED
      BY <3>1 DEF Item, ItemStatus
  <2> DEFINE ds == [task.dispatches EXCEPT ![i] = done, ![i + 1] = next]
  <2>3. new = [task EXCEPT !.dispatches = ds]
    <3>1. task.dispatches[i + 1] = [task.dispatches EXCEPT ![i] = done][i + 1]
      BY <1>1, <2>1
    <3>2. new = [task EXCEPT !.dispatches[i].status = "SUCCEEDED", !.dispatches[i + 1].status = "QUEUED"]
      BY <1>4 DEF Advanced
    <3>3. "dispatches" \in DOMAIN task
      BY <1>1 DEF TaskRecord
    <3> QED
      BY <1>1, <3>1, <3>2, <3>3
  <2> HIDE DEF done, next
  <2>4. /\ ds \in Seq(Item) /\ DOMAIN ds = DOMAIN task.dispatches /\ Len(ds) = Len(task.dispatches)
        /\ ds[i] = done /\ ds[i + 1] = next
        /\ \A j \in DOMAIN task.dispatches \ {i, i + 1} : ds[j] = task.dispatches[j]
    BY <1>1, <1>3, <2>1, <2>2
  <2> HIDE DEF ds, new
  <2>5. /\ new \in TaskRecord /\ new.dispatches = ds /\ new.status = "ACTIVE"
        /\ new.dispatch_epoch = task.dispatch_epoch /\ new.profile_revision = task.profile_revision
    BY <1>1, <2>3, <2>4 DEF TaskRecord
  <2>6. Succeeded(task, new, i)
    BY <1>1, <1>2, <1>3, <1>4, <2>1, <2>2, <2>4, <2>5 DEF Succeeded
  <2>7. Ordered(new.dispatches)
    <3> SUFFICES ASSUME NEW j \in DOMAIN task.dispatches, new.dispatches[j].status \notin Waiting,
                        NEW k \in 1..(j - 1)
                 PROVE  new.dispatches[k].status = "SUCCEEDED"
      BY <2>4, <2>5 DEF Ordered
    <3>1. j <= i + 1 /\ k <= i /\ k \in DOMAIN task.dispatches
      BY <1>1, <1>2, <2>4, <2>5
    <3>2. CASE k = i
      BY <3>2, <1>3, <2>4, <2>5
    <3>3. CASE k < i
      <4>1. k \in 1..(i - 1) /\ k \in DOMAIN task.dispatches \ {i, i + 1}
        BY <1>1, <3>1, <3>3
      <4>2. task.dispatches[k].status = "SUCCEEDED"
        BY <4>1, <1>1 DEF Ordered, Passive
      <4> QED
        BY <4>1, <4>2, <2>4, <2>5
    <3> QED
      BY <3>1, <3>2, <3>3, <1>1
  <2>8. \A j \in DOMAIN new.dispatches : Suits(new.status, new.dispatches[j].status)
    <3> SUFFICES ASSUME NEW j \in DOMAIN task.dispatches PROVE Suits("ACTIVE", ds[j].status)
      BY <2>4, <2>5
    <3>1. CASE j = i
      BY <3>1, <1>3, <2>4 DEF Suits, Working
    <3>2. CASE j = i + 1
      BY <3>2, <2>2, <2>4 DEF Suits, Working
    <3>3. CASE j \notin {i, i + 1}
      BY <3>3, <1>1, <2>4 DEF WellFormed
    <3> QED
      BY <3>1, <3>2, <3>3
  <2> QED
    BY <1>1, <2>4, <2>5, <2>6, <2>7, <2>8 DEF WellFormed, new
<1>5. CASE ~(i < Len(task.dispatches))
  <2>1. i = Len(task.dispatches)
    BY <1>1, <1>5
  <2>2. new = [task EXCEPT !.dispatches[i].status = done.status, !.status = "SUCCEEDED"]
    BY <1>3, <1>5 DEF Advanced
  <2>3. new = [task EXCEPT !.status = "SUCCEEDED", !.dispatches[i].status = done.status]
    BY <1>1, <2>2 DEF TaskRecord
  <2> HIDE DEF done, new
  <2>4. Replaced(task, new, "SUCCEEDED", task.dispatch_epoch, i, done)
    BY <1>1, <1>3, <2>3, ReplacedItem DEF TaskRecord, TaskStatus
  <2>5. Succeeded(task, new, i)
    BY <1>1, <1>3, <2>1, <2>4 DEF Succeeded, Replaced
  <2>6. Suits("SUCCEEDED", done.status)
    BY <1>3 DEF Suits, Working
  <2>7. WellFormed(t, new)
    BY <1>1, <1>3, <2>4, <2>6, FrontReplaced DEF TaskRecord, TaskStatus
  <2> QED
    BY <2>5, <2>7 DEF new
<1> QED
  BY <1>4, <1>5

-----------------------------------------------------------------------------
(* Reconciliation, the first half of every request but those that only create *)
(* or approve.                                                               *)

ConstantAssumptions == /\ TaskCount \in Nat
                       /\ Assignment \in [Task -> Seq(Node)]
                       /\ \A t \in Task : Len(Assignment[t]) \in 2..5
                       /\ NoClaim \notin Claims

LEMMA Constants == ConstantAssumptions
BY TaskCountAssumption, AssignmentAssumption, NoClaimAssumption DEF ConstantAssumptions

LEMMA RoleCount ==
  ASSUME NEW t \in Task
  PROVE  Len(Assignment[t]) \in Nat /\ Len(Assignment[t]) >= 2
<1>1. Len(Assignment[t]) \in 2..5
  BY AssignmentAssumption
<1>2. \A n : n \in 2..5 => n \in Nat /\ n >= 2
  OBVIOUS
<1> QED
  BY <1>1, <1>2

\* What a consistent store knows of an attempt that was made.
LEMMA MadeAttempt ==
  ASSUME NEW epoch, NEW ts, NEW ap, NEW at, NEW rs, Consistent(epoch, ts, ap, at, rs),
         NEW c \in Claims, Made(at, c)
  PROVE  /\ at[c] \in Attempt /\ at[c].task \in Task /\ at[c].status \in AttemptStatus \ {"none"}
         /\ WellFormed(at[c].task, ts[at[c].task]) /\ ts[at[c].task] \in TaskRecord
         /\ at[c].role \in DOMAIN ts[at[c].task].dispatches
         /\ at[c].dispatch_epoch \in Nat
         /\ at[c].dispatch_epoch <= ts[at[c].task].dispatch_epoch
         /\ ts[at[c].task].dispatch_epoch <= epoch
         /\ ts[at[c].task].dispatch_epoch \in Nat /\ epoch \in Nat
<1>1. at[c] \in Attempt /\ at[c].task \in Task /\ at[c].role \in DOMAIN ts[at[c].task].dispatches
  BY DEF Consistent, Typed, Carried
<1>2. at[c].status \in AttemptStatus \ {"none"} /\ at[c].dispatch_epoch \in Nat
  BY <1>1 DEF Attempt, Made
<1>3. WellFormed(at[c].task, ts[at[c].task]) /\ ts[at[c].task] \in TaskRecord /\ epoch \in Nat
  BY <1>1 DEF Consistent, Typed
<1>4. ts[at[c].task].dispatch_epoch \in Nat
  BY <1>3 DEF TaskRecord
<1>5. at[c].dispatch_epoch <= ts[at[c].task].dispatch_epoch /\ ts[at[c].task].dispatch_epoch <= epoch
  BY <1>1 DEF Consistent, Dated
<1> QED
  BY <1>1, <1>2, <1>3, <1>4, <1>5

\* What a role says of the attempt it has.
LEMMA ItemSays ==
  ASSUME NEW ts, NEW at, Carried(ts, at), NEW u \in Task, NEW j \in DOMAIN ts[u].dispatches
  PROVE  /\ ts[u].dispatches[j].attempt = NoClaim => ts[u].dispatches[j].status \notin AttemptStatus
         /\ ts[u].dispatches[j].attempt # NoClaim =>
              /\ ts[u].dispatches[j].status = at[ts[u].dispatches[j].attempt].status
              /\ at[ts[u].dispatches[j].attempt].task = u
              /\ at[ts[u].dispatches[j].attempt].role = j
BY DEF Carried

\* What it knows of one that is at work.
LEMMA WorkingAttempt ==
  ASSUME NEW epoch, NEW ts, NEW ap, NEW at, NEW rs, Consistent(epoch, ts, ap, at, rs),
         NEW c \in Claims, at[c].status \in Working
  PROVE  LET task == ts[at[c].task]
             item == task.dispatches[at[c].role]
         IN  /\ Made(at, c) /\ at[c].task \in Task /\ at[c].role \in DOMAIN task.dispatches
             /\ task.status = "ACTIVE" /\ item.attempt = c /\ item.status = at[c].status
             /\ item.status \notin Passive
<1>1. Made(at, c)
  BY DEF Made, Working
<1>2. /\ at[c].task \in Task /\ WellFormed(at[c].task, ts[at[c].task])
      /\ at[c].role \in DOMAIN ts[at[c].task].dispatches
  BY <1>1, MadeAttempt
<1>3. ts[at[c].task].dispatches[at[c].role].attempt = c
  BY DEF Consistent, Carried
<1>4. c # NoClaim
  BY Constants DEF ConstantAssumptions
<1>5. ts[at[c].task].dispatches[at[c].role].status = at[c].status
  <2>1. PICK u \in Task : u = at[c].task
    BY <1>2
  <2>2. PICK r \in DOMAIN ts[u].dispatches : r = at[c].role
    BY <1>2, <2>1
  <2>3. ts[u].dispatches[r].attempt = c /\ Carried(ts, at)
    BY <1>3, <2>1, <2>2 DEF Consistent
  <2>4. ts[u].dispatches[r].status = at[c].status
    BY <1>4, <2>3, ItemSays
  <2> QED
    BY <2>1, <2>2, <2>4
<1>6. ts[at[c].task].status = "ACTIVE"
  BY <1>2, <1>5 DEF WellFormed, Suits
<1> QED
  BY <1>1, <1>2, <1>3, <1>5, <1>6 DEF Working, Passive, Waiting

LEMMA RoleAtWork ==
  ASSUME NEW epoch, NEW ts, NEW ap, NEW at, NEW rs, Consistent(epoch, ts, ap, at, rs)
  PROVE  \A d \in Claims : at[d].status \in Working =>
           /\ at[d].task \in Task /\ at[d].role \in DOMAIN ts[at[d].task].dispatches
           /\ ts[at[d].task].dispatches[at[d].role].attempt = d
           /\ ts[at[d].task].dispatches[at[d].role].status = at[d].status
BY WorkingAttempt

\* An item that is queued or waits for an approval has no attempt.
LEMMA FreeItem ==
  ASSUME NEW epoch, NEW ts, NEW ap, NEW at, NEW rs, Consistent(epoch, ts, ap, at, rs),
         NEW t \in Task, NEW i \in DOMAIN ts[t].dispatches,
         ts[t].dispatches[i].status \notin AttemptStatus
  PROVE  ts[t].dispatches[i].attempt = NoClaim
<1> SUFFICES ASSUME ts[t].dispatches[i].attempt # NoClaim PROVE FALSE
  OBVIOUS
<1>1. ts[t] \in TaskRecord
  BY DEF Consistent, Typed
<1>2. ts[t].dispatches[i].attempt \in Claims
  BY <1>1, Items
<1>3. at[ts[t].dispatches[i].attempt] \in Attempt
  BY <1>2 DEF Consistent, Typed
<1> QED
  BY <1>3 DEF Consistent, Carried, Attempt

\* Two live attempts are of two tasks.
LEMMA LiveApart ==
  ASSUME NEW epoch, NEW ts, NEW ap, NEW at, NEW rs, Consistent(epoch, ts, ap, at, rs),
         NEW c \in Claims, NEW d \in Claims, at[c].status \in Working, at[d].status \in Working,
         at[c].task = at[d].task
  PROVE  c = d
<1>1. /\ at[c].task \in Task
      /\ ts[at[c].task].dispatches[at[c].role].attempt = c
      /\ ts[at[c].task].dispatches[at[c].role].status \notin Passive
      /\ at[c].role \in DOMAIN ts[at[c].task].dispatches
      /\ ts[at[c].task].dispatches[at[d].role].attempt = d
      /\ ts[at[c].task].dispatches[at[d].role].status \notin Passive
      /\ at[d].role \in DOMAIN ts[at[c].task].dispatches
  BY WorkingAttempt
<1>2. ts[at[c].task].dispatches \in Seq(Item) /\ Ordered(ts[at[c].task].dispatches)
  BY <1>1, Items DEF Consistent, Typed, WellFormed
<1>3. at[c].role = at[d].role
  BY <1>1, <1>2, OneFront
<1> QED
  BY <1>1, <1>3

\* A task is demoted, is fenced with the one attempt that was lost, or stays as it is.
Demotion(t) ==
    /\ tasks[t].status = "QUEUED" /\ LostOf(t) = {}
    /\ \E i \in DOMAIN tasks[t].dispatches :
         LET recovery == approvals[t][Len(approvals[t])].recovery
             role == IF recovery THEN "WAITING_RECOVERY_APPROVAL" ELSE "WAITING_APPROVAL"
             status == IF recovery THEN "AWAITING_RECOVERY_APPROVAL" ELSE "AWAITING_APPROVAL"
         IN  /\ tasks[t].dispatches[i].status = "QUEUED"
             /\ tasks[t].dispatches[i].attempt = NoClaim
             /\ ~recovery => i = 1
             /\ Replaced(tasks[t], Reconciled(t), status, tasks[t].dispatch_epoch, i,
                         [status |-> role, attempt |-> NoClaim])

Fencing(t) ==
    \E c \in Claims :
      /\ LostOf(t) = {c} /\ attempts[c].task = t
      /\ Closed(tasks[t], Reconciled(t), attempts[c].role, "RECOVERY_REQUIRED")

Untouched(t) == Reconciled(t) = tasks[t] /\ LostOf(t) = {}

LEMMA LastTicket ==
  ASSUME IInv, NEW t \in Task, approvals[t] # << >>
  PROVE  /\ approvals[t] \in Seq(Approval) /\ Len(approvals[t]) \in Nat \ {0}
         /\ DOMAIN approvals[t] = 1..Len(approvals[t])
         /\ approvals[t][Len(approvals[t])] \in Approval
         /\ Len(approvals[t]) \in Matching(t) /\ Latest(Matching(t)) = Len(approvals[t])
         /\ ~approvals[t][Len(approvals[t])].consumed =>
              Len(approvals[t]) \in Unconsumed(t) /\ Latest(Unconsumed(t)) = Len(approvals[t])
<1> DEFINE n == Len(approvals[t])
<1>1. approvals[t] \in Seq(Approval) /\ n \in Nat \ {0} /\ DOMAIN approvals[t] = 1..n /\ n \in 1..n
  BY DEF IInv, Consistent, Typed
<1>2. approvals[t][n] \in Approval
  BY <1>1
<1>3. n \in Matching(t)
  BY <1>1 DEF IInv, Consistent, Ticketed, Matching
<1>4. \A S \in SUBSET (1..n) : n \in S => Latest(S) = n
  <2> SUFFICES ASSUME NEW S \in SUBSET (1..n), n \in S PROVE Latest(S) = n
    OBVIOUS
  <2>1. \A i \in S : (\A j \in S : j <= i) <=> i = n
    BY <1>1
  <2> QED
    BY <2>1 DEF Latest
<1>5. Matching(t) \subseteq 1..n /\ Unconsumed(t) \subseteq 1..n
  BY DEF Matching, Unconsumed
<1>6. ~approvals[t][n].consumed => n \in Unconsumed(t)
  BY <1>3 DEF Unconsumed
<1> QED
  BY <1>1, <1>2, <1>3, <1>4, <1>5, <1>6

LEMMA ReconciledTask ==
  ASSUME IInv, NEW t \in Task
  PROVE  /\ Demotion(t) \/ Fencing(t) \/ Untouched(t)
         /\ WellFormed(t, Reconciled(t))
<1>1. /\ WellFormed(t, tasks[t]) /\ tasks[t] \in TaskRecord /\ Ordered(tasks[t].dispatches)
      /\ tasks[t].dispatches \in Seq(Item)
      /\ Consistent(dispatch_epoch, tasks, approvals, attempts, recoveries)
  BY Items DEF IInv, Consistent, Typed, WellFormed
<1>2. \A c \in LostOf(t) : c \in Claims /\ attempts[c].status \in Working /\ attempts[c].task = t
                           /\ tasks[t].status = "ACTIVE"
  BY DEF LostOf, Lost, Live, Working
<1>3. CASE tasks[t].status = "QUEUED" /\ QueuedItems(t) # {} /\ ~LiveApproval(t)
  <2>1. PICK i \in DOMAIN tasks[t].dispatches : tasks[t].dispatches[i].status = "QUEUED"
    BY <1>3 DEF QueuedItems
  <2>2. QueuedItems(t) = {i}
    <3>1. \A j \in QueuedItems(t) : j = i
      BY <1>1, <2>1, OneFront DEF QueuedItems, Passive, Waiting
    <3> QED
      BY <2>1, <3>1 DEF QueuedItems
  <2>3. i \in Nat /\ (CHOOSE k \in QueuedItems(t) : \A j \in QueuedItems(t) : k <= j) = i
    <3>1. i \in Nat /\ i <= i
      BY <1>1
    <3>2. \A k \in {i} : \A j \in {i} : k <= j
      BY <3>1
    <3> QED
      BY <2>2, <3>1, <3>2
  <2> DEFINE recovery == approvals[t][Len(approvals[t])].recovery
             role == IF recovery THEN "WAITING_RECOVERY_APPROVAL" ELSE "WAITING_APPROVAL"
             status == IF recovery THEN "AWAITING_RECOVERY_APPROVAL" ELSE "AWAITING_APPROVAL"
             item == [status |-> role, attempt |-> NoClaim]
  <2>4. approvals[t] # << >> /\ ~approvals[t][Len(approvals[t])].consumed
        /\ (~recovery => tasks[t].dispatches[1].status = "QUEUED")
    BY <1>3, <1>1 DEF Consistent, Ticketed
  <2>5. Len(approvals[t]) \in Unconsumed(t) /\ Latest(Unconsumed(t)) = Len(approvals[t])
    BY <2>4, LastTicket
  <2>6. (\E k \in Unconsumed(t) : k = Latest(Unconsumed(t)) /\ approvals[t][k].recovery) <=> recovery
    BY <2>5
  <2>7. ~recovery => i = 1
    <3>1. 1 \in DOMAIN tasks[t].dispatches
      BY <2>1, <1>1
    <3> QED
      BY <2>2, <2>4, <3>1 DEF QueuedItems
  <2>8. tasks[t].dispatches[i].attempt = NoClaim
    BY <1>1, <2>1, FreeItem DEF AttemptStatus
  <2>9. Reconciled(t) = [tasks[t] EXCEPT !.status = status, !.dispatches[i].status = item.status]
    BY <1>3, <2>3, <2>6 DEF Reconciled, Demoted
  <2>10. item \in Item /\ status \in TaskStatus \ {"none"} /\ item.status = role /\ item.attempt = NoClaim
    BY DEF Item, ItemStatus, TaskStatus
  <2>11. Suits(status, role) /\ (status = "AWAITING_APPROVAL" => i = 1 /\ role = "WAITING_APPROVAL")
    BY <2>7 DEF Suits, Working
  <2>12. tasks[t].dispatches[i].status \notin Passive
    BY <2>1 DEF Passive, Waiting
  <2> HIDE DEF item, status, role
  <2>13. Replaced(tasks[t], Reconciled(t), status, tasks[t].dispatch_epoch, i, item)
    <3>1. tasks[t].dispatch_epoch \in Nat /\ status \in TaskStatus
      BY <1>1, <2>10, Items
    <3>2. item.attempt = tasks[t].dispatches[i].attempt
      BY <2>8, <2>10
    <3> QED
      BY <1>1, <2>9, <2>10, <3>1, <3>2, ReplacedItem
  <2>14. WellFormed(t, Reconciled(t))
    BY <1>1, <2>10, <2>11, <2>12, <2>13, FrontReplaced DEF TaskRecord
  <2>15. LostOf(t) = {}
    BY <1>2, <1>3
  <2>16. Demotion(t)
    BY <1>3, <2>1, <2>7, <2>8, <2>13, <2>15 DEF Demotion, item, status, role
  <2> QED
    BY <2>14, <2>16
<1>4. CASE ~(tasks[t].status = "QUEUED" /\ QueuedItems(t) # {} /\ ~LiveApproval(t)) /\ LostOf(t) # {}
  <2>1. PICK c : c = CHOOSE d \in LostOf(t) : TRUE
    OBVIOUS
  <2>2. c \in LostOf(t)
    BY <1>4, <2>1
  <2>3. LostOf(t) = {c}
    BY <1>1, <1>2, <2>2, LiveApart
  <2>4. /\ attempts[c].task = t /\ attempts[c].role \in DOMAIN tasks[t].dispatches
        /\ tasks[t].dispatches[attempts[c].role].status \notin Passive
    BY <1>1, <1>2, <2>2, WorkingAttempt
  <2>5. Reconciled(t) = [tasks[t] EXCEPT !.status = "RECOVERY_REQUIRED",
                          !.dispatches = Blocked([@ EXCEPT ![attempts[c].role].status = "RECOVERY_REQUIRED"])]
    BY <1>4, <2>1 DEF Reconciled, FencedTask
  <2>6. /\ Closed(tasks[t], Reconciled(t), attempts[c].role, "RECOVERY_REQUIRED")
        /\ WellFormed(t, Reconciled(t))
    BY <1>1, <2>4, <2>5, ClosedTask
  <2> QED
    BY <1>2, <2>2, <2>3, <2>6 DEF Fencing
<1>5. CASE ~(tasks[t].status = "QUEUED" /\ QueuedItems(t) # {} /\ ~LiveApproval(t)) /\ LostOf(t) = {}
  BY <1>1, <1>5 DEF Reconciled, Untouched
<1> QED
  BY <1>3, <1>4, <1>5

LEMMA ReconciledAttempt ==
  ASSUME IInv, NEW c \in Claims
  PROVE  /\ ReconciledAttempts[c] \in Attempt
         /\ ReconciledAttempts[c].task = attempts[c].task
         /\ ReconciledAttempts[c].role = attempts[c].role
         /\ ReconciledAttempts[c].approval = attempts[c].approval
         /\ ReconciledAttempts[c].dispatch_epoch = attempts[c].dispatch_epoch
         /\ ReconciledAttempts[c].lapsed = attempts[c].lapsed
         /\ Lost(c) => ReconciledAttempts[c].status = "RECOVERY_REQUIRED" /\ attempts[c].status \in Working
         /\ ~Lost(c) => ReconciledAttempts[c] = attempts[c]
<1>1. attempts[c] \in Attempt
  BY DEF IInv, Consistent, Typed
<1>2. PICK a \in Attempt : a = attempts[c]
  BY <1>1
<1>3. ReconciledAttempts[c] = IF Lost(c) THEN [a EXCEPT !.status = "RECOVERY_REQUIRED"] ELSE a
  BY <1>2 DEF ReconciledAttempts
<1>4. Lost(c) => attempts[c].status \in Working
  BY DEF Lost, Live, Working
<1> HIDE DEF Lost
<1> QED
  BY <1>2, <1>3, <1>4 DEF Attempt, AttemptStatus

\* What reconciliation leaves of a task whatever becomes of it.
LEMMA ReconciledKeeps ==
  ASSUME IInv, NEW t \in Task
  PROVE  /\ ReconciledTasks[t] = Reconciled(t)
         /\ Reconciled(t).dispatch_epoch = tasks[t].dispatch_epoch
         /\ Reconciled(t).profile_revision = tasks[t].profile_revision
         /\ DOMAIN Reconciled(t).dispatches = DOMAIN tasks[t].dispatches
         /\ \A i \in DOMAIN tasks[t].dispatches :
              Reconciled(t).dispatches[i].attempt = tasks[t].dispatches[i].attempt
         /\ Reconciled(t) # tasks[t] => Reconciled(t).status \in
              {"AWAITING_APPROVAL", "AWAITING_RECOVERY_APPROVAL", "RECOVERY_REQUIRED"}
         /\ \A i \in DOMAIN tasks[t].dispatches :
              Reconciled(t).dispatches[i].status \in Waiting => tasks[t].dispatches[i].status \in Waiting
<1>1. ReconciledTasks[t] = Reconciled(t)
  BY DEF ReconciledTasks
<1>2. CASE Demotion(t)
  BY <1>1, <1>2 DEF Demotion, Replaced, Waiting
<1>3. CASE Fencing(t)
  BY <1>1, <1>3 DEF Fencing, Closed, Waiting
<1>4. CASE Untouched(t)
  BY <1>1, <1>4 DEF Untouched
<1> QED
  BY <1>2, <1>3, <1>4, ReconciledTask

\* An attempt is lost in the task it is an attempt of.
LEMMA LostInTask ==
  ASSUME IInv, NEW c \in Claims, Lost(c)
  PROVE  attempts[c].task \in Task /\ c \in LostOf(attempts[c].task) /\ Made(attempts, c)
BY WorkingAttempt DEF IInv, LostOf, Lost, Live, Working

LEMMA ReconcileKeeps ==
  ASSUME IInv
  PROVE  Consistent(ReconciledEpoch, ReconciledTasks, approvals, ReconciledAttempts, recoveries)
<1>1. /\ Consistent(dispatch_epoch, tasks, approvals, attempts, recoveries)
      /\ dispatch_epoch \in Nat
  BY DEF IInv, Consistent, Typed
<1>2. ReconciledEpoch \in Nat /\ dispatch_epoch <= ReconciledEpoch
  BY <1>1 DEF ReconciledEpoch
<1>3. Typed(ReconciledEpoch, ReconciledTasks, approvals, ReconciledAttempts, recoveries)
  <2>1. \A t \in Task : WellFormed(t, ReconciledTasks[t]) /\ ReconciledTasks[t] \in TaskRecord
    BY ReconciledTask, ReconciledKeeps DEF WellFormed
  <2>2. ReconciledTasks \in [Task -> TaskRecord] /\ ReconciledAttempts \in [Claims -> Attempt]
    BY <2>1, ReconciledAttempt DEF ReconciledTasks, ReconciledAttempts
  <2> QED
    BY <1>1, <1>2, <2>1, <2>2 DEF Typed, Consistent
<1>4. \A c \in Claims : Made(ReconciledAttempts, c) <=> Made(attempts, c)
  BY ReconciledAttempt DEF Made, Working
<1>5. Carried(ReconciledTasks, ReconciledAttempts)
  <2>1. ASSUME NEW t \in Task, NEW i \in DOMAIN tasks[t].dispatches,
               tasks[t].dispatches[i].attempt = NoClaim
        PROVE  Reconciled(t).dispatches[i].status \notin AttemptStatus
    <3>1. tasks[t].dispatches[i].status \notin AttemptStatus
      BY <1>1, <2>1 DEF Consistent, Carried
    <3>2. CASE Demotion(t)
      BY <3>1, <3>2 DEF Demotion, Replaced, AttemptStatus
    <3>3. CASE Fencing(t)
      <4>1. PICK c \in Claims :
              /\ LostOf(t) = {c} /\ attempts[c].task = t
              /\ Closed(tasks[t], Reconciled(t), attempts[c].role, "RECOVERY_REQUIRED")
        BY <3>3 DEF Fencing
      <4>2. tasks[t].dispatches[attempts[c].role].attempt = c /\ c # NoClaim
        BY <1>1, <4>1, WorkingAttempt, Constants DEF LostOf, Lost, Live, Working, ConstantAssumptions
      <4>3. i # attempts[c].role
        BY <2>1, <4>2
      <4> QED
        BY <3>1, <4>1, <4>3 DEF Closed, Waiting, AttemptStatus
    <3>4. CASE Untouched(t)
      BY <3>1, <3>4 DEF Untouched
    <3> QED
      BY <3>2, <3>3, <3>4, ReconciledTask
  <2>2. ASSUME NEW t \in Task, NEW i \in DOMAIN tasks[t].dispatches,
               NEW d, d = tasks[t].dispatches[i].attempt, d # NoClaim
        PROVE  /\ Reconciled(t).dispatches[i].status = ReconciledAttempts[d].status
               /\ ReconciledAttempts[d].task = t /\ ReconciledAttempts[d].role = i
    <3>1. d \in Claims
      BY <1>1, <2>2, Items DEF Consistent, Typed
    <3>2. tasks[t].dispatches[i].status = attempts[d].status /\ attempts[d].task = t /\ attempts[d].role = i
      BY <1>1, <2>2 DEF Consistent, Carried
    <3>3. attempts[d].status \in AttemptStatus
      BY <1>1, <3>1 DEF Consistent, Typed, Attempt
    <3>4. Lost(d) => d \in LostOf(t)
      BY <3>1, <3>2 DEF LostOf
    <3>5. Reconciled(t).dispatches[i].status = ReconciledAttempts[d].status
      <4>1. CASE Demotion(t)
        <5>1. Reconciled(t).dispatches[i] = tasks[t].dispatches[i]
          BY <4>1, <3>2, <3>3 DEF Demotion, Replaced, AttemptStatus
        <5>2. ~Lost(d)
          BY <4>1, <3>4 DEF Demotion
        <5> QED
          BY <5>1, <5>2, <3>1, <3>2, ReconciledAttempt
      <4>2. CASE Fencing(t)
        <5>1. PICK c \in Claims :
                /\ LostOf(t) = {c} /\ attempts[c].task = t
                /\ Closed(tasks[t], Reconciled(t), attempts[c].role, "RECOVERY_REQUIRED")
          BY <4>2 DEF Fencing
        <5>2. tasks[t].dispatches[attempts[c].role].attempt = c /\ Lost(c)
          BY <1>1, <5>1, WorkingAttempt DEF LostOf, Lost, Live, Working
        <5>3. CASE i = attempts[c].role
          BY <2>2, <5>1, <5>2, <5>3, ReconciledAttempt DEF Closed
        <5>4. CASE i # attempts[c].role
          <6>1. d # c /\ ~Lost(d)
            BY <3>2, <3>4, <5>1, <5>4
          <6>2. Reconciled(t).dispatches[i].status = tasks[t].dispatches[i].status
            BY <3>2, <3>3, <5>1, <5>4 DEF Closed, Waiting, AttemptStatus
          <6> QED
            BY <3>1, <3>2, <6>1, <6>2, ReconciledAttempt
        <5> QED
          BY <5>3, <5>4
      <4>3. CASE Untouched(t)
        BY <3>1, <3>2, <3>4, <4>3, ReconciledAttempt DEF Untouched
      <4> QED
        BY <4>1, <4>2, <4>3, ReconciledTask
    <3> QED
      BY <3>1, <3>2, <3>5, ReconciledAttempt
  <2>3. ASSUME NEW c \in Claims, ReconciledAttempts[c].status \in Working
        PROVE  ReconciledTasks[ReconciledAttempts[c].task].dispatches[ReconciledAttempts[c].role].attempt = c
    <3>1. attempts[c].status \in Working
      BY <2>3, ReconciledAttempt
    <3>2. /\ attempts[c].task \in Task /\ attempts[c].role \in DOMAIN tasks[attempts[c].task].dispatches
          /\ tasks[attempts[c].task].dispatches[attempts[c].role].attempt = c
      BY <1>1, <3>1, WorkingAttempt
    <3> QED
      BY <3>2, ReconciledAttempt, ReconciledKeeps
  <2>4. ASSUME NEW c \in Claims, Made(ReconciledAttempts, c)
        PROVE  LET t == ReconciledAttempts[c].task
                   i == ReconciledAttempts[c].role
               IN  /\ t \in Task /\ i \in DOMAIN ReconciledTasks[t].dispatches
                   /\ ReconciledTasks[t].dispatches[i].status \notin Waiting
                   /\ ReconciledTasks[t].status = "ACTIVE" => ReconciledTasks[t].dispatches[i].status # "QUEUED"
    <3> DEFINE t == attempts[c].task
               i == attempts[c].role
    <3>1. /\ t \in Task /\ i \in DOMAIN tasks[t].dispatches
          /\ tasks[t].dispatches[i].status \notin Waiting
          /\ tasks[t].status = "ACTIVE" => tasks[t].dispatches[i].status # "QUEUED"
      BY <1>1, <1>4, <2>4 DEF Consistent, Carried
    <3>2. ReconciledAttempts[c].task = t /\ ReconciledAttempts[c].role = i
      BY ReconciledAttempt
    <3> HIDE DEF t, i
    <3>3. /\ i \in DOMAIN Reconciled(t).dispatches /\ Reconciled(t).dispatches[i].status \notin Waiting
          /\ Reconciled(t).status = "ACTIVE" => Reconciled(t) = tasks[t]
      BY <3>1, ReconciledKeeps
    <3> QED
      BY <3>1, <3>2, <3>3, ReconciledKeeps
  <2>5. \A t \in Task : DOMAIN ReconciledTasks[t].dispatches = DOMAIN tasks[t].dispatches
                        /\ ReconciledTasks[t] = Reconciled(t)
                        /\ \A i \in DOMAIN tasks[t].dispatches :
                             Reconciled(t).dispatches[i].attempt = tasks[t].dispatches[i].attempt
    BY ReconciledKeeps
  <2> HIDE DEF IInv
  <2> QED
    BY <2>1, <2>2, <2>3, <2>4, <2>5 DEF Carried
<1>6. Ticketed(ReconciledTasks, approvals)
  <2> SUFFICES ASSUME NEW t \in Task
               PROVE  LET last == approvals[t][Len(approvals[t])]
                      IN  /\ Reconciled(t).status = "none" => approvals[t] = << >>
                          /\ approvals[t] # << >> => last.dispatch_epoch = Reconciled(t).dispatch_epoch
                          /\ Reconciled(t).status = "QUEUED" =>
                               /\ approvals[t] # << >>
                               /\ ~last.consumed
                               /\ ~last.recovery => Reconciled(t).dispatches[1].status = "QUEUED"
                          /\ Reconciled(t).status = "ACTIVE" => approvals[t] # << >> /\ last.consumed
    BY DEF Ticketed, ReconciledTasks
  <2>1. CASE Reconciled(t) = tasks[t]
    BY <2>1, <1>1 DEF Consistent, Ticketed
  <2>2. CASE Reconciled(t) # tasks[t]
    BY <2>2, <1>1, ReconciledKeeps DEF Consistent, Ticketed
  <2> QED
    BY <2>1, <2>2
<1>7. Approved(ReconciledTasks, approvals, ReconciledAttempts, recoveries)
  <2>1. ASSUME NEW c \in Claims, NEW d \in Claims,
               c # d, Made(ReconciledAttempts, c), Made(ReconciledAttempts, d),
               ReconciledAttempts[c].task = ReconciledAttempts[d].task,
               ReconciledAttempts[c].role = ReconciledAttempts[d].role
        PROVE  ReconciledAttempts[c].approval # ReconciledAttempts[d].approval
    <3>1. attempts[c].task = attempts[d].task /\ attempts[c].role = attempts[d].role
      BY <2>1, ReconciledAttempt
    <3>2. attempts[c].approval # attempts[d].approval
      BY <1>1, <1>4, <2>1, <3>1 DEF Consistent, Approved
    <3> QED
      BY <3>2, ReconciledAttempt
  <2>2. ASSUME NEW c \in Claims, Made(ReconciledAttempts, c)
        PROVE  LET a == ReconciledAttempts[c] IN
               /\ a.approval \in DOMAIN approvals[a.task]
               /\ approvals[a.task][a.approval].consumed
               /\ \/ ReconciledTasks[a.task].dispatches[a.role].attempt = c
                  \/ a.status = "RECOVERY_REQUIRED" /\ \E r \in recoveries : r.attempt = c
    <3> DEFINE t == attempts[c].task
               i == attempts[c].role
    <3>1. /\ attempts[c].approval \in DOMAIN approvals[t] /\ approvals[t][attempts[c].approval].consumed
          /\ t \in Task /\ i \in DOMAIN tasks[t].dispatches
          /\ \/ tasks[t].dispatches[i].attempt = c
             \/ attempts[c].status = "RECOVERY_REQUIRED" /\ \E r \in recoveries : r.attempt = c
      BY <1>1, <1>4, <2>2 DEF Consistent, Approved, Carried
    <3>2. /\ ReconciledAttempts[c].task = t /\ ReconciledAttempts[c].role = i
          /\ ReconciledAttempts[c].approval = attempts[c].approval
          /\ attempts[c].status = "RECOVERY_REQUIRED" => ReconciledAttempts[c].status = "RECOVERY_REQUIRED"
      BY ReconciledAttempt
    <3> HIDE DEF t, i
    <3>3. ReconciledTasks[t].dispatches[i].attempt = tasks[t].dispatches[i].attempt
      BY <3>1, ReconciledKeeps
    <3> QED
      BY <3>1, <3>2, <3>3
  <2> QED
    BY <2>1, <2>2 DEF Approved
<1>8. Dated(ReconciledEpoch, ReconciledTasks, approvals, ReconciledAttempts, recoveries)
  <2>1. \A t \in Task : ReconciledTasks[t].dispatch_epoch = tasks[t].dispatch_epoch /\ tasks[t].dispatch_epoch \in Nat
    BY <1>1, ReconciledKeeps, Items DEF Consistent, Typed
  <2>2. ASSUME NEW t \in Task
        PROVE  /\ ReconciledTasks[t].dispatch_epoch <= ReconciledEpoch
               /\ \A i \in DOMAIN approvals[t] : approvals[t][i].dispatch_epoch <= ReconciledTasks[t].dispatch_epoch
    BY <1>1, <1>2, <2>1 DEF Consistent, Dated
  <2>3. ASSUME NEW r \in recoveries
        PROVE  /\ ReconciledTasks[r.task].dispatch_epoch \in {r.previous, r.target}
               /\ r.previous = ReconciledAttempts[r.attempt].dispatch_epoch
               /\ r.previous < r.target
               /\ r.target <= ReconciledEpoch
               /\ ReconciledAttempts[r.attempt].status = "RECOVERY_REQUIRED"
               /\ ReconciledAttempts[r.attempt].task = r.task
               /\ ReconciledAttempts[r.attempt].role = r.role
    <3>1. r.task \in Task /\ r.attempt \in Claims /\ r.target \in Nat
      BY <1>1 DEF Consistent, Typed, Recovery
    <3>2. r.target <= dispatch_epoch /\ attempts[r.attempt].status = "RECOVERY_REQUIRED"
      BY <1>1 DEF Consistent, Dated
    <3>3. ReconciledAttempts[r.attempt] = attempts[r.attempt]
      BY <3>1, <3>2, ReconciledAttempt DEF Working
    <3>4. r.target <= ReconciledEpoch
      BY <1>1, <1>2, <3>1, <3>2
    <3> QED
      BY <1>1, <2>1, <3>1, <3>3, <3>4 DEF Consistent, Dated
  <2>4. ASSUME NEW c \in Claims, Made(ReconciledAttempts, c)
        PROVE  LET a == ReconciledAttempts[c] IN
               /\ a.dispatch_epoch <= ReconciledTasks[a.task].dispatch_epoch
               /\ a.dispatch_epoch = approvals[a.task][a.approval].dispatch_epoch
    <3>1. /\ attempts[c].task \in Task
          /\ attempts[c].dispatch_epoch <= tasks[attempts[c].task].dispatch_epoch
          /\ attempts[c].dispatch_epoch = approvals[attempts[c].task][attempts[c].approval].dispatch_epoch
      BY <1>1, <1>4, <2>4 DEF Consistent, Dated, Carried
    <3> QED
      BY <2>1, <3>1, ReconciledAttempt
  <2> QED
    BY <2>2, <2>3, <2>4 DEF Dated
<1> QED
  BY <1>3, <1>5, <1>6, <1>7, <1>8 DEF Consistent

-----------------------------------------------------------------------------
(* The second half: what the requests do to a consistent store.              *)

\* An assessment of a lost attempt is added.
LEMMA AssessedKeeps ==
  ASSUME NEW epoch, NEW ts, NEW ap, NEW at, NEW rs, Consistent(epoch, ts, ap, at, rs),
         NEW c \in Claims, at[c].status = "RECOVERY_REQUIRED",
         at[c].dispatch_epoch = ts[at[c].task].dispatch_epoch,
         epoch > ts[at[c].task].dispatch_epoch
  PROVE  Consistent(epoch, ts, ap, at,
                    rs \cup {[task |-> at[c].task, role |-> at[c].role, attempt |-> c,
                              previous |-> ts[at[c].task].dispatch_epoch, target |-> epoch]})
<1> DEFINE new == [task |-> at[c].task, role |-> at[c].role, attempt |-> c,
                   previous |-> ts[at[c].task].dispatch_epoch, target |-> epoch]
<1>1. /\ Made(at, c) /\ at[c].task \in Task /\ at[c] \in Attempt
      /\ ts[at[c].task].dispatch_epoch \in Nat /\ epoch \in Nat
  BY MadeAttempt DEF Made
<1>2. new \in Recovery
  BY <1>1 DEF Recovery, Attempt
<1>3. /\ new.task = at[c].task /\ new.role = at[c].role /\ new.attempt = c
      /\ new.previous = ts[at[c].task].dispatch_epoch /\ new.target = epoch
  OBVIOUS
<1> HIDE DEF new
<1>4. Typed(epoch, ts, ap, at, rs \cup {new})
  BY <1>2 DEF Consistent, Typed
<1>5. Approved(ts, ap, at, rs \cup {new})
  BY DEF Consistent, Approved
<1>6. Dated(epoch, ts, ap, at, rs \cup {new})
  BY <1>1, <1>3 DEF Consistent, Dated
<1> QED
  BY <1>4, <1>5, <1>6 DEF Consistent, new

\* A role is queued again by an approval, which becomes the latest of its task.
LEMMA RequeuedKeeps ==
  ASSUME NEW epoch, NEW ts, NEW ap, NEW at, NEW rs, Consistent(epoch, ts, ap, at, rs),
         NEW t \in Task, NEW i \in DOMAIN ts[t].dispatches,
         ts[t].dispatches[i].status \in {"WAITING_APPROVAL", "WAITING_RECOVERY_APPROVAL", "RECOVERY_REQUIRED"},
         ts[t].dispatches[i].attempt # NoClaim => \E r \in rs : r.attempt = ts[t].dispatches[i].attempt,
         NEW target \in Nat, ts[t].dispatch_epoch <= target, target <= epoch,
         \A r \in rs : r.task = t => target \in {r.previous, r.target},
         NEW ticket \in Approval, ticket.dispatch_epoch = target, ~ticket.consumed, ~ticket.recovery => i = 1,
         NEW ts2 \in [Task -> TaskRecord], \A u \in Task \ {t} : ts2[u] = ts[u],
         Replaced(ts[t], ts2[t], "QUEUED", target, i, [status |-> "QUEUED", attempt |-> NoClaim]),
         NEW ap2, ap2 = [ap EXCEPT ![t] = Append(@, ticket)]
  PROVE  Consistent(epoch, ts2, ap2, at, rs)
<1> DEFINE item == [status |-> "QUEUED", attempt |-> NoClaim]
<1>1. /\ Typed(epoch, ts, ap, at, rs) /\ Carried(ts, at) /\ Ticketed(ts, ap)
      /\ Approved(ts, ap, at, rs) /\ Dated(epoch, ts, ap, at, rs)
  BY DEF Consistent
<1>2. /\ ts[t] \in TaskRecord /\ WellFormed(t, ts[t]) /\ ap[t] \in Seq(Approval) /\ epoch \in Nat
      /\ ts[t].dispatch_epoch \in Nat
  BY <1>1, Items DEF Typed
<1>3. item \in Item /\ item.status = "QUEUED" /\ item.attempt = NoClaim
  BY DEF Item, ItemStatus
<1>4. ticket \in Approval /\ ticket.dispatch_epoch = target /\ ~ticket.consumed
  OBVIOUS
<1> HIDE DEF item
<1>5. /\ ap2[t] \in Seq(Approval) /\ Len(ap2[t]) = Len(ap[t]) + 1 /\ Len(ap[t]) \in Nat
      /\ ap2[t][Len(ap2[t])] = ticket /\ ap2[t] # << >>
      /\ DOMAIN ap2[t] = DOMAIN ap[t] \cup {Len(ap2[t])} /\ Len(ap2[t]) \notin DOMAIN ap[t]
      /\ \A k \in DOMAIN ap[t] : ap2[t][k] = ap[t][k]
      /\ \A u \in Task \ {t} : ap2[u] = ap[u]
      /\ ap2 \in [Task -> Seq(Approval)]
  <2>1. PICK old \in Seq(Approval) : old = ap[t]
    BY <1>2
  <2>2. PICK new : new = Append(old, ticket)
    OBVIOUS
  <2>3. /\ new \in Seq(Approval) /\ Len(new) = Len(old) + 1 /\ Len(old) \in Nat
        /\ new[Len(new)] = ticket /\ new # << >>
        /\ DOMAIN new = DOMAIN old \cup {Len(new)} /\ Len(new) \notin DOMAIN old
        /\ \A k \in DOMAIN old : new[k] = old[k]
    BY <1>4, <2>2
  <2>4. ap2 = [ap EXCEPT ![t] = new]
    BY <2>1, <2>2
  <2>5. ap2[t] = new /\ (\A u \in Task \ {t} : ap2[u] = ap[u]) /\ ap2 \in [Task -> Seq(Approval)]
    BY <1>1, <2>3, <2>4 DEF Typed
  <2> QED
    BY <2>1, <2>3, <2>5
<1>6. /\ ts2[t] \in TaskRecord /\ ts2[t].status = "QUEUED" /\ ts2[t].dispatch_epoch = target
      /\ DOMAIN ts2[t].dispatches = DOMAIN ts[t].dispatches
      /\ ts2[t].dispatches[i] = item
      /\ \A j \in DOMAIN ts[t].dispatches \ {i} : ts2[t].dispatches[j] = ts[t].dispatches[j]
  BY DEF Replaced, item
<1>7. WellFormed(t, ts2[t])
  <2>1. ts[t].dispatches[i].status \notin Passive /\ Suits("QUEUED", item.status) /\ "QUEUED" \in TaskStatus \ {"none"}
    BY <1>3 DEF Passive, Waiting, Suits, Working, TaskStatus
  <2> QED
    BY <1>2, <1>3, <2>1, FrontReplaced DEF item
<1>8. Typed(epoch, ts2, ap2, at, rs)
  BY <1>1, <1>5, <1>7 DEF Typed
<1>9. Carried(ts2, at)
  <2>1. ASSUME NEW u \in Task, NEW j \in DOMAIN ts2[u].dispatches
        PROVE  LET it == ts2[u].dispatches[j]
               IN  IF it.attempt = NoClaim THEN it.status \notin AttemptStatus
                   ELSE /\ it.status = at[it.attempt].status
                        /\ at[it.attempt].task = u
                        /\ at[it.attempt].role = j
    <3>1. CASE u = t /\ j = i
      BY <3>1, <1>3, <1>6 DEF AttemptStatus
    <3>2. CASE ~(u = t /\ j = i)
      <4>1. j \in DOMAIN ts[u].dispatches /\ ts2[u].dispatches[j] = ts[u].dispatches[j]
        BY <3>2, <1>6
      <4> QED
        BY <4>1, <1>1, ItemSays
    <3> QED
      BY <3>1, <3>2
  <2>2. ASSUME NEW c \in Claims, at[c].status \in Working
        PROVE  ts2[at[c].task].dispatches[at[c].role].attempt = c
    <3>1. /\ at[c].task \in Task /\ at[c].role \in DOMAIN ts[at[c].task].dispatches
          /\ ts[at[c].task].dispatches[at[c].role].attempt = c
          /\ ts[at[c].task].dispatches[at[c].role].status \in Working
      BY <2>2, WorkingAttempt
    <3>2. ~(at[c].task = t /\ at[c].role = i)
      BY <3>1 DEF Working
    <3> QED
      BY <3>1, <3>2, <1>6
  <2>3. ASSUME NEW c \in Claims, Made(at, c)
        PROVE  /\ at[c].task \in Task
               /\ at[c].role \in DOMAIN ts2[at[c].task].dispatches
               /\ LET task == ts2[at[c].task]
                  IN  /\ task.dispatches[at[c].role].status \notin Waiting
                      /\ task.status = "ACTIVE" => task.dispatches[at[c].role].status # "QUEUED"
    <3>1. /\ at[c].task \in Task /\ at[c].role \in DOMAIN ts[at[c].task].dispatches
          /\ ts[at[c].task].dispatches[at[c].role].status \notin Waiting
          /\ ts[at[c].task].status = "ACTIVE" => ts[at[c].task].dispatches[at[c].role].status # "QUEUED"
      BY <1>1, <2>3 DEF Carried
    <3>2. CASE at[c].task = t
      BY <3>1, <3>2, <1>3, <1>6 DEF Waiting
    <3>3. CASE at[c].task # t
      BY <3>1, <3>3
    <3> QED
      BY <3>2, <3>3
  <2> QED
    BY <2>1, <2>2, <2>3 DEF Carried
<1>10. Ticketed(ts2, ap2)
  <2> SUFFICES ASSUME NEW u \in Task
               PROVE  LET last == ap2[u][Len(ap2[u])]
                      IN  /\ ts2[u].status = "none" => ap2[u] = << >>
                          /\ ap2[u] # << >> => last.dispatch_epoch = ts2[u].dispatch_epoch
                          /\ ts2[u].status = "QUEUED" =>
                               /\ ap2[u] # << >>
                               /\ ~last.consumed
                               /\ ~last.recovery => ts2[u].dispatches[1].status = "QUEUED"
                          /\ ts2[u].status = "ACTIVE" => ap2[u] # << >> /\ last.consumed
    BY DEF Ticketed
  <2>1. CASE u = t
    BY <2>1, <1>3, <1>4, <1>5, <1>6
  <2>2. CASE u # t
    BY <2>2, <1>1, <1>5 DEF Ticketed
  <2> QED
    BY <2>1, <2>2
<1>11. Approved(ts2, ap2, at, rs)
  <2>1. ASSUME NEW c \in Claims, Made(at, c)
        PROVE  /\ at[c].approval \in DOMAIN ap2[at[c].task]
               /\ ap2[at[c].task][at[c].approval].consumed
               /\ \/ ts2[at[c].task].dispatches[at[c].role].attempt = c
                  \/ at[c].status = "RECOVERY_REQUIRED" /\ \E r \in rs : r.attempt = c
    <3>1. /\ at[c].approval \in DOMAIN ap[at[c].task] /\ ap[at[c].task][at[c].approval].consumed
          /\ at[c].task \in Task /\ at[c].role \in DOMAIN ts[at[c].task].dispatches
          /\ \/ ts[at[c].task].dispatches[at[c].role].attempt = c
             \/ at[c].status = "RECOVERY_REQUIRED" /\ \E r \in rs : r.attempt = c
      BY <1>1, <2>1 DEF Approved, Carried
    <3>2. at[c].approval \in DOMAIN ap2[at[c].task] /\ ap2[at[c].task][at[c].approval].consumed
      BY <3>1, <1>5
    <3>3. CASE at[c].task = t /\ at[c].role = i /\ ts[t].dispatches[i].attempt = c
      <4>1. c # NoClaim
        BY Constants DEF ConstantAssumptions
      <4>2. PICK r \in rs : r.attempt = c
        BY <3>3, <4>1
      <4>3. at[c].status = "RECOVERY_REQUIRED"
        BY <1>1, <4>2 DEF Dated
      <4> QED
        BY <3>2, <4>2, <4>3
    <3>4. CASE ~(at[c].task = t /\ at[c].role = i /\ ts[t].dispatches[i].attempt = c)
      BY <3>1, <3>2, <3>4, <1>6
    <3> QED
      BY <3>3, <3>4
  <2> QED
    BY <2>1, <1>1 DEF Approved
<1>12. Dated(epoch, ts2, ap2, at, rs)
  <2>1. ASSUME NEW u \in Task
        PROVE  /\ ts2[u].dispatch_epoch <= epoch
               /\ \A k \in DOMAIN ap2[u] : ap2[u][k].dispatch_epoch <= ts2[u].dispatch_epoch
    <3>1. CASE u # t
      BY <3>1, <1>1, <1>5 DEF Dated
    <3>2. CASE u = t
      <4>1. \A k \in DOMAIN ap[t] : ap[t][k].dispatch_epoch <= ts[t].dispatch_epoch /\ ap[t][k].dispatch_epoch \in Nat
        <5>1. \A k \in DOMAIN ap[t] : ap[t][k] \in Approval
          BY <1>2
        <5>2. \A k \in DOMAIN ap[t] : ap[t][k].dispatch_epoch \in Nat
          BY <5>1 DEF Approval
        <5>3. \A k \in DOMAIN ap[t] : ap[t][k].dispatch_epoch <= ts[t].dispatch_epoch
          BY <1>1 DEF Dated
        <5> QED
          BY <5>2, <5>3
      <4>2. \A k \in DOMAIN ap[t] : ap[t][k].dispatch_epoch <= target
        BY <1>2, <4>1
      <4> QED
        BY <3>2, <4>2, <1>4, <1>5, <1>6
    <3> QED
      BY <3>1, <3>2
  <2>2. \A r \in rs : ts2[r.task].dispatch_epoch \in {r.previous, r.target}
    BY <1>1, <1>6 DEF Dated, Typed, Recovery
  <2>3. ASSUME NEW c \in Claims, Made(at, c)
        PROVE  /\ at[c].dispatch_epoch <= ts2[at[c].task].dispatch_epoch
               /\ at[c].dispatch_epoch = ap2[at[c].task][at[c].approval].dispatch_epoch
    <3>1. /\ at[c].dispatch_epoch \in Nat /\ at[c].task \in Task
          /\ at[c].dispatch_epoch <= ts[at[c].task].dispatch_epoch
          /\ at[c].dispatch_epoch = ap[at[c].task][at[c].approval].dispatch_epoch
          /\ at[c].approval \in DOMAIN ap[at[c].task]
      BY <1>1, <2>3, MadeAttempt DEF Dated, Approved
    <3>2. at[c].dispatch_epoch = ap2[at[c].task][at[c].approval].dispatch_epoch
      BY <3>1, <1>5
    <3>3. at[c].dispatch_epoch <= ts2[at[c].task].dispatch_epoch
      BY <3>1, <1>2, <1>6
    <3> QED
      BY <3>2, <3>3
  <2> QED
    BY <1>1, <2>1, <2>2, <2>3 DEF Dated
<1> QED
  BY <1>8, <1>9, <1>10, <1>11, <1>12 DEF Consistent

\* A queued role of a task is claimed, under the latest approval of the task.
LEMMA ClaimedKeeps ==
  ASSUME NEW epoch, NEW ts, NEW ap, NEW at, NEW rs, Consistent(epoch, ts, ap, at, rs),
         NEW t \in Task, NEW i \in DOMAIN ts[t].dispatches, ts[t].dispatches[i].status = "QUEUED",
         NEW c \in Claims, ~Made(at, c),
         NEW n, n = Len(ap[t]),
         NEW ts2 \in [Task -> TaskRecord], \A u \in Task \ {t} : ts2[u] = ts[u],
         Replaced(ts[t], ts2[t], "ACTIVE", ts[t].dispatch_epoch, i, [status |-> "CLAIMED", attempt |-> c]),
         NEW ap2, ap2 = [ap EXCEPT ![t][n].consumed = TRUE],
         NEW at2, at2 = [at EXCEPT ![c] = [status |-> "CLAIMED", task |-> t, role |-> i, approval |-> n,
                                           dispatch_epoch |-> ts[t].dispatch_epoch,
                                           event_sequence |-> 0, lapsed |-> FALSE]]
  PROVE  Consistent(epoch, ts2, ap2, at2, rs)
<1> DEFINE item == [status |-> "CLAIMED", attempt |-> c]
           made == [status |-> "CLAIMED", task |-> t, role |-> i, approval |-> n,
                    dispatch_epoch |-> ts[t].dispatch_epoch, event_sequence |-> 0, lapsed |-> FALSE]
           ticket == [ap[t][n] EXCEPT !.consumed = TRUE]
<1>1. /\ Typed(epoch, ts, ap, at, rs) /\ Carried(ts, at) /\ Ticketed(ts, ap)
      /\ Approved(ts, ap, at, rs) /\ Dated(epoch, ts, ap, at, rs)
  BY DEF Consistent
<1>2. /\ ts[t] \in TaskRecord /\ WellFormed(t, ts[t]) /\ ap[t] \in Seq(Approval) /\ epoch \in Nat
      /\ ts[t].dispatch_epoch \in Nat /\ i \in Nat
  BY <1>1, Items DEF Typed
<1>3. ts[t].status \in {"QUEUED", "ACTIVE"} /\ ap[t] # << >>
  BY <1>1, <1>2 DEF WellFormed, Suits, Ticketed
<1>4. /\ n \in Nat /\ n \in DOMAIN ap[t] /\ ap[t][n] \in Approval
      /\ ap[t][n].dispatch_epoch = ts[t].dispatch_epoch
      /\ ~ap[t][n].consumed \/ ts[t].status = "ACTIVE"
  <2>1. n \in Nat /\ n \in DOMAIN ap[t] /\ ap[t][n] \in Approval
    BY <1>2, <1>3
  <2> QED
    BY <2>1, <1>1, <1>3 DEF Ticketed
<1>5. item \in Item /\ item.status = "CLAIMED" /\ item.attempt = c /\ c # NoClaim
  BY Constants DEF Item, ItemStatus, AttemptStatus, ConstantAssumptions
<1>6. /\ made \in Attempt /\ made.status = "CLAIMED" /\ made.task = t /\ made.role = i /\ made.approval = n
      /\ made.dispatch_epoch = ts[t].dispatch_epoch
  BY <1>2, <1>4, Constants DEF Attempt, AttemptStatus, Task, ConstantAssumptions
<1>7. /\ ticket \in Approval /\ ticket.consumed /\ ticket.dispatch_epoch = ap[t][n].dispatch_epoch
  <2>1. PICK old \in Approval : old = ap[t][n]
    BY <1>4
  <2>2. [old EXCEPT !.consumed = TRUE] \in Approval
    BY DEF Approval
  <2> QED
    BY <2>1, <2>2 DEF Approval
<1> HIDE DEF item, made, ticket
<1>8. /\ ap2[t] \in Seq(Approval) /\ Len(ap2[t]) = n /\ DOMAIN ap2[t] = DOMAIN ap[t]
      /\ ap2[t][n] = ticket /\ \A k \in DOMAIN ap[t] \ {n} : ap2[t][k] = ap[t][k]
      /\ \A u \in Task \ {t} : ap2[u] = ap[u]
      /\ ap2 \in [Task -> Seq(Approval)]
  <2>1. PICK old \in Seq(Approval) : old = ap[t]
    BY <1>2
  <2>2. PICK new : new = [old EXCEPT ![n] = ticket]
    OBVIOUS
  <2>3. /\ new \in Seq(Approval) /\ Len(new) = Len(old) /\ DOMAIN new = DOMAIN old
        /\ new[n] = ticket /\ \A k \in DOMAIN old \ {n} : new[k] = old[k]
    BY <1>4, <1>7, <2>1, <2>2
  <2>4. ap2 = [ap EXCEPT ![t] = new]
    BY <1>1, <2>1, <2>2 DEF Typed, ticket
  <2>5. ap2[t] = new /\ (\A u \in Task \ {t} : ap2[u] = ap[u]) /\ ap2 \in [Task -> Seq(Approval)]
    BY <1>1, <2>3, <2>4 DEF Typed
  <2> QED
    BY <2>1, <2>3, <2>5
<1>9. /\ at2[c] = made /\ \A d \in Claims \ {c} : at2[d] = at[d]
      /\ at2 \in [Claims -> Attempt]
  BY <1>1, <1>6 DEF Typed, made
<1>10. /\ ts2[t] \in TaskRecord /\ ts2[t].status = "ACTIVE" /\ ts2[t].dispatch_epoch = ts[t].dispatch_epoch
       /\ DOMAIN ts2[t].dispatches = DOMAIN ts[t].dispatches
       /\ ts2[t].dispatches[i] = item
       /\ \A j \in DOMAIN ts[t].dispatches \ {i} : ts2[t].dispatches[j] = ts[t].dispatches[j]
  BY DEF Replaced, item
<1>11. WellFormed(t, ts2[t])
  <2>1. ts[t].dispatches[i].status \notin Passive /\ Suits("ACTIVE", item.status) /\ "ACTIVE" \in TaskStatus \ {"none"}
    BY <1>5 DEF Passive, Waiting, Suits, Working, TaskStatus
  <2> QED
    BY <1>2, <1>5, <2>1, FrontReplaced DEF item
<1>12. Typed(epoch, ts2, ap2, at2, rs)
  BY <1>1, <1>8, <1>9, <1>11 DEF Typed
<1>13. ts[t].dispatches[i].attempt = NoClaim
  BY FreeItem DEF AttemptStatus
<1>14. \A u \in Task : \A j \in DOMAIN ts[u].dispatches : ts[u].dispatches[j].attempt # c
  <2> SUFFICES ASSUME NEW u \in Task, NEW j \in DOMAIN ts[u].dispatches, ts[u].dispatches[j].attempt = c
               PROVE  FALSE
    OBVIOUS
  <2>1. ts[u].dispatches[j].status = "none"
    BY <1>1, <1>5, ItemSays DEF Made
  <2>2. ts[u].dispatches[j].status \in ItemStatus
    BY <1>1, Items DEF Typed
  <2> QED
    BY <2>1, <2>2 DEF ItemStatus
<1>15. Carried(ts2, at2)
  <2>1. ASSUME NEW u \in Task, NEW j \in DOMAIN ts2[u].dispatches
        PROVE  LET it == ts2[u].dispatches[j]
               IN  IF it.attempt = NoClaim THEN it.status \notin AttemptStatus
                   ELSE /\ it.status = at2[it.attempt].status
                        /\ at2[it.attempt].task = u
                        /\ at2[it.attempt].role = j
    <3>1. CASE u = t /\ j = i
      BY <3>1, <1>5, <1>6, <1>9, <1>10
    <3>2. CASE ~(u = t /\ j = i)
      <4>1. j \in DOMAIN ts[u].dispatches /\ ts2[u].dispatches[j] = ts[u].dispatches[j]
        BY <3>2, <1>10
      <4>2. ts[u].dispatches[j].attempt \in Claims \cup {NoClaim} /\ ts[u].dispatches[j].attempt # c
        BY <4>1, <1>1, <1>14, Items DEF Typed
      <4>3. ts[u].dispatches[j].attempt # NoClaim =>
              at2[ts[u].dispatches[j].attempt] = at[ts[u].dispatches[j].attempt]
        BY <4>2, <1>9
      <4>4. IF ts[u].dispatches[j].attempt = NoClaim THEN ts[u].dispatches[j].status \notin AttemptStatus
            ELSE /\ ts[u].dispatches[j].status = at[ts[u].dispatches[j].attempt].status
                 /\ at[ts[u].dispatches[j].attempt].task = u
                 /\ at[ts[u].dispatches[j].attempt].role = j
        BY <4>1, <1>1, ItemSays
      <4> QED
        BY <4>1, <4>3, <4>4
    <3> QED
      BY <3>1, <3>2
  <2>2. ASSUME NEW d \in Claims, at2[d].status \in Working
        PROVE  ts2[at2[d].task].dispatches[at2[d].role].attempt = d
    <3>1. CASE d = c
      BY <3>1, <1>5, <1>6, <1>9, <1>10
    <3>2. CASE d # c
      <4>1. at2[d] = at[d] /\ at[d].status \in Working
        BY <2>2, <3>2, <1>9
      <4>2. /\ at[d].task \in Task /\ at[d].role \in DOMAIN ts[at[d].task].dispatches
            /\ ts[at[d].task].dispatches[at[d].role].attempt = d
            /\ ts[at[d].task].dispatches[at[d].role].status \in Working
        <5>1. /\ at[d].task \in Task /\ at[d].role \in DOMAIN ts[at[d].task].dispatches
              /\ ts[at[d].task].dispatches[at[d].role].attempt = d
              /\ ts[at[d].task].dispatches[at[d].role].status = at[d].status
          BY <4>1, RoleAtWork
        <5> QED
          BY <4>1, <5>1
      <4>3. ~(at[d].task = t /\ at[d].role = i)
        BY <4>2 DEF Working
      <4> QED
        BY <4>1, <4>2, <4>3, <1>10
    <3> QED
      BY <3>1, <3>2
  <2>3. ASSUME NEW d \in Claims, Made(at2, d)
        PROVE  /\ at2[d].task \in Task
               /\ at2[d].role \in DOMAIN ts2[at2[d].task].dispatches
               /\ LET task == ts2[at2[d].task]
                  IN  /\ task.dispatches[at2[d].role].status \notin Waiting
                      /\ task.status = "ACTIVE" => task.dispatches[at2[d].role].status # "QUEUED"
    <3>1. CASE d = c
      BY <3>1, <1>5, <1>6, <1>9, <1>10 DEF Waiting
    <3>2. CASE d # c
      <4>1. at2[d] = at[d] /\ Made(at, d)
        BY <2>3, <3>2, <1>9 DEF Made
      <4>2. /\ at[d].task \in Task /\ at[d].role \in DOMAIN ts[at[d].task].dispatches
            /\ ts[at[d].task].dispatches[at[d].role].status \notin Waiting
            /\ ts[at[d].task].status = "ACTIVE" => ts[at[d].task].dispatches[at[d].role].status # "QUEUED"
        BY <1>1, <4>1 DEF Carried
      <4>3. CASE at[d].task # t
        BY <4>1, <4>2, <4>3
      <4>4. CASE at[d].task = t /\ at[d].role = i
        BY <4>1, <4>2, <4>4, <1>5, <1>10 DEF Waiting
      <4>5. CASE at[d].task = t /\ at[d].role # i
        <5>1. ts[t].dispatches[at[d].role].status # "QUEUED"
          <6> SUFFICES ASSUME ts[t].dispatches[at[d].role].status = "QUEUED" PROVE FALSE
            OBVIOUS
          <6> QED
            BY <1>2, <4>2, <4>5, OneFront, Items DEF WellFormed, Passive, Waiting
        <5> QED
          BY <4>1, <4>2, <4>5, <5>1, <1>10
      <4> QED
        BY <4>3, <4>4, <4>5
    <3> QED
      BY <3>1, <3>2
  <2> QED
    BY <2>1, <2>2, <2>3 DEF Carried
<1>16. Ticketed(ts2, ap2)
  <2> SUFFICES ASSUME NEW u \in Task
               PROVE  LET last == ap2[u][Len(ap2[u])]
                      IN  /\ ts2[u].status = "none" => ap2[u] = << >>
                          /\ ap2[u] # << >> => last.dispatch_epoch = ts2[u].dispatch_epoch
                          /\ ts2[u].status = "QUEUED" =>
                               /\ ap2[u] # << >>
                               /\ ~last.consumed
                               /\ ~last.recovery => ts2[u].dispatches[1].status = "QUEUED"
                          /\ ts2[u].status = "ACTIVE" => ap2[u] # << >> /\ last.consumed
    BY DEF Ticketed
  <2>1. CASE u = t
    <3>1. ap2[t] # << >>
      BY <1>4, <1>8
    <3> QED
      BY <2>1, <3>1, <1>4, <1>7, <1>8, <1>10
  <2>2. CASE u # t
    BY <2>2, <1>1, <1>8 DEF Ticketed
  <2> QED
    BY <2>1, <2>2
<1>17. \A u \in Task : /\ DOMAIN ap2[u] = DOMAIN ap[u]
                       /\ \A k \in DOMAIN ap[u] : /\ ap[u][k].consumed => ap2[u][k].consumed
                                                  /\ ap2[u][k].dispatch_epoch = ap[u][k].dispatch_epoch
  BY <1>7, <1>8
<1>18. Approved(ts2, ap2, at2, rs)
  <2>1. ASSUME NEW d \in Claims, d # c, Made(at, d), at[d].task = t, at[d].role = i
        PROVE  at[d].approval # n
    <3>1. ts[t].status # "ACTIVE"
      BY <1>1, <2>1 DEF Carried
    <3>2. ap[t][at[d].approval].consumed
      BY <1>1, <2>1 DEF Approved
    <3> QED
      BY <3>1, <3>2, <1>4
  <2>2. ASSUME NEW d \in Claims, NEW e \in Claims, d # e, Made(at2, d), Made(at2, e),
               at2[d].task = at2[e].task, at2[d].role = at2[e].role
        PROVE  at2[d].approval # at2[e].approval
    <3>1. CASE d # c /\ e # c
      BY <2>2, <3>1, <1>1, <1>9 DEF Approved, Made
    <3>2. CASE d = c
      BY <2>1, <2>2, <3>2, <1>6, <1>9 DEF Made
    <3>3. CASE e = c
      BY <2>1, <2>2, <3>3, <1>6, <1>9 DEF Made
    <3> QED
      BY <3>1, <3>2, <3>3
  <2>3. ASSUME NEW d \in Claims, Made(at2, d)
        PROVE  /\ at2[d].approval \in DOMAIN ap2[at2[d].task]
               /\ ap2[at2[d].task][at2[d].approval].consumed
               /\ \/ ts2[at2[d].task].dispatches[at2[d].role].attempt = d
                  \/ at2[d].status = "RECOVERY_REQUIRED" /\ \E r \in rs : r.attempt = d
    <3>1. CASE d = c
      BY <3>1, <1>4, <1>5, <1>6, <1>7, <1>8, <1>9, <1>10
    <3>2. CASE d # c
      <4>1. at2[d] = at[d] /\ Made(at, d)
        BY <2>3, <3>2, <1>9 DEF Made
      <4>2. /\ at[d].approval \in DOMAIN ap[at[d].task] /\ ap[at[d].task][at[d].approval].consumed
            /\ at[d].task \in Task /\ at[d].role \in DOMAIN ts[at[d].task].dispatches
            /\ \/ ts[at[d].task].dispatches[at[d].role].attempt = d
               \/ at[d].status = "RECOVERY_REQUIRED" /\ \E r \in rs : r.attempt = d
        BY <1>1, <4>1 DEF Approved, Carried
      <4>3. ts[at[d].task].dispatches[at[d].role].attempt = d =>
              ts2[at[d].task].dispatches[at[d].role].attempt = d
        <5>1. d # NoClaim
          BY Constants DEF ConstantAssumptions
        <5> QED
          BY <5>1, <4>2, <1>10, <1>13
      <4> QED
        BY <4>1, <4>2, <4>3, <1>17
    <3> QED
      BY <3>1, <3>2
  <2> QED
    BY <2>2, <2>3 DEF Approved
<1>19. Dated(epoch, ts2, ap2, at2, rs)
  <2>1. \A u \in Task : ts2[u].dispatch_epoch = ts[u].dispatch_epoch
    BY <1>10
  <2>2. ASSUME NEW d \in Claims, Made(at2, d)
        PROVE  /\ at2[d].dispatch_epoch <= ts2[at2[d].task].dispatch_epoch
               /\ at2[d].dispatch_epoch = ap2[at2[d].task][at2[d].approval].dispatch_epoch
    <3>1. CASE d = c
      BY <3>1, <1>2, <1>4, <1>6, <1>9, <1>10, <1>17
    <3>2. CASE d # c
      <4>1. at2[d] = at[d] /\ Made(at, d)
        BY <2>2, <3>2, <1>9 DEF Made
      <4>2. at[d].task \in Task /\ at[d].approval \in DOMAIN ap[at[d].task]
        BY <1>1, <4>1 DEF Approved, Carried
      <4> QED
        BY <4>1, <4>2, <2>1, <1>1, <1>17 DEF Dated
    <3> QED
      BY <3>1, <3>2
  <2>3. ASSUME NEW r \in rs
        PROVE  r.task \in Task /\ at2[r.attempt] = at[r.attempt]
    <3>1. r.task \in Task /\ r.attempt \in Claims
      BY <1>1 DEF Typed, Recovery
    <3>2. r.attempt # c
      BY <1>1 DEF Dated, Made
    <3> QED
      BY <3>1, <3>2, <1>9
  <2>4. \A u \in Task : \A k \in DOMAIN ap2[u] : ap2[u][k].dispatch_epoch <= ts2[u].dispatch_epoch
    BY <2>1, <1>1, <1>17 DEF Dated
  <2> QED
    BY <2>1, <2>2, <2>3, <2>4, <1>1 DEF Dated
<1> QED
  BY <1>12, <1>15, <1>16, <1>18, <1>19 DEF Consistent

\* new is task after its i-th role, at work, reported status.
Follows(task, new, i, status) ==
    /\ new.status \in {"ACTIVE", "SUCCEEDED", "FAILED"}
    /\ new.dispatch_epoch = task.dispatch_epoch
    /\ DOMAIN new.dispatches = DOMAIN task.dispatches
    /\ \A j \in DOMAIN task.dispatches : new.dispatches[j].attempt = task.dispatches[j].attempt
    /\ new.dispatches[i].status = status
    /\ \A j \in DOMAIN task.dispatches \ {i} :
         \/ new.dispatches[j].status = task.dispatches[j].status
         \/ /\ task.dispatches[j].status \in Waiting
            /\ new.dispatches[j].status \in Waiting \cup {"QUEUED"}

\* The task t is now new; the attempt c says status.
Put(ts, ts2, t, new) == ts2 = [ts EXCEPT ![t] = new]
Said(at, at2, c, status) == at2 = [at EXCEPT ![c].status = status, ![c].event_sequence = @ + 1]

\* An attempt at work reports, and its task follows.
LEMMA ReportedKeeps ==
  ASSUME NEW epoch, NEW ts, NEW ap, NEW at, NEW rs, Consistent(epoch, ts, ap, at, rs),
         NEW c \in Claims, at[c].status \in Working,
         NEW status \in {"RUNNING", "SUCCEEDED", "FAILED"},
         NEW new, WellFormed(at[c].task, new), Follows(ts[at[c].task], new, at[c].role, status),
         NEW ts2, Put(ts, ts2, at[c].task, new),
         NEW at2, Said(at, at2, c, status)
  PROVE  Consistent(epoch, ts2, ap, at2, rs)
<1>1. /\ Typed(epoch, ts, ap, at, rs) /\ Carried(ts, at) /\ Ticketed(ts, ap)
      /\ Approved(ts, ap, at, rs) /\ Dated(epoch, ts, ap, at, rs)
  BY DEF Consistent
<1> DEFINE t == at[c].task
           i == at[c].role
<1>2. /\ Made(at, c) /\ t \in Task /\ i \in DOMAIN ts[t].dispatches /\ ts[t].status = "ACTIVE"
      /\ ts[t].dispatches[i].attempt = c /\ ts[t].dispatches[i].status \in Working
      /\ ts[t] \in TaskRecord
  <2>1. /\ Made(at, c) /\ t \in Task /\ i \in DOMAIN ts[t].dispatches /\ ts[t].status = "ACTIVE"
        /\ ts[t].dispatches[i].attempt = c /\ ts[t].dispatches[i].status = at[c].status
    BY WorkingAttempt
  <2>2. ts[t] \in TaskRecord
    BY <1>1, <2>1 DEF Typed
  <2> QED
    BY <2>1, <2>2
<1>0. /\ ts2 \in [Task -> TaskRecord] /\ ts2[t] = new /\ WellFormed(t, new)
      /\ \A u \in Task \ {t} : ts2[u] = ts[u]
  <2>1. new \in TaskRecord
    BY DEF WellFormed
  <2> QED
    BY <1>1, <1>2, <2>1 DEF Typed, Put
<1>10. /\ ts2[t].status \in {"ACTIVE", "SUCCEEDED", "FAILED"}
       /\ ts2[t].dispatch_epoch = ts[t].dispatch_epoch
       /\ DOMAIN ts2[t].dispatches = DOMAIN ts[t].dispatches
       /\ \A j \in DOMAIN ts[t].dispatches : ts2[t].dispatches[j].attempt = ts[t].dispatches[j].attempt
       /\ ts2[t].dispatches[i].status = status
       /\ \A j \in DOMAIN ts[t].dispatches \ {i} :
            \/ ts2[t].dispatches[j].status = ts[t].dispatches[j].status
            \/ /\ ts[t].dispatches[j].status \in Waiting
               /\ ts2[t].dispatches[j].status \in Waiting \cup {"QUEUED"}
  BY <1>0 DEF Follows
<1>11. at[c].task = t /\ at[c].role = i
  OBVIOUS
<1> HIDE DEF t, i
<1>3. /\ at2[c] \in Attempt /\ at2[c].status = status /\ at2[c].task = t /\ at2[c].role = i
      /\ at2[c].approval = at[c].approval /\ at2[c].dispatch_epoch = at[c].dispatch_epoch
      /\ \A d \in Claims \ {c} : at2[d] = at[d]
      /\ at2 \in [Claims -> Attempt]
  <2>1. PICK old \in Attempt : old = at[c]
    BY <1>1 DEF Typed
  <2>2. PICK k \in Nat : k = old.event_sequence + 1
    BY DEF Attempt
  <2>3. PICK made : made = [old EXCEPT !.status = status, !.event_sequence = k]
    OBVIOUS
  <2>4. /\ made \in Attempt /\ made.status = status /\ made.task = old.task /\ made.role = old.role
        /\ made.approval = old.approval /\ made.dispatch_epoch = old.dispatch_epoch
    BY <2>3 DEF Attempt, AttemptStatus
  <2>5. at2 = [at EXCEPT ![c] = made]
    <3>1. [at EXCEPT ![c].status = status][c].event_sequence = old.event_sequence
      BY <1>1, <2>1 DEF Typed, Attempt
    <3> QED
      BY <1>1, <2>1, <2>2, <2>3, <3>1 DEF Typed, Said
  <2> QED
    BY <1>1, <1>11, <2>1, <2>4, <2>5 DEF Typed
<1>4. \A d \in Claims : /\ Made(at2, d) <=> Made(at, d)
                        /\ at2[d].task = at[d].task /\ at2[d].role = at[d].role
                        /\ at2[d].approval = at[d].approval /\ at2[d].dispatch_epoch = at[d].dispatch_epoch
  <2>1. Made(at2, c) /\ Made(at, c)
    BY <1>2, <1>3 DEF Made
  <2>2. \A d \in Claims \ {c} : Made(at2, d) <=> Made(at, d)
    BY <1>3 DEF Made
  <2> QED
    BY <2>1, <2>2, <1>3, <1>11
<1>5. Typed(epoch, ts2, ap, at2, rs)
  BY <1>0, <1>1, <1>2, <1>3 DEF Typed
<1>6. Carried(ts2, at2)
  <2>1. ASSUME NEW u \in Task, NEW j \in DOMAIN ts2[u].dispatches
        PROVE  LET it == ts2[u].dispatches[j]
               IN  IF it.attempt = NoClaim THEN it.status \notin AttemptStatus
                   ELSE /\ it.status = at2[it.attempt].status
                        /\ at2[it.attempt].task = u
                        /\ at2[it.attempt].role = j
    <3>1. /\ j \in DOMAIN ts[u].dispatches /\ ts2[u].dispatches[j].attempt = ts[u].dispatches[j].attempt
          /\ ts[u].dispatches[j].attempt \in Claims \cup {NoClaim}
      BY <1>0, <1>1, <1>10, Items DEF Typed
    <3>2. CASE u = t /\ j = i
      <4>1. c # NoClaim
        BY Constants DEF ConstantAssumptions
      <4> QED
        BY <3>1, <3>2, <4>1, <1>2, <1>3, <1>10
    <3>3. CASE ~(u = t /\ j = i)
      <4>1. ts[u].dispatches[j].attempt # c
        <5> SUFFICES ASSUME ts[u].dispatches[j].attempt = c PROVE FALSE
          OBVIOUS
        <5>1. c # NoClaim
          BY Constants DEF ConstantAssumptions
        <5> QED
          BY <3>1, <3>3, <5>1, <1>1, <1>11, ItemSays
      <4>2. CASE ts2[u].dispatches[j].status = ts[u].dispatches[j].status
        <5>1. ts[u].dispatches[j].attempt # NoClaim => at2[ts[u].dispatches[j].attempt] = at[ts[u].dispatches[j].attempt]
          BY <3>1, <4>1, <1>3
        <5>2. LET it == ts[u].dispatches[j]
              IN  IF it.attempt = NoClaim THEN it.status \notin AttemptStatus
                  ELSE /\ it.status = at[it.attempt].status
                       /\ at[it.attempt].task = u
                       /\ at[it.attempt].role = j
          BY <3>1, <1>1, ItemSays
        <5> QED
          BY <3>1, <4>2, <5>1, <5>2
      <4>3. CASE /\ ts[u].dispatches[j].status \in Waiting
                 /\ ts2[u].dispatches[j].status \in Waiting \cup {"QUEUED"}
        <5>1. ts[u].dispatches[j].attempt = NoClaim
          BY <3>1, <4>3, FreeItem DEF Waiting, AttemptStatus
        <5> QED
          BY <3>1, <4>3, <5>1 DEF Waiting, AttemptStatus
      <4> QED
        BY <3>1, <3>3, <4>2, <4>3, <1>0, <1>2, <1>10
    <3> QED
      BY <3>2, <3>3
  <2>2. ASSUME NEW d \in Claims, at2[d].status \in Working
        PROVE  ts2[at2[d].task].dispatches[at2[d].role].attempt = d
    <3>1. at[d].status \in Working
      BY <2>2, <1>3
    <3>2. /\ at[d].task \in Task /\ at[d].role \in DOMAIN ts[at[d].task].dispatches
          /\ ts[at[d].task].dispatches[at[d].role].attempt = d
      BY <3>1, WorkingAttempt
    <3>3. ts2[at[d].task].dispatches[at[d].role].attempt = ts[at[d].task].dispatches[at[d].role].attempt
      BY <3>2, <1>0, <1>10
    <3> QED
      BY <3>2, <3>3, <1>4
  <2>3. ASSUME NEW d \in Claims, Made(at2, d)
        PROVE  /\ at2[d].task \in Task
               /\ at2[d].role \in DOMAIN ts2[at2[d].task].dispatches
               /\ LET task == ts2[at2[d].task]
                  IN  /\ task.dispatches[at2[d].role].status \notin Waiting
                      /\ task.status = "ACTIVE" => task.dispatches[at2[d].role].status # "QUEUED"
    <3>1. /\ at[d].task \in Task /\ at[d].role \in DOMAIN ts[at[d].task].dispatches
          /\ ts[at[d].task].dispatches[at[d].role].status \notin Waiting
          /\ ts[at[d].task].status = "ACTIVE" => ts[at[d].task].dispatches[at[d].role].status # "QUEUED"
          /\ at2[d].task = at[d].task /\ at2[d].role = at[d].role
      BY <1>1, <1>4, <2>3 DEF Carried
    <3>2. CASE at[d].task # t
      BY <3>1, <3>2, <1>0
    <3>3. CASE at[d].task = t /\ at[d].role = i
      BY <3>1, <3>3, <1>10 DEF Waiting
    <3>4. CASE at[d].task = t /\ at[d].role # i
      BY <3>1, <3>4, <1>2, <1>10, ZenonT(60)
    <3> QED
      BY <3>2, <3>3, <3>4
  <2> QED
    BY <2>1, <2>2, <2>3 DEF Carried
<1>7. Ticketed(ts2, ap)
  BY <1>0, <1>1, <1>2, <1>10 DEF Ticketed
<1>8. Approved(ts2, ap, at2, rs)
  <2>1. ASSUME NEW d \in Claims, Made(at2, d)
        PROVE  /\ at2[d].approval \in DOMAIN ap[at2[d].task]
               /\ ap[at2[d].task][at2[d].approval].consumed
               /\ \/ ts2[at2[d].task].dispatches[at2[d].role].attempt = d
                  \/ at2[d].status = "RECOVERY_REQUIRED" /\ \E r \in rs : r.attempt = d
    <3>1. /\ at[d].approval \in DOMAIN ap[at[d].task] /\ ap[at[d].task][at[d].approval].consumed
          /\ at[d].task \in Task /\ at[d].role \in DOMAIN ts[at[d].task].dispatches
          /\ \/ ts[at[d].task].dispatches[at[d].role].attempt = d
             \/ at[d].status = "RECOVERY_REQUIRED" /\ \E r \in rs : r.attempt = d
      BY <1>1, <1>4, <2>1 DEF Approved, Carried
    <3>2. ts2[at[d].task].dispatches[at[d].role].attempt = ts[at[d].task].dispatches[at[d].role].attempt
      <4>1. CASE at[d].task = t
        BY <3>1, <4>1, <1>10
      <4>2. CASE at[d].task # t
        BY <3>1, <4>2, <1>0
      <4> QED
        BY <4>1, <4>2
    <3>3. at[d].status = "RECOVERY_REQUIRED" => at2[d].status = "RECOVERY_REQUIRED"
      BY <1>3 DEF Working
    <3> QED
      BY <3>1, <3>2, <3>3, <1>4
  <2>2. \A d, e \in Claims :
          d # e /\ Made(at2, d) /\ Made(at2, e) /\ at2[d].task = at2[e].task /\ at2[d].role = at2[e].role
          => at2[d].approval # at2[e].approval
    <3> SUFFICES ASSUME NEW d \in Claims, NEW e \in Claims, d # e, Made(at2, d), Made(at2, e),
                        at2[d].task = at2[e].task, at2[d].role = at2[e].role
                 PROVE  at2[d].approval # at2[e].approval
      OBVIOUS
    <3>1. /\ Made(at, d) /\ Made(at, e) /\ at[d].task = at[e].task /\ at[d].role = at[e].role
          /\ at2[d].approval = at[d].approval /\ at2[e].approval = at[e].approval
      BY <1>4
    <3> QED
      BY <3>1, <1>1 DEF Approved
  <2> QED
    BY <2>1, <2>2 DEF Approved
<1>9. Dated(epoch, ts2, ap, at2, rs)
  <2>1. \A u \in Task : ts2[u].dispatch_epoch = ts[u].dispatch_epoch
    BY <1>0, <1>10
  <2>2. ASSUME NEW d \in Claims, Made(at2, d)
        PROVE  /\ at2[d].dispatch_epoch <= ts2[at2[d].task].dispatch_epoch
               /\ at2[d].dispatch_epoch = ap[at2[d].task][at2[d].approval].dispatch_epoch
    <3>1. /\ at[d].task \in Task
          /\ at[d].dispatch_epoch <= ts[at[d].task].dispatch_epoch
          /\ at[d].dispatch_epoch = ap[at[d].task][at[d].approval].dispatch_epoch
      BY <1>1, <1>4, <2>2 DEF Carried, Dated
    <3>2. ts2[at[d].task].dispatch_epoch = ts[at[d].task].dispatch_epoch
      BY <3>1, <2>1
    <3> QED
      BY <3>1, <3>2, <1>4
  <2>3. ASSUME NEW r \in rs PROVE r.task \in Task /\ at2[r.attempt] = at[r.attempt]
    <3>1. r.task \in Task /\ r.attempt \in Claims
      BY <1>1 DEF Typed, Recovery
    <3>2. r.attempt # c
      BY <1>1 DEF Dated, Working
    <3> QED
      BY <3>1, <3>2, <1>3
  <2>4. ASSUME NEW r \in rs
        PROVE  /\ ts2[r.task].dispatch_epoch \in {r.previous, r.target}
               /\ r.previous = at2[r.attempt].dispatch_epoch
               /\ r.previous < r.target /\ r.target <= epoch
               /\ at2[r.attempt].status = "RECOVERY_REQUIRED"
               /\ at2[r.attempt].task = r.task /\ at2[r.attempt].role = r.role
    <3>1. /\ ts[r.task].dispatch_epoch \in {r.previous, r.target}
          /\ r.previous = at[r.attempt].dispatch_epoch
          /\ r.previous < r.target /\ r.target <= epoch
          /\ at[r.attempt].status = "RECOVERY_REQUIRED"
          /\ at[r.attempt].task = r.task /\ at[r.attempt].role = r.role
      BY <1>1 DEF Dated
    <3>2. ts2[r.task].dispatch_epoch = ts[r.task].dispatch_epoch /\ at2[r.attempt] = at[r.attempt]
      BY <2>1, <2>3
    <3> QED
      BY <3>1, <3>2
  <2>5. \A u \in Task : /\ ts2[u].dispatch_epoch <= epoch
                        /\ \A k \in DOMAIN ap[u] : ap[u][k].dispatch_epoch <= ts2[u].dispatch_epoch
    BY <2>1, <1>1 DEF Dated
  <2> QED
    BY <2>2, <2>4, <2>5 DEF Dated
<1> QED
  BY <1>5, <1>6, <1>7, <1>8, <1>9 DEF Consistent

\* A task is created.
LEMMA CreatedKeeps ==
  ASSUME NEW epoch, NEW ts, NEW ap, NEW at, NEW rs, Consistent(epoch, ts, ap, at, rs),
         NEW t \in Task, ts[t].status = "none", NEW new \in TaskRecord, WellFormed(t, new),
         new.status = "AWAITING_APPROVAL", new.dispatch_epoch = epoch,
         \A i \in DOMAIN new.dispatches : /\ new.dispatches[i].attempt = NoClaim
                                          /\ new.dispatches[i].status \notin AttemptStatus
  PROVE  Consistent(epoch, [ts EXCEPT ![t] = new], ap, at, rs)
<1> DEFINE ts2 == [ts EXCEPT ![t] = new]
<1>1. /\ Typed(epoch, ts, ap, at, rs) /\ Carried(ts, at) /\ Ticketed(ts, ap)
      /\ Approved(ts, ap, at, rs) /\ Dated(epoch, ts, ap, at, rs)
  BY DEF Consistent
<1>2. ts2[t] = new /\ (\A u \in Task \ {t} : ts2[u] = ts[u]) /\ ts2 \in [Task -> TaskRecord]
  BY <1>1 DEF Typed
<1> HIDE DEF ts2
<1>3. \A c \in Claims : Made(at, c) => at[c].task \in Task \ {t}
  BY <1>1 DEF Carried, Typed, WellFormed
<1>4. ap[t] = << >> /\ epoch \in Nat
  BY <1>1 DEF Ticketed, Typed
<1>5. \A r \in rs : r.task \in Task \ {t}
  BY <1>1, <1>3 DEF Dated, Typed, Recovery, Made
<1>6. Typed(epoch, ts2, ap, at, rs)
  BY <1>1, <1>2 DEF Typed
<1>7. Carried(ts2, at)
  <2>1. ASSUME NEW u \in Task, NEW j \in DOMAIN ts2[u].dispatches
        PROVE  LET it == ts2[u].dispatches[j]
               IN  IF it.attempt = NoClaim THEN it.status \notin AttemptStatus
                   ELSE /\ it.status = at[it.attempt].status
                        /\ at[it.attempt].task = u
                        /\ at[it.attempt].role = j
    <3>1. CASE u = t
      BY <3>1, <1>2
    <3>2. CASE u # t
      <4>1. ts2[u] = ts[u]
        BY <3>2, <1>2
      <4> QED
        BY <4>1, <1>1, ItemSays
    <3> QED
      BY <3>1, <3>2
  <2>2. \A c \in Claims : at[c].status \in Working => Made(at, c)
    BY DEF Made, Working
  <2>3. \A c \in Claims : Made(at, c) => ts2[at[c].task] = ts[at[c].task]
    BY <1>2, <1>3
  <2> QED
    <3>1. \A c \in Claims : at[c].status \in Working =>
            ts2[at[c].task].dispatches[at[c].role].attempt = c
      BY <2>2, <2>3, <1>1 DEF Carried
    <3>2. \A c \in Claims : Made(at, c) =>
            /\ at[c].task \in Task
            /\ at[c].role \in DOMAIN ts2[at[c].task].dispatches
            /\ LET task == ts2[at[c].task]
               IN  /\ task.dispatches[at[c].role].status \notin Waiting
                   /\ task.status = "ACTIVE" => task.dispatches[at[c].role].status # "QUEUED"
      BY <2>3, <1>1 DEF Carried
    <3> QED
      BY <2>1, <3>1, <3>2 DEF Carried
<1>8. Ticketed(ts2, ap)
  <2> SUFFICES ASSUME NEW u \in Task
               PROVE  LET last == ap[u][Len(ap[u])]
                      IN  /\ ts2[u].status = "none" => ap[u] = << >>
                          /\ ap[u] # << >> => last.dispatch_epoch = ts2[u].dispatch_epoch
                          /\ ts2[u].status = "QUEUED" =>
                               /\ ap[u] # << >>
                               /\ ~last.consumed
                               /\ ~last.recovery => ts2[u].dispatches[1].status = "QUEUED"
                          /\ ts2[u].status = "ACTIVE" => ap[u] # << >> /\ last.consumed
    BY DEF Ticketed
  <2>1. CASE u = t
    BY <2>1, <1>2, <1>4
  <2>2. CASE u # t
    BY <2>2, <1>1, <1>2 DEF Ticketed
  <2> QED
    BY <2>1, <2>2
<1>9. Approved(ts2, ap, at, rs)
  BY <1>1, <1>2, <1>3 DEF Approved
<1>10. Dated(epoch, ts2, ap, at, rs)
  <2>1. ASSUME NEW u \in Task
        PROVE  /\ ts2[u].dispatch_epoch <= epoch
               /\ \A i \in DOMAIN ap[u] : ap[u][i].dispatch_epoch <= ts2[u].dispatch_epoch
    <3>1. CASE u = t
      BY <3>1, <1>2, <1>4
    <3>2. CASE u # t
      BY <3>2, <1>1, <1>2 DEF Dated
    <3> QED
      BY <3>1, <3>2
  <2>2. \A r \in rs : ts2[r.task] = ts[r.task]
    BY <1>2, <1>5
  <2>3. \A c \in Claims : Made(at, c) => ts2[at[c].task] = ts[at[c].task]
    BY <1>2, <1>3
  <2> QED
    BY <2>1, <2>2, <2>3, <1>1 DEF Dated
<1> QED
  BY <1>6, <1>7, <1>8, <1>9, <1>10 DEF Consistent, ts2

\* Time passes for a lease, or for an approval.
LEMMA LapsedKeeps ==
  ASSUME NEW epoch, NEW ts, NEW ap, NEW at, NEW rs, Consistent(epoch, ts, ap, at, rs),
         NEW c \in Claims
  PROVE  Consistent(epoch, ts, ap, [at EXCEPT ![c].lapsed = TRUE], rs)
<1> DEFINE at2 == [at EXCEPT ![c].lapsed = TRUE]
<1>1. /\ Typed(epoch, ts, ap, at, rs) /\ Carried(ts, at)
      /\ Approved(ts, ap, at, rs) /\ Dated(epoch, ts, ap, at, rs)
  BY DEF Consistent
<1>2. PICK old \in Attempt : old = at[c]
  BY <1>1 DEF Typed
<1>3. PICK new : new = [old EXCEPT !.lapsed = TRUE]
  OBVIOUS
<1>4. /\ new \in Attempt /\ new.status = old.status /\ new.task = old.task /\ new.role = old.role
      /\ new.approval = old.approval /\ new.dispatch_epoch = old.dispatch_epoch
  BY <1>3 DEF Attempt
<1>5. at2 = [at EXCEPT ![c] = new] /\ at2 \in [Claims -> Attempt]
  BY <1>1, <1>2, <1>3, <1>4 DEF Typed
<1> HIDE DEF at2
<1>6. \A d \in Claims : /\ at2[d].status = at[d].status /\ at2[d].task = at[d].task /\ at2[d].role = at[d].role
                        /\ at2[d].approval = at[d].approval /\ at2[d].dispatch_epoch = at[d].dispatch_epoch
  BY <1>1, <1>2, <1>4, <1>5 DEF Typed
<1>7. Typed(epoch, ts, ap, at2, rs)
  BY <1>1, <1>5 DEF Typed
<1>8. Carried(ts, at2)
  <2>1. \A t \in Task : \A i \in DOMAIN ts[t].dispatches : ts[t].dispatches[i].attempt \in Claims \cup {NoClaim}
    BY <1>1, Items DEF Typed
  <2> QED
    <3>1. ASSUME NEW u \in Task, NEW j \in DOMAIN ts[u].dispatches
          PROVE  LET it == ts[u].dispatches[j]
                 IN  IF it.attempt = NoClaim THEN it.status \notin AttemptStatus
                     ELSE /\ it.status = at2[it.attempt].status
                          /\ at2[it.attempt].task = u
                          /\ at2[it.attempt].role = j
      BY <1>1, <1>6, <2>1, ItemSays
    <3>2. \A d \in Claims : at2[d].status \in Working =>
            ts[at2[d].task].dispatches[at2[d].role].attempt = d
      BY <1>1, <1>6 DEF Carried
    <3>3. \A d \in Claims : Made(at2, d) =>
            /\ at2[d].task \in Task
            /\ at2[d].role \in DOMAIN ts[at2[d].task].dispatches
            /\ LET task == ts[at2[d].task]
               IN  /\ task.dispatches[at2[d].role].status \notin Waiting
                   /\ task.status = "ACTIVE" => task.dispatches[at2[d].role].status # "QUEUED"
      BY <1>1, <1>6 DEF Carried, Made
    <3> QED
      BY <3>1, <3>2, <3>3 DEF Carried
<1>9. Approved(ts, ap, at2, rs)
  BY <1>1, <1>6 DEF Approved, Made
<1>10. Dated(epoch, ts, ap, at2, rs)
  <2>1. \A r \in rs : r.attempt \in Claims
    BY <1>1 DEF Typed, Recovery
  <2> QED
    BY <1>1, <1>6, <2>1 DEF Dated, Made
<1> QED
  BY <1>7, <1>8, <1>9, <1>10 DEF Consistent, at2

LEMMA ExpiredKeeps ==
  ASSUME NEW epoch, NEW ts, NEW ap, NEW at, NEW rs, Consistent(epoch, ts, ap, at, rs),
         NEW t \in Task, NEW n \in DOMAIN ap[t]
  PROVE  Consistent(epoch, ts, [ap EXCEPT ![t][n].expired = TRUE], at, rs)
<1> DEFINE ap2 == [ap EXCEPT ![t][n].expired = TRUE]
<1>1. /\ Typed(epoch, ts, ap, at, rs) /\ Carried(ts, at) /\ Ticketed(ts, ap)
      /\ Approved(ts, ap, at, rs) /\ Dated(epoch, ts, ap, at, rs)
  BY DEF Consistent
<1>2. PICK old \in Seq(Approval) : old = ap[t]
  BY <1>1 DEF Typed
<1>3. PICK ticket : ticket = [old[n] EXCEPT !.expired = TRUE]
  OBVIOUS
<1>4. /\ ticket \in Approval /\ ticket.consumed = old[n].consumed /\ ticket.recovery = old[n].recovery
      /\ ticket.dispatch_epoch = old[n].dispatch_epoch
  <2>1. old[n] \in Approval
    BY <1>2
  <2> QED
    BY <1>3, <2>1 DEF Approval
<1>5. PICK new : new = [old EXCEPT ![n] = ticket]
  OBVIOUS
<1>6. /\ new \in Seq(Approval) /\ Len(new) = Len(old) /\ DOMAIN new = DOMAIN old
      /\ \A k \in DOMAIN old : /\ new[k].consumed = old[k].consumed
                               /\ new[k].recovery = old[k].recovery
                               /\ new[k].dispatch_epoch = old[k].dispatch_epoch
      /\ new = << >> <=> old = << >>
  <2>1. /\ new \in Seq(Approval) /\ Len(new) = Len(old) /\ DOMAIN new = DOMAIN old
        /\ new[n] = ticket /\ \A k \in DOMAIN old \ {n} : new[k] = old[k]
    BY <1>2, <1>4, <1>5
  <2>2. new = << >> <=> old = << >>
    BY <2>1
  <2> QED
    BY <1>4, <2>1, <2>2
<1>7. ap2 = [ap EXCEPT ![t] = new] /\ ap2 \in [Task -> Seq(Approval)]
  BY <1>1, <1>2, <1>3, <1>5, <1>6 DEF Typed
<1> HIDE DEF ap2
<1>8. \A u \in Task : /\ Len(ap2[u]) = Len(ap[u]) /\ DOMAIN ap2[u] = DOMAIN ap[u]
                      /\ ap2[u] = << >> <=> ap[u] = << >>
                      /\ \A k \in DOMAIN ap[u] : /\ ap2[u][k].consumed = ap[u][k].consumed
                                                 /\ ap2[u][k].recovery = ap[u][k].recovery
                                                 /\ ap2[u][k].dispatch_epoch = ap[u][k].dispatch_epoch
  BY <1>1, <1>2, <1>6, <1>7 DEF Typed
<1>9. Typed(epoch, ts, ap2, at, rs)
  BY <1>1, <1>7 DEF Typed
<1>10. Ticketed(ts, ap2)
  <2>1. \A u \in Task : ap[u] # << >> => Len(ap[u]) \in DOMAIN ap[u]
    <3> SUFFICES ASSUME NEW u \in Task, ap[u] # << >> PROVE Len(ap[u]) \in DOMAIN ap[u]
      OBVIOUS
    <3>1. ap[u] \in Seq(Approval)
      BY <1>1 DEF Typed
    <3> QED
      BY <3>1
  <2>2. \A u \in Task : ap[u] # << >> =>
          /\ ap2[u][Len(ap2[u])].consumed = ap[u][Len(ap[u])].consumed
          /\ ap2[u][Len(ap2[u])].recovery = ap[u][Len(ap[u])].recovery
          /\ ap2[u][Len(ap2[u])].dispatch_epoch = ap[u][Len(ap[u])].dispatch_epoch
    BY <1>8, <2>1
  <2>3. \A u \in Task : ap2[u] = << >> <=> ap[u] = << >>
    BY <1>8
  <2> SUFFICES ASSUME NEW u \in Task
               PROVE  LET last == ap2[u][Len(ap2[u])]
                      IN  /\ ts[u].status = "none" => ap2[u] = << >>
                          /\ ap2[u] # << >> => last.dispatch_epoch = ts[u].dispatch_epoch
                          /\ ts[u].status = "QUEUED" =>
                               /\ ap2[u] # << >>
                               /\ ~last.consumed
                               /\ ~last.recovery => ts[u].dispatches[1].status = "QUEUED"
                          /\ ts[u].status = "ACTIVE" => ap2[u] # << >> /\ last.consumed
    BY DEF Ticketed
  <2> QED
    BY <1>1, <2>2, <2>3 DEF Ticketed
<1>11. Approved(ts, ap2, at, rs)
  BY <1>1, <1>8 DEF Approved, Carried
<1>12. Dated(epoch, ts, ap2, at, rs)
  <2>1. \A u \in Task : \A i \in DOMAIN ap2[u] : ap2[u][i].dispatch_epoch <= ts[u].dispatch_epoch
    BY <1>1, <1>8 DEF Dated
  <2>2. ASSUME NEW c \in Claims, Made(at, c)
        PROVE  at[c].dispatch_epoch = ap2[at[c].task][at[c].approval].dispatch_epoch
    <3>1. /\ at[c].task \in Task /\ at[c].approval \in DOMAIN ap[at[c].task]
          /\ at[c].dispatch_epoch = ap[at[c].task][at[c].approval].dispatch_epoch
      BY <1>1, <2>2 DEF Carried, Approved, Dated
    <3> QED
      BY <3>1, <1>8
  <2> QED
    BY <1>1, <2>1, <2>2 DEF Dated
<1> QED
  BY <1>1, <1>9, <1>10, <1>11, <1>12 DEF Consistent, ap2

-----------------------------------------------------------------------------
(* Every step keeps the invariant.                                           *)

LEMMA InitIInv == Init => IInv
<1> SUFFICES ASSUME Init PROVE IInv
  OBVIOUS
<1>1. NoTask \in TaskRecord /\ NoTask.status = "none" /\ NoTask.dispatches = << >> /\ NoTask.dispatch_epoch = 0
  BY DEF NoTask, TaskRecord, TaskStatus
<1>2. NoAttempt \in Attempt /\ NoAttempt.status = "none"
  <2>1. 0 \in 0..TaskCount
    BY TaskCountAssumption
  <2> QED
    BY <2>1 DEF NoAttempt, Attempt, AttemptStatus
<1>3. \A t \in Task : WellFormed(t, NoTask)
  BY <1>1 DEF WellFormed, Ordered
<1>4. \A c \in Claims : ~Made(attempts, c) /\ attempts[c].status \notin Working
  BY <1>2 DEF Init, Made, Working
<1>5. Typed(dispatch_epoch, tasks, approvals, attempts, recoveries)
  BY <1>1, <1>2, <1>3 DEF Init, Typed
<1>6. Carried(tasks, attempts)
  BY <1>1, <1>4 DEF Init, Carried
<1>7. Ticketed(tasks, approvals)
  BY <1>1 DEF Init, Ticketed
<1>8. Approved(tasks, approvals, attempts, recoveries)
  BY <1>4 DEF Approved
<1>9. Dated(dispatch_epoch, tasks, approvals, attempts, recoveries)
  BY <1>1, <1>4 DEF Init, Dated
<1> QED
  BY <1>5, <1>6, <1>7, <1>8, <1>9 DEF Init, IInv, Consistent

LEMMA TimeKeeps ==
  ASSUME IInv,
         \/ ListTasks \/ SaveOrchestrationProfile \/ UNCHANGED vars
         \/ \E n \in Node : HeartbeatNode(n) \/ HeartbeatLost(n)
         \/ \E c \in Claims : LeaseExpires(c)
         \/ \E t \in Task : ApprovalExpires(t)
  PROVE  IInv'
<1>1. /\ Consistent(dispatch_epoch, tasks, approvals, attempts, recoveries)
      /\ revision \in Nat /\ online \subseteq Node
  BY DEF IInv
<1>2. CASE ListTasks
  <2>1. /\ tasks' = ReconciledTasks /\ attempts' = ReconciledAttempts /\ dispatch_epoch' = ReconciledEpoch
        /\ UNCHANGED <<revision, online, approvals, recoveries>>
    BY <1>2 DEF ListTasks
  <2>2. Consistent(dispatch_epoch', tasks', approvals', attempts', recoveries')
    BY <2>1, ReconcileKeeps
  <2> QED
    BY <1>1, <2>1, <2>2 DEF IInv
<1>3. CASE SaveOrchestrationProfile \/ UNCHANGED vars \/ \E n \in Node : HeartbeatNode(n) \/ HeartbeatLost(n)
  <2>1. /\ UNCHANGED <<dispatch_epoch, tasks, approvals, attempts, recoveries>>
        /\ revision' \in Nat /\ online' \subseteq Node
    BY <1>1, <1>3 DEF SaveOrchestrationProfile, HeartbeatNode, HeartbeatLost, vars
  <2> QED
    BY <1>1, <2>1 DEF IInv
<1>4. CASE \E c \in Claims : LeaseExpires(c)
  <2>1. PICK c \in Claims : LeaseExpires(c)
    BY <1>4
  <2>2. /\ attempts' = [attempts EXCEPT ![c].lapsed = TRUE]
        /\ UNCHANGED <<dispatch_epoch, revision, online, tasks, approvals, recoveries>>
    BY <2>1 DEF LeaseExpires
  <2>3. Consistent(dispatch_epoch', tasks', approvals', attempts', recoveries')
    BY <1>1, <2>2, LapsedKeeps
  <2> QED
    BY <1>1, <2>2, <2>3 DEF IInv
<1>5. CASE \E t \in Task : ApprovalExpires(t)
  <2>1. PICK t \in Task : ApprovalExpires(t)
    BY <1>5
  <2>2. PICK i \in Unconsumed(t) : approvals' = [approvals EXCEPT ![t][i].expired = TRUE]
    BY <2>1 DEF ApprovalExpires
  <2>3. UNCHANGED <<dispatch_epoch, revision, online, tasks, attempts, recoveries>>
    BY <2>1 DEF ApprovalExpires
  <2>4. i \in DOMAIN approvals[t]
    BY <1>1 DEF Unconsumed, Matching, Consistent, Typed
  <2>5. Consistent(dispatch_epoch', tasks', approvals', attempts', recoveries')
    BY <1>1, <2>2, <2>3, <2>4, ExpiredKeeps
  <2> QED
    BY <1>1, <2>3, <2>5 DEF IInv
<1> QED
  BY <1>2, <1>3, <1>4, <1>5

LEMMA CreateKeeps ==
  ASSUME IInv, NEW t \in Task, CreateDispatchTask(t)
  PROVE  IInv'
<1> DEFINE items == [i \in Roles(t) |-> [status |-> IF i = 1 THEN "WAITING_APPROVAL" ELSE "WAITING_DEPENDENCY",
                                         attempt |-> NoClaim]]
           new == [status |-> "AWAITING_APPROVAL", profile_revision |-> revision,
                   dispatch_epoch |-> dispatch_epoch, dispatches |-> items]
<1>1. /\ Consistent(dispatch_epoch, tasks, approvals, attempts, recoveries)
      /\ revision \in Nat /\ dispatch_epoch \in Nat /\ online \subseteq Node
  BY DEF IInv, Consistent, Typed
<1>2. /\ tasks[t].status = "none" /\ tasks' = [tasks EXCEPT ![t] = new]
      /\ UNCHANGED <<dispatch_epoch, revision, online, approvals, attempts, recoveries>>
  BY DEF CreateDispatchTask
<1>3. /\ items \in Seq(Item) /\ Len(items) = Len(Assignment[t]) /\ DOMAIN items = 1..Len(Assignment[t])
      /\ 1 \in DOMAIN items /\ Len(Assignment[t]) \in Nat
      /\ \A i \in DOMAIN items : /\ items[i].attempt = NoClaim /\ items[i].status \notin AttemptStatus
                                 /\ i = 1 => items[i].status = "WAITING_APPROVAL"
                                 /\ i # 1 => items[i].status = "WAITING_DEPENDENCY"
  <2>1. Len(Assignment[t]) \in Nat /\ Len(Assignment[t]) >= 2
    BY RoleCount
  <2> QED
    BY <2>1 DEF Roles, Item, ItemStatus, AttemptStatus
<1> HIDE DEF items
<1>4. /\ new \in TaskRecord /\ new.status = "AWAITING_APPROVAL" /\ new.dispatch_epoch = dispatch_epoch
      /\ new.dispatches = items
  BY <1>1, <1>3 DEF TaskRecord, TaskStatus
<1> HIDE DEF new
<1>5. Ordered(items)
  <2> SUFFICES ASSUME NEW i \in DOMAIN items, items[i].status \notin Waiting, NEW j \in 1..(i - 1) PROVE FALSE
    BY DEF Ordered
  <2>1. i = 1
    BY <1>3 DEF Waiting
  <2> QED
    BY <2>1
<1>6. \A i \in DOMAIN items : Suits("AWAITING_APPROVAL", items[i].status)
  BY <1>3 DEF Suits, Working
<1>7. WellFormed(t, new)
  BY <1>3, <1>4, <1>5, <1>6 DEF WellFormed
<1>8. Consistent(dispatch_epoch, [tasks EXCEPT ![t] = new], approvals, attempts, recoveries)
  BY <1>1, <1>2, <1>3, <1>4, <1>7, CreatedKeeps
<1>9. Consistent(dispatch_epoch', tasks', approvals', attempts', recoveries')
  BY <1>2, <1>8
<1> QED
  BY <1>1, <1>2, <1>9 DEF IInv

LEMMA ApproveKeeps ==
  ASSUME IInv, NEW t \in Task, ApproveDispatchTask(t)
  PROVE  IInv'
<1>1. /\ Consistent(dispatch_epoch, tasks, approvals, attempts, recoveries)
      /\ revision \in Nat /\ dispatch_epoch \in Nat /\ online \subseteq Node
      /\ WellFormed(t, tasks[t]) /\ tasks[t] \in TaskRecord /\ tasks \in [Task -> TaskRecord]
  BY DEF IInv, Consistent, Typed
<1>2. /\ tasks[t].status = "AWAITING_APPROVAL" /\ tasks[t].dispatch_epoch = dispatch_epoch
      /\ approvals' = [approvals EXCEPT ![t] = Append(@, NewApproval(dispatch_epoch, FALSE))]
      /\ tasks' = [tasks EXCEPT ![t].status = "QUEUED", ![t].dispatches[1].status = "QUEUED"]
      /\ UNCHANGED <<dispatch_epoch, revision, online, attempts, recoveries>>
  BY DEF ApproveDispatchTask
<1>3. 1 \in DOMAIN tasks[t].dispatches /\ tasks[t].dispatches[1].status = "WAITING_APPROVAL"
  <2>1. Len(tasks[t].dispatches) >= 2 /\ Len(tasks[t].dispatches) \in Nat
    BY <1>1, <1>2, RoleCount DEF WellFormed
  <2> QED
    BY <1>1, <1>2, <2>1, Items DEF WellFormed
<1>4. tasks[t].dispatches[1].attempt = NoClaim
  BY <1>1, <1>3, FreeItem DEF AttemptStatus
<1> DEFINE item == [status |-> "QUEUED", attempt |-> NoClaim]
<1>5. item \in Item /\ item.status = "QUEUED" /\ item.attempt = NoClaim /\ "QUEUED" \in TaskStatus
  BY DEF Item, ItemStatus, TaskStatus
<1> HIDE DEF item
<1>6. /\ tasks'[t] = [tasks[t] EXCEPT !.status = "QUEUED", !.dispatches[1].status = item.status]
      /\ \A u \in Task \ {t} : tasks'[u] = tasks[u]
  BY <1>1, <1>2, <1>5
<1>7. Replaced(tasks[t], tasks'[t], "QUEUED", dispatch_epoch, 1, item)
  <2>1. dispatch_epoch = tasks[t].dispatch_epoch /\ item.attempt = tasks[t].dispatches[1].attempt
    BY <1>2, <1>4, <1>5
  <2> QED
    BY <1>1, <1>3, <1>5, <1>6, <2>1, ReplacedItem
<1>8. tasks' \in [Task -> TaskRecord]
  <2>1. tasks' = [tasks EXCEPT ![t] = tasks'[t]] /\ tasks'[t] \in TaskRecord
    BY <1>1, <1>2, <1>7, ZenonT(60) DEF Replaced
  <2> QED
    BY <1>1, <2>1
<1>9. \A r \in recoveries : r.task = t => dispatch_epoch \in {r.previous, r.target}
  BY <1>1, <1>2 DEF Consistent, Dated
<1>10. tasks[t].dispatch_epoch <= dispatch_epoch /\ dispatch_epoch <= dispatch_epoch
  BY <1>1, <1>2
<1>11. Replaced(tasks[t], tasks'[t], "QUEUED", dispatch_epoch, 1, [status |-> "QUEUED", attempt |-> NoClaim])
  BY <1>7 DEF item
<1>12. Consistent(dispatch_epoch, tasks', approvals', attempts, recoveries)
  <2>1. PICK ticket \in Approval : /\ ticket.dispatch_epoch = dispatch_epoch /\ ~ticket.consumed
                                 /\ approvals' = [approvals EXCEPT ![t] = Append(@, ticket)]
    BY <1>1, <1>2 DEF NewApproval, Approval
  <2> QED
    BY <1>1, <1>3, <1>4, <1>6, <1>8, <1>9, <1>10, <1>11, <2>1, RequeuedKeeps, ZenonT(60)
<1>13. Consistent(dispatch_epoch', tasks', approvals', attempts', recoveries')
  BY <1>2, <1>12
<1> QED
  BY <1>1, <1>2, <1>13 DEF IInv

LEMMA AssessKeeps ==
  ASSUME IInv, NEW c \in Claims, AssessDispatchRecovery(c)
  PROVE  IInv'
<1> DEFINE t == ReconciledAttempts[c].task
           r == [task |-> t, role |-> ReconciledAttempts[c].role, attempt |-> c,
                 previous |-> ReconciledTasks[t].dispatch_epoch, target |-> ReconciledEpoch]
<1>1. /\ ReconciledAttempts[c].status = "RECOVERY_REQUIRED"
      /\ ReconciledAttempts[c].dispatch_epoch = ReconciledTasks[t].dispatch_epoch
      /\ ReconciledEpoch > ReconciledTasks[t].dispatch_epoch
      /\ recoveries' = recoveries \cup {r}
      /\ tasks' = ReconciledTasks /\ attempts' = ReconciledAttempts /\ dispatch_epoch' = ReconciledEpoch
      /\ UNCHANGED <<revision, online, approvals>>
  BY DEF AssessDispatchRecovery
<1>2. Consistent(ReconciledEpoch, ReconciledTasks, approvals, ReconciledAttempts, recoveries)
  BY ReconcileKeeps
<1>3. Consistent(ReconciledEpoch, ReconciledTasks, approvals, ReconciledAttempts, recoveries \cup {r})
  BY <1>1, <1>2, AssessedKeeps
<1>4. Consistent(dispatch_epoch', tasks', approvals', attempts', recoveries')
  BY <1>1, <1>3
<1> QED
  BY <1>1, <1>4 DEF IInv

LEMMA ResumeKeeps ==
  ASSUME IInv, NEW r \in recoveries, ApproveDispatchRecovery(r)
  PROVE  IInv'
<1> DEFINE t == r.task
           i == r.role
           item == [status |-> "QUEUED", attempt |-> NoClaim]
<1>1. /\ Consistent(dispatch_epoch, tasks, approvals, attempts, recoveries)
      /\ revision \in Nat /\ dispatch_epoch \in Nat /\ online \subseteq Node
      /\ tasks \in [Task -> TaskRecord]
  BY DEF IInv, Consistent, Typed
<1>2. /\ r \in Recovery /\ t \in Task /\ r.attempt \in Claims /\ r.target \in Nat /\ r.previous \in Nat
  BY <1>1 DEF Consistent, Typed, Recovery
<1>3. /\ r.previous < r.target /\ r.target <= dispatch_epoch
      /\ attempts[r.attempt].status = "RECOVERY_REQUIRED"
      /\ attempts[r.attempt].task = t /\ attempts[r.attempt].role = i
  BY <1>1 DEF Consistent, Dated
<1>4. i \in DOMAIN tasks[t].dispatches /\ tasks[t] \in TaskRecord
  BY <1>1, <1>2, <1>3 DEF Consistent, Carried, Made
<1>5. /\ r.target = dispatch_epoch
      /\ \/ /\ tasks[t].dispatch_epoch = r.previous
            /\ tasks[t].dispatches[i] = [status |-> "RECOVERY_REQUIRED", attempt |-> r.attempt]
         \/ /\ tasks[t].dispatch_epoch = r.target
            /\ tasks[t].dispatches[i] = [status |-> "WAITING_RECOVERY_APPROVAL", attempt |-> NoClaim]
      /\ RecoveriesAllow(t, tasks'[t].dispatch_epoch)
      /\ approvals' = [approvals EXCEPT ![t] = Append(@, NewApproval(r.target, TRUE))]
      /\ tasks' = [tasks EXCEPT ![t] = Resumed(r)]
      /\ UNCHANGED <<dispatch_epoch, revision, online, attempts, recoveries>>
  BY DEF ApproveDispatchRecovery
<1>6. Resumed(r) = [tasks[t] EXCEPT !.dispatch_epoch = r.target, !.status = "QUEUED", !.dispatches[i] = item]
  BY DEF Resumed
<1>7. item \in Item /\ "QUEUED" \in TaskStatus
  BY DEF Item, ItemStatus, TaskStatus
<1> HIDE DEF item, t, i
<1>8. Replaced(tasks[t], Resumed(r), "QUEUED", r.target, i, item)
  BY <1>2, <1>4, <1>6, <1>7, ReplacedItem
<1>9. /\ tasks'[t] = Resumed(r) /\ (\A u \in Task \ {t} : tasks'[u] = tasks[u])
      /\ tasks' \in [Task -> TaskRecord]
  <2>1. Resumed(r) \in TaskRecord
    BY <1>8 DEF Replaced
  <2> QED
    BY <2>1, <1>1, <1>2, <1>5
<1>10. /\ tasks[t].dispatches[i].status \in {"WAITING_APPROVAL", "WAITING_RECOVERY_APPROVAL", "RECOVERY_REQUIRED"}
       /\ tasks[t].dispatches[i].attempt # NoClaim => \E q \in recoveries : q.attempt = tasks[t].dispatches[i].attempt
       /\ tasks[t].dispatch_epoch <= r.target
  BY <1>2, <1>3, <1>5
<1>11. \A q \in recoveries : q.task = t => r.target \in {q.previous, q.target}
  <2>1. tasks'[t].dispatch_epoch = r.target
    BY <1>8, <1>9 DEF Replaced
  <2> QED
    BY <1>5, <2>1 DEF RecoveriesAllow
<1>12. PICK ticket \in Approval :
         /\ ticket.dispatch_epoch = r.target /\ ~ticket.consumed /\ ticket.recovery
         /\ approvals' = [approvals EXCEPT ![t] = Append(@, ticket)]
  BY <1>2, <1>5 DEF NewApproval, Approval
<1>13. Replaced(tasks[t], tasks'[t], "QUEUED", r.target, i, [status |-> "QUEUED", attempt |-> NoClaim])
  BY <1>8, <1>9 DEF item
<1>14. t \in Task
  BY <1>2 DEF t
<1>15. Consistent(dispatch_epoch, tasks', approvals', attempts, recoveries)
  <2>1. PICK target \in Nat : target = r.target
    BY <1>2
  <2>2. /\ tasks[t].dispatch_epoch <= target /\ target <= dispatch_epoch
        /\ \A q \in recoveries : q.task = t => target \in {q.previous, q.target}
        /\ ticket.dispatch_epoch = target /\ (~ticket.recovery => i = 1)
        /\ Replaced(tasks[t], tasks'[t], "QUEUED", target, i, [status |-> "QUEUED", attempt |-> NoClaim])
    BY <1>3, <1>10, <1>11, <1>12, <1>13, <2>1
  <2> QED
    BY <1>1, <1>4, <1>9, <1>10, <1>12, <1>14, <2>2, RequeuedKeeps
<1>16. Consistent(dispatch_epoch', tasks', approvals', attempts', recoveries')
  BY <1>5, <1>15
<1> QED
  BY <1>1, <1>5, <1>16 DEF IInv

\* A claim is made, and an event is accepted, only when no attempt is lost: a loss moves the epoch
\* away from every task.
LEMMA NothingLost ==
  ASSUME IInv,
         \/ \E t \in Task : Reconciled(t).dispatch_epoch = ReconciledEpoch
         \/ \E c \in Claims : Made(attempts, c) /\ attempts[c].dispatch_epoch = ReconciledEpoch
  PROVE  /\ \A c \in Claims : ~Lost(c)
         /\ ReconciledEpoch = dispatch_epoch
         /\ ReconciledAttempts = attempts
<1>1. /\ Consistent(dispatch_epoch, tasks, approvals, attempts, recoveries)
      /\ dispatch_epoch \in Nat /\ attempts \in [Claims -> Attempt]
  BY DEF IInv, Consistent, Typed
<1>2. ReconciledEpoch <= dispatch_epoch
  <2>1. CASE \E t \in Task : Reconciled(t).dispatch_epoch = ReconciledEpoch
    BY <1>1, <2>1, ReconciledKeeps DEF Consistent, Dated
  <2>2. CASE \E c \in Claims : Made(attempts, c) /\ attempts[c].dispatch_epoch = ReconciledEpoch
    <3>1. PICK c \in Claims : Made(attempts, c) /\ attempts[c].dispatch_epoch = ReconciledEpoch
      BY <2>2
    <3>2. /\ attempts[c].dispatch_epoch \in Nat /\ tasks[attempts[c].task].dispatch_epoch \in Nat
          /\ attempts[c].dispatch_epoch <= tasks[attempts[c].task].dispatch_epoch
          /\ tasks[attempts[c].task].dispatch_epoch <= dispatch_epoch
      BY <1>1, <3>1, MadeAttempt
    <3> QED
      BY <1>1, <3>1, <3>2
  <2> QED
    BY <2>1, <2>2
<1>3. \A c \in Claims : ~Lost(c)
  BY <1>1, <1>2 DEF ReconciledEpoch
<1>4. ReconciledEpoch = dispatch_epoch
  BY <1>3 DEF ReconciledEpoch
<1>5. ReconciledAttempts = attempts
  BY <1>1, <1>3 DEF ReconciledAttempts
<1> QED
  BY <1>3, <1>4, <1>5

LEMMA ClaimKeeps ==
  ASSUME IInv, NEW c \in Claims, ClaimDispatch(c)
  PROVE  IInv'
<1> DEFINE Claimed(t, i) ==
      LET approval == Latest(Matching(t))
          first == ~approvals[t][approval].consumed
      IN  /\ ReconciledTasks[t].dispatches[i].status = "QUEUED"
          /\ attempts[c].status = "none"
          /\ ReconciledTasks[t].dispatch_epoch = ReconciledEpoch
          /\ Matching(t) # {}
          /\ approvals' = [approvals EXCEPT ![t][approval].consumed = TRUE]
          /\ attempts' = [ReconciledAttempts EXCEPT ![c] =
                 [status |-> "CLAIMED", task |-> t, role |-> i, approval |-> approval,
                  dispatch_epoch |-> ReconciledTasks[t].dispatch_epoch, event_sequence |-> 0,
                  lapsed |-> FALSE]]
          /\ tasks' = [ReconciledTasks EXCEPT
                 ![t].status = IF first THEN "ACTIVE" ELSE @,
                 ![t].dispatches[i] = [status |-> "CLAIMED", attempt |-> c]]
          /\ dispatch_epoch' = ReconciledEpoch
          /\ UNCHANGED <<revision, online, recoveries>>
<1>0. PICK t \in Candidates(c[1]) : \E i \in Roles(t) : Claimed(t, i)
  BY Zenon DEF ClaimDispatch
<1>1. PICK i \in Roles(t) : Claimed(t, i)
  BY <1>0
<1> DEFINE n == Len(approvals[t])
           item == [status |-> "CLAIMED", attempt |-> c]
           task == Reconciled(t)
<1>2. /\ Consistent(ReconciledEpoch, ReconciledTasks, approvals, ReconciledAttempts, recoveries)
      /\ t \in Task /\ ReconciledTasks[t] = task /\ WellFormed(t, task) /\ task \in TaskRecord
      /\ ReconciledTasks \in [Task -> TaskRecord]
      /\ task.status \in {"QUEUED", "ACTIVE"}
  BY ReconcileKeeps, ReconciledTask, ReconciledKeeps DEF Candidates, Consistent, Typed, WellFormed
<1>3. approvals[t] # << >> /\ Latest(Matching(t)) = n
  <2>1. approvals[t] # << >>
    BY <1>1 DEF Matching
  <2> QED
    BY <1>2, <2>1, LastTicket
<1>4. i \in DOMAIN task.dispatches
  BY <1>2, Items DEF WellFormed, Roles
<1>5. ~Made(ReconciledAttempts, c)
  BY <1>1, ReconciledAttempt DEF Made, Working
<1>6. ~approvals[t][n].consumed \/ task.status = "ACTIVE"
  BY <1>2, <1>3 DEF Consistent, Ticketed
<1>7. item \in Item /\ "ACTIVE" \in TaskStatus
  BY DEF Item, ItemStatus, AttemptStatus, TaskStatus
<1> HIDE DEF item
<1>8. /\ tasks'[t] = [task EXCEPT !.status = "ACTIVE", !.dispatches[i] = item]
      /\ \A u \in Task \ {t} : tasks'[u] = ReconciledTasks[u]
      /\ tasks' = [ReconciledTasks EXCEPT ![t] = tasks'[t]]
  BY <1>1, <1>2, <1>3, <1>6 DEF item
<1>9. Replaced(task, tasks'[t], "ACTIVE", task.dispatch_epoch, i, item)
  <2>1. task.dispatch_epoch \in Nat
    BY <1>2, Items
  <2> QED
    BY <1>2, <1>4, <1>7, <1>8, <2>1, ReplacedItem
<1>10. tasks' \in [Task -> TaskRecord]
  <2>1. tasks'[t] \in TaskRecord
    BY <1>9 DEF Replaced
  <2> QED
    BY <1>2, <1>8, <2>1
<1>11. Replaced(ReconciledTasks[t], tasks'[t], "ACTIVE", ReconciledTasks[t].dispatch_epoch, i,
                [status |-> "CLAIMED", attempt |-> c])
  BY <1>2, <1>9 DEF item
<1>12. /\ ReconciledTasks[t].dispatches[i].status = "QUEUED" /\ i \in DOMAIN ReconciledTasks[t].dispatches
       /\ approvals' = [approvals EXCEPT ![t][n].consumed = TRUE]
       /\ attempts' = [ReconciledAttempts EXCEPT ![c] =
              [status |-> "CLAIMED", task |-> t, role |-> i, approval |-> n,
               dispatch_epoch |-> ReconciledTasks[t].dispatch_epoch, event_sequence |-> 0,
               lapsed |-> FALSE]]
  BY <1>1, <1>2, <1>3, <1>4
<1>13. Consistent(ReconciledEpoch, tasks', approvals', attempts', recoveries)
  BY <1>2, <1>5, <1>8, <1>10, <1>11, <1>12, ClaimedKeeps
<1>14. Consistent(dispatch_epoch', tasks', approvals', attempts', recoveries')
  BY <1>1, <1>13
<1> QED
  BY <1>1, <1>14 DEF IInv

LEMMA EventKeeps ==
  ASSUME IInv, NEW c \in Claims,
         \/ StartDispatch(c) \/ ProgressDispatch(c)
         \/ \E status \in {"SUCCEEDED", "FAILED"} : FinishDispatch(c, status)
  PROVE  IInv'
<1> DEFINE t == attempts[c].task
           i == attempts[c].role
           task == Reconciled(t)
<1>1. attempts[c].status \in Working /\ EventAccepted(c)
  BY DEF StartDispatch, ProgressDispatch, FinishDispatch, Working
<1>2. Made(attempts, c) /\ attempts[c].dispatch_epoch = ReconciledEpoch
  BY <1>1 DEF Made, Working, EventAccepted
<1>3. ReconciledAttempts = attempts /\ ReconciledEpoch = dispatch_epoch
  BY <1>2, NothingLost
<1>4. Consistent(dispatch_epoch, ReconciledTasks, approvals, attempts, recoveries)
  BY <1>3, ReconcileKeeps
<1>5. /\ t \in Task /\ i \in DOMAIN task.dispatches /\ ReconciledTasks[t] = task
      /\ task.status = "ACTIVE" /\ task.dispatches[i].status = attempts[c].status
      /\ task.dispatches[i].status \notin Passive
      /\ WellFormed(t, task) /\ task \in TaskRecord /\ ReconciledTasks \in [Task -> TaskRecord]
  <2>1. /\ t \in Task /\ i \in DOMAIN ReconciledTasks[t].dispatches
        /\ ReconciledTasks[t].status = "ACTIVE" /\ ReconciledTasks[t].dispatches[i].status = attempts[c].status
        /\ ReconciledTasks[t].dispatches[i].status \notin Passive
    BY <1>1, <1>4, WorkingAttempt
  <2>2. ReconciledTasks[t] = task /\ WellFormed(t, task)
    BY <2>1, ReconciledTask, ReconciledKeeps
  <2> QED
    BY <1>4, <2>1, <2>2 DEF Consistent, Typed, WellFormed
<1>6. PICK status, new :
        /\ status \in {"RUNNING", "SUCCEEDED", "FAILED"}
        /\ RoleEvent(c, status, new) /\ WellFormed(t, new) /\ Follows(task, new, i, status)
  <2>1. CASE StartDispatch(c)
    <3> DEFINE item == [task.dispatches[i] EXCEPT !.status = "RUNNING"]
               new == [task EXCEPT !.dispatches[i].status = "RUNNING"]
    <3>1. RoleEvent(c, "RUNNING", new)
      BY <1>5, <2>1 DEF StartDispatch, TaskOf
    <3>2. /\ item \in Item /\ item.status = "RUNNING" /\ item.attempt = task.dispatches[i].attempt
      <4>1. task.dispatches[i] \in Item
        BY <1>5, Items
      <4> QED
        BY <4>1 DEF Item, ItemStatus, AttemptStatus
    <3>3. new = [task EXCEPT !.dispatches[i].status = item.status]
      BY <3>2
    <3>4. task.status \in TaskStatus /\ task.dispatch_epoch \in Nat
      BY <1>5, Items
    <3> HIDE DEF item, new
    <3>5. Replaced(task, new, "ACTIVE", task.dispatch_epoch, i, item)
      BY <1>5, <3>2, <3>3, <3>4, ReplacedItem
    <3>6. Suits("ACTIVE", item.status) /\ "ACTIVE" \in TaskStatus \ {"none"}
      BY <3>2 DEF Suits, Working, TaskStatus
    <3>7. WellFormed(t, new)
      BY <1>5, <3>2, <3>4, <3>5, <3>6, FrontReplaced
    <3>8. Follows(task, new, i, "RUNNING")
      BY <1>5, <3>2, <3>5 DEF Follows, Replaced
    <3> QED
      BY <3>1, <3>7, <3>8
  <2>2. CASE ProgressDispatch(c)
    <3>1. RoleEvent(c, "RUNNING", task) /\ attempts[c].status = "RUNNING"
      BY <1>5, <2>2 DEF ProgressDispatch, TaskOf
    <3>2. Follows(task, task, i, "RUNNING")
      BY <1>5, <3>1 DEF Follows
    <3> QED
      BY <1>5, <3>1, <3>2
  <2>3. CASE FinishDispatch(c, "SUCCEEDED")
    <3> DEFINE new == Advanced(task, i)
    <3>1. RoleEvent(c, "SUCCEEDED", new)
      BY <1>5, <2>3 DEF FinishDispatch, TaskOf
    <3>2. Succeeded(task, new, i) /\ WellFormed(t, new)
      BY <1>1, <1>5, AdvancedTask
    <3> HIDE DEF new
    <3>3. Follows(task, new, i, "SUCCEEDED")
      <4>1. Len(task.dispatches) \in Nat /\ DOMAIN task.dispatches = 1..Len(task.dispatches)
        BY <1>5, Items
      <4>2. CASE i < Len(task.dispatches)
        BY <1>5, <3>2, <4>1, <4>2 DEF Succeeded, Follows
      <4>3. CASE i = Len(task.dispatches)
        <5>1. \A j \in DOMAIN task.dispatches \ {i} : new.dispatches[j] = task.dispatches[j]
          BY <3>2, <4>1, <4>3 DEF Succeeded
        <5>2. new.status = "SUCCEEDED"
          BY <3>2, <4>3 DEF Succeeded
        <5> QED
          BY <3>2, <5>1, <5>2 DEF Succeeded, Follows
      <4> QED
        BY <1>5, <4>1, <4>2, <4>3
    <3> QED
      BY <3>1, <3>2, <3>3
  <2>4. CASE FinishDispatch(c, "FAILED")
    <3> DEFINE new == Failed(task, i)
    <3>1. RoleEvent(c, "FAILED", new)
      BY <1>5, <2>4 DEF FinishDispatch, TaskOf
    <3>2. Closed(task, new, i, "FAILED") /\ WellFormed(t, new)
      BY <1>5, ClosedTask DEF Failed
    <3> HIDE DEF new
    <3>3. Follows(task, new, i, "FAILED")
      BY <3>2 DEF Closed, Follows
    <3> QED
      BY <3>1, <3>2, <3>3
  <2> QED
    BY <2>1, <2>2, <2>3, <2>4
<1>7. /\ attempts' = [attempts EXCEPT ![c].status = status, ![c].event_sequence = @ + 1]
      /\ tasks' = [ReconciledTasks EXCEPT ![attempts[c].task] = new]
      /\ dispatch_epoch' = dispatch_epoch
      /\ UNCHANGED <<revision, online, approvals, recoveries>>
  BY <1>3, <1>6 DEF RoleEvent
<1>8. Follows(ReconciledTasks[attempts[c].task], new, attempts[c].role, status) /\ WellFormed(attempts[c].task, new)
  BY <1>5, <1>6
<1>9. Consistent(dispatch_epoch, tasks', approvals, attempts', recoveries)
  <2>1. /\ Put(ReconciledTasks, tasks', attempts[c].task, new)
        /\ Said(attempts, attempts', c, status)
    BY <1>7 DEF Put, Said
  <2> QED
    BY <1>1, <1>4, <1>6, <1>8, <2>1, ReportedKeeps
<1>10. Consistent(dispatch_epoch', tasks', approvals', attempts', recoveries')
  BY <1>7, <1>9
<1> QED
  BY <1>7, <1>10 DEF IInv


-----------------------------------------------------------------------------
(* The theorems.                                                             *)

LEMMA NextIInv ==
  ASSUME IInv, [Next]_vars
  PROVE  IInv'
<1>1. CASE Time \/ UNCHANGED vars
  BY <1>1, TimeKeeps DEF Time
<1>2. CASE AgentRequest
  <2>1. ASSUME NEW n \in Node, HeartbeatNode(n) PROVE IInv'
    BY <2>1, TimeKeeps
  <2> QED
    BY <1>2, <2>1, ClaimKeeps, EventKeeps DEF AgentRequest
<1>3. CASE BrowserRequest
  BY <1>3, TimeKeeps, CreateKeeps, ApproveKeeps, AssessKeeps, ResumeKeeps DEF BrowserRequest
<1> QED
  BY <1>1, <1>2, <1>3 DEF Next

LEMMA Invariance == Spec => []IInv
<1>1. Init => IInv
  BY InitIInv
<1>2. IInv /\ [Next]_vars => IInv'
  BY NextIInv
<1> QED
  BY <1>1, <1>2, PTL DEF Spec

\* The store has its type, and a task an item for each of its roles.
THEOREM TypeCorrect == Spec => []TypeOK
<1>1. IInv => TypeOK
  BY DEF IInv, Consistent, Typed, WellFormed, TypeOK
<1> QED
  BY <1>1, Invariance, PTL

\* What a role says of its attempt is what the attempt says of itself, after any sequence of
\* losses, recoveries and reports.
THEOREM AttemptsAndRolesAgree == Spec => []AttemptsAgree
<1>1. IInv => AttemptsAgree
  BY DEF IInv, Consistent, Carried, AttemptsAgree, Live, Working
<1> QED
  BY <1>1, Invariance, PTL

\* A role is reached only over roles that succeeded.
THEOREM RolesFollowEachOther == Spec => []RolesInOrder
<1>1. IInv => RolesInOrder
  BY DEF IInv, Consistent, Typed, WellFormed, Ordered, Waiting, RolesInOrder
<1> QED
  BY <1>1, Invariance, PTL

\* Every attempt has an approval of its own, and an earlier attempt at its role was assessed.
THEOREM AttemptsWereApproved == Spec => []AttemptsApproved
<1>1. IInv => AttemptsApproved
  BY DEF IInv, Consistent, Approved, Made, AttemptsApproved
<1> QED
  BY <1>1, Invariance, PTL

-----------------------------------------------------------------------------
(* The assessments of a task.                                                *)

\* A task that was assessed and not resumed stands still at the attempt assessed, and
\* two assessments of a task follow one another.
Chained(ts, rs) ==
    /\ \A r \in rs : ts[r.task].dispatch_epoch = r.previous =>
         /\ ts[r.task].status = "RECOVERY_REQUIRED"
         /\ ts[r.task].dispatches[r.role] = [status |-> "RECOVERY_REQUIRED", attempt |-> r.attempt]
    /\ \A r, s \in rs : r.task = s.task /\ r # s =>
         r.target = s.previous \/ s.target = r.previous

\* What every step but the approval of its recovery leaves of a task.
Parked(t) ==
    /\ tasks'[t].dispatch_epoch = tasks[t].dispatch_epoch
    /\ tasks[t].status = "RECOVERY_REQUIRED" => tasks'[t] = tasks[t]

LEMMA ReconcileParks ==
  ASSUME IInv, NEW t \in Task
  PROVE  /\ Reconciled(t).dispatch_epoch = tasks[t].dispatch_epoch
         /\ tasks[t].status = "RECOVERY_REQUIRED" => Reconciled(t) = tasks[t]
<1>1. tasks[t].status = "RECOVERY_REQUIRED" => LostOf(t) = {}
  BY DEF LostOf, Lost
<1>2. tasks[t].status = "RECOVERY_REQUIRED" => Reconciled(t) = tasks[t]
  BY <1>1 DEF Reconciled
<1> QED
  BY <1>2, ReconciledKeeps

\* A step that replaces one task by one of the same epoch, and reconciles the others.
LEMMA OneTaskParks ==
  ASSUME IInv, NEW t \in Task, NEW new, new.dispatch_epoch = tasks[t].dispatch_epoch,
         tasks[t].status # "RECOVERY_REQUIRED",
         tasks' = [ReconciledTasks EXCEPT ![t] = new]
  PROVE  \A u \in Task : Parked(u)
<1>1. tasks'[t] = new /\ \A u \in Task \ {t} : tasks'[u] = Reconciled(u)
  BY DEF ReconciledTasks
<1> QED
  BY <1>1, ReconcileParks DEF Parked

LEMMA StepParks ==
  ASSUME IInv, Next, NEW t \in Task, tasks[t].status # "none",
         \A r \in recoveries : ApproveDispatchRecovery(r) => r.task # t
  PROVE  Parked(t)
<1>1. tasks \in [Task -> TaskRecord] /\ \A u \in Task : Reconciled(u) \in TaskRecord
  BY ReconciledTask DEF IInv, Consistent, Typed, WellFormed
<1>2. ASSUME UNCHANGED tasks PROVE Parked(t)
  BY <1>2 DEF Parked
<1>3. ASSUME tasks' = ReconciledTasks PROVE Parked(t)
  BY <1>3, ReconcileParks DEF Parked, ReconciledTasks
<1>4. ASSUME NEW c \in Claims, ClaimDispatch(c) PROVE Parked(t)
  <2> DEFINE Claimed(u, i) ==
               tasks' = [ReconciledTasks EXCEPT
                  ![u].status = IF ~approvals[u][Latest(Matching(u))].consumed THEN "ACTIVE" ELSE @,
                  ![u].dispatches[i] = [status |-> "CLAIMED", attempt |-> c]]
             New(u, i, first) ==
               [ReconciledTasks[u] EXCEPT !.status = IF first THEN "ACTIVE" ELSE @,
                                          !.dispatches[i] = [status |-> "CLAIMED", attempt |-> c]]
  <2>0. PICK u \in Candidates(c[1]) : \E i \in Roles(u) : Claimed(u, i)
    BY <1>4, Zenon DEF ClaimDispatch
  <2>1. PICK i, first : /\ Claimed(u, i)
                        /\ first = ~approvals[u][Latest(Matching(u))].consumed
    BY <2>0
  <2>2. u \in Task /\ Reconciled(u).status \in {"QUEUED", "ACTIVE"}
    BY <2>0 DEF Candidates, ReconciledTasks
  <2>3. tasks' = [ReconciledTasks EXCEPT ![u] = New(u, i, first)]
    BY <1>1, <2>1, <2>2 DEF ReconciledTasks, TaskRecord
  <2>4. New(u, i, first).dispatch_epoch = tasks[u].dispatch_epoch
    BY <1>1, <2>2, ReconcileParks DEF ReconciledTasks, TaskRecord
  <2>5. tasks[u].status # "RECOVERY_REQUIRED"
    BY <2>2, ReconcileParks
  <2> HIDE DEF New
  <2> QED
    BY <2>3, <2>4, <2>5, <2>2, OneTaskParks
<1>5. ASSUME NEW c \in Claims, StartDispatch(c) \/ ProgressDispatch(c)
             \/ \E status \in {"SUCCEEDED", "FAILED"} : FinishDispatch(c, status)
      PROVE  Parked(t)
  <2>1. attempts[c].status \in Working
    BY <1>5 DEF StartDispatch, ProgressDispatch, FinishDispatch, Working
  <2>2. /\ attempts[c].task \in Task /\ tasks[attempts[c].task].status = "ACTIVE"
    BY <2>1, WorkingAttempt DEF IInv
  <2>3. PICK u \in Task : u = attempts[c].task
    BY <2>2
  <2>4. PICK new :
          /\ new.dispatch_epoch = Reconciled(u).dispatch_epoch
          /\ tasks' = [ReconciledTasks EXCEPT ![u] = new]
    <3>1. TaskOf(c) = Reconciled(u) /\ Reconciled(u) \in TaskRecord
      BY <1>1, <2>3 DEF TaskOf, ReconciledTasks
    <3>2. \A task \in TaskRecord : \A i :
            /\ [task EXCEPT !.dispatches[i].status = "RUNNING"].dispatch_epoch = task.dispatch_epoch
            /\ Advanced(task, i).dispatch_epoch = task.dispatch_epoch
            /\ Failed(task, i).dispatch_epoch = task.dispatch_epoch
      BY DEF TaskRecord, Advanced, Failed
    <3>3. \E status, new : /\ RoleEvent(c, status, new)
                           /\ new.dispatch_epoch = Reconciled(u).dispatch_epoch
      <4> DEFINE i == attempts[c].role
                 Event(new) == \E status : RoleEvent(c, status, new)
      <4>1. StartDispatch(c) => Event([TaskOf(c) EXCEPT !.dispatches[i].status = "RUNNING"])
        BY Zenon DEF StartDispatch
      <4>2. ProgressDispatch(c) => Event(TaskOf(c))
        BY Zenon DEF ProgressDispatch
      <4>3. FinishDispatch(c, "SUCCEEDED") => Event(Advanced(TaskOf(c), i))
        BY DEF FinishDispatch
      <4>4. FinishDispatch(c, "FAILED") => Event(Failed(TaskOf(c), i))
        BY DEF FinishDispatch
      <4>5. \E new : Event(new) /\ new.dispatch_epoch = Reconciled(u).dispatch_epoch
        <5> HIDE DEF Event, i
        <5> QED
          BY <1>5, <3>1, <3>2, <4>1, <4>2, <4>3, <4>4
      <4> QED
        BY <4>5
    <3> QED
      BY <2>3, <3>3 DEF RoleEvent
  <2>5. new.dispatch_epoch = tasks[u].dispatch_epoch /\ tasks[u].status # "RECOVERY_REQUIRED"
    BY <2>2, <2>3, <2>4, ReconcileParks
  <2> QED
    BY <2>4, <2>5, OneTaskParks
<1>6. CASE AgentRequest
  <2>1. ASSUME NEW n \in Node, HeartbeatNode(n) PROVE Parked(t)
    BY <1>2, <2>1 DEF HeartbeatNode
  <2> QED
    BY <1>4, <1>5, <1>6, <2>1 DEF AgentRequest
<1>7. CASE BrowserRequest
  <2>1. ASSUME SaveOrchestrationProfile PROVE Parked(t)
    BY <1>2, <2>1 DEF SaveOrchestrationProfile
  <2>2. ASSUME NEW u \in Task, CreateDispatchTask(u) PROVE Parked(t)
    <3>1. u # t
      BY <2>2 DEF CreateDispatchTask
    <3>2. tasks'[t] = tasks[t]
      BY <1>1, <2>2, <3>1 DEF CreateDispatchTask
    <3> QED
      BY <3>2 DEF Parked
  <2>3. ASSUME NEW u \in Task, ApproveDispatchTask(u) PROVE Parked(t)
    <3>1. PICK task \in TaskRecord : task = tasks[u]
      BY <1>1
    <3>2. tasks' = [tasks EXCEPT ![u] =
             [task EXCEPT !.status = "QUEUED", !.dispatches[1].status = "QUEUED"]]
      BY <1>1, <2>3, <3>1 DEF ApproveDispatchTask, TaskRecord
    <3>3. tasks[u].status = "AWAITING_APPROVAL"
      BY <2>3 DEF ApproveDispatchTask
    <3>4. tasks'[u].dispatch_epoch = tasks[u].dispatch_epoch /\ \A v \in Task \ {u} : tasks'[v] = tasks[v]
      BY <1>1, <3>1, <3>2 DEF TaskRecord
    <3> QED
      BY <3>3, <3>4 DEF Parked
  <2>4. ASSUME ListTasks \/ \E c \in Claims : AssessDispatchRecovery(c) PROVE Parked(t)
    BY <1>3, <2>4 DEF ListTasks, AssessDispatchRecovery
  <2>5. ASSUME NEW r \in recoveries, ApproveDispatchRecovery(r) PROVE Parked(t)
    <3>1. tasks'[t] = tasks[t]
      <4>1. r.task # t
        BY <2>5
      <4> QED
        BY <1>1, <2>5, <4>1 DEF ApproveDispatchRecovery
    <3> QED
      BY <3>1 DEF Parked
  <2> QED
    BY <1>7, <2>1, <2>2, <2>3, <2>4, <2>5 DEF BrowserRequest
<1>8. CASE Time
  BY <1>2, <1>8 DEF Time, HeartbeatLost, LeaseExpires, ApprovalExpires
<1> QED
  BY <1>6, <1>7, <1>8 DEF Next

\* What a consistent store knows of an assessment.
LEMMA AssessedTask ==
  ASSUME IInv, NEW r \in recoveries
  PROVE  /\ r.task \in Task /\ r.attempt \in Claims /\ r.previous \in Nat /\ r.target \in Nat
         /\ r.previous < r.target /\ tasks[r.task].dispatch_epoch \in {r.previous, r.target}
         /\ tasks[r.task].status # "none" /\ r.role \in DOMAIN tasks[r.task].dispatches
<1>1. /\ r.task \in Task /\ r.attempt \in Claims /\ r.previous \in Nat /\ r.target \in Nat
  BY DEF IInv, Consistent, Typed, Recovery
<1>2. /\ r.previous < r.target /\ tasks[r.task].dispatch_epoch \in {r.previous, r.target}
      /\ Made(attempts, r.attempt) /\ attempts[r.attempt].task = r.task /\ attempts[r.attempt].role = r.role
  BY DEF IInv, Consistent, Dated, Made
<1>3. r.role \in DOMAIN tasks[r.task].dispatches /\ WellFormed(r.task, tasks[r.task])
  BY <1>1, <1>2, MadeAttempt DEF IInv
<1>4. tasks[r.task].status # "none"
  BY <1>3 DEF WellFormed
<1> QED
  BY <1>1, <1>2, <1>3, <1>4

LEMMA ChainedStep ==
  ASSUME IInv, Chained(tasks, recoveries), Next
  PROVE  Chained(tasks', recoveries')
<1> DEFINE Front(r) == /\ tasks'[r.task].status = "RECOVERY_REQUIRED"
                       /\ tasks'[r.task].dispatches[r.role] =
                            [status |-> "RECOVERY_REQUIRED", attempt |-> r.attempt]
\* The assessments there were.
<1>1. ASSUME NEW s \in recoveries, tasks'[s.task].dispatch_epoch = s.previous
      PROVE  Front(s)
  <2>0. /\ s.task \in Task /\ s.previous \in Nat /\ s.target \in Nat /\ s.previous < s.target
        /\ tasks[s.task].dispatch_epoch \in {s.previous, s.target} /\ tasks[s.task].status # "none"
    BY AssessedTask
  <2>1. CASE \A r \in recoveries : ApproveDispatchRecovery(r) => r.task # s.task
    <3>1. Parked(s.task)
      BY <2>0, <2>1, StepParks
    <3>2. tasks[s.task].dispatch_epoch = s.previous
      BY <1>1, <3>1 DEF Parked
    <3>3. tasks[s.task].status = "RECOVERY_REQUIRED" /\ tasks'[s.task] = tasks[s.task]
      BY <3>1, <3>2 DEF Parked, Chained
    <3> QED
      BY <3>2, <3>3 DEF Chained
  <2>2. ASSUME NEW r \in recoveries, ApproveDispatchRecovery(r), r.task = s.task
        PROVE  FALSE
    <3>0. /\ r.previous \in Nat /\ r.target \in Nat /\ r.previous < r.target
          /\ tasks[r.task] \in TaskRecord /\ tasks \in [Task -> TaskRecord]
      BY AssessedTask DEF IInv, Consistent, Typed
    <3>1. tasks'[r.task].dispatch_epoch = r.target
      BY <2>0, <2>2, <3>0 DEF ApproveDispatchRecovery, Resumed, TaskRecord
    <3>2. s.previous = r.target
      BY <1>1, <2>2, <3>1
    <3>3. CASE tasks[r.task].dispatch_epoch = r.previous
      BY <2>0, <2>2, <3>0, <3>2, <3>3
    <3>4. CASE tasks[r.task].dispatch_epoch = r.target
      <4>1. tasks[r.task].status = "RECOVERY_REQUIRED"
        BY <2>2, <3>2, <3>4 DEF Chained
      <4> QED
        BY <2>2, <3>0, <3>4, <4>1 DEF ApproveDispatchRecovery
    <3> QED
      BY <2>2, <3>3, <3>4 DEF ApproveDispatchRecovery
  <2> QED
    BY <2>1, <2>2
<1>2. ASSUME NEW c \in Claims, AssessDispatchRecovery(c)
      PROVE  Chained(tasks', recoveries')
  <2> DEFINE t == ReconciledAttempts[c].task
             r == [task |-> t, role |-> ReconciledAttempts[c].role, attempt |-> c,
                   previous |-> ReconciledTasks[t].dispatch_epoch, target |-> ReconciledEpoch]
  <2>1. /\ recoveries' = recoveries \cup {r} /\ tasks' = ReconciledTasks
        /\ ReconciledTasks[t].status = "RECOVERY_REQUIRED" /\ Unassessed(c)
        /\ ReconciledTasks[t].dispatches[r.role] = [status |-> "RECOVERY_REQUIRED", attempt |-> c]
    BY <1>2 DEF AssessDispatchRecovery
  <2>2. r.task = t /\ r.attempt = c /\ r.previous = ReconciledTasks[t].dispatch_epoch
    OBVIOUS
  <2>3. Front(r)
    BY <2>1, <2>2
  <2>4. ASSUME NEW s \in recoveries, s.task = t PROVE s.target = r.previous
    <3>1. s.task \in Task /\ tasks[t].dispatch_epoch \in {s.previous, s.target}
      BY <2>4, AssessedTask
    <3>2. r.previous = tasks[t].dispatch_epoch /\ tasks'[t] = Reconciled(t)
      BY <2>1, <2>2, <2>4, <3>1, ReconcileParks DEF ReconciledTasks
    <3> SUFFICES ASSUME tasks[t].dispatch_epoch = s.previous PROVE FALSE
      BY <3>1, <3>2
    <3>3. tasks'[t].dispatch_epoch = s.previous
      BY <2>1, <2>2, <3>2
    <3>4. tasks'[t].dispatches[s.role] = [status |-> "RECOVERY_REQUIRED", attempt |-> s.attempt]
      BY <1>1, <2>4, <3>3
    <3>5. tasks'[t].dispatches[r.role] = [status |-> "RECOVERY_REQUIRED", attempt |-> c]
      BY <2>1
    <3>6. WellFormed(t, tasks'[t]) /\ DOMAIN tasks'[t].dispatches = DOMAIN tasks[t].dispatches
      BY <2>4, <3>1, <3>2, ReconciledTask, ReconciledKeeps
    <3>7. s.role \in DOMAIN tasks'[t].dispatches
      BY <2>4, <3>6, AssessedTask
    <3>8. r.role \in DOMAIN tasks'[t].dispatches
      <4>1. Consistent(ReconciledEpoch, ReconciledTasks, approvals, ReconciledAttempts, recoveries)
        BY ReconcileKeeps
      <4>2. Made(ReconciledAttempts, c)
        BY <1>2 DEF AssessDispatchRecovery, Made
      <4> QED
        BY <2>1, <4>1, <4>2, MadeAttempt
    <3>9. tasks'[t].dispatches \in Seq(Item) /\ Ordered(tasks'[t].dispatches)
      BY <3>6, Items DEF WellFormed
    <3>10. s.role = r.role
      BY <3>4, <3>5, <3>7, <3>8, <3>9, OneFront DEF Passive, Waiting
    <3>11. s.attempt = c
      BY <3>4, <3>5, <3>10
    <3> QED
      BY <2>1, <3>11 DEF Unassessed
  <2> HIDE DEF r, t, Front
  <2>5. \A s \in recoveries' : tasks'[s.task].dispatch_epoch = s.previous => Front(s)
    BY <1>1, <2>1, <2>3
  <2>6. \A p, q \in recoveries' : p.task = q.task /\ p # q =>
           p.target = q.previous \/ q.target = p.previous
    BY <2>1, <2>2, <2>4 DEF Chained
  <2> QED
    BY <2>5, <2>6 DEF Chained, Front
<1>3. CASE ~\E c \in Claims : AssessDispatchRecovery(c)
  <2>1. recoveries' = recoveries
    <3>1. CASE AgentRequest
      <4>1. ASSUME NEW c \in Claims, ClaimDispatch(c) PROVE recoveries' = recoveries
        BY <4>1 DEF ClaimDispatch
      <4>2. ASSUME NEW c \in Claims, StartDispatch(c) \/ ProgressDispatch(c) PROVE recoveries' = recoveries
        BY <4>2 DEF StartDispatch, ProgressDispatch, RoleEvent
      <4>3. ASSUME NEW c \in Claims, NEW status \in {"SUCCEEDED", "FAILED"}, FinishDispatch(c, status)
            PROVE  recoveries' = recoveries
        BY <4>3 DEF FinishDispatch, RoleEvent
      <4>4. ASSUME NEW n \in Node, HeartbeatNode(n) PROVE recoveries' = recoveries
        BY <4>4 DEF HeartbeatNode
      <4> QED
        BY <3>1, <4>1, <4>2, <4>3, <4>4 DEF AgentRequest
    <3>2. CASE BrowserRequest
      BY <1>3, <3>2 DEF BrowserRequest, ListTasks, SaveOrchestrationProfile, CreateDispatchTask,
                        ApproveDispatchTask, ApproveDispatchRecovery
    <3>3. CASE Time
      BY <3>3 DEF Time, HeartbeatLost, LeaseExpires, ApprovalExpires
    <3> QED
      BY <3>1, <3>2, <3>3 DEF Next
  <2> QED
    BY <1>1, <2>1 DEF Chained
<1> QED
  BY <1>2, <1>3

LEMMA AssessmentsFollow == Spec => [](IInv /\ Chained(tasks, recoveries))
<1>1. Init => Chained(tasks, recoveries)
  BY DEF Init, Chained
<1>2. IInv /\ Chained(tasks, recoveries) /\ [Next]_vars => Chained(tasks, recoveries)'
  BY ChainedStep DEF vars, Chained
<1> QED
  BY <1>1, <1>2, Invariance, PTL DEF Spec

\* Whatever a request but the approval of a recovery computes, validate accepts; the approval
\* of a recovery it refuses exactly if the attempt assessed was made after a recovery itself.
THEOREM StoreStaysValid == Spec => []StoreValid
<1>1. IInv /\ Chained(tasks, recoveries) => StoreValid
  <2> SUFFICES ASSUME IInv, Chained(tasks, recoveries) PROVE StoreValid
    OBVIOUS
  <2>1. Dated(dispatch_epoch, tasks, approvals, attempts, recoveries)
    BY DEF IInv, Consistent
  <2>2. \A t \in Task : RecoveriesAllow(t, tasks[t].dispatch_epoch)
    BY <2>1 DEF Dated, RecoveriesAllow
  <2>3. ASSUME NEW r \in recoveries, NEW s \in recoveries, s.task = r.task, s.target = r.previous
        PROVE  ~RecoveriesAllow(r.task, r.target)
    <3>1. /\ r.previous \in Nat /\ r.target \in Nat /\ r.previous < r.target
          /\ s.previous \in Nat /\ s.target \in Nat /\ s.previous < s.target
      BY AssessedTask
    <3>2. r.target \notin {s.previous, s.target}
      BY <2>3, <3>1
    <3> QED
      BY <2>3, <3>2 DEF RecoveriesAllow
  <2>4. ASSUME NEW r \in recoveries, ~\E s \in recoveries : s.task = r.task /\ s.target = r.previous
        PROVE  RecoveriesAllow(r.task, r.target)
    BY <2>4 DEF Chained, RecoveriesAllow
  <2>5. \A r \in recoveries : RecoveriesAllow(r.task, r.target) <=>
            ~\E s \in recoveries : s.task = r.task /\ s.target = r.previous
    BY <2>3, <2>4
  <2> QED
    BY <2>1, <2>2, <2>5 DEF Dated, Made, StoreValid
<1> QED
  BY <1>1, AssessmentsFollow, PTL

\* What EpochFences says of a step.
Fences ==
    /\ dispatch_epoch' # dispatch_epoch <=>
         \E c \in Claims : Live(c) /\ attempts'[c].status = "RECOVERY_REQUIRED"
    /\ dispatch_epoch' \in {dispatch_epoch, dispatch_epoch + 1}
    /\ dispatch_epoch' # dispatch_epoch =>
         \A t \in Task : tasks'[t].dispatch_epoch < dispatch_epoch'
    /\ \A c \in Claims :
         /\ attempts[c].status # "none"
         /\ [attempts'[c] EXCEPT !.lapsed = FALSE] # [attempts[c] EXCEPT !.lapsed = FALSE]
         => \/ attempts[c].dispatch_epoch = dispatch_epoch'
            \/ attempts'[c].status = "RECOVERY_REQUIRED"

\* A request that reconciles and does nothing else to epoch, tasks and attempts.
LEMMA ReconcileFences ==
  ASSUME IInv, tasks' = ReconciledTasks, attempts' = ReconciledAttempts,
         dispatch_epoch' = ReconciledEpoch
  PROVE  Fences
<1>1. dispatch_epoch \in Nat /\ \A t \in Task : tasks[t] \in TaskRecord /\ tasks[t].dispatch_epoch <= dispatch_epoch
  BY DEF IInv, Consistent, Typed, Dated
<1>2. \A t \in Task : tasks[t].dispatch_epoch \in Nat /\ tasks'[t].dispatch_epoch = tasks[t].dispatch_epoch
  BY <1>1, Items, ReconciledKeeps
<1>3. \A c \in Claims : Lost(c) <=> Live(c) /\ attempts'[c].status = "RECOVERY_REQUIRED"
  BY ReconciledAttempt DEF Lost, Live
<1>4. /\ dispatch_epoch' \in {dispatch_epoch, dispatch_epoch + 1}
      /\ dispatch_epoch' # dispatch_epoch <=> \E c \in Claims : Lost(c)
  BY <1>1 DEF ReconciledEpoch
<1>5. dispatch_epoch' # dispatch_epoch => \A t \in Task : tasks'[t].dispatch_epoch < dispatch_epoch'
  BY <1>1, <1>2, <1>4
<1>6. \A c \in Claims : attempts'[c] = attempts[c] \/ attempts'[c].status = "RECOVERY_REQUIRED"
  BY ReconciledAttempt
<1> QED
  BY <1>3, <1>4, <1>5, <1>6 DEF Fences

\* A step that leaves the epoch alone and touches one attempt, of this epoch or none before.
LEMMA OneAttemptFences ==
  ASSUME IInv, dispatch_epoch' = dispatch_epoch, NEW c \in Claims,
         \A d \in Claims \ {c} : attempts'[d] = attempts[d],
         \/ attempts'[c] = attempts[c]
         \/ ~Made(attempts, c)
         \/ [attempts'[c] EXCEPT !.lapsed = FALSE] = [attempts[c] EXCEPT !.lapsed = FALSE]
         \/ attempts[c].dispatch_epoch = dispatch_epoch,
         Live(c) => attempts'[c].status # "RECOVERY_REQUIRED"
  PROVE  Fences
<1>1. \A d \in Claims : Live(d) => attempts'[d].status # "RECOVERY_REQUIRED"
  BY DEF Live
<1> QED
  BY <1>1 DEF Fences, Made

LEMMA FencesStep ==
  ASSUME IInv, Next
  PROVE  Fences
<1>1. attempts \in [Claims -> Attempt] /\ dispatch_epoch \in Nat
  BY DEF IInv, Consistent, Typed
<1>2. ASSUME UNCHANGED <<dispatch_epoch, attempts>> PROVE Fences
  BY <1>1, <1>2 DEF Fences, Live
<1>3. ASSUME ListTasks \/ \E c \in Claims : AssessDispatchRecovery(c) PROVE Fences
  <2>1. tasks' = ReconciledTasks /\ attempts' = ReconciledAttempts /\ dispatch_epoch' = ReconciledEpoch
    BY <1>3 DEF ListTasks, AssessDispatchRecovery
  <2> QED
    BY <2>1, ReconcileFences
<1>4. ASSUME NEW c \in Claims, LeaseExpires(c) PROVE Fences
  <2>1. PICK a \in Attempt : a = attempts[c]
    BY <1>1
  <2>2. attempts' = [attempts EXCEPT ![c] = [a EXCEPT !.lapsed = TRUE]] /\ dispatch_epoch' = dispatch_epoch
    BY <1>1, <1>4, <2>1 DEF LeaseExpires
  <2>3. /\ attempts'[c] = [a EXCEPT !.lapsed = TRUE]
        /\ \A d \in Claims \ {c} : attempts'[d] = attempts[d]
    BY <1>1, <2>2
  <2>4. /\ [attempts'[c] EXCEPT !.lapsed = FALSE] = [attempts[c] EXCEPT !.lapsed = FALSE]
        /\ attempts'[c].status = attempts[c].status
    BY <2>1, <2>3 DEF Attempt
  <2> QED
    BY <2>2, <2>3, <2>4, OneAttemptFences DEF Live
<1>5. ASSUME NEW c \in Claims, ClaimDispatch(c) PROVE Fences
  <2> DEFINE Claimed(t, new) == /\ ReconciledTasks[t].dispatch_epoch = ReconciledEpoch
                                /\ attempts[c].status = "none"
                                /\ attempts' = [ReconciledAttempts EXCEPT ![c] = new]
                                /\ dispatch_epoch' = ReconciledEpoch
  <2>0. PICK t \in Candidates(c[1]) : \E i \in Roles(t) : \E new : Claimed(t, new)
    BY <1>5, Zenon DEF ClaimDispatch
  <2>1. PICK new : /\ t \in Task /\ Reconciled(t).dispatch_epoch = ReconciledEpoch
                   /\ ~Made(attempts, c)
                   /\ attempts' = [ReconciledAttempts EXCEPT ![c] = new]
                   /\ dispatch_epoch' = ReconciledEpoch
    BY <2>0, ReconciledKeeps DEF Candidates, Made
  <2>2. ReconciledAttempts = attempts /\ ReconciledEpoch = dispatch_epoch
    BY <2>1, NothingLost
  <2>3. ~Live(c)
    BY <2>1 DEF Made, Live
  <2> QED
    BY <1>1, <2>1, <2>2, <2>3, OneAttemptFences
<1>6. ASSUME NEW c \in Claims, StartDispatch(c) \/ ProgressDispatch(c)
             \/ \E status \in {"SUCCEEDED", "FAILED"} : FinishDispatch(c, status)
      PROVE  Fences
  <2>1. PICK status, new : status \in {"RUNNING", "SUCCEEDED", "FAILED"} /\ RoleEvent(c, status, new)
    BY <1>6 DEF StartDispatch, ProgressDispatch, FinishDispatch
  <2>2. Made(attempts, c) /\ attempts[c].dispatch_epoch = ReconciledEpoch
    BY <1>6 DEF StartDispatch, ProgressDispatch, FinishDispatch, EventAccepted, Made
  <2>3. ReconciledAttempts = attempts /\ ReconciledEpoch = dispatch_epoch
    BY <2>2, NothingLost
  <2>4. /\ attempts' = [attempts EXCEPT ![c].status = status, ![c].event_sequence = @ + 1]
        /\ dispatch_epoch' = dispatch_epoch
    BY <2>1, <2>3 DEF RoleEvent
  <2>5. (\A d \in Claims \ {c} : attempts'[d] = attempts[d]) /\ attempts'[c].status = status
    <3>1. PICK a \in Attempt : a = attempts[c]
      BY <1>1
    <3>2. attempts' = [attempts EXCEPT ![c] = [a EXCEPT !.status = status, !.event_sequence = @ + 1]]
      BY <1>1, <2>4, <3>1
    <3>3. [a EXCEPT !.status = status, !.event_sequence = @ + 1].status = status
      BY DEF Attempt
    <3> QED
      BY <1>1, <3>2, <3>3
  <2> QED
    BY <2>1, <2>2, <2>3, <2>4, <2>5, OneAttemptFences
<1>7. CASE AgentRequest
  <2>1. ASSUME NEW n \in Node, HeartbeatNode(n) PROVE Fences
    BY <1>2, <2>1 DEF HeartbeatNode
  <2> QED
    BY <1>5, <1>6, <1>7, <2>1 DEF AgentRequest
<1>8. CASE BrowserRequest
  <2>1. ASSUME SaveOrchestrationProfile PROVE Fences
    BY <1>2, <2>1 DEF SaveOrchestrationProfile
  <2>2. ASSUME NEW t \in Task, CreateDispatchTask(t) \/ ApproveDispatchTask(t) PROVE Fences
    BY <1>2, <2>2 DEF CreateDispatchTask, ApproveDispatchTask
  <2>3. ASSUME NEW r \in recoveries, ApproveDispatchRecovery(r) PROVE Fences
    BY <1>2, <2>3 DEF ApproveDispatchRecovery
  <2> QED
    BY <1>3, <1>8, <2>1, <2>2, <2>3 DEF BrowserRequest
<1>9. CASE Time
  <2>1. ASSUME NEW n \in Node, HeartbeatLost(n) PROVE Fences
    BY <1>2, <2>1 DEF HeartbeatLost
  <2>2. ASSUME NEW t \in Task, ApprovalExpires(t) PROVE Fences
    BY <1>2, <2>2 DEF ApprovalExpires
  <2> QED
    BY <1>4, <1>9, <2>1, <2>2 DEF Time
<1> QED
  BY <1>7, <1>8, <1>9 DEF Next

\* The epoch moves when an attempt is lost and only then, by one, and an attempt of an epoch
\* that was left reports nothing.
THEOREM EpochsFence == Spec => EpochFences
<1>1. IInv /\ [Next]_vars => [Fences]_vars
  BY FencesStep
<1> QED
  BY <1>1, Invariance, PTL DEF Spec, EpochFences, Fences
=============================================================================
