-------------------------------- MODULE GatesProofs --------------------------------
(***************************************************************************)
(* Theorems about what decides whether work is let in, and where to: the   *)
(* locks of Governor, the limits of Admission, the authorizations of      *)
(* RequirementGraph, the footprints of Semantic and the nodes, profiles    *)
(* and assignments of Registry.  They hold for every number of locks,      *)
(* tasks, graphs, requests, nodes and models.                              *)
(***************************************************************************)
EXTENDS Admission, RequirementGraph, Semantic, Registry, FiniteSetTheorems, WellFoundedInduction, TLAPS

-----------------------------------------------------------------------------
(* The locks of Governor.                                                    *)

\* A lock is never taken for the absence of one.
LEMMA LockIsNotNoLock == \A lock \in Lock : lock # NoLock
<1> SUFFICES ASSUME NEW lock \in Lock PROVE lock # NoLock
  OBVIOUS
<1>1. lock.status \in Status
  BY DEF Lock
<1>2. NoLock.status = "none"
  BY DEF NoLock
<1> QED
  BY <1>1, <1>2 DEF Status

\* A lock that was issued is one, and its fields have their types.
LEMMA IssuedLock ==
  ASSUME LocksTypeOK, NEW l \in Issued
  PROVE  /\ l \in LockId /\ locks[l] \in Lock
         /\ locks[l].status \in Status /\ locks[l].scope \in Scope /\ locks[l].baseline \in Nat
         /\ locks[l].issued_at \in Nat /\ locks[l].expires_at \in Nat /\ locks[l].last_heartbeat_at \in Nat
<1>1. l \in LockId /\ locks[l] \in Lock
  BY DEF LocksTypeOK, Issued
<1> QED
  BY <1>1 DEF Lock

\* The lock that issueLock makes.
LEMMA FreshLock ==
  ASSUME GovernorAssumption, LocksTypeOK, NEW s \in Scope, NEW ttl \in Lease
  PROVE  LET lock == [status |-> "GOVERNOR_LOCKED", scope |-> s, baseline |-> canonical,
                      issued_at |-> now, expires_at |-> now + ttl, last_heartbeat_at |-> now]
         IN  lock \in Lock /\ lock.last_heartbeat_at < lock.expires_at
<1>1. ttl \in Nat /\ ttl > 0 /\ now \in Nat /\ canonical \in Nat
  BY DEF GovernorAssumption, LocksTypeOK
<1> QED
  BY <1>1 DEF Lock, Status

\* Replacing the status leaves a lock with its other fields.
LEMMA StatusReplaced ==
  ASSUME NEW lock \in Lock, NEW status \in Status,
         NEW new, new = [lock EXCEPT !.status = status]
  PROVE  /\ new \in Lock /\ new.status = status
         /\ new.last_heartbeat_at = lock.last_heartbeat_at /\ new.expires_at = lock.expires_at
         /\ new.issued_at = lock.issued_at /\ new.baseline = lock.baseline /\ new.scope = lock.scope
BY DEF Lock

\* What heartbeat asks of a lock, and what it leaves of it.
LEMMA RenewedLock ==
  ASSUME GovernorAssumption, LocksTypeOK, NEW l \in LockId, NEW ttl \in Lease, Heartbeat(l, ttl)
  PROVE  /\ l \in Issued /\ locks[l] \in Lock /\ locks'[l] \in Lock
         /\ locks'[l].last_heartbeat_at = now /\ locks'[l].expires_at > now
         /\ locks'[l].issued_at = locks[l].issued_at /\ locks'[l].baseline = locks[l].baseline
         /\ locks'[l].scope = locks[l].scope /\ locks'[l].status = locks[l].status
         /\ \A m \in LockId \ {l} : locks'[m] = locks[m]
         /\ locks' \in [LockId -> {NoLock} \cup Lock]
<1>1. l \in Issued /\ locks[l] \in Lock
  BY IssuedLock DEF Heartbeat
<1>2. PICK u \in Nat : u = now + ttl /\ u > now
  BY DEF GovernorAssumption, LocksTypeOK
<1>3. now \in Nat /\ locks \in [LockId -> {NoLock} \cup Lock]
  BY DEF LocksTypeOK
<1>4. /\ locks'[l] = [locks[l] EXCEPT !.last_heartbeat_at = now, !.expires_at = u]
      /\ \A m \in LockId \ {l} : locks'[m] = locks[m]
      /\ locks' = [locks EXCEPT ![l] = locks'[l]]
  BY <1>2, <1>3 DEF Heartbeat
<1>5. /\ locks'[l] \in Lock /\ locks'[l].last_heartbeat_at = now /\ locks'[l].expires_at = u
      /\ locks'[l].issued_at = locks[l].issued_at /\ locks'[l].baseline = locks[l].baseline
      /\ locks'[l].scope = locks[l].scope /\ locks'[l].status = locks[l].status
  <2>1. PICK old \in Lock : old = locks[l]
    BY <1>1
  <2>2. PICK t \in Nat : t = now
    BY <1>3
  <2>3. PICK new : new = locks'[l]
    OBVIOUS
  <2>4. new = [old EXCEPT !.last_heartbeat_at = t, !.expires_at = u]
    BY <1>4, <2>1, <2>2, <2>3
  <2>5. /\ new \in Lock /\ new.last_heartbeat_at = t /\ new.expires_at = u
        /\ new.issued_at = old.issued_at /\ new.baseline = old.baseline
        /\ new.scope = old.scope /\ new.status = old.status
    BY <2>4 DEF Lock
  <2> QED
    BY <2>1, <2>2, <2>3, <2>5
<1>6. locks' \in [LockId -> {NoLock} \cup Lock]
  BY <1>3, <1>4, <1>5
<1> QED
  BY <1>1, <1>2, <1>4, <1>5, <1>6

\* What providerFailed and unlock do to a lock.
LEMMA RestatedLock ==
  ASSUME LocksTypeOK, NEW l \in Issued, NEW status \in Status,
         locks' = [locks EXCEPT ![l].status = status]
  PROVE  /\ locks'[l] \in Lock /\ locks'[l] = [locks[l] EXCEPT !.status = status]
         /\ \A m \in LockId \ {l} : locks'[m] = locks[m]
<1>1. l \in LockId /\ locks[l] \in Lock
  BY IssuedLock
<1>2. locks'[l] = [locks[l] EXCEPT !.status = status] /\ \A m \in LockId \ {l} : locks'[m] = locks[m]
  BY <1>1 DEF LocksTypeOK
<1> QED
  BY <1>1, <1>2, StatusReplaced

\* Every step keeps the types and the order of the times.
LEMMA TypeStep ==
  ASSUME GovernorAssumption, LocksTypeOK, [GovernorNext]_governor
  PROVE  LocksTypeOK'
<1>0. now \in Nat /\ canonical \in Nat /\ locks \in [LockId -> {NoLock} \cup Lock]
  BY DEF LocksTypeOK
<1>1. ASSUME NEW l \in LockId, NEW s \in Scope, NEW ttl \in Lease, IssueLock(l, s, ttl)
      PROVE  LocksTypeOK'
  <2> DEFINE lock == [status |-> "GOVERNOR_LOCKED", scope |-> s, baseline |-> canonical,
                      issued_at |-> now, expires_at |-> now + ttl, last_heartbeat_at |-> now]
  <2>1. lock \in Lock /\ lock.last_heartbeat_at < lock.expires_at
    BY FreshLock
  <2>2. locks' = [locks EXCEPT ![l] = lock] /\ now' = now /\ canonical' = canonical
    BY <1>1 DEF IssueLock
  <2>3. lock.issued_at = now /\ lock.last_heartbeat_at = now /\ lock.baseline = canonical
    OBVIOUS
  <2> HIDE DEF lock
  <2> QED
    BY <1>0, <2>1, <2>2, <2>3 DEF LocksTypeOK, Issued
<1>2. ASSUME NEW l \in LockId, NEW ttl \in Lease, Heartbeat(l, ttl)
      PROVE  LocksTypeOK'
  <2>1. now' = now /\ canonical' = canonical
    BY <1>2 DEF Heartbeat
  <2>2. /\ l \in Issued /\ locks'[l] \in Lock
        /\ locks'[l].last_heartbeat_at = now /\ locks'[l].expires_at > now
        /\ locks'[l].issued_at = locks[l].issued_at /\ locks'[l].baseline = locks[l].baseline
        /\ \A m \in LockId \ {l} : locks'[m] = locks[m]
        /\ locks' \in [LockId -> {NoLock} \cup Lock]
    BY <1>2, RenewedLock
  <2>3. locks[l].issued_at <= now /\ locks[l].baseline <= canonical
    BY <1>0, <2>2, IssuedLock DEF LocksTypeOK
  <2>4. ASSUME NEW m \in LockId, m # l, locks'[m] # NoLock
        PROVE  /\ locks'[m].issued_at <= locks'[m].last_heartbeat_at
               /\ locks'[m].last_heartbeat_at < locks'[m].expires_at
               /\ locks'[m].last_heartbeat_at <= now /\ locks'[m].baseline <= canonical
    BY <2>2, <2>4 DEF LocksTypeOK, Issued
  <2>5. /\ locks'[l].issued_at <= locks'[l].last_heartbeat_at
        /\ locks'[l].last_heartbeat_at < locks'[l].expires_at
        /\ locks'[l].last_heartbeat_at <= now /\ locks'[l].baseline <= canonical
    BY <1>0, <2>2, <2>3
  <2> QED
    BY <1>0, <2>1, <2>2, <2>4, <2>5 DEF LocksTypeOK, Issued
<1>3. ASSUME NEW l \in Issued, NEW status \in Status, locks' = [locks EXCEPT ![l].status = status],
             UNCHANGED <<now, canonical>>
      PROVE  LocksTypeOK'
  <2>1. /\ locks'[l] \in Lock /\ locks'[l] = [locks[l] EXCEPT !.status = status]
        /\ \A m \in LockId \ {l} : locks'[m] = locks[m]
    BY <1>3, RestatedLock
  <2>2. locks[l] \in Lock /\ l \in LockId
    BY IssuedLock
  <2>3. /\ locks'[l].issued_at = locks[l].issued_at /\ locks'[l].last_heartbeat_at = locks[l].last_heartbeat_at
        /\ locks'[l].expires_at = locks[l].expires_at /\ locks'[l].baseline = locks[l].baseline
    BY <2>1, <2>2, StatusReplaced
  <2>4. locks' \in [LockId -> {NoLock} \cup Lock]
    BY <1>0, <1>3, <2>1, <2>2
  <2> QED
    BY <1>0, <1>3, <2>1, <2>2, <2>3, <2>4 DEF LocksTypeOK, Issued
<1>4. CASE BaselineMoves
  BY <1>0, <1>4, IssuedLock DEF BaselineMoves, LocksTypeOK, Issued
<1>5. CASE Tick
  BY <1>0, <1>5, IssuedLock DEF Tick, LocksTypeOK, Issued
<1>6. CASE UNCHANGED governor
  BY <1>6 DEF governor, LocksTypeOK, Issued
<1>7. ASSUME NEW l \in LockId, ProviderFailed(l) PROVE LocksTypeOK'
  BY <1>3, <1>7 DEF ProviderFailed, Status
<1>8. ASSUME NEW l \in LockId, Unlock(l) PROVE LocksTypeOK'
  BY <1>3, <1>8 DEF Unlock, Status
<1> QED
  BY <1>1, <1>2, <1>4, <1>5, <1>6, <1>7, <1>8 DEF GovernorNext

\* Locks keep their types, and their times are in order.
THEOREM LocksTypeCorrect == GovernorSpec => []LocksTypeOK
<1>1. GovernorInit => LocksTypeOK
  BY DEF GovernorInit, LocksTypeOK, Issued
<1>2. LocksTypeOK /\ [GovernorNext]_governor => LocksTypeOK'
  BY TypeStep, GovernorAssumption
<1> QED
  BY <1>1, <1>2, PTL DEF GovernorSpec

\* A lock that another one overlaps was issued before it or after it, when it was not held.
LEMMA FreeOfHeld ==
  ASSUME LocksTypeOK, NEW s \in Scope, Free(s), NEW m \in Issued, <<locks[m].scope, s>> \in Overlaps
  PROVE  locks[m].status = "UNLOCKED"
<1>1. LockState(locks[m]) = "UNLOCKED"
  BY DEF Free
<1> QED
  BY <1>1, IssuedLock DEF LockState, Status

\* Two overlapping locks are never both held, however late a heartbeat, a failure of the
\* provider or a decision arrives.
LEMMA ScopeStep ==
  ASSUME GovernorAssumption, LocksTypeOK, OneGovernorPerScope, [GovernorNext]_governor
  PROVE  OneGovernorPerScope'
<1>0. locks \in [LockId -> {NoLock} \cup Lock]
  BY DEF LocksTypeOK
<1>1. ASSUME NEW l \in LockId, NEW s \in Scope, NEW ttl \in Lease, IssueLock(l, s, ttl)
      PROVE  OneGovernorPerScope'
  <2>1. /\ locks'[l].scope = s /\ \A m \in LockId \ {l} : locks'[m] = locks[m]
    BY <1>0, <1>1 DEF IssueLock
  <2>2. \A m \in Issued : <<locks[m].scope, s>> \in Overlaps => locks[m].status # "GOVERNOR_LOCKED"
    BY <1>1, FreeOfHeld DEF IssueLock
  <2>3. \A m \in Issued : <<s, locks[m].scope>> \in Overlaps => locks[m].status # "GOVERNOR_LOCKED"
    BY <2>2, IssuedLock DEF GovernorAssumption
  <2>4. \A m \in Issued' \ {l} : m \in Issued
    BY <2>1 DEF Issued
  <2> QED
    BY <2>1, <2>2, <2>3, <2>4 DEF OneGovernorPerScope, Issued
<1>2. ASSUME NEW l \in LockId, NEW ttl \in Lease, Heartbeat(l, ttl)
      PROVE  OneGovernorPerScope'
  <2>1. /\ l \in Issued
        /\ locks'[l].scope = locks[l].scope /\ locks'[l].status = locks[l].status
        /\ \A m \in LockId \ {l} : locks'[m] = locks[m]
    BY <1>2, RenewedLock
  <2>2. Issued' \subseteq Issued
    BY <2>1 DEF Issued
  <2> QED
    BY <2>1, <2>2 DEF OneGovernorPerScope, Issued
<1>3. ASSUME NEW l \in Issued, NEW status \in Status, status # "GOVERNOR_LOCKED",
             locks' = [locks EXCEPT ![l].status = status]
      PROVE  OneGovernorPerScope'
  <2>1. /\ locks'[l] = [locks[l] EXCEPT !.status = status] /\ locks[l] \in Lock
        /\ \A m \in LockId \ {l} : locks'[m] = locks[m]
    BY <1>3, RestatedLock, IssuedLock
  <2>2. locks'[l].scope = locks[l].scope /\ locks'[l].status = status
    BY <2>1, StatusReplaced
  <2>3. Issued' \subseteq Issued
    BY <2>1 DEF Issued
  <2> QED
    BY <1>3, <2>1, <2>2, <2>3 DEF OneGovernorPerScope, Issued
<1>4. CASE UNCHANGED locks
  BY <1>4 DEF OneGovernorPerScope, Issued
<1>5. ASSUME NEW l \in LockId, ProviderFailed(l) PROVE OneGovernorPerScope'
  BY <1>3, <1>5 DEF ProviderFailed, Status
<1>6. ASSUME NEW l \in LockId, Unlock(l) PROVE OneGovernorPerScope'
  BY <1>3, <1>6 DEF Unlock, Status
<1> QED
  BY <1>1, <1>2, <1>4, <1>5, <1>6 DEF GovernorNext, BaselineMoves, Tick, governor

\* One governor holds a scope at a time, whatever became of the locks before.
THEOREM ScopesAreExclusive == GovernorSpec => []OneGovernorPerScope
<1>1. GovernorInit => OneGovernorPerScope
  BY DEF GovernorInit, OneGovernorPerScope, Issued
<1>2. LocksTypeOK /\ OneGovernorPerScope /\ [GovernorNext]_governor => OneGovernorPerScope'
  BY ScopeStep, GovernorAssumption
<1> QED
  BY <1>1, <1>2, LocksTypeCorrect, PTL DEF GovernorSpec

\* A lock that lapsed is renewed by nothing and given back by nothing.
LEMMA LapsedStep ==
  ASSUME GovernorAssumption, LocksTypeOK, GovernorNext, NEW l \in Issued, Overdue(l)
  PROVE  Overdue(l)'
<1>0. /\ l \in LockId /\ locks[l] \in Lock /\ locks \in [LockId -> {NoLock} \cup Lock]
      /\ locks[l].expires_at \in Nat /\ locks[l].last_heartbeat_at \in Nat
      /\ now \in Nat /\ Interval \in Nat
  BY IssuedLock DEF LocksTypeOK, GovernorAssumption
<1>1. LockState(locks[l]) # "GOVERNOR_LOCKED"
  BY <1>0 DEF Overdue, LockState
<1>2. ASSUME locks'[l] = locks[l], now' = now PROVE Overdue(l)'
  BY <1>2 DEF Overdue
<1>3. ASSUME NEW m \in LockId, NEW s \in Scope, NEW ttl \in Lease, IssueLock(m, s, ttl)
      PROVE  Overdue(l)'
  BY <1>0, <1>2, <1>3 DEF IssueLock
<1>4. ASSUME NEW m \in LockId, NEW ttl \in Lease, Heartbeat(m, ttl)
      PROVE  Overdue(l)'
  BY <1>0, <1>1, <1>2, <1>4 DEF Heartbeat
<1>5. ASSUME NEW m \in LockId, ProviderFailed(m)
      PROVE  Overdue(l)'
  <2>1. m \in Issued /\ "LOCK_RECOVERY" \in Status
    BY <1>5 DEF ProviderFailed, Status
  <2>2. /\ locks'[m] = [locks[m] EXCEPT !.status = "LOCK_RECOVERY"]
        /\ \A k \in LockId \ {m} : locks'[k] = locks[k]
    BY <1>5, <2>1, RestatedLock DEF ProviderFailed
  <2>3. CASE m = l
    <3>1. locks'[l].status = "LOCK_RECOVERY"
      BY <1>0, <2>1, <2>2, <2>3, StatusReplaced
    <3> QED
      BY <3>1 DEF Overdue
  <2>4. CASE m # l
    BY <1>0, <1>2, <1>5, <2>2, <2>4 DEF ProviderFailed
  <2> QED
    BY <2>3, <2>4
<1>6. ASSUME NEW m \in LockId, Unlock(m)
      PROVE  Overdue(l)'
  BY <1>0, <1>1, <1>2, <1>6 DEF Unlock, DecisionValid
<1>7. CASE BaselineMoves
  BY <1>2, <1>7 DEF BaselineMoves
<1>8. CASE Tick
  BY <1>0, <1>8 DEF Tick, Overdue
<1> QED
  BY <1>3, <1>4, <1>5, <1>6, <1>7, <1>8 DEF GovernorNext

\* A lapsed lock is never in good standing again, and never given back.
THEOREM LapsedLocksAreHeld == GovernorSpec => LapsedStaysHeld
<1>1. ASSUME LocksTypeOK, GovernorNext, NEW l \in LockId, locks[l] # NoLock, Overdue(l)
      PROVE  Overdue(l)'
  BY <1>1, LapsedStep, GovernorAssumption DEF Issued
<1>2. LocksTypeOK /\ [GovernorNext]_governor
        => [\A l \in LockId : locks[l] # NoLock /\ Overdue(l) => Overdue(l)']_governor
  BY <1>1
<1> QED
  BY <1>2, LocksTypeCorrect, PTL DEF GovernorSpec, LapsedStaysHeld

-----------------------------------------------------------------------------
(* Numbers and their sums.  What is true of all naturals is shown of the least that  *)
(* it might not be true of.                                                          *)

\* Some number of a set of naturals is the least: the numbers below it are fewer than those
\* below any other.
LEMMA Least ==
  ASSUME NEW S \in SUBSET Nat, S # {}
  PROVE  \E n \in S : \A m \in S : n <= m
<1>1. PICK R : R = StrictSubsetOrdering(Nat)
  OBVIOUS
<1>2. IsWellFoundedOn(R, FiniteSubsetsOf(Nat))
  BY <1>1, FS_StrictSubsetOrderingWellFounded
<1>3. PICK T : T = {1 .. n : n \in S}
  OBVIOUS
<1>4. \A n \in Nat : 1 .. n \in FiniteSubsetsOf(Nat)
  <2>1. \A n \in Nat : IsFiniteSet(1 .. n)
    BY FS_Interval
  <2> QED
    BY <2>1 DEF FiniteSubsetsOf
<1>5. T \subseteq FiniteSubsetsOf(Nat) /\ T # {}
  BY <1>3, <1>4
<1>6. PICK x \in T : \A y \in T : ~ (<<y, x>> \in R)
  BY <1>2, <1>5, WFMin
<1>7. PICK n \in S : x = 1 .. n
  BY <1>3, <1>6
<1>8. ASSUME NEW m \in S PROVE n <= m
  <2> SUFFICES ASSUME m < n PROVE FALSE
    OBVIOUS
  <2>1. 1 .. m \subseteq 1 .. n /\ n \in 1 .. n /\ n \notin 1 .. m
    OBVIOUS
  <2>2. 1 .. m # 1 .. n
    BY <2>1
  <2>3. <<1 .. m, 1 .. n>> \in R
    BY <1>1, <2>1, <2>2 DEF StrictSubsetOrdering
  <2> QED
    BY <1>3, <1>6, <1>7, <2>3
<1> QED
  BY <1>8


\* What is true of zero and of each number's successor is true of all.
Inductive(S) == S \subseteq Nat /\ 0 \in S /\ \A n \in S : n + 1 \in S

LEMMA Induction ==
  ASSUME NEW S, Inductive(S)
  PROVE  S = Nat
<1>1. PICK T : T = Nat \ S
  OBVIOUS
<1>2. SUFFICES ASSUME T # {} PROVE FALSE
  BY <1>1 DEF Inductive
<1>3. T \in SUBSET Nat
  BY <1>1
<1>4. PICK n \in T : \A m \in T : n <= m
  BY <1>2, <1>3, Least
<1>5. n \in Nat /\ n # 0 /\ n \notin S
  BY <1>1, <1>4 DEF Inductive
<1>6. n - 1 \in Nat /\ n = (n - 1) + 1 /\ n - 1 \notin T
  BY <1>4, <1>5
<1> QED
  BY <1>1, <1>5, <1>6 DEF Inductive

StepsIn(step, D, n) == \A i \in 1 .. n : step[i] \in [D -> D]
Computes(f, D, start, step, n) ==
  /\ f \in [0 .. n -> D] /\ f[0] = start
  /\ \A i \in 1 .. n : f[i] = step[i][f[i - 1]]

\* There is a function that starts as given and goes on by given steps.
LEMMA Recursion ==
  ASSUME NEW D, NEW start \in D, NEW n \in Nat, NEW step, StepsIn(step, D, n)
  PROVE  \E f : Computes(f, D, start, step, n)
<1>1. PICK S : S = {k \in Nat : k <= n => \E f : Computes(f, D, start, step, k)}
  OBVIOUS
<1>2. 0 \in S
  <2>1. PICK f : f = [i \in 0 .. 0 |-> start]
    OBVIOUS
  <2>2. Computes(f, D, start, step, 0)
    BY <2>1 DEF Computes
  <2> QED
    BY <1>1, <2>2
<1>3. ASSUME NEW k \in S PROVE k + 1 \in S
  <2>1. SUFFICES ASSUME k \in Nat, k + 1 <= n PROVE \E f : Computes(f, D, start, step, k + 1)
    BY <1>1
  <2>2. PICK f : Computes(f, D, start, step, k)
    BY <1>1, <2>1
  <2>3. f[k] \in D /\ step[k + 1] \in [D -> D]
    BY <2>1, <2>2 DEF Computes, StepsIn
  <2>4. PICK d \in D : d = step[k + 1][f[k]]
    BY <2>3
  <2>5. PICK g : g = [i \in 0 .. k + 1 |-> IF i = k + 1 THEN d ELSE f[i]]
    OBVIOUS
  <2>6. ASSUME NEW i \in 1 .. k + 1 PROVE g[i] = step[i][g[i - 1]]
    <3>1. CASE i = k + 1
      BY <2>1, <2>4, <2>5, <3>1
    <3>2. CASE i # k + 1
      BY <2>1, <2>2, <2>5, <3>2 DEF Computes
    <3> QED
      BY <3>1, <3>2
  <2>7. g \in [0 .. k + 1 -> D] /\ g[0] = start
    BY <2>1, <2>2, <2>5 DEF Computes
  <2> QED
    BY <2>6, <2>7 DEF Computes
<1>4. S = Nat
  BY <1>1, <1>2, <1>3, Induction DEF Inductive
<1> QED
  BY <1>1, <1>4

\* The sums of the first n weights.
Sums(f, w, n) ==
  /\ \A i \in 1 .. n : w[i] \in Nat
  /\ \A i \in 0 .. n : f[i] \in Nat
  /\ f[0] = 0 /\ \A i \in 1 .. n : f[i] = f[i - 1] + w[i]

LEMMA OneMoreSum ==
  ASSUME NEW n \in Nat, NEW f, NEW w, Sums(f, w, n), w[n + 1] \in Nat
  PROVE  \E g : Sums(g, w, n + 1)
<1>1. PICK s \in Nat : s = f[n] + w[n + 1]
  BY DEF Sums
<1>2. PICK g : g = [i \in 0 .. n + 1 |-> IF i = n + 1 THEN s ELSE f[i]]
  OBVIOUS
<1>3. \A i \in 0 .. n + 1 : g[i] \in Nat
  BY <1>2 DEF Sums
<1>4. g[0] = 0 /\ g[n + 1] = s /\ \A i \in 0 .. n : g[i] = f[i]
  BY <1>2 DEF Sums
<1>5. ASSUME NEW i \in 1 .. n + 1 PROVE g[i] = g[i - 1] + w[i] /\ w[i] \in Nat
  BY <1>1, <1>4 DEF Sums
<1> QED
  BY <1>3, <1>4, <1>5 DEF Sums

LEMMA SumsExist ==
  ASSUME NEW n \in Nat, NEW w, \A i \in 1 .. n : w[i] \in Nat
  PROVE  \E f : Sums(f, w, n)
<1>1. PICK S : S = {k \in 0 .. n : ~ \E f : Sums(f, w, k)}
  OBVIOUS
<1>2. SUFFICES ASSUME S # {} PROVE FALSE
  BY <1>1
<1>3. S \in SUBSET Nat
  BY <1>1
<1>4. PICK k \in S : \A j \in S : k <= j
  BY <1>2, <1>3, Least
<1>5. k \in 0 .. n /\ ~ \E f : Sums(f, w, k)
  BY <1>1, <1>4
<1>6. k # 0
  <2>1. PICK f : f = [i \in 0 .. 0 |-> 0]
    OBVIOUS
  <2>2. Sums(f, w, 0)
    BY <2>1 DEF Sums
  <2> QED
    BY <1>5, <2>2
<1>7. PICK j \in Nat : j \in 0 .. n /\ k = j + 1 /\ j \notin S
  <2>1. k - 1 \in Nat /\ k - 1 \in 0 .. n /\ k = (k - 1) + 1
    BY <1>5, <1>6
  <2>2. k - 1 \notin S
    BY <1>4, <1>5
  <2> QED
    BY <2>1, <2>2
<1>8. PICK f : Sums(f, w, j)
  BY <1>1, <1>7
<1>9. w[j + 1] \in Nat
  BY <1>5, <1>7
<1> QED
  BY <1>5, <1>7, <1>8, <1>9, OneMoreSum

\* What adds up natural weights from zero on is their sums.
LEMMA SumsAre ==
  ASSUME NEW n \in Nat, NEW f, NEW w, \A i \in 1 .. n : w[i] \in Nat,
         f[0] = 0, \A i \in 1 .. n : f[i] = f[i - 1] + w[i]
  PROVE  Sums(f, w, n)
<1>1. PICK S : S = {i \in 0 .. n : f[i] \notin Nat}
  OBVIOUS
<1>2. CASE S = {}
  BY <1>1, <1>2 DEF Sums
<1>3. CASE S # {}
  <2>0. S \in SUBSET Nat
    BY <1>1
  <2>1. PICK k \in S : \A j \in S : k <= j
    BY <1>3, <2>0, Least
  <2>2. k \in 1 .. n /\ k - 1 \in 0 .. n /\ k - 1 \notin S
    BY <1>1, <2>1
  <2>3. f[k - 1] \in Nat /\ w[k] \in Nat /\ f[k] = f[k - 1] + w[k]
    BY <1>1, <2>2
  <2> QED
    BY <1>1, <2>1, <2>3
<1> QED
  BY <1>2, <1>3

\* The sums of weights that begin alike begin alike.
LEMMA SumsAlike ==
  ASSUME NEW n \in Nat, NEW f, NEW v, NEW g, NEW w,
         Sums(f, v, n), Sums(g, w, n), \A i \in 1 .. n : w[i] = v[i]
  PROVE  \A i \in 0 .. n : g[i] = f[i]
<1>1. PICK S : S = {i \in 0 .. n : g[i] # f[i]}
  OBVIOUS
<1>2. SUFFICES ASSUME S # {} PROVE FALSE
  BY <1>1, <1>2
<1>0. S \in SUBSET Nat
  BY <1>1
<1>3. PICK k \in S : \A j \in S : k <= j
  BY <1>0, <1>2, Least
<1>4. k \in 1 .. n
  BY <1>1, <1>3 DEF Sums
<1>5. k - 1 \in 0 .. n /\ k - 1 \notin S
  BY <1>3, <1>4
<1>6. g[k - 1] = f[k - 1]
  BY <1>1, <1>5
<1>7. f[k] = f[k - 1] + v[k] /\ g[k] = g[k - 1] + w[k]
  BY <1>4 DEF Sums
<1> QED
  BY <1>1, <1>3, <1>4, <1>6, <1>7

\* The weights v are the first n + 1 weights w but the k-th.
Without(v, w, n, k) == \A i \in 1 .. n : v[i] = IF i < k THEN w[i] ELSE w[i + 1]

\* Sums are no greater if a weight is left out.
LEMMA SumsWithout ==
  ASSUME NEW n \in Nat, NEW k \in 1 .. n + 1, NEW f, NEW v, NEW g, NEW w,
         Sums(f, v, n), Sums(g, w, n + 1), Without(v, w, n, k)
  PROVE  /\ \A i \in 0 .. n : i < k => f[i] = g[i]
         /\ \A i \in 0 .. n : f[i] <= g[i + 1]
<1>1. \A i \in 0 .. k - 1 : f[i] = g[i]
  <2>1. Sums(f, v, k - 1) /\ Sums(g, w, k - 1) /\ \A i \in 1 .. k - 1 : w[i] = v[i]
    BY DEF Sums, Without
  <2> QED
    BY <2>1, SumsAlike
<1>2. \A i \in 0 .. n : i >= k => f[i] + w[k] = g[i + 1]
  <2>1. PICK S : S = {i \in k .. n : f[i] + w[k] # g[i + 1]}
    OBVIOUS
  <2>2. SUFFICES ASSUME S # {} PROVE FALSE
    BY <2>1, <2>2
  <2>0. S \in SUBSET Nat
    BY <2>1
  <2>3. PICK m \in S : \A j \in S : m <= j
    BY <2>0, <2>2, Least
  <2>4. m \in 1 .. n /\ m >= k /\ m + 1 \in 1 .. n + 1
    BY <2>1, <2>3
  <2>5. f[m] = f[m - 1] + w[m + 1] /\ g[m + 1] = g[m] + w[m + 1]
    BY <2>4 DEF Sums, Without
  <2>6. f[m - 1] \in Nat /\ g[m] \in Nat /\ w[m + 1] \in Nat /\ w[k] \in Nat
    BY <2>4 DEF Sums
  <2>7. f[m - 1] + w[k] = g[m]
    <3>1. CASE m = k
      <4>1. g[k] = g[k - 1] + w[k] /\ f[k - 1] = g[k - 1]
        BY <1>1 DEF Sums
      <4> QED
        BY <3>1, <4>1
    <3>2. CASE m # k
      <4>1. m - 1 \in k .. n /\ m - 1 \notin S
        BY <2>3, <2>4, <3>2
      <4> QED
        BY <2>1, <2>4, <4>1
    <3> QED
      BY <3>1, <3>2
  <2> QED
    BY <2>1, <2>3, <2>5, <2>6, <2>7
<1>3. ASSUME NEW i \in 0 .. n PROVE f[i] <= g[i + 1]
  <2>1. f[i] \in Nat /\ w[k] \in Nat /\ g[i + 1] = g[i] + w[i + 1] /\ w[i + 1] \in Nat
    BY DEF Sums
  <2> QED
    BY <1>1, <1>2, <2>1
<1> QED
  BY <1>1, <1>3

\* Weights of nothing add nothing.
LEMMA SumsOfNothing ==
  ASSUME NEW n \in Nat, NEW k \in 0 .. n, NEW f, NEW w, Sums(f, w, n),
         \A i \in 1 .. n : i > k => w[i] = 0
  PROVE  f[n] = f[k]
<1>1. PICK S : S = {i \in k .. n : f[i] # f[k]}
  OBVIOUS
<1>2. SUFFICES ASSUME S # {} PROVE FALSE
  BY <1>1, <1>2
<1>0. S \in SUBSET Nat
  BY <1>1
<1>3. PICK m \in S : \A j \in S : m <= j
  BY <1>0, <1>2, Least
<1>4. m \in 1 .. n /\ m > k /\ m - 1 \in k .. n /\ m - 1 \notin S
  BY <1>1, <1>3
<1>5. f[m] = f[m - 1] + 0 /\ f[m - 1] = f[k] /\ f[k] \in Nat
  BY <1>1, <1>4 DEF Sums
<1> QED
  BY <1>1, <1>3, <1>5

-----------------------------------------------------------------------------
(* The limits of Admission, of any tasks that run.                           *)

PlacesAt(run, n) == {i \in DOMAIN run : run[i].node = n}
PlacesOf(run, c, n) == {i \in DOMAIN run : run[i].node = n /\ Request[run[i].task].contract = c}
Weights(run, places, r) == [i \in 1 .. Len(run) |-> IF i \in places THEN Request[run[i].task][r] ELSE 0]
UsedBy(run, places, r) ==
  LET sum[i \in 0 .. Len(run)] ==
        IF i = 0 THEN 0 ELSE sum[i - 1] + (IF i \in places THEN Request[run[i].task][r] ELSE 0)
  IN  sum

Running(run) == (\E S : run \in Seq(S)) /\ \A i \in DOMAIN run : run[i].task \in Task

WithinQuota(run, c, n) ==
  /\ Cardinality(PlacesOf(run, c, n)) <= Quota[<<c, n>>].tasks
  /\ \A r \in Resource : UsedBy(run, PlacesOf(run, c, n), r)[Len(run)] <= Quota[<<c, n>>].max[r]

IsBurst(entry, c, n) ==
  entry.tier = "BURST" /\ entry.at <= Quota[<<c, n>>].burst_until /\ Request[entry.task].allow_burst

\* Whatever came after it, a task that went over the base of its contract was a burst.
BurstsOnly(run, c, n) ==
  \A i \in PlacesOf(run, c, n) :
    (\E r \in Resource : UsedBy(run, PlacesOf(run, c, n), r)[i] > Quota[<<c, n>>].base[r]) => IsBurst(run[i], c, n)

LimitsHold(run) ==
  \A n \in Node :
    /\ \A r \in Resource : UsedBy(run, PlacesAt(run, n), r)[Len(run)] <= Capacity[n][r]
    /\ \A c \in Contract : WithinQuota(run, c, n) /\ BurstsOnly(run, c, n)

LEMMA UsedIsSums ==
  ASSUME NEW run, Running(run), NEW places, NEW r \in Resource
  PROVE  Sums(UsedBy(run, places, r), Weights(run, places, r), Len(run))
<1>1. PICK m \in Nat : m = Len(run) /\ DOMAIN run = 1 .. m
  BY DEF Running
<1>2. PICK w : w = Weights(run, places, r)
  OBVIOUS
<1>3. \A i \in 1 .. m : w[i] = IF i \in places THEN Request[run[i].task][r] ELSE 0
  BY <1>1, <1>2 DEF Weights
<1>4. \A i \in 1 .. m : w[i] \in Nat
  BY <1>1, <1>3, AdmissionAssumption DEF Running, Resource
<1>5. PICK f : Sums(f, w, m)
  BY <1>4, SumsExist
<1>6. PICK g : g = [i \in 0 .. m |-> f[i]]
  OBVIOUS
<1>7. Sums(g, w, m)
  BY <1>5, <1>6 DEF Sums
<1>8. PICK e : e = [i \in 0 .. m |-> IF i = 0 THEN 0
                                 ELSE g[i - 1] + (IF i \in places THEN Request[run[i].task][r] ELSE 0)]
  OBVIOUS
<1>9. g = e
  <2>1. ASSUME NEW i \in 0 .. m PROVE g[i] = e[i]
    <3>1. CASE i = 0
      BY <1>7, <1>8, <3>1 DEF Sums
    <3>2. CASE i # 0
      <4>1. i \in 1 .. m
        BY <3>2
      <4>2. e[i] = g[i - 1] + w[i]
        BY <1>3, <1>8, <4>1
      <4> QED
        BY <1>7, <4>1, <4>2 DEF Sums
    <3> QED
      BY <3>1, <3>2
  <2> QED
    BY <1>6, <1>8, <2>1
<1>10. PICK h : h = UsedBy(run, places, r)
  OBVIOUS
<1>11. h = [i \in 0 .. m |-> IF i = 0 THEN 0 ELSE h[i - 1] + (IF i \in places THEN Request[run[i].task][r] ELSE 0)]
  BY <1>1, <1>8, <1>9, <1>10 DEF UsedBy
<1>12. h[0] = 0
  BY <1>11
<1>13. ASSUME NEW i \in 1 .. m PROVE h[i] = h[i - 1] + w[i]
  BY <1>3, <1>11
<1>14. Sums(h, w, m)
  BY <1>4, <1>12, <1>13, SumsAre
<1> QED
  BY <1>1, <1>2, <1>10, <1>14

\* Weights are of the places there are.
LEMMA WeightsAre ==
  ASSUME NEW run, Running(run), NEW places, NEW r
  PROVE  \A i \in 1 .. Len(run) :
           Weights(run, places, r)[i] = IF i \in places THEN Request[run[i].task][r] ELSE 0
BY DEF Weights

\* One more task.
Longer(run, next) ==
  /\ Running(run) /\ Running(next)
  /\ Len(next) = Len(run) + 1
  /\ \A i \in 1 .. Len(run) : next[i] = run[i]

SamePlaces(old, new, m) == \A i \in 1 .. m : i \in old <=> i \in new

LEMMA LongerUsed ==
  ASSUME NEW run, NEW next, Longer(run, next), NEW m \in Nat, m = Len(run),
         NEW old, NEW new, SamePlaces(old, new, m), NEW r \in Resource
  PROVE  /\ \A i \in 0 .. m : UsedBy(next, new, r)[i] = UsedBy(run, old, r)[i]
         /\ UsedBy(next, new, r)[m + 1] =
              UsedBy(run, old, r)[m] + (IF m + 1 \in new THEN Request[next[m + 1].task][r] ELSE 0)
<1>1. PICK f, v : f = UsedBy(run, old, r) /\ v = Weights(run, old, r)
  OBVIOUS
<1>2. PICK g, w : g = UsedBy(next, new, r) /\ w = Weights(next, new, r)
  OBVIOUS
<1>3. Sums(f, v, m) /\ Sums(g, w, m + 1)
  BY <1>1, <1>2, UsedIsSums DEF Longer
<1>4. \A i \in 1 .. m : v[i] = IF i \in old THEN Request[run[i].task][r] ELSE 0
  BY <1>1, WeightsAre DEF Longer
<1>5. \A i \in 1 .. m + 1 : w[i] = IF i \in new THEN Request[next[i].task][r] ELSE 0
  BY <1>2, WeightsAre DEF Longer
<1>6. \A i \in 1 .. m : w[i] = v[i]
  BY <1>4, <1>5 DEF Longer, SamePlaces
<1>7. Sums(g, w, m) /\ g[m + 1] = g[m] + w[m + 1]
  BY <1>3 DEF Sums
<1>8. \A i \in 0 .. m : g[i] = f[i]
  BY <1>3, <1>6, <1>7, SumsAlike
<1> QED
  BY <1>1, <1>2, <1>5, <1>7, <1>8

\* One task less.
Shorter(run, next, k) ==
  /\ Running(run) /\ Running(next)
  /\ Len(run) = Len(next) + 1 /\ k \in 1 .. Len(run)
  /\ \A i \in 1 .. Len(next) : next[i] = IF i < k THEN run[i] ELSE run[i + 1]

ShiftedPlaces(old, new, m, k) == \A i \in 1 .. m : i \in new <=> (IF i < k THEN i ELSE i + 1) \in old

LEMMA ShorterUsed ==
  ASSUME NEW run, NEW next, NEW k, Shorter(run, next, k), NEW m \in Nat, m = Len(next),
         NEW old, NEW new, ShiftedPlaces(old, new, m, k),
         NEW r \in Resource
  PROVE  /\ \A i \in 0 .. m : i < k => UsedBy(next, new, r)[i] = UsedBy(run, old, r)[i]
         /\ \A i \in 0 .. m : UsedBy(next, new, r)[i] <= UsedBy(run, old, r)[i + 1]
<1>1. PICK f, v : f = UsedBy(next, new, r) /\ v = Weights(next, new, r)
  OBVIOUS
<1>2. PICK g, w : g = UsedBy(run, old, r) /\ w = Weights(run, old, r)
  OBVIOUS
<1>3. Sums(f, v, m) /\ Sums(g, w, m + 1)
  BY <1>1, <1>2, UsedIsSums DEF Shorter
<1>4. \A i \in 1 .. m : v[i] = IF i \in new THEN Request[next[i].task][r] ELSE 0
  BY <1>1, WeightsAre DEF Shorter
<1>5. \A i \in 1 .. m + 1 : w[i] = IF i \in old THEN Request[run[i].task][r] ELSE 0
  BY <1>2, WeightsAre DEF Shorter
<1>6. k \in 1 .. m + 1
  BY DEF Shorter
<1>7. ASSUME NEW i \in 1 .. m PROVE v[i] = IF i < k THEN w[i] ELSE w[i + 1]
  <2>1. i \in 1 .. m + 1 /\ i + 1 \in 1 .. m + 1
    OBVIOUS
  <2>2. next[i] = IF i < k THEN run[i] ELSE run[i + 1]
    BY DEF Shorter
  <2>3. CASE i < k
    BY <1>4, <1>5, <2>1, <2>2, <2>3 DEF ShiftedPlaces
  <2>4. CASE ~(i < k)
    BY <1>4, <1>5, <2>1, <2>2, <2>4 DEF ShiftedPlaces
  <2> QED
    BY <2>3, <2>4
<1>8. Without(v, w, m, k)
  BY <1>7 DEF Without
<1>9. /\ \A i \in 0 .. m : i < k => f[i] = g[i]
      /\ \A i \in 0 .. m : f[i] <= g[i + 1]
  BY <1>3, <1>6, <1>8, SumsWithout
<1> QED
  BY <1>1, <1>2, <1>9

LEMMA NaturalUse ==
  ASSUME NEW run, Running(run), NEW places, NEW r \in Resource
  PROVE  \A i \in 0 .. Len(run) : UsedBy(run, places, r)[i] \in Nat
<1>1. Sums(UsedBy(run, places, r), Weights(run, places, r), Len(run))
  BY UsedIsSums
<1> QED
  BY <1>1 DEF Sums

\* What admission asks of a task that is let in.
FitsIn(run, entry, c, n) ==
  /\ \A r \in Resource :
       UsedBy(run, PlacesAt(run, n), r)[Len(run)] + Request[entry.task][r] <= Capacity[n][r]
  /\ Cardinality(PlacesOf(run, c, n)) < Quota[<<c, n>>].tasks
  /\ \/ \A r \in Resource :
          UsedBy(run, PlacesOf(run, c, n), r)[Len(run)] + Request[entry.task][r] <= Quota[<<c, n>>].base[r]
     \/ /\ IsBurst(entry, c, n)
        /\ \A r \in Resource :
             UsedBy(run, PlacesOf(run, c, n), r)[Len(run)] + Request[entry.task][r] <= Quota[<<c, n>>].max[r]

\* A task that is let in leaves all limits kept.
LEMMA LongerKept ==
  ASSUME NEW run, NEW next, Longer(run, next), LimitsHold(run),
         NEW entry, entry = next[Len(next)],
         NEW c0, c0 = Request[entry.task].contract, NEW n0, n0 = entry.node, FitsIn(run, entry, c0, n0)
  PROVE  LimitsHold(next)
<1>1. PICK m \in Nat : m = Len(run) /\ DOMAIN run = 1 .. m
  BY DEF Longer, Running
<1>2. DOMAIN next = 1 .. m + 1 /\ \A i \in 1 .. m : next[i] = run[i]
  BY <1>1 DEF Longer, Running
<1>3. Len(next) = m + 1 /\ next[m + 1] = entry
  BY <1>1 DEF Longer
<1>4. ASSUME NEW n \in Node, NEW r \in Resource
      PROVE  UsedBy(next, PlacesAt(next, n), r)[Len(next)] <= Capacity[n][r]
  <2>1. PICK old, new : old = PlacesAt(run, n) /\ new = PlacesAt(next, n)
    OBVIOUS
  <2>2. SamePlaces(old, new, m) /\ (m + 1 \in new <=> n = n0)
    BY <1>1, <1>2, <1>3, <2>1 DEF PlacesAt, SamePlaces
  <2>3. UsedBy(next, new, r)[m + 1] =
          UsedBy(run, old, r)[m] + (IF m + 1 \in new THEN Request[next[m + 1].task][r] ELSE 0)
    BY <1>1, <2>2, LongerUsed
  <2>4. UsedBy(run, old, r)[m] \in Nat /\ UsedBy(run, old, r)[m] <= Capacity[n][r]
    BY <1>1, <2>1, NaturalUse DEF Longer, LimitsHold
  <2>5. CASE n = n0
    BY <1>1, <1>3, <2>1, <2>2, <2>3, <2>5 DEF FitsIn
  <2>6. CASE n # n0
    BY <1>3, <2>1, <2>2, <2>3, <2>4, <2>6
  <2> QED
    BY <2>5, <2>6
<1>5. ASSUME NEW n \in Node, NEW c \in Contract
      PROVE  WithinQuota(next, c, n) /\ BurstsOnly(next, c, n)
  <2>1. PICK old, new : old = PlacesOf(run, c, n) /\ new = PlacesOf(next, c, n)
    OBVIOUS
  <2>2. /\ old \subseteq 1 .. m /\ new \subseteq 1 .. m + 1
        /\ \A i \in 1 .. m : i \in old <=> i \in new
        /\ m + 1 \in new <=> n = n0 /\ c = c0
    BY <1>1, <1>2, <1>3, <2>1 DEF PlacesOf
  <2>3. ASSUME NEW r \in Resource
        PROVE  /\ \A i \in 0 .. m : UsedBy(next, new, r)[i] = UsedBy(run, old, r)[i]
               /\ UsedBy(next, new, r)[m + 1] =
                    UsedBy(run, old, r)[m] + (IF m + 1 \in new THEN Request[entry.task][r] ELSE 0)
               /\ UsedBy(run, old, r)[m] \in Nat
    <3>1. SamePlaces(old, new, m)
      BY <2>2 DEF SamePlaces
    <3>2. UsedBy(run, old, r)[m] \in Nat
      BY <1>1, NaturalUse DEF Longer
    <3> QED
      BY <1>1, <1>3, <3>1, <3>2, LongerUsed
  <2>4. IsFiniteSet(old)
    <3>1. IsFiniteSet(1 .. m)
      BY FS_Interval
    <3> QED
      BY <2>2, <3>1, FS_Subset
  <2>5. WithinQuota(run, c, n) /\ BurstsOnly(run, c, n)
    BY DEF LimitsHold
  <2>6. \A i \in old : (\E r \in Resource : UsedBy(next, new, r)[i] > Quota[<<c, n>>].base[r]) => IsBurst(next[i], c, n)
    BY <1>2, <2>1, <2>2, <2>3, <2>5 DEF BurstsOnly
  <2>7. CASE n = n0 /\ c = c0
    <3>1. new = old \cup {m + 1} /\ m + 1 \notin old
      <4>1. m + 1 \in new /\ m + 1 \notin old
        BY <2>2, <2>7
      <4>2. ASSUME NEW i \in new PROVE i \in old \cup {m + 1}
        BY <2>2, <4>2
      <4>3. ASSUME NEW i \in old PROVE i \in new
        BY <2>2, <4>3
      <4> QED
        BY <4>1, <4>2, <4>3
    <3>2. Cardinality(new) <= Quota[<<c, n>>].tasks
      <4>1. Cardinality(new) = Cardinality(old) + 1 /\ Cardinality(old) \in Nat
        BY <2>4, <3>1, FS_AddElement, FS_CardinalityType
      <4>2. Quota[<<c, n>>].tasks \in Nat /\ Cardinality(old) < Quota[<<c, n>>].tasks
        BY <2>1, <2>7, AdmissionAssumption DEF FitsIn
      <4> QED
        BY <4>1, <4>2
    <3>3. \A r \in Resource : UsedBy(next, new, r)[m + 1] = UsedBy(run, old, r)[m] + Request[entry.task][r]
      BY <2>3, <3>1
    <3>4. CASE \A r \in Resource : UsedBy(run, old, r)[m] + Request[entry.task][r] <= Quota[<<c, n>>].base[r]
      <4>1. \A r \in Resource : UsedBy(next, new, r)[m + 1] <= Quota[<<c, n>>].base[r]
        BY <3>3, <3>4
      <4>2. Request[entry.task] = Request[entry.task] /\ \A r \in Resource :
              /\ UsedBy(next, new, r)[m + 1] \in Nat
              /\ Quota[<<c, n>>].base[r] \in Nat /\ Quota[<<c, n>>].max[r] \in Nat
              /\ Quota[<<c, n>>].base[r] <= Quota[<<c, n>>].max[r]
        BY <1>3, NaturalUse, AdmissionAssumption DEF Longer, Resource
      <4>3. \A r \in Resource : /\ UsedBy(next, new, r)[m + 1] <= Quota[<<c, n>>].max[r]
                                /\ ~ (UsedBy(next, new, r)[m + 1] > Quota[<<c, n>>].base[r])
        BY <4>1, <4>2
      <4> QED
        BY <1>3, <2>1, <2>6, <3>1, <3>2, <4>3 DEF WithinQuota, BurstsOnly
    <3>5. CASE /\ IsBurst(entry, c, n)
               /\ \A r \in Resource : UsedBy(run, old, r)[m] + Request[entry.task][r] <= Quota[<<c, n>>].max[r]
      <4>1. \A r \in Resource : UsedBy(next, new, r)[m + 1] <= Quota[<<c, n>>].max[r]
        BY <3>3, <3>5
      <4> QED
        BY <1>3, <2>1, <2>6, <3>1, <3>2, <3>5, <4>1 DEF WithinQuota, BurstsOnly
    <3> QED
      BY <1>1, <2>1, <2>7, <3>4, <3>5 DEF FitsIn
  <2>8. CASE ~ (n = n0 /\ c = c0)
    <3>1. new = old
      <4>1. ASSUME NEW i \in new PROVE i \in old
        BY <2>2, <2>8
      <4> QED
        BY <2>2, <4>1
    <3>2. \A r \in Resource : UsedBy(next, new, r)[m + 1] = UsedBy(run, old, r)[m]
      BY <2>2, <2>3, <2>8
    <3> QED
      BY <1>1, <1>3, <2>1, <2>5, <2>6, <3>1, <3>2 DEF WithinQuota, BurstsOnly
  <2> QED
    BY <2>7, <2>8
<1> QED
  BY <1>4, <1>5 DEF LimitsHold

\* A task that ends leaves all limits kept.
LEMMA ShorterKept ==
  ASSUME NEW run, NEW next, NEW k, Shorter(run, next, k), LimitsHold(run)
  PROVE  LimitsHold(next)
<1>1. PICK m \in Nat : m = Len(next) /\ DOMAIN next = 1 .. m
  BY DEF Shorter, Running
<1>2. /\ DOMAIN run = 1 .. m + 1 /\ Len(run) = m + 1 /\ k \in 1 .. m + 1
      /\ \A i \in 1 .. m : next[i] = IF i < k THEN run[i] ELSE run[i + 1]
  BY <1>1 DEF Shorter, Running
<1>3. ASSUME NEW n \in Node, NEW r \in Resource
      PROVE  UsedBy(next, PlacesAt(next, n), r)[m] <= Capacity[n][r]
  <2>1. PICK old, new : old = PlacesAt(run, n) /\ new = PlacesAt(next, n)
    OBVIOUS
  <2>2. ShiftedPlaces(old, new, m, k)
    BY <1>1, <1>2, <2>1 DEF PlacesAt, ShiftedPlaces
  <2>3. \A i \in 0 .. m : UsedBy(next, new, r)[i] <= UsedBy(run, old, r)[i + 1]
    BY <1>1, <2>2, ShorterUsed
  <2>4. UsedBy(next, new, r)[m] \in Nat /\ UsedBy(run, old, r)[m + 1] \in Nat
    BY <1>1, <1>2, NaturalUse DEF Shorter
  <2>5. UsedBy(run, old, r)[m + 1] <= Capacity[n][r] /\ Capacity[n][r] \in Nat
    BY <1>2, <2>1, AdmissionAssumption DEF LimitsHold, Resource
  <2> QED
    BY <2>1, <2>3, <2>4, <2>5
<1>4. ASSUME NEW n \in Node, NEW c \in Contract
      PROVE  WithinQuota(next, c, n) /\ BurstsOnly(next, c, n)
  <2>1. PICK old, new : old = PlacesOf(run, c, n) /\ new = PlacesOf(next, c, n)
    OBVIOUS
  <2>2. /\ old \subseteq 1 .. m + 1 /\ new \subseteq 1 .. m
        /\ \A i \in 1 .. m : i \in new <=> (IF i < k THEN i ELSE i + 1) \in old
    BY <1>1, <1>2, <2>1 DEF PlacesOf
  <2>3. ShiftedPlaces(old, new, m, k)
    BY <2>2 DEF ShiftedPlaces
  <2>4. ASSUME NEW r \in Resource
        PROVE  /\ \A i \in 0 .. m : i < k => UsedBy(next, new, r)[i] = UsedBy(run, old, r)[i]
               /\ \A i \in 0 .. m : UsedBy(next, new, r)[i] <= UsedBy(run, old, r)[i + 1]
               /\ \A i \in 0 .. m : UsedBy(next, new, r)[i] \in Nat
               /\ \A i \in 0 .. m + 1 : UsedBy(run, old, r)[i] \in Nat
               /\ Quota[<<c, n>>].base[r] \in Nat /\ Quota[<<c, n>>].max[r] \in Nat
    <3>1. /\ \A i \in 0 .. m : UsedBy(next, new, r)[i] \in Nat
          /\ \A i \in 0 .. m + 1 : UsedBy(run, old, r)[i] \in Nat
      BY <1>1, <1>2, NaturalUse DEF Shorter
    <3>2. Quota[<<c, n>>].base[r] \in Nat /\ Quota[<<c, n>>].max[r] \in Nat
      BY AdmissionAssumption DEF Resource
    <3>3. /\ \A i \in 0 .. m : i < k => UsedBy(next, new, r)[i] = UsedBy(run, old, r)[i]
          /\ \A i \in 0 .. m : UsedBy(next, new, r)[i] <= UsedBy(run, old, r)[i + 1]
      BY <1>1, <2>3, ShorterUsed
    <3> QED
      BY <3>1, <3>2, <3>3
  <2>5. WithinQuota(run, c, n) /\ BurstsOnly(run, c, n)
    BY DEF LimitsHold
  <2>6. Cardinality(new) <= Quota[<<c, n>>].tasks
    <3>1. IsFiniteSet(1 .. m + 1)
      BY FS_Interval
    <3>2. IsFiniteSet(old)
      BY <2>2, <3>1, FS_Subset
    <3>3. PICK h : h = [i \in new |-> IF i < k THEN i ELSE i + 1]
      OBVIOUS
    <3>4. h \in [new -> old]
      BY <2>2, <3>3
    <3>5. ASSUME NEW i \in new, NEW j \in new, h[i] = h[j] PROVE i = j
      <4>1. i \in 1 .. m /\ j \in 1 .. m
        BY <2>2
      <4> QED
        BY <1>2, <3>3, <3>5, <4>1
    <3>6. h \in Injection(new, old)
      BY <3>4, <3>5 DEF Injection, IsInjective
    <3>7. IsFiniteSet(new) /\ Cardinality(new) <= Cardinality(old)
      BY <3>2, <3>6, FS_Injection
    <3>8. Cardinality(new) \in Nat /\ Cardinality(old) \in Nat
      BY <3>2, <3>7, FS_CardinalityType
    <3>9. Cardinality(old) <= Quota[<<c, n>>].tasks /\ Quota[<<c, n>>].tasks \in Nat
      BY <2>1, <2>5, AdmissionAssumption DEF WithinQuota
    <3> QED
      BY <3>7, <3>8, <3>9
  <2>7. ASSUME NEW r \in Resource PROVE UsedBy(next, new, r)[m] <= Quota[<<c, n>>].max[r]
    <3>1. UsedBy(run, old, r)[m + 1] <= Quota[<<c, n>>].max[r]
      BY <1>2, <2>1, <2>5 DEF WithinQuota
    <3> QED
      BY <2>4, <3>1
  <2>8. ASSUME NEW i \in new, NEW r \in Resource, UsedBy(next, new, r)[i] > Quota[<<c, n>>].base[r]
        PROVE  IsBurst(next[i], c, n)
    <3>1. PICK j \in old : j = IF i < k THEN i ELSE i + 1
      BY <2>2
    <3>2. next[i] = run[j]
      BY <1>2, <2>2, <3>1
    <3>3. UsedBy(next, new, r)[i] <= UsedBy(run, old, r)[j]
      BY <2>2, <2>4, <3>1
    <3>4. UsedBy(run, old, r)[j] > Quota[<<c, n>>].base[r]
      <4>1. i \in 0 .. m /\ j \in 0 .. m + 1
        BY <2>2, <3>1
      <4> QED
        BY <2>4, <2>8, <3>3, <4>1
    <3> QED
      BY <2>1, <2>5, <3>2, <3>4 DEF BurstsOnly
  <2> QED
    BY <1>1, <2>1, <2>6, <2>7, <2>8 DEF WithinQuota, BurstsOnly
<1> QED
  BY <1>1, <1>3, <1>4 DEF LimitsHold

-----------------------------------------------------------------------------
(* The tasks and devices of Admission.                                       *)

AdmissionInv == Running(running) /\ DevicesApart /\ LimitsHold(running)

LEMMA UsageIs ==
  /\ \A n : At(n) = PlacesAt(running, n)
  /\ \A c, n : Of(c, n) = PlacesOf(running, c, n)
  /\ \A places, r : Usage(places, r) = UsedBy(running, places, r)[Len(running)]
<1>1. \A n : At(n) = PlacesAt(running, n)
  BY DEF At, PlacesAt
<1>2. \A c, n : Of(c, n) = PlacesOf(running, c, n)
  BY DEF Of, At, PlacesOf
<1>3. \A places, r : Usage(places, r) = UsedBy(running, places, r)[Len(running)]
  BY DEF Usage, Used, UsedBy
<1> QED
  BY <1>1, <1>2, <1>3

\* A task that ends leaves the others as they were.
LEMMA ReleaseKeeps ==
  ASSUME AdmissionInv, NEW k \in DOMAIN running, Release(k)
  PROVE  AdmissionInv'
<1>1. PICK S : running \in Seq(S)
  BY DEF AdmissionInv, Running
<1>2. PICK n \in Nat : n = Len(running) /\ DOMAIN running = 1 .. n
  BY <1>1
<1>3. PICK before : before = SubSeq(running, 1, k - 1)
  OBVIOUS
<1>4. PICK after : after = SubSeq(running, k + 1, n)
  OBVIOUS
<1>5. running' = before \o after
  BY <1>2, <1>3, <1>4 DEF Release, RemoveAt
<1>6. /\ before \in Seq(S) /\ Len(before) = k - 1
      /\ \A i \in 1 .. k - 1 : before[i] = running[i]
  BY <1>1, <1>2, <1>3
<1>7. /\ after \in Seq(S) /\ Len(after) = n - k
      /\ \A i \in 1 .. n - k : after[i] = running[i + k]
  BY <1>1, <1>2, <1>4
<1>8. /\ running' \in Seq(S) /\ DOMAIN running' = 1 .. n - 1
      /\ \A i \in 1 .. n - 1 : running'[i] = IF i < k THEN running[i] ELSE running[i + 1]
  <2>1. running' \in Seq(S) /\ Len(running') = n - 1
    BY <1>2, <1>5, <1>6, <1>7
  <2>2. ASSUME NEW i \in 1 .. n - 1, i < k PROVE running'[i] = running[i]
    BY <1>2, <1>5, <1>6, <1>7, <2>2
  <2>3. ASSUME NEW i \in 1 .. n - 1, ~(i < k) PROVE running'[i] = running[i + 1]
    <3>1. i - (k - 1) \in 1 .. n - k /\ i - (k - 1) + k = i + 1
      BY <1>2, <2>3
    <3>2. (before \o after)[i] = after[i - (k - 1)]
      BY <1>2, <1>6, <1>7, <2>3
    <3> QED
      BY <1>5, <1>7, <3>1, <3>2
  <2> QED
    BY <1>2, <2>1, <2>2, <2>3
<1>9. ASSUME NEW i \in 1 .. n - 1, NEW j \in 1 .. n - 1, i # j, running'[i].node = running'[j].node
      PROVE  running'[i].gpus \cap running'[j].gpus = {}
  <2>1. PICK p \in 1 .. n : p = IF i < k THEN i ELSE i + 1
    BY <1>2
  <2>2. PICK q \in 1 .. n : q = IF j < k THEN j ELSE j + 1
    BY <1>2
  <2>3. p # q /\ running'[i] = running[p] /\ running'[j] = running[q]
    BY <1>2, <1>8, <1>9, <2>1, <2>2
  <2> QED
    BY <1>2, <1>9, <2>3 DEF AdmissionInv, DevicesApart
<1>10. Running(running')
  <2>1. ASSUME NEW i \in 1 .. n - 1 PROVE running'[i].task \in Task
    <3>1. PICK p \in 1 .. n : p = IF i < k THEN i ELSE i + 1
      BY <1>2
    <3>2. running'[i] = running[p]
      BY <1>8, <3>1
    <3> QED
      BY <1>2, <3>2 DEF AdmissionInv, Running
  <2> QED
    BY <1>8, <2>1 DEF Running
<1>11. Shorter(running, running', k)
  BY <1>2, <1>8, <1>10 DEF AdmissionInv, Shorter
<1>12. LimitsHold(running')
  BY <1>11, ShorterKept DEF AdmissionInv
<1> QED
  BY <1>8, <1>9, <1>10, <1>12 DEF AdmissionInv, DevicesApart

\* What the plan and the tier say of a task that is let in.
LEMMA AdmittedFits ==
  ASSUME AdmissionInv, NEW t \in Task, NEW n \in Node, NEW gpus, Admit(t, n, gpus),
         NEW entry, entry = [task |-> t, node |-> n, tier |-> Tier(t, n), gpus |-> gpus, at |-> now]
  PROVE  FitsIn(running, entry, Request[t].contract, n)
<1>1. PICK c \in Contract : c = Request[t].contract
  BY AdmissionAssumption
<1>2. PICK quota : quota = Quota[<<c, n>>]
  OBVIOUS
<1>3. entry.task = t /\ entry.tier = Tier(t, n) /\ entry.at = now
  OBVIOUS
<1>4. \A r \in Resource :
        UsedBy(running, PlacesAt(running, n), r)[Len(running)] + Request[t][r] <= Capacity[n][r]
  BY UsageIs DEF Admit, FitsNode
<1>5. Tier(t, n) # "BLOCKED"
  BY DEF Admit
<1>6. /\ ~(Cardinality(Of(c, n)) >= quota.tasks)
      /\ \/ Fits(t, n, quota.base)
         \/ /\ Tier(t, n) = "BURST" /\ Request[t].allow_burst /\ quota.burst_until >= now
            /\ Fits(t, n, quota.max)
  BY <1>1, <1>2, <1>5 DEF Tier
<1>7. Cardinality(PlacesOf(running, c, n)) < quota.tasks
  <2>1. PICK places : places = PlacesOf(running, c, n)
    OBVIOUS
  <2>2. IsFiniteSet(places)
    <3>1. PICK m \in Nat : DOMAIN running = 1 .. m
      BY DEF AdmissionInv, Running
    <3>2. IsFiniteSet(1 .. m) /\ places \in SUBSET (1 .. m)
      BY <2>1, <3>1, FS_Interval DEF PlacesOf
    <3> QED
      BY <3>2, FS_Subset
  <2>3. Cardinality(places) \in Nat /\ quota.tasks \in Nat
    BY <1>2, <2>2, FS_CardinalityType, AdmissionAssumption
  <2> QED
    BY <1>6, <2>1, <2>3, UsageIs
<1>8. ASSUME NEW limit, Fits(t, n, limit)
      PROVE  \A r \in Resource :
               UsedBy(running, PlacesOf(running, c, n), r)[Len(running)] + Request[t][r] <= limit[r]
  BY <1>1, <1>8, UsageIs DEF Fits
<1>9. \/ \A r \in Resource :
           UsedBy(running, PlacesOf(running, c, n), r)[Len(running)] + Request[t][r] <= quota.base[r]
      \/ /\ IsBurst(entry, c, n)
         /\ \A r \in Resource :
              UsedBy(running, PlacesOf(running, c, n), r)[Len(running)] + Request[t][r] <= quota.max[r]
  <2>1. CASE Fits(t, n, quota.base)
    BY <1>8, <2>1
  <2>2. CASE /\ Tier(t, n) = "BURST" /\ Request[t].allow_burst /\ quota.burst_until >= now
             /\ Fits(t, n, quota.max)
    <3>1. IsBurst(entry, c, n)
      BY <1>2, <1>3, <2>2 DEF IsBurst
    <3> QED
      BY <1>8, <2>2, <3>1
  <2> QED
    BY <1>6, <2>1, <2>2
<1> QED
  BY <1>1, <1>2, <1>3, <1>4, <1>7, <1>9 DEF FitsIn

\* A task that is let in is given devices that no task of the node has.
LEMMA AdmitKeeps ==
  ASSUME AdmissionInv, NEW t \in Task, NEW n \in Node, NEW gpus \in Leasable(t, n), Admit(t, n, gpus)
  PROVE  AdmissionInv'
<1>1. PICK S : running \in Seq(S)
  BY DEF AdmissionInv, Running
<1>2. PICK entry : entry = [task |-> t, node |-> n, tier |-> Tier(t, n), gpus |-> gpus, at |-> now]
  OBVIOUS
<1>3. PICK m \in Nat : m = Len(running) /\ DOMAIN running = 1 .. m
  BY <1>1
<1>4. running' = Append(running, entry) /\ entry.node = n /\ entry.gpus = gpus
  BY <1>2 DEF Admit
<1>5. running \in Seq(S \cup {entry})
  BY <1>1
<1>6. /\ running' \in Seq(S \cup {entry}) /\ DOMAIN running' = 1 .. m + 1
      /\ \A i \in 1 .. m : running'[i] = running[i]
      /\ running'[m + 1] = entry
  BY <1>3, <1>4, <1>5
<1>7. \A i \in 1 .. m : running[i].node = n => running[i].gpus \cap gpus = {}
  BY <1>3 DEF Leasable, LeasedGpus, At
<1>8. ASSUME NEW i \in 1 .. m + 1, NEW j \in 1 .. m + 1, i # j, running'[i].node = running'[j].node
      PROVE  running'[i].gpus \cap running'[j].gpus = {}
  <2>1. CASE i \in 1 .. m /\ j \in 1 .. m
    BY <1>3, <1>6, <1>8, <2>1 DEF AdmissionInv, DevicesApart
  <2>2. CASE i = m + 1 /\ j \in 1 .. m
    BY <1>4, <1>6, <1>7, <1>8, <2>2
  <2>3. CASE j = m + 1 /\ i \in 1 .. m
    BY <1>4, <1>6, <1>7, <1>8, <2>3
  <2> QED
    BY <1>3, <1>8, <2>1, <2>2, <2>3
<1>9. Running(running')
  <2>1. entry.task \in Task /\ \A i \in 1 .. m : running[i].task \in Task
    BY <1>2, <1>3 DEF AdmissionInv, Running
  <2>2. ASSUME NEW i \in 1 .. m + 1 PROVE running'[i].task \in Task
    BY <1>6, <2>1
  <2> QED
    BY <1>6, <2>2 DEF Running
<1>10. Longer(running, running')
  BY <1>3, <1>6, <1>9 DEF AdmissionInv, Longer
<1>11. FitsIn(running, entry, Request[t].contract, n)
  BY <1>2, AdmittedFits
<1>12. LimitsHold(running')
  <2>1. entry = running'[Len(running')] /\ entry.task = t /\ entry.node = n
    BY <1>2, <1>3, <1>6
  <2> QED
    BY <1>10, <1>11, <2>1, LongerKept DEF AdmissionInv
<1> QED
  BY <1>6, <1>8, <1>9, <1>12 DEF AdmissionInv, DevicesApart

LEMMA AdmissionStep == AdmissionInv /\ [Next]_vars => AdmissionInv'
<1> SUFFICES ASSUME AdmissionInv, [Next]_vars PROVE AdmissionInv'
  OBVIOUS
<1>1. CASE running' = running
  BY <1>1 DEF AdmissionInv, DevicesApart
<1>2. CASE Next
  BY <1>1, <1>2, AdmitKeeps, ReleaseKeeps DEF Next
<1> QED
  BY <1>1, <1>2 DEF vars

LEMMA AdmissionInitInv == Init => AdmissionInv
<1> SUFFICES ASSUME Init PROVE AdmissionInv
  OBVIOUS
<1>1. running = <<>> /\ running \in Seq({}) /\ DOMAIN running = {} /\ Len(running) = 0
  BY DEF Init
<1>2. Running(running) /\ DevicesApart
  BY <1>1 DEF Running, DevicesApart
<1>3. \A places : \A r \in Resource : UsedBy(running, places, r)[0] = 0
  <2>1. ASSUME NEW places, NEW r \in Resource
        PROVE  Sums(UsedBy(running, places, r), Weights(running, places, r), Len(running))
    BY <1>2, UsedIsSums
  <2> QED
    BY <2>1 DEF Sums
<1>4. \A c, n : PlacesOf(running, c, n) = {}
  BY <1>1 DEF PlacesOf
<1>5. Cardinality({}) = 0
  BY FS_EmptySet
<1>6. ASSUME NEW n \in Node, NEW r \in Resource
      PROVE  UsedBy(running, PlacesAt(running, n), r)[Len(running)] <= Capacity[n][r]
  BY <1>1, <1>3, AdmissionAssumption DEF Resource
<1>7. ASSUME NEW n \in Node, NEW c \in Contract
      PROVE  WithinQuota(running, c, n) /\ BurstsOnly(running, c, n)
  <2>1. Cardinality(PlacesOf(running, c, n)) <= Quota[<<c, n>>].tasks
    <3>1. Quota[<<c, n>>].tasks \in Nat /\ PlacesOf(running, c, n) = {}
      BY <1>4, AdmissionAssumption
    <3> QED
      BY <1>5, <3>1
  <2>2. ASSUME NEW r \in Resource
        PROVE  UsedBy(running, PlacesOf(running, c, n), r)[Len(running)] <= Quota[<<c, n>>].max[r]
    BY <1>1, <1>3, AdmissionAssumption DEF Resource
  <2> QED
    BY <1>4, <2>1, <2>2 DEF WithinQuota, BurstsOnly
<1> QED
  BY <1>2, <1>6, <1>7 DEF AdmissionInv, LimitsHold

\* What some tasks use was used up with the youngest of them.
LEMMA YoungestOf ==
  ASSUME NEW run, Running(run), NEW places \in SUBSET (1 .. Len(run)), NEW r \in Resource
  PROVE  IF places = {} THEN UsedBy(run, places, r)[Len(run)] = 0
         ELSE /\ Max(places) \in places
              /\ UsedBy(run, places, r)[Len(run)] = UsedBy(run, places, r)[Max(places)]
<1>1. PICK m \in Nat : m = Len(run)
  BY DEF Running
<1>2. PICK f, w : f = UsedBy(run, places, r) /\ w = Weights(run, places, r)
  OBVIOUS
<1>3. Sums(f, w, m) /\ \A i \in 1 .. m : i \notin places => w[i] = 0
  BY <1>1, <1>2, UsedIsSums, WeightsAre
<1>4. CASE places = {}
  <2>1. \A i \in 1 .. m : i > 0 => w[i] = 0
    BY <1>3, <1>4
  <2>2. f[m] = f[0]
    BY <1>3, <2>1, SumsOfNothing
  <2> QED
    BY <1>1, <1>2, <1>3, <1>4, <2>2 DEF Sums
<1>5. CASE places # {}
  <2>1. PICK S : S = {m - i : i \in places}
    OBVIOUS
  <2>2. S \in SUBSET Nat /\ S # {}
    <3>1. \A i \in places : m - i \in Nat
      BY <1>1
    <3>2. \A j \in S : j \in Nat
      BY <2>1, <3>1
    <3>3. PICK i \in places : TRUE
      BY <1>5
    <3>4. m - i \in S
      BY <2>1
    <3> QED
      BY <3>2, <3>4
  <2>3. PICK s \in S : \A t \in S : s <= t
    BY <2>2, Least
  <2>4. PICK p \in places : s = m - p
    BY <2>1, <2>3
  <2>5. ASSUME NEW i \in places PROVE p >= i
    <3>1. m - i \in S /\ m - p <= m - i
      BY <2>1, <2>3, <2>4
    <3>2. p \in 1 .. m /\ i \in 1 .. m
      BY <1>1
    <3> QED
      BY <3>1, <3>2
  <2>6. PICK max : max = Max(places)
    OBVIOUS
  <2>7. max \in places /\ \A i \in places : max >= i
    BY <2>5, <2>6 DEF Max
  <2>8. max \in 1 .. m
    BY <1>1, <2>7
  <2>9. ASSUME NEW i \in 1 .. m, i > max PROVE w[i] = 0
    BY <1>3, <2>7, <2>8, <2>9
  <2>10. f[m] = f[max]
    BY <1>3, <2>8, <2>9, SumsOfNothing
  <2> QED
    BY <1>1, <1>2, <1>5, <2>6, <2>7, <2>10
<1> QED
  BY <1>4, <1>5

\* In any order of admissions and ends: what runs at a node or of a contract never exceeds
\* their limits, no device is leased twice, and a contract over its base has a burst as its
\* youngest task.
THEOREM LimitsAreKept == Spec => []WithinLimits
<1>1. AdmissionInv => WithinLimits
  <2> SUFFICES ASSUME AdmissionInv PROVE WithinLimits
    OBVIOUS
  <2>1. ASSUME NEW n \in Node, NEW r \in Resource PROVE Usage(At(n), r) <= Capacity[n][r]
    BY UsageIs DEF AdmissionInv, LimitsHold
  <2>2. ASSUME NEW n \in Node, NEW c \in Contract
        PROVE  /\ Cardinality(Of(c, n)) <= Quota[<<c, n>>].tasks
               /\ \A r \in Resource : Usage(Of(c, n), r) <= Quota[<<c, n>>].max[r]
    BY UsageIs DEF AdmissionInv, LimitsHold, WithinQuota
  <2>3. ASSUME NEW n \in Node, NEW c \in Contract, NEW r \in Resource,
               Usage(Of(c, n), r) > Quota[<<c, n>>].base[r]
        PROVE  IsBurst(running[Max(Of(c, n))], c, n)
    <3>1. PICK places : places = PlacesOf(running, c, n)
      OBVIOUS
    <3>2. Of(c, n) = places /\ UsedBy(running, places, r)[Len(running)] > Quota[<<c, n>>].base[r]
      BY <2>3, <3>1, UsageIs
    <3>3. Running(running) /\ places \in SUBSET (1 .. Len(running))
      BY <3>1 DEF AdmissionInv, Running, PlacesOf
    <3>4. IF places = {} THEN UsedBy(running, places, r)[Len(running)] = 0
          ELSE /\ Max(places) \in places
               /\ UsedBy(running, places, r)[Len(running)] = UsedBy(running, places, r)[Max(places)]
      BY <3>3, YoungestOf
    <3>5. places # {}
      BY <3>2, <3>4, AdmissionAssumption DEF Resource
    <3>6. BurstsOnly(running, c, n)
      BY DEF AdmissionInv, LimitsHold
    <3> QED
      BY <3>1, <3>2, <3>4, <3>5, <3>6 DEF BurstsOnly
  <2> QED
    BY <2>1, <2>2, <2>3 DEF WithinLimits, AdmissionInv, IsBurst
<1> QED
  BY <1>1, AdmissionInitInv, AdmissionStep, PTL DEF Spec

\* Admission leaves the locks to the governor: what is proved of its locks holds while tasks
\* are let in and end.
THEOREM AdmissionUsesGovernor == Spec => GovernorSpec
<1>1. Init => GovernorInit
  BY DEF Init
<1>2. [Next]_vars => [GovernorNext]_governor
  BY DEF Next, Admit, Release, vars, governor
<1> QED
  BY <1>1, <1>2, PTL DEF Spec, GovernorSpec

-----------------------------------------------------------------------------
(* The authorizations of RequirementGraph.                                   *)

ReceiptField == {"tenantId", "requirementGraphDigest", "authorizedAt", "expiresAt"}

\* Times are written without an offset in what the authority keeps.
Normal(t) == t.hour \in Int /\ t.offset = 0

ReceiptSound(r) ==
  /\ DOMAIN r = ReceiptField
  /\ Normal(r.authorizedAt)
  /\ \A i \in DOMAIN r.expiresAt : Normal(r.expiresAt[i])

GraphInv ==
  /\ clock \in Nat
  /\ \A receipt \in issued : ReceiptSound(receipt)
  /\ AcceptedAsAuthorized

LEMMA Fields ==
  ASSUME NEW record, NEW more
  PROVE  /\ DOMAIN With(record, more) = DOMAIN record \cup DOMAIN more
         /\ \A field \in DOMAIN record : With(record, more)[field] = record[field]
         /\ \A field \in DOMAIN more \ DOMAIN record : With(record, more)[field] = more[field]
BY DEF With

LEMMA AuthorizedReceipt ==
  ASSUME NEW draft, NEW tenant, NEW digest, NEW at, NEW until,
         draft = [tenantId |-> tenant, requirementGraphDigest |-> digest,
                  authorizedAt |-> at, expiresAt |-> until],
         Normal(NormalizeTimestamp(at)),
         \A i \in DOMAIN until : Normal(NormalizeTimestamp(until[i]))
  PROVE  ReceiptSound(AuthorizationDraftOf(FinalizeAuthorization(draft)))
<1>1. PICK times : times = Column(until, NormalizeTimestamp)
  OBVIOUS
<1>2. DOMAIN times = DOMAIN until /\ \A i \in DOMAIN until : times[i] = NormalizeTimestamp(until[i])
  BY <1>1 DEF Column
<1>3. PICK payload : payload = [draft EXCEPT !.authorizedAt = NormalizeTimestamp(@),
                                             !.expiresAt = Column(@, NormalizeTimestamp)]
  OBVIOUS
<1>4. /\ DOMAIN payload = ReceiptField
      /\ payload.authorizedAt = NormalizeTimestamp(at)
      /\ payload.expiresAt = times
  BY <1>1, <1>3 DEF ReceiptField
<1>5. PICK more : more = [schemaVersion |-> 1, authorizationDigest |-> payload]
  OBVIOUS
<1>6. DOMAIN more = {"schemaVersion", "authorizationDigest"}
  BY <1>5
<1>7. PICK record : record = With(payload, more)
  OBVIOUS
<1>8. FinalizeAuthorization(draft) = record
  BY <1>3, <1>5, <1>7 DEF FinalizeAuthorization
<1>9. /\ DOMAIN record = ReceiptField \cup {"schemaVersion", "authorizationDigest"}
      /\ \A field \in ReceiptField : record[field] = payload[field]
  BY <1>4, <1>6, <1>7, Fields
<1>10. PICK receipt : receipt = AuthorizationDraftOf(record)
  OBVIOUS
<1>11. DOMAIN receipt = ReceiptField /\ \A field \in ReceiptField : receipt[field] = payload[field]
  BY <1>9, <1>10 DEF AuthorizationDraftOf, ReceiptField
<1>12. receipt.authorizedAt = NormalizeTimestamp(at) /\ receipt.expiresAt = times
  BY <1>4, <1>11 DEF ReceiptField
<1>13. ReceiptSound(receipt)
  BY <1>2, <1>11, <1>12 DEF ReceiptSound
<1> QED
  BY <1>8, <1>10, <1>13

LEMMA NormalWritten ==
  ASSUME NEW instant \in Int, NEW offset \in Int
  PROVE  Normal(NormalizeTimestamp(Written(instant, offset))) /\ Instant(Written(instant, offset)) = instant
BY DEF Normal, NormalizeTimestamp, Written, Instant

LEMMA AuthorizeKeeps ==
  ASSUME GraphInv, NEW offset \in Offset, NEW expiresAt \in Expiry, Authorize(offset, expiresAt)
  PROVE  GraphInv'
<1>1. PICK draft : draft = [tenantId |-> graph.tenantId, requirementGraphDigest |-> graph.requirementGraphDigest,
                            authorizedAt |-> Written(clock, offset), expiresAt |-> expiresAt]
  OBVIOUS
<1>2. /\ issued' = issued \cup {AuthorizationDraftOf(FinalizeAuthorization(draft))}
      /\ clock' = clock /\ accepted' = accepted
  BY <1>1 DEF Authorize
<1>3. Normal(NormalizeTimestamp(Written(clock, offset)))
  BY NormalWritten, GraphAssumption DEF GraphInv
<1>4. \A i \in DOMAIN expiresAt : Normal(NormalizeTimestamp(expiresAt[i]))
  <2>1. CASE expiresAt = << >>
    BY <2>1
  <2>2. ASSUME NEW t \in 1 .. MaxClock, NEW o \in Offset, expiresAt = <<Written(t, o)>>
        PROVE  \A i \in DOMAIN expiresAt : Normal(NormalizeTimestamp(expiresAt[i]))
    <3>1. Normal(NormalizeTimestamp(Written(t, o)))
      BY NormalWritten, GraphAssumption
    <3>2. \A i \in DOMAIN expiresAt : expiresAt[i] = Written(t, o)
      BY <2>2
    <3> QED
      BY <3>1, <3>2
  <2> QED
    BY <2>1, <2>2 DEF Expiry
<1>5. ReceiptSound(AuthorizationDraftOf(FinalizeAuthorization(draft)))
  BY <1>1, <1>3, <1>4, AuthorizedReceipt
<1>6. AcceptedAsAuthorized'
  BY <1>2 DEF GraphInv, AcceptedAsAuthorized
<1> QED
  BY <1>2, <1>5, <1>6 DEF GraphInv, ReceiptSound, Normal

\* The digest of a graph is its content, which finalizes to the graph.
LEMMA DigestSaysGraph ==
  ASSUME NEW g, RequirementGraphIntegrity(g)
  PROVE  FinalizeRequirementGraph(DraftOf(g.requirementGraphDigest)) = g
<1>1. PICK draft : draft = DraftOf(g)
  OBVIOUS
<1>2. PICK normalized : normalized = NormalizeGraphDraft(draft)
  OBVIOUS
<1>3. DOMAIN normalized \cap {"schemaVersion", "requirementScopeDigest", "requirementGraphDigest"} = {}
  BY <1>2 DEF NormalizeGraphDraft, DraftWith
<1>4. PICK scope : scope = [schemaVersion |-> 1, requirementScopeDigest |-> ScopePayload(normalized)]
  OBVIOUS
<1>5. DOMAIN scope = {"schemaVersion", "requirementScopeDigest"}
  BY <1>4
<1>6. PICK payload : payload = With(normalized, scope)
  OBVIOUS
<1>7. PICK digest : digest = [requirementGraphDigest |-> payload]
  OBVIOUS
<1>8. DOMAIN digest = {"requirementGraphDigest"} /\ digest.requirementGraphDigest = payload
  BY <1>7
<1>9. FinalizeRequirementGraph(draft) = With(payload, digest)
  BY <1>2, <1>4, <1>6, <1>7 DEF FinalizeRequirementGraph
<1>10. g = With(payload, digest)
  BY <1>1, <1>9 DEF RequirementGraphIntegrity
<1>11. DOMAIN payload = DOMAIN normalized \cup {"schemaVersion", "requirementScopeDigest"}
  BY <1>5, <1>6 DEF With
<1>12. /\ DOMAIN g = DOMAIN payload \cup {"requirementGraphDigest"}
       /\ \A field \in DOMAIN payload : g[field] = payload[field]
  BY <1>8, <1>10 DEF With
<1>13. g.requirementGraphDigest = payload
  <2>1. "requirementGraphDigest" \notin DOMAIN payload
    BY <1>3, <1>11
  <2> QED
    BY <1>8, <1>10, <2>1 DEF With
<1>14. DraftOf(payload) = DraftOf(g)
  <2>1. DOMAIN payload \ {"schemaVersion", "requirementScopeDigest", "requirementGraphDigest"}
          = DOMAIN g \ {"schemaVersion", "requirementScopeDigest", "requirementGraphDigest"}
    BY <1>12
  <2> QED
    BY <1>12, <2>1 DEF DraftOf
<1> QED
  BY <1>13, <1>14 DEF RequirementGraphIntegrity

\* What is accepted was authorized: the receipt is the one the authorization was issued with.
LEMMA VerifyKeeps ==
  ASSUME GraphInv, NEW offset \in Offset, Verify(offset)
  PROVE  GraphInv'
<1>1. /\ AuthorizationAccepts(authorization, graph, Written(clock, offset))
      /\ accepted' = [graph |-> graph, at |-> clock]
      /\ issued' = issued /\ clock' = clock
  BY DEF Verify
<1>2. PICK receipt \in issued : receipt = AuthorizationDraftOf(authorization)
  BY <1>1 DEF AuthorizationAccepts
<1>3. ReceiptSound(receipt)
  BY DEF GraphInv
<1>4. \A field \in ReceiptField : receipt[field] = authorization[field]
  BY <1>2, <1>3 DEF AuthorizationDraftOf, ReceiptSound
<1>5. /\ receipt.tenantId = authorization.tenantId
      /\ receipt.requirementGraphDigest = authorization.requirementGraphDigest
      /\ receipt.authorizedAt = authorization.authorizedAt
      /\ receipt.expiresAt = authorization.expiresAt
  BY <1>4 DEF ReceiptField
<1>6. /\ receipt.tenantId = graph.tenantId
      /\ receipt.requirementGraphDigest = graph.requirementGraphDigest
  BY <1>1, <1>5 DEF AuthorizationAccepts
<1>7. Instant(Written(clock, offset)) = clock
  BY NormalWritten, GraphAssumption DEF GraphInv
<1>8. \A t : Normal(t) => Instant(t) = t.hour
  BY DEF Normal, Instant, NormalizeTimestamp
<1>9. receipt.authorizedAt.hour <= clock
  BY <1>1, <1>3, <1>5, <1>7, <1>8 DEF AuthorizationAccepts, ReceiptSound
<1>10. \A t \in ToSet(receipt.expiresAt) : clock < t.hour
  BY <1>1, <1>3, <1>5, <1>7, <1>8 DEF AuthorizationAccepts, ReceiptSound, ToSet
<1>11. FinalizeRequirementGraph(DraftOf(receipt.requirementGraphDigest)) = graph
  BY <1>1, <1>6, DigestSaysGraph DEF AuthorizationAccepts
<1>12. receipt.authorizedAt.hour \in Int /\ clock \in Int
  BY <1>3 DEF ReceiptSound, Normal, GraphInv
<1>13. accepted'.graph = graph /\ accepted'.at = clock
  BY <1>1
<1>14. AcceptedAsAuthorized'
  BY <1>1, <1>6, <1>9, <1>10, <1>11, <1>12, <1>13 DEF AcceptedAsAuthorized
<1> QED
  BY <1>1, <1>14 DEF GraphInv

LEMMA GraphStep == GraphInv /\ [GraphNext]_graphVars => GraphInv'
<1> SUFFICES ASSUME GraphInv, [GraphNext]_graphVars PROVE GraphInv'
  OBVIOUS
<1>1. CASE issued' = issued /\ accepted' = accepted /\ clock' \in Nat
  <2>1. AcceptedAsAuthorized'
    BY <1>1 DEF GraphInv, AcceptedAsAuthorized
  <2> QED
    BY <1>1, <2>1 DEF GraphInv
<1>2. CASE \E offset \in Offset, expiresAt \in Expiry : Authorize(offset, expiresAt)
  BY <1>2, AuthorizeKeeps
<1>3. CASE \E offset \in Offset : Verify(offset)
  BY <1>3, VerifyKeeps
<1>4. CASE Begin \/ \E draft \in ToSet(project) : Finalize(draft)
  BY <1>1, <1>4 DEF Begin, Finalize, GraphInv
<1>5. CASE EditGraph \/ EditAuthorization \/ ClockTicks
  BY <1>1, <1>5 DEF EditGraph, EditAuthorization, ClockTicks, GraphInv
<1>6. CASE UNCHANGED graphVars
  BY <1>1, <1>6 DEF graphVars, GraphInv
<1> QED
  BY <1>2, <1>3, <1>4, <1>5, <1>6 DEF GraphNext

\* A graph that is accepted is one the authority was shown, in its project and in its time,
\* whatever the holder does to the records.
THEOREM GraphsAreAuthorized == GraphSpec => []AcceptedAsAuthorized
<1>1. GraphInit => GraphInv
  BY DEF GraphInit, GraphInv, AcceptedAsAuthorized
<1>2. GraphInv => AcceptedAsAuthorized
  BY DEF GraphInv
<1> QED
  BY <1>1, <1>2, GraphStep, PTL DEF GraphSpec

-----------------------------------------------------------------------------
(* The order of the nodes of RequirementGraph.                               *)

\* A sequence that holds some numbers in their order.
Ascends(r, S) ==
  /\ r \in Seq(Nat) /\ ToSet(r) = S
  /\ \A i, j \in DOMAIN r : i < j => r[i] < r[j]

LEMMA PlaceIs ==
  ASSUME NEW S, S \subseteq Nat, IsFiniteSet(S), NEW x \in S
  PROVE  /\ Place(x, S) \in 1 .. Cardinality(S)
         /\ \A y \in S : y < x => Place(y, S) < Place(x, S)
<1>1. PICK below : below = {z \in S : z <= x}
  OBVIOUS
<1>2. below \in SUBSET S /\ x \in below
  BY <1>1
<1>3. /\ IsFiniteSet(below) /\ Cardinality(below) <= Cardinality(S)
  BY <1>2, FS_Subset
<1>4. Cardinality(below) \in Nat /\ Cardinality(S) \in Nat /\ Cardinality(below) # 0
  BY <1>2, <1>3, FS_CardinalityType, FS_EmptySet
<1>5. Place(x, S) = Cardinality(below)
  BY <1>1 DEF Place
<1>6. ASSUME NEW y \in S, y < x PROVE Place(y, S) < Place(x, S)
  <2>1. PICK least : least = {z \in S : z <= y}
    OBVIOUS
  <2>2. least \in SUBSET below /\ x \notin least
    <3>1. ASSUME NEW z \in S, z <= y PROVE z <= x /\ z # x
      <4>1. x \in Nat /\ y \in Nat /\ z \in Nat
        OBVIOUS
      <4> QED
        BY <1>6, <3>1, <4>1
    <3> QED
      BY <1>1, <2>1, <3>1
  <2>3. Cardinality(least) <= Cardinality(below) /\ IsFiniteSet(least) /\ Cardinality(least) # Cardinality(below)
    BY <1>2, <1>3, <2>2, FS_Subset
  <2>4. Cardinality(least) \in Nat
    BY <2>3, FS_CardinalityType
  <2>5. Place(y, S) = Cardinality(least)
    BY <2>1 DEF Place
  <2> QED
    BY <1>4, <1>5, <2>3, <2>4, <2>5
<1> QED
  BY <1>3, <1>4, <1>5, <1>6

LEMMA InOrderAscends ==
  ASSUME NEW S, S \subseteq Nat, IsFiniteSet(S)
  PROVE  Ascends(InOrder(S), S) /\ Len(InOrder(S)) = Cardinality(S)
<1>1. PICK n \in Nat : n = Cardinality(S)
  BY FS_CardinalityType
<1>2. PICK place : place = [x \in S |-> Place(x, S)]
  OBVIOUS
<1>3. place \in [S -> 1 .. n] /\ \A x, y \in S : y < x => place[y] < place[x]
  <2>1. ASSUME NEW x \in S PROVE place[x] \in 1 .. n /\ \A y \in S : y < x => place[y] < place[x]
    BY <1>1, <1>2, <2>1, PlaceIs
  <2> QED
    BY <1>2, <2>1
<1>4. \A x, y \in S : place[x] = place[y] => x = y
  BY <1>3
<1>5. \A i \in 1 .. n : \E x \in S : place[x] = i
  <2>1. IsFiniteSet(1 .. n) /\ Cardinality(1 .. n) = n
    BY FS_Interval
  <2>2. place \in Injection(S, 1 .. n)
    BY <1>3, <1>4 DEF Injection, IsInjective
  <2>3. place \in Surjection(S, 1 .. n)
    BY <1>1, <2>1, <2>2, FS_Injection
  <2> QED
    BY <2>3 DEF Surjection
<1>6. PICK r : r = InOrder(S)
  OBVIOUS
<1>7. DOMAIN r = 1 .. n /\ \A i \in 1 .. n : r[i] = CHOOSE x \in S : Place(x, S) = i
  BY <1>1, <1>6 DEF InOrder
<1>8. \A i \in 1 .. n : r[i] \in S /\ place[r[i]] = i
  <2>1. ASSUME NEW i \in 1 .. n PROVE r[i] \in S /\ place[r[i]] = i
    <3>1. \E x \in S : Place(x, S) = i
      BY <1>2, <1>5
    <3> QED
      BY <1>2, <1>7, <3>1
  <2> QED
    BY <2>1
<1>9. r \in Seq(Nat) /\ Len(r) = n
  <2>1. r = [i \in 1 .. n |-> r[i]]
    BY <1>1, <1>6 DEF InOrder
  <2> QED
    BY <1>8, <2>1
<1>10. ToSet(r) = S
  <2>1. DOMAIN r = 1 .. n
    BY <1>7
  <2>2. ASSUME NEW x \in S PROVE x \in ToSet(r)
    <3>1. PICK i \in 1 .. n : i = place[x]
      BY <1>3
    <3>2. r[i] \in S /\ place[r[i]] = place[x]
      BY <1>8, <3>1
    <3>3. r[i] = x
      BY <1>4, <3>2
    <3> QED
      BY <2>1, <3>1, <3>3 DEF ToSet
  <2>3. ASSUME NEW x \in ToSet(r) PROVE x \in S
    <3>1. PICK i \in 1 .. n : r[i] = x
      BY <2>1, <2>3 DEF ToSet
    <3> QED
      BY <1>8, <3>1
  <2> QED
    BY <2>2, <2>3
<1>11. ASSUME NEW i \in 1 .. n, NEW j \in 1 .. n, i < j PROVE r[i] < r[j]
  <2>1. r[i] \in Nat /\ r[j] \in Nat /\ r[i] \in S /\ r[j] \in S
    BY <1>8
  <2>2. place[r[i]] = i /\ place[r[j]] = j
    BY <1>8
  <2> QED
    BY <1>3, <1>11, <2>1, <2>2
<1> QED
  BY <1>1, <1>6, <1>7, <1>9, <1>10, <1>11 DEF Ascends

\* What a sequence holds is finite, and as many as it is long if nothing is in it twice.
LEMMA SequenceFinite ==
  ASSUME NEW C, NEW s \in Seq(C)
  PROVE  /\ IsFiniteSet(ToSet(s)) /\ ToSet(s) \subseteq C
         /\ IsInjective(s) <=> Cardinality(ToSet(s)) = Len(s)
<1>1. PICK n \in Nat : n = Len(s) /\ DOMAIN s = 1 .. n
  OBVIOUS
<1>2. IsFiniteSet(1 .. n) /\ Cardinality(1 .. n) = n
  BY FS_Interval
<1>3. s \in Surjection(1 .. n, ToSet(s))
  BY <1>1 DEF Surjection, ToSet
<1>4. /\ IsFiniteSet(ToSet(s))
      /\ Cardinality(ToSet(s)) = Cardinality(1 .. n) <=> s \in Injection(1 .. n, ToSet(s))
  BY <1>2, <1>3, FS_Surjection
<1>5. IsInjective(s) <=> s \in Injection(1 .. n, ToSet(s))
  BY <1>1 DEF Injection, ToSet
<1> QED
  BY <1>1, <1>2, <1>4, <1>5 DEF ToSet

LEMMA SortedAscends ==
  ASSUME NEW s \in Seq(Nat)
  PROVE  Ascends(Sorted(s), ToSet(s))
<1>1. IsFiniteSet(ToSet(s)) /\ ToSet(s) \subseteq Nat
  BY SequenceFinite
<1> QED
  BY <1>1, InOrderAscends DEF Sorted

\* The first of numbers in their order is the least, and the rest are in their order.
LEMMA LeastFirst ==
  ASSUME NEW r, NEW S, Ascends(r, S), r # << >>
  PROVE  /\ Head(r) \in S /\ \A x \in S : Head(r) <= x
         /\ Ascends(Tail(r), S \ {Head(r)})
<1>1. PICK n \in Nat : n = Len(r) /\ DOMAIN r = 1 .. n /\ n # 0
  BY DEF Ascends
<1>2. /\ \A i \in 1 .. n : r[i] \in Nat
      /\ \A i, j \in 1 .. n : i < j => r[i] < r[j]
      /\ S = {r[i] : i \in 1 .. n}
  BY <1>1 DEF Ascends, ToSet
<1>3. Head(r) = r[1] /\ 1 \in 1 .. n
  BY <1>1 DEF Ascends
<1>4. \A i \in 1 .. n : i = 1 \/ r[1] < r[i]
  BY <1>2, <1>3
<1>5. PICK t : t = Tail(r)
  OBVIOUS
<1>6. t \in Seq(Nat) /\ Len(t) = n - 1 /\ \A i \in 1 .. n - 1 : t[i] = r[i + 1]
  BY <1>1, <1>5 DEF Ascends
<1>7. DOMAIN t = 1 .. n - 1
  BY <1>6
<1>8. \A i, j \in 1 .. n - 1 : i < j => t[i] < t[j]
  <2>1. ASSUME NEW i \in 1 .. n - 1, NEW j \in 1 .. n - 1, i < j PROVE t[i] < t[j]
    <3>1. i + 1 \in 1 .. n /\ j + 1 \in 1 .. n /\ i + 1 < j + 1
      BY <1>1, <2>1
    <3> QED
      BY <1>2, <1>6, <3>1
  <2> QED
    BY <2>1
<1>9. ToSet(t) = S \ {r[1]}
  <2>1. ASSUME NEW x \in ToSet(t) PROVE x \in S \ {r[1]}
    <3>1. PICK i \in 1 .. n - 1 : x = t[i]
      BY <1>7, <2>1 DEF ToSet
    <3>2. i + 1 \in 1 .. n /\ i + 1 # 1 /\ x = r[i + 1]
      BY <1>1, <1>6, <3>1
    <3> QED
      BY <1>2, <1>3, <1>4, <3>2
  <2>2. ASSUME NEW x \in S \ {r[1]} PROVE x \in ToSet(t)
    <3>1. PICK i \in 1 .. n : x = r[i]
      BY <1>2, <2>2
    <3>2. i - 1 \in 1 .. n - 1 /\ i = (i - 1) + 1
      BY <1>1, <2>2, <3>1
    <3>3. x = t[i - 1]
      BY <1>6, <3>1, <3>2
    <3> QED
      BY <1>7, <3>2, <3>3 DEF ToSet
  <2> QED
    BY <2>1, <2>2
<1>10. Ascends(t, S \ {r[1]})
  BY <1>6, <1>7, <1>8, <1>9 DEF Ascends
<1> QED
  BY <1>2, <1>3, <1>4, <1>5, <1>10
\* Nodes that are in order have one node for each of their ids.
LEMMA NodesHaveIds ==
  ASSUME NEW nodes, AreListed(nodes), AreNodes(nodes)
  PROVE  /\ NodeIds(nodes) \subseteq Nat /\ IsFiniteSet(NodeIds(nodes))
         /\ Cardinality(NodeIds(nodes)) = Len(nodes) /\ Len(nodes) \in Nat
         /\ NodeIds(nodes) = {node.id : node \in ToSet(nodes)}
         /\ \A node \in ToSet(nodes) : node.id \in NodeIds(nodes) /\ ById(nodes, node.id) = node
         /\ \A x \in NodeIds(nodes) : ById(nodes, x) \in ToSet(nodes) /\ ById(nodes, x).id = x
<1>1. PICK n \in Nat : n = Len(nodes) /\ DOMAIN nodes = 1 .. n
  BY DEF AreListed
<1>2. PICK ids : ids = Ids(nodes)
  OBVIOUS
<1>3. DOMAIN ids = 1 .. n /\ \A i \in 1 .. n : ids[i] = nodes[i].id
  BY <1>1, <1>2 DEF Ids, Column
<1>4. \A i \in 1 .. n : nodes[i] \in ToSet(nodes)
  BY <1>1 DEF ToSet
<1>5. \A i \in 1 .. n : ids[i] \in Nat
  BY <1>3, <1>4 DEF AreListed
<1>6. ids \in Seq(Nat) /\ Len(ids) = n
  <2>1. ids = [i \in 1 .. n |-> ids[i]]
    BY <1>1, <1>2 DEF Ids, Column
  <2> QED
    BY <1>5, <2>1
<1>7. IsInjective(ids)
  BY <1>2 DEF AreNodes, IsStringSet
<1>8. NodeIds(nodes) = ToSet(ids)
  BY <1>2 DEF NodeIds
<1>9. NodeIds(nodes) \subseteq Nat /\ IsFiniteSet(NodeIds(nodes)) /\ Cardinality(NodeIds(nodes)) = n
  BY <1>6, <1>7, <1>8, SequenceFinite
<1>10. ToSet(ids) = {ids[i] : i \in 1 .. n} /\ ToSet(nodes) = {nodes[i] : i \in 1 .. n}
  BY <1>1, <1>3 DEF ToSet
<1>11. NodeIds(nodes) = {node.id : node \in ToSet(nodes)}
  BY <1>3, <1>8, <1>10
<1>12. ASSUME NEW i \in 1 .. n PROVE ById(nodes, nodes[i].id) = nodes[i]
  <2>1. PICK x : x = nodes[i].id
    OBVIOUS
  <2>2. \A j \in 1 .. n : nodes[j].id = x => j = i
    BY <1>3, <1>7, <2>1 DEF IsInjective
  <2>3. (CHOOSE j \in 1 .. n : nodes[j].id = x) = i
    BY <2>1, <2>2
  <2> QED
    BY <1>1, <2>1, <2>3 DEF ById
<1>13. ASSUME NEW node \in ToSet(nodes) PROVE ById(nodes, node.id) = node
  BY <1>10, <1>12
<1> QED
  BY <1>1, <1>9, <1>11, <1>13

-----------------------------------------------------------------------------
\* What each node depends on, by id.
Depends(nodes) == [x \in NodeIds(nodes) |-> ToSet(ById(nodes, x).dependsOn)]

IsDependence(D) == /\ DOMAIN D \subseteq Nat /\ IsFiniteSet(DOMAIN D)
                   /\ \A x \in DOMAIN D : D[x] \subseteq DOMAIN D
Waiting(D, id) == {x \in DOMAIN D : id \in D[x]}
Takeable(D, taken) == {x \in DOMAIN D \ taken : D[x] \subseteq taken}

LEMMA DependsIs ==
  ASSUME NEW nodes, AreListed(nodes), AreNodes(nodes)
  PROVE  LET D == Depends(nodes)
         IN  /\ DOMAIN D = NodeIds(nodes) /\ IsDependence(D)
             /\ \A id \in DOMAIN D : Dependents(nodes, id) = InOrder(Waiting(D, id))
             /\ Start(nodes) = [ready |-> InOrder(Takeable(D, {})),
                                indegree |-> [x \in DOMAIN D |-> Cardinality(D[x])], ordered |-> << >>]
<1>1. PICK D : D = Depends(nodes)
  OBVIOUS
<1>2. PICK I : I = NodeIds(nodes)
  OBVIOUS
<1>3. DOMAIN D = I /\ \A x \in I : D[x] = ToSet(ById(nodes, x).dependsOn)
  BY <1>1, <1>2 DEF Depends
<1>4. /\ I \subseteq Nat /\ IsFiniteSet(I) /\ I = {node.id : node \in ToSet(nodes)}
      /\ \A node \in ToSet(nodes) : node.id \in I /\ ById(nodes, node.id) = node
      /\ \A x \in I : ById(nodes, x) \in ToSet(nodes) /\ ById(nodes, x).id = x
  BY <1>2, NodesHaveIds
<1>5. \A node \in ToSet(nodes) : /\ ToSet(node.dependsOn) \subseteq I /\ IsInjective(node.dependsOn)
                                 /\ node.dependsOn \in Seq(Nat)
  BY <1>2 DEF AreNodes, IsStringSet, AreListed
<1>6. \A x \in I : D[x] \subseteq I
  <2>1. ASSUME NEW x \in I PROVE D[x] \subseteq I
    <3>1. PICK node \in ToSet(nodes) : node = ById(nodes, x)
      BY <1>4
    <3>2. D[x] = ToSet(node.dependsOn)
      BY <1>3, <3>1
    <3> QED
      BY <1>5, <3>2
  <2> QED
    BY <2>1
<1>7. IsDependence(D)
  BY <1>3, <1>4, <1>6 DEF IsDependence
<1>8. ASSUME NEW id \in I PROVE Dependents(nodes, id) = InOrder(Waiting(D, id))
  <2>1. {node.id : node \in {node \in ToSet(nodes) : id \in ToSet(node.dependsOn)}} = Waiting(D, id)
    <3>1. \A node \in ToSet(nodes) : id \in ToSet(node.dependsOn) <=> id \in D[node.id]
      BY <1>3, <1>4
    <3>2. Waiting(D, id) = {x \in I : id \in D[x]}
      BY <1>3 DEF Waiting
    <3> QED
      BY <1>4, <3>1, <3>2
  <2> QED
    BY <2>1 DEF Dependents
<1>9. {node.id : node \in {node \in ToSet(nodes) : node.dependsOn = << >>}} = Takeable(D, {})
  <2>1. \A s \in Seq(Nat) : s = << >> <=> ToSet(s) = {}
    <3>1. ASSUME NEW s \in Seq(Nat) PROVE s = << >> <=> ToSet(s) = {}
      <4>1. s # << >> => 1 \in DOMAIN s
        OBVIOUS
      <4>2. s = << >> => DOMAIN s = {}
        OBVIOUS
      <4> QED
        BY <4>1, <4>2 DEF ToSet
    <3> QED
      BY <3>1
  <2>2. \A node \in ToSet(nodes) : node.dependsOn = << >> <=> D[node.id] = {}
    <3>1. ASSUME NEW node \in ToSet(nodes) PROVE node.dependsOn = << >> <=> D[node.id] = {}
      <4>1. PICK s \in Seq(Nat) : s = node.dependsOn
        BY <1>5
      <4>2. PICK x \in I : x = node.id /\ ById(nodes, x) = node
        BY <1>4
      <4>3. D[x] = ToSet(s)
        BY <1>3, <4>1, <4>2
      <4> QED
        BY <2>1, <4>1, <4>2, <4>3
    <3> QED
      BY <3>1
  <2>3. Takeable(D, {}) = {x \in I : D[x] = {}}
    BY <1>3 DEF Takeable
  <2> QED
    BY <1>4, <2>2, <2>3
<1>10. ASSUME NEW x \in I PROVE Len(ById(nodes, x).dependsOn) = Cardinality(D[x])
  <2>1. PICK s \in Seq(Nat) : s = ById(nodes, x).dependsOn
    BY <1>4, <1>5
  <2>2. IsInjective(s) /\ D[x] = ToSet(s)
    BY <1>3, <1>4, <1>5, <2>1
  <2> QED
    BY <2>1, <2>2, SequenceFinite
<1>11. [id \in NodeIds(nodes) |-> Len(ById(nodes, id).dependsOn)] = [x \in I |-> Cardinality(D[x])]
  BY <1>2, <1>10
<1>12. Start(nodes) = [ready |-> InOrder(Takeable(D, {})), indegree |-> [x \in I |-> Cardinality(D[x])], ordered |-> << >>]
  BY <1>9, <1>11 DEF Start
<1> QED
  BY <1>1, <1>2, <1>3, <1>7, <1>8, <1>12
-----------------------------------------------------------------------------
\* A state of the loop, and what it has taken so far.
OrderStates(I) == [ready : Seq(Nat), indegree : [I -> Int], ordered : Seq(Nat)]
Leading(s, k) == {s[j] : j \in 1 .. k}

\* One dependency less for a node.
IsFreed(u, s, x, I) ==
  /\ u \in OrderStates(I) /\ u.ordered = s.ordered
  /\ \A y \in I : u.indegree[y] = IF y = x THEN s.indegree[y] - 1 ELSE s.indegree[y]
  /\ s.indegree[x] = 1 => Ascends(u.ready, ToSet(s.ready) \cup {x})
  /\ s.indegree[x] # 1 => u.ready = s.ready

LEMMA FreedIs ==
  ASSUME NEW I, I \subseteq Nat, NEW s \in OrderStates(I), NEW x \in I
  PROVE  IsFreed(Freed(s, x), s, x, I)
<1>1. /\ s.ready \in Seq(Nat) /\ s.indegree \in [I -> Int] /\ s.ordered \in Seq(Nat)
      /\ s = [ready |-> s.ready, indegree |-> s.indegree, ordered |-> s.ordered]
  BY DEF OrderStates
<1>2. PICK next \in Int : next = s.indegree[x] - 1
  BY <1>1
<1>3. PICK r : r = IF next = 0 THEN Sorted(Append(s.ready, x)) ELSE s.ready
  OBVIOUS
<1>4. PICK d : d = [s.indegree EXCEPT ![x] = next]
  OBVIOUS
<1>5. Freed(s, x) = [ready |-> r, indegree |-> d, ordered |-> s.ordered]
  BY <1>2, <1>3, <1>4 DEF Freed
<1>6. Append(s.ready, x) \in Seq(Nat) /\ ToSet(Append(s.ready, x)) = ToSet(s.ready) \cup {x}
  <2>1. PICK q \in Seq(Nat) : q = s.ready
    BY <1>1
  <2>2. PICK a : a = Append(q, x)
    OBVIOUS
  <2>3. PICK n \in Nat : n = Len(q) /\ DOMAIN q = 1 .. n
    OBVIOUS
  <2>4. a \in Seq(Nat) /\ Len(a) = n + 1 /\ a[n + 1] = x /\ \A i \in 1 .. n : a[i] = q[i]
    BY <2>2, <2>3
  <2>5. DOMAIN a = 1 .. n + 1
    BY <2>4
  <2>6. ASSUME NEW y \in ToSet(a) PROVE y \in ToSet(q) \cup {x}
    <3>1. PICK i \in 1 .. n + 1 : y = a[i]
      BY <2>5, <2>6 DEF ToSet
    <3>2. i = n + 1 \/ i \in 1 .. n
      OBVIOUS
    <3> QED
      BY <2>3, <2>4, <3>1, <3>2 DEF ToSet
  <2>7. ASSUME NEW y \in ToSet(q) \cup {x} PROVE y \in ToSet(a)
    <3>1. CASE y = x
      <4>1. n + 1 \in DOMAIN a
        BY <2>5
      <4> QED
        BY <2>4, <3>1, <4>1 DEF ToSet
    <3>2. CASE y \in ToSet(q)
      <4>1. PICK i \in 1 .. n : y = q[i]
        BY <2>3, <3>2 DEF ToSet
      <4>2. i \in DOMAIN a /\ a[i] = y
        BY <2>4, <2>5, <4>1
      <4> QED
        BY <4>2 DEF ToSet
    <3> QED
      BY <2>7, <3>1, <3>2
  <2> QED
    BY <2>1, <2>2, <2>4, <2>6, <2>7
<1>7. Ascends(Sorted(Append(s.ready, x)), ToSet(s.ready) \cup {x})
  BY <1>6, SortedAscends
<1>8. r \in Seq(Nat)
  BY <1>1, <1>3, <1>7 DEF Ascends
<1>9. d \in [I -> Int] /\ \A y \in I : d[y] = IF y = x THEN next ELSE s.indegree[y]
  BY <1>1, <1>2, <1>4
<1>10. Freed(s, x) \in OrderStates(I)
  BY <1>1, <1>5, <1>8, <1>9 DEF OrderStates
<1>11. ASSUME s.indegree[x] = 1 PROVE Ascends(r, ToSet(s.ready) \cup {x})
  BY <1>2, <1>3, <1>7, <1>11
<1>12. ASSUME s.indegree[x] # 1 PROVE r = s.ready
  BY <1>1, <1>2, <1>3, <1>12
<1> QED
  BY <1>2, <1>5, <1>9, <1>10, <1>11, <1>12 DEF IsFreed
\* How many of a node's dependencies are left when one more is taken.
LEMMA OneLess ==
  ASSUME NEW S, IsFiniteSet(S), NEW taken, NEW id
  PROVE  /\ Cardinality(S \ taken) \in Nat
         /\ id \in S \ taken => /\ Cardinality(S \ (taken \cup {id})) = Cardinality(S \ taken) - 1
                                /\ Cardinality(S \ taken) = 1 <=> S \subseteq taken \cup {id}
         /\ id \notin S => Cardinality(S \ (taken \cup {id})) = Cardinality(S \ taken)
<1>1. PICK left : left = S \ taken
  OBVIOUS
<1>2. IsFiniteSet(left) /\ Cardinality(left) \in Nat
  <2>1. left \subseteq S
    BY <1>1
  <2> QED
    BY <2>1, FS_Subset, FS_CardinalityType
<1>3. S \ (taken \cup {id}) = left \ {id}
  BY <1>1
<1>4. ASSUME id \in left
      PROVE  /\ Cardinality(left \ {id}) = Cardinality(left) - 1
             /\ Cardinality(left) = 1 <=> S \subseteq taken \cup {id}
  <2>1. Cardinality(left \ {id}) = Cardinality(left) - 1 /\ IsFiniteSet(left \ {id})
    BY <1>2, <1>4, FS_RemoveElement
  <2>2. Cardinality(left \ {id}) = 0 <=> left \ {id} = {}
    BY <2>1, FS_EmptySet
  <2>3. left \ {id} = {} <=> S \subseteq taken \cup {id}
    BY <1>1
  <2> QED
    BY <1>2, <2>1, <2>2, <2>3
<1>5. id \notin S => left \ {id} = left
  BY <1>1
<1> QED
  BY <1>1, <1>2, <1>3, <1>4, <1>5

\* The order so far takes, each time, the first of what is free; and the state of the
\* loop says what is free now, and how many dependencies of each node are left.
Greedy(D, order) ==
  \A i \in DOMAIN order : /\ order[i] \in Takeable(D, Leading(order, i - 1))
                          /\ \A x \in Takeable(D, Leading(order, i - 1)) : order[i] <= x
InLine(D, s) ==
  /\ s \in OrderStates(DOMAIN D)
  /\ s.ordered \in Seq(DOMAIN D) /\ Greedy(D, s.ordered)
  /\ \A x \in DOMAIN D : s.indegree[x] = Cardinality(D[x] \ ToSet(s.ordered))
  /\ Ascends(s.ready, Takeable(D, ToSet(s.ordered)))

\* What was taken depends on what was taken before it, and nothing is taken twice.
LEMMA GreedyIsClosed ==
  ASSUME NEW D, NEW order \in Seq(DOMAIN D), Greedy(D, order)
  PROVE  /\ \A x \in ToSet(order) : D[x] \subseteq ToSet(order)
         /\ IsInjective(order)
<1>1. PICK n \in Nat : n = Len(order) /\ DOMAIN order = 1 .. n
  OBVIOUS
<1>2. ToSet(order) = {order[i] : i \in 1 .. n}
  BY <1>1 DEF ToSet
<1>3. ASSUME NEW i \in 1 .. n
      PROVE  /\ D[order[i]] \subseteq {order[j] : j \in 1 .. i - 1}
             /\ \A j \in 1 .. i - 1 : order[i] # order[j]
  BY <1>1 DEF Greedy, Takeable, Leading
<1>4. \A x \in ToSet(order) : D[x] \subseteq ToSet(order)
  <2>1. ASSUME NEW i \in 1 .. n PROVE D[order[i]] \subseteq ToSet(order)
    <3>1. 1 .. i - 1 \subseteq 1 .. n
      BY <1>1
    <3> QED
      BY <1>2, <1>3, <3>1
  <2> QED
    BY <1>2, <2>1
<1>5. ASSUME NEW i \in 1 .. n, NEW j \in 1 .. n, order[i] = order[j] PROVE i = j
  <2>1. i < j => i \in 1 .. j - 1
    OBVIOUS
  <2>2. j < i => j \in 1 .. i - 1
    OBVIOUS
  <2>3. ~(i < j) /\ ~(j < i)
    BY <1>3, <1>5, <2>1, <2>2
  <2> QED
    BY <2>3
<1> QED
  BY <1>1, <1>4, <1>5 DEF IsInjective

\* Where the loop over the dependents is after the first k of them.
Freeing(D, taken, id, order, next, k, t) ==
  /\ t \in OrderStates(DOMAIN D) /\ t.ordered = order
  /\ \A x \in DOMAIN D : t.indegree[x] =
       Cardinality(D[x] \ (IF x \in Leading(next, k) THEN taken \cup {id} ELSE taken))
  /\ Ascends(t.ready, (Takeable(D, taken) \ {id}) \cup {x \in Leading(next, k) : D[x] \subseteq taken \cup {id}})

LEMMA FreedStep ==
  ASSUME NEW D, IsDependence(D), NEW taken, NEW id, id \notin taken, NEW order,
         NEW next \in Seq(DOMAIN D), IsInjective(next), ToSet(next) = Waiting(D, id),
         NEW k \in Nat, k + 1 \in DOMAIN next, NEW t, Freeing(D, taken, id, order, next, k, t)
  PROVE  Freeing(D, taken, id, order, next, k + 1, Freed(t, next[k + 1]))
<1>1. PICK I : I = DOMAIN D
  OBVIOUS
<1>2. I \subseteq Nat /\ \A x \in I : IsFiniteSet(D[x])
  <2>1. ASSUME NEW x \in I PROVE IsFiniteSet(D[x])
    BY <1>1, FS_Subset DEF IsDependence
  <2> QED
    BY <1>1, <2>1 DEF IsDependence
<1>3. PICK n \in Nat : n = Len(next) /\ DOMAIN next = 1 .. n /\ k + 1 <= n
  OBVIOUS
<1>4. PICK x \in I : x = next[k + 1]
  BY <1>1
<1>5. id \in D[x] \ taken
  BY <1>3, <1>4 DEF ToSet, Waiting
<1>6. PICK seen : seen = Leading(next, k)
  OBVIOUS
<1>7. x \notin seen /\ Leading(next, k + 1) = seen \cup {x}
  <2>1. \A j \in 1 .. k : next[j] # next[k + 1]
    BY <1>3 DEF IsInjective
  <2>2. 1 .. k + 1 = 1 .. k \cup {k + 1}
    OBVIOUS
  <2> QED
    BY <1>4, <1>6, <2>1, <2>2 DEF Leading
<1>8. /\ t \in OrderStates(I) /\ t.ordered = order
      /\ \A y \in I : t.indegree[y] = Cardinality(D[y] \ (IF y \in seen THEN taken \cup {id} ELSE taken))
  BY <1>1, <1>6 DEF Freeing
<1>9. PICK S : S = (Takeable(D, taken) \ {id}) \cup {y \in seen : D[y] \subseteq taken \cup {id}}
  OBVIOUS
<1>10. Ascends(t.ready, S)
  BY <1>6, <1>9 DEF Freeing
<1>11. PICK u : u = Freed(t, x)
  OBVIOUS
<1>12. /\ u \in OrderStates(I) /\ u.ordered = t.ordered
       /\ \A y \in I : u.indegree[y] = IF y = x THEN t.indegree[y] - 1 ELSE t.indegree[y]
       /\ t.indegree[x] = 1 => Ascends(u.ready, S \cup {x})
       /\ t.indegree[x] # 1 => u.ready = t.ready
  <2>1. I \subseteq Nat /\ t \in OrderStates(I)
    BY <1>2, <1>8
  <2>2. /\ u \in OrderStates(I) /\ u.ordered = t.ordered
        /\ \A y \in I : u.indegree[y] = IF y = x THEN t.indegree[y] - 1 ELSE t.indegree[y]
        /\ t.indegree[x] = 1 => Ascends(u.ready, ToSet(t.ready) \cup {x})
        /\ t.indegree[x] # 1 => u.ready = t.ready
    <3>1. IsFreed(Freed(t, x), t, x, I)
      BY <2>1, FreedIs
    <3> QED
      BY <1>11, <3>1 DEF IsFreed
  <2>3. S = ToSet(t.ready)
    BY <1>10 DEF Ascends
  <2> QED
    BY <2>2, <2>3
<1>13. t.indegree[x] = Cardinality(D[x] \ taken)
  BY <1>7, <1>8
<1>14. /\ Cardinality(D[x] \ (taken \cup {id})) = t.indegree[x] - 1
       /\ t.indegree[x] = 1 <=> D[x] \subseteq taken \cup {id}
  <2>1. PICK needs : needs = D[x]
    OBVIOUS
  <2>2. IsFiniteSet(needs)
    BY <1>2, <2>1
  <2>3. /\ Cardinality(needs \ (taken \cup {id})) = Cardinality(needs \ taken) - 1
        /\ Cardinality(needs \ taken) = 1 <=> needs \subseteq taken \cup {id}
    BY <1>5, <2>1, <2>2, OneLess
  <2> QED
    BY <1>13, <2>1, <2>3
<1>15. ASSUME NEW y \in I
       PROVE  u.indegree[y] = Cardinality(D[y] \ (IF y \in seen \cup {x} THEN taken \cup {id} ELSE taken))
  <2>1. CASE y = x
    BY <1>12, <1>14, <2>1
  <2>2. CASE y # x
    BY <1>8, <1>12, <2>2
  <2> QED
    BY <2>1, <2>2
<1>16. Ascends(u.ready, (Takeable(D, taken) \ {id}) \cup {y \in seen \cup {x} : D[y] \subseteq taken \cup {id}})
  <2>1. CASE t.indegree[x] = 1
    <3>1. S \cup {x} = (Takeable(D, taken) \ {id}) \cup {y \in seen \cup {x} : D[y] \subseteq taken \cup {id}}
      BY <1>9, <1>14, <2>1
    <3> QED
      BY <1>12, <2>1, <3>1
  <2>2. CASE t.indegree[x] # 1
    <3>1. S = (Takeable(D, taken) \ {id}) \cup {y \in seen \cup {x} : D[y] \subseteq taken \cup {id}}
      BY <1>9, <1>14, <2>2
    <3> QED
      BY <1>10, <1>12, <2>2, <3>1
  <2> QED
    BY <2>1, <2>2
<1> QED
  BY <1>1, <1>4, <1>7, <1>8, <1>11, <1>12, <1>15, <1>16 DEF Freeing
\* The loop over the dependents of a node, one by one.
FreeLoop(loop, start, next) ==
  /\ loop[0] = start
  /\ \A i \in 1 .. Len(next) : loop[i] = Freed(loop[i - 1], next[i])

Taken(s) == [ready |-> Tail(s.ready), indegree |-> s.indegree, ordered |-> Append(s.ordered, Head(s.ready))]

MayTake(nodes, s, next, I) ==
  /\ I \subseteq Nat /\ s.ready # << >> /\ Taken(s) \in OrderStates(I)
  /\ next = Dependents(nodes, Head(s.ready)) /\ next \in Seq(I)
TakesBy(loop, nodes, s, next) == FreeLoop(loop, Taken(s), next) /\ Take(nodes, s) = loop[Len(next)]

LEMMA TakeLoops ==
  ASSUME NEW I, NEW nodes, NEW s, NEW next, MayTake(nodes, s, next, I)
  PROVE  \E loop : TakesBy(loop, nodes, s, next)
<1>1. /\ I \subseteq Nat /\ s.ready # << >> /\ Taken(s) \in OrderStates(I)
       /\ next = Dependents(nodes, Head(s.ready)) /\ next \in Seq(I)
  BY DEF MayTake
<1>2. PICK n \in Nat : n = Len(next) /\ DOMAIN next = 1 .. n
  BY <1>1
<1>3. \A i \in 1 .. n : next[i] \in I
  <2>1. PICK q \in Seq(I) : q = next
    BY <1>1
  <2>2. \A i \in DOMAIN q : q[i] \in I
    OBVIOUS
  <2> QED
    BY <1>2, <2>1, <2>2
<1>4. PICK start : start = Taken(s)
  OBVIOUS
<1>5. PICK S : S = OrderStates(I)
  OBVIOUS
<1>6. PICK step : step = [i \in 1 .. n |-> [t \in S |-> Freed(t, next[i])]]
  OBVIOUS
<1>7. StepsIn(step, S, n)
  <2>1. ASSUME NEW i \in 1 .. n, NEW t \in S PROVE Freed(t, next[i]) \in S
    <3>1. PICK x \in I : x = next[i]
      BY <1>3
    <3>2. t \in OrderStates(I)
      BY <1>5
    <3>3. Freed(t, x) \in OrderStates(I)
      BY <1>1, <3>2, FreedIs DEF IsFreed
    <3> QED
      BY <1>5, <3>1, <3>3
  <2> QED
    BY <1>6, <2>1 DEF StepsIn
<1>8. start \in S
  BY <1>4, <1>5, <1>1
<1>9. PICK f : Computes(f, S, start, step, n)
  BY <1>7, <1>8, Recursion
<1>10. ASSUME NEW i \in 1 .. n PROVE f[i] = Freed(f[i - 1], next[i])
  <2>1. f[i - 1] \in S /\ f[i] = step[i][f[i - 1]]
    BY <1>9 DEF Computes
  <2> QED
    BY <1>6, <2>1
<1>11. PICK g : g = [k \in 0 .. n |-> IF k = 0 THEN start ELSE Freed(f[k - 1], next[k])]
  OBVIOUS
<1>12. f = g
  <2>1. ASSUME NEW i \in 0 .. n PROVE f[i] = g[i]
    BY <1>9, <1>10, <1>11 DEF Computes
  <2> QED
    BY <1>9, <1>11, <2>1 DEF Computes
<1>13. PICK h : h = CHOOSE c : c = [k \in 0 .. n |-> IF k = 0 THEN start ELSE Freed(c[k - 1], next[k])]
  OBVIOUS
<1>14. h = [k \in 0 .. n |-> IF k = 0 THEN start ELSE Freed(h[k - 1], next[k])]
  BY <1>11, <1>12, <1>13
<1>15. Take(nodes, s) = h[n]
  BY <1>2, <1>4, <1>13, <1>1 DEF Take, Taken
<1>16. h[0] = start
  BY <1>14
<1>17. ASSUME NEW i \in 1 .. n PROVE h[i] = Freed(h[i - 1], next[i])
  <2>1. i \in 0 .. n /\ i # 0
    OBVIOUS
  <2> QED
    BY <1>14, <2>1, Zenon
<1> QED
  BY <1>2, <1>4, <1>15, <1>16, <1>17 DEF FreeLoop, TakesBy

\* What is first after one more is taken.
LEMMA AppendFirst ==
  ASSUME NEW C, NEW s \in Seq(C), NEW x \in C, NEW n \in Nat, n = Len(s)
  PROVE  /\ Append(s, x) \in Seq(C) /\ DOMAIN Append(s, x) = 1 .. n + 1 /\ Append(s, x)[n + 1] = x
         /\ \A i \in 1 .. n : Append(s, x)[i] = s[i]
         /\ \A k \in 0 .. n : Leading(Append(s, x), k) = Leading(s, k)
         /\ Leading(s, n) = ToSet(s)
         /\ ToSet(Append(s, x)) = ToSet(s) \cup {x}
<1>1. PICK a : a = Append(s, x)
  OBVIOUS
<1>2. a \in Seq(C) /\ Len(a) = n + 1 /\ a[n + 1] = x /\ \A i \in 1 .. n : a[i] = s[i]
  BY <1>1
<1>3. DOMAIN a = 1 .. n + 1 /\ DOMAIN s = 1 .. n
  BY <1>2
<1>4. ASSUME NEW k \in 0 .. n PROVE Leading(a, k) = Leading(s, k)
  <2>1. \A j \in 1 .. k : a[j] = s[j]
    BY <1>2
  <2> QED
    BY <2>1 DEF Leading
<1>5. Leading(s, n) = ToSet(s)
  BY <1>3 DEF Leading, ToSet
<1>6. ToSet(a) = ToSet(s) \cup {x}
  <2>1. 1 .. n + 1 = 1 .. n \cup {n + 1}
    OBVIOUS
  <2>2. ToSet(a) = {a[i] : i \in 1 .. n + 1} /\ ToSet(s) = {s[i] : i \in 1 .. n}
    BY <1>3 DEF ToSet
  <2> QED
    BY <1>2, <2>1, <2>2
<1> QED
  BY <1>1, <1>2, <1>3, <1>4, <1>5, <1>6

\* To take the first that is ready keeps the order greedy and the state in line.
LEMMA TakeKeepsInLine ==
  ASSUME NEW nodes, AreListed(nodes), AreNodes(nodes), NEW s, InLine(Depends(nodes), s), s.ready # << >>
  PROVE  /\ InLine(Depends(nodes), Take(nodes, s))
         /\ Len(Take(nodes, s).ordered) = Len(s.ordered) + 1
<1>1. PICK D : D = Depends(nodes)
  OBVIOUS
<1>2. PICK I : I = DOMAIN D
  OBVIOUS
<1>3. /\ IsDependence(D) /\ I \subseteq Nat
      /\ \A id \in I : Dependents(nodes, id) = InOrder(Waiting(D, id))
  BY <1>1, <1>2, DependsIs DEF IsDependence
<1>4. PICK order : order = s.ordered
  OBVIOUS
<1>5. PICK taken : taken = ToSet(order)
  OBVIOUS
<1>6. /\ s \in OrderStates(I) /\ order \in Seq(I) /\ Greedy(D, order)
      /\ \A x \in I : s.indegree[x] = Cardinality(D[x] \ taken)
      /\ Ascends(s.ready, Takeable(D, taken))
  BY <1>1, <1>2, <1>4, <1>5 DEF InLine
<1>7. PICK id : id = Head(s.ready)
  OBVIOUS
<1>8. /\ id \in Takeable(D, taken) /\ \A x \in Takeable(D, taken) : id <= x
      /\ Ascends(Tail(s.ready), Takeable(D, taken) \ {id})
  BY <1>6, <1>7, LeastFirst
<1>9. id \in I /\ id \notin taken /\ D[id] \subseteq taken
  BY <1>2, <1>8 DEF Takeable
<1>10. PICK next : next = Dependents(nodes, id)
  OBVIOUS
<1>11. next \in Seq(I) /\ IsInjective(next) /\ ToSet(next) = Waiting(D, id)
  <2>1. PICK W : W = Waiting(D, id)
    OBVIOUS
  <2>2. W \subseteq I
    BY <1>2, <2>1 DEF Waiting
  <2>3. W \subseteq Nat /\ IsFiniteSet(W)
    BY <1>2, <1>3, <2>2, FS_Subset DEF IsDependence
  <2>4. next = InOrder(W)
    BY <1>3, <1>9, <1>10, <2>1
  <2>5. Ascends(next, W)
    BY <2>3, <2>4, InOrderAscends
  <2>6. next \in Seq(Nat) /\ ToSet(next) = W
    BY <2>5 DEF Ascends
  <2>7. \A i, j \in DOMAIN next : next[i] = next[j] => i = j
    <3>1. \A i \in DOMAIN next : i \in Nat /\ next[i] \in Nat
      BY <2>6
    <3>2. \A i, j \in DOMAIN next : i < j => next[i] < next[j]
      BY <2>5 DEF Ascends
    <3> QED
      BY <3>1, <3>2
  <2>8. next \in Seq(I)
    <3>1. \A i \in DOMAIN next : next[i] \in I
      BY <2>2, <2>6 DEF ToSet
    <3> QED
      BY <2>6, <3>1
  <2> QED
    BY <2>1, <2>6, <2>7, <2>8 DEF IsInjective
<1>12. PICK start : start = Taken(s)
  OBVIOUS
<1>13. PICK m \in Nat : m = Len(order)
  BY <1>6
<1>14. PICK order1 : order1 = Append(order, id)
  OBVIOUS
<1>15. /\ order1 \in Seq(I) /\ DOMAIN order1 = 1 .. m + 1 /\ order1[m + 1] = id
       /\ \A i \in 1 .. m : order1[i] = order[i]
       /\ \A k \in 0 .. m : Leading(order1, k) = Leading(order, k)
       /\ Leading(order, m) = taken
       /\ ToSet(order1) = taken \cup {id}
  BY <1>5, <1>6, <1>9, <1>13, <1>14, AppendFirst
<1>16. start = [ready |-> Tail(s.ready), indegree |-> s.indegree, ordered |-> order1]
  BY <1>4, <1>7, <1>12, <1>14 DEF Taken
<1>17. start \in OrderStates(I)
  <2>1. Tail(s.ready) \in Seq(Nat)
    BY <1>8 DEF Ascends
  <2>2. order1 \in Seq(Nat)
    <3>1. order1 \in Seq(I)
      BY <1>15
    <3>2. \A i \in DOMAIN order1 : order1[i] \in Nat
      <4>1. PICK q \in Seq(I) : q = order1
        BY <3>1
      <4>2. \A i \in DOMAIN q : q[i] \in I
        OBVIOUS
      <4> QED
        BY <1>3, <4>1, <4>2
    <3> QED
      BY <3>1, <3>2
  <2>3. s.indegree \in [I -> Int]
    BY <1>6 DEF OrderStates
  <2> QED
    BY <1>16, <2>1, <2>2, <2>3 DEF OrderStates
<1>18. PICK loop : FreeLoop(loop, start, next) /\ Take(nodes, s) = loop[Len(next)]
  <2>1. MayTake(nodes, s, next, I)
    BY <1>3, <1>7, <1>10, <1>11, <1>12, <1>17 DEF MayTake
  <2>2. \E loop : TakesBy(loop, nodes, s, next)
    BY <2>1, TakeLoops
  <2> QED
    BY <1>12, <2>2 DEF TakesBy
<1>19. Freeing(D, taken, id, order1, next, 0, start)
  <2>1. Leading(next, 0) = {}
    BY DEF Leading
  <2> QED
    BY <1>2, <1>6, <1>8, <1>16, <1>17, <2>1 DEF Freeing
<1>20. PICK n \in Nat : n = Len(next) /\ DOMAIN next = 1 .. n
  BY <1>11
<1>21. Freeing(D, taken, id, order1, next, n, loop[n])
  <2>1. PICK S : S = {k \in Nat : k <= n => Freeing(D, taken, id, order1, next, k, loop[k])}
    OBVIOUS
  <2>2. 0 \in S
    BY <1>18, <1>19, <2>1 DEF FreeLoop
  <2>3. ASSUME NEW k \in S PROVE k + 1 \in S
    <3>1. SUFFICES ASSUME k + 1 <= n PROVE Freeing(D, taken, id, order1, next, k + 1, loop[k + 1])
      BY <2>1
    <3>2. k \in Nat /\ k + 1 \in 1 .. n /\ (k + 1) - 1 = k
      BY <2>1, <3>1
    <3>3. PICK t : t = loop[k]
      OBVIOUS
    <3>4. Freeing(D, taken, id, order1, next, k, t)
      BY <2>1, <3>1, <3>2, <3>3
    <3>5. loop[k + 1] = Freed(t, next[k + 1])
      <4>1. PICK i \in 1 .. n : i = k + 1 /\ i - 1 = k
        BY <3>2
      <4>2. loop[i] = Freed(loop[i - 1], next[i])
        BY <1>18, <1>20 DEF FreeLoop
      <4> QED
        BY <3>3, <4>1, <4>2
    <3>6. k + 1 \in DOMAIN next /\ next \in Seq(DOMAIN D)
      BY <1>2, <1>11, <1>20, <3>2
    <3>7. Freeing(D, taken, id, order1, next, k + 1, Freed(t, next[k + 1]))
      BY <1>3, <1>9, <1>11, <3>2, <3>4, <3>6, FreedStep
    <3> QED
      BY <3>5, <3>7
  <2>4. S = Nat
    BY <2>1, <2>2, <2>3, Induction DEF Inductive
  <2> QED
    BY <2>1, <2>4
<1>22. PICK u : u = Take(nodes, s)
  OBVIOUS
<1>23. Leading(next, n) = Waiting(D, id)
  BY <1>11, <1>20 DEF Leading, ToSet
<1>24. /\ u \in OrderStates(I) /\ u.ordered = order1
       /\ \A x \in I : u.indegree[x] =
            Cardinality(D[x] \ (IF x \in Waiting(D, id) THEN taken \cup {id} ELSE taken))
       /\ Ascends(u.ready, (Takeable(D, taken) \ {id}) \cup {x \in Waiting(D, id) : D[x] \subseteq taken \cup {id}})
  BY <1>2, <1>18, <1>20, <1>21, <1>22, <1>23 DEF Freeing
<1>25. \A x \in I : u.indegree[x] = Cardinality(D[x] \ ToSet(order1))
  <2>1. ASSUME NEW x \in I, x \notin Waiting(D, id) PROVE D[x] \ (taken \cup {id}) = D[x] \ taken
    BY <1>2, <2>1 DEF Waiting
  <2> QED
    BY <1>15, <1>24, <2>1
<1>26. (Takeable(D, taken) \ {id}) \cup {x \in Waiting(D, id) : D[x] \subseteq taken \cup {id}} = Takeable(D, ToSet(order1))
  <2>1. \A x \in taken : D[x] \subseteq taken
    BY <1>2, <1>5, <1>6, GreedyIsClosed
  <2> QED
    BY <1>2, <1>9, <1>15, <2>1 DEF Takeable, Waiting
<1>27. Greedy(D, order1)
  <2>1. ASSUME NEW i \in 1 .. m
        PROVE  /\ order1[i] \in Takeable(D, Leading(order1, i - 1))
               /\ \A x \in Takeable(D, Leading(order1, i - 1)) : order1[i] <= x
    <3>1. i - 1 \in 0 .. m /\ i \in DOMAIN order
      BY <1>6, <1>13
    <3>2. order1[i] = order[i] /\ Leading(order1, i - 1) = Leading(order, i - 1)
      BY <1>15, <3>1
    <3> QED
      BY <1>6, <3>1, <3>2 DEF Greedy
  <2>2. /\ order1[m + 1] \in Takeable(D, Leading(order1, m))
        /\ \A x \in Takeable(D, Leading(order1, m)) : order1[m + 1] <= x
    <3>1. m \in 0 .. m
      OBVIOUS
    <3> QED
      BY <1>8, <1>15, <3>1
  <2>3. \A i \in 1 .. m + 1 : i \in 1 .. m \/ (i = m + 1 /\ i - 1 = m)
    OBVIOUS
  <2> QED
    BY <1>15, <2>1, <2>2, <2>3 DEF Greedy
<1>28. Len(order1) = m + 1
  BY <1>6, <1>9, <1>13, <1>14
<1> QED
  BY <1>1, <1>2, <1>4, <1>13, <1>15, <1>22, <1>24, <1>25, <1>26, <1>27, <1>28 DEF InLine
\* Nothing is taken at first.
LEMMA StartIsInLine ==
  ASSUME NEW nodes, AreListed(nodes), AreNodes(nodes)
  PROVE  InLine(Depends(nodes), Start(nodes)) /\ Start(nodes).ordered = << >>
<1>1. PICK D : D = Depends(nodes)
  OBVIOUS
<1>2. PICK I : I = DOMAIN D
  OBVIOUS
<1>3. PICK s : s = Start(nodes)
  OBVIOUS
<1>4. /\ IsDependence(D) /\ I \subseteq Nat /\ IsFiniteSet(I)
      /\ s = [ready |-> InOrder(Takeable(D, {})), indegree |-> [x \in I |-> Cardinality(D[x])], ordered |-> << >>]
  BY <1>1, <1>2, <1>3, DependsIs DEF IsDependence
<1>5. Ascends(InOrder(Takeable(D, {})), Takeable(D, {}))
  <2>1. PICK F : F = Takeable(D, {})
    OBVIOUS
  <2>2. F \subseteq I
    BY <1>2, <2>1 DEF Takeable
  <2>3. F \subseteq Nat /\ IsFiniteSet(F)
    BY <1>4, <2>2, FS_Subset
  <2> QED
    BY <2>1, <2>3, InOrderAscends
<1>6. \A x \in I : Cardinality(D[x]) \in Nat
  <2>1. ASSUME NEW x \in I PROVE Cardinality(D[x]) \in Nat
    <3>1. D[x] \subseteq I
      BY <1>2, <1>4 DEF IsDependence
    <3> QED
      BY <1>4, <3>1, FS_Subset, FS_CardinalityType
  <2> QED
    BY <2>1
<1>7. ToSet(<< >>) = {} /\ DOMAIN << >> = {}
  BY DEF ToSet
<1>8. s \in OrderStates(I)
  <2>1. InOrder(Takeable(D, {})) \in Seq(Nat)
    BY <1>5 DEF Ascends
  <2>2. [x \in I |-> Cardinality(D[x])] \in [I -> Int]
    BY <1>6
  <2> QED
    BY <1>4, <2>1, <2>2 DEF OrderStates
<1>9. Greedy(D, << >>)
  BY <1>7 DEF Greedy
<1>10. s.ordered = << >> /\ s.ordered \in Seq(I)
  BY <1>4
<1>11. \A x \in I : s.indegree[x] = Cardinality(D[x] \ ToSet(s.ordered))
  <2>1. \A x \in I : D[x] \ {} = D[x]
    OBVIOUS
  <2> QED
    BY <1>4, <1>7, <1>10, <2>1
<1>12. Ascends(s.ready, Takeable(D, ToSet(s.ordered)))
  BY <1>4, <1>5, <1>7, <1>10
<1> QED
  BY <1>1, <1>2, <1>3, <1>8, <1>9, <1>10, <1>11, <1>12 DEF InLine

\* After k passes, k nodes are taken, or no more can be.
Passed(nodes, s, k) ==
  /\ InLine(Depends(nodes), s)
  /\ Len(s.ordered) = k \/ s.ready = << >>

LEMMA PassIsOnce ==
  ASSUME NEW nodes, AreListed(nodes), AreNodes(nodes), NEW s, NEW k \in Nat, Passed(nodes, s, k)
  PROVE  Passed(nodes, Take(nodes, s), k + 1)
<1>1. InLine(Depends(nodes), s) /\ (Len(s.ordered) = k \/ s.ready = << >>)
  BY DEF Passed
<1>2. CASE s.ready = << >>
  BY <1>1, <1>2 DEF Take, Passed
<1>3. CASE s.ready # << >>
  <2>1. /\ InLine(Depends(nodes), Take(nodes, s))
        /\ Len(Take(nodes, s).ordered) = Len(s.ordered) + 1
    BY <1>1, <1>3, TakeKeepsInLine
  <2> QED
    BY <1>1, <1>3, <2>1 DEF Passed
<1> QED
  BY <1>2, <1>3

\* The order is greedy, and what is left, if anything, is not free.
LEMMA OrderedIsGreedy ==
  ASSUME NEW nodes, AreListed(nodes), AreNodes(nodes)
  PROVE  LET D == Depends(nodes)
         IN  /\ Ordered(nodes) \in Seq(DOMAIN D) /\ Greedy(D, Ordered(nodes))
             /\ Len(Ordered(nodes)) = Len(nodes) \/ Takeable(D, ToSet(Ordered(nodes))) = {}
<1>1. PICK n \in Nat : n = Len(nodes)
  BY NodesHaveIds
<1>2. PICK D : D = Depends(nodes)
  OBVIOUS
<1>3. PICK start : start = Start(nodes)
  OBVIOUS
<1>4. PICK S : S = {s \in OrderStates(DOMAIN D) : InLine(D, s)}
  OBVIOUS
<1>5. \A s : InLine(D, s) => s \in S
  BY <1>4 DEF InLine
<1>6. start \in S
  BY <1>2, <1>3, <1>5, StartIsInLine
<1>7. PICK step : step = [i \in 1 .. n |-> [s \in S |-> Take(nodes, s)]]
  OBVIOUS
<1>8. StepsIn(step, S, n)
  <2>1. ASSUME NEW s \in S PROVE Take(nodes, s) \in S
    <3>1. InLine(Depends(nodes), s)
      BY <1>2, <1>4
    <3>2. CASE s.ready = << >>
      BY <3>2 DEF Take
    <3>3. CASE s.ready # << >>
      BY <1>2, <1>5, <3>1, <3>3, TakeKeepsInLine
    <3> QED
      BY <3>2, <3>3
  <2> QED
    BY <1>7, <2>1 DEF StepsIn
<1>9. PICK f : Computes(f, S, start, step, n)
  BY <1>6, <1>8, Recursion
<1>10. ASSUME NEW i \in 1 .. n PROVE f[i] = Take(nodes, f[i - 1])
  <2>1. f[i - 1] \in S /\ f[i] = step[i][f[i - 1]]
    BY <1>9 DEF Computes
  <2> QED
    BY <1>7, <2>1
<1>11. PICK g : g = [k \in 0 .. n |-> IF k = 0 THEN start ELSE Take(nodes, f[k - 1])]
  OBVIOUS
<1>12. f = g
  <2>1. ASSUME NEW i \in 0 .. n PROVE f[i] = g[i]
    BY <1>9, <1>10, <1>11 DEF Computes
  <2> QED
    BY <1>9, <1>11, <2>1 DEF Computes
<1>13. PICK h : h = CHOOSE c : c = [k \in 0 .. n |-> IF k = 0 THEN start ELSE Take(nodes, c[k - 1])]
  OBVIOUS
<1>14. h = [k \in 0 .. n |-> IF k = 0 THEN start ELSE Take(nodes, h[k - 1])]
  BY <1>11, <1>12, <1>13
<1>15. Ordered(nodes) = h[n].ordered
  BY <1>1, <1>3, <1>13 DEF Ordered
<1>16. h[0] = start
  BY <1>14
<1>17. ASSUME NEW i \in 1 .. n PROVE h[i] = Take(nodes, h[i - 1])
  <2>1. i \in 0 .. n /\ i # 0
    OBVIOUS
  <2> QED
    BY <1>14, <2>1, Zenon
<1>18. Passed(nodes, h[n], n)
  <2>1. PICK T : T = {k \in Nat : k <= n => Passed(nodes, h[k], k)}
    OBVIOUS
  <2>2. 0 \in T
    <3>1. InLine(Depends(nodes), start) /\ start.ordered = << >>
      BY <1>3, StartIsInLine
    <3>2. Len(start.ordered) = 0
      BY <3>1
    <3> QED
      BY <1>16, <2>1, <3>1, <3>2 DEF Passed
  <2>3. ASSUME NEW k \in T PROVE k + 1 \in T
    <3>1. SUFFICES ASSUME k + 1 <= n PROVE Passed(nodes, h[k + 1], k + 1)
      BY <2>1
    <3>2. k \in Nat /\ Passed(nodes, h[k], k)
      BY <2>1, <3>1
    <3>3. PICK i \in 1 .. n : i = k + 1 /\ i - 1 = k
      BY <3>1, <3>2
    <3>4. h[k + 1] = Take(nodes, h[k])
      BY <1>17, <3>3
    <3>5. PICK s : s = h[k]
      OBVIOUS
    <3>6. Passed(nodes, Take(nodes, s), k + 1)
      BY <3>2, <3>5, PassIsOnce
    <3> QED
      BY <3>4, <3>5, <3>6
  <2>4. T = Nat
    BY <2>1, <2>2, <2>3, Induction DEF Inductive
  <2> QED
    BY <2>1, <2>4
<1>19. PICK s : s = h[n]
  OBVIOUS
<1>20. /\ s.ordered \in Seq(DOMAIN D) /\ Greedy(D, s.ordered)
       /\ Ascends(s.ready, Takeable(D, ToSet(s.ordered)))
       /\ Len(s.ordered) = n \/ s.ready = << >>
  BY <1>2, <1>18, <1>19 DEF Passed, InLine
<1>21. s.ready = << >> => Takeable(D, ToSet(s.ordered)) = {}
  <2>1. ToSet(<< >>) = {}
    BY DEF ToSet
  <2> QED
    BY <1>20, <2>1 DEF Ascends
<1> QED
  BY <1>1, <1>2, <1>15, <1>19, <1>20, <1>21
\* An order that has all nodes is one without a cycle, and only then there is one.
LEMMA CompleteWithoutCycle ==
  ASSUME NEW D, IsDependence(D), NEW order \in Seq(DOMAIN D), Greedy(D, order),
         Len(order) = Cardinality(DOMAIN D) \/ Takeable(D, ToSet(order)) = {}
  PROVE  /\ Len(order) = Cardinality(DOMAIN D) <=> ToSet(order) = DOMAIN D
         /\ Len(order) = Cardinality(DOMAIN D) <=>
              ~ \E ids \in (SUBSET DOMAIN D) \ {{}} : \A id \in ids : D[id] \cap ids # {}
<1>1. PICK I : I = DOMAIN D
  OBVIOUS
<1>2. PICK n \in Nat : n = Len(order) /\ DOMAIN order = 1 .. n
  OBVIOUS
<1>3. PICK all : all = ToSet(order)
  OBVIOUS
<1>4. all \subseteq I /\ IsFiniteSet(all) /\ Cardinality(all) = n
  <2>1. order \in Seq(I) /\ IsInjective(order)
    BY <1>1, GreedyIsClosed
  <2> QED
    BY <1>2, <1>3, <2>1, SequenceFinite
<1>5. n = Cardinality(I) <=> all = I
  <2>1. IsFiniteSet(I)
    BY <1>1 DEF IsDependence
  <2>2. all # I => Cardinality(all) < Cardinality(I)
    <3>1. Cardinality(all) = Cardinality(I) => all = I
      BY <1>4, <2>1, FS_Subset
    <3>2. Cardinality(all) <= Cardinality(I)
      BY <1>4, <2>1, FS_Subset
    <3>3. Cardinality(I) \in Nat
      BY <2>1, FS_CardinalityType
    <3> QED
      BY <1>4, <3>1, <3>2, <3>3
  <2> QED
    BY <1>4, <2>2
<1>6. ASSUME all = I, NEW ids \in (SUBSET I) \ {{}} PROVE \E id \in ids : D[id] \cap ids = {}
  <2>1. PICK at : at = {i \in 1 .. n : order[i] \in ids}
    OBVIOUS
  <2>2. at \in SUBSET Nat /\ at # {}
    <3>1. PICK id : id \in ids
      BY <1>6
    <3>2. id \in ToSet(order)
      BY <1>3, <1>6, <3>1
    <3>3. PICK i \in 1 .. n : order[i] = id
      BY <1>2, <3>2 DEF ToSet
    <3> QED
      BY <2>1, <3>1, <3>3
  <2>3. PICK i \in at : \A j \in at : i <= j
    BY <2>2, Least
  <2>4. i \in 1 .. n /\ order[i] \in ids
    BY <2>1, <2>3
  <2>5. D[order[i]] \subseteq {order[j] : j \in 1 .. i - 1}
    BY <1>2, <2>4 DEF Greedy, Takeable, Leading
  <2>6. ASSUME NEW j \in 1 .. i - 1 PROVE order[j] \notin ids
    <3>1. j \in 1 .. n /\ ~(i <= j)
      BY <2>4
    <3> QED
      BY <2>1, <2>3, <3>1
  <2>7. PICK id \in ids : id = order[i]
    BY <2>4
  <2>8. \A d \in D[id] : d \notin ids
    <3>1. ASSUME NEW d \in D[id] PROVE d \notin ids
      <4>1. PICK j \in 1 .. i - 1 : d = order[j]
        BY <2>5, <2>7, <3>1
      <4> QED
        BY <2>6, <4>1
    <3> QED
      BY <3>1
  <2> QED
    BY <2>8
<1>7. ASSUME all # I PROVE \E ids \in (SUBSET I) \ {{}} : \A id \in ids : D[id] \cap ids # {}
  <2>1. Takeable(D, all) = {}
    BY <1>1, <1>2, <1>3, <1>5, <1>7
  <2>2. PICK ids : ids = I \ all
    OBVIOUS
  <2>3. ids \in (SUBSET I) \ {{}}
    BY <1>4, <1>7, <2>2
  <2>4. ASSUME NEW id \in ids PROVE D[id] \cap ids # {}
    <3>1. id \in I /\ id \notin all /\ D[id] \subseteq I
      BY <1>1, <2>2 DEF IsDependence
    <3>2. ~(D[id] \subseteq all)
      BY <1>1, <2>1, <3>1 DEF Takeable
    <3> QED
      BY <2>2, <3>1, <3>2
  <2> QED
    BY <2>3, <2>4
<1> QED
  BY <1>1, <1>2, <1>3, <1>5, <1>6, <1>7

\* Of the orders that respect the dependencies, the greedy one is the first.
LEMMA GreedyIsFirst ==
  ASSUME NEW D, IsDependence(D), NEW n \in Nat, NEW s \in [1 .. n -> DOMAIN D], Greedy(D, s),
         NEW r \in [1 .. n -> DOMAIN D], IsInjective(r),
         \A i \in 1 .. n : D[r[i]] \subseteq Leading(r, i - 1), s # r
  PROVE  Before(s, r)
<1>1. PICK apart : apart = {i \in 1 .. n : s[i] # r[i]}
  OBVIOUS
<1>2. apart \in SUBSET Nat /\ apart # {}
  <2>1. \E i \in 1 .. n : s[i] # r[i]
    OBVIOUS
  <2> QED
    BY <1>1, <2>1
<1>3. PICK i \in apart : \A j \in apart : i <= j
  BY <1>2, Least
<1>4. i \in 1 .. n /\ s[i] # r[i]
  BY <1>1, <1>3
<1>5. \A j \in 1 .. i - 1 : j \in 1 .. n /\ s[j] = r[j]
  <2>1. ASSUME NEW j \in 1 .. i - 1 PROVE j \in 1 .. n /\ s[j] = r[j]
    <3>1. j \in 1 .. n /\ ~(i <= j)
      BY <1>4
    <3> QED
      BY <1>1, <1>3, <3>1
  <2> QED
    BY <2>1
<1>6. Leading(s, i - 1) = Leading(r, i - 1)
  BY <1>5 DEF Leading
<1>7. r[i] \notin Leading(r, i - 1)
  <2>1. ASSUME NEW j \in 1 .. i - 1 PROVE r[j] # r[i]
    <3>1. j \in DOMAIN r /\ i \in DOMAIN r /\ j # i
      BY <1>4, <1>5
    <3> QED
      BY <3>1 DEF IsInjective
  <2> QED
    BY <2>1 DEF Leading
<1>8. r[i] \in Takeable(D, Leading(s, i - 1))
  <2>1. r[i] \in DOMAIN D /\ D[r[i]] \subseteq Leading(r, i - 1)
    BY <1>4
  <2> QED
    BY <1>6, <1>7, <2>1 DEF Takeable
<1>9. s[i] <= r[i]
  <2>1. i \in DOMAIN s
    BY <1>4
  <2> QED
    BY <1>8, <2>1 DEF Greedy
<1>10. s[i] \in Nat /\ r[i] \in Nat
  <2>1. s[i] \in DOMAIN D /\ r[i] \in DOMAIN D
    BY <1>4
  <2> QED
    BY <2>1 DEF IsDependence
<1>11. s[i] < r[i]
  BY <1>4, <1>9, <1>10
<1>12. i \in DOMAIN s
  BY <1>4
<1> QED
  BY <1>5, <1>11, <1>12 DEF Before

OrderRightFor(nodes) ==
  AreNodes(nodes) =>
    /\ Acyclic(nodes) = ~Cyclic(nodes)
    /\ Acyclic(nodes) => /\ Ordered(nodes) \in Topological(nodes)
                         /\ \A order \in Topological(nodes) \ {Ordered(nodes)} : Before(Ordered(nodes), order)

LEMMA OrderOfNodes ==
  ASSUME NEW nodes, AreListed(nodes)
  PROVE  OrderRightFor(nodes)
<1>1. SUFFICES ASSUME AreNodes(nodes)
               PROVE  /\ Acyclic(nodes) = ~Cyclic(nodes)
                      /\ Acyclic(nodes) => /\ Ordered(nodes) \in Topological(nodes)
                                           /\ \A order \in Topological(nodes) \ {Ordered(nodes)} :
                                                Before(Ordered(nodes), order)
  BY DEF OrderRightFor
<1>2. PICK D : D = Depends(nodes)
  OBVIOUS
<1>3. PICK I : I = DOMAIN D /\ I = NodeIds(nodes)
  BY <1>1, <1>2, DependsIs
<1>4. PICK ordered : ordered = Ordered(nodes)
  OBVIOUS
<1>5. IsDependence(D) /\ \A x \in I : D[x] = ToSet(ById(nodes, x).dependsOn)
  BY <1>1, <1>2, <1>3, DependsIs DEF Depends
<1>6. PICK n \in Nat : n = Len(nodes) /\ n = Cardinality(I)
  BY <1>1, <1>3, NodesHaveIds
<1>7. ordered \in Seq(I) /\ Greedy(D, ordered) /\ (Len(ordered) = n \/ Takeable(D, ToSet(ordered)) = {})
  BY <1>1, <1>2, <1>3, <1>4, <1>6, OrderedIsGreedy
<1>8. Acyclic(nodes) <=> Len(ordered) = n
  BY <1>4, <1>6 DEF Acyclic
<1>9. Cyclic(nodes) <=> \E ids \in (SUBSET I) \ {{}} : \A id \in ids : D[id] \cap ids # {}
  BY <1>3, <1>5 DEF Cyclic
<1>10. Len(ordered) = n <=> ~ \E ids \in (SUBSET I) \ {{}} : \A id \in ids : D[id] \cap ids # {}
  BY <1>3, <1>5, <1>6, <1>7, CompleteWithoutCycle
<1>11. Acyclic(nodes) = ~Cyclic(nodes)
  <2>1. Acyclic(nodes) \in BOOLEAN /\ Cyclic(nodes) \in BOOLEAN
    BY DEF Acyclic, Cyclic
  <2> QED
    BY <1>8, <1>9, <1>10, <2>1
<1>12. Topological(nodes) =
         {order \in [1 .. n -> I] : /\ \A i, j \in 1 .. n : i # j => order[i] # order[j]
                                    /\ \A i \in 1 .. n : D[order[i]] \subseteq Leading(order, i - 1)}
  <2>1. SetToSeqs(I) = {order \in [1 .. n -> I] : \A i, j \in 1 .. n : i # j => order[i] # order[j]}
    BY <1>6 DEF SetToSeqs
  <2>2. Topological(nodes) =
          {order \in SetToSeqs(I) : \A i \in DOMAIN order :
             ToSet(ById(nodes, order[i]).dependsOn) \subseteq Leading(order, i - 1)}
    BY <1>3 DEF Topological, Leading
  <2>3. ASSUME NEW order \in [1 .. n -> I]
        PROVE  (\A i \in DOMAIN order : ToSet(ById(nodes, order[i]).dependsOn) \subseteq Leading(order, i - 1))
               <=> \A i \in 1 .. n : D[order[i]] \subseteq Leading(order, i - 1)
    BY <1>5
  <2> QED
    BY <2>1, <2>2, <2>3
<1>13. SUFFICES ASSUME Len(ordered) = n
                PROVE  /\ ordered \in Topological(nodes)
                       /\ \A order \in Topological(nodes) \ {ordered} : Before(ordered, order)
  BY <1>4, <1>8, <1>11
<1>14. ordered \in [1 .. n -> I]
  BY <1>7, <1>13
<1>15. ordered \in Topological(nodes)
  <2>1. IsInjective(ordered)
    BY <1>3, <1>7, GreedyIsClosed
  <2>2. \A i, j \in 1 .. n : i # j => ordered[i] # ordered[j]
    BY <1>14, <2>1 DEF IsInjective
  <2>3. \A i \in 1 .. n : D[ordered[i]] \subseteq Leading(ordered, i - 1)
    BY <1>7, <1>14 DEF Greedy, Takeable
  <2> QED
    BY <1>12, <1>14, <2>2, <2>3
<1>16. ASSUME NEW order \in Topological(nodes), order # ordered PROVE Before(ordered, order)
  <2>1. /\ order \in [1 .. n -> I] /\ \A i, j \in 1 .. n : i # j => order[i] # order[j]
        /\ \A i \in 1 .. n : D[order[i]] \subseteq Leading(order, i - 1)
    BY <1>12, <1>16
  <2>2. IsInjective(order)
    BY <2>1 DEF IsInjective
  <2> QED
    BY <1>3, <1>5, <1>7, <1>14, <1>16, <2>1, <2>2, GreedyIsFirst
<1> QED
  BY <1>15, <1>16

\* The project is one of those that are given, once it is begun.
IsGiven == project = << >> \/ project \in Project

\* OrderIsRight: of every draft, however it lists its nodes, normalizeNodes orders them
\* unless some depend on each other in a cycle, each after all it depends on, and in the
\* first of the orders of that kind.
THEOREM OrdersAreRight == GraphSpec => []OrderIsRight
<1>1. GraphInit => IsGiven
  BY DEF GraphInit, IsGiven
<1>2. IsGiven /\ [GraphNext]_graphVars => IsGiven'
  BY DEF IsGiven, GraphNext, graphVars, Begin, Finalize, Authorize, EditGraph, EditAuthorization, ClockTicks, Verify
<1>3. IsGiven => OrderIsRight
  <2>1. SUFFICES ASSUME IsGiven, NEW draft \in ToSet(project) PROVE OrderRightFor(draft.nodes)
    BY DEF OrderIsRight, OrderRightFor
  <2>2. project # << >>
    BY <2>1 DEF ToSet
  <2>3. AreListed(draft.nodes)
    BY <2>1, <2>2, GraphAssumption DEF IsGiven, IsListed
  <2> QED
    BY <2>3, OrderOfNodes
<1> QED
  BY <1>1, <1>2, <1>3, PTL DEF GraphSpec
-----------------------------------------------------------------------------
(* Drafts that say the same, listed in other ways.                           *)

\* Two lists that hold the same, as often.
SameList(s, r) ==
  /\ s \in Seq(ToSet(s)) /\ r \in Seq(ToSet(r))
  /\ Len(s) = Len(r) /\ ToSet(s) = ToSet(r)

LEMMA SameListIs ==
  ASSUME NEW s, NEW r, SameList(s, r)
  PROVE  /\ SameList(r, s) /\ DOMAIN s = DOMAIN r
         /\ IsInjective(s) <=> IsInjective(r)
         /\ s = << >> <=> r = << >>
         /\ \A maximum \in Nat : IsStringSet(s, maximum) <=> IsStringSet(r, maximum)
         /\ Sorted(s) = Sorted(r)
         /\ \A field : SortedBy(s, field) = SortedBy(r, field)
<1>1. PICK C : C = ToSet(s) /\ C = ToSet(r)
  BY DEF SameList
<1>2. s \in Seq(C) /\ r \in Seq(C) /\ Len(s) = Len(r)
  BY <1>1 DEF SameList
<1>3. PICK n \in Nat : n = Len(s) /\ n = Len(r) /\ DOMAIN s = 1 .. n /\ DOMAIN r = 1 .. n
  BY <1>2
<1>4. SameList(r, s) /\ DOMAIN s = DOMAIN r
  BY <1>3 DEF SameList
<1>5. (IsInjective(s) <=> Cardinality(C) = n) /\ (IsInjective(r) <=> Cardinality(C) = n)
  BY <1>1, <1>2, <1>3, SequenceFinite
<1>6. s = << >> <=> r = << >>
  <2>1. (s = << >> <=> n = 0) /\ (r = << >> <=> n = 0)
    BY <1>2, <1>3
  <2> QED
    BY <2>1
<1>7. ASSUME NEW maximum \in Nat PROVE IsStringSet(s, maximum) <=> IsStringSet(r, maximum)
  BY <1>3, <1>5 DEF IsStringSet
<1>8. Sorted(s) = Sorted(r)
  BY <1>1 DEF Sorted
<1>9. ASSUME NEW field PROVE SortedBy(s, field) = SortedBy(r, field)
  BY <1>1, <1>4 DEF SortedBy
<1> QED
  BY <1>4, <1>5, <1>6, <1>7, <1>8, <1>9

LEMMA ReversedIsSame ==
  ASSUME NEW s, s \in Seq(ToSet(s))
  PROVE  SameList(s, Reverse(s))
<1>1. PICK n \in Nat : n = Len(s) /\ DOMAIN s = 1 .. n
  OBVIOUS
<1>2. PICK C : C = ToSet(s)
  OBVIOUS
<1>3. PICK r : r = Reverse(s)
  OBVIOUS
<1>4. DOMAIN r = 1 .. n /\ \A i \in 1 .. n : r[i] = s[(n - i) + 1]
  BY <1>1, <1>3 DEF Reverse
<1>5. C = {s[i] : i \in 1 .. n} /\ ToSet(r) = {r[i] : i \in 1 .. n}
  BY <1>1, <1>2, <1>4 DEF ToSet
<1>6. \A i \in 1 .. n : (n - i) + 1 \in 1 .. n /\ (n - ((n - i) + 1)) + 1 = i
  OBVIOUS
<1>7. ToSet(r) = C
  <2>1. ASSUME NEW i \in 1 .. n PROVE s[i] \in ToSet(r) /\ r[i] \in C
    <3>1. PICK j \in 1 .. n : j = (n - i) + 1 /\ (n - j) + 1 = i
      BY <1>6
    <3>2. r[j] = s[i] /\ r[i] = s[j]
      BY <1>4, <3>1
    <3> QED
      BY <1>5, <3>2
  <2> QED
    BY <1>5, <2>1
<1>8. r \in Seq(C) /\ Len(r) = n
  <2>1. r = [i \in 1 .. n |-> r[i]]
    BY <1>1, <1>3 DEF Reverse
  <2>2. \A i \in 1 .. n : r[i] \in C
    BY <1>5, <1>7
  <2> QED
    BY <2>1, <2>2
<1> QED
  BY <1>1, <1>2, <1>3, <1>7, <1>8 DEF SameList

LEMMA SortedIsSame ==
  ASSUME NEW s \in Seq(Nat), IsInjective(s)
  PROVE  SameList(s, Sorted(s)) /\ Sorted(s) \in Seq(Nat)
<1>1. PICK r : r = Sorted(s)
  OBVIOUS
<1>2. IsFiniteSet(ToSet(s)) /\ ToSet(s) \subseteq Nat /\ Cardinality(ToSet(s)) = Len(s)
  BY SequenceFinite
<1>3. r \in Seq(Nat) /\ ToSet(r) = ToSet(s) /\ Len(r) = Len(s)
  BY <1>1, <1>2, InOrderAscends DEF Sorted, Ascends
<1>4. \A q \in Seq(Nat) : q \in Seq(ToSet(q))
  <2>1. ASSUME NEW q \in Seq(Nat) PROVE q \in Seq(ToSet(q))
    <3>1. \A i \in DOMAIN q : q[i] \in ToSet(q)
      BY DEF ToSet
    <3> QED
      BY <3>1
  <2> QED
    BY <2>1
<1> QED
  BY <1>1, <1>3, <1>4 DEF SameList

\* Sorted by a field in which all differ.
LEMMA SortedByIsSame ==
  ASSUME NEW s, s \in Seq(ToSet(s)), NEW field, \A x \in ToSet(s) : x[field] \in Nat,
         \A i, j \in DOMAIN s : s[i][field] = s[j][field] => i = j
  PROVE  SameList(s, SortedBy(s, field))
<1>1. PICK n \in Nat : n = Len(s) /\ DOMAIN s = 1 .. n
  OBVIOUS
<1>2. PICK C : C = ToSet(s)
  OBVIOUS
<1>3. PICK K : K = {x[field] : x \in C}
  OBVIOUS
<1>4. \A x, y \in C : x[field] = y[field] => x = y
  BY <1>2 DEF ToSet
<1>5. s \in Seq(C) /\ IsInjective(s)
  BY <1>2 DEF IsInjective
<1>6. IsFiniteSet(C) /\ Cardinality(C) = n
  BY <1>1, <1>2, <1>5, SequenceFinite
<1>7. K \subseteq Nat
  BY <1>2, <1>3
<1>8. PICK k : k = [x \in C |-> x[field]]
  OBVIOUS
<1>9. IsFiniteSet(K) /\ Cardinality(K) = n
  <2>1. k \in Bijection(C, K)
    BY <1>3, <1>4, <1>8 DEF Bijection, Injection, Surjection, IsInjective
  <2> QED
    BY <1>6, <2>1, FS_Bijection DEF ExistsBijection
<1>10. PICK place : place = [x \in C |-> Place(x[field], K)]
  OBVIOUS
<1>11. place \in [C -> 1 .. n] /\ \A x, y \in C : y[field] < x[field] => place[y] < place[x]
  <2>1. ASSUME NEW x \in C PROVE place[x] \in 1 .. n /\ \A y \in C : y[field] < x[field] => place[y] < place[x]
    <3>1. PICK at \in K : at = x[field]
      BY <1>3
    <3>2. Place(at, K) \in 1 .. n /\ \A y \in K : y < at => Place(y, K) < Place(at, K)
      BY <1>7, <1>9, PlaceIs
    <3> QED
      BY <1>3, <1>10, <3>1, <3>2
  <2> QED
    BY <1>10, <2>1
<1>12. \A x, y \in C : place[x] = place[y] => x = y
  <2>1. ASSUME NEW x \in C, NEW y \in C, place[x] = place[y] PROVE x = y
    <3>1. x[field] \in Nat /\ y[field] \in Nat /\ place[x] \in Nat /\ place[y] \in Nat
      BY <1>2, <1>11
    <3>2. ~(x[field] < y[field]) /\ ~(y[field] < x[field])
      BY <1>11, <2>1, <3>1
    <3>3. x[field] = y[field]
      BY <3>1, <3>2
    <3> QED
      BY <1>4, <3>3
  <2> QED
    BY <2>1
<1>13. \A i \in 1 .. n : \E x \in C : place[x] = i
  <2>1. IsFiniteSet(1 .. n) /\ Cardinality(1 .. n) = n
    BY FS_Interval
  <2>2. place \in Injection(C, 1 .. n)
    BY <1>11, <1>12 DEF Injection, IsInjective
  <2>3. place \in Surjection(C, 1 .. n)
    BY <1>6, <2>1, <2>2, FS_Injection
  <2> QED
    BY <2>3 DEF Surjection
<1>14. PICK r : r = SortedBy(s, field)
  OBVIOUS
<1>15. r = [i \in 1 .. n |-> CHOOSE x \in C : Place(x[field], K) = i]
  BY <1>1, <1>2, <1>3, <1>14 DEF SortedBy
<1>16. \A i \in 1 .. n : r[i] \in C /\ place[r[i]] = i
  <2>1. ASSUME NEW i \in 1 .. n PROVE r[i] \in C /\ place[r[i]] = i
    <3>1. \E x \in C : Place(x[field], K) = i
      BY <1>10, <1>13
    <3> QED
      BY <1>10, <1>15, <3>1
  <2> QED
    BY <2>1
<1>17. r \in Seq(C) /\ Len(r) = n
  <2>1. r \in [1 .. n -> C]
    BY <1>15, <1>16, Zenon
  <2> QED
    BY <2>1
<1>18. ToSet(r) = C
  <2>1. DOMAIN r = 1 .. n
    BY <1>15
  <2>2. ASSUME NEW x \in C PROVE x \in ToSet(r)
    <3>1. PICK i \in 1 .. n : i = place[x]
      BY <1>11
    <3>2. r[i] \in C /\ place[r[i]] = place[x]
      BY <1>16, <3>1
    <3>3. r[i] = x
      BY <1>12, <3>2
    <3> QED
      BY <2>1, <3>1, <3>3 DEF ToSet
  <2>3. ASSUME NEW x \in ToSet(r) PROVE x \in C
    <3>1. PICK i \in 1 .. n : r[i] = x
      BY <2>1, <2>3 DEF ToSet
    <3> QED
      BY <1>16, <3>1
  <2> QED
    BY <2>2, <2>3
<1> QED
  BY <1>1, <1>2, <1>5, <1>14, <1>17, <1>18 DEF SameList
\* What a list of records holds in one field.
InField(s, field) == [i \in DOMAIN s |-> s[i][field]]

LEMMA FieldsAreSame ==
  ASSUME NEW s, NEW r, SameList(s, r), NEW field
  PROVE  SameList(InField(s, field), InField(r, field))
<1>1. PICK n \in Nat : n = Len(s) /\ n = Len(r) /\ DOMAIN s = 1 .. n /\ DOMAIN r = 1 .. n
  BY SameListIs DEF SameList
<1>2. \A i \in 1 .. n : s[i] \in ToSet(r) /\ r[i] \in ToSet(s)
  BY <1>1 DEF SameList, ToSet
<1>3. PICK a : a = InField(s, field)
  OBVIOUS
<1>4. PICK b : b = InField(r, field)
  OBVIOUS
<1>5. /\ a = [i \in 1 .. n |-> s[i][field]] /\ b = [i \in 1 .. n |-> r[i][field]]
  BY <1>1, <1>3, <1>4 DEF InField
<1>6. \A i \in 1 .. n : a[i] = s[i][field] /\ b[i] = r[i][field]
  BY <1>5
<1>7. DOMAIN a = 1 .. n /\ DOMAIN b = 1 .. n
  BY <1>5
<1>8. \A i \in 1 .. n : \E j \in 1 .. n : s[i] = r[j]
  BY <1>1, <1>2 DEF ToSet
<1>9. \A i \in 1 .. n : \E j \in 1 .. n : r[i] = s[j]
  BY <1>1, <1>2 DEF ToSet
<1>10. ASSUME NEW i \in 1 .. n PROVE a[i] \in ToSet(a) /\ a[i] \in ToSet(b) /\ b[i] \in ToSet(b) /\ b[i] \in ToSet(a)
  <2>1. PICK j \in 1 .. n : s[i] = r[j]
    BY <1>8
  <2>2. PICK k \in 1 .. n : r[i] = s[k]
    BY <1>9
  <2>3. a[i] = b[j] /\ b[i] = a[k]
    BY <1>6, <2>1, <2>2
  <2> QED
    BY <1>7, <2>3 DEF ToSet
<1>11. ToSet(a) = ToSet(b)
  BY <1>7, <1>10 DEF ToSet
<1>12. a \in Seq(ToSet(a)) /\ Len(a) = n
  <2>1. a = [i \in 1 .. n |-> a[i]]
    BY <1>5
  <2> QED
    BY <1>10, <2>1
<1>13. b \in Seq(ToSet(b)) /\ Len(b) = n
  <2>1. b = [i \in 1 .. n |-> b[i]]
    BY <1>5
  <2> QED
    BY <1>10, <2>1
<1> QED
  BY <1>3, <1>4, <1>11, <1>12, <1>13 DEF SameList

LEMMA FactsAreSame ==
  ASSUME GraphAssumption, NEW s, NEW r, SameList(s, r)
  PROVE  AreFacts(s) <=> AreFacts(r)
<1>1. Column(s, LAMBDA fact : fact.key) = InField(s, "key")
  BY DEF Column, InField
<1>2. Column(r, LAMBDA fact : fact.key) = InField(r, "key")
  BY DEF Column, InField
<1>3. SameList(InField(s, "key"), InField(r, "key"))
  BY FieldsAreSame
<1>4. IsStringSet(InField(s, "key"), MaxFacts) <=> IsStringSet(InField(r, "key"), MaxFacts)
  <2>1. MaxFacts \in Nat
    BY GraphAssumption
  <2> QED
    BY <1>3, <2>1, SameListIs
<1> QED
  BY <1>1, <1>2, <1>4 DEF AreFacts

-----------------------------------------------------------------------------
\* Nodes that say the same.
SameNode(a, b) ==
  /\ a.id = b.id /\ a.priority = b.priority
  /\ SameList(a.dependsOn, b.dependsOn)
  /\ SameList(a.requiredRuleIds, b.requiredRuleIds)
  /\ SameList(a.acceptanceCriteria, b.acceptanceCriteria)
  /\ a.capabilitySelector \in Seq(Seq(Nat)) /\ b.capabilitySelector \in Seq(Seq(Nat))
  /\ DOMAIN a.capabilitySelector = DOMAIN b.capabilitySelector
  /\ \A i \in DOMAIN a.capabilitySelector : SameList(a.capabilitySelector[i], b.capabilitySelector[i])

\* What AreNodes asks of each node.
IsNode(node, ids) ==
  /\ IsStringSet(node.dependsOn, MaxDependencies)
  /\ ToSet(node.dependsOn) \subseteq ids
  /\ IsStringSet(node.requiredRuleIds, MaxFacts)
  /\ node.acceptanceCriteria # << >> /\ IsInjective(node.acceptanceCriteria)
  /\ IsSelector(node.capabilitySelector)

LEMMA SelectorsAreSame ==
  ASSUME GraphAssumption, NEW s \in Seq(Seq(Nat)), NEW r \in Seq(Seq(Nat)), DOMAIN s = DOMAIN r,
         \A i \in DOMAIN s : SameList(s[i], r[i])
  PROVE  /\ s = << >> <=> r = << >>
         /\ IsSelector(s) <=> IsSelector(r)
         /\ Column(s, Sorted) = Column(r, Sorted)
<1>1. PICK n \in Nat : n = Len(s) /\ n = Len(r) /\ DOMAIN s = 1 .. n /\ DOMAIN r = 1 .. n
  <2>1. \A i, j \in Nat : 1 .. i = 1 .. j => i = j
    <3>1. ASSUME NEW i \in Nat, NEW j \in Nat, 1 .. i = 1 .. j PROVE i = j
      <4>1. i \in 1 .. i \/ i = 0
        OBVIOUS
      <4>2. j \in 1 .. j \/ j = 0
        OBVIOUS
      <4> QED
        BY <3>1, <4>1, <4>2
    <3> QED
      BY <3>1
  <2>2. PICK i \in Nat : i = Len(s) /\ DOMAIN s = 1 .. i
    OBVIOUS
  <2>3. PICK j \in Nat : j = Len(r) /\ DOMAIN r = 1 .. j
    OBVIOUS
  <2>4. i = j
    BY <2>1, <2>2, <2>3
  <2> QED
    BY <2>2, <2>3, <2>4
<1>2. s = << >> <=> r = << >>
  <2>1. (s = << >> <=> n = 0) /\ (r = << >> <=> n = 0)
    BY <1>1
  <2> QED
    BY <2>1
<1>3. \A i \in 1 .. n : /\ IsStringSet(s[i], MaxFacts) <=> IsStringSet(r[i], MaxFacts)
                        /\ s[i] = << >> <=> r[i] = << >>
                        /\ Sorted(s[i]) = Sorted(r[i])
  <2>1. ASSUME NEW i \in 1 .. n
        PROVE  /\ IsStringSet(s[i], MaxFacts) <=> IsStringSet(r[i], MaxFacts)
               /\ s[i] = << >> <=> r[i] = << >>
               /\ Sorted(s[i]) = Sorted(r[i])
    <3>1. MaxFacts \in Nat /\ SameList(s[i], r[i])
      BY <1>1, GraphAssumption
    <3> QED
      BY <3>1, SameListIs
  <2> QED
    BY <2>1
<1>4. IsSelector(s) <=> IsSelector(r)
  BY <1>1, <1>2, <1>3 DEF IsSelector
<1>5. Column(s, Sorted) = Column(r, Sorted)
  BY <1>1, <1>3 DEF Column
<1> QED
  BY <1>2, <1>4, <1>5

LEMMA SameListTurns ==
  ASSUME NEW s, NEW r, SameList(s, r)
  PROVE  SameList(r, s)
BY DEF SameList

LEMMA SameNodeIs ==
  ASSUME GraphAssumption, NEW a, NEW b, SameNode(a, b)
  PROVE  /\ SameNode(b, a)
         /\ \A ids : IsNode(a, ids) <=> IsNode(b, ids)
         /\ a.capabilitySelector = << >> <=> b.capabilitySelector = << >>
         /\ ToSet(a.dependsOn) = ToSet(b.dependsOn)
         /\ NormalNode(a) = NormalNode(b)
<1>1. /\ SameList(a.dependsOn, b.dependsOn)
      /\ SameList(a.requiredRuleIds, b.requiredRuleIds)
      /\ SameList(a.acceptanceCriteria, b.acceptanceCriteria)
  BY DEF SameNode
<1>2. MaxFacts \in Nat /\ MaxDependencies \in Nat
  BY GraphAssumption
<1>3. /\ a.capabilitySelector = << >> <=> b.capabilitySelector = << >>
      /\ IsSelector(a.capabilitySelector) <=> IsSelector(b.capabilitySelector)
      /\ Column(a.capabilitySelector, Sorted) = Column(b.capabilitySelector, Sorted)
  <2>1. PICK s \in Seq(Seq(Nat)) : s = a.capabilitySelector
    BY DEF SameNode
  <2>2. PICK r \in Seq(Seq(Nat)) : r = b.capabilitySelector
    BY DEF SameNode
  <2>3. DOMAIN s = DOMAIN r /\ \A i \in DOMAIN s : SameList(s[i], r[i])
    BY <2>1, <2>2 DEF SameNode
  <2>4. /\ s = << >> <=> r = << >>
        /\ IsSelector(s) <=> IsSelector(r)
        /\ Column(s, Sorted) = Column(r, Sorted)
    BY <2>3, SelectorsAreSame
  <2> QED
    BY <2>1, <2>2, <2>4
<1>4. /\ ToSet(a.dependsOn) = ToSet(b.dependsOn)
      /\ Sorted(a.dependsOn) = Sorted(b.dependsOn)
      /\ IsStringSet(a.dependsOn, MaxDependencies) <=> IsStringSet(b.dependsOn, MaxDependencies)
  <2>1. ToSet(a.dependsOn) = ToSet(b.dependsOn)
    BY <1>1 DEF SameList
  <2> QED
    BY <1>1, <1>2, <2>1, SameListIs
<1>5. /\ Sorted(a.requiredRuleIds) = Sorted(b.requiredRuleIds)
      /\ IsStringSet(a.requiredRuleIds, MaxFacts) <=> IsStringSet(b.requiredRuleIds, MaxFacts)
  BY <1>1, <1>2, SameListIs
<1>6. /\ Sorted(a.acceptanceCriteria) = Sorted(b.acceptanceCriteria)
      /\ a.acceptanceCriteria = << >> <=> b.acceptanceCriteria = << >>
      /\ IsInjective(a.acceptanceCriteria) <=> IsInjective(b.acceptanceCriteria)
  BY <1>1, SameListIs
<1>7. SameNode(b, a)
  <2>1. \A i \in DOMAIN b.capabilitySelector : SameList(b.capabilitySelector[i], a.capabilitySelector[i])
    <3>1. ASSUME NEW i \in DOMAIN b.capabilitySelector
          PROVE  SameList(b.capabilitySelector[i], a.capabilitySelector[i])
      <4>1. SameList(a.capabilitySelector[i], b.capabilitySelector[i])
        BY <3>1 DEF SameNode
      <4> QED
        BY <4>1, SameListTurns
    <3> QED
      BY <3>1
  <2>2. /\ SameList(b.dependsOn, a.dependsOn)
        /\ SameList(b.requiredRuleIds, a.requiredRuleIds)
        /\ SameList(b.acceptanceCriteria, a.acceptanceCriteria)
    BY <1>1, SameListTurns
  <2> QED
    BY <2>1, <2>2 DEF SameNode
<1>8. ASSUME NEW ids PROVE IsNode(a, ids) <=> IsNode(b, ids)
  BY <1>3, <1>4, <1>5, <1>6 DEF IsNode
<1>9. NormalNode(a) = NormalNode(b)
  <2>1. a.id = b.id /\ a.priority = b.priority
    BY DEF SameNode
  <2> QED
    BY <1>3, <1>4, <1>5, <1>6, <2>1 DEF NormalNode, NodeWith
<1> QED
  BY <1>3, <1>4, <1>7, <1>8, <1>9
\* Lists of nodes that say the same.
SayTheSame(nodes, others) ==
  /\ \A a \in ToSet(nodes) : \E b \in ToSet(others) : SameNode(a, b)
  /\ \A b \in ToSet(others) : \E a \in ToSet(nodes) : SameNode(a, b)
SameNodes(nodes, others) ==
  /\ AreListed(nodes) /\ AreListed(others)
  /\ Len(nodes) = Len(others) /\ SayTheSame(nodes, others)

LEMMA SameNodesTurn ==
  ASSUME GraphAssumption, NEW nodes, NEW others, SameNodes(nodes, others)
  PROVE  SameNodes(others, nodes)
<1>1. \A a, b : SameNode(a, b) => SameNode(b, a)
  BY SameNodeIs
<1> QED
  BY <1>1 DEF SameNodes, SayTheSame

LEMMA IdsAre ==
  ASSUME NEW nodes, AreListed(nodes)
  PROVE  /\ Ids(nodes) \in Seq(ToSet(Ids(nodes))) /\ Len(Ids(nodes)) = Len(nodes)
         /\ NodeIds(nodes) = ToSet(Ids(nodes))
         /\ NodeIds(nodes) = {node.id : node \in ToSet(nodes)}
         /\ nodes = << >> <=> Len(nodes) = 0
<1>1. PICK n \in Nat : n = Len(nodes) /\ DOMAIN nodes = 1 .. n
  BY DEF AreListed
<1>2. PICK ids : ids = Ids(nodes)
  OBVIOUS
<1>3. ids = [i \in 1 .. n |-> nodes[i].id]
  BY <1>1, <1>2 DEF Ids, Column
<1>4. DOMAIN ids = 1 .. n /\ \A i \in 1 .. n : ids[i] = nodes[i].id
  BY <1>3
<1>5. \A i \in 1 .. n : ids[i] \in ToSet(ids)
  BY <1>4 DEF ToSet
<1>6. ids \in Seq(ToSet(ids)) /\ Len(ids) = n
  <2>1. ids = [i \in 1 .. n |-> ids[i]]
    BY <1>3
  <2> QED
    BY <1>5, <2>1
<1>7. ToSet(ids) = {ids[i] : i \in 1 .. n} /\ ToSet(nodes) = {nodes[i] : i \in 1 .. n}
  BY <1>1, <1>4 DEF ToSet
<1>8. ToSet(ids) = {node.id : node \in ToSet(nodes)}
  BY <1>4, <1>7
<1>9. NodeIds(nodes) = ToSet(ids)
  BY <1>2 DEF NodeIds
<1>10. nodes = << >> <=> Len(nodes) = 0
  BY DEF AreListed
<1> QED
  BY <1>1, <1>2, <1>6, <1>8, <1>9, <1>10

LEMMA SameIds ==
  ASSUME NEW nodes, NEW others, SameNodes(nodes, others)
  PROVE  NodeIds(nodes) = NodeIds(others) /\ SameList(Ids(nodes), Ids(others))
<1>1. AreListed(nodes) /\ AreListed(others) /\ Len(nodes) = Len(others)
  BY DEF SameNodes
<1>2. /\ Ids(nodes) \in Seq(ToSet(Ids(nodes))) /\ Len(Ids(nodes)) = Len(nodes)
      /\ NodeIds(nodes) = ToSet(Ids(nodes))
      /\ NodeIds(nodes) = {node.id : node \in ToSet(nodes)}
  BY <1>1, IdsAre
<1>3. /\ Ids(others) \in Seq(ToSet(Ids(others))) /\ Len(Ids(others)) = Len(others)
      /\ NodeIds(others) = ToSet(Ids(others))
      /\ NodeIds(others) = {node.id : node \in ToSet(others)}
  BY <1>1, IdsAre
<1>4. {node.id : node \in ToSet(nodes)} = {node.id : node \in ToSet(others)}
  <2>1. \A a \in ToSet(nodes) : \E b \in ToSet(others) : a.id = b.id
    BY DEF SameNodes, SayTheSame, SameNode
  <2>2. \A b \in ToSet(others) : \E a \in ToSet(nodes) : a.id = b.id
    BY DEF SameNodes, SayTheSame, SameNode
  <2> QED
    BY <2>1, <2>2
<1>5. NodeIds(nodes) = NodeIds(others)
  BY <1>2, <1>3, <1>4
<1>6. SameList(Ids(nodes), Ids(others))
  BY <1>1, <1>2, <1>3, <1>5 DEF SameList
<1> QED
  BY <1>5, <1>6

LEMMA SameAreNodes ==
  ASSUME GraphAssumption, NEW nodes, NEW others, SameNodes(nodes, others), AreNodes(nodes)
  PROVE  AreNodes(others)
<1>1. PICK ids : ids = NodeIds(nodes) /\ ids = NodeIds(others)
  BY SameIds
<1>2. /\ nodes # << >> /\ IsStringSet(Ids(nodes), MaxNodes)
      /\ \A node \in ToSet(nodes) : IsNode(node, ids)
      /\ \E node \in ToSet(nodes) : node.priority = "mandatory" /\ node.capabilitySelector # << >>
  BY <1>1 DEF AreNodes, IsNode
<1>3. others # << >>
  <2>1. AreListed(nodes) /\ AreListed(others) /\ Len(nodes) = Len(others)
    BY DEF SameNodes
  <2>2. (nodes = << >> <=> Len(nodes) = 0) /\ (others = << >> <=> Len(others) = 0)
    BY <2>1, IdsAre
  <2> QED
    BY <1>2, <2>1, <2>2
<1>4. IsStringSet(Ids(others), MaxNodes)
  <2>1. SameList(Ids(nodes), Ids(others)) /\ MaxNodes \in Nat
    BY SameIds, GraphAssumption
  <2> QED
    BY <1>2, <2>1, SameListIs
<1>5. ASSUME NEW b \in ToSet(others) PROVE IsNode(b, ids)
  <2>1. PICK a \in ToSet(nodes) : SameNode(a, b)
    BY DEF SameNodes, SayTheSame
  <2>2. IsNode(a, ids) <=> IsNode(b, ids)
    BY <2>1, SameNodeIs
  <2> QED
    BY <1>2, <2>2
<1>6. \E node \in ToSet(others) : node.priority = "mandatory" /\ node.capabilitySelector # << >>
  <2>1. PICK a \in ToSet(nodes) : a.priority = "mandatory" /\ a.capabilitySelector # << >>
    BY <1>2
  <2>2. PICK b \in ToSet(others) : SameNode(a, b)
    BY DEF SameNodes, SayTheSame
  <2>3. a.priority = b.priority /\ (a.capabilitySelector = << >> <=> b.capabilitySelector = << >>)
    BY <2>2, SameNodeIs DEF SameNode
  <2> QED
    BY <2>1, <2>3
<1> QED
  BY <1>1, <1>3, <1>4, <1>5, <1>6 DEF AreNodes, IsNode

LEMMA SameById ==
  ASSUME GraphAssumption, NEW nodes, NEW others, SameNodes(nodes, others), AreNodes(nodes), AreNodes(others),
         NEW x \in NodeIds(nodes)
  PROVE  SameNode(ById(nodes, x), ById(others, x))
<1>1. AreListed(nodes) /\ AreListed(others) /\ x \in NodeIds(others)
  BY SameIds DEF SameNodes
<1>2. PICK a \in ToSet(nodes) : a = ById(nodes, x) /\ a.id = x
  BY <1>1, NodesHaveIds
<1>3. PICK b \in ToSet(others) : SameNode(a, b)
  BY DEF SameNodes, SayTheSame
<1>4. b.id = x
  BY <1>2, <1>3 DEF SameNode
<1>5. ById(others, b.id) = b
  BY <1>1, NodesHaveIds
<1> QED
  BY <1>2, <1>3, <1>4, <1>5

\* Two lists that are both greedy and complete are one.
LEMMA GreedyIsOne ==
  ASSUME NEW D, IsDependence(D), NEW n \in Nat, n = Cardinality(DOMAIN D),
         NEW s \in Seq(DOMAIN D), Greedy(D, s), Len(s) = n,
         NEW r \in Seq(DOMAIN D), Greedy(D, r), Len(r) = n
  PROVE  s = r
<1>1. SUFFICES ASSUME s # r PROVE FALSE
  OBVIOUS
<1>2. s \in [1 .. n -> DOMAIN D] /\ r \in [1 .. n -> DOMAIN D]
  OBVIOUS
<1>3. IsInjective(s) /\ IsInjective(r)
  BY GreedyIsClosed
<1>4. /\ \A i \in 1 .. n : D[s[i]] \subseteq Leading(s, i - 1)
      /\ \A i \in 1 .. n : D[r[i]] \subseteq Leading(r, i - 1)
  BY <1>2 DEF Greedy, Takeable
<1>5. Before(s, r)
  BY <1>1, <1>2, <1>3, <1>4, GreedyIsFirst
<1>6. Before(r, s)
  BY <1>1, <1>2, <1>3, <1>4, GreedyIsFirst
<1>7. PICK i \in 1 .. n : s[i] < r[i] /\ \A j \in 1 .. i - 1 : s[j] = r[j]
  BY <1>2, <1>5 DEF Before
<1>8. PICK k \in 1 .. n : r[k] < s[k] /\ \A j \in 1 .. k - 1 : r[j] = s[j]
  BY <1>2, <1>6 DEF Before
<1>9. \A j \in 1 .. n : s[j] \in Nat /\ r[j] \in Nat
  BY <1>2 DEF IsDependence
<1>10. i < k => r[i] = s[i]
  BY <1>8
<1>11. k < i => s[k] = r[k]
  BY <1>7
<1>12. i = k
  BY <1>7, <1>8, <1>9, <1>10, <1>11
<1> QED
  BY <1>7, <1>8, <1>9, <1>12

\* The order of the nodes goes by what they say, not by how they are listed.
LEMMA SameOrder ==
  ASSUME GraphAssumption, NEW nodes, NEW others, SameNodes(nodes, others), AreNodes(nodes)
  PROVE  /\ Acyclic(nodes) <=> Acyclic(others)
         /\ Acyclic(nodes) => NormalizeNodes(nodes) = NormalizeNodes(others)
<1>1. AreNodes(others) /\ AreListed(nodes) /\ AreListed(others) /\ Len(nodes) = Len(others)
  BY SameAreNodes DEF SameNodes
<1>2. PICK I : I = NodeIds(nodes) /\ I = NodeIds(others)
  BY SameIds
<1>3. \A x \in I : SameNode(ById(nodes, x), ById(others, x))
  BY <1>1, <1>2, SameById
<1>4. \A x \in I : /\ ToSet(ById(nodes, x).dependsOn) = ToSet(ById(others, x).dependsOn)
                   /\ NormalNode(ById(nodes, x)) = NormalNode(ById(others, x))
  BY <1>3, SameNodeIs
<1>5. PICK D : D = Depends(nodes) /\ D = Depends(others)
  BY <1>2, <1>4 DEF Depends
<1>6. DOMAIN D = I /\ IsDependence(D)
  BY <1>1, <1>2, <1>5, DependsIs
<1>7. PICK n \in Nat : n = Len(nodes) /\ n = Len(others) /\ n = Cardinality(I)
  BY <1>1, <1>2, NodesHaveIds
<1>8. PICK s : s = Ordered(nodes)
  OBVIOUS
<1>9. PICK r : r = Ordered(others)
  OBVIOUS
<1>10. s \in Seq(I) /\ Greedy(D, s) /\ (Len(s) = n \/ Takeable(D, ToSet(s)) = {})
  BY <1>1, <1>5, <1>6, <1>7, <1>8, OrderedIsGreedy
<1>11. r \in Seq(I) /\ Greedy(D, r) /\ (Len(r) = n \/ Takeable(D, ToSet(r)) = {})
  BY <1>1, <1>5, <1>6, <1>7, <1>9, OrderedIsGreedy
<1>12. Acyclic(nodes) <=> Len(s) = n
  BY <1>7, <1>8 DEF Acyclic
<1>13. Acyclic(others) <=> Len(r) = n
  BY <1>7, <1>9 DEF Acyclic
<1>14. /\ Len(s) = n <=> ~ \E ids \in (SUBSET I) \ {{}} : \A id \in ids : D[id] \cap ids # {}
       /\ Len(s) = n => ToSet(s) = I
  BY <1>6, <1>7, <1>10, CompleteWithoutCycle
<1>15. Len(r) = n <=> ~ \E ids \in (SUBSET I) \ {{}} : \A id \in ids : D[id] \cap ids # {}
  BY <1>6, <1>7, <1>11, CompleteWithoutCycle
<1>16. Acyclic(nodes) <=> Acyclic(others)
  BY <1>12, <1>13, <1>14, <1>15
<1>17. ASSUME Acyclic(nodes) PROVE NormalizeNodes(nodes) = NormalizeNodes(others)
  <2>1. Len(s) = n /\ Len(r) = n
    BY <1>12, <1>13, <1>16, <1>17
  <2>2. s = r
    BY <1>6, <1>7, <1>10, <1>11, <2>1, GreedyIsOne
  <2>3. \A i \in DOMAIN s : s[i] \in I
    BY <1>10
  <2> QED
    BY <1>4, <1>8, <1>9, <2>2, <2>3 DEF NormalizeNodes, Column
<1> QED
  BY <1>16, <1>17
-----------------------------------------------------------------------------
\* What says the same as a list of numbers is one.
LEMMA SameNumbers ==
  ASSUME NEW s \in Seq(Nat), NEW r, SameList(s, r)
  PROVE  r \in Seq(Nat)
<1>1. r \in Seq(ToSet(s)) /\ ToSet(s) \subseteq Nat
  BY SequenceFinite DEF SameList
<1>2. PICK C : C = ToSet(s)
  OBVIOUS
<1>3. PICK q \in Seq(C) : q = r
  BY <1>1, <1>2
<1>4. \A i \in DOMAIN q : q[i] \in C
  OBVIOUS
<1>5. \A i \in DOMAIN q : q[i] \in Nat
  BY <1>1, <1>2, <1>4
<1> QED
  BY <1>3, <1>5

LEMMA ListedAsSame ==
  ASSUME NEW nodes, AreListed(nodes), NEW others, others \in Seq(ToSet(others)),
         Len(nodes) = Len(others), SayTheSame(nodes, others)
  PROVE  SameNodes(nodes, others)
<1>1. ASSUME NEW b \in ToSet(others)
      PROVE  /\ b.id \in Nat
             /\ {b.dependsOn, b.requiredRuleIds, b.acceptanceCriteria} \subseteq Seq(Nat)
             /\ b.capabilitySelector \in Seq(Seq(Nat))
  <2>1. PICK a \in ToSet(nodes) : SameNode(a, b)
    BY DEF SayTheSame
  <2>2. a.id \in Nat /\ a.dependsOn \in Seq(Nat) /\ a.requiredRuleIds \in Seq(Nat) /\ a.acceptanceCriteria \in Seq(Nat)
    BY DEF AreListed
  <2>3. /\ a.id = b.id /\ SameList(a.dependsOn, b.dependsOn)
        /\ SameList(a.requiredRuleIds, b.requiredRuleIds)
        /\ SameList(a.acceptanceCriteria, b.acceptanceCriteria)
        /\ b.capabilitySelector \in Seq(Seq(Nat))
    BY <2>1 DEF SameNode
  <2>4. b.dependsOn \in Seq(Nat)
    BY <2>2, <2>3, SameNumbers
  <2>5. b.requiredRuleIds \in Seq(Nat)
    BY <2>2, <2>3, SameNumbers
  <2>6. b.acceptanceCriteria \in Seq(Nat)
    BY <2>2, <2>3, SameNumbers
  <2> QED
    BY <2>2, <2>3, <2>4, <2>5, <2>6
<1>2. AreListed(others)
  BY <1>1 DEF AreListed
<1> QED
  BY <1>2 DEF SameNodes

\* Drafts that say the same.
SameConstraints(c, r) ==
  /\ SameList(c.allowedLicenses, r.allowedLicenses)
  /\ c.maximumTotalCostMicros = r.maximumTotalCostMicros
  /\ c.costCurrency = r.costCurrency /\ c.billingPeriod = r.billingPeriod
SameDraft(d, e) ==
  /\ d.tenantId = e.tenantId /\ d.revision = e.revision
  /\ d.selectorVocabularyDigest = e.selectorVocabularyDigest
  /\ SameList(d.facts, e.facts) /\ SameNodes(d.nodes, e.nodes)
  /\ SameConstraints(d.constraints, e.constraints)
  /\ SameList(d.approvalIntents, e.approvalIntents)

LEMMA SameDraftTurns ==
  ASSUME GraphAssumption, NEW d, NEW e, SameDraft(d, e)
  PROVE  SameDraft(e, d)
<1>1. SameNodes(e.nodes, d.nodes)
  <2>1. SameNodes(d.nodes, e.nodes)
    BY DEF SameDraft
  <2> QED
    BY <2>1, SameNodesTurn
<1>2. SameConstraints(e.constraints, d.constraints)
  <2>1. SameConstraints(d.constraints, e.constraints)
    BY DEF SameDraft
  <2>2. SameList(e.constraints.allowedLicenses, d.constraints.allowedLicenses)
    BY <2>1, SameListTurns DEF SameConstraints
  <2> QED
    BY <2>1, <2>2 DEF SameConstraints
<1>3. SameList(e.facts, d.facts) /\ SameList(e.approvalIntents, d.approvalIntents)
  BY SameListTurns DEF SameDraft
<1> QED
  BY <1>1, <1>2, <1>3 DEF SameDraft

LEMMA IntentsAreSame ==
  ASSUME GraphAssumption, NEW s, NEW r, SameList(s, r), NEW nodes, NEW others, NodeIds(nodes) = NodeIds(others),
         NEW c, NEW k, SameConstraints(c, k)
  PROVE  AreApprovalIntents(s, nodes, c) <=> AreApprovalIntents(r, others, k)
<1>1. Column(s, LAMBDA intent : intent.id) = InField(s, "id")
  BY DEF Column, InField
<1>2. Column(r, LAMBDA intent : intent.id) = InField(r, "id")
  BY DEF Column, InField
<1>3. SameList(InField(s, "id"), InField(r, "id"))
  BY FieldsAreSame
<1>4. IsStringSet(InField(s, "id"), MaxNodes) <=> IsStringSet(InField(r, "id"), MaxNodes)
  <2>1. MaxNodes \in Nat
    BY GraphAssumption
  <2> QED
    BY <1>3, <2>1, SameListIs
<1>5. \A target : IsApprovalTarget(target, nodes, c) <=> IsApprovalTarget(target, others, k)
  BY DEF IsApprovalTarget, SameConstraints
<1>6. ToSet(s) = ToSet(r)
  BY DEF SameList
<1> QED
  BY <1>1, <1>2, <1>4, <1>5, <1>6 DEF AreApprovalIntents

\* Of nodes, and of drafts, that say the same, the entries are as many.
LEMMA NodeEntriesAreSame ==
  ASSUME GraphAssumption, NEW nodes, NEW others, SameNodes(nodes, others)
  PROVE  NodeEntries(nodes) = NodeEntries(others)
<1>1. \A a \in ToSet(nodes), b \in ToSet(others) : SameNode(a, b) =>
        /\ a.id = b.id /\ ToSet(a.dependsOn) = ToSet(b.dependsOn)
        /\ ToSet(a.requiredRuleIds) = ToSet(b.requiredRuleIds)
        /\ ToSet(a.acceptanceCriteria) = ToSet(b.acceptanceCriteria)
        /\ Selected(a) = Selected(b)
        /\ a.capabilitySelector = << >> <=> b.capabilitySelector = << >>
  <2>1. SUFFICES ASSUME NEW a \in ToSet(nodes), NEW b \in ToSet(others), SameNode(a, b)
                 PROVE  /\ a.id = b.id /\ ToSet(a.dependsOn) = ToSet(b.dependsOn)
                        /\ ToSet(a.requiredRuleIds) = ToSet(b.requiredRuleIds)
                        /\ ToSet(a.acceptanceCriteria) = ToSet(b.acceptanceCriteria)
                        /\ Selected(a) = Selected(b)
                        /\ a.capabilitySelector = << >> <=> b.capabilitySelector = << >>
    OBVIOUS
  <2>2. /\ a.id = b.id /\ ToSet(a.dependsOn) = ToSet(b.dependsOn)
        /\ ToSet(a.requiredRuleIds) = ToSet(b.requiredRuleIds)
        /\ ToSet(a.acceptanceCriteria) = ToSet(b.acceptanceCriteria)
    BY <2>1 DEF SameNode, SameList
  <2>3. a.capabilitySelector = << >> <=> b.capabilitySelector = << >>
    BY <2>1, SameNodeIs
  <2>4. /\ DOMAIN a.capabilitySelector = DOMAIN b.capabilitySelector
        /\ \A i \in DOMAIN a.capabilitySelector : ToSet(a.capabilitySelector[i]) = ToSet(b.capabilitySelector[i])
    BY <2>1 DEF SameNode, SameList
  <2>5. Selected(a) = Selected(b)
    BY <2>4 DEF Selected
  <2> QED
    BY <2>2, <2>3, <2>5
<1>2. /\ \A a \in ToSet(nodes) : \E b \in ToSet(others) : SameNode(a, b)
      /\ \A b \in ToSet(others) : \E a \in ToSet(nodes) : SameNode(a, b)
  BY DEF SameNodes, SayTheSame
<1>3. InNodes(nodes, Selected) = InNodes(others, Selected)
  <2>1. \A a \in ToSet(nodes) : \E b \in ToSet(others) : {a.id} \X Selected(a) = {b.id} \X Selected(b)
    BY <1>1, <1>2
  <2>2. \A b \in ToSet(others) : \E a \in ToSet(nodes) : {a.id} \X Selected(a) = {b.id} \X Selected(b)
    BY <1>1, <1>2
  <2>3. {{node.id} \X Selected(node) : node \in ToSet(nodes)} = {{node.id} \X Selected(node) : node \in ToSet(others)}
    BY <2>1, <2>2
  <2> QED
    BY <2>3 DEF InNodes
<1>4. InNodes(nodes, LAMBDA node : ToSet(node.dependsOn)) = InNodes(others, LAMBDA node : ToSet(node.dependsOn))
  <2>1. \A a \in ToSet(nodes) : \E b \in ToSet(others) : {a.id} \X ToSet(a.dependsOn) = {b.id} \X ToSet(b.dependsOn)
    BY <1>1, <1>2
  <2>2. \A b \in ToSet(others) : \E a \in ToSet(nodes) : {a.id} \X ToSet(a.dependsOn) = {b.id} \X ToSet(b.dependsOn)
    BY <1>1, <1>2
  <2>3. {{node.id} \X ToSet(node.dependsOn) : node \in ToSet(nodes)} = {{node.id} \X ToSet(node.dependsOn) : node \in ToSet(others)}
    BY <2>1, <2>2
  <2> QED
    BY <2>3 DEF InNodes
<1>5. InNodes(nodes, LAMBDA node : ToSet(node.requiredRuleIds)) = InNodes(others, LAMBDA node : ToSet(node.requiredRuleIds))
  <2>1. \A a \in ToSet(nodes) : \E b \in ToSet(others) : {a.id} \X ToSet(a.requiredRuleIds) = {b.id} \X ToSet(b.requiredRuleIds)
    BY <1>1, <1>2
  <2>2. \A b \in ToSet(others) : \E a \in ToSet(nodes) : {a.id} \X ToSet(a.requiredRuleIds) = {b.id} \X ToSet(b.requiredRuleIds)
    BY <1>1, <1>2
  <2>3. {{node.id} \X ToSet(node.requiredRuleIds) : node \in ToSet(nodes)} = {{node.id} \X ToSet(node.requiredRuleIds) : node \in ToSet(others)}
    BY <2>1, <2>2
  <2> QED
    BY <2>3 DEF InNodes
<1>6. InNodes(nodes, LAMBDA node : ToSet(node.acceptanceCriteria)) = InNodes(others, LAMBDA node : ToSet(node.acceptanceCriteria))
  <2>1. \A a \in ToSet(nodes) : \E b \in ToSet(others) : {a.id} \X ToSet(a.acceptanceCriteria) = {b.id} \X ToSet(b.acceptanceCriteria)
    BY <1>1, <1>2
  <2>2. \A b \in ToSet(others) : \E a \in ToSet(nodes) : {a.id} \X ToSet(a.acceptanceCriteria) = {b.id} \X ToSet(b.acceptanceCriteria)
    BY <1>1, <1>2
  <2>3. {{node.id} \X ToSet(node.acceptanceCriteria) : node \in ToSet(nodes)} = {{node.id} \X ToSet(node.acceptanceCriteria) : node \in ToSet(others)}
    BY <2>1, <2>2
  <2> QED
    BY <2>3 DEF InNodes
<1>7. Selecting(nodes) = Selecting(others)
  BY <1>1, <1>2 DEF Selecting
<1>8. Len(nodes) = Len(others)
  BY DEF SameNodes
<1> QED
  BY <1>3, <1>4, <1>5, <1>6, <1>7, <1>8 DEF NodeEntries

LEMMA EntriesAreSame ==
  ASSUME GraphAssumption, NEW d, NEW e, SameDraft(d, e)
  PROVE  Entries(d) = Entries(e)
<1>1. NodeEntries(d.nodes) = NodeEntries(e.nodes)
  BY NodeEntriesAreSame DEF SameDraft
<1>2. /\ Len(d.facts) = Len(e.facts) /\ Len(d.approvalIntents) = Len(e.approvalIntents)
      /\ ToSet(d.approvalIntents) = ToSet(e.approvalIntents)
      /\ Len(d.constraints.allowedLicenses) = Len(e.constraints.allowedLicenses)
      /\ d.constraints.costCurrency = e.constraints.costCurrency
      /\ d.constraints.maximumTotalCostMicros = e.constraints.maximumTotalCostMicros
  BY DEF SameDraft, SameConstraints, SameList
<1> QED
  BY <1>1, <1>2 DEF Entries, IntentEntries

\* Of drafts that say the same, one is well formed if the other is, and they have one
\* normal form.
LEMMA DraftsAreSame ==
  ASSUME GraphAssumption, NEW d, NEW e, SameDraft(d, e), WellFormed(d)
  PROVE  WellFormed(e) /\ NormalizeGraphDraft(d) = NormalizeGraphDraft(e)
<1>1. /\ SameList(d.facts, e.facts) /\ SameNodes(d.nodes, e.nodes)
      /\ SameConstraints(d.constraints, e.constraints)
      /\ SameList(d.approvalIntents, e.approvalIntents)
  BY DEF SameDraft
<1>2. /\ AreFacts(d.facts) /\ AreNodes(d.nodes) /\ AreConstraints(d.constraints) /\ Acyclic(d.nodes)
      /\ AreApprovalIntents(d.approvalIntents, d.nodes, d.constraints)
  BY DEF WellFormed
<1>3. AreFacts(e.facts) /\ SortedBy(d.facts, "key") = SortedBy(e.facts, "key")
  BY <1>1, <1>2, FactsAreSame, SameListIs
<1>4. AreNodes(e.nodes) /\ NodeIds(d.nodes) = NodeIds(e.nodes)
  BY <1>1, <1>2, SameAreNodes, SameIds
<1>5. Acyclic(e.nodes) /\ NormalizeNodes(d.nodes) = NormalizeNodes(e.nodes)
  BY <1>1, <1>2, SameOrder
<1>6. SameList(d.constraints.allowedLicenses, e.constraints.allowedLicenses)
  BY <1>1 DEF SameConstraints
<1>7. /\ Sorted(d.constraints.allowedLicenses) = Sorted(e.constraints.allowedLicenses)
      /\ IsStringSet(d.constraints.allowedLicenses, MaxFacts) => IsStringSet(e.constraints.allowedLicenses, MaxFacts)
  <2>1. MaxFacts \in Nat
    BY GraphAssumption
  <2> QED
    BY <1>6, <2>1, SameListIs
<1>8. AreConstraints(e.constraints)
  BY <1>1, <1>2, <1>7 DEF AreConstraints, SameConstraints
<1>9. AreApprovalIntents(e.approvalIntents, e.nodes, e.constraints)
  BY <1>1, <1>2, <1>4, IntentsAreSame
<1>10. SortedBy(d.approvalIntents, "id") = SortedBy(e.approvalIntents, "id")
  BY <1>1, SameListIs
<1>11. WellFormed(e)
  <2>1. Entries(e) <= MaxEntries
    BY EntriesAreSame DEF WellFormed
  <2> QED
    BY <1>3, <1>4, <1>5, <1>8, <1>9, <2>1 DEF WellFormed
<1>12. NormalizeGraphDraft(d) = NormalizeGraphDraft(e)
  BY <1>1, <1>3, <1>5, <1>7, <1>10 DEF NormalizeGraphDraft, DraftWith, SameDraft, SameConstraints
<1> QED
  BY <1>11, <1>12

LEMMA NumbersAreListed ==
  ASSUME NEW s \in Seq(Nat)
  PROVE  s \in Seq(ToSet(s)) /\ SameList(s, Reverse(s)) /\ Reverse(s) \in Seq(Nat)
<1>1. \A i \in DOMAIN s : s[i] \in ToSet(s)
  BY DEF ToSet
<1>2. s \in Seq(ToSet(s))
  BY <1>1
<1>3. SameList(s, Reverse(s))
  BY <1>2, ReversedIsSame
<1> QED
  BY <1>2, <1>3, SameNumbers

LEMMA TurnedIsSame ==
  ASSUME NEW nodes, AreListed(nodes), NEW node \in ToSet(nodes)
  PROVE  SameNode(node, Turned(node))
<1>1. /\ node.dependsOn \in Seq(Nat) /\ node.requiredRuleIds \in Seq(Nat) /\ node.acceptanceCriteria \in Seq(Nat)
      /\ node.capabilitySelector \in Seq(Seq(Nat))
  BY DEF AreListed
<1>2. PICK s \in Seq(Seq(Nat)) : s = node.capabilitySelector
  BY <1>1
<1>3. PICK r : r = [i \in DOMAIN s |-> Reverse(s[i])]
  OBVIOUS
<1>4. ASSUME NEW i \in DOMAIN s PROVE r[i] \in Seq(Nat) /\ SameList(s[i], r[i])
  <2>1. PICK q \in Seq(Nat) : q = s[i]
    BY <1>4
  <2>2. SameList(q, Reverse(q)) /\ Reverse(q) \in Seq(Nat)
    BY NumbersAreListed
  <2> QED
    BY <1>3, <2>1, <2>2
<1>5. r \in Seq(Seq(Nat)) /\ DOMAIN r = DOMAIN s
  <2>1. PICK n \in Nat : DOMAIN s = 1 .. n
    OBVIOUS
  <2>2. r \in [1 .. n -> Seq(Nat)]
    BY <1>3, <1>4, <2>1
  <2> QED
    BY <1>3, <2>2
<1>6. PICK t : t = Turned(node)
  OBVIOUS
<1>7. /\ t.id = node.id /\ t.priority = node.priority /\ t.capabilitySelector = r
      /\ t.dependsOn = Reverse(node.dependsOn) /\ t.requiredRuleIds = Reverse(node.requiredRuleIds)
      /\ t.acceptanceCriteria = Reverse(node.acceptanceCriteria)
  BY <1>2, <1>3, <1>6 DEF Turned, NodeWith, Column
<1>8. /\ SameList(node.dependsOn, t.dependsOn) /\ SameList(node.requiredRuleIds, t.requiredRuleIds)
      /\ SameList(node.acceptanceCriteria, t.acceptanceCriteria)
  BY <1>1, <1>7, NumbersAreListed
<1> QED
  BY <1>2, <1>4, <1>5, <1>6, <1>7, <1>8 DEF SameNode

LEMMA RelistedIsSame ==
  ASSUME NEW d, IsListed(d)
  PROVE  SameDraft(d, Relisted(d))
<1>1. PICK nodes : nodes = d.nodes /\ AreListed(nodes)
  BY DEF IsListed
<1>2. PICK n \in Nat : n = Len(nodes) /\ DOMAIN nodes = 1 .. n
  BY <1>1 DEF AreListed
<1>3. PICK turned : turned = [i \in 1 .. n |-> Turned(nodes[i])]
  OBVIOUS
<1>4. DOMAIN turned = 1 .. n /\ \A i \in 1 .. n : turned[i] = Turned(nodes[i])
  BY <1>3
<1>5. \A i \in 1 .. n : turned[i] \in ToSet(turned)
  BY <1>4 DEF ToSet
<1>6. turned \in Seq(ToSet(turned)) /\ Len(turned) = n
  <2>1. turned \in [1 .. n -> ToSet(turned)]
    BY <1>3, <1>5
  <2> QED
    BY <2>1
<1>7. PICK others : others = Reverse(turned)
  OBVIOUS
<1>8. SameList(turned, others)
  BY <1>6, <1>7, ReversedIsSame
<1>9. /\ ToSet(nodes) = {nodes[i] : i \in 1 .. n} /\ ToSet(turned) = {turned[i] : i \in 1 .. n}
      /\ ToSet(others) = ToSet(turned)
  BY <1>2, <1>4, <1>8 DEF ToSet, SameList
<1>10. \A i \in 1 .. n : SameNode(nodes[i], turned[i])
  BY <1>1, <1>4, <1>9, TurnedIsSame
<1>11. SayTheSame(nodes, others)
  BY <1>9, <1>10 DEF SayTheSame
<1>12. SameNodes(nodes, others)
  <2>1. others \in Seq(ToSet(others)) /\ Len(nodes) = Len(others)
    BY <1>2, <1>6, <1>8 DEF SameList
  <2> QED
    BY <1>1, <1>11, <2>1, ListedAsSame
<1>13. Relisted(d).nodes = others
  <2>1. Column(nodes, Turned) = turned
    BY <1>2, <1>3 DEF Column
  <2> QED
    BY <1>1, <1>7, <2>1 DEF Relisted, DraftWith
<1>14. SameList(d.facts, Reverse(d.facts)) /\ SameList(d.approvalIntents, Reverse(d.approvalIntents))
  BY ReversedIsSame DEF IsListed
<1>15. SameList(d.constraints.allowedLicenses, Reverse(d.constraints.allowedLicenses))
  BY NumbersAreListed DEF IsListed
<1>16. SameConstraints(d.constraints, Relisted(d).constraints)
  BY <1>15 DEF SameConstraints, Relisted, DraftWith
<1>17. /\ Relisted(d).tenantId = d.tenantId /\ Relisted(d).revision = d.revision
       /\ Relisted(d).selectorVocabularyDigest = d.selectorVocabularyDigest
       /\ Relisted(d).facts = Reverse(d.facts) /\ Relisted(d).approvalIntents = Reverse(d.approvalIntents)
  BY DEF Relisted, DraftWith
<1> QED
  BY <1>1, <1>12, <1>13, <1>14, <1>16, <1>17 DEF SameDraft

\* A node in normal form says the same, if nothing is twice in its lists.
LEMMA NormalNodeIsSame ==
  ASSUME NEW nodes, AreListed(nodes), AreNodes(nodes), NEW node \in ToSet(nodes)
  PROVE  SameNode(node, NormalNode(node))
<1>1. /\ node.dependsOn \in Seq(Nat) /\ node.requiredRuleIds \in Seq(Nat) /\ node.acceptanceCriteria \in Seq(Nat)
      /\ node.capabilitySelector \in Seq(Seq(Nat))
  BY DEF AreListed
<1>2. /\ IsInjective(node.dependsOn) /\ IsInjective(node.requiredRuleIds) /\ IsInjective(node.acceptanceCriteria)
      /\ IsSelector(node.capabilitySelector)
  BY DEF AreNodes, IsStringSet
<1>3. PICK s \in Seq(Seq(Nat)) : s = node.capabilitySelector
  BY <1>1
<1>4. PICK r : r = [i \in DOMAIN s |-> Sorted(s[i])]
  OBVIOUS
<1>5. ASSUME NEW i \in DOMAIN s PROVE r[i] \in Seq(Nat) /\ SameList(s[i], r[i])
  <2>1. PICK q \in Seq(Nat) : q = s[i]
    BY <1>5
  <2>2. IsInjective(q)
    <3>1. s # << >>
      BY <1>5
    <3> QED
      BY <1>2, <1>3, <1>5, <2>1, <3>1 DEF IsSelector, IsStringSet
  <2>3. SameList(q, Sorted(q)) /\ Sorted(q) \in Seq(Nat)
    BY <2>2, SortedIsSame
  <2> QED
    BY <1>4, <2>1, <2>3
<1>6. r \in Seq(Seq(Nat)) /\ DOMAIN r = DOMAIN s
  <2>1. PICK n \in Nat : DOMAIN s = 1 .. n
    OBVIOUS
  <2>2. r \in [1 .. n -> Seq(Nat)]
    BY <1>4, <1>5, <2>1
  <2> QED
    BY <1>4, <2>2
<1>7. PICK t : t = NormalNode(node)
  OBVIOUS
<1>8. /\ t.id = node.id /\ t.priority = node.priority /\ t.capabilitySelector = r
      /\ t.dependsOn = Sorted(node.dependsOn) /\ t.requiredRuleIds = Sorted(node.requiredRuleIds)
      /\ t.acceptanceCriteria = Sorted(node.acceptanceCriteria)
  BY <1>3, <1>4, <1>7 DEF NormalNode, NodeWith, Column
<1>9. /\ SameList(node.dependsOn, t.dependsOn) /\ SameList(node.requiredRuleIds, t.requiredRuleIds)
      /\ SameList(node.acceptanceCriteria, t.acceptanceCriteria)
  BY <1>1, <1>2, <1>8, SortedIsSame
<1> QED
  BY <1>3, <1>5, <1>6, <1>7, <1>8, <1>9 DEF SameNode

LEMMA NormalNodesAreSame ==
  ASSUME NEW nodes, AreListed(nodes), AreNodes(nodes), Acyclic(nodes)
  PROVE  SameNodes(nodes, NormalizeNodes(nodes))
<1>1. PICK D : D = Depends(nodes)
  OBVIOUS
<1>2. PICK I : I = NodeIds(nodes) /\ I = DOMAIN D /\ IsDependence(D)
  BY <1>1, DependsIs
<1>3. PICK n \in Nat : n = Len(nodes) /\ n = Cardinality(I)
  BY <1>2, NodesHaveIds
<1>4. PICK s : s = Ordered(nodes)
  OBVIOUS
<1>5. s \in Seq(I) /\ Greedy(D, s) /\ Len(s) = n
  BY <1>1, <1>2, <1>3, <1>4, OrderedIsGreedy DEF Acyclic
<1>6. ToSet(s) = I
  BY <1>2, <1>3, <1>5, CompleteWithoutCycle
<1>7. DOMAIN s = 1 .. n /\ I = {s[i] : i \in 1 .. n}
  BY <1>5, <1>6 DEF ToSet
<1>8. /\ \A node \in ToSet(nodes) : node.id \in I /\ ById(nodes, node.id) = node
      /\ \A x \in I : ById(nodes, x) \in ToSet(nodes)
  BY <1>2, NodesHaveIds
<1>9. PICK others : others = NormalizeNodes(nodes)
  OBVIOUS
<1>10. others = [i \in 1 .. n |-> NormalNode(ById(nodes, s[i]))]
  BY <1>4, <1>7, <1>9 DEF NormalizeNodes, Column
<1>11. DOMAIN others = 1 .. n /\ \A i \in 1 .. n : others[i] = NormalNode(ById(nodes, s[i]))
  BY <1>10
<1>12. ToSet(others) = {others[i] : i \in 1 .. n}
  BY <1>11 DEF ToSet
<1>13. \A i \in 1 .. n : SameNode(ById(nodes, s[i]), others[i])
  <2>1. ASSUME NEW i \in 1 .. n PROVE SameNode(ById(nodes, s[i]), others[i])
    <3>1. PICK node \in ToSet(nodes) : node = ById(nodes, s[i])
      BY <1>7, <1>8
    <3>2. SameNode(node, NormalNode(node))
      BY NormalNodeIsSame
    <3> QED
      BY <1>11, <3>1, <3>2
  <2> QED
    BY <2>1
<1>14. ASSUME NEW a \in ToSet(nodes) PROVE \E b \in ToSet(others) : SameNode(a, b)
  <2>1. PICK i \in 1 .. n : s[i] = a.id
    BY <1>7, <1>8
  <2>2. ById(nodes, s[i]) = a
    BY <1>8, <2>1
  <2> QED
    BY <1>12, <1>13, <2>2
<1>15. ASSUME NEW b \in ToSet(others) PROVE \E a \in ToSet(nodes) : SameNode(a, b)
  <2>1. PICK i \in 1 .. n : b = others[i]
    BY <1>12
  <2> QED
    BY <1>7, <1>8, <1>13, <2>1
<1>16. SayTheSame(nodes, others)
  BY <1>14, <1>15 DEF SayTheSame
<1>17. others \in Seq(ToSet(others)) /\ Len(others) = n
  <2>1. \A i \in 1 .. n : others[i] \in ToSet(others)
    BY <1>12
  <2>2. others \in [1 .. n -> ToSet(others)]
    BY <1>10, <2>1
  <2> QED
    BY <2>2
<1> QED
  BY <1>3, <1>9, <1>16, <1>17, ListedAsSame

LEMMA NormalizedIsSame ==
  ASSUME NEW d, IsListed(d), WellFormed(d)
  PROVE  SameDraft(d, NormalizeGraphDraft(d))
<1>1. /\ AreListed(d.nodes) /\ AreNodes(d.nodes) /\ Acyclic(d.nodes)
      /\ AreFacts(d.facts) /\ AreConstraints(d.constraints)
      /\ AreApprovalIntents(d.approvalIntents, d.nodes, d.constraints)
  BY DEF IsListed, WellFormed
<1>2. SameNodes(d.nodes, NormalizeNodes(d.nodes))
  BY <1>1, NormalNodesAreSame
<1>3. SameList(d.facts, SortedBy(d.facts, "key"))
  <2>1. d.facts \in Seq(ToSet(d.facts)) /\ \A fact \in ToSet(d.facts) : fact["key"] \in Nat
    BY DEF IsListed
  <2>2. IsInjective(InField(d.facts, "key"))
    <3>1. Column(d.facts, LAMBDA fact : fact.key) = InField(d.facts, "key")
      BY DEF Column, InField
    <3> QED
      BY <1>1, <3>1 DEF AreFacts, IsStringSet
  <2>3. \A i, j \in DOMAIN d.facts : d.facts[i]["key"] = d.facts[j]["key"] => i = j
    BY <2>2 DEF IsInjective, InField
  <2> QED
    BY <2>1, <2>3, SortedByIsSame
<1>4. SameList(d.approvalIntents, SortedBy(d.approvalIntents, "id"))
  <2>1. /\ d.approvalIntents \in Seq(ToSet(d.approvalIntents))
        /\ \A intent \in ToSet(d.approvalIntents) : intent["id"] \in Nat
    BY DEF IsListed
  <2>2. IsInjective(InField(d.approvalIntents, "id"))
    <3>1. Column(d.approvalIntents, LAMBDA intent : intent.id) = InField(d.approvalIntents, "id")
      BY DEF Column, InField
    <3> QED
      BY <1>1, <3>1 DEF AreApprovalIntents, IsStringSet
  <2>3. \A i, j \in DOMAIN d.approvalIntents :
          d.approvalIntents[i]["id"] = d.approvalIntents[j]["id"] => i = j
    BY <2>2 DEF IsInjective, InField
  <2> QED
    BY <2>1, <2>3, SortedByIsSame
<1>5. SameList(d.constraints.allowedLicenses, Sorted(d.constraints.allowedLicenses))
  <2>1. d.constraints.allowedLicenses \in Seq(Nat) /\ IsInjective(d.constraints.allowedLicenses)
    BY <1>1 DEF IsListed, AreConstraints, IsStringSet
  <2> QED
    BY <2>1, SortedIsSame
<1>6. PICK e : e = NormalizeGraphDraft(d)
  OBVIOUS
<1>7. /\ e.tenantId = d.tenantId /\ e.revision = d.revision
      /\ e.selectorVocabularyDigest = d.selectorVocabularyDigest
      /\ e.facts = SortedBy(d.facts, "key") /\ e.approvalIntents = SortedBy(d.approvalIntents, "id")
      /\ e.nodes = NormalizeNodes(d.nodes)
      /\ e.constraints.allowedLicenses = Sorted(d.constraints.allowedLicenses)
      /\ e.constraints.maximumTotalCostMicros = d.constraints.maximumTotalCostMicros
      /\ e.constraints.costCurrency = d.constraints.costCurrency
      /\ e.constraints.billingPeriod = d.constraints.billingPeriod
  BY <1>6 DEF NormalizeGraphDraft, DraftWith
<1>8. SameConstraints(d.constraints, e.constraints)
  BY <1>5, <1>7 DEF SameConstraints
<1> QED
  BY <1>2, <1>3, <1>4, <1>6, <1>7, <1>8 DEF SameDraft

\* What finalize adds to a draft in normal form can be taken off again.
LEMMA FinalizedHoldsDraft ==
  ASSUME NEW d
  PROVE  /\ DraftOf(FinalizeRequirementGraph(d)) = NormalizeGraphDraft(d)
         /\ FinalizeRequirementGraph(d) # NoRecord
<1>1. PICK added : added = {"schemaVersion", "requirementScopeDigest", "requirementGraphDigest"}
  OBVIOUS
<1>2. PICK normalized : normalized = NormalizeGraphDraft(d)
  OBVIOUS
<1>3. PICK fields : fields = DOMAIN normalized
  OBVIOUS
<1>4. fields \cap added = {} /\ "facts" \in fields
  BY <1>1, <1>2, <1>3 DEF NormalizeGraphDraft, DraftWith
<1>5. normalized = [field \in fields |-> normalized[field]]
  BY <1>2, <1>3 DEF NormalizeGraphDraft, DraftWith
<1>6. PICK scope : scope = [schemaVersion |-> 1, requirementScopeDigest |-> ScopePayload(normalized)]
  OBVIOUS
<1>7. DOMAIN scope = {"schemaVersion", "requirementScopeDigest"}
  BY <1>6
<1>8. PICK payload : payload = With(normalized, scope)
  OBVIOUS
<1>9. /\ DOMAIN payload = fields \cup {"schemaVersion", "requirementScopeDigest"}
      /\ \A field \in fields : payload[field] = normalized[field]
  BY <1>3, <1>7, <1>8, Fields
<1>10. PICK digest : digest = [requirementGraphDigest |-> payload]
  OBVIOUS
<1>11. DOMAIN digest = {"requirementGraphDigest"}
  BY <1>10
<1>12. PICK g : g = With(payload, digest)
  OBVIOUS
<1>13. /\ DOMAIN g = fields \cup added
       /\ \A field \in fields : g[field] = normalized[field]
  <2>1. DOMAIN g = DOMAIN payload \cup DOMAIN digest
    BY <1>12, Fields
  <2>2. \A field \in DOMAIN payload : g[field] = payload[field]
    BY <1>12, Fields
  <2>3. DOMAIN g = fields \cup added
    BY <1>1, <1>9, <1>11, <2>1
  <2> QED
    BY <1>9, <2>2, <2>3
<1>14. g = FinalizeRequirementGraph(d)
  BY <1>2, <1>6, <1>8, <1>10, <1>12 DEF FinalizeRequirementGraph
<1>15. DraftOf(g) = normalized
  <2>1. DOMAIN g \ added = fields
    BY <1>4, <1>13
  <2>2. DraftOf(g) = [field \in fields |-> g[field]]
    BY <1>1, <2>1 DEF DraftOf
  <2> QED
    BY <1>5, <1>13, <2>2
<1>16. g # NoRecord
  <2>1. "facts" \in DOMAIN g
    BY <1>4, <1>13
  <2>2. "facts" \notin DOMAIN NoRecord
    BY DEF NoRecord
  <2> QED
    BY <2>1, <2>2
<1> QED
  BY <1>2, <1>14, <1>15, <1>16

\* FinalizedIsStable: what finalizeRequirementGraph returns is accepted by
\* assertRequirementGraphIntegrity, which finalizes it again, exactly if it is within the bound
\* on entries with the three that it adds to its draft; and two drafts that list the same in
\* other orders are refused both, or have one graph with one digest.
THEOREM FinalizedGraphsAreStable == GraphSpec => []FinalizedIsStable
<1>1. GraphInit => IsGiven
  BY DEF GraphInit, IsGiven
<1>2. IsGiven /\ [GraphNext]_graphVars => IsGiven'
  BY DEF IsGiven, GraphNext, graphVars, Begin, Finalize, Authorize, EditGraph, EditAuthorization, ClockTicks, Verify
<1>3. IsGiven => FinalizedIsStable
  <2>1. SUFFICES ASSUME IsGiven, NEW draft \in ToSet(project)
                 PROVE  /\ WellFormed(draft) = WellFormed(Relisted(draft))
                        /\ WellFormed(draft) =>
                             /\ RequirementGraphIntegrity(FinalizeRequirementGraph(draft))
                                  = (Entries(draft) + 3 <= MaxEntries)
                             /\ FinalizeRequirementGraph(draft) = FinalizeRequirementGraph(Relisted(draft))
    BY DEF FinalizedIsStable
  <2>2. project # << >>
    BY <2>1 DEF ToSet
  <2>3. IsListed(draft)
    BY <2>1, <2>2, GraphAssumption DEF IsGiven
  <2>4. PICK other : other = Relisted(draft)
    OBVIOUS
  <2>5. SameDraft(draft, other) /\ SameDraft(other, draft)
    BY <2>3, <2>4, RelistedIsSame, SameDraftTurns, GraphAssumption
  <2>6. WellFormed(draft) <=> WellFormed(other)
    BY <2>5, DraftsAreSame, GraphAssumption
  <2>7. WellFormed(draft) = WellFormed(other)
    <3>1. WellFormed(draft) \in BOOLEAN /\ WellFormed(other) \in BOOLEAN
      BY DEF WellFormed
    <3> QED
      BY <2>6, <3>1
  <2>8. ASSUME WellFormed(draft)
        PROVE  /\ RequirementGraphIntegrity(FinalizeRequirementGraph(draft)) = (Entries(draft) + 3 <= MaxEntries)
               /\ FinalizeRequirementGraph(draft) = FinalizeRequirementGraph(other)
    <3>1. PICK normalized : normalized = NormalizeGraphDraft(draft)
      OBVIOUS
    <3>2. NormalizeGraphDraft(other) = normalized
      BY <2>5, <2>8, <3>1, DraftsAreSame, GraphAssumption
    <3>3. /\ WellFormed(normalized) /\ NormalizeGraphDraft(normalized) = normalized
          /\ Entries(normalized) = Entries(draft)
      <4>1. SameDraft(draft, normalized)
        BY <2>3, <2>8, <3>1, NormalizedIsSame
      <4> QED
        BY <2>8, <3>1, <4>1, DraftsAreSame, EntriesAreSame, GraphAssumption
    <3>4. FinalizeRequirementGraph(draft) = FinalizeRequirementGraph(other)
      BY <3>1, <3>2 DEF FinalizeRequirementGraph
    <3>5. FinalizeRequirementGraph(draft) = FinalizeRequirementGraph(normalized)
      BY <3>1, <3>3 DEF FinalizeRequirementGraph
    <3>6. /\ DraftOf(FinalizeRequirementGraph(draft)) = normalized
          /\ FinalizeRequirementGraph(draft) # NoRecord
      BY <3>1, FinalizedHoldsDraft
    <3>7. RequirementGraphIntegrity(FinalizeRequirementGraph(draft)) = (Entries(draft) + 3 <= MaxEntries)
      <4>1. PICK finalized : finalized = FinalizeRequirementGraph(draft)
        OBVIOUS
      <4>2. /\ DraftOf(finalized) = normalized /\ finalized # NoRecord
            /\ FinalizeRequirementGraph(normalized) = finalized
        BY <3>5, <3>6, <4>1
      <4>3. RequirementGraphIntegrity(finalized) <=> Entries(draft) + 3 <= MaxEntries
        BY <3>3, <4>2 DEF RequirementGraphIntegrity
      <4>4. RequirementGraphIntegrity(finalized) \in BOOLEAN /\ (Entries(draft) + 3 <= MaxEntries) \in BOOLEAN
        BY DEF RequirementGraphIntegrity
      <4> QED
        BY <4>1, <4>3, <4>4
    <3> QED
      BY <3>4, <3>7
  <2> QED
    BY <2>4, <2>7, <2>8
<1> QED
  BY <1>1, <1>2, <1>3, PTL DEF GraphSpec

-----------------------------------------------------------------------------
(* The paths and the scan of Semantic.                                       *)

\* A directory is its path with a "/".
LEMMA SlashIs ==
  ASSUME NEW C, "/" \in C, NEW s \in Seq(C)
  PROVE  /\ Append(s, "/") \in Seq(C) /\ Len(Append(s, "/")) = Len(s) + 1
         /\ Append(s, "/")[Len(s) + 1] = "/"
         /\ \A i \in 1 .. Len(s) : Append(s, "/")[i] = s[i]
OBVIOUS

LEMMA SequenceIs ==
  ASSUME NEW C, NEW s \in Seq(C)
  PROVE  s = [i \in 1 .. Len(s) |-> s[i]]
OBVIOUS

\* A prefix, character by character.
LEMMA PrefixIs ==
  ASSUME NEW C, NEW s \in Seq(C), NEW t \in Seq(C)
  PROVE  IsPrefix(s, t) <=> Len(s) <= Len(t) /\ \A i \in 1 .. Len(s) : s[i] = t[i]
<1>1. PICK m \in Nat, n \in Nat : m = Len(s) /\ n = Len(t)
  OBVIOUS
<1>2. SUFFICES ASSUME m <= n
               PROVE  SubSeq(s, 1, m) = SubSeq(t, 1, m) <=> \A i \in 1 .. m : s[i] = t[i]
  BY <1>1 DEF IsPrefix
<1>3. PICK u : u = SubSeq(s, 1, m)
  OBVIOUS
<1>4. PICK v : v = SubSeq(t, 1, m)
  OBVIOUS
<1>5. /\ u = [i \in 1 .. m |-> u[i]] /\ v = [i \in 1 .. m |-> v[i]]
      /\ \A i \in 1 .. m : u[i] = s[i] /\ v[i] = t[i]
  BY <1>1, <1>2, <1>3, <1>4
<1> QED
  BY <1>3, <1>4, <1>5

\* What a pattern reaches is reached character by character.
Reaches(reach, file, pattern) ==
  /\ reach[0] = {0}
  /\ \A j \in 1 .. Len(pattern) : reach[j] = Onward(file, pattern, reach[j - 1], j)
  /\ reach[Len(pattern)] = Reached(file, pattern)

LEMMA ReachedIs ==
  ASSUME NEW C, NEW file \in Seq(C), NEW pattern \in Seq(C)
  PROVE  \E reach : Reaches(reach, file, pattern)
<1>1. PICK n \in Nat : n = Len(pattern)
  OBVIOUS
<1>2. PICK D : D = SUBSET (0 .. Len(file))
  OBVIOUS
<1>3. ASSUME NEW starts \in D, NEW j \in 1 .. n PROVE Onward(file, pattern, starts, j) \in D
  BY <1>2 DEF Onward
<1>4. PICK step : step = [j \in 1 .. n |-> [starts \in D |-> Onward(file, pattern, starts, j)]]
  OBVIOUS
<1>5. StepsIn(step, D, n)
  BY <1>3, <1>4 DEF StepsIn
<1>6. {0} \in D
  BY <1>2
<1>7. PICK f : Computes(f, D, {0}, step, n)
  BY <1>5, <1>6, Recursion
<1>8. ASSUME NEW j \in 1 .. n PROVE f[j] = Onward(file, pattern, f[j - 1], j)
  <2>1. f[j - 1] \in D /\ f[j] = step[j][f[j - 1]]
    BY <1>7 DEF Computes
  <2> QED
    BY <1>4, <2>1
<1>9. PICK g : g = [j \in 0 .. n |-> IF j = 0 THEN {0} ELSE Onward(file, pattern, f[j - 1], j)]
  OBVIOUS
<1>10. f = g
  <2>1. ASSUME NEW j \in 0 .. n PROVE f[j] = g[j]
    BY <1>7, <1>8, <1>9 DEF Computes
  <2> QED
    BY <1>7, <1>9, <2>1 DEF Computes
<1>11. PICK h : h = CHOOSE c : c = [j \in 0 .. n |-> IF j = 0 THEN {0} ELSE Onward(file, pattern, c[j - 1], j)]
  OBVIOUS
<1>12. h = [j \in 0 .. n |-> IF j = 0 THEN {0} ELSE Onward(file, pattern, h[j - 1], j)]
  BY <1>9, <1>10, <1>11
<1>13. Reached(file, pattern) = h[n]
  BY <1>1, <1>11 DEF Reached
<1>14. h[0] = {0}
  BY <1>12
<1>15. ASSUME NEW j \in 1 .. n PROVE h[j] = Onward(file, pattern, h[j - 1], j)
  <2>1. j \in 0 .. n /\ j # 0
    OBVIOUS
  <2> QED
    BY <1>12, <2>1, Zenon
<1> QED
  BY <1>1, <1>13, <1>14, <1>15 DEF Reaches

\* The stars of a pattern, and its characters before the first.
Stars(pattern) == {j \in DOMAIN pattern : pattern[j] = "*"}
BeforeStar(pattern) == IF Stars(pattern) = {} THEN pattern ELSE SubSeq(pattern, 1, Min(Stars(pattern)) - 1)

LEMMA BeforeStarIs ==
  ASSUME NEW C, NEW pattern \in Seq(C)
  PROVE  /\ BeforeStar(pattern) \in Seq(C)
         /\ Len(BeforeStar(pattern)) <= Len(pattern)
         /\ \A j \in 1 .. Len(BeforeStar(pattern)) : BeforeStar(pattern)[j] = pattern[j] /\ pattern[j] # "*"
         /\ Glob(pattern) <=> Stars(pattern) # {}
         /\ ~Glob(pattern) => BeforeStar(pattern) = pattern
<1>1. PICK n \in Nat : n = Len(pattern) /\ DOMAIN pattern = 1 .. n
  OBVIOUS
<1>2. Glob(pattern) <=> Stars(pattern) # {}
  BY DEF Glob, Stars, ToSet
<1>3. CASE Stars(pattern) = {}
  BY <1>1, <1>2, <1>3 DEF BeforeStar, Stars
<1>4. CASE Stars(pattern) # {}
  <2>1. Stars(pattern) \in SUBSET Nat
    BY <1>1 DEF Stars
  <2>2. PICK s \in Stars(pattern) : s = Min(Stars(pattern)) /\ \A j \in Stars(pattern) : s <= j
    <3>1. \E s \in Stars(pattern) : \A j \in Stars(pattern) : s <= j
      BY <1>4, <2>1, Least
    <3> QED
      BY <3>1 DEF Min
  <2>3. s \in 1 .. n /\ \A j \in 1 .. s - 1 : pattern[j] # "*"
    <3>1. s \in 1 .. n
      BY <1>1, <2>2 DEF Stars
    <3>2. ASSUME NEW j \in 1 .. s - 1 PROVE pattern[j] # "*"
      <4>1. j \in 1 .. n /\ j \notin Stars(pattern)
        BY <2>2, <3>1
      <4> QED
        BY <1>1, <4>1 DEF Stars
    <3> QED
      BY <3>1, <3>2
  <2>4. BeforeStar(pattern) = SubSeq(pattern, 1, s - 1)
    BY <1>4, <2>2 DEF BeforeStar
  <2>5. /\ SubSeq(pattern, 1, s - 1) \in Seq(C) /\ Len(SubSeq(pattern, 1, s - 1)) = s - 1
        /\ \A j \in 1 .. s - 1 : SubSeq(pattern, 1, s - 1)[j] = pattern[j]
    BY <1>1, <2>3
  <2> QED
    BY <1>1, <1>2, <1>4, <2>3, <2>4, <2>5
<1> QED
  BY <1>3, <1>4

\* A pattern reaches the end of a file only over the characters before its first star.
LEMMA ReachedOverBefore ==
  ASSUME NEW C, NEW file \in Seq(C), NEW pattern \in Seq(C), Len(file) \in Reached(file, pattern)
  PROVE  /\ Len(BeforeStar(pattern)) <= Len(file)
         /\ \A j \in 1 .. Len(BeforeStar(pattern)) : file[j] = pattern[j]
         /\ ~Glob(pattern) => file = pattern
<1>1. PICK n \in Nat : n = Len(pattern)
  OBVIOUS
<1>2. PICK m \in Nat : m = Len(file) /\ DOMAIN file = 1 .. m
  OBVIOUS
<1>3. PICK b \in Nat : b = Len(BeforeStar(pattern)) /\ b <= n /\ \A j \in 1 .. b : pattern[j] # "*"
  BY <1>1, BeforeStarIs
<1>4. PICK reach : Reaches(reach, file, pattern)
  BY ReachedIs
<1>5. PICK S : S = {j \in Nat : j <= n =>
                     /\ j <= b => reach[j] \subseteq {j}
                     /\ reach[j] # {} => \A l \in 1 .. b : l <= j => l <= m /\ file[l] = pattern[l]}
  OBVIOUS
<1>6. 0 \in S
  BY <1>4, <1>5 DEF Reaches
<1>7. ASSUME NEW i \in S PROVE i + 1 \in S
  <2>1. PICK j \in Nat : j = i + 1 /\ i = j - 1 /\ i \in Nat
    BY <1>5
  <2>2. SUFFICES ASSUME j <= n
                 PROVE  /\ j <= b => reach[j] \subseteq {j}
                        /\ reach[j] # {} => \A l \in 1 .. b : l <= j => l <= m /\ file[l] = pattern[l]
    BY <1>5, <2>1
  <2>3. /\ i <= b => reach[i] \subseteq {i}
        /\ reach[i] # {} => \A l \in 1 .. b : l <= i => l <= m /\ file[l] = pattern[l]
    BY <1>5, <2>1, <2>2
  <2>4. reach[j] = Onward(file, pattern, reach[i], j)
    BY <1>1, <1>4, <2>1, <2>2 DEF Reaches
  <2>5. reach[j] # {} => reach[i] # {}
    BY <2>1, <2>4 DEF Onward
  <2>6. CASE j <= b
    <3>1. pattern[j] # "*" /\ i <= b
      BY <1>3, <2>1, <2>6
    <3>2. reach[j] = {k \in 1 .. m : k - 1 \in reach[i] /\ file[k] = pattern[j]}
      BY <1>2, <2>4, <3>1 DEF Onward
    <3>3. ASSUME NEW k \in reach[j] PROVE k = j /\ k \in 1 .. m /\ file[j] = pattern[j]
      <4>1. k \in 1 .. m /\ k - 1 \in reach[i] /\ file[k] = pattern[j]
        BY <3>2, <3>3
      <4>2. k - 1 = i
        BY <2>3, <3>1, <4>1
      <4>3. k = j
        BY <2>1, <4>1, <4>2
      <4> QED
        BY <4>1, <4>3
    <3>4. ASSUME reach[j] # {}, NEW l \in 1 .. b, l <= j PROVE l <= m /\ file[l] = pattern[l]
      <4>1. l = j \/ l <= i
        BY <2>1, <3>4
      <4> QED
        BY <2>3, <2>5, <3>3, <3>4, <4>1
    <3> QED
      BY <2>6, <3>3, <3>4
  <2>7. CASE ~(j <= b)
    <3>1. \A l \in 1 .. b : l <= i
      BY <2>1, <2>7
    <3> QED
      BY <2>3, <2>5, <2>7, <3>1
  <2> QED
    BY <2>6, <2>7
<1>8. n \in S
  BY <1>5, <1>6, <1>7, Induction DEF Inductive
<1>9. m \in reach[n]
  BY <1>1, <1>2, <1>4 DEF Reaches
<1>10. \A l \in 1 .. b : l <= m /\ file[l] = pattern[l]
  BY <1>3, <1>5, <1>8, <1>9
<1>11. b <= m
  <2>1. b = 0 \/ b \in 1 .. b
    OBVIOUS
  <2> QED
    BY <1>10, <2>1
<1>12. ASSUME ~Glob(pattern) PROVE file = pattern
  <2>1. b = n
    BY <1>1, <1>3, <1>12, BeforeStarIs
  <2>2. m = n
    BY <1>5, <1>8, <1>9, <2>1
  <2>3. file = [i \in 1 .. n |-> file[i]] /\ pattern = [i \in 1 .. n |-> pattern[i]]
    BY <1>1, <1>2, <2>2
  <2> QED
    BY <1>10, <2>1, <2>3
<1> QED
  BY <1>2, <1>3, <1>10, <1>11, <1>12

LEMMA LiteralIs ==
  ASSUME NEW C, NEW pattern \in Seq(C)
  PROVE  /\ Literal(pattern) \in Seq(C)
         /\ Len(Literal(pattern)) <= Len(BeforeStar(pattern))
         /\ \A j \in 1 .. Len(Literal(pattern)) : Literal(pattern)[j] = BeforeStar(pattern)[j]
         /\ \/ Literal(pattern) = BeforeStar(pattern)
            \/ /\ Len(BeforeStar(pattern)) = Len(Literal(pattern)) + 1
               /\ BeforeStar(pattern)[Len(BeforeStar(pattern))] = "/"
<1>1. PICK before : before = BeforeStar(pattern)
  OBVIOUS
<1>2. before \in Seq(C)
  BY <1>1, BeforeStarIs
<1>3. Literal(pattern) = IF before # << >> /\ before[Len(before)] = "/" THEN SubSeq(before, 1, Len(before) - 1) ELSE before
  BY <1>1 DEF Literal, BeforeStar, Stars, Last, Front
<1>4. PICK n \in Nat : n = Len(before)
  BY <1>2
<1>5. CASE before # << >> /\ before[n] = "/"
  <2>1. n # 0 /\ n - 1 \in Nat
    BY <1>2, <1>4, <1>5
  <2>2. PICK a : a = SubSeq(before, 1, n - 1)
    OBVIOUS
  <2>3. a \in Seq(C) /\ Len(a) = n - 1 /\ \A j \in 1 .. n - 1 : a[j] = before[j]
    BY <1>2, <1>4, <2>1, <2>2
  <2>4. Literal(pattern) = a
    BY <1>3, <1>4, <1>5, <2>2
  <2> QED
    BY <1>1, <1>4, <1>5, <2>3, <2>4
<1>6. CASE ~(before # << >> /\ before[n] = "/")
  <2>1. Literal(pattern) = before
    BY <1>3, <1>4, <1>6
  <2> QED
    BY <1>1, <1>2, <2>1
<1> QED
  BY <1>5, <1>6

\* What a pattern matches begins with the literal part of the pattern; if there is no "*" in the
\* pattern it is that part or goes on with "/".
BeginsWith(file, part) == Len(part) <= Len(file) /\ \A j \in 1 .. Len(part) : file[j] = part[j]
EndsOrParts(file, part) == file = part \/ (Len(part) + 1 <= Len(file) /\ file[Len(part) + 1] = "/")

LEMMA MatchBegins ==
  ASSUME NEW C, "/" \in C, NEW file \in Seq(C), NEW pattern \in Seq(C), ScannerMatches(file, pattern)
  PROVE  /\ BeginsWith(file, Literal(pattern))
         /\ ~Glob(pattern) => EndsOrParts(file, Literal(pattern))
<1>1. PICK b : b = BeforeStar(pattern)
  OBVIOUS
<1>2. PICK a : a = Literal(pattern)
  OBVIOUS
<1>3. /\ a \in Seq(C) /\ b \in Seq(C)
      /\ Len(a) <= Len(b) /\ \A j \in 1 .. Len(a) : a[j] = b[j]
      /\ a = b \/ (Len(b) = Len(a) + 1 /\ b[Len(b)] = "/")
  BY <1>1, <1>2, BeforeStarIs, LiteralIs
<1>4. ~Glob(pattern) => b = pattern
  BY <1>1, BeforeStarIs
<1>5. /\ Len(b) <= Len(file) /\ \A j \in 1 .. Len(b) : file[j] = b[j]
      /\ ~Glob(pattern) => file = b \/ (Len(b) + 1 <= Len(file) /\ file[Len(b) + 1] = "/")
  <2>1. CASE Len(file) \in Reached(file, pattern)
    <3>1. /\ Len(b) <= Len(file) /\ \A j \in 1 .. Len(b) : file[j] = pattern[j]
          /\ ~Glob(pattern) => file = pattern
      BY <1>1, <2>1, ReachedOverBefore
    <3>2. \A j \in 1 .. Len(b) : b[j] = pattern[j]
      BY <1>1, BeforeStarIs
    <3> QED
      BY <1>4, <3>1, <3>2
  <2>2. CASE ~Glob(pattern) /\ IsStrictPrefix(Append(pattern, "/"), file)
    <3>1. PICK p : p = Append(pattern, "/")
      OBVIOUS
    <3>2. PICK n \in Nat : n = Len(pattern)
      OBVIOUS
    <3>3. p \in Seq(C) /\ Len(p) = n + 1 /\ p[n + 1] = "/" /\ \A j \in 1 .. n : p[j] = pattern[j]
      BY <3>1, <3>2, SlashIs
    <3>4. n + 1 <= Len(file) /\ \A j \in 1 .. n + 1 : file[j] = p[j]
      <4>1. IsPrefix(p, file)
        BY <2>2, <3>1 DEF IsStrictPrefix
      <4>2. Len(p) <= Len(file) /\ \A j \in 1 .. Len(p) : p[j] = file[j]
        BY <3>3, <4>1, PrefixIs
      <4> QED
        BY <3>3, <4>2
    <3>5. Len(b) = n /\ b = pattern
      BY <1>4, <2>2, <3>2
    <3>6. n + 1 \in 1 .. n + 1
      BY <3>2
    <3> QED
      BY <3>2, <3>3, <3>4, <3>5, <3>6
  <2> QED
    BY <2>1, <2>2 DEF ScannerMatches
<1>6. BeginsWith(file, a)
  BY <1>3, <1>5 DEF BeginsWith
<1>7. ASSUME ~Glob(pattern) PROVE EndsOrParts(file, a)
  <2>1. CASE a = b
    BY <1>5, <1>7, <2>1 DEF EndsOrParts
  <2>2. CASE Len(b) = Len(a) + 1 /\ b[Len(b)] = "/"
    <3>1. Len(b) \in 1 .. Len(b)
      BY <1>3, <2>2
    <3> QED
      BY <1>5, <2>2, <3>1 DEF EndsOrParts
  <2> QED
    BY <1>3, <2>1, <2>2
<1> QED
  BY <1>2, <1>6, <1>7

\* Two parts of one file, of which the first is the shorter.
LEMMA PartsOverlap ==
  ASSUME NEW C, "/" \in C, NEW file \in Seq(C), NEW a \in Seq(C), NEW b \in Seq(C),
         BeginsWith(file, a), BeginsWith(file, b), Len(a) <= Len(b)
  PROVE  /\ IsPrefix(a, b)
         /\ EndsOrParts(file, a) => a = b \/ IsPrefix(Append(a, "/"), b)
<1>1. PICK m \in Nat, n \in Nat, k \in Nat : m = Len(a) /\ n = Len(b) /\ k = Len(file)
  OBVIOUS
<1>2. /\ m <= n /\ n <= k
      /\ \A j \in 1 .. m : file[j] = a[j]
      /\ \A j \in 1 .. n : file[j] = b[j]
  BY <1>1 DEF BeginsWith
<1>3. \A j \in 1 .. m : a[j] = b[j]
  BY <1>2
<1>4. IsPrefix(a, b)
  BY <1>1, <1>2, <1>3, PrefixIs
<1>5. CASE m = n
  <2>1. a = [j \in 1 .. m |-> a[j]] /\ b = [j \in 1 .. m |-> b[j]]
    BY <1>1, <1>5, SequenceIs
  <2> QED
    BY <1>3, <1>4, <2>1
<1>6. ASSUME m # n, EndsOrParts(file, a) PROVE IsPrefix(Append(a, "/"), b)
  <2>1. m + 1 <= n /\ m + 1 \in 1 .. n
    BY <1>2, <1>6
  <2>2. file # a
    BY <1>1, <1>2, <2>1
  <2>3. b[m + 1] = "/"
    BY <1>1, <1>2, <1>6, <2>1, <2>2 DEF EndsOrParts
  <2>4. PICK p : p = Append(a, "/")
    OBVIOUS
  <2>5. p \in Seq(C) /\ Len(p) = m + 1 /\ p[m + 1] = "/" /\ \A j \in 1 .. m : p[j] = a[j]
    BY <1>1, <2>4, SlashIs
  <2>6. ASSUME NEW j \in 1 .. m + 1 PROVE p[j] = b[j]
    <3>1. j = m + 1 \/ j \in 1 .. m
      BY <1>1
    <3> QED
      BY <1>3, <2>3, <2>5, <3>1
  <2> QED
    BY <1>1, <2>1, <2>4, <2>5, <2>6, PrefixIs
<1> QED
  BY <1>1, <1>4, <1>5, <1>6

\* Patterns that match one file overlap.
LEMMA MatchersOverlap ==
  ASSUME NEW C, "/" \in C, NEW file \in Seq(C), NEW left \in Seq(C), NEW right \in Seq(C),
         ScannerMatches(file, left), ScannerMatches(file, right)
  PROVE  PathOverlap(left, right)
<1>1. PICK ap \in Seq(C) : ap = Literal(left)
  BY LiteralIs
<1>2. PICK bp \in Seq(C) : bp = Literal(right)
  BY LiteralIs
<1>3. /\ BeginsWith(file, ap) /\ (~Glob(left) => EndsOrParts(file, ap))
      /\ BeginsWith(file, bp) /\ (~Glob(right) => EndsOrParts(file, bp))
  BY <1>1, <1>2, MatchBegins
<1>4. CASE Len(ap) <= Len(bp)
  <2>1. IsPrefix(ap, bp) /\ (EndsOrParts(file, ap) => ap = bp \/ IsPrefix(Append(ap, "/"), bp))
    BY <1>3, <1>4, PartsOverlap
  <2> QED
    BY <1>1, <1>2, <1>3, <2>1 DEF PathOverlap
<1>5. CASE Len(bp) <= Len(ap)
  <2>1. IsPrefix(bp, ap) /\ (EndsOrParts(file, bp) => bp = ap \/ IsPrefix(Append(bp, "/"), ap))
    BY <1>3, <1>5, PartsOverlap
  <2> QED
    BY <1>1, <1>2, <1>3, <2>1 DEF PathOverlap
<1>6. Len(ap) \in Nat /\ Len(bp) \in Nat
  OBVIOUS
<1> QED
  BY <1>4, <1>5, <1>6

\* A file that is tracked has a size.
FilesTyped ==
  \A i \in DOMAIN Path : files[i] # Untracked => files[i].size \in Nat

ScanRecords(F, U) == [bytes : Nat, facts : SUBSET F, uncertainty : SUBSET U]

\* What one file adds, and that nothing is ever taken away.
LEMMA ScannedAdds ==
  ASSUME NEW F, NEW U, NEW scan \in ScanRecords(F, U), NEW i,
         files[i].size \in Nat, files[i].facts \subseteq F, files[i].uncertainty \subseteq U,
         {"SCAN_TARGET", "TOTAL_SCAN_BYTES_EXCEEDED", "CONTENT_NOT_ANALYZED"} \subseteq U
  PROVE  /\ Scanned(scan, i) \in ScanRecords(F, U)
         /\ scan.facts \subseteq Scanned(scan, i).facts
         /\ scan.uncertainty \subseteq Scanned(scan, i).uncertainty
         /\ Scanned(scan, i).uncertainty = {} => files[i].facts \subseteq Scanned(scan, i).facts
<1>1. PICK bytes \in Nat, facts \in SUBSET F, uncertainty \in SUBSET U :
        scan = [bytes |-> bytes, facts |-> facts, uncertainty |-> uncertainty]
  BY DEF ScanRecords
<1>2. PICK size \in Nat : size = files[i].size
  OBVIOUS
<1>3. PICK total \in Nat : total = bytes + size
  OBVIOUS
<1>4. PICK counted : counted = [bytes |-> total, facts |-> facts, uncertainty |-> uncertainty]
  OBVIOUS
<1>5. counted = [scan EXCEPT !.bytes = @ + files[i].size]
  BY <1>1, <1>2, <1>3, <1>4
<1>6. PICK s : s = Scanned(scan, i)
  OBVIOUS
<1>7. \/ s = [bytes |-> bytes, facts |-> facts, uncertainty |-> uncertainty \cup {"SCAN_TARGET"}]
      \/ s = [bytes |-> bytes, facts |-> facts, uncertainty |-> uncertainty \cup {"TOTAL_SCAN_BYTES_EXCEEDED"}]
      \/ s = [bytes |-> total, facts |-> facts, uncertainty |-> uncertainty \cup {"CONTENT_NOT_ANALYZED"}]
      \/ s = [bytes |-> total, facts |-> facts \cup files[i].facts,
              uncertainty |-> uncertainty \cup files[i].uncertainty]
  <2>1. \A reason : Doubt(scan, reason) =
           [bytes |-> bytes, facts |-> facts, uncertainty |-> uncertainty \cup {reason}]
    BY <1>1 DEF Doubt
  <2>2. \A reason : Doubt(counted, reason) =
           [bytes |-> total, facts |-> facts, uncertainty |-> uncertainty \cup {reason}]
    BY <1>4 DEF Doubt
  <2>3. [counted EXCEPT !.facts = @ \cup files[i].facts, !.uncertainty = @ \cup files[i].uncertainty] =
           [bytes |-> total, facts |-> facts \cup files[i].facts,
            uncertainty |-> uncertainty \cup files[i].uncertainty]
    <3>1. PICK known : known = facts \cup files[i].facts
      OBVIOUS
    <3>2. PICK doubts : doubts = uncertainty \cup files[i].uncertainty
      OBVIOUS
    <3>3. [counted EXCEPT !.facts = known, !.uncertainty = doubts] =
             [bytes |-> total, facts |-> known, uncertainty |-> doubts]
      <4>1. PICK read : read = [counted EXCEPT !.facts = known]
        OBVIOUS
      <4>2. read = [bytes |-> total, facts |-> known, uncertainty |-> uncertainty]
        BY <1>4, <4>1
      <4>3. [counted EXCEPT !.facts = known, !.uncertainty = doubts] = [read EXCEPT !.uncertainty = doubts]
        BY <1>4, <4>1
      <4> QED
        BY <4>2, <4>3
    <3>4. counted.facts = facts /\ counted.uncertainty = uncertainty
      BY <1>4
    <3> QED
      BY <3>1, <3>2, <3>3, <3>4
  <2> QED
    BY <1>5, <1>6, <2>1, <2>2, <2>3 DEF Scanned
<1> QED
  BY <1>1, <1>3, <1>6, <1>7 DEF ScanRecords

\* What the loop over the files computes, file by file.
Scans(scan, task, F, U) ==
  LET all == AllMatched(task)
  IN  /\ scan[0] = ScanStart(task, all)
      /\ \A i \in 0 .. Len(Path) : scan[i] \in ScanRecords(F, U)
      /\ \A i \in 1 .. Len(Path) :
           scan[i] = IF i \in Matched(all) THEN Scanned(scan[i - 1], i) ELSE scan[i - 1]
      /\ Scan(task) = scan[Len(Path)]

Contents(F, U) ==
  /\ {"SCAN_TARGET", "TOTAL_SCAN_BYTES_EXCEEDED", "CONTENT_NOT_ANALYZED"} \subseteq U
  /\ \A i \in DOMAIN Path : files[i].facts \subseteq F /\ files[i].uncertainty \subseteq U

LEMMA ScanIs ==
  ASSUME NEW task, FilesTyped
  PROVE  \E scan, F, U : Scans(scan, task, F, U) /\ Contents(F, U)
<1>1. PICK n \in Nat : n = Len(Path) /\ DOMAIN Path = 1 .. n
  BY SemanticAssumption
<1>2. PICK all : all = AllMatched(task)
  OBVIOUS
<1>3. PICK matched : matched = Matched(all)
  OBVIOUS
<1>4. PICK F : F = task.scope.facts \cup UNION {files[i].facts : i \in DOMAIN Path}
  OBVIOUS
<1>5. PICK U : U = ScanStart(task, all).uncertainty
                     \cup {"SCAN_TARGET", "TOTAL_SCAN_BYTES_EXCEEDED", "CONTENT_NOT_ANALYZED"}
                     \cup UNION {files[i].uncertainty : i \in DOMAIN Path}
  OBVIOUS
<1>6. Contents(F, U)
  BY <1>4, <1>5 DEF Contents
<1>7. PICK D : D = ScanRecords(F, U)
  OBVIOUS
<1>8. ScanStart(task, all) \in D
  BY <1>4, <1>5, <1>7 DEF ScanRecords, ScanStart
<1>9. PICK step : step = [i \in 1 .. n |-> [scan \in D |-> IF i \in matched THEN Scanned(scan, i) ELSE scan]]
  OBVIOUS
<1>10. StepsIn(step, D, n)
  <2>1. ASSUME NEW i \in 1 .. n, i \in matched, NEW scan \in D PROVE Scanned(scan, i) \in D
    <3>1. files[i].size \in Nat
      BY <1>1, <1>2, <1>3, <2>1 DEF FilesTyped, Matched, AllMatched
    <3>2. files[i].facts \subseteq F /\ files[i].uncertainty \subseteq U
      BY <1>1, <1>6 DEF Contents
    <3>3. {"SCAN_TARGET", "TOTAL_SCAN_BYTES_EXCEEDED", "CONTENT_NOT_ANALYZED"} \subseteq U
      BY <1>6 DEF Contents
    <3>4. scan \in ScanRecords(F, U)
      BY <1>7
    <3> QED
      BY <1>7, <3>1, <3>2, <3>3, <3>4, ScannedAdds
  <2> QED
    BY <1>9, <2>1 DEF StepsIn
<1>11. PICK f : Computes(f, D, ScanStart(task, all), step, n)
  BY <1>8, <1>10, Recursion
<1>12. ASSUME NEW i \in 1 .. n PROVE f[i] = IF i \in matched THEN Scanned(f[i - 1], i) ELSE f[i - 1]
  <2>1. f[i - 1] \in D /\ f[i] = step[i][f[i - 1]]
    BY <1>11 DEF Computes
  <2> QED
    BY <1>9, <2>1
<1>13. PICK g : g = [i \in 0 .. n |-> IF i = 0 THEN ScanStart(task, all)
                                      ELSE IF i \in matched THEN Scanned(f[i - 1], i) ELSE f[i - 1]]
  OBVIOUS
<1>14. f = g
  <2>1. ASSUME NEW i \in 0 .. n PROVE f[i] = g[i]
    BY <1>11, <1>12, <1>13 DEF Computes
  <2> QED
    BY <1>11, <1>13, <2>1 DEF Computes
<1>15. PICK h : h = CHOOSE c : c = [i \in 0 .. n |-> IF i = 0 THEN ScanStart(task, all)
                                      ELSE IF i \in matched THEN Scanned(c[i - 1], i) ELSE c[i - 1]]
  OBVIOUS
<1>16. h = [i \in 0 .. n |-> IF i = 0 THEN ScanStart(task, all)
                             ELSE IF i \in matched THEN Scanned(h[i - 1], i) ELSE h[i - 1]]
  BY <1>13, <1>14, <1>15
<1>17. Scan(task) = h[n]
  BY <1>1, <1>2, <1>3, <1>15 DEF Scan
<1>18. h[0] = ScanStart(task, all)
  BY <1>16
<1>19. ASSUME NEW i \in 1 .. n PROVE h[i] = IF i \in matched THEN Scanned(h[i - 1], i) ELSE h[i - 1]
  <2>1. i \in 0 .. n /\ i # 0
    OBVIOUS
  <2> QED
    BY <1>16, <2>1, Zenon
<1>20. \A i \in 0 .. n : h[i] \in D
  <2>1. PICK S : S = {i \in Nat : i <= n => h[i] \in D}
    OBVIOUS
  <2>2. 0 \in S
    BY <1>8, <1>18, <2>1
  <2>3. ASSUME NEW j \in S PROVE j + 1 \in S
    <3>1. PICK i \in Nat : i = j + 1 /\ j = i - 1 /\ j \in Nat
      BY <2>1
    <3>2. SUFFICES ASSUME i <= n PROVE h[i] \in D
      BY <2>1, <3>1
    <3>3. h[i - 1] \in D /\ i \in 1 .. n
      BY <2>1, <3>1, <3>2
    <3>4. h[i] = step[i][h[i - 1]]
      BY <1>9, <1>19, <3>3
    <3> QED
      BY <1>10, <3>3, <3>4 DEF StepsIn
  <2>4. S = Nat
    BY <2>1, <2>2, <2>3, Induction DEF Inductive
  <2> QED
    BY <2>1, <2>4
<1>21. Scans(h, task, F, U)
  BY <1>1, <1>2, <1>3, <1>7, <1>17, <1>18, <1>19, <1>20 DEF Scans
<1> QED
  BY <1>6, <1>21

\* If no file is too many, all that match are read.
LEMMA AllAreRead ==
  ASSUME NEW task, Cardinality(AllMatched(task)) <= MaxScanFiles
  PROVE  Matched(AllMatched(task)) = AllMatched(task)
<1>1. PICK n \in Nat : n = Len(Path) /\ DOMAIN Path = 1 .. n
  BY SemanticAssumption
<1>2. PICK all : all = AllMatched(task)
  OBVIOUS
<1>3. all \subseteq 1 .. n
  BY <1>1, <1>2 DEF AllMatched
<1>4. IsFiniteSet(all) /\ Cardinality(all) \in Nat
  <2>1. IsFiniteSet(1 .. n)
    BY FS_Interval
  <2>2. IsFiniteSet(all)
    BY <1>3, <2>1, FS_Subset
  <2> QED
    BY <2>2, FS_CardinalityType
<1>5. ASSUME NEW i \in all PROVE Cardinality({j \in all : j <= i}) <= MaxScanFiles
  <2>1. PICK read : read = {j \in all : j <= i}
    OBVIOUS
  <2>2. read \in SUBSET all
    BY <2>1
  <2>3. Cardinality(read) <= Cardinality(all) /\ IsFiniteSet(read)
    BY <1>4, <2>2, FS_Subset
  <2>4. Cardinality(read) \in Nat
    BY <2>3, FS_CardinalityType
  <2>5. MaxScanFiles \in Nat /\ Cardinality(all) <= MaxScanFiles
    BY <1>2, SemanticAssumption
  <2> QED
    BY <1>4, <2>1, <2>3, <2>4, <2>5
<1>6. Matched(all) = all
  BY <1>5 DEF Matched
<1> QED
  BY <1>2, <1>6

\* A scan without a doubt read every file that the task may write.
LEMMA CertainScanReadAll ==
  ASSUME NEW task, FilesTyped, Scan(task).uncertainty = {}
  PROVE  Declares(task) \subseteq Scan(task).facts
<1>1. PICK n \in Nat : n = Len(Path) /\ DOMAIN Path = 1 .. n
  BY SemanticAssumption
<1>2. PICK all : all = AllMatched(task)
  OBVIOUS
<1>3. PICK scan, F, U : Scans(scan, task, F, U) /\ Contents(F, U)
  BY ScanIs
<1>4. PICK S : S = {i \in Nat : i <= n /\ scan[i].uncertainty = {} =>
                      /\ ~(Cardinality(all) > MaxScanFiles)
                      /\ task.scope.facts \subseteq scan[i].facts
                      /\ \A j \in Matched(all) : j <= i => files[j].facts \subseteq scan[i].facts}
  OBVIOUS
<1>5. Matched(all) \subseteq 1 .. n
  BY <1>1, <1>2 DEF Matched, AllMatched
<1>6. 0 \in S
  <2>1. scan[0] = ScanStart(task, all)
    BY <1>2, <1>3 DEF Scans
  <2>2. \A j \in Matched(all) : ~(j <= 0)
    BY <1>5
  <2>3. scan[0].facts = task.scope.facts
    BY <2>1 DEF ScanStart
  <2>4. scan[0].uncertainty = {} => ~(Cardinality(all) > MaxScanFiles)
    BY <2>1 DEF ScanStart
  <2> QED
    BY <1>4, <2>2, <2>3, <2>4
<1>7. ASSUME NEW j \in S PROVE j + 1 \in S
  <2>1. PICK i \in Nat : i = j + 1 /\ j = i - 1 /\ j \in Nat
    BY <1>4
  <2>2. SUFFICES ASSUME i <= n, scan[i].uncertainty = {}
                 PROVE  /\ ~(Cardinality(all) > MaxScanFiles)
                        /\ task.scope.facts \subseteq scan[i].facts
                        /\ \A k \in Matched(all) : k <= i => files[k].facts \subseteq scan[i].facts
    BY <1>4, <2>1
  <2>3. /\ scan[j] \in ScanRecords(F, U)
        /\ scan[i] = IF i \in Matched(all) THEN Scanned(scan[j], i) ELSE scan[j]
    BY <1>1, <1>2, <1>3, <2>1, <2>2 DEF Scans
  <2>4. /\ scan[j].facts \subseteq scan[i].facts /\ scan[j].uncertainty \subseteq scan[i].uncertainty
        /\ i \in Matched(all) => files[i].facts \subseteq scan[i].facts
    <3>1. CASE i \in Matched(all)
      <4>1. files[i].size \in Nat
        BY <1>2, <3>1 DEF FilesTyped, Matched, AllMatched
      <4>2. /\ files[i].facts \subseteq F /\ files[i].uncertainty \subseteq U
            /\ {"SCAN_TARGET", "TOTAL_SCAN_BYTES_EXCEEDED", "CONTENT_NOT_ANALYZED"} \subseteq U
        BY <1>1, <1>3, <1>5, <3>1 DEF Contents
      <4>3. /\ scan[j].facts \subseteq Scanned(scan[j], i).facts
            /\ scan[j].uncertainty \subseteq Scanned(scan[j], i).uncertainty
            /\ Scanned(scan[j], i).uncertainty = {} => files[i].facts \subseteq Scanned(scan[j], i).facts
        BY <2>3, <4>1, <4>2, ScannedAdds
      <4> QED
        BY <2>2, <2>3, <3>1, <4>3
    <3>2. CASE i \notin Matched(all)
      BY <2>3, <3>2
    <3> QED
      BY <3>1, <3>2
  <2>5. /\ ~(Cardinality(all) > MaxScanFiles)
        /\ task.scope.facts \subseteq scan[j].facts
        /\ \A k \in Matched(all) : k <= j => files[k].facts \subseteq scan[j].facts
    <3>1. j <= n /\ scan[j].uncertainty = {}
      BY <2>1, <2>2, <2>4
    <3> QED
      BY <1>4, <3>1
  <2>6. ASSUME NEW k \in Matched(all), k <= i PROVE files[k].facts \subseteq scan[i].facts
    <3>1. k = i \/ k <= j
      BY <1>5, <2>1, <2>6
    <3> QED
      BY <2>4, <2>5, <3>1
  <2> QED
    BY <2>4, <2>5, <2>6
<1>8. n \in S
  BY <1>4, <1>6, <1>7, Induction DEF Inductive
<1>9. /\ ~(Cardinality(all) > MaxScanFiles)
      /\ task.scope.facts \subseteq scan[n].facts
      /\ \A j \in Matched(all) : files[j].facts \subseteq scan[n].facts
  <2>1. n <= n /\ scan[n] = Scan(task)
    BY <1>1, <1>3 DEF Scans
  <2>2. \A j \in Matched(all) : j <= n
    BY <1>5
  <2> QED
    BY <1>4, <1>8, <2>1, <2>2
<1>10. Cardinality(all) <= MaxScanFiles
  <2>1. IsFiniteSet(1 .. n)
    BY FS_Interval
  <2>2. all \subseteq 1 .. n
    BY <1>1, <1>2 DEF AllMatched
  <2>3. IsFiniteSet(all)
    BY <2>1, <2>2, FS_Subset
  <2>4. Cardinality(all) \in Nat
    BY <2>3, FS_CardinalityType
  <2> QED
    BY <1>9, <2>4, SemanticAssumption
<1>11. Matched(all) = all
  BY <1>2, <1>10, AllAreRead
<1>12. Scan(task) = scan[n]
  BY <1>1, <1>3 DEF Scans
<1>13. Declares(task) = task.scope.facts \cup UNION {files[i].facts : i \in all}
  BY <1>2 DEF Declares, AllMatched, MayWrite
<1> QED
  BY <1>9, <1>11, <1>12, <1>13

\* So a footprint without a doubt holds all that the files of its task declare.
LEMMA CertainFootprintHoldsAll ==
  ASSUME NEW task, FilesTyped, ScanSemanticFootprint(task).uncertainty = {}
  PROVE  Declares(task) \subseteq ScanSemanticFootprint(task).facts
<1>1. PICK scan : scan = Scan(task)
  OBVIOUS
<1>2. /\ ScanSemanticFootprint(task).facts = Kept(scan.facts)
      /\ ScanSemanticFootprint(task).uncertainty =
           scan.uncertainty \cup (IF scan.facts # Kept(scan.facts) THEN {"SEMANTIC_FACT_LIMITS"} ELSE {})
  BY <1>1 DEF ScanSemanticFootprint
<1>3. scan.uncertainty = {} /\ scan.facts = Kept(scan.facts)
  BY <1>2
<1> QED
  BY <1>1, <1>2, <1>3, CertainScanReadAll

-----------------------------------------------------------------------------
(* The footprints of Semantic.                                               *)

\* An approval that was assessed waits only beside others that were, and conflicts with none.
FootprintsApart ==
  \A a, b \in Attempt :
    approvals[a].status = "approved" /\ Live(b) /\ a # b =>
      /\ approvals[b].status = "approved"
      /\ ~Conflict(approvals[a].footprint, approvals[b].footprint)

ApprovalField == {"status", "commit", "task", "footprint"}

SemanticInv ==
  /\ DOMAIN approvals = Attempt
  /\ \A a \in Attempt : DOMAIN approvals[a] = ApprovalField
  /\ FootprintsApart

LEMMA ConflictIsMutual ==
  ASSUME NEW left, NEW right, Conflict(left, right)
  PROVE  Conflict(right, left)
<1>1. \A a, b : PathOverlap(a, b) => PathOverlap(b, a)
  BY DEF PathOverlap
<1> QED
  BY <1>1 DEF Conflict

LEMMA ApproveRequestKeeps ==
  ASSUME SemanticInv, NEW a \in Attempt, NEW task, ApproveRequest(a, task)
  PROVE  SemanticInv'
<1>1. PICK footprint : footprint = ScanSemanticFootprint(task)
  OBVIOUS
<1>2. CASE approvals' = approvals
  BY <1>2 DEF SemanticInv, FootprintsApart, Live
<1>3. CASE approvals' # approvals
  <2>1. PICK approval : approval = [status |-> "approved", commit |-> commits, task |-> task,
                                    footprint |-> footprint]
    OBVIOUS
  <2>2. /\ AssessSemanticAdmission(a, footprint) = "NON_OVERLAPPING"
        /\ approvals' = [approvals EXCEPT ![a] = approval]
    BY <1>1, <1>3, <2>1 DEF ApproveRequest
  <2>3. ASSUME NEW b \in Attempt \ {a}, Live(b)
        PROVE  /\ RequestSemanticFootprint(approvals[b]).uncertainty = {}
               /\ ~Conflict(footprint, RequestSemanticFootprint(approvals[b]))
    BY <2>2, <2>3 DEF AssessSemanticAdmission
  <2>4. ASSUME NEW b \in Attempt \ {a}, Live(b)
        PROVE  /\ approvals[b].status = "approved"
               /\ ~Conflict(footprint, approvals[b].footprint)
               /\ ~Conflict(approvals[b].footprint, footprint)
    <3>1. approvals[b].status # "legacy"
      BY <2>3, <2>4 DEF RequestSemanticFootprint, NoFootprint
    <3>2. approvals[b].status = "approved" /\ RequestSemanticFootprint(approvals[b]) = approvals[b].footprint
      BY <2>4, <3>1 DEF Live, RequestSemanticFootprint
    <3> QED
      BY <2>3, <2>4, <3>2, ConflictIsMutual
  <2>5. /\ DOMAIN approvals' = Attempt /\ approvals'[a] = approval
        /\ \A b \in Attempt \ {a} : approvals'[b] = approvals[b]
    BY <2>2 DEF SemanticInv
  <2>6. DOMAIN approval = ApprovalField /\ approval.status = "approved" /\ approval.footprint = footprint
    BY <2>1 DEF ApprovalField
  <2>7. FootprintsApart'
    <3> SUFFICES ASSUME NEW b \in Attempt, NEW c \in Attempt, b # c,
                        approvals'[b].status = "approved", approvals'[c].status \in {"approved", "legacy"}
                 PROVE  /\ approvals'[c].status = "approved"
                        /\ ~Conflict(approvals'[b].footprint, approvals'[c].footprint)
      BY DEF FootprintsApart, Live, Conflict
    <3>1. CASE b = a
      BY <2>4, <2>5, <2>6, <3>1 DEF Live
    <3>2. CASE c = a
      BY <2>4, <2>5, <2>6, <3>2 DEF Live
    <3>3. CASE b # a /\ c # a
      BY <2>5, <3>3 DEF SemanticInv, FootprintsApart, Live
    <3> QED
      BY <3>1, <3>2, <3>3
  <2> QED
    BY <2>5, <2>6, <2>7 DEF SemanticInv
<1> QED
  BY <1>2, <1>3

\* An approval that waits no longer.
LEMMA OverKeeps ==
  ASSUME SemanticInv, NEW a \in Attempt, NEW over \in {"over", "lapsed"},
         approvals' = [approvals EXCEPT ![a].status = over]
  PROVE  SemanticInv'
<1>1. PICK approval : approval = [approvals[a] EXCEPT !.status = over]
  OBVIOUS
<1>2. DOMAIN approval = ApprovalField /\ approval.status = over
  BY <1>1 DEF SemanticInv, ApprovalField
<1>3. /\ DOMAIN approvals' = Attempt /\ approvals'[a] = approval
      /\ \A b \in Attempt \ {a} : approvals'[b] = approvals[b]
  BY <1>1 DEF SemanticInv
<1>4. FootprintsApart'
  BY <1>2, <1>3 DEF SemanticInv, FootprintsApart, Live
<1> QED
  BY <1>2, <1>3, <1>4 DEF SemanticInv

LEMMA SemanticStep == SemanticInv /\ [SemanticNext]_semanticVars => SemanticInv'
<1> SUFFICES ASSUME SemanticInv, [SemanticNext]_semanticVars PROVE SemanticInv'
  OBVIOUS
<1>1. CASE approvals' = approvals
  BY <1>1 DEF SemanticInv, FootprintsApart, Live
<1>2. ASSUME NEW a \in Attempt, NEW task \in tasks, ApproveRequest(a, task) PROVE SemanticInv'
  BY <1>2, ApproveRequestKeeps
<1>3. ASSUME NEW a \in Attempt, Dispatched(a) PROVE SemanticInv'
  BY <1>3, OverKeeps DEF Dispatched
<1>4. ASSUME NEW a \in Attempt, ApprovalExpires(a) PROVE SemanticInv'
  <2>1. PICK over \in {"over", "lapsed"} : approvals' = [approvals EXCEPT ![a].status = over]
    BY <1>4 DEF ApprovalExpires
  <2> QED
    BY <2>1, OverKeeps
<1>5. ASSUME NEW a \in Attempt, AssessLegacyApproval(a) PROVE SemanticInv'
  BY <1>1, <1>5 DEF AssessLegacyApproval
<1>6. CASE Commit
  BY <1>1, <1>6 DEF Commit
<1>7. CASE UNCHANGED semanticVars
  BY <1>1, <1>7 DEF semanticVars
<1> QED
  BY <1>2, <1>3, <1>4, <1>5, <1>6, <1>7 DEF SemanticNext

\* However approvals are given, dispatched or expire while the repository changes, those that
\* wait were compared with each other, whichever came first, and none of them conflict; an
\* approval of an earlier version, which has no footprint, waits beside none of them.
THEOREM FootprintsStayApart == SemanticSpec => []FootprintsApart
<1>1. SemanticInit => SemanticInv
  <2> SUFFICES ASSUME SemanticInit PROVE SemanticInv
    OBVIOUS
  <2>1. PICK approved, task :
          approvals = [a \in Attempt |-> IF a \in approved
                         THEN [NoApproval EXCEPT !.status = "legacy", !.task = task] ELSE NoApproval]
    BY DEF SemanticInit
  <2>2. \A a \in Attempt : DOMAIN approvals[a] = ApprovalField /\ approvals[a].status \in {"none", "legacy"}
    BY <2>1 DEF NoApproval, ApprovalField
  <2> QED
    BY <2>1, <2>2 DEF SemanticInv, FootprintsApart
<1>2. SemanticInv => FootprintsApart
  BY DEF SemanticInv
<1> QED
  BY <1>1, <1>2, SemanticStep, PTL DEF SemanticSpec

\* What is known of an approval that was assessed: its footprint is that of its task, and while
\* the repository is as it was, nothing that the task may rewrite is missing from it.
Assessed(a) ==
  LET approval == approvals[a]
  IN  /\ approval.task.in_scope_paths \subseteq Seq(STRING)
      /\ approval.footprint.write_paths = approval.task.in_scope_paths
      /\ approval.commit \in Nat /\ approval.commit <= commits
      /\ approval.commit = commits => Declares(approval.task) \subseteq approval.footprint.facts

AssessedInv ==
  /\ DOMAIN files = DOMAIN Path /\ FilesTyped
  /\ commits \in Nat
  /\ \A task \in tasks : task.in_scope_paths \subseteq Seq(STRING)
  /\ \A a \in Attempt : approvals[a].status = "approved" => Assessed(a)

LEMMA ApproveRequestAssesses ==
  ASSUME SemanticInv, AssessedInv, NEW a \in Attempt, NEW task \in tasks, ApproveRequest(a, task),
         approvals' # approvals
  PROVE  \A b \in Attempt : approvals'[b].status = "approved" => Assessed(b)'
<1>1. PICK footprint : footprint = ScanSemanticFootprint(task)
  OBVIOUS
<1>2. PICK approval : approval = [status |-> "approved", commit |-> commits, task |-> task,
                                  footprint |-> footprint]
  OBVIOUS
<1>3. /\ AssessSemanticAdmission(a, footprint) = "NON_OVERLAPPING"
      /\ approvals' = [approvals EXCEPT ![a] = approval]
      /\ files' = files /\ commits' = commits
  BY <1>1, <1>2 DEF ApproveRequest
<1>4. footprint.uncertainty = {}
  BY <1>3 DEF AssessSemanticAdmission
<1>5. footprint.write_paths = task.in_scope_paths
  BY <1>1 DEF ScanSemanticFootprint
<1>6. Declares(task) \subseteq footprint.facts
  BY <1>1, <1>4, CertainFootprintHoldsAll DEF AssessedInv
<1>7. approvals'[a] = approval /\ \A b \in Attempt \ {a} : approvals'[b] = approvals[b]
  BY <1>3 DEF SemanticInv
<1>8. \A other : Declares(other)' = Declares(other)
  BY <1>3 DEF Declares, MayWrite
<1>9. Assessed(a)'
  <2>1. approval.task = task /\ approval.footprint = footprint /\ approval.commit = commits
    BY <1>2
  <2>2. task.in_scope_paths \subseteq Seq(STRING) /\ commits \in Nat
    BY DEF AssessedInv
  <2>3. Declares(approval.task)' \subseteq footprint.facts
    BY <1>3, <1>6, <2>1 DEF Declares, MayWrite
  <2> QED
    BY <1>3, <1>5, <1>7, <2>1, <2>2, <2>3 DEF Assessed
<1>10. ASSUME NEW b \in Attempt \ {a}, approvals'[b].status = "approved" PROVE Assessed(b)'
  <2>1. Assessed(b)
    BY <1>7, <1>10 DEF AssessedInv
  <2> QED
    BY <1>3, <1>7, <2>1 DEF Assessed, Declares, MayWrite
<1> QED
  BY <1>9, <1>10

\* The approvals that are left wait as they did.
LEMMA FewerAssessed ==
  ASSUME SemanticInv, AssessedInv, NEW a \in Attempt, NEW over \in {"over", "lapsed"},
         approvals' = [approvals EXCEPT ![a].status = over],
         files' = files, commits' = commits, tasks' = tasks
  PROVE  AssessedInv'
<1>1. ASSUME NEW b \in Attempt, approvals'[b].status = "approved" PROVE Assessed(b)'
  <2>1. b # a
    BY <1>1 DEF SemanticInv, ApprovalField
  <2>2. approvals'[b] = approvals[b]
    BY <2>1 DEF SemanticInv
  <2>3. Assessed(b)
    BY <1>1, <2>2 DEF AssessedInv
  <2> QED
    BY <2>2, <2>3 DEF Assessed, Declares, MayWrite
<1> QED
  BY <1>1 DEF AssessedInv, FilesTyped

LEMMA CommitKeepsAssessed ==
  ASSUME SemanticInv, AssessedInv, Commit
  PROVE  AssessedInv'
<1>1. PICK i \in DOMAIN Path, content \in Revised :
        files[i] # Untracked /\ files' = [files EXCEPT ![i] = content]
  BY DEF Commit
<1>2. commits' = commits + 1 /\ approvals' = approvals /\ tasks' = tasks
  BY DEF Commit
<1>3. commits \in Nat /\ commits' \in Nat
  BY <1>2 DEF AssessedInv
<1>4. DOMAIN files' = DOMAIN Path /\ FilesTyped'
  BY <1>1, SemanticAssumption DEF AssessedInv, FilesTyped
<1>5. ASSUME NEW a \in Attempt, approvals'[a].status = "approved" PROVE Assessed(a)'
  <2>1. Assessed(a)
    BY <1>2, <1>5 DEF AssessedInv
  <2>2. approvals[a].commit \in Nat /\ approvals[a].commit <= commits
    BY <2>1 DEF Assessed
  <2>3. approvals[a].commit <= commits' /\ approvals[a].commit # commits'
    BY <1>2, <1>3, <2>2
  <2> QED
    BY <1>2, <2>1, <2>2, <2>3 DEF Assessed
<1> QED
  BY <1>2, <1>3, <1>4, <1>5 DEF AssessedInv

LEMMA AssessedStep == SemanticInv /\ AssessedInv /\ [SemanticNext]_semanticVars => AssessedInv'
<1> SUFFICES ASSUME SemanticInv, AssessedInv, [SemanticNext]_semanticVars PROVE AssessedInv'
  OBVIOUS
<1>1. CASE UNCHANGED <<files, commits, tasks, approvals>>
  BY <1>1 DEF AssessedInv, Assessed, FilesTyped, Declares, MayWrite
<1>2. ASSUME NEW a \in Attempt, NEW task \in tasks, ApproveRequest(a, task) PROVE AssessedInv'
  <2>1. files' = files /\ commits' = commits /\ tasks' = tasks
    BY <1>2 DEF ApproveRequest
  <2>2. CASE approvals' = approvals
    BY <1>1, <2>1, <2>2
  <2>3. CASE approvals' # approvals
    <3>1. \A b \in Attempt : approvals'[b].status = "approved" => Assessed(b)'
      BY <1>2, <2>3, ApproveRequestAssesses
    <3> QED
      BY <2>1, <3>1 DEF AssessedInv, FilesTyped
  <2> QED
    BY <2>2, <2>3
<1>3. ASSUME NEW a \in Attempt, Dispatched(a) PROVE AssessedInv'
  BY <1>3, FewerAssessed DEF Dispatched
<1>4. ASSUME NEW a \in Attempt, ApprovalExpires(a) PROVE AssessedInv'
  <2>1. PICK over \in {"over", "lapsed"} : approvals' = [approvals EXCEPT ![a].status = over]
    BY <1>4 DEF ApprovalExpires
  <2>2. files' = files /\ commits' = commits /\ tasks' = tasks
    BY <1>4 DEF ApprovalExpires
  <2> QED
    BY <2>1, <2>2, FewerAssessed
<1>5. ASSUME NEW a \in Attempt, AssessLegacyApproval(a) PROVE AssessedInv'
  BY <1>1, <1>5 DEF AssessLegacyApproval
<1>6. CASE Commit
  BY <1>6, CommitKeepsAssessed
<1>7. CASE UNCHANGED semanticVars
  BY <1>1, <1>7 DEF semanticVars
<1> QED
  BY <1>2, <1>3, <1>4, <1>5, <1>6, <1>7 DEF SemanticNext

\* Two tasks that may write one file have write paths that overlap.
LEMMA WritersOverlap ==
  ASSUME NEW left, NEW right, left.in_scope_paths \subseteq Seq(STRING),
         right.in_scope_paths \subseteq Seq(STRING),
         NEW i \in DOMAIN Path, MayWrite(left, i), MayWrite(right, i)
  PROVE  \E a \in left.in_scope_paths, b \in right.in_scope_paths : PathOverlap(a, b)
<1>1. PICK a \in left.in_scope_paths : ScannerMatches(Path[i], a)
  BY DEF MayWrite
<1>2. PICK b \in right.in_scope_paths : ScannerMatches(Path[i], b)
  BY DEF MayWrite
<1>3. PICK C : C = STRING \cup {"/"}
  OBVIOUS
<1>4. \A s \in Seq(STRING) : s \in Seq(C)
  BY <1>3
<1>5. Path[i] \in Seq(STRING)
  BY SemanticAssumption
<1>6. Path[i] \in Seq(C) /\ a \in Seq(C) /\ b \in Seq(C) /\ "/" \in C
  BY <1>3, <1>4, <1>5
<1>7. PathOverlap(a, b)
  BY <1>1, <1>2, <1>6, MatchersOverlap
<1> QED
  BY <1>7

\* However approvals are given, dispatched or expire while the repository changes, no two tasks
\* that were assessed and wait may write one file, tracked or not; and while the repository is
\* as it was for both, nothing that one may rewrite declares what the other may rewrite
\* declares, whatever the limits of the scan.
THEOREM ApprovedStayApart == SemanticSpec => []ApprovedApart
<1>1. SemanticInit => SemanticInv /\ AssessedInv
  <2> SUFFICES ASSUME SemanticInit PROVE SemanticInv /\ AssessedInv
    OBVIOUS
  <2>1. PICK repository \in Repository :
          /\ files = repository.files /\ tasks = repository.tasks
          /\ \E approved \in SUBSET Legacy : \E task \in repository.tasks :
               approvals = [a \in Attempt |-> IF a \in approved
                 THEN [NoApproval EXCEPT !.status = "legacy", !.task = task] ELSE NoApproval]
    BY DEF SemanticInit
  <2>2. PICK approved, task :
          approvals = [a \in Attempt |-> IF a \in approved
                         THEN [NoApproval EXCEPT !.status = "legacy", !.task = task] ELSE NoApproval]
    BY <2>1
  <2>3. \A a \in Attempt : DOMAIN approvals[a] = ApprovalField /\ approvals[a].status \in {"none", "legacy"}
    BY <2>2 DEF NoApproval, ApprovalField
  <2>4. SemanticInv
    BY <2>2, <2>3 DEF SemanticInv, FootprintsApart
  <2>5. DOMAIN files = DOMAIN Path /\ FilesTyped /\ \A t \in tasks : t.in_scope_paths \subseteq Seq(STRING)
    BY <2>1, SemanticAssumption DEF FilesTyped
  <2>6. commits \in Nat
    BY DEF SemanticInit
  <2> QED
    BY <2>3, <2>4, <2>5, <2>6 DEF AssessedInv
<1>2. SemanticInv /\ AssessedInv => ApprovedApart
  <2> SUFFICES ASSUME SemanticInv, AssessedInv, NEW a \in Attempt, NEW b \in Attempt, a # b,
                      approvals[a].status = "approved", approvals[b].status = "approved"
               PROVE  /\ \A i \in DOMAIN Path :
                           ~(MayWrite(approvals[a].task, i) /\ MayWrite(approvals[b].task, i))
                      /\ approvals[a].commit = commits /\ approvals[b].commit = commits =>
                           Declares(approvals[a].task) \cap Declares(approvals[b].task) = {}
    BY DEF ApprovedApart
  <2>1. ~Conflict(approvals[a].footprint, approvals[b].footprint)
    BY DEF SemanticInv, FootprintsApart, Live
  <2>2. Assessed(a) /\ Assessed(b)
    BY DEF AssessedInv
  <2>3. ASSUME NEW i \in DOMAIN Path, MayWrite(approvals[a].task, i), MayWrite(approvals[b].task, i) PROVE FALSE
    <3>1. PICK left : left = approvals[a].task
      OBVIOUS
    <3>2. PICK right : right = approvals[b].task
      OBVIOUS
    <3>3. left.in_scope_paths \subseteq Seq(STRING) /\ right.in_scope_paths \subseteq Seq(STRING)
      BY <2>2, <3>1, <3>2 DEF Assessed
    <3>4. MayWrite(left, i) /\ MayWrite(right, i)
      BY <2>3, <3>1, <3>2
    <3>5. \E l \in left.in_scope_paths, r \in right.in_scope_paths : PathOverlap(l, r)
      BY <3>3, <3>4, WritersOverlap
    <3> QED
      BY <2>1, <2>2, <3>1, <3>2, <3>5 DEF Conflict, Assessed
  <2>4. ASSUME approvals[a].commit = commits, approvals[b].commit = commits
        PROVE  Declares(approvals[a].task) \cap Declares(approvals[b].task) = {}
    <3>1. /\ Declares(approvals[a].task) \subseteq approvals[a].footprint.facts
          /\ Declares(approvals[b].task) \subseteq approvals[b].footprint.facts
      BY <2>2, <2>4 DEF Assessed
    <3> QED
      BY <2>1, <3>1 DEF Conflict
  <2> QED
    BY <2>3, <2>4
<1>3. SemanticInv /\ AssessedInv /\ [SemanticNext]_semanticVars => (SemanticInv /\ AssessedInv)'
  BY SemanticStep, AssessedStep
<1> QED
  BY <1>1, <1>2, <1>3, PTL DEF SemanticSpec

-----------------------------------------------------------------------------
(* The nodes and profiles of Registry.                                       *)

NodeRecord == [active : BOOLEAN, adapters : SUBSET Provider, power : 0 .. MaxPower]
ConnectionRecord == [status : {"none", "pending_agent", "ready"}, agent_id : Machine \cup {Null},
                     config : Setting \cup {Null}]
Pair == [model : Model, node : Machine]
ProfileRecord == [mode : {"automatic", "manual", Null}, head : Model \cup {Null},
                  assignments : [Role -> Pair \cup {Null}], revision : Nat]

DataTyped(d) ==
  /\ DOMAIN d = {"enrollments", "nodes", "connections", "models", "profile", "idempotency"}
  /\ d.nodes \in [Machine -> NodeRecord]
  /\ d.connections \in [Connection -> ConnectionRecord]
  /\ d.models \subseteq Model
  /\ d.profile \in ProfileRecord
  /\ d.profile.mode = Null => \A role \in Role : d.profile.assignments[role] = Null

\* What is saved was found valid.
RegistryInv == DataTyped(data) /\ Valid(data)

LEMMA Updated ==
  ASSUME NEW d, Update(d), DataTyped(d)
  PROVE  RegistryInv'
BY DEF Update, RegistryInv

LEMMA ReportedNode ==
  ASSUME NEW report \in Reports
  PROVE  /\ Reported(report) \in NodeRecord
         /\ Reported(report).active /\ Reported(report).adapters = report.adapters
BY RegistryAssumption DEF Reports, Power, Reported, NodeRecord

\* What the service makes of a heartbeat.
LEMMA HeardData ==
  ASSUME DataTyped(data), NEW m \in Machine, NEW report, Reported(report) \in NodeRecord,
         NEW d, d = Heard(data, m, report)
  PROVE  /\ DataTyped(d)
         /\ d.models = data.models /\ d.profile = data.profile
         /\ d.nodes[m] = Reported(report) /\ \A n \in Machine \ {m} : d.nodes[n] = data.nodes[n]
         /\ \A c \in Connection : d.connections[c] =
              IF /\ data.connections[c].status = "ready" /\ data.connections[c].agent_id = m
                 /\ ProviderOf[c] \notin report.adapters
              THEN Unbound ELSE data.connections[c]
<1>1. PICK node \in NodeRecord : node = Reported(report)
  OBVIOUS
<1>2. PICK connections : connections =
        [c \in Connection |->
           IF /\ data.connections[c].status = "ready" /\ data.connections[c].agent_id = m
              /\ ProviderOf[c] \notin report.adapters
           THEN Unbound ELSE data.connections[c]]
  OBVIOUS
<1>3. Unbound \in ConnectionRecord
  BY DEF Unbound, ConnectionRecord
<1>4. connections \in [Connection -> ConnectionRecord]
  BY <1>2, <1>3 DEF DataTyped
<1>5. PICK nodes \in [Machine -> NodeRecord] : nodes = [data.nodes EXCEPT ![m] = node]
  BY DEF DataTyped
<1>6. d = [data EXCEPT !.nodes = nodes, !.connections = connections]
  BY <1>1, <1>2, <1>5 DEF Heard
<1>7. /\ DOMAIN d = DOMAIN data /\ d.nodes = nodes /\ d.connections = connections
      /\ d.models = data.models /\ d.profile = data.profile
  BY <1>6 DEF DataTyped
<1>8. DataTyped(d)
  BY <1>4, <1>5, <1>7 DEF DataTyped
<1>9. nodes[m] = node /\ \A n \in Machine \ {m} : nodes[n] = data.nodes[n]
  BY <1>5 DEF DataTyped
<1> QED
  BY <1>1, <1>2, <1>7, <1>8, <1>9

LEMMA RegistryStep == RegistryInv /\ [RegistryNext]_registryVars => RegistryInv'
<1> SUFFICES ASSUME RegistryInv, [RegistryNext]_registryVars PROVE RegistryInv'
  OBVIOUS
<1>0. DataTyped(data)
  BY DEF RegistryInv
<1>1. CASE data' = data
  BY <1>1 DEF RegistryInv
<1>2. ASSUME NEW m \in Machine, CreateNodeEnrollment(m) PROVE RegistryInv'
  <2>1. PICK d : d = [data EXCEPT !.enrollments[m] = "pending"]
    OBVIOUS
  <2>2. Update(d)
    BY <1>2, <2>1 DEF CreateNodeEnrollment
  <2>3. DataTyped(d)
    BY <1>0, <2>1 DEF DataTyped
  <2> QED
    BY <2>2, <2>3, Updated
<1>3. ASSUME NEW m \in Machine, NEW report \in Reports, EnrollNode(m, report) PROVE RegistryInv'
  <2>1. PICK node \in NodeRecord : node = Reported(report)
    BY ReportedNode
  <2>2. PICK d : d = [data EXCEPT !.enrollments[m] = "consumed", !.nodes[m] = node]
    OBVIOUS
  <2>3. Update(d)
    BY <1>3, <2>1, <2>2 DEF EnrollNode
  <2>4. DataTyped(d)
    BY <1>0, <2>2 DEF DataTyped
  <2> QED
    BY <2>3, <2>4, Updated
<1>4. ASSUME NEW m \in Machine, NEW report \in Reports, HeartbeatNode(m, report) PROVE RegistryInv'
  <2>1. PICK d : d = Heard(data, m, report)
    OBVIOUS
  <2>2. Update(d)
    BY <1>4, <2>1 DEF HeartbeatNode
  <2>3. DataTyped(d)
    BY <1>0, <2>1, ReportedNode, HeardData
  <2> QED
    BY <2>2, <2>3, Updated
<1>5. ASSUME NEW m \in Machine, NEW c \in Connection, NEW setting \in Setting, NEW key \in BindKey,
             BindProviderConnection(m, c, setting, key)
      PROVE  RegistryInv'
  <2>1. PICK bound \in ConnectionRecord : bound = [status |-> "ready", agent_id |-> m, config |-> setting]
    BY DEF ConnectionRecord
  <2>2. PICK answered : answered = [key |-> key, request |-> [node |-> m, connection |-> c, config |-> setting]]
    OBVIOUS
  <2>3. PICK d : d = [data EXCEPT !.connections[c] = bound, !.idempotency = @ \cup {answered}]
    OBVIOUS
  <2>4. Update(d)
    BY <1>5, <2>1, <2>2, <2>3 DEF BindProviderConnection
  <2>5. DataTyped(d)
    BY <1>0, <2>3 DEF DataTyped
  <2> QED
    BY <2>4, <2>5, Updated
<1>6. ASSUME NEW c \in Connection, CreateProviderConnection(c) PROVE RegistryInv'
  <2>1. PICK unbound \in ConnectionRecord : unbound = Unbound
    BY DEF Unbound, ConnectionRecord
  <2>2. PICK d : d = [data EXCEPT !.connections[c] = unbound]
    OBVIOUS
  <2>3. Update(d)
    BY <1>6, <2>1, <2>2 DEF CreateProviderConnection
  <2>4. DataTyped(d)
    BY <1>0, <2>2 DEF DataTyped
  <2> QED
    BY <2>3, <2>4, Updated
<1>7. ASSUME NEW model \in Model, CreateModel(model) PROVE RegistryInv'
  <2>1. PICK d : d = [data EXCEPT !.models = @ \cup {model}]
    OBVIOUS
  <2>2. Update(d)
    BY <1>7, <2>1 DEF CreateModel
  <2>3. DataTyped(d)
    BY <1>0, <2>1 DEF DataTyped
  <2> QED
    BY <2>2, <2>3, Updated
<1>8. ASSUME NEW mode \in {"automatic", "manual"}, NEW head \in data.models, NEW assignments \in Assignments,
             SaveOrchestrationProfile(mode, head, assignments)
      PROVE  RegistryInv'
  <2>1. PICK profile : profile = [mode |-> mode, head |-> head, assignments |-> assignments,
                                  revision |-> data.profile.revision + 1]
    OBVIOUS
  <2>2. data.profile.revision + 1 \in Nat
    BY <1>0 DEF DataTyped, ProfileRecord
  <2>3. profile \in ProfileRecord
    BY <1>0, <2>1, <2>2, RegistryAssumption DEF DataTyped, ProfileRecord, Pair
  <2>4. PICK d : d = [data EXCEPT !.profile = profile]
    OBVIOUS
  <2>5. Update(d)
    BY <1>8, <2>1, <2>4 DEF SaveOrchestrationProfile
  <2>6. /\ DOMAIN d = DOMAIN data /\ d.nodes = data.nodes /\ d.connections = data.connections
        /\ d.models = data.models /\ d.profile = profile
    BY <1>0, <2>4 DEF DataTyped
  <2>7. profile.mode # Null
    BY <2>1, RegistryAssumption
  <2> QED
    BY <1>0, <2>1, <2>3, <2>5, <2>6, <2>7, Updated DEF DataTyped
<1>9. CASE UNCHANGED registryVars
  BY <1>1, <1>9 DEF registryVars
<1>10. ASSUME NEW m \in Machine, EnrollmentExpires(m) \/ NodeFallsSilent(m) PROVE RegistryInv'
  BY <1>1, <1>10 DEF EnrollmentExpires, NodeFallsSilent
<1> QED
  BY <1>2, <1>3, <1>4, <1>5, <1>6, <1>7, <1>8, <1>9, <1>10 DEF RegistryNext

LEMMA RegistryInitInv == RegistryInit => RegistryInv
<1> SUFFICES ASSUME RegistryInit PROVE RegistryInv
  OBVIOUS
<1>1. /\ DOMAIN data = {"enrollments", "nodes", "connections", "models", "profile", "idempotency"}
      /\ data.nodes = [m \in Machine |-> NoNode]
      /\ data.connections = [c \in Connection |-> [Unbound EXCEPT !.status = "none"]]
      /\ data.models = {} /\ data.profile = NoProfile
  BY DEF RegistryInit
<1>2. NoNode \in NodeRecord
  BY RegistryAssumption DEF NoNode, NodeRecord
<1>3. PICK unbound : unbound = [Unbound EXCEPT !.status = "none"]
  OBVIOUS
<1>4. unbound \in ConnectionRecord /\ unbound.status = "none"
  BY <1>3 DEF Unbound, ConnectionRecord
<1>5. /\ NoProfile \in ProfileRecord /\ NoProfile.mode = Null
      /\ \A role \in Role : NoProfile.assignments[role] = Null
  <2>1. PICK profile : profile = NoProfile
    OBVIOUS
  <2>2. /\ profile = [mode |-> Null, head |-> Null, assignments |-> [r \in Role |-> Null], revision |-> 0]
        /\ [r \in Role |-> Null] \in [Role -> Pair \cup {Null}]
    BY <2>1 DEF NoProfile
  <2>3. /\ profile \in ProfileRecord /\ profile.mode = Null
        /\ \A role \in Role : profile.assignments[role] = Null
    BY <2>2 DEF ProfileRecord
  <2> QED
    BY <2>1, <2>3
<1>6. DataTyped(data)
  BY <1>1, <1>2, <1>3, <1>4, <1>5 DEF DataTyped
<1>7. Valid(data)
  BY <1>1, <1>3, <1>4, <1>5 DEF Valid, ConnectionValid, ProfileValid
<1> QED
  BY <1>6, <1>7 DEF RegistryInv

LEMMA RegistryInvariance == RegistrySpec => []RegistryInv
BY RegistryInitInv, RegistryStep, PTL DEF RegistrySpec

\* What a heartbeat leaves of the connections is valid: those the node does not serve any
\* more wait for an agent, the others keep the one they had.
LEMMA HeardConnections ==
  ASSUME RegistryInv, NEW m \in Machine, NEW report, Reported(report) \in NodeRecord,
         NEW d, d = Heard(data, m, report)
  PROVE  \A c \in Connection : ConnectionValid(d, c)
<1> SUFFICES ASSUME NEW c \in Connection, d.connections[c].status = "ready"
             PROVE  /\ d.connections[c].agent_id # Null /\ d.connections[c].config # Null
                    /\ ProviderOf[c] \in d.nodes[d.connections[c].agent_id].adapters
  BY DEF ConnectionValid
<1>1. /\ d.nodes[m] = Reported(report) /\ \A n \in Machine \ {m} : d.nodes[n] = data.nodes[n]
      /\ d.connections[c] = IF /\ data.connections[c].status = "ready" /\ data.connections[c].agent_id = m
                               /\ ProviderOf[c] \notin report.adapters
                            THEN Unbound ELSE data.connections[c]
  BY HeardData DEF RegistryInv
<1>2. Unbound.status # "ready"
  BY DEF Unbound
<1>3. /\ d.connections[c] = data.connections[c]
      /\ data.connections[c].agent_id = m => ProviderOf[c] \in report.adapters
  BY <1>1, <1>2
<1>4. /\ data.connections[c].agent_id # Null /\ data.connections[c].config # Null
      /\ ProviderOf[c] \in data.nodes[data.connections[c].agent_id].adapters
      /\ data.connections[c].agent_id \in Machine
  <2>1. data.connections[c] \in ConnectionRecord
    BY DEF RegistryInv, DataTyped
  <2>2. ConnectionValid(data, c) /\ data.connections[c].status = "ready"
    BY <1>3 DEF RegistryInv, Valid
  <2> QED
    BY <2>1, <2>2 DEF ConnectionRecord, ConnectionValid
<1>5. Reported(report).adapters = report.adapters
  BY DEF Reported
<1> QED
  BY <1>1, <1>3, <1>4, <1>5

\* A profile stays valid if what it fixes on the node is still served there.
LEMMA HeardProfile ==
  ASSUME RegistryInv, NEW m \in Machine, NEW report, Reported(report) \in NodeRecord,
         NEW d, d = Heard(data, m, report)
  PROVE  ProfileValid(d) <=>
           \A role \in Role :
             LET fixed == data.profile.assignments[role]
             IN  fixed # Null /\ fixed.node = m => ProviderFor(fixed.model) \in report.adapters
<1>1. /\ d.models = data.models /\ d.profile = data.profile
      /\ d.nodes[m] = Reported(report) /\ \A n \in Machine \ {m} : d.nodes[n] = data.nodes[n]
  BY HeardData DEF RegistryInv
<1>2. Reported(report).adapters = report.adapters /\ Reported(report).active
  BY DEF Reported
<1>3. ProfileValid(data) /\ DataTyped(data)
  BY DEF RegistryInv, Valid
<1>4. ASSUME NEW role \in Role
      PROVE  data.profile.assignments[role] # Null =>
               data.profile.assignments[role].node \in Machine
  BY <1>3 DEF DataTyped, ProfileRecord, Pair
<1>5. CASE data.profile.mode = Null \/ data.profile.mode = "automatic"
  <2>1. \A role \in Role : data.profile.assignments[role] = Null
    BY <1>3, <1>5, RegistryAssumption DEF DataTyped, ProfileValid
  <2>2. ProfileValid(d)
    BY <1>1, <1>3, <1>5 DEF ProfileValid
  <2> QED
    BY <2>1, <2>2
<1>6. CASE data.profile.mode # Null /\ data.profile.mode # "automatic"
  <2>1. ProfileValid(d) <=> \A role \in Role : AssignmentValid(d, role, data.profile.assignments[role])
    BY <1>1, <1>3, <1>6 DEF ProfileValid
  <2>2. \A role \in Role : AssignmentValid(data, role, data.profile.assignments[role])
    BY <1>3, <1>6 DEF ProfileValid
  <2>3. ASSUME NEW role \in Role
        PROVE  AssignmentValid(d, role, data.profile.assignments[role]) <=>
                 (data.profile.assignments[role] # Null /\ data.profile.assignments[role].node = m =>
                    ProviderFor(data.profile.assignments[role].model) \in report.adapters)
    <3>1. PICK fixed : fixed = data.profile.assignments[role]
      OBVIOUS
    <3>2. CASE fixed = Null
      BY <3>1, <3>2 DEF AssignmentValid
    <3>3. CASE fixed # Null /\ fixed.node = m
      BY <1>1, <1>2, <2>2, <3>1, <3>3 DEF AssignmentValid
    <3>4. CASE fixed # Null /\ fixed.node # m
      BY <1>1, <1>4, <2>2, <3>1, <3>4 DEF AssignmentValid
    <3> QED
      BY <3>1, <3>2, <3>3, <3>4
  <2> QED
    BY <2>1, <2>3
<1> QED
  BY <1>5, <1>6

\* The store takes a heartbeat whatever the node has come to lack, unless a manual profile has
\* fixed on the node what it lacks now.
THEOREM ReportsAreAccepted == RegistrySpec => []ReportsAccepted
<1>1. RegistryInv => ReportsAccepted
  <2> SUFFICES ASSUME RegistryInv, NEW m \in Machine, NEW adapters \in SUBSET Provider
               PROVE  Valid(Heard(data, m, [adapters |-> adapters, power |-> data.nodes[m].power])) <=>
                        \A role \in Role :
                          LET fixed == data.profile.assignments[role]
                          IN  fixed # Null /\ fixed.node = m => ProviderFor(fixed.model) \in adapters
    BY DEF ReportsAccepted
  <2>1. PICK report : report = [adapters |-> adapters, power |-> data.nodes[m].power]
    OBVIOUS
  <2>2. report.adapters = adapters /\ Reported(report) \in NodeRecord
    BY <2>1 DEF RegistryInv, DataTyped, NodeRecord, Reported
  <2>3. PICK d : d = Heard(data, m, report)
    OBVIOUS
  <2>4. Valid(d) <=> ProfileValid(d)
    BY <2>2, <2>3, HeardConnections DEF Valid
  <2> QED
    BY <2>1, <2>2, <2>3, <2>4, HeardProfile
<1> QED
  BY <1>1, RegistryInvariance, PTL

-----------------------------------------------------------------------------
(* The assignment of roles.                                                  *)

LEMMA LeastOf ==
  ASSUME NEW S, S # {}, NEW f \in [S -> Nat]
  PROVE  \E p \in S : \A q \in S : f[p] <= f[q]
<1>1. PICK T : T = {f[p] : p \in S}
  OBVIOUS
<1>2. T \in SUBSET Nat /\ T # {}
  BY <1>1
<1>3. PICK n \in T : \A m \in T : n <= m
  BY <1>2, Least
<1> QED
  BY <1>1, <1>3

\* One element comes, by four numbers in turn, before or beside all others.
HasFirst(S, f1, f2, f3, f4) ==
  \E p \in S : \A q \in S :
    \/ f1[p] < f1[q]
    \/ f1[p] = f1[q] /\ f2[p] < f2[q]
    \/ f1[p] = f1[q] /\ f2[p] = f2[q] /\ f3[p] < f3[q]
    \/ f1[p] = f1[q] /\ f2[p] = f2[q] /\ f3[p] = f3[q] /\ f4[p] <= f4[q]

LEMMA LeastOfFour ==
  ASSUME NEW S, S # {}, NEW f1 \in [S -> Nat], NEW f2 \in [S -> Nat], NEW f3 \in [S -> Nat],
         NEW f4 \in [S -> Nat]
  PROVE  HasFirst(S, f1, f2, f3, f4)
<1>1. PICK p1 \in S : \A q \in S : f1[p1] <= f1[q]
  BY LeastOf
<1>2. PICK S1 : S1 = {q \in S : f1[q] = f1[p1]}
  OBVIOUS
<1>3. PICK g2 : g2 = [q \in S1 |-> f2[q]]
  OBVIOUS
<1>4. PICK p2 \in S1 : \A q \in S1 : f2[p2] <= f2[q]
  <2>1. S1 # {} /\ g2 \in [S1 -> Nat]
    BY <1>2, <1>3
  <2> QED
    BY <1>3, <2>1, LeastOf
<1>5. PICK S2 : S2 = {q \in S1 : f2[q] = f2[p2]}
  OBVIOUS
<1>6. PICK g3 : g3 = [q \in S2 |-> f3[q]]
  OBVIOUS
<1>7. PICK p3 \in S2 : \A q \in S2 : f3[p3] <= f3[q]
  <2>1. S2 # {} /\ g3 \in [S2 -> Nat]
    BY <1>2, <1>4, <1>5, <1>6
  <2> QED
    BY <1>6, <2>1, LeastOf
<1>8. PICK S3 : S3 = {q \in S2 : f3[q] = f3[p3]}
  OBVIOUS
<1>9. PICK g4 : g4 = [q \in S3 |-> f4[q]]
  OBVIOUS
<1>10. PICK p4 \in S3 : \A q \in S3 : f4[p4] <= f4[q]
  <2>1. S3 # {} /\ g4 \in [S3 -> Nat]
    BY <1>2, <1>5, <1>7, <1>8, <1>9
  <2> QED
    BY <1>9, <2>1, LeastOf
<1>11. p4 \in S /\ f1[p4] = f1[p1] /\ f2[p4] = f2[p2] /\ f3[p4] = f3[p3]
  BY <1>2, <1>5, <1>8, <1>10
<1>12. ASSUME NEW q \in S
       PROVE  \/ f1[p4] < f1[q]
              \/ f1[p4] = f1[q] /\ f2[p4] < f2[q]
              \/ f1[p4] = f1[q] /\ f2[p4] = f2[q] /\ f3[p4] < f3[q]
              \/ f1[p4] = f1[q] /\ f2[p4] = f2[q] /\ f3[p4] = f3[q] /\ f4[p4] <= f4[q]
  <2>1. f1[p4] \in Nat /\ f2[p4] \in Nat /\ f3[p4] \in Nat /\ f1[q] \in Nat /\ f2[q] \in Nat /\ f3[q] \in Nat
    BY <1>11
  <2>2. f1[p4] <= f1[q]
    BY <1>1, <1>11
  <2>3. f1[p4] = f1[q] => q \in S1 /\ f2[p4] <= f2[q]
    BY <1>2, <1>4, <1>11
  <2>4. f1[p4] = f1[q] /\ f2[p4] = f2[q] => q \in S2 /\ f3[p4] <= f3[q]
    BY <1>5, <1>7, <1>11, <2>3
  <2>5. f1[p4] = f1[q] /\ f2[p4] = f2[q] /\ f3[p4] = f3[q] => f4[p4] <= f4[q]
    BY <1>8, <1>10, <1>11, <2>4
  <2> QED
    BY <2>1, <2>2, <2>3, <2>4, <2>5
<1> QED
  BY <1>11, <1>12 DEF HasFirst

\* What is available is a pair of a model and a node that are there.
LEMMA AvailablePairs ==
  ASSUME RegistryInv, NEW role, NEW pair \in Available(role)
  PROVE  /\ pair \in Pair /\ pair # Null
         /\ data.nodes[pair.node].power \in 0 .. MaxPower
<1>1. /\ pair \in [model : data.models, node : Machine]
      /\ data.models \subseteq Model /\ data.nodes \in [Machine -> NodeRecord]
  BY DEF RegistryInv, DataTyped, Available
<1>2. pair \in Pair
  BY <1>1 DEF Pair
<1>3. data.nodes[pair.node] \in NodeRecord
  BY <1>1
<1> QED
  BY <1>2, <1>3, RegistryAssumption DEF Pair, NodeRecord

\* The first of some available pairs is one of them, if there are any.
LEMMA FirstIsOneOf ==
  ASSUME RegistryInv, NEW role, NEW pairs \in SUBSET Available(role)
  PROVE  IF pairs = {} THEN FirstOf(pairs, role) = Null ELSE FirstOf(pairs, role) \in pairs
<1>1. CASE pairs = {}
  BY <1>1 DEF FirstOf
<1>2. CASE pairs # {}
  <2>1. PICK rank : rank = [p \in pairs |-> Rank(p, role)]
    OBVIOUS
  <2>2. PICK exact \in [pairs -> {0, 1}] :
          exact = [p \in pairs |-> IF role \in Capabilities[p.model] THEN 0 ELSE 1]
    OBVIOUS
  <2>3. PICK less : less = [p \in pairs |-> MaxPower - data.nodes[p.node].power]
    OBVIOUS
  <2>4. PICK models : models = [p \in pairs |-> p.model]
    OBVIOUS
  <2>5. PICK nodes : nodes = [p \in pairs |-> p.node]
    OBVIOUS
  <2>6. \A p \in pairs : p \in Pair /\ data.nodes[p.node].power \in 0 .. MaxPower
    BY AvailablePairs
  <2>7. exact \in [pairs -> Nat] /\ models \in [pairs -> Nat] /\ nodes \in [pairs -> Nat]
    <3>1. exact \in [pairs -> Nat]
      BY <2>2
    <3>2. \A p \in pairs : p.model \in Nat /\ p.node \in Nat
      BY <2>6, RegistryAssumption DEF Pair
    <3>3. models \in [pairs -> Nat]
      BY <2>4, <3>2
    <3>4. nodes \in [pairs -> Nat]
      BY <2>5, <3>2
    <3> QED
      BY <3>1, <3>3, <3>4
  <2>8. less \in [pairs -> Nat]
    <3>1. \A p \in pairs : MaxPower - data.nodes[p.node].power \in Nat
      BY <2>6, RegistryAssumption
    <3> QED
      BY <2>3, <3>1
  <2>9. PICK p \in pairs : \A q \in pairs :
          \/ exact[p] < exact[q]
          \/ exact[p] = exact[q] /\ less[p] < less[q]
          \/ exact[p] = exact[q] /\ less[p] = less[q] /\ models[p] < models[q]
          \/ exact[p] = exact[q] /\ less[p] = less[q] /\ models[p] = models[q] /\ nodes[p] <= nodes[q]
    <3>1. HasFirst(pairs, exact, less, models, nodes)
      BY <1>2, <2>7, <2>8, LeastOfFour
    <3> QED
      BY <3>1 DEF HasFirst
  <2>10. \A q \in pairs : /\ rank[q][1] = exact[q] /\ rank[q][2] = - data.nodes[q.node].power
                          /\ rank[q][3] = models[q] /\ rank[q][4] = nodes[q]
    BY <2>1, <2>2, <2>4, <2>5 DEF Rank
  <2>11. ASSUME NEW q \in pairs \ {p}
         PROVE  \E i \in 1 .. 4 : rank[p][i] < rank[q][i] /\ \A j \in 1 .. i - 1 : rank[p][j] = rank[q][j]
    <3>1. /\ less[p] < less[q] => rank[p][2] < rank[q][2]
          /\ less[p] = less[q] => rank[p][2] = rank[q][2]
      <4>1. PICK x \in 0 .. MaxPower, y \in 0 .. MaxPower :
              x = data.nodes[p.node].power /\ y = data.nodes[q.node].power
        BY <2>6
      <4>2. less[p] = MaxPower - x /\ less[q] = MaxPower - y /\ rank[p][2] = - x /\ rank[q][2] = - y
        BY <2>3, <2>10, <4>1
      <4> QED
        BY <4>2, RegistryAssumption
    <3>2. CASE exact[p] < exact[q]
      <4>1. rank[p][1] < rank[q][1] /\ \A j \in 1 .. 1 - 1 : FALSE
        BY <2>10, <3>2
      <4> WITNESS 1 \in 1 .. 4
      <4> QED
        BY <4>1
    <3>3. CASE exact[p] = exact[q] /\ less[p] < less[q]
      <4>1. rank[p][2] < rank[q][2] /\ rank[p][1] = rank[q][1] /\ \A j \in 1 .. 2 - 1 : j = 1
        BY <2>10, <3>1, <3>3
      <4> WITNESS 2 \in 1 .. 4
      <4> QED
        BY <4>1
    <3>4. CASE exact[p] = exact[q] /\ less[p] = less[q] /\ models[p] < models[q]
      <4>1. /\ rank[p][3] < rank[q][3] /\ rank[p][1] = rank[q][1] /\ rank[p][2] = rank[q][2]
            /\ \A j \in 1 .. 3 - 1 : j \in {1, 2}
        BY <2>10, <3>1, <3>4
      <4> WITNESS 3 \in 1 .. 4
      <4> QED
        BY <4>1
    <3>5. CASE exact[p] = exact[q] /\ less[p] = less[q] /\ models[p] = models[q] /\ nodes[p] <= nodes[q]
      <4>1. nodes[p] # nodes[q]
        BY <2>4, <2>5, <2>6, <3>5 DEF Pair
      <4>2. nodes[p] \in Nat /\ nodes[q] \in Nat /\ nodes[p] < nodes[q]
        BY <2>7, <3>5, <4>1
      <4>3. /\ rank[p][4] < rank[q][4] /\ rank[p][1] = rank[q][1] /\ rank[p][2] = rank[q][2]
            /\ rank[p][3] = rank[q][3] /\ \A j \in 1 .. 4 - 1 : j \in {1, 2, 3}
        BY <2>10, <3>1, <3>5, <4>2
      <4> WITNESS 4 \in 1 .. 4
      <4> QED
        BY <4>3
    <3> QED
      BY <2>9, <3>2, <3>3, <3>4, <3>5
  <2>12. \A q \in pairs \ {p} : Precedes(Rank(p, role), Rank(q, role))
    BY <2>1, <2>11 DEF Precedes
  <2> QED
    BY <1>2, <2>12 DEF FirstOf
<1> QED
  BY <1>1, <1>2

\* Who was chosen for a role is available, and nobody was chosen automatically only if nobody
\* is available.
LEMMA ChosenIsAvailable ==
  ASSUME RegistryInv, NEW role
  PROVE  /\ Chosen(role) # Null => Chosen(role) \in Available(role)
         /\ Chosen(role) = Null /\ data.profile.mode = "automatic" => Available(role) = {}
<1>1. Null \notin Available(role)
  BY AvailablePairs
<1>2. CASE data.profile.mode = "manual"
  BY <1>2 DEF Chosen
<1>3. CASE data.profile.mode # "manual"
  <2>1. PICK pairs : pairs = Available(role)
    OBVIOUS
  <2>2. Chosen(role) = FirstOf(pairs, role)
    BY <1>3, <2>1 DEF Chosen
  <2> QED
    BY <1>1, <2>1, <2>2, FirstIsOneOf
<1> QED
  BY <1>2, <1>3

\* The flat form of what AssignmentsApart says of one role.
SuitsBeside(roles, coder, role, pair) ==
  /\ pair \in Available(role)
  /\ role \in {"reviewer", "validator"} /\ "coder" \in roles /\ coder # Null => Apart(pair, coder)

LEMMA ResolvedSuits ==
  ASSUME RegistryInv, NEW roles, NEW role
  PROVE  /\ Resolved(roles, role) # Null =>
              SuitsBeside(roles, Chosen("coder"), role, Resolved(roles, role))
         /\ Resolved(roles, role) = Null /\ data.profile.mode = "automatic" =>
              \A pair \in Available(role) : ~SuitsBeside(roles, Chosen("coder"), role, pair)
<1>1. PICK chosen : chosen = Chosen(role)
  OBVIOUS
<1>2. PICK coder : coder = Chosen("coder")
  OBVIOUS
<1>3. PICK resolved : resolved = Resolved(roles, role)
  OBVIOUS
<1>4. PICK pairs : pairs = {p \in Available(role) : Apart(p, coder)}
  OBVIOUS
<1>5. /\ chosen # Null => chosen \in Available(role)
      /\ chosen = Null /\ data.profile.mode = "automatic" => Available(role) = {}
  BY <1>1, ChosenIsAvailable
<1>6. CASE \/ role \notin {"reviewer", "validator"} \/ "coder" \notin roles
           \/ chosen = Null \/ coder = Null \/ Apart(chosen, coder)
  <2>1. resolved = chosen
    BY <1>1, <1>2, <1>3, <1>6 DEF Resolved
  <2> QED
    BY <1>2, <1>3, <1>5, <1>6, <2>1 DEF SuitsBeside
<1>7. CASE ~ (\/ role \notin {"reviewer", "validator"} \/ "coder" \notin roles
              \/ chosen = Null \/ coder = Null \/ Apart(chosen, coder))
  <2>1. CASE data.profile.mode = "automatic"
    <3>1. resolved = FirstOf(pairs, role)
      BY <1>1, <1>2, <1>3, <1>4, <1>7, <2>1 DEF Resolved
    <3>2. IF pairs = {} THEN resolved = Null ELSE resolved \in pairs
      BY <1>4, <3>1, FirstIsOneOf
    <3>3. \A p \in pairs : p \in Available(role) /\ p # Null /\ Apart(p, coder)
      BY <1>4, AvailablePairs
    <3> QED
      BY <1>2, <1>3, <1>4, <1>7, <3>2, <3>3 DEF SuitsBeside
  <2>2. CASE data.profile.mode # "automatic"
    <3>1. resolved = Null
      BY <1>1, <1>2, <1>3, <1>7, <2>2 DEF Resolved
    <3> QED
      BY <1>3, <2>2, <3>1
  <2> QED
    BY <2>1, <2>2
<1> QED
  BY <1>6, <1>7

\* Whatever was reported, bound and fallen silent, an assignment that is made names only nodes
\* that are online and serve the provider, who reviews or validates shares nothing with who
\* codes, and the automatic choice leaves a role empty only if nothing of that kind is left.
THEOREM AssignmentsAreApart == RegistrySpec => []AssignmentsApart
<1>1. RegistryInv => AssignmentsApart
  <2> SUFFICES ASSUME RegistryInv, NEW roles \in (SUBSET Role) \ {{}}, NEW role \in roles
               PROVE  LET assigned == Resolution(roles).assignments
                          Suits(r, pair) ==
                            /\ pair \in Available(r)
                            /\ r \in {"reviewer", "validator"} /\ "coder" \in roles /\ assigned["coder"] # Null =>
                                 Apart(pair, assigned["coder"])
                      IN  /\ assigned[role] # Null => Suits(role, assigned[role])
                          /\ assigned[role] = Null /\ data.profile.mode = "automatic" =>
                               \A pair \in Available(role) : ~Suits(role, pair)
    BY DEF AssignmentsApart
  <2>1. PICK assigned : assigned = [r \in roles |-> Resolved(roles, r)]
    OBVIOUS
  <2>2. Resolution(roles).assignments = assigned
    BY <2>1 DEF Resolution
  <2>3. "coder" \in roles => assigned["coder"] = Chosen("coder")
    BY <2>1 DEF Resolved
  <2>4. \A pair : SuitsBeside(roles, Chosen("coder"), role, pair) <=>
                    /\ pair \in Available(role)
                    /\ role \in {"reviewer", "validator"} /\ "coder" \in roles /\ assigned["coder"] # Null =>
                         Apart(pair, assigned["coder"])
    BY <2>3 DEF SuitsBeside
  <2>5. assigned[role] = Resolved(roles, role)
    BY <2>1
  <2> QED
    BY <2>2, <2>4, <2>5, ResolvedSuits
<1> QED
  BY <1>1, RegistryInvariance, PTL

====================================================================================
