---------------------------------- MODULE Governor ----------------------------------
(***************************************************************************)
(* The locks of core/governor.mjs on the interfaces of one project.  The   *)
(* functions are pure: their caller keeps the locks and replaces one by    *)
(* what a function returns, and it knows the time and the canonical        *)
(* baseline of the project.  A call that throws is no step, and an action  *)
(* is enabled when some provider, decision and verification would be       *)
(* accepted: provider bindings, required tests and evidence ids are        *)
(* further refusals and left out.                                          *)
(***************************************************************************)
EXTENDS Integers

CONSTANTS LockId, Scope,
          Overlaps,    \* the pairs of scopes with a hit
          Interval,    \* heartbeat_interval_ms
          Lease,       \* the lengths of a lease (ttlMs) that are asked for
          MaxTime,     \* bound
          MaxDrift     \* bound: changes of the baseline

ASSUME GovernorAssumption ==
  /\ Overlaps \subseteq Scope \X Scope
  /\ \A s \in Scope : <<s, s>> \in Overlaps
  /\ \A s, r \in Scope : <<s, r>> \in Overlaps => <<r, s>> \in Overlaps
  /\ Interval \in Nat \ {0} /\ Lease \subseteq Nat /\ \A ttl \in Lease : ttl > Interval
  /\ MaxTime \in Nat /\ MaxDrift \in Nat

VARIABLES locks, now,
          canonical   \* version of the canonical baseline; moves as its parts or the epoch do

governor == <<locks, now, canonical>>

Status == {"GOVERNOR_LOCKED", "LOCK_RECOVERY", "UNLOCKED"}
NoLock == [status |-> "none"]
Lock == [status : Status, scope : Scope, baseline : Nat,
         issued_at : Nat, expires_at : Nat, last_heartbeat_at : Nat]

GovernorInit == locks = [l \in LockId |-> NoLock] /\ now = 0 /\ canonical = 0

Issued == {l \in LockId : locks[l] # NoLock}

\* Faulty: a heartbeat that is late, but within the lease, is no loss.
LockStateByLease(lock) ==
  IF lock.status # "GOVERNOR_LOCKED" THEN lock.status
  ELSE IF now >= lock.expires_at THEN "LOCK_EXPIRED"
  ELSE "GOVERNOR_LOCKED"

LockState(lock) ==
  IF lock.status # "GOVERNOR_LOCKED" THEN lock.status
  ELSE IF now >= lock.expires_at THEN "LOCK_EXPIRED"
  ELSE IF now - lock.last_heartbeat_at > Interval THEN "LOCK_HEARTBEAT_LOST"
  ELSE "GOVERNOR_LOCKED"

\* Faulty: only a lock that is in good standing counts.
FreeOfLiveLocks(s) == \A l \in Issued : LockState(locks[l]) = "GOVERNOR_LOCKED" => <<locks[l].scope, s>> \notin Overlaps

\* The check of issueLock, and of writerGate: a lock that lapsed still counts.
Free(s) == \A l \in Issued : LockState(locks[l]) # "UNLOCKED" => <<locks[l].scope, s>> \notin Overlaps

IssueLock(l, s, ttl) ==
  /\ l \notin Issued
  /\ Free(s)
  /\ locks' = [locks EXCEPT ![l] =
       [status |-> "GOVERNOR_LOCKED", scope |-> s, baseline |-> canonical,
        issued_at |-> now, expires_at |-> now + ttl, last_heartbeat_at |-> now]]
  /\ UNCHANGED <<now, canonical>>

\* Of the baseline only the control epoch is compared here, and it need not have moved.
Heartbeat(l, ttl) ==
  /\ l \in Issued /\ LockState(locks[l]) = "GOVERNOR_LOCKED"
  /\ locks' = [locks EXCEPT ![l].last_heartbeat_at = now, ![l].expires_at = now + ttl]
  /\ UNCHANGED <<now, canonical>>

\* providerFailed looks at nothing: a lock that was given back is held again.
ProviderFailed(l) ==
  /\ l \in Issued
  /\ locks' = [locks EXCEPT ![l].status = "LOCK_RECOVERY"]
  /\ UNCHANGED <<now, canonical>>

\* validateDecision, of a decision that was made for the baseline of the lock.
DecisionValid(l) == LockState(locks[l]) = "GOVERNOR_LOCKED" /\ locks[l].baseline = canonical

Unlock(l) ==
  /\ l \in Issued /\ DecisionValid(l)
  /\ locks' = [locks EXCEPT ![l].status = "UNLOCKED"]
  /\ UNCHANGED <<now, canonical>>

BaselineMoves == /\ canonical < MaxDrift
                 /\ canonical' = canonical + 1
                 /\ UNCHANGED <<locks, now>>

Tick == /\ now < MaxTime
        /\ now' = now + 1
        /\ UNCHANGED <<locks, canonical>>

GovernorNext ==
  \/ \E l \in LockId :
       \/ \E s \in Scope, ttl \in Lease : IssueLock(l, s, ttl)
       \/ \E ttl \in Lease : Heartbeat(l, ttl)
       \/ ProviderFailed(l)
       \/ Unlock(l)
  \/ BaselineMoves
  \/ Tick

GovernorSpec == GovernorInit /\ [][GovernorNext]_governor

-----------------------------------------------------------------------------
\* A lock has its fields, and its times are in order.
LocksTypeOK ==
  /\ locks \in [LockId -> {NoLock} \cup Lock]
  /\ now \in Nat /\ canonical \in Nat
  /\ \A l \in Issued : /\ locks[l].issued_at <= locks[l].last_heartbeat_at
                       /\ locks[l].last_heartbeat_at < locks[l].expires_at
                       /\ locks[l].last_heartbeat_at <= now
                       /\ locks[l].baseline <= canonical

\* Two locks that overlap are never both held: one that lapsed in the meantime keeps the
\* scope for itself, although it can no longer be used (tests/governor.test.mjs: expired or
\* heartbeat-lost locks hold writes for recovery).
OneGovernorPerScope ==
  \A l, m \in Issued :
    /\ l # m /\ <<locks[l].scope, locks[m].scope>> \in Overlaps
    /\ locks[l].status = "GOVERNOR_LOCKED"
    => locks[m].status # "GOVERNOR_LOCKED"

\* A lock that missed its lease or one heartbeat, or whose provider failed, is never again
\* in good standing and never given back, whatever is called afterwards (README: expiry, a
\* lost heartbeat and a failed provider do not turn into permission).
Overdue(l) == \/ locks[l].status = "LOCK_RECOVERY"
              \/ /\ locks[l].status = "GOVERNOR_LOCKED"
                 /\ now >= locks[l].expires_at \/ now > locks[l].last_heartbeat_at + Interval
LapsedStaysHeld == [][\A l \in LockId : locks[l] # NoLock /\ Overdue(l) => Overdue(l)']_governor
====
