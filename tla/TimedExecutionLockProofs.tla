---------------------- MODULE TimedExecutionLockProofs ----------------------
(***************************************************************************)
(* For every number of workers and callers and every expiry and wait: the   *)
(* timed lock keeps its types, a fresh holder's lease is intact, an overlap *)
(* of two executions has a cause, and the timed lock implements the         *)
(* clock-free one that the garment pipeline is built on.                    *)
(***************************************************************************)
EXTENDS TimedExecutionLock, TLAPS

USE LockersAssumption, ClockAssumption

\* The variables of the timed lock keep their types (lock.py).
THEOREM TimedTypeCorrect == TimedSpec => []TimedTypeOK
<1>1. TimedInit => TimedTypeOK
  BY DEF TimedInit, LockInit, TimedTypeOK, LockTypeOK, Positions
<1>2. TimedTypeOK /\ [TimedNext]_timedVars => TimedTypeOK'
  <2> SUFFICES ASSUME TimedTypeOK, [TimedNext]_timedVars
               PROVE  TimedTypeOK'
    OBVIOUS
  <2> USE DEF TimedTypeOK, LockTypeOK, Positions
  <2>1. CASE Tick
    BY <2>1 DEF Tick
  <2>2. ASSUME NEW p \in Lockers, TimedAcquire(p) PROVE TimedTypeOK'
    BY <2>2 DEF TimedAcquire, TryAcquire
  <2>3. ASSUME NEW p \in Lockers, TimedStartWaiting(p) PROVE TimedTypeOK'
    BY <2>3 DEF TimedStartWaiting, StartWaiting
  <2>4. ASSUME NEW p \in Lockers, TimedProceedAnyway(p) PROVE TimedTypeOK'
    BY <2>4 DEF TimedProceedAnyway, ProceedAnyway
  <2>5. ASSUME NEW p \in Lockers, TimedBusy(p) PROVE TimedTypeOK'
    BY <2>5 DEF TimedBusy, Busy, lockVars, clocks
  <2>6. ASSUME NEW p \in Lockers, TimedRelease(p) PROVE TimedTypeOK'
    BY <2>6 DEF TimedRelease, Release
  <2>7. ASSUME NEW p \in Lockers, TimedReleaseFails(p) PROVE TimedTypeOK'
    BY <2>7 DEF TimedReleaseFails, ReleaseFails
  <2>8. ASSUME NEW p \in Lockers, TimedDie(p) PROVE TimedTypeOK'
    BY <2>8 DEF TimedDie, Die
  <2>9. CASE UNCHANGED timedVars
    BY <2>9 DEF timedVars
  <2> QED
    BY <2>1, <2>2, <2>3, <2>4, <2>5, <2>6, <2>7, <2>8, <2>9 DEF TimedNext
<1> QED
  BY <1>1, <1>2, PTL DEF TimedSpec

(***************************************************************************)
(* The lease invariant and the key/expiry correspondence are inductive only *)
(* together: an acquisition keeps a fresh holder's lease because it needs   *)
(* the key absent, which the lease itself excludes.                         *)
(***************************************************************************)
Lease == TimedTypeOK /\ KeyAlwaysExpires /\ LeaseIntact

LEMMA LeaseStep == Lease /\ [TimedNext]_timedVars => KeyAlwaysExpires' /\ LeaseIntact'
<1> SUFFICES ASSUME Lease, [TimedNext]_timedVars
             PROVE  KeyAlwaysExpires' /\ LeaseIntact'
  OBVIOUS
<1> USE DEF Lease, TimedTypeOK, LockTypeOK, Positions, KeyAlwaysExpires, LeaseIntact
<1>1. CASE Tick
  <2>1. KeyAlwaysExpires'
    BY <1>1 DEF Tick
  <2>2. ASSUME NEW p \in Lockers, inside'[p] = "locked", elapsed'[p] < Ttl
        PROVE  key' = p /\ expiry' = Ttl - elapsed'[p]
    <3>1. inside[p] = "locked" /\ elapsed[p] < Ttl /\ elapsed'[p] = elapsed[p] + 1
      BY <1>1, <2>2 DEF Tick, Executing
    <3>2. key = p /\ expiry = Ttl - elapsed[p] /\ expiry > 1
      BY <3>1, <2>2
    <3> QED
      BY <1>1, <3>1, <3>2 DEF Tick
  <2> QED
    BY <2>1, <2>2
<1>2. ASSUME NEW q \in Lockers, TimedAcquire(q) PROVE KeyAlwaysExpires' /\ LeaseIntact'
  BY <1>2 DEF TimedAcquire, TryAcquire
<1>3. ASSUME NEW q \in Lockers, TimedStartWaiting(q) PROVE KeyAlwaysExpires' /\ LeaseIntact'
  BY <1>3 DEF TimedStartWaiting, StartWaiting
<1>4. ASSUME NEW q \in Lockers, TimedProceedAnyway(q) PROVE KeyAlwaysExpires' /\ LeaseIntact'
  BY <1>4 DEF TimedProceedAnyway, ProceedAnyway
<1>5. ASSUME NEW q \in Lockers, TimedBusy(q) PROVE KeyAlwaysExpires' /\ LeaseIntact'
  BY <1>5 DEF TimedBusy, Busy, lockVars, clocks
<1>6. ASSUME NEW q \in Lockers, TimedRelease(q) PROVE KeyAlwaysExpires' /\ LeaseIntact'
  BY <1>6 DEF TimedRelease, Release
<1>7. ASSUME NEW q \in Lockers, TimedReleaseFails(q) PROVE KeyAlwaysExpires' /\ LeaseIntact'
  BY <1>7 DEF TimedReleaseFails, ReleaseFails
<1>8. ASSUME NEW q \in Lockers, TimedDie(q) PROVE KeyAlwaysExpires' /\ LeaseIntact'
  BY <1>8 DEF TimedDie, Die
<1>9. CASE UNCHANGED timedVars
  BY <1>9 DEF timedVars
<1> QED
  BY <1>1, <1>2, <1>3, <1>4, <1>5, <1>6, <1>7, <1>8, <1>9 DEF TimedNext

LEMMA LeaseHolds == TimedSpec => []Lease
<1>1. TimedInit => KeyAlwaysExpires /\ LeaseIntact
  BY DEF TimedInit, LockInit, KeyAlwaysExpires, LeaseIntact
<1>2. TimedTypeOK /\ KeyAlwaysExpires /\ LeaseIntact <=> Lease
  BY DEF Lease
<1> QED
  BY <1>1, <1>2, LeaseStep, TimedTypeCorrect, PTL DEF TimedSpec

\* A holder younger than ttl_seconds owns the key until its lease ends: the
\* token comparison of _release and NX leave it alone (lock.py).
THEOREM LeaseTheorem == TimedSpec => []LeaseIntact
<1>1. Lease => LeaseIntact
  BY DEF Lease
<1> QED
  BY <1>1, LeaseHolds, PTL

\* A lock key always has an expiry, so no crash blocks a garment for ever.
THEOREM KeyExpiryTheorem == TimedSpec => []KeyAlwaysExpires
<1>1. Lease => KeyAlwaysExpires
  BY DEF Lease
<1> QED
  BY <1>1, LeaseHolds, PTL

\* The mutual exclusion garment_execution_lock really gives: two executions
\* overlap only past an expired wait or an expired lease.
THEOREM OverlapTheorem == TimedSpec => []OverlapHasACause
<1>1. Lease => OverlapHasACause
  <2> SUFFICES ASSUME Lease, NEW p \in Lockers, NEW q \in Lockers, p # q,
                      Executing(p), Executing(q),
                      inside[p] # "unlocked", elapsed[p] # Ttl,
                      inside[q] # "unlocked", elapsed[q] # Ttl
               PROVE  FALSE
    BY DEF OverlapHasACause
  <2>1. inside[p] = "locked" /\ elapsed[p] < Ttl
    BY DEF Executing, Lease, TimedTypeOK
  <2>2. inside[q] = "locked" /\ elapsed[q] < Ttl
    BY DEF Executing, Lease, TimedTypeOK
  <2>3. key = p /\ key = q
    BY <2>1, <2>2 DEF Lease, LeaseIntact
  <2> QED
    BY <2>3
<1> QED
  BY <1>1, LeaseHolds, PTL

(***************************************************************************)
(* Forgetting the clocks: a tick is the expiry of the key or nothing, every *)
(* other step is the step of the same name.                                 *)
(***************************************************************************)
THEOREM TimedImplementsLock == TimedSpec => LockSpec
<1>1. TimedInit => LockInit
  BY DEF TimedInit
<1>2. Lease /\ [TimedNext]_timedVars => [LockNext]_lockVars
  <2> SUFFICES ASSUME Lease, TimedNext
               PROVE  [LockNext]_lockVars
    BY DEF timedVars, lockVars
  <2>1. CASE Tick
    <3>1. CASE expiry = 1
      BY <2>1, <3>1 DEF Tick, LockNext, Expire, Lease, KeyAlwaysExpires
    <3>2. CASE expiry # 1
      BY <2>1, <3>2 DEF Tick, lockVars
    <3> QED
      BY <3>1, <3>2
  <2>2. ASSUME NEW p \in Lockers,
               \/ TimedAcquire(p) \/ TimedStartWaiting(p) \/ TimedProceedAnyway(p)
               \/ TimedBusy(p) \/ TimedRelease(p) \/ TimedReleaseFails(p)
               \/ TimedDie(p)
        PROVE  LockNext
    BY <2>2 DEF LockNext, TimedAcquire, TimedStartWaiting, TimedProceedAnyway,
                TimedBusy, TimedRelease, TimedReleaseFails, TimedDie
  <2> QED
    BY <2>1, <2>2 DEF TimedNext
<1> QED
  BY <1>1, <1>2, LeaseHolds, PTL DEF TimedSpec, LockSpec

=============================================================================
