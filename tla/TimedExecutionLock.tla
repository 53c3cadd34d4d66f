------------------------- MODULE TimedExecutionLock -------------------------
(***************************************************************************)
(* garment_execution_lock of app/pipeline/lock.py with its two clocks: the  *)
(* key expires Ttl ticks after it was set (ttl_seconds) whether or not its  *)
(* holder is still executing, and a worker polls once per tick for at most  *)
(* MaxWait ticks (max_wait_seconds) before it proceeds anyway.  A tick is   *)
(* any common divisor of the two.  An execution may last any time: it is a  *)
(* run of up to nine stages of model calls.                                 *)
(***************************************************************************)
EXTENDS ExecutionLock, Integers

CONSTANTS
    Ttl,       \* ttl_seconds = 180, in ticks
    MaxWait    \* max_wait_seconds = 60, in ticks

ASSUME ClockAssumption == Ttl \in Nat \ {0} /\ MaxWait \in Nat \ {0}

VARIABLES
    expiry,    \* ticks left before Redis drops the key; 0 when there is none
    elapsed,   \* ticks since the process entered the block, up to Ttl
    waited     \* ticks the process has polled

clocks == <<expiry, elapsed, waited>>
timedVars == <<key, inside, expiry, elapsed, waited>>

TimedTypeOK ==
    /\ LockTypeOK
    /\ expiry \in 0..Ttl
    /\ elapsed \in [Lockers -> 0..Ttl]
    /\ waited \in [Lockers -> 0..MaxWait]

TimedInit ==
    /\ LockInit
    /\ expiry = 0
    /\ elapsed = [p \in Lockers |-> 0]
    /\ waited = [p \in Lockers |-> 0]

-----------------------------------------------------------------------------

\* A poll is due: the waiter has slept and must try the key before it sleeps
\* again.  At waited = MaxWait the loop has ended.
TimedAcquire(p) ==
    /\ TryAcquire(p)
    /\ expiry' = Ttl
    /\ elapsed' = [elapsed EXCEPT ![p] = 0]
    /\ waited' = [waited EXCEPT ![p] = 0]

TimedStartWaiting(p) ==
    /\ StartWaiting(p)
    /\ waited' = [waited EXCEPT ![p] = 0]
    /\ UNCHANGED <<expiry, elapsed>>

\* A mutant of TimedProceedAnyway: the wait has no end.
NeverProceeds(p) == FALSE

TimedProceedAnyway(p) ==
    /\ waited[p] = MaxWait
    /\ ProceedAnyway(p)
    /\ elapsed' = [elapsed EXCEPT ![p] = 0]
    /\ waited' = [waited EXCEPT ![p] = 0]
    /\ UNCHANGED expiry

TimedBusy(p) == Busy(p) /\ UNCHANGED clocks

\* A mutant of TimedRelease: DEL whatever the key holds.
DeletesAnyKey(p) ==
    /\ Executing(p)
    /\ inside' = [inside EXCEPT ![p] = "outside"]
    /\ key' = NoToken
    /\ expiry' = 0
    /\ elapsed' = [elapsed EXCEPT ![p] = 0]
    /\ UNCHANGED waited

TimedRelease(p) ==
    /\ Release(p)
    /\ expiry' = IF key' = NoToken THEN 0 ELSE expiry
    /\ elapsed' = [elapsed EXCEPT ![p] = 0]
    /\ UNCHANGED waited

TimedReleaseFails(p) ==
    /\ ReleaseFails(p)
    /\ elapsed' = [elapsed EXCEPT ![p] = 0]
    /\ UNCHANGED <<expiry, waited>>

TimedDie(p) ==
    /\ Die(p)
    /\ elapsed' = [elapsed EXCEPT ![p] = 0]
    /\ waited' = [waited EXCEPT ![p] = 0]
    /\ UNCHANGED expiry

(***************************************************************************)
(* One tick passes for everybody.  A waiter whose loop has ended leaves it  *)
(* before the next tick: its last poll and the warning take no time.        *)
(***************************************************************************)
Tick ==
    /\ \A p \in Lockers : inside[p] = "waiting" => waited[p] < MaxWait
    /\ expiry' = IF expiry = 0 THEN 0 ELSE expiry - 1
    /\ key' = IF expiry = 1 THEN NoToken ELSE key
    /\ elapsed' = [p \in Lockers |->
          IF Executing(p) /\ elapsed[p] < Ttl THEN elapsed[p] + 1
                                              ELSE elapsed[p]]
    /\ waited' = [p \in Lockers |->
          IF inside[p] = "waiting" THEN waited[p] + 1 ELSE waited[p]]
    /\ UNCHANGED inside

Leave(p) == TimedRelease(p) \/ TimedReleaseFails(p)
Poll(p) == inside[p] = "waiting" /\ (TimedAcquire(p) \/ TimedProceedAnyway(p))

TimedNext ==
    \/ Tick
    \/ \E p \in Lockers :
        \/ TimedAcquire(p) \/ TimedStartWaiting(p) \/ TimedProceedAnyway(p)
        \/ TimedBusy(p) \/ TimedRelease(p) \/ TimedReleaseFails(p)
        \/ TimedDie(p)

TimedSpec == TimedInit /\ [][TimedNext]_timedVars

(***************************************************************************)
(* Time passes and a polling worker keeps polling.  Nothing forces an       *)
(* execution to end or a request to arrive.                                 *)
(***************************************************************************)
TimedFairness ==
    /\ WF_timedVars(Tick)
    /\ \A p \in Waiters : WF_timedVars(Poll(p))

-----------------------------------------------------------------------------

(***************************************************************************)
(* A holder whose expiry has not passed still owns the key, and the key     *)
(* lives exactly until that holder has been inside for Ttl ticks: nobody    *)
(* else's release, wait, crash or acquisition shortens its lease.           *)
(***************************************************************************)
LeaseIntact ==
    \A p \in Lockers :
        inside[p] = "locked" /\ elapsed[p] < Ttl
            => key = p /\ expiry = Ttl - elapsed[p]

\* The key and its expiry appear and disappear together: no key without an
\* expiry, so a crashed holder cannot block the garment for ever.
KeyAlwaysExpires == key = NoToken <=> expiry = 0

(***************************************************************************)
(* What mutual exclusion the lock really gives: when two processes execute  *)
(* stages of the garment together, one of them waited out max_wait_seconds  *)
(* and went on unlocked, or has outlived ttl_seconds.                       *)
(***************************************************************************)
OverlapHasACause ==
    \A p, q \in Lockers :
        p # q /\ Executing(p) /\ Executing(q)
            => \E r \in {p, q} : inside[r] = "unlocked" \/ elapsed[r] = Ttl

\* A worker that polls gets inside, with the lock or without it, whatever
\* became of the holder (queue.py relies on this not to stall its loop).
WaiterGetsIn == \A p \in Waiters : inside[p] = "waiting" ~> inside[p] # "waiting"

===================================================================
