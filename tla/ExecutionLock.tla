---------------------------- MODULE ExecutionLock ----------------------------
(***************************************************************************)
(* The per-garment execution lock of app/pipeline/lock.py, seen without     *)
(* its clocks: one Redis key, set with NX and an expiry, deleted only by    *)
(* the process whose token it still holds.  TimedExecutionLock adds the     *)
(* 180 s expiry and the 60 s wait and implements this module; the garment   *)
(* pipeline composes it with the database.                                  *)
(*                                                                         *)
(* A token is a fresh uuid per execution.  It is modelled by the process:   *)
(* a process that re-enters has set the key again, so the key it finds is   *)
(* never the one a former execution of its own left behind.                 *)
(***************************************************************************)

CONSTANTS
    Waiters,   \* background workers: lock with wait=True
    Callers,   \* interactive /step requests: lock with wait=False
    NoToken    \* the Redis key does not exist

Lockers == Waiters \cup Callers

ASSUME LockersAssumption ==
    /\ NoToken \notin Lockers
    /\ Waiters \cap Callers = {}

VARIABLES
    key,       \* the token stored under wardrobe_pipeline_lock:<garment>
    inside     \* where each process is with respect to the lock

lockVars == <<key, inside>>

(***************************************************************************)
(* "locked" and "unlocked" are both inside the `async with` block; in the   *)
(* second, the process waited max_wait_seconds and went on without the      *)
(* lock (acquired is False).                                                *)
(***************************************************************************)
Positions == {"outside", "waiting", "locked", "unlocked"}

LockTypeOK ==
    /\ key \in Lockers \cup {NoToken}
    /\ inside \in [Lockers -> Positions]

LockInit ==
    /\ key = NoToken
    /\ inside = [p \in Lockers |-> "outside"]

Executing(p) == inside[p] \in {"locked", "unlocked"}

-----------------------------------------------------------------------------

\* A mutant of TryAcquire: SET without NX.
SetsKeyAnyway(p) ==
    /\ inside[p] \in {"outside", "waiting"}
    /\ key' = p
    /\ inside' = [inside EXCEPT ![p] = "locked"]

\* SET key token NX EX ttl succeeds, at the first attempt or at a poll.
TryAcquire(p) ==
    /\ inside[p] \in {"outside", "waiting"}
    /\ key = NoToken
    /\ key' = p
    /\ inside' = [inside EXCEPT ![p] = "locked"]

\* The first attempt fails and wait=True: start polling.
StartWaiting(p) ==
    /\ p \in Waiters
    /\ inside[p] = "outside"
    /\ key # NoToken
    /\ inside' = [inside EXCEPT ![p] = "waiting"]
    /\ UNCHANGED key

\* A worker whose last poll failed proceeds without the lock.
ProceedAnyway(p) ==
    /\ inside[p] = "waiting"
    /\ key # NoToken
    /\ inside' = [inside EXCEPT ![p] = "unlocked"]
    /\ UNCHANGED key

\* wait=False and the key exists: GarmentLockBusy, a 409 for the caller.
Busy(p) ==
    /\ p \in Callers
    /\ inside[p] = "outside"
    /\ key # NoToken
    /\ UNCHANGED lockVars

\* The finally block.  The Lua script deletes the key only when it still
\* holds this execution's token; without acquired there is nothing to do.
Release(p) ==
    /\ Executing(p)
    /\ inside' = [inside EXCEPT ![p] = "outside"]
    /\ key' = IF inside[p] = "locked" /\ key = p THEN NoToken ELSE key

\* EVAL fails: the exception is logged and the key is left to its expiry.
ReleaseFails(p) ==
    /\ inside[p] = "locked"
    /\ inside' = [inside EXCEPT ![p] = "outside"]
    /\ UNCHANGED key

\* The process dies anywhere in the block or while it polls.
Die(p) ==
    /\ inside[p] # "outside"
    /\ inside' = [inside EXCEPT ![p] = "outside"]
    /\ UNCHANGED key

\* Redis drops the key when its expiry has passed.
Expire ==
    /\ key # NoToken
    /\ key' = NoToken
    /\ UNCHANGED inside

LockNext ==
    \/ Expire
    \/ \E p \in Lockers :
        \/ TryAcquire(p) \/ StartWaiting(p) \/ ProceedAnyway(p)
        \/ Busy(p) \/ Release(p) \/ ReleaseFails(p) \/ Die(p)

LockSpec == LockInit /\ [][LockNext]_lockVars

=============================================================================
