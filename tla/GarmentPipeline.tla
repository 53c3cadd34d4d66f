--------------------------- MODULE GarmentPipeline ---------------------------
(***************************************************************************)
(* One garment and everybody who writes its row: the background workers    *)
(* (app/worker/queue.py, app/pipeline/orchestrator.py), the interactive     *)
(* /step endpoint, the /retry and /review endpoints (app/api/v1/garments.py)*)
(* and the execution lock they share.                                       *)
(*                                                                         *)
(* Every writer works on a copy of the garment its own database session     *)
(* loaded, and the session writes only the columns whose value differs from *)
(* what it loaded or last flushed (SQLAlchemy's unit of work, autoflush and *)
(* expire_on_commit off).  A flushed but uncommitted UPDATE holds the row   *)
(* lock of the garment until the commit (PostgreSQL, read committed).       *)
(***************************************************************************)
EXTENDS ExecutionLock, PipelineStages

CONSTANTS
    Reviewers,    \* concurrent /review requests
    Origins,      \* how the garment came to be: "upload", "sibling"
    Decisions,    \* the decisions reviewers send
    Forces,       \* the force flags requests send
    RetryStages,  \* the stages /retry may name; 1 is also "no stage"
    StepStages,   \* the stages /step may name; 0 is "no stage"
    MaxRequests,  \* bound on the requests after the upload
    OneApiProcess, \* all /step requests reach one process of the API
    MayExpire,    \* an execution may outlive the lock's expiry
    MayGiveUp,    \* a worker may wait out max_wait_seconds
    MayCrash      \* processes may die, and lock releases fail

Writers == Lockers \cup Reviewers

ASSUME PipelineAssumption ==
    /\ Reviewers \cap Lockers = {} /\ NoToken \notin Reviewers
    /\ Origins \subseteq {"upload", "sibling"}
    /\ Decisions \subseteq {"APPROVE", "REJECT", "OVERRIDE"}
    /\ Forces \subseteq BOOLEAN
    /\ RetryStages \subseteq Stage /\ StepStages \subseteq Stage \cup {0}
    /\ MaxRequests \in Nat
    /\ {OneApiProcess, MayExpire, MayGiveUp, MayCrash} \subseteq BOOLEAN

VARIABLES
    db,        \* the committed garment row
    runs,      \* per stage, the committed run with the latest started_at
    started,   \* per stage, how many runs have been started: the clock of started_at
    queue,     \* wardrobe_pipeline_jobs, oldest first
    requests,  \* requests made so far
    pc,        \* where each process is
    sess,      \* its database session
    job,       \* the job a worker has in hand
    at         \* the stage a worker or a /step request is at

vars == <<key, inside, db, runs, started, queue, requests, pc, sess, job, at>>

-----------------------------------------------------------------------------
(* Stage runs, jobs and sessions                                            *)

Run == [status : RunStatus \cup {"NONE", "RUNNING"}, input : Attrs \cup {NoAttrs},
        stamp : Nat]
NoRun == [status |-> "NONE", input |-> NoAttrs, stamp |-> 0]

Later(r1, r2) == IF r2.stamp > r1.stamp THEN r2 ELSE r1

Job == [force : BOOLEAN, from : Stage]
NewJob(force, from) == [force |-> force, from |-> from]
NoJob == NewJob(FALSE, 1)

BlankGarment == [status |-> Received, quality |-> "PENDING", attrs |-> NoAttrs]

\* cur: the object in memory; base: its columns as last loaded or flushed;
\* written: columns flushed in this transaction; own: runs it has added.
Session == [cur : Garment, base : Garment, written : SUBSET Fields, own : [Stage -> Run]]
Loaded(g) == [cur |-> g, base |-> g, written |-> {}, own |-> [k \in Stage |-> NoRun]]
NoSession == Loaded(BlankGarment)

Dirty(p) == {f \in Fields : sess[p].cur[f] # sess[p].base[f]}
RowLockFree(p) == \A q \in Writers \ {p} : sess[q].written = {}
CanFlush(p) == Dirty(p) = {} \/ RowLockFree(p)

\* select ... order_by(started_at.desc()).first(): committed runs and its own.
MostRecentRun(p, k) == Later(runs[k], sess[p].own[k])

\* A mutant of CommitSession: what changed since the last flush is not written.
CommitsFlushedOnly(p) ==
    /\ db' = [f \in Fields |-> IF f \in sess[p].written THEN sess[p].cur[f] ELSE db[f]]
    /\ runs' = [k \in Stage |-> Later(runs[k], sess[p].own[k])]

CommitSession(p) ==
    /\ db' = [f \in Fields |->
                 IF f \in sess[p].written \cup Dirty(p) THEN sess[p].cur[f] ELSE db[f]]
    /\ runs' = [k \in Stage |-> Later(runs[k], sess[p].own[k])]

Enqueue(force, from) == queue' = Append(queue, NewJob(force, from))

Request ==
    /\ requests < MaxRequests
    /\ requests' = requests + 1

Goto(p, l) == pc' = [pc EXCEPT ![p] = l]
SetSession(p, s) == sess' = [sess EXCEPT ![p] = s]

-----------------------------------------------------------------------------

Uploaded == [status |-> Received, quality |-> "PENDING", attrs |-> NoAttrs]
Spawned(k) == [status |-> k, quality |-> "APPROVED", attrs |-> NoAttrs]
SpawnStages == {k \in Stage : Pipeline[k] = "CROP"}

(***************************************************************************)
(* A garment exists once its row is committed; its first job is queued      *)
(* then.  An upload starts at the first stage, a sibling that stage 2 found *)
(* in another garment's photo starts cropped, at the attributes stage.      *)
(***************************************************************************)
Init ==
    /\ LockInit
    /\ \/ /\ "upload" \in Origins
          /\ db = Uploaded
          /\ queue = <<NewJob(FALSE, 1)>>
       \/ /\ "sibling" \in Origins
          /\ \E k \in SpawnStages :
                /\ k + 1 \in Stage
                /\ db = Spawned(k)
                /\ queue = <<NewJob(FALSE, k + 1)>>
    /\ runs = [k \in Stage |-> NoRun]
    /\ started = [k \in Stage |-> 0]
    /\ requests = 0
    /\ pc = [p \in Writers |-> "idle"]
    /\ sess = [p \in Writers |-> NoSession]
    /\ job = [w \in Waiters |-> NoJob]
    /\ at = [p \in Lockers |-> 1]

-----------------------------------------------------------------------------
(* The worker: process_job and PipelineOrchestrator.run                     *)

\* BRPOP times out on an empty queue and the loop goes round.
PollEmptyQueue(w) ==
    /\ pc[w] = "idle"
    /\ queue = <<>>
    /\ UNCHANGED vars

\* BRPOP, then session.get: the garment is loaded before the lock is taken.
TakeJob(w) ==
    /\ pc[w] = "idle"
    /\ queue # <<>>
    /\ job' = [job EXCEPT ![w] = Head(queue)]
    /\ queue' = Tail(queue)
    /\ SetSession(w, Loaded(db))
    /\ Goto(w, "locking")
    /\ UNCHANGED <<key, inside, db, runs, started, requests, at>>

EnterLock(w) ==
    /\ pc[w] = "locking"
    /\ TryAcquire(w) \/ (MayGiveUp /\ ProceedAnyway(w))
    /\ at' = [at EXCEPT ![w] = job[w].from]
    /\ Goto(w, "checking")
    /\ UNCHANGED <<db, runs, started, queue, requests, sess, job>>

WaitForLock(w) ==
    /\ pc[w] = "locking"
    /\ StartWaiting(w)
    /\ UNCHANGED <<db, runs, started, queue, requests, pc, sess, job, at>>

\* A mutant of LeaveStage: the loop runs past the last stage.
LeavesPastTheEnd(w, last) ==
    IF last THEN Goto(w, "committing") /\ UNCHANGED at
            ELSE Goto(w, "checking") /\ at' = [at EXCEPT ![w] = @ + 1]

\* A mutant of LeaveStage: the loop comes back to the stage it has settled.
StaysAtStage(w, last) ==
    IF last \/ at[w] = Len(Pipeline) THEN Goto(w, "committing") /\ UNCHANGED at
                                     ELSE Goto(w, "checking") /\ UNCHANGED at

LeaveStage(w, last) ==
    IF last \/ at[w] = Len(Pipeline)
    THEN /\ Goto(w, "committing")
         /\ UNCHANGED at
    ELSE /\ Goto(w, "checking")
         /\ at' = [at EXCEPT ![w] = @ + 1]

\* The most recent run of the stage succeeded and the job does not force.
ReuseStage(w) ==
    /\ pc[w] = "checking"
    /\ MostRecentRun(w, at[w]).status = "SUCCEEDED" /\ ~job[w].force
    /\ sess' = [sess EXCEPT ![w].cur = AfterReuse(at[w], @)]
    /\ LeaveStage(w, FALSE)
    /\ UNCHANGED <<key, inside, db, runs, started, queue, requests, job>>

NeedStage(w) ==
    /\ pc[w] = "checking"
    /\ MostRecentRun(w, at[w]).status # "SUCCEEDED" \/ job[w].force
    /\ Goto(w, "flushing")
    /\ UNCHANGED <<key, inside, db, runs, started, queue, requests, sess, job, at>>

\* session.add(stage_run); flush: the UPDATE of a changed garment waits for
\* the row lock and then holds it until the commit.
StartRun(w) ==
    /\ pc[w] = "flushing"
    /\ CanFlush(w)
    /\ started' = [started EXCEPT ![at[w]] = @ + 1]
    /\ SetSession(w, [sess[w] EXCEPT
          !.base = sess[w].cur,
          !.written = @ \cup Dirty(w),
          !.own[at[w]] = [status |-> "RUNNING", input |-> InputOf(at[w], sess[w].cur),
                          stamp |-> started'[at[w]]]])
    /\ Goto(w, "executing")
    /\ UNCHANGED <<key, inside, db, runs, queue, requests, job, at>>

ExecuteStage(w) ==
    /\ pc[w] = "executing"
    /\ w \in Waiters
    /\ \E r \in StageResults(at[w], sess[w].cur) :
          /\ SetSession(w, [sess[w] EXCEPT
                !.cur = AfterRunStage(at[w], r),
                !.own[at[w]].status = RecordedStatus(r)])
          /\ LeaveStage(w, StopsRun(at[w], r))
    /\ UNCHANGED <<key, inside, db, runs, started, queue, requests, job>>

CommitRun(w) ==
    /\ pc[w] = "committing"
    /\ CanFlush(w)
    /\ CommitSession(w)
    /\ SetSession(w, NoSession)
    /\ Goto(w, "releasing")
    /\ UNCHANGED <<key, inside, started, queue, requests, job, at>>

LeaveLock(p) == Release(p) \/ (MayCrash /\ ReleaseFails(p))

FinishJob(w) ==
    /\ pc[w] = "releasing"
    /\ LeaveLock(w)
    /\ Goto(w, "idle")
    /\ job' = [job EXCEPT ![w] = NoJob]
    /\ at' = [at EXCEPT ![w] = 1]
    /\ UNCHANGED <<db, runs, started, queue, requests, sess>>

Worker(w) ==
    \/ TakeJob(w) \/ EnterLock(w) \/ WaitForLock(w) \/ ReuseStage(w) \/ NeedStage(w)
    \/ StartRun(w) \/ ExecuteStage(w) \/ CommitRun(w) \/ FinishJob(w)

-----------------------------------------------------------------------------
(* POST /garments/{id}/step                                                 *)

\* The request loads the garment, then queues for _step_api_key_lock, a lock
\* of its process.  The stage it names is kept in at, 0 is none; force only
\* matters to a COMPLETED garment with no stage named.
StepArrives(s) ==
    /\ pc[s] = "idle"
    /\ Request
    /\ \E k \in StepStages, force \in Forces :
          /\ at' = [at EXCEPT ![s] = k]
          /\ Goto(s, IF force THEN "stepForced" ELSE "step")
    /\ SetSession(s, Loaded(db))
    /\ UNCHANGED <<key, inside, db, runs, started, queue, job>>

StepPending(s) == pc[s] \in {"step", "stepForced"}
ApiKeyLockFree ==
    OneApiProcess => \A t \in Callers : pc[t] \in {"idle", "step", "stepForced"}

StepStage(s) ==
    CASE at[s] # 0 -> at[s]
      [] at[s] = 0 /\ NextStageFor(sess[s].cur.status) # 0 ->
            NextStageFor(sess[s].cur.status)
      [] OTHER -> 1

NothingToStep(s) ==
    pc[s] = "step" /\ at[s] = 0 /\ sess[s].cur.status = Completed

EndRequest(s) ==
    /\ Goto(s, "idle")
    /\ SetSession(s, NoSession)
    /\ at' = [at EXCEPT ![s] = 1]

\* A mutant of StepRefused: a COMPLETED garment's request gets no answer.
RefusesOnlyWhenBusy(s) ==
    /\ StepPending(s)
    /\ ApiKeyLockFree
    /\ Busy(s)
    /\ EndRequest(s)
    /\ UNCHANGED <<key, inside, db, runs, started, queue, requests, job>>

\* Already COMPLETED, or another execution holds the lock: 409.
StepRefused(s) ==
    /\ StepPending(s)
    /\ ApiKeyLockFree
    /\ NothingToStep(s) \/ Busy(s)
    /\ EndRequest(s)
    /\ UNCHANGED <<key, inside, db, runs, started, queue, requests, job>>

StepBegins(s) ==
    /\ StepPending(s)
    /\ ApiKeyLockFree
    /\ ~NothingToStep(s)
    /\ TryAcquire(s)
    /\ at' = [at EXCEPT ![s] = StepStage(s)]
    /\ Goto(s, "executing")
    /\ UNCHANGED <<db, runs, started, queue, requests, sess, job>>

\* The stage runs under the lock; the lock is released before anything is
\* written.  The transition is computed from the garment as loaded.
StepExecutes(s) ==
    /\ pc[s] = "executing"
    /\ s \in Callers
    /\ \E r \in StageResults(at[s], sess[s].cur) :
          /\ r.status # "RAISED"
          /\ SetSession(s, [sess[s] EXCEPT
                !.cur = AfterStep(at[s], r),
                !.own[at[s]] = [status |-> r.status,
                                input |-> InputOf(at[s], sess[s].cur), stamp |-> 0]])
    /\ LeaveLock(s)
    /\ Goto(s, "recording")
    /\ UNCHANGED <<db, runs, started, queue, requests, job, at>>

\* An exception in the stage: 500, rolled back, no run recorded.
StepRaises(s) ==
    /\ pc[s] = "executing"
    /\ s \in Callers
    /\ \E r \in StageResults(at[s], sess[s].cur) : r.status = "RAISED"
    /\ LeaveLock(s)
    /\ EndRequest(s)
    /\ UNCHANGED <<db, runs, started, queue, requests, job>>

\* session.add(stage_run); commit.  started_at is taken here, after the stage.
StepRecords(s) ==
    LET k == at[s]
        run == [sess[s].own[k] EXCEPT !.stamp = started'[k]]
    IN
    /\ pc[s] = "recording"
    /\ CanFlush(s)
    /\ started' = [started EXCEPT ![k] = @ + 1]
    /\ db' = [f \in Fields |-> IF f \in Dirty(s) THEN sess[s].cur[f] ELSE db[f]]
    /\ runs' = [runs EXCEPT ![k] = Later(@, run)]
    /\ EndRequest(s)
    /\ UNCHANGED <<key, inside, queue, requests, job>>

Caller(s) ==
    \/ StepRefused(s) \/ StepBegins(s) \/ StepExecutes(s) \/ StepRaises(s)
    \/ StepRecords(s)

-----------------------------------------------------------------------------
(* POST /garments/{id}/retry and /review                                    *)

RetryRequest ==
    /\ Request
    /\ \E force \in Forces, k \in RetryStages : Enqueue(force, k)
    /\ UNCHANGED <<key, inside, db, runs, started, pc, sess, job, at>>

Approve(r) ==
    /\ "APPROVE" \in Decisions
    /\ SetSession(r, [Loaded(db) EXCEPT !.cur.quality = "APPROVED"])
    /\ IF db.status = ReviewRequired THEN Enqueue(FALSE, 1)
                                     ELSE UNCHANGED queue

Reject(r) ==
    /\ "REJECT" \in Decisions
    /\ SetSession(r, [Loaded(db) EXCEPT !.cur.quality = "REJECTED", !.cur.status = Failed])
    /\ UNCHANGED queue

\* The job resumes at category bundling.
Override(r) ==
    /\ "OVERRIDE" \in Decisions
    /\ \E a \in Attrs \cup {db.attrs} :
          SetSession(r, [Loaded(db) EXCEPT !.cur.quality = "APPROVED", !.cur.attrs = a])
    /\ \E k \in Stage : Pipeline[k] = "CATEGORY" /\ Enqueue(TRUE, k)

\* The decision is applied to the session and its job queued ...
ReviewArrives(r) ==
    /\ pc[r] = "idle"
    /\ Request
    /\ Approve(r) \/ Reject(r) \/ Override(r)
    /\ Goto(r, "saving")
    /\ UNCHANGED <<key, inside, db, runs, started, job, at>>

\* ... before it is committed.  provenance always changes, so the UPDATE
\* always waits for the row lock.
ReviewSaves(r) ==
    /\ pc[r] = "saving"
    /\ RowLockFree(r)
    /\ CommitSession(r)
    /\ SetSession(r, NoSession)
    /\ Goto(r, "idle")
    /\ UNCHANGED <<key, inside, started, queue, requests, job, at>>

-----------------------------------------------------------------------------
(* The environment                                                          *)

\* The key of an execution that is over always expires.
LockExpires ==
    /\ MayExpire \/ \A p \in Lockers : key = p => inside[p] # "locked"
    /\ Expire
    /\ UNCHANGED <<db, runs, started, queue, requests, pc, sess, job, at>>

\* The process is killed: its transaction is rolled back and its row lock
\* dropped, a job in hand is gone from the queue, its lock key stays.
Crash(p) ==
    /\ MayCrash
    /\ pc[p] # "idle"
    /\ Goto(p, "idle")
    /\ SetSession(p, NoSession)
    /\ at' = [at EXCEPT ![p] = 1]
    /\ job' = [w \in Waiters |-> IF w = p THEN NoJob ELSE job[w]]
    /\ IF inside[p] = "outside" THEN UNCHANGED lockVars ELSE Die(p)
    /\ UNCHANGED <<db, runs, started, queue, requests>>

Next ==
    \/ \E w \in Waiters : Worker(w) \/ PollEmptyQueue(w)
    \/ \E s \in Callers : StepArrives(s) \/ Caller(s)
    \/ \E r \in Reviewers : ReviewArrives(r) \/ ReviewSaves(r)
    \/ \E p \in Lockers : Crash(p)
    \/ RetryRequest
    \/ LockExpires

Spec == Init /\ [][Next]_vars

(***************************************************************************)
(* Worker loops run, the handlers of requests that have arrived run, and    *)
(* Redis expires keys.  Nobody has to send a request, and nothing has to    *)
(* crash.                                                                   *)
(***************************************************************************)
FairSpec ==
    /\ Spec
    /\ \A w \in Waiters : WF_vars(Worker(w))
    /\ \A s \in Callers : WF_vars(Caller(s))
    /\ \A r \in Reviewers : WF_vars(ReviewSaves(r))
    /\ WF_vars(LockExpires)

-----------------------------------------------------------------------------
(* Properties                                                               *)

Places ==
    {"idle", "locking", "checking", "flushing", "executing", "committing", "releasing",
     "step", "stepForced", "recording", "saving"}

TypeOK ==
    /\ LockTypeOK
    /\ db \in Garment
    /\ runs \in [Stage -> Run]
    /\ started \in [Stage -> Nat]
    /\ queue \in Seq(Job)
    /\ requests \in 0..MaxRequests
    /\ pc \in [Writers -> Places]
    /\ sess \in [Writers -> Session]
    /\ job \in [Waiters -> Job]
    /\ at \in [Lockers -> Stage \cup {0}]

Terminal == {Completed, Failed, ReviewRequired}

(***************************************************************************)
(* A job meets the stages that may halt the pipeline when it starts at or   *)
(* before the first of them, and before it if it is forced.  Uploads,       *)
(* siblings, approvals and plain retries do; a /retry that names a later    *)
(* stage, a forced one of a halting stage and an override do not, and these *)
(* complete a garment whose last attributes are still under review.         *)
(***************************************************************************)
MeetsVerdicts(j) ==
    \A k \in Stage : Halting(k) => j.from <= k /\ (j.force => j.from < k)

EveryJobMeetsVerdicts ==
    /\ \A k \in RetryStages, force \in Forces : MeetsVerdicts(NewJob(force, k))
    /\ "sibling" \in Origins =>
           \A k \in SpawnStages : k + 1 \in Stage => MeetsVerdicts(NewJob(FALSE, k + 1))
    /\ "OVERRIDE" \notin Decisions

HasPassed ==
    db.status = Completed =>
        /\ db.attrs # NoAttrs
        /\ \A k \in Stage : Halting(k) => runs[k].status = "SUCCEEDED"

(***************************************************************************)
(* The styling catalogue reads COMPLETED garments only.  As long as every   *)
(* job starts early enough to meet them, a COMPLETED garment has attributes *)
(* and the last committed verdict of every stage that may halt the pipeline *)
(* is a success, whatever runs, retries, approvals and rejections came      *)
(* before (HALTING_REVIEW_STAGES and the idempotency check of run).         *)
(***************************************************************************)
CompletedHasPassed == EveryJobMeetsVerdicts => HasPassed

(***************************************************************************)
(* A run commits once, at its end: until the first commit the garment has   *)
(* the status it was created with, and then only COMPLETED, FAILED or       *)
(* REVIEW_REQUIRED, although every write is a difference to a copy that may *)
(* be stale.                                                                *)
(***************************************************************************)
NoHalfwayStatus == db.status \in Terminal \/ \A k \in Stage : runs[k] = NoRun

(***************************************************************************)
(* While a process executes stages under a lock that neither expired nor    *)
(* was given up on, no other worker has a run that is not committed yet: the *)
(* idempotency check sees the latest verdict of every stage.                *)
(***************************************************************************)
HasUncommittedRun(p) == \E k \in Stage : sess[p].own[k] # NoRun
OneWithUncommittedRuns ==
    \A p \in Lockers, w \in Waiters : p # w /\ Executing(p) => ~HasUncommittedRun(w)

(***************************************************************************)
(* "Only ever ADVANCES garment.status, never regresses it" (garments.py,    *)
(* the comment above attribute_review_held): what a /step request commits   *)
(* is a verdict or a status no earlier than the one it replaces.            *)
(***************************************************************************)
StepAdvances(s) ==
    db'.status \in {Failed, ReviewRequired}
        \/ GarmentStateOrder(db'.status) >= GarmentStateOrder(db.status)
StepNeverRegresses == [][\A s \in Callers : StepRecords(s) => StepAdvances(s)]_vars

(***************************************************************************)
(* A garment held for review is not promoted by a /step of another stage    *)
(* whose copy is still current: attribute_review_held of the endpoint and   *)
(* the quality check of stage 9 together.                                   *)
(***************************************************************************)
HeldReviewStands ==
    [][\A s \in Callers :
          /\ StepRecords(s) /\ sess[s].base = db
          /\ db.status = ReviewRequired /\ db.quality = "REVIEW_REQUIRED"
          /\ Pipeline[at[s]] # "ATTRIBUTES"
          => db'.status \in {ReviewRequired, Failed}]_vars

(***************************************************************************)
(* Nobody waits for ever: a worker that has taken a job comes back for the  *)
(* next one, whatever became of the holder of the lock, and a request that  *)
(* has arrived is answered.                                                 *)
(***************************************************************************)
EveryJobEnds == \A w \in Waiters : pc[w] = "locking" ~> pc[w] = "idle"
EveryStepAnswered == \A s \in Callers : StepPending(s) ~> pc[s] = "idle"

-----------------------------------------------------------------------------
(* What the docs and comments say that the code does not do                 *)

(***************************************************************************)
(* "Composite idempotency key: garment_id + stage + input_hash + ..."       *)
(* (README.md): a stage is skipped only when it succeeded on the attributes *)
(* the garment has now.                                                     *)
(***************************************************************************)
ReuseMatchesInput ==
    [][\A w \in Waiters :
          ReuseStage(w) =>
             MostRecentRun(w, at[w]).input = InputOf(at[w], sess[w].cur)]_vars

(***************************************************************************)
(* "if quality_status is not already REVIEW_REQUIRED, sets it to APPROVED   *)
(* and the garment to COMPLETED" (docs/PIPELINES.md, stage 9): a garment    *)
(* whose quality is still under review is not COMPLETED.                    *)
(***************************************************************************)
CompletedNotUnderReview ==
    db.status = Completed => db.quality # "REVIEW_REQUIRED"

=============================================================================
