------------------------ MODULE GarmentPipelineProofs ------------------------
(***************************************************************************)
(* Theorems about GarmentPipeline, for any pipeline, any number of workers, *)
(* requests and reviewers, and any bound on the requests.                   *)
(***************************************************************************)
EXTENDS MCGarmentPipeline, TLAPS

(***************************************************************************)
(* TypeOK alone is not inductive: a worker or a request past its arrival    *)
(* must also be at a stage, or the result of the stage has no type.         *)
(***************************************************************************)
AtAStage ==
    \A p \in Lockers :
        at[p] = 0 => p \in Callers /\ pc[p] \in {"step", "stepForced"}

TypeInv == TypeOK /\ AtAStage

USE DEF Lockers, Writers

-----------------------------------------------------------------------------
(* Lemmas about the stages                                                  *)

\* Positions in the pipeline: the first exists, and every one of them, like
\* the three verdicts, is a status of the garment.
LEMMA StageFacts ==
    /\ Len(Pipeline) \in Nat /\ Len(Pipeline) > 0
    /\ Stage \subseteq Nat /\ 1 \in Stage /\ 0 \notin Stage
    /\ Stage \subseteq GarmentState
    /\ {Received, Completed, Failed, ReviewRequired} \subseteq GarmentState
    /\ \A k \in Stage : Pipeline[k] \in StageNames
  BY StagesAssumption
  DEF Stage, GarmentState, Received, Completed, Failed, ReviewRequired

\* The stage a status calls for is a stage or none.
LEMMA NextStageTyped ==
    ASSUME NEW s \in GarmentState PROVE NextStageFor(s) \in Stage \cup {0}
  BY StagesAssumption
  DEF NextStageFor, Stage, GarmentState, Failed, ReviewRequired

\* Finalising a garment gives a garment.
LEMMA FinalisedTyped ==
    ASSUME NEW g \in Garment PROVE Finalised(g) \in Garment
  BY StageFacts DEF Finalised, Garment, Quality

\* Whatever a stage does with a garment is one of its Results.
LEMMA ResultsTyped ==
    ASSUME NEW k \in Stage, NEW g \in Garment
    PROVE  StageResults(k, g) \subseteq Result
<1>1. \A s \in RunStatus \cup {"RAISED"}, q \in Quality \cup {"UNSET"}, h \in Garment :
        Outcome(s, q, h) \in Result
  BY DEF Outcome, Result
<1>2. \A a \in Attrs \cup {g.attrs} : WithAttrs(g, a) \in Garment
  BY DEF WithAttrs, Garment
<1>3. /\ {"SUCCEEDED", "REVIEW_REQUIRED", "FAILED"} \subseteq RunStatus
      /\ {"APPROVED", "REVIEW_REQUIRED", "REJECTED"} \subseteq Quality
  BY DEF RunStatus, Quality
<1>4. /\ ClassifyResults(g) \subseteq Result /\ CropResults(g) \subseteq Result
      /\ EmbedResults(g) \subseteq Result /\ CategoryResults(g) \subseteq Result
      /\ RuleResults(g) \subseteq Result /\ DigitiseResults(g) \subseteq Result
  BY <1>1, <1>3
  DEF ClassifyResults, CropResults, EmbedResults, CategoryResults, RuleResults,
      DigitiseResults
<1>5. AttributesResults(g) \subseteq Result
  <2>1. \A a \in Attrs \cup {g.attrs} :
          /\ Outcome("SUCCEEDED", "APPROVED", WithAttrs(g, a)) \in Result
          /\ Outcome("REVIEW_REQUIRED", "REVIEW_REQUIRED", WithAttrs(g, a)) \in Result
    BY <1>1, <1>2, <1>3
  <2>2. Outcome("FAILED", "REJECTED", g) \in Result /\ Outcome("RAISED", "UNSET", g) \in Result
    BY <1>1, <1>3
  <2>3. QED
    BY <2>1, <2>2 DEF AttributesResults
<1>6. VisualResults(g) \subseteq Result
  BY <1>1, <1>3, FinalisedTyped DEF VisualResults, Garment
<1>7. Pipeline[k] \in StageNames
  BY StageFacts
<1>8. QED
  BY <1>4, <1>5, <1>6, <1>7 DEF StageResults, StageNames

\* A skipped stage leaves a garment.
LEMMA ReuseTyped ==
    ASSUME NEW k \in Stage, NEW g \in Garment PROVE AfterReuse(k, g) \in Garment
  BY StageFacts DEF AfterReuse, Garment

\* Both state transitions give a garment.
LEMMA TransitionsTyped ==
    ASSUME NEW k \in Stage, NEW r \in Result
    PROVE  AfterRunStage(k, r) \in Garment /\ AfterStep(k, r) \in Garment
<1>1. r.garment \in Garment /\ r.quality \in Quality \cup {"UNSET"}
  BY DEF Result
<1>2. \A h \in Garment, s \in GarmentState, q \in Quality \cup {"UNSET"} :
        Verdict(h, s, q) \in Garment
  BY DEF Verdict, Garment
<1>3. /\ "UNSET" \in Quality \cup {"UNSET"}
      /\ {"REVIEW_REQUIRED", "REJECTED"} \subseteq Quality
  BY DEF Quality
<1>4. \A h \in Garment : Advanced(k, h) \in Garment /\ Advanced(k, h).status \in GarmentState
  BY StageFacts DEF Advanced, Garment
<1>5. AfterRunStage(k, r) \in Garment
  BY <1>1, <1>2, <1>3, StageFacts DEF AfterRunStage
<1>6. AfterStep(k, r) \in Garment
  BY <1>1, <1>2, <1>3, <1>4, StageFacts DEF AfterStep
<1>7. QED
  BY <1>5, <1>6

\* The empty record of a stage, a fresh copy of the row, and the garments it
\* may start from are typed.
LEMMA InitialValuesTyped ==
    /\ NoRun \in Run /\ NoJob \in Job /\ NoSession \in Session
    /\ Uploaded \in Garment /\ \A k \in Stage : Spawned(k) \in Garment
    /\ \A g \in Garment : Loaded(g) \in Session
<1>1. NoRun \in Run
  BY DEF NoRun, Run
<1>2. NoJob \in Job
  BY StageFacts DEF NoJob, NewJob, Job
<1>3. BlankGarment \in Garment /\ Uploaded \in Garment
  BY StageFacts DEF BlankGarment, Uploaded, Garment, Quality
<1>4. \A k \in Stage : Spawned(k) \in Garment
  BY StageFacts DEF Spawned, Garment, Quality
<1>5. \A g \in Garment : Loaded(g) \in Session
  BY <1>1 DEF Loaded, Session
<1>6. QED
  BY <1>1, <1>2, <1>3, <1>4, <1>5 DEF NoSession

-----------------------------------------------------------------------------
(* The composition implements the lock                                      *)

\* Every step of the pipeline is a step of the lock or leaves it alone.
LEMMA StepIsLockStep == [Next]_vars => [LockNext]_lockVars
<1> SUFFICES ASSUME [Next]_vars PROVE [LockNext]_lockVars
  OBVIOUS
<1>1. CASE UNCHANGED vars
  BY <1>1 DEF vars, lockVars
<1>2. ASSUME NEW w \in Waiters, Worker(w) \/ PollEmptyQueue(w)
      PROVE  [LockNext]_lockVars
  <2>1. CASE EnterLock(w)
    BY <2>1 DEF EnterLock, LockNext
  <2>2. CASE WaitForLock(w)
    BY <2>2 DEF WaitForLock, LockNext
  <2>3. CASE FinishJob(w)
    BY <2>3 DEF FinishJob, LeaveLock, LockNext
  <2>4. CASE \/ PollEmptyQueue(w) \/ TakeJob(w) \/ ReuseStage(w) \/ NeedStage(w)
             \/ StartRun(w) \/ ExecuteStage(w) \/ CommitRun(w)
    BY <2>4
    DEF PollEmptyQueue, TakeJob, ReuseStage, NeedStage, StartRun, ExecuteStage,
        CommitRun, vars, lockVars
  <2>5. QED
    BY <1>2, <2>1, <2>2, <2>3, <2>4 DEF Worker
<1>3. ASSUME NEW s \in Callers, StepArrives(s) \/ Caller(s)
      PROVE  [LockNext]_lockVars
  <2>1. CASE StepBegins(s)
    BY <2>1 DEF StepBegins, LockNext
  <2>2. CASE StepExecutes(s) \/ StepRaises(s)
    BY <2>2 DEF StepExecutes, StepRaises, LeaveLock, LockNext
  <2>3. CASE StepArrives(s) \/ StepRefused(s) \/ StepRecords(s)
    BY <2>3 DEF StepArrives, StepRefused, StepRecords, lockVars
  <2>4. QED
    BY <1>3, <2>1, <2>2, <2>3 DEF Caller
<1>4. ASSUME NEW r \in Reviewers, ReviewArrives(r) \/ ReviewSaves(r)
      PROVE  [LockNext]_lockVars
  BY <1>4 DEF ReviewArrives, ReviewSaves, lockVars
<1>5. ASSUME NEW p \in Lockers, Crash(p)
      PROVE  [LockNext]_lockVars
  BY <1>5 DEF Crash, LockNext
<1>6. CASE RetryRequest
  BY <1>6 DEF RetryRequest, lockVars
<1>7. CASE LockExpires
  BY <1>7 DEF LockExpires, LockNext
<1>8. QED
  BY <1>1, <1>2, <1>3, <1>4, <1>5, <1>6, <1>7 DEF Next

(***************************************************************************)
(* The workers and the /step endpoint use the lock as ExecutionLock says,   *)
(* so what holds of the lock holds of the pipeline.                         *)
(***************************************************************************)
THEOREM PipelineUsesLock == Spec => LockSpec
<1>1. Init => LockInit
  BY DEF Init
<1>2. QED
  BY <1>1, StepIsLockStep, PTL DEF Spec, LockSpec

-----------------------------------------------------------------------------
(* Type correctness                                                         *)

\* The lock's variables stay typed.
LEMMA LockTypeStep ==
    ASSUME LockTypeOK, [LockNext]_lockVars PROVE LockTypeOK'
<1>1. CASE UNCHANGED lockVars
  BY <1>1 DEF LockTypeOK, lockVars
<1>2. CASE Expire
  BY <1>2 DEF LockTypeOK, Expire
<1>3. ASSUME NEW p \in Lockers,
             \/ TryAcquire(p) \/ StartWaiting(p) \/ ProceedAnyway(p)
             \/ Busy(p) \/ Release(p) \/ ReleaseFails(p) \/ Die(p)
      PROVE  LockTypeOK'
  BY <1>3
  DEF LockTypeOK, Positions, TryAcquire, StartWaiting, ProceedAnyway, Busy, Release,
      ReleaseFails, Die, lockVars
<1>4. QED
  BY <1>1, <1>2, <1>3 DEF LockNext

\* The typed parts of what a session commits: the columns it has changed and
\* the runs it has added.
LEMMA CommitTyped ==
    ASSUME TypeInv, NEW p \in Writers, CommitSession(p)
    PROVE  db' \in Garment /\ runs' \in [Stage -> Run]
<1>1. sess[p] \in Session
  BY DEF TypeInv, TypeOK
<1>2. sess[p].cur \in Garment /\ sess[p].own \in [Stage -> Run]
  BY <1>1 DEF Session
<1>3. db' \in Garment
  <2>1. \A f \in Fields : db'[f] \in {sess[p].cur[f], db[f]}
    BY DEF CommitSession
  <2>2. db' = [f \in Fields |-> db'[f]]
    BY DEF CommitSession
  <2>3. db \in Garment
    BY DEF TypeInv, TypeOK
  <2>4. QED
    BY <1>2, <2>1, <2>2, <2>3 DEF Garment, Fields
<1>4. \A k \in Stage : Later(runs[k], sess[p].own[k]) \in Run
  BY <1>2 DEF Later, TypeInv, TypeOK
<1>5. QED
  BY <1>3, <1>4 DEF CommitSession

\* A worker's step keeps every variable typed and its position a stage.
LEMMA WorkerTypeStep ==
    ASSUME TypeInv, NEW w \in Waiters, Worker(w) \/ PollEmptyQueue(w), LockTypeOK'
    PROVE  TypeInv'
<1> USE DEF TypeInv, TypeOK
<1>1. /\ sess[w] \in Session /\ sess[w].cur \in Garment /\ sess[w].base \in Garment
      /\ sess[w].written \subseteq Fields /\ sess[w].own \in [Stage -> Run]
  BY DEF Session
<1>2. at[w] \in Stage
  BY LockersAssumption DEF AtAStage
<1>3. CASE PollEmptyQueue(w)
  BY <1>3 DEF PollEmptyQueue, vars, AtAStage
<1>4. CASE TakeJob(w)
  <2>1. Head(queue) \in Job /\ Tail(queue) \in Seq(Job)
    BY <1>4 DEF TakeJob
  <2>2. Loaded(db) \in Session
    BY InitialValuesTyped
  <2>3. TypeOK'
    BY <1>4, <2>1, <2>2 DEF TakeJob, SetSession, Goto, Places
  <2>4. AtAStage'
    BY <1>4, LockersAssumption DEF TakeJob, Goto, AtAStage
  <2>5. QED
    BY <2>3, <2>4
<1>5. CASE EnterLock(w)
  <2>1. job[w].from \in Stage
    BY DEF Job
  <2>2. TypeOK'
    BY <1>5, <2>1 DEF EnterLock, Goto, Places
  <2>3. AtAStage'
    BY <1>5, <2>1, StageFacts DEF EnterLock, Goto, AtAStage
  <2>4. QED
    BY <2>2, <2>3
<1>6. CASE WaitForLock(w)
  BY <1>6 DEF WaitForLock, AtAStage
<1>7. ASSUME NEW last \in BOOLEAN, LeaveStage(w, last)
      PROVE  /\ pc' \in [Writers -> Places]
             /\ at' \in [Lockers -> Stage \cup {0}] /\ AtAStage'
  <2>1. at[w] # Len(Pipeline) => at[w] + 1 \in Stage
    BY <1>2, StageFacts DEF Stage
  <2>2. at' \in [Lockers -> Stage \cup {0}] /\ \A p \in Lockers : at'[p] = 0 => p # w /\ at[p] = 0
    BY <1>2, <1>7, <2>1, StageFacts DEF LeaveStage
  <2>3. pc' \in [Writers -> Places] /\ \A p \in Writers : p # w => pc'[p] = pc[p]
    BY <1>7 DEF LeaveStage, Goto, Places
  <2>4. AtAStage'
    BY <2>2, <2>3 DEF AtAStage
  <2>5. QED
    BY <2>2, <2>3, <2>4
<1>8. CASE ReuseStage(w)
  <2>1. AfterReuse(at[w], sess[w].cur) \in Garment
    BY <1>1, <1>2, ReuseTyped
  <2>2. sess' \in [Writers -> Session]
    BY <1>1, <1>8, <2>1 DEF ReuseStage, Session
  <2>3. QED
    BY <1>7, <1>8, <2>2 DEF ReuseStage
<1>9. CASE NeedStage(w)
  BY <1>9, LockersAssumption DEF NeedStage, Goto, Places, AtAStage
<1>10. CASE StartRun(w)
  <2>1. started' \in [Stage -> Nat]
    BY <1>2, <1>10 DEF StartRun
  <2> DEFINE run == [status |-> "RUNNING", input |-> InputOf(at[w], sess[w].cur),
                     stamp |-> started'[at[w]]]
  <2>2. run \in Run
    BY <1>1, <1>2, <2>1 DEF InputOf, Garment, Run
  <2>3. [sess[w] EXCEPT !.base = sess[w].cur, !.written = @ \cup Dirty(w),
                        !.own[at[w]] = run] \in Session
    BY <1>1, <1>2, <2>2 DEF Session, Dirty
  <2>4. sess' \in [Writers -> Session]
    BY <1>10, <2>3 DEF StartRun, SetSession
  <2>5. TypeOK'
    BY <1>10, <2>1, <2>4 DEF StartRun, Goto, Places
  <2>6. AtAStage'
    BY <1>10, LockersAssumption DEF StartRun, Goto, AtAStage
  <2>7. QED
    BY <2>5, <2>6
<1>11. CASE ExecuteStage(w)
  <2>1. PICK r \in StageResults(at[w], sess[w].cur) :
          /\ SetSession(w, [sess[w] EXCEPT
                !.cur = AfterRunStage(at[w], r),
                !.own[at[w]].status = RecordedStatus(r)])
          /\ LeaveStage(w, StopsRun(at[w], r))
    BY <1>11 DEF ExecuteStage
  <2>2. r \in Result
    BY <1>1, <1>2, ResultsTyped
  <2>3. AfterRunStage(at[w], r) \in Garment
    BY <1>1, <1>2, <2>2, TransitionsTyped
  <2>4. RecordedStatus(r) \in RunStatus
    BY <2>2 DEF RecordedStatus, Result, RunStatus
  <2>5. [sess[w].own[at[w]] EXCEPT !.status = RecordedStatus(r)] \in Run
    <3>1. \A x \in Run, st \in RunStatus : [x EXCEPT !.status = st] \in Run
      BY DEF Run
    <3>2. sess[w].own[at[w]] \in Run
      BY <1>1, <1>2
    <3>3. QED
      BY <2>4, <3>1, <3>2
  <2>6. [sess[w] EXCEPT !.cur = AfterRunStage(at[w], r),
                        !.own[at[w]].status = RecordedStatus(r)] \in Session
    BY <1>1, <1>2, <2>3, <2>5 DEF Session
  <2>7. sess' \in [Writers -> Session]
    BY <2>1, <2>6 DEF SetSession
  <2>8. StopsRun(at[w], r) \in BOOLEAN
    BY DEF StopsRun
  <2>9. QED
    BY <1>7, <1>11, <2>1, <2>7, <2>8 DEF ExecuteStage
<1>12. CASE CommitRun(w)
  <2>1. db' \in Garment /\ runs' \in [Stage -> Run]
    BY <1>12, CommitTyped DEF CommitRun
  <2>2. TypeOK'
    BY <1>12, <2>1, InitialValuesTyped DEF CommitRun, SetSession, Goto, Places
  <2>3. AtAStage'
    BY <1>12, LockersAssumption DEF CommitRun, Goto, AtAStage
  <2>4. QED
    BY <2>2, <2>3
<1>13. CASE FinishJob(w)
  <2>1. TypeOK'
    BY <1>13, InitialValuesTyped, StageFacts DEF FinishJob, Goto, Places
  <2>2. AtAStage'
    BY <1>13, StageFacts DEF FinishJob, Goto, AtAStage
  <2>3. QED
    BY <2>1, <2>2
<1>14. QED
  BY <1>3, <1>4, <1>5, <1>6, <1>8, <1>9, <1>10, <1>11, <1>12, <1>13 DEF Worker

\* A step of a /step request keeps every variable typed.
LEMMA CallerTypeStep ==
    ASSUME TypeInv, NEW s \in Callers, StepArrives(s) \/ Caller(s), LockTypeOK'
    PROVE  TypeInv'
<1> USE DEF TypeInv, TypeOK
<1>1. /\ sess[s] \in Session /\ sess[s].cur \in Garment
      /\ sess[s].own \in [Stage -> Run]
  BY DEF Session
<1>2. ASSUME EndRequest(s)
      PROVE  /\ pc' \in [Writers -> Places] /\ sess' \in [Writers -> Session]
             /\ at' \in [Lockers -> Stage \cup {0}] /\ AtAStage'
  BY <1>2, InitialValuesTyped, StageFacts
  DEF EndRequest, Goto, SetSession, Places, AtAStage
<1>3. CASE StepArrives(s)
  <2>1. Loaded(db) \in Session
    BY InitialValuesTyped
  <2>2. requests' \in 0..MaxRequests
    BY <1>3, PipelineAssumption DEF StepArrives, Request
  <2>3. PICK k \in StepStages, force \in Forces :
          /\ at' = [at EXCEPT ![s] = k]
          /\ Goto(s, IF force THEN "stepForced" ELSE "step")
    BY <1>3 DEF StepArrives
  <2>4. TypeOK'
    BY <1>3, <2>1, <2>2, <2>3, PipelineAssumption
    DEF StepArrives, SetSession, Goto, Places
  <2>5. AtAStage'
    BY <2>3 DEF Goto, AtAStage
  <2>6. QED
    BY <2>4, <2>5
<1>4. CASE StepRefused(s)
  BY <1>2, <1>4 DEF StepRefused
<1>5. CASE StepBegins(s)
  <2>1. NextStageFor(sess[s].cur.status) \in Stage \cup {0}
    BY <1>1, NextStageTyped DEF Garment
  <2>2. StepStage(s) \in Stage
    BY <2>1, StageFacts DEF StepStage
  <2>3. TypeOK'
    BY <1>5, <2>2 DEF StepBegins, Goto, Places
  <2>4. AtAStage'
    BY <1>5, <2>2, StageFacts DEF StepBegins, Goto, AtAStage
  <2>5. QED
    BY <2>3, <2>4
<1>6. CASE StepExecutes(s)
  <2>1. at[s] \in Stage
    BY <1>6 DEF StepExecutes, AtAStage
  <2> DEFINE run(r) == [status |-> r.status, input |-> InputOf(at[s], sess[s].cur),
                        stamp |-> 0]
  <2>2. PICK r \in StageResults(at[s], sess[s].cur) :
          /\ r.status # "RAISED"
          /\ SetSession(s, [sess[s] EXCEPT !.cur = AfterStep(at[s], r),
                                           !.own[at[s]] = run(r)])
    BY <1>6 DEF StepExecutes
  <2>3. r \in Result
    BY <1>1, <2>1, ResultsTyped
  <2>4. AfterStep(at[s], r) \in Garment
    BY <2>1, <2>3, TransitionsTyped
  <2>5. run(r) \in Run
    BY <1>1, <2>2, <2>3 DEF InputOf, Garment, Run, Result
  <2>6. [sess[s] EXCEPT !.cur = AfterStep(at[s], r), !.own[at[s]] = run(r)] \in Session
    <3> HIDE DEF run
    <3>1. QED
      BY <1>1, <2>1, <2>4, <2>5 DEF Session
  <2>7. sess' \in [Writers -> Session]
    <3> HIDE DEF run
    <3>1. QED
      BY <2>2, <2>6 DEF SetSession
  <2>8. TypeOK'
    BY <1>6, <2>7 DEF StepExecutes, Goto, Places
  <2>9. AtAStage'
    BY <1>6, <2>1, StageFacts DEF StepExecutes, Goto, AtAStage
  <2>10. QED
    BY <2>8, <2>9
<1>7. CASE StepRaises(s)
  BY <1>2, <1>7 DEF StepRaises
<1>8. CASE StepRecords(s)
  <2>1. at[s] \in Stage
    BY <1>8 DEF StepRecords, AtAStage
  <2>2. started' \in [Stage -> Nat]
    <3>1. started' = [started EXCEPT ![at[s]] = @ + 1]
      BY <1>8 DEF StepRecords
    <3>2. QED
      BY <2>1, <3>1
  <2> DEFINE run == [sess[s].own[at[s]] EXCEPT !.stamp = started'[at[s]]]
  <2>3. run \in Run
    <3>1. \A x \in Run, n \in Nat : [x EXCEPT !.stamp = n] \in Run
      BY DEF Run
    <3>2. QED
      BY <1>1, <2>1, <2>2, <3>1
  <2>4. runs' = [runs EXCEPT ![at[s]] = Later(@, run)]
    BY <1>8 DEF StepRecords
  <2>5. runs' \in [Stage -> Run]
    <3> HIDE DEF run
    <3>1. QED
      BY <2>1, <2>3, <2>4 DEF Later
  <2>6. db' \in Garment
    <3>1. \A f \in Fields : db'[f] \in {sess[s].cur[f], db[f]}
      BY <1>8 DEF StepRecords
    <3>2. db' = [f \in Fields |-> db'[f]]
      BY <1>8 DEF StepRecords
    <3>3. QED
      BY <1>1, <3>1, <3>2 DEF Garment, Fields
  <2>7. QED
    BY <1>2, <1>8, <2>2, <2>5, <2>6 DEF StepRecords
<1>9. QED
  BY <1>3, <1>4, <1>5, <1>6, <1>7, <1>8 DEF Caller

\* A queue stays a queue of jobs when one is put on it.
LEMMA QueueTyped ==
    ASSUME NEW q \in Seq(Job), NEW j \in Job
    PROVE  Append(q, j) \in Seq(Job) /\ <<j>> \in Seq(Job)
  OBVIOUS

\* A reviewer's step keeps every variable typed.
LEMMA ReviewerTypeStep ==
    ASSUME TypeInv, NEW r \in Reviewers, ReviewArrives(r) \/ ReviewSaves(r), LockTypeOK'
    PROVE  TypeInv'
<1> USE DEF TypeInv, TypeOK
<1>1. r \notin Lockers
  BY PipelineAssumption
<1>2. AtAStage'
  BY <1>1 DEF ReviewArrives, ReviewSaves, Goto, AtAStage
<1>3. CASE ReviewArrives(r)
  <2>1. requests' \in 0..MaxRequests
    BY <1>3, PipelineAssumption DEF ReviewArrives, Request
  <2>2. \A g \in Garment : [Loaded(db) EXCEPT !.cur = g] \in Session
    BY InitialValuesTyped DEF Session
  <2>3. \A g \in Garment, force \in BOOLEAN, k \in Stage :
           NewJob(force, k) \in Job
    BY DEF NewJob, Job
  <2>4. /\ Loaded(db).cur = db
        /\ [Loaded(db) EXCEPT !.cur.quality = "APPROVED"]
              = [Loaded(db) EXCEPT !.cur = [db EXCEPT !.quality = "APPROVED"]]
        /\ [Loaded(db) EXCEPT !.cur.quality = "REJECTED", !.cur.status = Failed]
              = [Loaded(db) EXCEPT !.cur =
                    [db EXCEPT !.quality = "REJECTED", !.status = Failed]]
        /\ \A a : [Loaded(db) EXCEPT !.cur.quality = "APPROVED", !.cur.attrs = a]
                     = [Loaded(db) EXCEPT !.cur =
                           [db EXCEPT !.quality = "APPROVED", !.attrs = a]]
    BY DEF Loaded
  <2>5. CASE Approve(r)
    <3>1. [db EXCEPT !.quality = "APPROVED"] \in Garment
      BY DEF Garment, Quality
    <3>2. sess' \in [Writers -> Session]
      BY <2>2, <2>4, <2>5, <3>1 DEF Approve, SetSession
    <3>3. queue' \in Seq(Job)
      <4>1. NewJob(FALSE, 1) \in Job
        BY <2>3, StageFacts
      <4>2. queue' \in {queue, Append(queue, NewJob(FALSE, 1))}
        BY <2>5 DEF Approve, Enqueue
      <4>3. QED
        BY <4>1, <4>2, QueueTyped
    <3>4. QED
      BY <1>2, <1>3, <2>1, <3>2, <3>3 DEF ReviewArrives, Goto, Places
  <2>6. CASE Reject(r)
    <3>1. [db EXCEPT !.quality = "REJECTED", !.status = Failed] \in Garment
      BY StageFacts DEF Garment, Quality
    <3>2. sess' \in [Writers -> Session]
      BY <2>2, <2>4, <2>6, <3>1 DEF Reject, SetSession
    <3>3. QED
      BY <1>2, <1>3, <2>1, <2>6, <3>2 DEF ReviewArrives, Reject, Goto, Places
  <2>7. CASE Override(r)
    <3>1. \A a \in Attrs \cup {db.attrs} :
             [db EXCEPT !.quality = "APPROVED", !.attrs = a] \in Garment
      BY DEF Garment, Quality
    <3>2. sess' \in [Writers -> Session]
      <4>1. PICK a \in Attrs \cup {db.attrs} :
              sess' = [sess EXCEPT ![r] =
                 [Loaded(db) EXCEPT !.cur.quality = "APPROVED", !.cur.attrs = a]]
        BY <2>7 DEF Override, SetSession
      <4>2. sess' = [sess EXCEPT ![r] =
               [Loaded(db) EXCEPT !.cur = [db EXCEPT !.quality = "APPROVED", !.attrs = a]]]
        BY <2>4, <4>1
      <4>3. QED
        BY <2>2, <3>1, <4>2
    <3>3. queue' \in Seq(Job)
      <4>1. PICK k \in Stage : queue' = Append(queue, NewJob(TRUE, k))
        BY <2>7 DEF Override, Enqueue
      <4>2. NewJob(TRUE, k) \in Job
        BY <2>3
      <4>3. QED
        BY <4>1, <4>2, QueueTyped
    <3>4. QED
      BY <1>2, <1>3, <2>1, <3>2, <3>3 DEF ReviewArrives, Goto, Places
  <2>8. QED
    BY <1>3, <2>5, <2>6, <2>7 DEF ReviewArrives
<1>4. CASE ReviewSaves(r)
  <2>1. db' \in Garment /\ runs' \in [Stage -> Run]
    BY <1>4, CommitTyped DEF ReviewSaves
  <2>2. QED
    BY <1>2, <1>4, <2>1, InitialValuesTyped DEF ReviewSaves, SetSession, Goto, Places
<1>5. QED
  BY <1>3, <1>4

\* Types, and the stage every worker and request is at, are preserved.
LEMMA TypeStep == TypeInv /\ [Next]_vars => TypeInv'
<1> SUFFICES ASSUME TypeInv, [Next]_vars PROVE TypeInv'
  OBVIOUS
<1>1. LockTypeOK'
  BY StepIsLockStep, LockTypeStep DEF TypeInv, TypeOK
<1>2. CASE UNCHANGED vars
  BY <1>1, <1>2 DEF TypeInv, TypeOK, AtAStage, vars
<1>3. CASE \E w \in Waiters : Worker(w) \/ PollEmptyQueue(w)
  BY <1>1, <1>3, WorkerTypeStep
<1>4. CASE \E s \in Callers : StepArrives(s) \/ Caller(s)
  BY <1>1, <1>4, CallerTypeStep
<1>5. CASE \E r \in Reviewers : ReviewArrives(r) \/ ReviewSaves(r)
  BY <1>1, <1>5, ReviewerTypeStep
<1>6. ASSUME NEW p \in Lockers, Crash(p) PROVE TypeInv'
  <2>1. job' \in [Waiters -> Job]
    BY <1>6, InitialValuesTyped DEF Crash, TypeInv, TypeOK
  <2>2. TypeOK'
    BY <1>1, <1>6, <2>1, InitialValuesTyped, StageFacts
    DEF Crash, SetSession, Goto, Places, TypeInv, TypeOK
  <2>3. AtAStage'
    BY <1>6, StageFacts DEF Crash, Goto, AtAStage, TypeInv, TypeOK
  <2>4. QED
    BY <2>2, <2>3 DEF TypeInv
<1>7. CASE RetryRequest
  <2>1. requests' \in 0..MaxRequests
    BY <1>7, PipelineAssumption DEF RetryRequest, Request, TypeInv, TypeOK
  <2>2. queue' \in Seq(Job)
    BY <1>7, PipelineAssumption
    DEF RetryRequest, Enqueue, NewJob, Job, TypeInv, TypeOK
  <2>3. QED
    BY <1>1, <1>7, <2>1, <2>2 DEF RetryRequest, TypeInv, TypeOK, AtAStage
<1>8. CASE LockExpires
  BY <1>1, <1>8 DEF LockExpires, TypeInv, TypeOK, AtAStage
<1>9. QED
  BY <1>2, <1>3, <1>4, <1>5, <1>6, <1>7, <1>8 DEF Next

\* The garment, its runs and its first job are typed when it is created.
LEMMA TypeInit == Init => TypeInv
<1> SUFFICES ASSUME Init PROVE TypeInv
  OBVIOUS
<1>1. LockTypeOK
  BY DEF Init, LockInit, LockTypeOK, Positions
<1>2. db \in Garment
  BY InitialValuesTyped DEF Init, SpawnStages
<1>3. queue \in Seq(Job)
  <2>1. \A k \in Stage :
           NewJob(FALSE, k) \in Job
    BY DEF NewJob, Job
  <2>2. \E j \in Job : queue = <<j>>
    BY <2>1, StageFacts DEF Init
  <2>3. QED
    BY <2>2, QueueTyped
<1>4. /\ runs \in [Stage -> Run] /\ started \in [Stage -> Nat]
      /\ pc \in [Writers -> Places] /\ sess \in [Writers -> Session]
      /\ job \in [Waiters -> Job] /\ at \in [Lockers -> Stage \cup {0}]
  BY InitialValuesTyped, StageFacts DEF Init, Places
<1>5. requests \in 0..MaxRequests
  BY PipelineAssumption DEF Init
<1>6. AtAStage
  BY DEF Init, AtAStage
<1>7. QED
  BY <1>1, <1>2, <1>3, <1>4, <1>5, <1>6 DEF TypeInv, TypeOK

(***************************************************************************)
(* Whatever the interleaving of workers, requests, reviews, crashes and     *)
(* expiries, rows, runs, jobs and sessions keep their types: no status a    *)
(* state machine does not know is ever written.                             *)
(***************************************************************************)
THEOREM PipelineTypeCorrect == Spec => []TypeOK
<1>1. TypeInv => TypeOK
  BY DEF TypeInv
<1>2. QED
  BY <1>1, TypeInit, TypeStep, PTL DEF Spec

-----------------------------------------------------------------------------
(* One worker at a time has uncommitted runs                                *)

(***************************************************************************)
(* With a lock that neither expires under its holder nor is given up on,    *)
(* whoever executes holds the key, and a worker's runs are uncommitted only *)
(* while it executes.                                                       *)
(***************************************************************************)
AtWork == {"checking", "flushing", "executing", "committing"}

HolderHasKey == \A p \in Lockers : Executing(p) => inside[p] = "locked" /\ key = p

WorkIsLocked ==
    \A w \in Waiters :
        /\ pc[w] \in AtWork \cup {"releasing"} => Executing(w)
        /\ HasUncommittedRun(w) => pc[w] \in AtWork

HolderInv == HolderHasKey /\ WorkIsLocked

\* The key moves only when nobody executes.
LEMMA HolderKeyStep ==
    ASSUME ~MayExpire, ~MayGiveUp, TypeInv, HolderHasKey, [Next]_vars
    PROVE  HolderHasKey'
<1> USE LockersAssumption DEF HolderHasKey, Executing
<1>1. inside \in [Lockers -> Positions]
  BY DEF TypeInv, TypeOK, LockTypeOK
<1>2. CASE UNCHANGED lockVars
  BY <1>2 DEF lockVars
<1>3. ASSUME NEW p \in Lockers, TryAcquire(p) PROVE HolderHasKey'
  BY <1>1, <1>3 DEF TryAcquire
<1>4. ASSUME NEW p \in Lockers,
             StartWaiting(p) \/ ReleaseFails(p) \/ Die(p) \/ Release(p)
      PROVE  HolderHasKey'
  BY <1>1, <1>4 DEF StartWaiting, ReleaseFails, Die, Release
<1>5. CASE LockExpires
  BY <1>5 DEF LockExpires, Expire
<1>6. ASSUME NEW w \in Waiters, Worker(w) \/ PollEmptyQueue(w) PROVE HolderHasKey'
  <2>1. \/ UNCHANGED lockVars
        \/ TryAcquire(w) \/ StartWaiting(w) \/ Release(w) \/ ReleaseFails(w)
    BY <1>6
    DEF Worker, PollEmptyQueue, TakeJob, EnterLock, WaitForLock, ReuseStage, NeedStage,
        StartRun, ExecuteStage, CommitRun, FinishJob, LeaveLock, vars, lockVars
  <2>2. QED
    BY <1>2, <1>3, <1>4, <2>1
<1>7. ASSUME NEW s \in Callers, StepArrives(s) \/ Caller(s) PROVE HolderHasKey'
  <2>1. UNCHANGED lockVars \/ TryAcquire(s) \/ Release(s) \/ ReleaseFails(s)
    BY <1>7
    DEF StepArrives, Caller, StepRefused, StepBegins, StepExecutes, StepRaises,
        StepRecords, LeaveLock, lockVars
  <2>2. QED
    BY <1>2, <1>3, <1>4, <2>1
<1>8. ASSUME NEW r \in Reviewers, ReviewArrives(r) \/ ReviewSaves(r)
      PROVE  HolderHasKey'
  BY <1>2, <1>8 DEF ReviewArrives, ReviewSaves, lockVars
<1>9. ASSUME NEW p \in Lockers, Crash(p) PROVE HolderHasKey'
  BY <1>2, <1>4, <1>9 DEF Crash
<1>10. CASE RetryRequest
  BY <1>2, <1>10 DEF RetryRequest, lockVars
<1>11. CASE UNCHANGED vars
  BY <1>2, <1>11 DEF vars, lockVars
<1>12. QED
  BY <1>5, <1>6, <1>7, <1>8, <1>9, <1>10, <1>11 DEF Next

\* A worker has runs to commit only between its entry into the lock and its
\* commit, whatever the others do.
LEMMA WorkIsLockedStep ==
    ASSUME TypeInv, WorkIsLocked, [Next]_vars PROVE WorkIsLocked'
<1> DEFINE Safe(w) == /\ pc[w] \in AtWork \cup {"releasing"} => Executing(w)
                      /\ HasUncommittedRun(w) => pc[w] \in AtWork
<1>1. \A w \in Waiters : Safe(w)
  BY DEF WorkIsLocked
<1>2. /\ inside \in [Lockers -> Positions] /\ pc \in [Writers -> Places]
      /\ sess \in [Writers -> Session]
  BY DEF TypeInv, TypeOK, LockTypeOK
<1>3. \A w \in Waiters : w \notin Callers /\ w \notin Reviewers
  BY LockersAssumption, PipelineAssumption
<1>4. \A g : \A k \in Stage : Loaded(g).own[k] = NoRun
  BY DEF Loaded
<1>5. ASSUME NEW w \in Waiters, pc'[w] = pc[w], inside'[w] = inside[w], sess'[w] = sess[w]
      PROVE  Safe(w)'
  BY <1>1, <1>5 DEF Executing, HasUncommittedRun
<1>6. ASSUME NEW w \in Waiters, pc'[w] = "idle", sess'[w].own = NoSession.own
      PROVE  Safe(w)'
  BY <1>4, <1>6 DEF NoSession, HasUncommittedRun, AtWork
<1>7. ASSUME NEW w \in Waiters, NEW p \in Writers, p # w,
             \/ UNCHANGED pc \/ \E l : Goto(p, l),
             \/ UNCHANGED inside \/ \E x : inside' = [inside EXCEPT ![p] = x],
             \/ UNCHANGED sess \/ \E s : SetSession(p, s)
      PROVE  Safe(w)'
  BY <1>2, <1>5, <1>7 DEF Goto, SetSession
<1>8. ASSUME NEW p \in Lockers,
             \/ UNCHANGED lockVars \/ TryAcquire(p) \/ StartWaiting(p)
             \/ ProceedAnyway(p) \/ Busy(p) \/ Release(p) \/ ReleaseFails(p) \/ Die(p)
      PROVE  UNCHANGED inside \/ \E x : inside' = [inside EXCEPT ![p] = x]
  BY <1>8
  DEF TryAcquire, StartWaiting, ProceedAnyway, Busy, Release, ReleaseFails, Die, lockVars
<1>9. ASSUME NEW w \in Waiters, NEW v \in Waiters, Worker(v) \/ PollEmptyQueue(v)
      PROVE  Safe(w)'
  <2>1. CASE v # w
    <3>1. UNCHANGED inside \/ \E x : inside' = [inside EXCEPT ![v] = x]
      BY <1>8, <1>9
      DEF Worker, PollEmptyQueue, TakeJob, EnterLock, WaitForLock, ReuseStage,
          NeedStage, StartRun, ExecuteStage, CommitRun, FinishJob, LeaveLock, vars, lockVars
    <3>2. UNCHANGED pc \/ \E l : Goto(v, l)
      BY <1>9
      DEF Worker, PollEmptyQueue, TakeJob, EnterLock, WaitForLock, ReuseStage,
          NeedStage, StartRun, ExecuteStage, CommitRun, FinishJob, LeaveStage, vars
    <3>3. UNCHANGED sess \/ \E s : SetSession(v, s)
      BY <1>9
      DEF Worker, PollEmptyQueue, TakeJob, EnterLock, WaitForLock, ReuseStage,
          NeedStage, StartRun, ExecuteStage, CommitRun, FinishJob, SetSession, vars
    <3>4. QED
      BY <1>7, <2>1, <3>1, <3>2, <3>3
  <2>2. CASE v = w
    <3>1. CASE PollEmptyQueue(w)
      BY <1>5, <3>1 DEF PollEmptyQueue, vars
    <3>2. CASE TakeJob(w)
      BY <1>2, <1>4, <3>2 DEF TakeJob, Goto, SetSession, HasUncommittedRun, AtWork
    <3>3. CASE EnterLock(w)
      BY <1>1, <1>2, <3>3
      DEF EnterLock, TryAcquire, ProceedAnyway, Goto, Executing, HasUncommittedRun, AtWork
    <3>4. CASE WaitForLock(w)
      BY <1>1, <3>4 DEF WaitForLock, HasUncommittedRun, AtWork
    <3>5. CASE ReuseStage(w) \/ NeedStage(w) \/ StartRun(w) \/ ExecuteStage(w)
      <4>1. pc[w] \in AtWork /\ pc'[w] \in AtWork
        BY <1>2, <3>5
        DEF ReuseStage, NeedStage, StartRun, ExecuteStage, LeaveStage, Goto, AtWork
      <4>2. UNCHANGED inside
        BY <3>5 DEF ReuseStage, NeedStage, StartRun, ExecuteStage
      <4>3. QED
        BY <1>1, <4>1, <4>2 DEF Executing
    <3>6. CASE CommitRun(w)
      BY <1>1, <1>2, <1>4, <3>6
      DEF CommitRun, Goto, SetSession, NoSession, Executing, HasUncommittedRun, AtWork
    <3>7. CASE FinishJob(w)
      BY <1>1, <1>2, <3>7 DEF FinishJob, Goto, HasUncommittedRun, AtWork
    <3>8. QED
      BY <1>9, <2>2, <3>1, <3>2, <3>3, <3>4, <3>5, <3>6, <3>7 DEF Worker
  <2>3. QED
    BY <2>1, <2>2
<1>10. ASSUME NEW w \in Waiters, NEW s \in Callers, StepArrives(s) \/ Caller(s)
       PROVE  Safe(w)'
  <2>1. UNCHANGED inside \/ \E x : inside' = [inside EXCEPT ![s] = x]
    BY <1>8, <1>10
    DEF StepArrives, Caller, StepRefused, StepBegins, StepExecutes, StepRaises,
        StepRecords, LeaveLock, lockVars
  <2>2. \E l : Goto(s, l)
    BY <1>10
    DEF StepArrives, Caller, StepRefused, StepBegins, StepExecutes, StepRaises,
        StepRecords, EndRequest
  <2>3. UNCHANGED sess \/ \E x : SetSession(s, x)
    BY <1>10
    DEF StepArrives, Caller, StepRefused, StepBegins, StepExecutes, StepRaises,
        StepRecords, EndRequest
  <2>4. QED
    BY <1>3, <1>7, <2>1, <2>2, <2>3
<1>11. ASSUME NEW w \in Waiters, NEW r \in Reviewers, ReviewArrives(r) \/ ReviewSaves(r)
       PROVE  Safe(w)'
  BY <1>3, <1>7, <1>11 DEF ReviewArrives, ReviewSaves, Approve, Reject, Override
<1>12. ASSUME NEW w \in Waiters, NEW p \in Lockers, Crash(p) PROVE Safe(w)'
  <2>1. CASE p = w
    BY <1>2, <1>6, <1>12, <2>1 DEF Crash, Goto, SetSession
  <2>2. CASE p # w
    BY <1>7, <1>8, <1>12, <2>2 DEF Crash
  <2>3. QED
    BY <2>1, <2>2
<1>13. ASSUME NEW w \in Waiters, RetryRequest \/ LockExpires \/ UNCHANGED vars
       PROVE  Safe(w)'
  BY <1>5, <1>13 DEF RetryRequest, LockExpires, Expire, vars
<1>14. \A w \in Waiters : Safe(w)'
  BY <1>9, <1>10, <1>11, <1>12, <1>13 DEF Next
<1>15. QED
  BY <1>14 DEF WorkIsLocked

\* Nobody executes at first, and while no lock is lost the invariant stays.
LEMMA HolderInit == Init => HolderInv
  BY LockersAssumption
  DEF Init, LockInit, NoSession, Loaded, HolderInv, HolderHasKey, WorkIsLocked,
      Executing, HasUncommittedRun, AtWork

LEMMA HolderStep ==
    ASSUME ~MayExpire, ~MayGiveUp PROVE TypeInv /\ HolderInv /\ [Next]_vars => HolderInv'
  BY HolderKeyStep, WorkIsLockedStep DEF HolderInv

(***************************************************************************)
(* For any number of workers and /step requests, reviewers and crashes: if  *)
(* no lock expires under its holder and no worker gives up waiting, no two  *)
(* processes execute stages together, and while one does, no worker but it  *)
(* has uncommitted runs.  The verdicts a worker skips stages on are the     *)
(* latest any worker reached.                                               *)
(***************************************************************************)
THEOREM OneWorkerAtATime ==
    ASSUME ~MayExpire, ~MayGiveUp PROVE Spec => []OneWithUncommittedRuns
<1>1. TypeInv /\ HolderInv => OneWithUncommittedRuns
  BY DEF HolderInv, HolderHasKey, WorkIsLocked, OneWithUncommittedRuns
<1>2. TypeInv /\ HolderInv /\ [Next]_vars => HolderInv'
  BY HolderStep
<1>3. QED
  BY <1>1, <1>2, HolderInit, TypeInit, TypeStep, PTL DEF Spec

-----------------------------------------------------------------------------
(* Workers commit verdicts only                                             *)

(***************************************************************************)
(* A commit that does not write the status is one whose copy already had a  *)
(* verdict when it was loaded; the row has had one ever since.              *)
(***************************************************************************)
StaleVerdict ==
    \A w \in Waiters :
        "status" \notin sess[w].written /\ sess[w].base.status \in Terminal
            => db.status \in Terminal

CommitsVerdict ==
    \A w \in Waiters : pc[w] = "committing" => sess[w].cur.status \in Terminal

ReviewsOnlyReject ==
    \A r \in Reviewers :
        /\ sess[r].own = [k \in Stage |-> NoRun]
        /\ sess[r].written = {}
        /\ sess[r].cur.status \in {sess[r].base.status, Failed}

VerdictInv == NoHalfwayStatus /\ StaleVerdict /\ CommitsVerdict /\ ReviewsOnlyReject

\* The last stage a worker executes or skips leaves the garment with a verdict.
LEMMA LastStageVerdict ==
    ASSUME NEW k \in Stage
    PROVE  /\ \A r \in Result : StopsRun(k, r) \/ k = Len(Pipeline)
                 => AfterRunStage(k, r).status \in Terminal
           /\ \A g \in Garment : k = Len(Pipeline) => AfterReuse(k, g).status \in Terminal
<1>1. \A h \in Garment, s \in GarmentState : \A q : Verdict(h, s, q).status = s
  BY DEF Verdict, Garment
<1>2. \A r \in Result : r.garment \in Garment
  BY DEF Result
<1>3. ASSUME NEW r \in Result, StopsRun(k, r) \/ k = Len(Pipeline)
      PROVE  AfterRunStage(k, r).status \in Terminal
  BY <1>1, <1>2, <1>3, StageFacts
  DEF AfterRunStage, StopsRun, Terminal, Completed
<1>4. ASSUME NEW g \in Garment, k = Len(Pipeline)
      PROVE  AfterReuse(k, g).status \in Terminal
  BY <1>4 DEF AfterReuse, Terminal, Completed, Garment
<1>5. QED
  BY <1>3, <1>4

\* A worker's commit leaves the row with a verdict.
LEMMA CommitLeavesVerdict ==
    ASSUME TypeInv, VerdictInv, NEW w \in Waiters, CommitRun(w)
    PROVE  db'.status \in Terminal
<1>1. sess[w].cur.status \in Terminal
  BY DEF VerdictInv, CommitsVerdict, CommitRun
<1>2. db'.status = IF "status" \in sess[w].written \cup Dirty(w)
                   THEN sess[w].cur.status ELSE db.status
  BY DEF CommitRun, CommitSession, Fields
<1>3. CASE "status" \in sess[w].written \cup Dirty(w)
  BY <1>1, <1>2, <1>3
<1>4. CASE "status" \notin sess[w].written \cup Dirty(w)
  <2>1. sess[w].base.status = sess[w].cur.status
    BY <1>4 DEF Dirty, Fields
  <2>2. db.status \in Terminal
    BY <1>1, <1>4, <2>1 DEF VerdictInv, StaleVerdict
  <2>3. QED
    BY <1>2, <1>4, <2>2
<1>5. QED
  BY <1>3, <1>4

\* A reviewer's commit rejects the garment or leaves its status, and adds no run.
LEMMA ReviewLeavesVerdict ==
    ASSUME TypeInv, VerdictInv, NEW r \in Reviewers, ReviewSaves(r)
    PROVE  db'.status \in {db.status, Failed} /\ runs' = runs
<1>1. /\ sess[r].own = [k \in Stage |-> NoRun] /\ sess[r].written = {}
      /\ sess[r].cur.status \in {sess[r].base.status, Failed}
  BY DEF VerdictInv, ReviewsOnlyReject
<1>2. db'.status = IF "status" \in Dirty(r) THEN sess[r].cur.status ELSE db.status
  BY <1>1 DEF ReviewSaves, CommitSession, Fields
<1>3. "status" \in Dirty(r) => sess[r].cur.status = Failed
  BY <1>1 DEF Dirty
<1>4. \A k \in Stage : Later(runs[k], sess[r].own[k]) = runs[k]
  BY <1>1 DEF Later, NoRun, Run, TypeInv, TypeOK
<1>5. runs' = runs
  BY <1>4 DEF ReviewSaves, CommitSession, TypeInv, TypeOK
<1>6. QED
  BY <1>2, <1>3, <1>5

\* One step of one worker.
LEMMA WorkerVerdictStep ==
    ASSUME TypeInv, VerdictInv, NEW w \in Waiters, Worker(w) \/ PollEmptyQueue(w)
    PROVE  VerdictInv'
<1>1. /\ sess \in [Writers -> Session] /\ pc \in [Writers -> Places]
      /\ sess[w] \in Session /\ sess[w].cur \in Garment /\ at \in [Lockers -> Stage \cup {0}]
  BY DEF TypeInv, TypeOK, Session
<1>2. at[w] \in Stage
  BY LockersAssumption DEF TypeInv, TypeOK, AtAStage
<1>3. \A r \in Reviewers : r # w
  BY PipelineAssumption
<1>4. ASSUME UNCHANGED sess \/ \E s : SetSession(w, s)
      PROVE  ReviewsOnlyReject'
  BY <1>1, <1>3, <1>4 DEF SetSession, VerdictInv, ReviewsOnlyReject
<1>5. ASSUME UNCHANGED sess \/ \E s : SetSession(w, s),
             UNCHANGED pc \/ \E l : Goto(w, l),
             db.status \in Terminal => db'.status \in Terminal,
             "status" \notin sess'[w].written /\ sess'[w].base.status \in Terminal
                 => db'.status \in Terminal,
             pc'[w] = "committing" => sess'[w].cur.status \in Terminal
      PROVE  StaleVerdict' /\ CommitsVerdict'
  BY <1>1, <1>5 DEF SetSession, Goto, VerdictInv, StaleVerdict, CommitsVerdict
<1>6. ASSUME UNCHANGED <<db, runs>> PROVE NoHalfwayStatus'
  BY <1>6 DEF VerdictInv, NoHalfwayStatus
<1>7. /\ "status" \notin sess[w].written /\ sess[w].base.status \in Terminal
            => db.status \in Terminal
      /\ pc[w] = "committing" => sess[w].cur.status \in Terminal
  BY DEF VerdictInv, StaleVerdict, CommitsVerdict
<1>8. CASE PollEmptyQueue(w) \/ WaitForLock(w)
  BY <1>4, <1>5, <1>6, <1>7, <1>8 DEF PollEmptyQueue, WaitForLock, vars, VerdictInv
<1>9. CASE TakeJob(w)
  <2>1. /\ UNCHANGED <<db, runs>> /\ Goto(w, "locking") /\ pc'[w] = "locking"
        /\ SetSession(w, Loaded(db)) /\ sess'[w] = Loaded(db)
    BY <1>1, <1>9 DEF TakeJob, Goto, SetSession
  <2>2. Loaded(db).base = db
    BY DEF Loaded
  <2>3. QED
    BY <1>4, <1>5, <1>6, <2>1, <2>2 DEF VerdictInv
<1>10. CASE EnterLock(w) \/ NeedStage(w) \/ FinishJob(w)
  <2>1. /\ UNCHANGED <<db, runs, sess>> /\ \E l : Goto(w, l)
        /\ pc'[w] \in {"checking", "flushing", "idle"}
    BY <1>1, <1>10 DEF EnterLock, NeedStage, FinishJob, Goto
  <2>2. QED
    BY <1>4, <1>5, <1>6, <1>7, <2>1 DEF VerdictInv
<1>11. CASE ReuseStage(w)
  <2>1. sess' = [sess EXCEPT ![w] = [sess[w] EXCEPT !.cur = AfterReuse(at[w], @)]]
    BY <1>1, <1>11 DEF ReuseStage
  <2>2. /\ sess'[w].cur = AfterReuse(at[w], sess[w].cur)
        /\ sess'[w].base = sess[w].base /\ sess'[w].written = sess[w].written
    BY <1>1, <2>1 DEF Session
  <2>3. UNCHANGED <<db, runs>> /\ \E l : Goto(w, l)
    BY <1>11 DEF ReuseStage, LeaveStage
  <2>4. pc'[w] = "committing" => at[w] = Len(Pipeline)
    BY <1>1, <1>11 DEF ReuseStage, LeaveStage, Goto
  <2>5. pc'[w] = "committing" => sess'[w].cur.status \in Terminal
    BY <1>1, <1>2, <2>2, <2>4, LastStageVerdict
  <2>6. \E s : SetSession(w, s)
    BY <2>1 DEF SetSession
  <2>7. QED
    BY <1>4, <1>5, <1>6, <1>7, <2>2, <2>3, <2>5, <2>6 DEF VerdictInv
<1>12. CASE StartRun(w)
  <2>1. /\ UNCHANGED <<db, runs>> /\ Goto(w, "executing") /\ pc'[w] = "executing"
        /\ \E s : SetSession(w, s)
    BY <1>1, <1>12 DEF StartRun, Goto
  <2>2. /\ sess'[w].base = sess[w].cur
        /\ sess'[w].written = sess[w].written \cup Dirty(w)
    BY <1>1, <1>12 DEF StartRun, SetSession, Session
  <2>3. "status" \notin Dirty(w) => sess[w].cur.status = sess[w].base.status
    BY DEF Dirty, Fields
  <2>4. QED
    BY <1>4, <1>5, <1>6, <1>7, <2>1, <2>2, <2>3 DEF VerdictInv
<1>13. CASE ExecuteStage(w)
  <2>1. PICK r \in StageResults(at[w], sess[w].cur) :
          /\ SetSession(w, [sess[w] EXCEPT
                !.cur = AfterRunStage(at[w], r),
                !.own[at[w]].status = RecordedStatus(r)])
          /\ LeaveStage(w, StopsRun(at[w], r))
    BY <1>13 DEF ExecuteStage
  <2>2. /\ sess'[w].cur = AfterRunStage(at[w], r)
        /\ sess'[w].base = sess[w].base /\ sess'[w].written = sess[w].written
    BY <1>1, <2>1 DEF SetSession, Session
  <2>3. UNCHANGED <<db, runs>> /\ \E l : Goto(w, l)
    BY <1>13, <2>1 DEF ExecuteStage, LeaveStage
  <2>4. pc'[w] = "committing" => StopsRun(at[w], r) \/ at[w] = Len(Pipeline)
    BY <1>1, <2>1 DEF LeaveStage, Goto
  <2>5. r \in Result
    BY <1>1, <1>2, ResultsTyped
  <2>6. pc'[w] = "committing" => sess'[w].cur.status \in Terminal
    BY <1>2, <2>2, <2>4, <2>5, LastStageVerdict
  <2>7. QED
    BY <1>4, <1>5, <1>6, <1>7, <2>1, <2>2, <2>3, <2>6 DEF VerdictInv
<1>14. CASE CommitRun(w)
  <2>1. db'.status \in Terminal
    BY <1>14, CommitLeavesVerdict
  <2>2. /\ SetSession(w, NoSession) /\ Goto(w, "releasing") /\ pc'[w] = "releasing"
    BY <1>1, <1>14 DEF CommitRun, Goto
  <2>3. NoHalfwayStatus'
    BY <2>1 DEF NoHalfwayStatus
  <2>4. QED
    BY <1>4, <1>5, <2>1, <2>2, <2>3 DEF VerdictInv
<1>15. QED
  BY <1>8, <1>9, <1>10, <1>11, <1>12, <1>13, <1>14 DEF Worker

\* One step of one reviewer.
LEMMA ReviewerVerdictStep ==
    ASSUME TypeInv, VerdictInv, NEW r \in Reviewers, ReviewArrives(r) \/ ReviewSaves(r)
    PROVE  VerdictInv'
<1>1. sess \in [Writers -> Session] /\ pc \in [Writers -> Places]
  BY DEF TypeInv, TypeOK
<1>2. \A w \in Waiters : w # r
  BY PipelineAssumption
<1>3. /\ \E s : SetSession(r, s) /\ \E l : Goto(r, l)
      /\ \A w \in Waiters : sess'[w] = sess[w] /\ pc'[w] = pc[w]
  BY <1>1, <1>2
  DEF ReviewArrives, ReviewSaves, Approve, Reject, Override, Goto, SetSession
<1>4. ASSUME db.status \in Terminal => db'.status \in Terminal
      PROVE  StaleVerdict' /\ CommitsVerdict'
  BY <1>3, <1>4 DEF VerdictInv, StaleVerdict, CommitsVerdict
<1>5. ASSUME NEW s, SetSession(r, s), s.own = [k \in Stage |-> NoRun], s.written = {},
             s.cur.status \in {s.base.status, Failed}
      PROVE  ReviewsOnlyReject'
  BY <1>1, <1>5 DEF SetSession, VerdictInv, ReviewsOnlyReject
<1>6. CASE ReviewArrives(r)
  <2>1. UNCHANGED <<db, runs>>
    BY <1>6 DEF ReviewArrives
  <2>2. PICK s : /\ SetSession(r, s) /\ s.own = [k \in Stage |-> NoRun]
                 /\ s.written = {} /\ s.cur.status \in {s.base.status, Failed}
    <3>1. db \in Garment
      BY DEF TypeInv, TypeOK
    <3>2. CASE Approve(r)
      BY <3>1, <3>2 DEF Approve, Loaded, Garment
    <3>3. CASE Reject(r)
      <4> DEFINE s == [Loaded(db) EXCEPT !.cur.quality = "REJECTED", !.cur.status = Failed]
      <4>1. SetSession(r, s)
        BY <3>3 DEF Reject
      <4>2. s.own = [k \in Stage |-> NoRun] /\ s.written = {} /\ s.cur.status = Failed
        BY <3>1 DEF Loaded, Garment
      <4> HIDE DEF s
      <4>3. QED
        BY <4>1, <4>2
    <3>4. CASE Override(r)
      <4>1. PICK a \in Attrs \cup {db.attrs} :
              SetSession(r, [Loaded(db) EXCEPT !.cur.quality = "APPROVED", !.cur.attrs = a])
        BY <3>4 DEF Override
      <4> DEFINE s == [Loaded(db) EXCEPT !.cur.quality = "APPROVED", !.cur.attrs = a]
      <4>2. /\ s.own = [k \in Stage |-> NoRun] /\ s.written = {}
            /\ s.cur.status = s.base.status
        BY <3>1 DEF Loaded, Garment
      <4>3. SetSession(r, s)
        BY <4>1
      <4> HIDE DEF s
      <4>4. QED
        BY <4>2, <4>3
    <3>5. QED
      BY <1>6, <3>2, <3>3, <3>4 DEF ReviewArrives
  <2>3. NoHalfwayStatus'
    BY <2>1 DEF VerdictInv, NoHalfwayStatus
  <2>4. QED
    BY <1>4, <1>5, <2>1, <2>2, <2>3 DEF VerdictInv
<1>7. CASE ReviewSaves(r)
  <2>1. db'.status \in {db.status, Failed} /\ runs' = runs
    BY <1>7, ReviewLeavesVerdict
  <2>2. SetSession(r, NoSession)
    BY <1>7 DEF ReviewSaves
  <2>3. /\ NoSession.own = [k \in Stage |-> NoRun] /\ NoSession.written = {}
        /\ NoSession.cur.status = NoSession.base.status
    BY DEF NoSession, Loaded
  <2>4. NoHalfwayStatus'
    BY <2>1 DEF VerdictInv, NoHalfwayStatus, Terminal
  <2>5. QED
    BY <1>4, <1>5, <2>1, <2>2, <2>3, <2>4 DEF VerdictInv, Terminal
<1>8. QED
  BY <1>6, <1>7

\* A garment starts without a verdict and with empty sessions.
LEMMA VerdictInit == Init => VerdictInv
<1> SUFFICES ASSUME Init PROVE VerdictInv
  OBVIOUS
<1>1. \A p \in Writers : sess[p] = NoSession /\ pc[p] = "idle"
  BY DEF Init
<1>2. /\ NoSession.own = [k \in Stage |-> NoRun] /\ NoSession.written = {}
      /\ NoSession.cur.status = Received /\ NoSession.base.status = Received
  BY DEF NoSession, Loaded, BlankGarment
<1>3. Received \notin Terminal
  BY StageFacts DEF Received, Terminal, Completed, Failed, ReviewRequired
<1>4. \A k \in Stage : runs[k] = NoRun
  BY DEF Init
<1>5. QED
  BY <1>1, <1>2, <1>3, <1>4
  DEF VerdictInv, NoHalfwayStatus, StaleVerdict, CommitsVerdict, ReviewsOnlyReject

\* Without /step requests every step keeps the invariant.
LEMMA VerdictStep ==
    ASSUME Callers = {} PROVE TypeInv /\ VerdictInv /\ [Next]_vars => VerdictInv'
<1> SUFFICES ASSUME TypeInv, VerdictInv, [Next]_vars PROVE VerdictInv'
  OBVIOUS
<1>1. CASE \E w \in Waiters : Worker(w) \/ PollEmptyQueue(w)
  BY <1>1, WorkerVerdictStep
<1>2. CASE \E r \in Reviewers : ReviewArrives(r) \/ ReviewSaves(r)
  BY <1>2, ReviewerVerdictStep
<1>3. ASSUME NEW p \in Lockers, Crash(p) PROVE VerdictInv'
  <2>1. /\ sess \in [Writers -> Session] /\ pc \in [Writers -> Places]
        /\ \A r \in Reviewers : r # p
    BY PipelineAssumption DEF TypeInv, TypeOK
  <2>2. /\ UNCHANGED <<db, runs>>
        /\ sess' = [sess EXCEPT ![p] = NoSession] /\ pc' = [pc EXCEPT ![p] = "idle"]
    BY <1>3 DEF Crash, SetSession, Goto
  <2>3. NoSession.base.status \notin Terminal
    BY StageFacts
    DEF NoSession, Loaded, BlankGarment, Received, Terminal, Completed, Failed,
        ReviewRequired
  <2>4. QED
    BY <2>1, <2>2, <2>3
    DEF VerdictInv, NoHalfwayStatus, StaleVerdict, CommitsVerdict, ReviewsOnlyReject
<1>4. CASE RetryRequest \/ LockExpires \/ UNCHANGED vars
  BY <1>4
  DEF RetryRequest, LockExpires, vars, VerdictInv, NoHalfwayStatus, StaleVerdict,
      CommitsVerdict, ReviewsOnlyReject
<1>5. QED
  BY <1>1, <1>2, <1>3, <1>4 DEF Next

(***************************************************************************)
(* Without /step requests, for any number of workers, reviewers, crashes,   *)
(* expired locks and waits given up: a garment is in the state it was       *)
(* created in until the first commit and has a verdict ever after, so no    *)
(* reader sees it halfway through the pipeline.                             *)
(***************************************************************************)
THEOREM OnlyVerdictsCommitted ==
    ASSUME Callers = {} PROVE Spec => []NoHalfwayStatus
<1>1. TypeInv /\ VerdictInv /\ [Next]_vars => VerdictInv'
  BY VerdictStep
<1>2. VerdictInv => NoHalfwayStatus
  BY DEF VerdictInv
<1>3. QED
  BY <1>1, <1>2, VerdictInit, TypeInit, TypeStep, PTL DEF Spec

-----------------------------------------------------------------------------
(* What is COMPLETED has passed                                             *)

HasAttributesStage == \E k \in Stage : Pipeline[k] = "ATTRIBUTES"

JobsMeetVerdicts ==
    /\ queue \in Seq({j \in Job : MeetsVerdicts(j)})
    /\ \A w \in Waiters : MeetsVerdicts(job[w])

\* An uncommitted run is later than the committed one.
RunsAreInOrder ==
    \A k \in Stage :
        /\ runs[k].stamp <= started[k]
        /\ \A w \in Waiters :
              /\ sess[w].own[k].stamp <= started[k]
              /\ sess[w].own[k] # NoRun => runs[k].stamp < sess[w].own[k].stamp

\* Attributes once made are never lost: no session writes their absence.
AttrsStay ==
    \A p \in Writers :
        /\ sess[p].base.attrs # NoAttrs /\ "attrs" \notin sess[p].written
               => db.attrs # NoAttrs
        /\ sess[p].cur.attrs = NoAttrs
               => sess[p].base.attrs = NoAttrs /\ "attrs" \notin sess[p].written

AttrsMade ==
    \A k \in Stage : Pipeline[k] = "ATTRIBUTES" =>
        /\ runs[k].status = "SUCCEEDED" => db.attrs # NoAttrs
        /\ \A w \in Waiters : sess[w].own[k].status = "SUCCEEDED"
                                  => sess[w].cur.attrs # NoAttrs

Stopped == {Failed, ReviewRequired}
Passed(w, k) == MostRecentRun(w, k).status = "SUCCEEDED"
OwnPassed(w, k) == sess[w].own[k] = NoRun \/ sess[w].own[k].status = "SUCCEEDED"

\* Before a stage: what is ahead has no run of this worker, and past its first
\* stage the garment in memory is not stopped.  A halting first stage is only
\* executed when the garment is not COMPLETED.
BeforeStage(w) ==
    /\ \A k \in Stage : k >= at[w] => sess[w].own[k] = NoRun
    /\ at[w] >= job[w].from
    /\ at[w] > job[w].from => sess[w].cur.status \notin Stopped
    /\ pc[w] = "flushing" /\ at[w] = job[w].from /\ Halting(at[w])
           => db.status # Completed

InStage(w) ==
    /\ sess[w].own[at[w]].status = "RUNNING"
    /\ \A k \in Stage : k > at[w] => sess[w].own[k] = NoRun
    /\ at[w] >= job[w].from
    /\ Halting(at[w]) => sess[w].base.status \notin Stopped \/ db.status # Completed

\* The halting stages behind have passed.
BehindPassed(w) ==
    \A k \in Stage : Halting(k) =>
        /\ k < at[w] => Passed(w, k)
        /\ k # at[w] => OwnPassed(w, k)

\* A run ends with every halting stage passed, or stopped at another stage, or
\* with a verdict that its commit writes unless the garment is not COMPLETED.
Ended(w) ==
    \/ \A k \in Stage : Halting(k) => Passed(w, k)
    \/ /\ sess[w].cur.status \in Stopped
       /\ \A k \in Stage : Halting(k) => OwnPassed(w, k)
    \/ /\ sess[w].cur.status \in Stopped
       /\ sess[w].base.status \notin Stopped \/ db.status # Completed

RunFacts(w) ==
    /\ pc[w] \in {"checking", "flushing"} => BeforeStage(w) /\ BehindPassed(w)
    /\ pc[w] = "executing" => InStage(w) /\ BehindPassed(w)
    /\ pc[w] = "committing" => Ended(w)

PassedInv ==
    /\ HasPassed /\ JobsMeetVerdicts /\ RunsAreInOrder /\ AttrsStay /\ AttrsMade
    /\ \A w \in Waiters : RunFacts(w)

\* Whatever a stage does, attributes are kept or replaced by attributes, and
\* stage 3 succeeds only with some.
LEMMA ResultAttrs ==
    ASSUME NEW k \in Stage, NEW g \in Garment, NEW r \in StageResults(k, g)
    PROVE  /\ r.garment.attrs \in Attrs \cup {g.attrs}
           /\ Pipeline[k] = "ATTRIBUTES" /\ r.status = "SUCCEEDED" => r.garment.attrs \in Attrs
<1>1. \A s, q, h : /\ Outcome(s, q, h).garment = h /\ Outcome(s, q, h).status = s
  BY DEF Outcome
<1>2. \A a : WithAttrs(g, a).attrs = a
  BY DEF WithAttrs, Garment
<1>3. Finalised(g).attrs = g.attrs
  BY DEF Finalised, Garment
<1>4. CASE Pipeline[k] = "ATTRIBUTES"
  <2>1. r \in AttributesResults(g)
    BY <1>4 DEF StageResults
  <2>2. QED
    BY <1>1, <1>2, <1>4, <2>1 DEF AttributesResults
<1>5. CASE Pipeline[k] = "VISUAL"
  <2>1. r \in VisualResults(g)
    BY <1>5 DEF StageResults
  <2>2. QED
    BY <1>1, <1>3, <1>5, <2>1 DEF VisualResults
<1>6. CASE Pipeline[k] \notin {"ATTRIBUTES", "VISUAL"}
  <2>1. Pipeline[k] \in StageNames
    BY StageFacts
  <2>2. r \in ClassifyResults(g) \cup CropResults(g) \cup EmbedResults(g)
              \cup CategoryResults(g) \cup RuleResults(g) \cup DigitiseResults(g)
    BY <1>6, <2>1 DEF StageResults, StageNames
  <2>3. r.garment = g
    BY <1>1, <2>2
    DEF ClassifyResults, CropResults, EmbedResults, CategoryResults, RuleResults,
        DigitiseResults
  <2>4. QED
    BY <1>6, <2>3
<1>7. QED
  BY <1>4, <1>5, <1>6

\* What the orchestrator makes of a result: it stops with a stopped garment or
\* goes on from stage k, and past a halting stage only on a success.
LEMMA TransitionFacts ==
    ASSUME NEW k \in Stage, NEW r \in Result
    PROVE  /\ AfterRunStage(k, r).attrs = r.garment.attrs
           /\ AfterRunStage(k, r).status = k \/ StopsRun(k, r)
           /\ StopsRun(k, r) => AfterRunStage(k, r).status \in Stopped
           /\ ~StopsRun(k, r) /\ Halting(k) => r.status = "SUCCEEDED"
           /\ k \notin Stopped /\ Completed \notin Stopped
<1>1. r.garment \in Garment /\ r.status \in RunStatus \cup {"RAISED"}
  BY DEF Result
<1>2. \A s, q : /\ Verdict(r.garment, s, q).status = s
                /\ Verdict(r.garment, s, q).attrs = r.garment.attrs
  BY <1>1 DEF Verdict, Garment
<1>3. k \notin Stopped /\ Completed \notin Stopped
  BY StageFacts DEF Stopped, Failed, ReviewRequired, Completed, Stage
<1>4. QED
  BY <1>1, <1>2, <1>3 DEF AfterRunStage, StopsRun, RunStatus, Stopped

\* A skipped stage leaves a garment that is not stopped.
LEMMA ReuseFacts ==
    ASSUME NEW k \in Stage, NEW g \in Garment
    PROVE  AfterReuse(k, g).attrs = g.attrs /\ AfterReuse(k, g).status \notin Stopped
<1>1. k \notin Stopped /\ Completed \notin Stopped
  BY StageFacts DEF Stopped, Failed, ReviewRequired, Completed, Stage
<1>2. QED
  BY <1>1 DEF AfterReuse, Garment

\* Of a session that has no later run the committed one is the most recent.
LEMMA MostRecent ==
    ASSUME TypeInv, RunsAreInOrder, NEW w \in Waiters, NEW k \in Stage
    PROVE  /\ sess[w].own[k] = NoRun => MostRecentRun(w, k) = runs[k]
           /\ sess[w].own[k] # NoRun => MostRecentRun(w, k) = sess[w].own[k]
<1>1. sess[w].own[k] \in Run /\ runs[k] \in Run
  BY DEF TypeInv, TypeOK, Session
<1>2. runs[k].stamp \in Nat /\ sess[w].own[k].stamp \in Nat /\ NoRun.stamp = 0
  BY <1>1 DEF Run, NoRun
<1>3. sess[w].own[k] # NoRun => runs[k].stamp < sess[w].own[k].stamp
  BY DEF RunsAreInOrder
<1>4. QED
  BY <1>2, <1>3 DEF MostRecentRun, Later

\* A worker that nothing happens to keeps what is known of its run, while the
\* runs stay and the garment does not become COMPLETED.
LEMMA RunFactsKeep ==
    ASSUME NEW w \in Waiters, RunFacts(w),
           pc'[w] = pc[w], sess'[w] = sess[w], at'[w] = at[w], job'[w] = job[w],
           runs' = runs, db.status # Completed => db'.status # Completed
    PROVE  RunFacts(w)'
<1>1. \A k \in Stage : Passed(w, k)' = Passed(w, k) /\ OwnPassed(w, k)' = OwnPassed(w, k)
  BY DEF Passed, OwnPassed, MostRecentRun
<1>2. pc[w] \in {"checking", "flushing"} => BeforeStage(w)' /\ BehindPassed(w)'
  BY <1>1 DEF RunFacts, BeforeStage, BehindPassed
<1>3. pc[w] = "executing" => InStage(w)' /\ BehindPassed(w)'
  BY <1>1 DEF RunFacts, InStage, BehindPassed
<1>4. pc[w] = "committing" => Ended(w)'
  BY <1>1 DEF RunFacts, Ended
<1>5. QED
  BY <1>2, <1>3, <1>4 DEF RunFacts

\* The parts of AttrsStay and AttrsMade that are about one session.
KeepsAttrs(p) ==
    /\ sess[p].base.attrs # NoAttrs /\ "attrs" \notin sess[p].written => db.attrs # NoAttrs
    /\ sess[p].cur.attrs = NoAttrs
           => sess[p].base.attrs = NoAttrs /\ "attrs" \notin sess[p].written
SucceedsWithAttrs(w) ==
    \A k \in Stage : Pipeline[k] = "ATTRIBUTES" /\ sess[w].own[k].status = "SUCCEEDED"
                         => sess[w].cur.attrs # NoAttrs
OwnRunsAreLater(w) ==
    \A k \in Stage : /\ sess[w].own[k].stamp <= started[k]
                     /\ sess[w].own[k] # NoRun => runs[k].stamp < sess[w].own[k].stamp

\* A worker's step before its commit: what it must see to for PassedInv to stay.
LEMMA WorkerKeepsPassed ==
    ASSUME TypeInv, TypeInv', PassedInv, NEW w \in Waiters, UNCHANGED <<db, runs>>,
           \A k \in Stage : started[k] <= started'[k],
           \A p \in Writers \ {w} : sess'[p] = sess[p],
           \A v \in Waiters \ {w} : pc'[v] = pc[v] /\ at'[v] = at[v] /\ job'[v] = job[v],
           JobsMeetVerdicts', OwnRunsAreLater(w)', KeepsAttrs(w)', SucceedsWithAttrs(w)',
           RunFacts(w)'
    PROVE  PassedInv'
<1>1. HasPassed'
  BY DEF PassedInv, HasPassed
<1>2. RunsAreInOrder'
  <2> SUFFICES ASSUME NEW k \in Stage
               PROVE  /\ runs'[k].stamp <= started'[k]
                      /\ \A v \in Waiters :
                            /\ sess'[v].own[k].stamp <= started'[k]
                            /\ sess'[v].own[k] # NoRun => runs'[k].stamp < sess'[v].own[k].stamp
    BY DEF RunsAreInOrder
  <2>1. started[k] \in Nat /\ started'[k] \in Nat /\ runs[k].stamp \in Nat
    BY DEF TypeInv, TypeOK, Run
  <2>2. runs'[k].stamp <= started'[k]
    BY <2>1 DEF PassedInv, RunsAreInOrder
  <2>3. ASSUME NEW v \in Waiters \ {w}
        PROVE  /\ sess'[v].own[k].stamp <= started'[k]
               /\ sess'[v].own[k] # NoRun => runs'[k].stamp < sess'[v].own[k].stamp
    <3>1. sess[v].own[k].stamp \in Nat
      BY DEF TypeInv, TypeOK, Session, Run
    <3>2. sess'[v] = sess[v]
      OBVIOUS
    <3>3. sess[v].own[k].stamp <= started[k]
      BY DEF PassedInv, RunsAreInOrder
    <3>4. sess[v].own[k] # NoRun => runs[k].stamp < sess[v].own[k].stamp
      BY DEF PassedInv, RunsAreInOrder
    <3>5. QED
      BY <2>1, <3>1, <3>2, <3>3, <3>4
  <2>4. QED
    BY <2>2, <2>3 DEF OwnRunsAreLater
<1>3. AttrsStay'
  BY DEF PassedInv, AttrsStay, KeepsAttrs
<1>4. AttrsMade'
  BY DEF PassedInv, AttrsMade, SucceedsWithAttrs
<1>5. ASSUME NEW v \in Waiters \ {w} PROVE RunFacts(v)'
  <2>1. sess'[v] = sess[v]
    OBVIOUS
  <2>2. QED
    BY <2>1, RunFactsKeep DEF PassedInv
<1>6. QED
  BY <1>1, <1>2, <1>3, <1>4, <1>5 DEF PassedInv

\* What a session holds of attributes and runs, before it does anything.
LEMMA SessionFacts ==
    ASSUME PassedInv, NEW p \in Writers
    PROVE  /\ KeepsAttrs(p)
           /\ p \in Waiters => OwnRunsAreLater(p) /\ SucceedsWithAttrs(p) /\ RunFacts(p)
BY DEF PassedInv, AttrsStay, AttrsMade, RunsAreInOrder, KeepsAttrs, OwnRunsAreLater,
       SucceedsWithAttrs

\* A worker's session after SetSession, and everybody else's.
LEMMA SessionSet ==
    ASSUME TypeInv, NEW p \in Writers, NEW s, SetSession(p, s)
    PROVE  sess'[p] = s /\ \A q \in Writers \ {p} : sess'[q] = sess[q]
BY DEF SetSession, TypeInv, TypeOK

\* A session fresh from the row has nothing to commit and keeps its attributes.
LEMMA FreshSession ==
    ASSUME NEW g \in Garment, NEW p, sess'[p] = Loaded(g),
           g.attrs # NoAttrs => db'.attrs # NoAttrs,
           \A k \in Stage : started'[k] \in Nat
    PROVE  OwnRunsAreLater(p)' /\ KeepsAttrs(p)' /\ SucceedsWithAttrs(p)'
<1>1. /\ sess'[p].cur = g /\ sess'[p].base = g /\ sess'[p].written = {}
      /\ \A k \in Stage : sess'[p].own[k] = NoRun
  BY DEF Loaded
<1>2. NoRun.stamp = 0 /\ NoRun.status = "NONE"
  BY DEF NoRun
<1>3. OwnRunsAreLater(p)'
  BY <1>1, <1>2 DEF OwnRunsAreLater
<1>4. QED
  BY <1>1, <1>2, <1>3 DEF KeepsAttrs, SucceedsWithAttrs

\* Queues of jobs that meet the verdicts.
LEMMA JobsStep ==
    ASSUME TypeInv, JobsMeetVerdicts
    PROVE  /\ queue # <<>> => /\ MeetsVerdicts(Head(queue))
                              /\ Tail(queue) \in Seq({j \in Job : MeetsVerdicts(j)})
           /\ \A j \in Job : MeetsVerdicts(j) =>
                  Append(queue, j) \in Seq({i \in Job : MeetsVerdicts(i)})
           /\ MeetsVerdicts(NoJob) /\ MeetsVerdicts(NewJob(FALSE, 1))
<1> DEFINE Good == {j \in Job : MeetsVerdicts(j)}
<1>1. queue \in Seq(Good)
  BY DEF JobsMeetVerdicts
<1>2. queue # <<>> => Head(queue) \in Good /\ Tail(queue) \in Seq(Good)
  <2> HIDE DEF Good
  <2>1. QED
    BY <1>1
<1>3. \A j \in Good : Append(queue, j) \in Seq(Good)
  <2> HIDE DEF Good
  <2>1. QED
    BY <1>1
<1>4. MeetsVerdicts(NoJob) /\ MeetsVerdicts(NewJob(FALSE, 1))
  BY StageFacts DEF MeetsVerdicts, NoJob, NewJob, Stage
<1>5. QED
  BY <1>2, <1>3, <1>4

\* The steps of a worker outside its stages.
LEMMA WorkerOutsidePassed ==
    ASSUME TypeInv, TypeInv', HolderInv, PassedInv, NEW w \in Waiters,
           \/ PollEmptyQueue(w) \/ TakeJob(w) \/ EnterLock(w) \/ WaitForLock(w)
           \/ FinishJob(w)
    PROVE  PassedInv'
<1>1. /\ pc \in [Writers -> Places] /\ at \in [Lockers -> Stage \cup {0}]
      /\ job \in [Waiters -> Job] /\ sess \in [Writers -> Session] /\ db \in Garment
      /\ \A k \in Stage : started[k] \in Nat
  BY DEF TypeInv, TypeOK
<1>2. /\ OwnRunsAreLater(w) /\ KeepsAttrs(w) /\ SucceedsWithAttrs(w) /\ RunFacts(w)
      /\ JobsMeetVerdicts
  BY SessionFacts DEF PassedInv
<1>3. ASSUME UNCHANGED <<sess, db, runs, started>>
      PROVE  /\ OwnRunsAreLater(w)' /\ KeepsAttrs(w)' /\ SucceedsWithAttrs(w)'
             /\ \A k \in Stage : started[k] <= started'[k]
  BY <1>1, <1>2, <1>3 DEF OwnRunsAreLater, KeepsAttrs, SucceedsWithAttrs
<1>4. CASE PollEmptyQueue(w) \/ WaitForLock(w)
  <2>1. UNCHANGED <<db, runs, started, queue, pc, sess, job, at>>
    BY <1>4 DEF PollEmptyQueue, WaitForLock, vars
  <2>2. JobsMeetVerdicts'
    BY <1>2, <2>1 DEF JobsMeetVerdicts
  <2>3. RunFacts(w)'
    BY <1>2, <2>1, RunFactsKeep
  <2>4. QED
    BY <1>3, <2>1, <2>2, <2>3, WorkerKeepsPassed
<1>5. CASE TakeJob(w)
  <2>1. /\ UNCHANGED <<db, runs, started, at>> /\ queue # <<>> /\ queue' = Tail(queue)
        /\ job' = [job EXCEPT ![w] = Head(queue)] /\ pc' = [pc EXCEPT ![w] = "locking"]
        /\ SetSession(w, Loaded(db))
    BY <1>5 DEF TakeJob, Goto
  <2>2. JobsMeetVerdicts'
    BY <1>1, <1>2, <2>1, JobsStep DEF JobsMeetVerdicts
  <2>3. sess'[w] = Loaded(db) /\ \A q \in Writers \ {w} : sess'[q] = sess[q]
    BY <2>1, SessionSet
  <2>4. OwnRunsAreLater(w)' /\ KeepsAttrs(w)' /\ SucceedsWithAttrs(w)'
    BY <1>1, <2>1, <2>3, FreshSession
  <2>5. RunFacts(w)'
    BY <1>1, <2>1 DEF RunFacts
  <2>6. \A k \in Stage : started[k] <= started'[k]
    BY <1>1, <2>1
  <2>7. \A v \in Waiters \ {w} : pc'[v] = pc[v] /\ at'[v] = at[v] /\ job'[v] = job[v]
    BY <1>1, <2>1
  <2>8. QED
    BY <2>1, <2>2, <2>3, <2>4, <2>5, <2>6, <2>7, WorkerKeepsPassed
<1>6. CASE EnterLock(w)
  <2>1. /\ UNCHANGED <<db, runs, started, queue, sess, job>> /\ pc[w] = "locking"
        /\ at' = [at EXCEPT ![w] = job[w].from] /\ pc' = [pc EXCEPT ![w] = "checking"]
    BY <1>6 DEF EnterLock, Goto
  <2>2. JobsMeetVerdicts'
    BY <1>2, <2>1 DEF JobsMeetVerdicts
  <2>3. /\ pc'[w] = "checking" /\ at'[w] = job[w].from /\ job[w].from \in Stage
        /\ \A k \in Stage : k \in Nat
    BY <1>1, <2>1, StageFacts DEF Job
  <2>4. \A k \in Stage : sess[w].own[k] = NoRun
    BY <2>1 DEF HolderInv, WorkIsLocked, HasUncommittedRun, AtWork
  <2>5. BeforeStage(w)'
    <3>1. at'[w] >= job[w].from /\ ~(at'[w] > job[w].from)
      BY <2>3
    <3>2. QED
      BY <2>1, <2>3, <2>4, <3>1 DEF BeforeStage
  <2>6. \A k \in Stage : Halting(k) => job[w].from <= k
    BY <1>2 DEF JobsMeetVerdicts, MeetsVerdicts
  <2>7. \A k \in Stage : Halting(k) => ~(k < at'[w])
    BY <2>3, <2>6
  <2>8. BehindPassed(w)'
    BY <2>1, <2>4, <2>7 DEF BehindPassed, OwnPassed
  <2>9. RunFacts(w)'
    BY <2>3, <2>5, <2>8 DEF RunFacts
  <2>10. \A v \in Waiters \ {w} : pc'[v] = pc[v] /\ at'[v] = at[v] /\ job'[v] = job[v]
    BY <1>1, <2>1
  <2>11. QED
    BY <1>3, <2>1, <2>2, <2>9, <2>10, WorkerKeepsPassed
<1>7. CASE FinishJob(w)
  <2>1. /\ UNCHANGED <<db, runs, started, queue, sess>>
        /\ job' = [job EXCEPT ![w] = NoJob] /\ at' = [at EXCEPT ![w] = 1]
        /\ pc' = [pc EXCEPT ![w] = "idle"]
    BY <1>7 DEF FinishJob, Goto
  <2>2. JobsMeetVerdicts'
    BY <1>1, <1>2, <2>1, JobsStep DEF JobsMeetVerdicts
  <2>3. RunFacts(w)'
    BY <1>1, <2>1 DEF RunFacts
  <2>4. \A v \in Waiters \ {w} : pc'[v] = pc[v] /\ at'[v] = at[v] /\ job'[v] = job[v]
    BY <1>1, <2>1
  <2>5. QED
    BY <1>3, <2>1, <2>2, <2>3, <2>4, WorkerKeepsPassed
<1>8. QED
  BY <1>4, <1>5, <1>6, <1>7

\* The steps of a worker at a stage.
LEMMA WorkerStagePassed ==
    ASSUME TypeInv, TypeInv', PassedInv, NEW w \in Waiters,
           ReuseStage(w) \/ NeedStage(w) \/ StartRun(w) \/ ExecuteStage(w)
    PROVE  PassedInv'
<1>1. /\ pc \in [Writers -> Places] /\ at \in [Lockers -> Stage \cup {0}]
      /\ job \in [Waiters -> Job] /\ sess \in [Writers -> Session]
      /\ started \in [Stage -> Nat] /\ runs \in [Stage -> Run]
  BY DEF TypeInv, TypeOK
<1>2. /\ OwnRunsAreLater(w) /\ KeepsAttrs(w) /\ SucceedsWithAttrs(w) /\ RunFacts(w)
      /\ JobsMeetVerdicts /\ RunsAreInOrder
  BY SessionFacts DEF PassedInv
<1>3. at[w] \in Stage /\ at[w] \in Nat
  BY StageFacts, LockersAssumption DEF TypeInv, TypeOK, AtAStage
<1>4. /\ sess[w] \in Session /\ sess[w].cur \in Garment /\ sess[w].base \in Garment
      /\ sess[w].own \in [Stage -> Run] /\ job[w].from \in Stage
  BY <1>1 DEF Session, Job
<1>5. UNCHANGED <<db, runs, queue, job>>
  <2>1. CASE ReuseStage(w)
    BY <2>1, Zenon DEF ReuseStage
  <2>2. CASE NeedStage(w)
    BY <2>2, Zenon DEF NeedStage
  <2>3. CASE StartRun(w)
    BY <2>3, Zenon DEF StartRun
  <2>4. CASE ExecuteStage(w)
    BY <2>4, Zenon DEF ExecuteStage
  <2>5. QED
    BY <2>1, <2>2, <2>3, <2>4
<1>6. JobsMeetVerdicts'
  BY <1>2, <1>5 DEF JobsMeetVerdicts
<1>7. ASSUME NEW last \in BOOLEAN, LeaveStage(w, last)
      PROVE  /\ pc'[w] \in {"checking", "committing"}
             /\ pc'[w] = "checking" => ~last /\ at'[w] = at[w] + 1
             /\ pc'[w] = "committing" => at'[w] = at[w] /\ (last \/ at[w] = Len(Pipeline))
             /\ \A v \in Waiters \ {w} : pc'[v] = pc[v] /\ at'[v] = at[v]
  BY <1>1, <1>7 DEF LeaveStage, Goto
<1>8. \A k \in Stage : k <= Len(Pipeline) /\ k \in Nat
  BY StageFacts DEF Stage
<1>9. CASE ReuseStage(w)
  <2> DEFINE s == [sess[w] EXCEPT !.cur = AfterReuse(at[w], @)]
  <2>1. /\ pc[w] = "checking" /\ Passed(w, at[w]) /\ LeaveStage(w, FALSE)
        /\ sess' = [sess EXCEPT ![w] = s] /\ UNCHANGED started
    BY <1>1, <1>9 DEF ReuseStage, Passed
  <2>2. /\ s.cur = AfterReuse(at[w], sess[w].cur) /\ s.base = sess[w].base
        /\ s.written = sess[w].written /\ s.own = sess[w].own
    BY <1>4 DEF Session
  <2> HIDE DEF s
  <2>3. sess'[w] = s /\ \A p \in Writers \ {w} : sess'[p] = sess[p]
    BY <1>1, <2>1
  <2>4. s.cur.attrs = sess[w].cur.attrs /\ s.cur.status \notin Stopped
    BY <1>3, <1>4, <2>2, ReuseFacts
  <2>5. OwnRunsAreLater(w)' /\ KeepsAttrs(w)' /\ SucceedsWithAttrs(w)'
    BY <1>2, <1>5, <2>1, <2>2, <2>3, <2>4 DEF OwnRunsAreLater, KeepsAttrs, SucceedsWithAttrs
  <2>6. \A k \in Stage : Passed(w, k)' = Passed(w, k) /\ OwnPassed(w, k)' = OwnPassed(w, k)
    BY <1>5, <2>2, <2>3 DEF Passed, OwnPassed, MostRecentRun
  <2>7. BeforeStage(w) /\ BehindPassed(w)
    BY <1>2, <2>1 DEF RunFacts
  <2>8. FALSE \in BOOLEAN
    OBVIOUS
  <2>9. ASSUME pc'[w] = "checking" PROVE RunFacts(w)'
    <3>1. at'[w] = at[w] + 1
      BY <1>7, <2>1, <2>8, <2>9
    <3>2. BeforeStage(w)'
      BY <1>3, <1>4, <1>5, <1>8, <2>2, <2>3, <2>4, <2>7, <2>9, <3>1 DEF BeforeStage
    <3>3. BehindPassed(w)'
      <4> SUFFICES ASSUME NEW k \in Stage, Halting(k)
                   PROVE  (k < at'[w] => Passed(w, k)') /\ (k # at'[w] => OwnPassed(w, k)')
        BY DEF BehindPassed
      <4>1. k < at'[w] => Passed(w, k)
        BY <1>3, <1>8, <2>1, <2>7, <3>1 DEF BehindPassed
      <4>2. OwnPassed(w, k)
        BY <1>3, <1>8, <2>7 DEF BehindPassed, BeforeStage, OwnPassed
      <4>3. QED
        BY <2>6, <4>1, <4>2
    <3>4. QED
      BY <2>9, <3>2, <3>3 DEF RunFacts
  <2>10. ASSUME pc'[w] = "committing" PROVE RunFacts(w)'
    <3>1. at[w] = Len(Pipeline)
      BY <1>7, <2>1, <2>8, <2>10
    <3>2. \A k \in Stage : Halting(k) => Passed(w, k)
      BY <1>3, <1>8, <2>1, <2>7, <3>1 DEF BehindPassed
    <3>3. Ended(w)'
      BY <2>6, <3>2 DEF Ended
    <3>4. QED
      BY <2>10, <3>3 DEF RunFacts
  <2>11. RunFacts(w)'
    BY <1>7, <2>1, <2>8, <2>9, <2>10
  <2>12. \A v \in Waiters \ {w} : pc'[v] = pc[v] /\ at'[v] = at[v] /\ job'[v] = job[v]
    BY <1>5, <1>7, <2>1, <2>8
  <2>13. \A k \in Stage : started[k] <= started'[k]
    BY <1>1, <2>1
  <2>14. QED
    BY <1>5, <1>6, <2>3, <2>5, <2>11, <2>12, <2>13, WorkerKeepsPassed
<1>10. CASE NeedStage(w)
  <2>1. /\ pc[w] = "checking" /\ pc' = [pc EXCEPT ![w] = "flushing"]
        /\ UNCHANGED <<started, sess, at>>
        /\ ~Passed(w, at[w]) \/ job[w].force
    BY <1>10 DEF NeedStage, Goto, Passed
  <2>2. pc'[w] = "flushing" /\ BeforeStage(w) /\ BehindPassed(w)
    BY <1>1, <1>2, <2>1 DEF RunFacts
  <2>3. at[w] = job[w].from /\ Halting(at[w]) => db.status # Completed
    <3> SUFFICES ASSUME at[w] = job[w].from, Halting(at[w]) PROVE db.status # Completed
      OBVIOUS
    <3>1. ~job[w].force
      BY <1>2, <1>3 DEF JobsMeetVerdicts, MeetsVerdicts
    <3>2. sess[w].own[at[w]] = NoRun
      BY <1>3, <2>2 DEF BeforeStage
    <3>3. runs[at[w]].status # "SUCCEEDED"
      BY <1>2, <1>3, <2>1, <3>1, <3>2, MostRecent DEF Passed
    <3>4. QED
      BY <1>3, <3>3 DEF PassedInv, HasPassed
  <2>4. BeforeStage(w)'
    BY <1>5, <2>1, <2>2, <2>3 DEF BeforeStage
  <2>5. BehindPassed(w)'
    BY <1>5, <2>1, <2>2 DEF BehindPassed, Passed, OwnPassed, MostRecentRun
  <2>6. RunFacts(w)'
    BY <2>2, <2>4, <2>5 DEF RunFacts
  <2>7. OwnRunsAreLater(w)' /\ KeepsAttrs(w)' /\ SucceedsWithAttrs(w)'
    BY <1>2, <1>5, <2>1 DEF OwnRunsAreLater, KeepsAttrs, SucceedsWithAttrs
  <2>8. \A v \in Waiters \ {w} : pc'[v] = pc[v] /\ at'[v] = at[v] /\ job'[v] = job[v]
    BY <1>1, <1>5, <2>1
  <2>9. \A k \in Stage : started[k] <= started'[k]
    BY <1>1, <2>1
  <2>10. QED
    BY <1>5, <1>6, <2>1, <2>6, <2>7, <2>8, <2>9, WorkerKeepsPassed
<1>11. CASE StartRun(w)
  <2> DEFINE run == [status |-> "RUNNING", input |-> InputOf(at[w], sess[w].cur),
                     stamp |-> started'[at[w]]]
             s == [sess[w] EXCEPT !.base = sess[w].cur, !.written = @ \cup Dirty(w),
                                  !.own[at[w]] = run]
  <2>1. /\ pc[w] = "flushing" /\ pc' = [pc EXCEPT ![w] = "executing"] /\ UNCHANGED at
        /\ started' = [started EXCEPT ![at[w]] = started[at[w]] + 1]
        /\ SetSession(w, s)
    BY <1>11, Zenon DEF StartRun, Goto
  <2>2. run.status = "RUNNING" /\ run.stamp = started'[at[w]]
    OBVIOUS
  <2> HIDE DEF run
  <2>3. /\ s.cur = sess[w].cur /\ s.base = sess[w].cur
        /\ s.written = sess[w].written \cup Dirty(w)
        /\ s.own = [sess[w].own EXCEPT ![at[w]] = run]
    BY <1>4 DEF Session
  <2> HIDE DEF s
  <2>4. sess'[w] = s /\ \A p \in Writers \ {w} : sess'[p] = sess[p]
    BY <2>1, SessionSet
  <2>5. /\ s.own[at[w]] = run
        /\ \A k \in Stage : k # at[w] => s.own[k] = sess[w].own[k]
    BY <1>3, <1>4, <2>3
  <2>6. /\ started'[at[w]] = started[at[w]] + 1
        /\ \A k \in Stage : k # at[w] => started'[k] = started[k]
        /\ \A k \in Stage : started[k] \in Nat /\ runs[k].stamp \in Nat
        /\ \A k \in Stage : runs[k].stamp <= started[k]
    BY <1>1, <1>2, <1>3, <2>1 DEF Run, RunsAreInOrder
  <2>7. \A k \in Stage : started[k] <= started'[k]
    <3> SUFFICES ASSUME NEW k \in Stage PROVE started[k] <= started'[k]
      OBVIOUS
    <3>1. CASE k = at[w]
      BY <2>6, <3>1
    <3>2. CASE k # at[w]
      BY <2>6, <3>2
    <3>3. QED
      BY <3>1, <3>2
  <2>8. OwnRunsAreLater(w)'
    <3> SUFFICES ASSUME NEW k \in Stage
                 PROVE  /\ sess'[w].own[k].stamp <= started'[k]
                        /\ sess'[w].own[k] # NoRun => runs'[k].stamp < sess'[w].own[k].stamp
      BY DEF OwnRunsAreLater
    <3>1. CASE k = at[w]
      BY <1>3, <1>5, <2>2, <2>4, <2>5, <2>6, <3>1
    <3>2. CASE k # at[w]
      BY <1>2, <1>5, <2>4, <2>5, <2>6, <3>2 DEF OwnRunsAreLater
    <3>3. QED
      BY <3>1, <3>2
  <2>9. KeepsAttrs(w)'
    <3>1. "attrs" \notin Dirty(w) <=> sess[w].cur.attrs = sess[w].base.attrs
      BY DEF Dirty, Fields
    <3>2. QED
      BY <1>2, <1>5, <2>3, <2>4, <3>1 DEF KeepsAttrs
  <2>10. SucceedsWithAttrs(w)'
    BY <1>2, <2>2, <2>3, <2>4, <2>5 DEF SucceedsWithAttrs
  <2>11. pc'[w] = "executing" /\ BeforeStage(w) /\ BehindPassed(w)
    BY <1>1, <1>2, <2>1 DEF RunFacts
  <2>12. InStage(w)'
    <3>1. Halting(at[w]) => sess[w].cur.status \notin Stopped \/ db.status # Completed
      <4>1. at[w] = job[w].from \/ at[w] > job[w].from
        BY <1>3, <1>4, <1>8, <2>11 DEF BeforeStage
      <4>2. QED
        BY <2>1, <2>11, <4>1 DEF BeforeStage
    <3>2. at[w] >= job[w].from /\ \A k \in Stage : k > at[w] => s.own[k] = NoRun
      <4>1. \A k \in Stage : k > at[w] => k # at[w] /\ k >= at[w]
        BY <1>3, <1>8
      <4>2. QED
        BY <2>5, <2>11, <4>1 DEF BeforeStage
    <3>3. at'[w] = at[w] /\ job'[w] = job[w] /\ db' = db
      BY <1>5, <2>1
    <3>4. sess'[w].own[at[w]].status = "RUNNING" /\ sess'[w].base = sess[w].cur
      BY <2>2, <2>3, <2>4, <2>5
    <3>5. QED
      BY <2>4, <3>1, <3>2, <3>3, <3>4 DEF InStage
  <2>13. BehindPassed(w)'
    <3> SUFFICES ASSUME NEW k \in Stage, Halting(k)
                 PROVE  (k < at[w] => Passed(w, k)') /\ (k # at[w] => OwnPassed(w, k)')
      BY <2>1 DEF BehindPassed
    <3>1. k < at[w] => k # at[w] /\ Passed(w, k)
      BY <1>3, <1>8, <2>11 DEF BehindPassed
    <3>2. k # at[w] => /\ OwnPassed(w, k)
                       /\ Passed(w, k)' = Passed(w, k) /\ OwnPassed(w, k)' = OwnPassed(w, k)
      BY <1>5, <2>4, <2>5, <2>11 DEF BehindPassed, Passed, OwnPassed, MostRecentRun
    <3>3. QED
      BY <3>1, <3>2
  <2>14. RunFacts(w)'
    BY <2>11, <2>12, <2>13 DEF RunFacts
  <2>15. \A v \in Waiters \ {w} : pc'[v] = pc[v] /\ at'[v] = at[v] /\ job'[v] = job[v]
    BY <1>1, <1>5, <2>1
  <2>16. QED
    BY <1>5, <1>6, <2>4, <2>7, <2>8, <2>9, <2>10, <2>14, <2>15, WorkerKeepsPassed
<1>12. CASE ExecuteStage(w)
  <2>1. /\ pc[w] = "executing" /\ UNCHANGED started
    BY <1>12, Zenon DEF ExecuteStage
  <2>2. PICK r \in StageResults(at[w], sess[w].cur) :
             /\ SetSession(w, [sess[w] EXCEPT !.cur = AfterRunStage(at[w], r),
                                              !.own[at[w]].status = RecordedStatus(r)])
             /\ LeaveStage(w, StopsRun(at[w], r))
    BY <1>12 DEF ExecuteStage
  <2> DEFINE s == [sess[w] EXCEPT !.cur = AfterRunStage(at[w], r),
                                  !.own[at[w]].status = RecordedStatus(r)]
             g == AfterRunStage(at[w], r)
  <2>3. /\ s.cur = g /\ s.base = sess[w].base /\ s.written = sess[w].written
        /\ s.own = [sess[w].own EXCEPT ![at[w]].status = RecordedStatus(r)]
    BY <1>4 DEF Session
  <2>4. SetSession(w, s)
    BY <2>2
  <2> HIDE DEF s
  <2>5. sess'[w] = s /\ \A p \in Writers \ {w} : sess'[p] = sess[p]
    BY <2>4, SessionSet
  <2>6. /\ s.own[at[w]] = [sess[w].own[at[w]] EXCEPT !.status = RecordedStatus(r)]
        /\ \A k \in Stage : k # at[w] => s.own[k] = sess[w].own[k]
    BY <1>3, <1>4, <2>3
  <2>7. /\ s.own[at[w]].status = RecordedStatus(r)
        /\ s.own[at[w]].stamp = sess[w].own[at[w]].stamp
    <3>1. sess[w].own[at[w]] \in Run
      BY <1>3, <1>4
    <3>2. \A t : \A x \in Run : /\ [x EXCEPT !.status = t].status = t
                                 /\ [x EXCEPT !.status = t].stamp = x.stamp
      BY DEF Run
    <3>3. QED
      BY <2>6, <3>1, <3>2
  <2>8. r \in Result
    BY <1>3, <1>4, ResultsTyped
  <2>9. /\ g.attrs = r.garment.attrs
        /\ g.status = at[w] \/ StopsRun(at[w], r)
        /\ StopsRun(at[w], r) => g.status \in Stopped
        /\ ~StopsRun(at[w], r) /\ Halting(at[w]) => r.status = "SUCCEEDED"
        /\ at[w] \notin Stopped
    BY <1>3, <2>8, TransitionFacts
  <2>10. /\ g.attrs \in Attrs \cup {sess[w].cur.attrs}
         /\ Pipeline[at[w]] = "ATTRIBUTES" /\ r.status = "SUCCEEDED" => g.attrs \in Attrs
    BY <1>3, <1>4, <2>9, ResultAttrs
  <2> HIDE DEF g
  <2>11. NoAttrs \notin Attrs
    BY StagesAssumption
  <2>12. RecordedStatus(r) = "SUCCEEDED" <=> r.status = "SUCCEEDED"
    BY <2>8 DEF RecordedStatus, Result, RunStatus
  <2>13. InStage(w) /\ BehindPassed(w)
    BY <1>2, <2>1 DEF RunFacts
  <2>14. /\ sess[w].own[at[w]] # NoRun /\ runs[at[w]].stamp < s.own[at[w]].stamp
    BY <1>2, <1>3, <2>7, <2>13 DEF InStage, NoRun, OwnRunsAreLater
  <2>15. OwnRunsAreLater(w)'
    <3> SUFFICES ASSUME NEW k \in Stage
                 PROVE  /\ sess'[w].own[k].stamp <= started'[k]
                        /\ sess'[w].own[k] # NoRun => runs'[k].stamp < sess'[w].own[k].stamp
      BY DEF OwnRunsAreLater
    <3>1. CASE k = at[w]
      BY <1>2, <1>5, <2>1, <2>5, <2>7, <2>14, <3>1 DEF OwnRunsAreLater
    <3>2. CASE k # at[w]
      BY <1>2, <1>5, <2>1, <2>5, <2>6, <3>2 DEF OwnRunsAreLater
    <3>3. QED
      BY <3>1, <3>2
  <2>16. KeepsAttrs(w)'
    BY <1>2, <1>5, <2>3, <2>5, <2>10, <2>11 DEF KeepsAttrs
  <2>17. SucceedsWithAttrs(w)'
    <3> SUFFICES ASSUME NEW k \in Stage, Pipeline[k] = "ATTRIBUTES",
                        s.own[k].status = "SUCCEEDED"
                 PROVE  g.attrs # NoAttrs
      BY <2>3, <2>5 DEF SucceedsWithAttrs
    <3>1. CASE k = at[w]
      BY <2>7, <2>10, <2>11, <2>12, <3>1
    <3>2. CASE k # at[w]
      BY <1>2, <2>6, <2>10, <2>11, <3>2 DEF SucceedsWithAttrs
    <3>3. QED
      BY <3>1, <3>2
  <2>18. \A k \in Stage : k # at[w] => /\ Passed(w, k)' = Passed(w, k)
                                       /\ OwnPassed(w, k)' = OwnPassed(w, k)
    BY <1>5, <2>5, <2>6 DEF Passed, OwnPassed, MostRecentRun
  <2>19. \A k \in Stage : k = at[w] /\ r.status = "SUCCEEDED"
                              => Passed(w, k)' /\ OwnPassed(w, k)'
    <3>1. Later(runs[at[w]], s.own[at[w]]) = s.own[at[w]]
      BY <2>14 DEF Later
    <3>2. QED
      BY <1>5, <2>5, <2>7, <2>12, <3>1 DEF Passed, OwnPassed, MostRecentRun
  <2>20. StopsRun(at[w], r) \in BOOLEAN
    BY DEF StopsRun
  <2>21. ASSUME pc'[w] = "checking" PROVE RunFacts(w)'
    <3>1. ~StopsRun(at[w], r) /\ at'[w] = at[w] + 1
      BY <1>7, <2>2, <2>20, <2>21
    <3>2. BeforeStage(w)'
      <4>1. at'[w] >= job[w].from
        BY <1>3, <1>4, <1>8, <2>13, <3>1 DEF InStage
      <4>2. \A k \in Stage : k >= at'[w] => k > at[w] /\ k # at[w]
        BY <1>3, <1>8, <3>1
      <4>3. g.status \notin Stopped
        BY <2>9, <3>1
      <4>4. sess'[w].cur = g /\ job' = job
        BY <1>5, <2>3, <2>5
      <4>5. \A k \in Stage : k >= at'[w] => sess'[w].own[k] = NoRun
        BY <2>5, <2>6, <2>13, <4>2 DEF InStage
      <4>6. QED
        BY <2>21, <4>1, <4>3, <4>4, <4>5 DEF BeforeStage
    <3>3. BehindPassed(w)'
      <4> SUFFICES ASSUME NEW k \in Stage, Halting(k)
                   PROVE  (k < at'[w] => Passed(w, k)') /\ (k # at'[w] => OwnPassed(w, k)')
        BY DEF BehindPassed
      <4>1. CASE k = at[w]
        BY <2>9, <2>19, <3>1, <4>1
      <4>2. CASE k # at[w]
        <5>1. k < at'[w] => k < at[w]
          BY <1>3, <1>8, <3>1, <4>2
        <5>2. QED
          BY <2>13, <2>18, <4>2, <5>1 DEF BehindPassed
      <4>3. QED
        BY <4>1, <4>2
    <3>4. QED
      BY <2>21, <3>2, <3>3 DEF RunFacts
  <2>22. ASSUME pc'[w] = "committing" PROVE RunFacts(w)'
    <3>1. StopsRun(at[w], r) \/ at[w] = Len(Pipeline)
      BY <1>7, <2>2, <2>20, <2>22
    <3>2. CASE ~StopsRun(at[w], r)
      <4>1. ASSUME NEW k \in Stage, Halting(k) PROVE Passed(w, k)'
        <5>1. CASE k = at[w]
          BY <2>9, <2>19, <3>2, <4>1, <5>1
        <5>2. CASE k # at[w]
          <6>1. k < at[w]
            BY <1>3, <1>8, <3>1, <3>2, <5>2
          <6>2. QED
            BY <2>13, <2>18, <4>1, <5>2, <6>1 DEF BehindPassed
        <5>3. QED
          BY <5>1, <5>2
      <4>2. Ended(w)'
        BY <4>1 DEF Ended
      <4>3. QED
        BY <2>22, <4>2 DEF RunFacts
    <3>3. CASE StopsRun(at[w], r) /\ Halting(at[w])
      <4>1. sess'[w].cur.status \in Stopped
        BY <2>3, <2>5, <2>9, <3>3
      <4>2. sess'[w].base.status \notin Stopped \/ db'.status # Completed
        BY <1>5, <2>3, <2>5, <2>13, <3>3 DEF InStage
      <4>3. Ended(w)'
        BY <4>1, <4>2 DEF Ended
      <4>4. QED
        BY <2>22, <4>3 DEF RunFacts
    <3>4. CASE StopsRun(at[w], r) /\ ~Halting(at[w])
      <4>1. sess'[w].cur.status \in Stopped
        BY <2>3, <2>5, <2>9, <3>4
      <4>2. \A k \in Stage : Halting(k) => OwnPassed(w, k)'
        BY <2>13, <2>18, <3>4 DEF BehindPassed
      <4>3. Ended(w)'
        BY <4>1, <4>2 DEF Ended
      <4>4. QED
        BY <2>22, <4>3 DEF RunFacts
    <3>5. QED
      BY <3>2, <3>3, <3>4
  <2>23. RunFacts(w)'
    BY <1>7, <2>2, <2>20, <2>21, <2>22
  <2>24. \A v \in Waiters \ {w} : pc'[v] = pc[v] /\ at'[v] = at[v] /\ job'[v] = job[v]
    BY <1>5, <1>7, <2>2, <2>20
  <2>25. \A k \in Stage : started[k] <= started'[k]
    BY <1>1, <2>1
  <2>26. QED
    BY <1>5, <1>6, <2>5, <2>15, <2>16, <2>17, <2>23, <2>24, <2>25, WorkerKeepsPassed
<1>13. QED
  BY <1>9, <1>10, <1>11, <1>12

\* A step that commits no run: each session keeps its place or is seen to.
LEMMA OthersKeepPassed ==
    ASSUME TypeInv, PassedInv, UNCHANGED <<runs, started>>, JobsMeetVerdicts',
           db'.status \in {db.status, Failed}, db.attrs # NoAttrs => db'.attrs # NoAttrs,
           \A p \in Writers : sess'[p] = sess[p] \/ KeepsAttrs(p)',
           \A w \in Waiters :
               \/ /\ sess'[w] = sess[w] /\ pc'[w] = pc[w]
                  /\ at'[w] = at[w] /\ job'[w] = job[w]
               \/ OwnRunsAreLater(w)' /\ SucceedsWithAttrs(w)' /\ RunFacts(w)'
    PROVE  PassedInv'
<1>1. Failed # Completed
  BY StageFacts DEF Failed, Completed
<1>2. HasPassed'
  BY <1>1 DEF PassedInv, HasPassed
<1>3. ASSUME NEW w \in Waiters
      PROVE  OwnRunsAreLater(w)' /\ SucceedsWithAttrs(w)' /\ RunFacts(w)'
  <2>1. OwnRunsAreLater(w) /\ SucceedsWithAttrs(w) /\ RunFacts(w)
    BY SessionFacts
  <2>2. CASE /\ sess'[w] = sess[w] /\ pc'[w] = pc[w]
             /\ at'[w] = at[w] /\ job'[w] = job[w]
    <3>1. RunFacts(w)'
      BY <1>1, <2>1, <2>2, RunFactsKeep
    <3>2. QED
      BY <2>1, <2>2, <3>1 DEF OwnRunsAreLater, SucceedsWithAttrs
  <2>3. QED
    BY <2>2
<1>4. RunsAreInOrder'
  BY <1>3 DEF PassedInv, RunsAreInOrder, OwnRunsAreLater
<1>5. AttrsStay'
  BY DEF PassedInv, AttrsStay, KeepsAttrs
<1>6. AttrsMade'
  BY <1>3 DEF PassedInv, AttrsMade, SucceedsWithAttrs
<1>7. QED
  BY <1>2, <1>3, <1>4, <1>5, <1>6 DEF PassedInv

\* What a commit makes of the attributes: once there, always there.
LEMMA CommitKeepsAttrs ==
    ASSUME PassedInv, NEW p \in Writers, CommitSession(p)
    PROVE  db.attrs # NoAttrs \/ sess[p].cur.attrs # NoAttrs => db'.attrs # NoAttrs
<1>1. db'.attrs = IF "attrs" \in sess[p].written \cup Dirty(p)
                  THEN sess[p].cur.attrs ELSE db.attrs
  BY DEF CommitSession, Fields
<1>2. "attrs" \in Dirty(p) <=> sess[p].cur.attrs # sess[p].base.attrs
  BY DEF Dirty, Fields
<1>3. KeepsAttrs(p)
  BY SessionFacts
<1>4. QED
  BY <1>1, <1>2, <1>3 DEF KeepsAttrs

\* A commit of a worker's run: the other workers have none, and the garment is
\* COMPLETED only when every halting stage has passed.
LEMMA CommitPassed ==
    ASSUME HasAttributesStage, TypeInv, TypeInv', HolderInv, PassedInv,
           NEW w \in Waiters, CommitRun(w)
    PROVE  PassedInv'
<1>1. /\ pc \in [Writers -> Places] /\ sess \in [Writers -> Session]
      /\ runs \in [Stage -> Run] /\ started \in [Stage -> Nat] /\ db \in Garment
  BY DEF TypeInv, TypeOK
<1>2. /\ pc[w] = "committing" /\ CommitSession(w) /\ SetSession(w, NoSession)
      /\ pc' = [pc EXCEPT ![w] = "releasing"] /\ UNCHANGED <<started, queue, job, at>>
  BY DEF CommitRun, Goto
<1>3. /\ OwnRunsAreLater(w) /\ KeepsAttrs(w) /\ SucceedsWithAttrs(w) /\ Ended(w)
  BY <1>2, SessionFacts DEF RunFacts
<1>4. /\ sess'[w] = NoSession /\ \A p \in Writers \ {w} : sess'[p] = sess[p]
  BY <1>2, SessionSet
<1>5. \A v \in Waiters \ {w} : pc[v] \notin AtWork /\ \A k \in Stage : sess[v].own[k] = NoRun
  <2>1. Executing(w)
    BY <1>2 DEF HolderInv, WorkIsLocked, AtWork
  <2>2. \A v \in Waiters \ {w} : ~Executing(v)
    BY <2>1 DEF HolderInv, HolderHasKey
  <2>3. QED
    BY <2>2 DEF HolderInv, WorkIsLocked, HasUncommittedRun
<1>6. \A k \in Stage : runs'[k] = MostRecentRun(w, k)
  BY <1>2 DEF CommitSession, MostRecentRun
<1>7. /\ NoRun.stamp = 0 /\ NoRun.status = "NONE"
      /\ \A v \in Waiters, k \in Stage : sess'[v].own[k] = NoRun
  BY <1>4, <1>5 DEF NoSession, Loaded, NoRun
<1>8. ASSUME NEW k \in Stage
      PROVE  \/ runs'[k] = runs[k] /\ sess[w].own[k] = NoRun
             \/ runs'[k] = sess[w].own[k] /\ sess[w].own[k] # NoRun
  BY <1>6, MostRecent DEF PassedInv
<1>9. JobsMeetVerdicts'
  BY <1>2 DEF PassedInv, JobsMeetVerdicts
<1>10. RunsAreInOrder'
  <2> SUFFICES ASSUME NEW k \in Stage
               PROVE  runs'[k].stamp <= started'[k] /\ 0 <= started'[k]
    BY <1>7 DEF RunsAreInOrder
  <2>1. started'[k] = started[k] /\ started[k] \in Nat
    BY <1>1, <1>2
  <2>2. runs[k].stamp <= started[k] /\ sess[w].own[k].stamp <= started[k]
    BY <1>3 DEF PassedInv, RunsAreInOrder, OwnRunsAreLater
  <2>3. QED
    BY <1>8, <2>1, <2>2
<1>11. db.attrs # NoAttrs \/ sess[w].cur.attrs # NoAttrs => db'.attrs # NoAttrs
  BY <1>2, CommitKeepsAttrs
<1>12. AttrsStay'
  <2>1. NoSession.cur.attrs = NoAttrs /\ NoSession.base.attrs = NoAttrs
        /\ NoSession.written = {}
    BY DEF NoSession, Loaded, BlankGarment
  <2>2. QED
    BY <1>4, <1>11, <2>1 DEF PassedInv, AttrsStay
<1>13. AttrsMade'
  <2>1. ASSUME NEW k \in Stage, Pipeline[k] = "ATTRIBUTES", runs'[k].status = "SUCCEEDED"
        PROVE  db'.attrs # NoAttrs
    <3>1. CASE runs'[k] = runs[k]
      BY <1>11, <2>1, <3>1 DEF PassedInv, AttrsMade
    <3>2. CASE runs'[k] = sess[w].own[k]
      BY <1>3, <1>11, <2>1, <3>2 DEF SucceedsWithAttrs
    <3>3. QED
      BY <1>8, <3>1, <3>2
  <2>2. QED
    BY <1>7, <2>1 DEF AttrsMade
<1>14. HasPassed'
  <2> SUFFICES ASSUME db'.status = Completed
               PROVE  db'.attrs # NoAttrs /\ \A k \in Stage : Halting(k)
                                                 => runs'[k].status = "SUCCEEDED"
    BY DEF HasPassed
  <2>1. db'.status = IF "status" \in sess[w].written \cup Dirty(w)
                     THEN sess[w].cur.status ELSE db.status
    BY <1>2 DEF CommitSession, Fields
  <2>2. "status" \in Dirty(w) <=> sess[w].cur.status # sess[w].base.status
    BY DEF Dirty, Fields
  <2>3. Completed \notin Stopped
    BY StageFacts DEF Stopped, Failed, ReviewRequired, Completed
  <2>4. sess[w].cur.status \in Stopped
            => db.status = Completed /\ sess[w].base.status = sess[w].cur.status
    BY <2>1, <2>2, <2>3
  <2>5. ASSUME NEW k \in Stage, Halting(k) PROVE runs'[k].status = "SUCCEEDED"
    <3>1. CASE Passed(w, k)
      BY <1>6, <3>1 DEF Passed
    <3>2. CASE sess[w].cur.status \in Stopped /\ OwnPassed(w, k)
      <4>1. runs[k].status = "SUCCEEDED"
        BY <2>4, <2>5, <3>2 DEF PassedInv, HasPassed
      <4>2. QED
        BY <1>8, <3>2, <4>1 DEF OwnPassed
    <3>3. QED
      BY <1>3, <2>4, <2>5, <3>1, <3>2 DEF Ended
  <2>6. PICK k \in Stage : Pipeline[k] = "ATTRIBUTES"
    BY DEF HasAttributesStage
  <2>7. runs'[k].status = "SUCCEEDED"
    BY <2>5, <2>6 DEF Halting
  <2>8. db'.attrs # NoAttrs
    BY <1>13, <2>6, <2>7 DEF AttrsMade
  <2>9. QED
    BY <2>5, <2>8
<1>15. ASSUME NEW v \in Waiters PROVE RunFacts(v)'
  <2>1. pc'[v] \notin AtWork
    BY <1>1, <1>2, <1>5 DEF AtWork
  <2>2. QED
    BY <2>1 DEF RunFacts, AtWork
<1>16. QED
  BY <1>9, <1>10, <1>12, <1>13, <1>14, <1>15 DEF PassedInv

\* A reviewer's request loads the row and touches no attributes; its commit adds
\* no run and cannot complete the garment.
LEMMA ReviewerPassed ==
    ASSUME EveryJobMeetsVerdicts, TypeInv, VerdictInv, PassedInv, NEW r \in Reviewers,
           ReviewArrives(r) \/ ReviewSaves(r)
    PROVE  PassedInv'
<1>1. sess \in [Writers -> Session] /\ pc \in [Writers -> Places] /\ db \in Garment
  BY DEF TypeInv, TypeOK
<1>2. \A w \in Waiters : w # r
  BY PipelineAssumption
<1>3. /\ UNCHANGED <<started, job, at>> /\ \A w \in Waiters : pc'[w] = pc[w]
  BY <1>1, <1>2 DEF ReviewArrives, ReviewSaves, Goto
<1>4. JobsMeetVerdicts
  BY DEF PassedInv
<1>5. CASE ReviewArrives(r)
  <2>1. UNCHANGED <<db, runs>> /\ (Approve(r) \/ Reject(r))
    BY <1>5 DEF ReviewArrives, Override, EveryJobMeetsVerdicts
  <2>2. JobsMeetVerdicts'
    <3>1. NewJob(FALSE, 1) \in Job
      BY StageFacts DEF NewJob, Job
    <3>2. queue' = queue \/ queue' = Append(queue, NewJob(FALSE, 1))
      BY <2>1 DEF Approve, Reject, Enqueue
    <3>3. QED
      BY <1>3, <1>4, <3>1, <3>2, JobsStep DEF JobsMeetVerdicts
  <2>3. PICK s : /\ SetSession(r, s) /\ s.written = {}
                 /\ s.base.attrs = db.attrs /\ s.cur.attrs = db.attrs
    <3>1. CASE Approve(r)
      BY <1>1, <3>1 DEF Approve, Loaded, Garment
    <3>2. CASE Reject(r)
      <4> DEFINE t == [Loaded(db) EXCEPT !.cur.quality = "REJECTED", !.cur.status = Failed]
      <4>1. SetSession(r, t)
        BY <3>2 DEF Reject
      <4>2. t.written = {} /\ t.base.attrs = db.attrs /\ t.cur.attrs = db.attrs
        BY <1>1 DEF Loaded, Garment
      <4> HIDE DEF t
      <4>3. QED
        BY <4>1, <4>2
    <3>3. QED
      BY <2>1, <3>1, <3>2
  <2>4. sess'[r] = s /\ \A q \in Writers \ {r} : sess'[q] = sess[q]
    BY <2>3, SessionSet
  <2>5. KeepsAttrs(r)'
    BY <2>1, <2>3, <2>4 DEF KeepsAttrs
  <2>6. QED
    BY <1>2, <1>3, <2>1, <2>2, <2>4, <2>5, OthersKeepPassed
<1>6. CASE ReviewSaves(r)
  <2>1. db'.status \in {db.status, Failed} /\ runs' = runs
    BY <1>6, ReviewLeavesVerdict
  <2>2. CommitSession(r) /\ SetSession(r, NoSession) /\ UNCHANGED queue
    BY <1>6 DEF ReviewSaves
  <2>3. db.attrs # NoAttrs => db'.attrs # NoAttrs
    BY <2>2, CommitKeepsAttrs
  <2>4. sess'[r] = NoSession /\ \A q \in Writers \ {r} : sess'[q] = sess[q]
    BY <2>2, SessionSet
  <2>5. KeepsAttrs(r)'
    BY <2>4 DEF KeepsAttrs, NoSession, Loaded, BlankGarment
  <2>6. JobsMeetVerdicts'
    BY <1>3, <1>4, <2>2 DEF JobsMeetVerdicts
  <2>7. QED
    BY <1>2, <1>3, <2>1, <2>3, <2>4, <2>5, <2>6, OthersKeepPassed
<1>7. QED
  BY <1>5, <1>6

\* Crashes, retries and the lock's expiry.
LEMMA EnvironmentPassed ==
    ASSUME Callers = {}, EveryJobMeetsVerdicts, TypeInv, PassedInv,
           \/ \E p \in Lockers : Crash(p)
           \/ RetryRequest \/ LockExpires \/ UNCHANGED vars
    PROVE  PassedInv'
<1>1. /\ pc \in [Writers -> Places] /\ at \in [Lockers -> Stage \cup {0}]
      /\ job \in [Waiters -> Job] /\ sess \in [Writers -> Session] /\ db \in Garment
      /\ \A k \in Stage : started[k] \in Nat
  BY DEF TypeInv, TypeOK
<1>2. JobsMeetVerdicts
  BY DEF PassedInv
<1>3. ASSUME NEW p \in Lockers, Crash(p) PROVE PassedInv'
  <2>1. /\ UNCHANGED <<db, runs, started, queue>> /\ SetSession(p, NoSession)
        /\ pc' = [pc EXCEPT ![p] = "idle"] /\ at' = [at EXCEPT ![p] = 1]
        /\ job' = [w \in Waiters |-> IF w = p THEN NoJob ELSE job[w]] /\ p \in Waiters
    BY <1>3 DEF Crash, Goto
  <2>2. JobsMeetVerdicts'
    BY <1>2, <2>1, JobsStep DEF JobsMeetVerdicts
  <2>3. sess'[p] = NoSession /\ \A q \in Writers \ {p} : sess'[q] = sess[q]
    BY <2>1, SessionSet
  <2>4. BlankGarment \in Garment /\ BlankGarment.attrs = NoAttrs
    BY StageFacts DEF BlankGarment, Garment, Quality
  <2>5. OwnRunsAreLater(p)' /\ KeepsAttrs(p)' /\ SucceedsWithAttrs(p)'
    BY <1>1, <2>1, <2>3, <2>4, FreshSession DEF NoSession
  <2>6. RunFacts(p)'
    BY <1>1, <2>1 DEF RunFacts
  <2>7. \A w \in Waiters \ {p} : pc'[w] = pc[w] /\ at'[w] = at[w] /\ job'[w] = job[w]
    BY <1>1, <2>1
  <2>8. QED
    BY <2>1, <2>2, <2>3, <2>5, <2>6, <2>7, OthersKeepPassed
<1>4. CASE RetryRequest
  <2>1. UNCHANGED <<db, runs, started, pc, sess, job, at>>
    BY <1>4 DEF RetryRequest
  <2>2. PICK force \in Forces, k \in RetryStages :
          queue' = Append(queue, NewJob(force, k))
    BY <1>4 DEF RetryRequest, Enqueue
  <2>3. MeetsVerdicts(NewJob(force, k)) /\ NewJob(force, k) \in Job
    BY PipelineAssumption DEF EveryJobMeetsVerdicts, NewJob, Job
  <2>4. JobsMeetVerdicts'
    BY <1>2, <2>1, <2>2, <2>3, JobsStep DEF JobsMeetVerdicts
  <2>5. QED
    BY <2>1, <2>4, OthersKeepPassed
<1>5. CASE LockExpires \/ UNCHANGED vars
  <2>1. UNCHANGED <<db, runs, started, queue, pc, sess, job, at>>
    BY <1>5 DEF LockExpires, vars
  <2>2. JobsMeetVerdicts'
    BY <1>2, <2>1 DEF JobsMeetVerdicts
  <2>3. QED
    BY <2>1, <2>2, OthersKeepPassed
<1>6. QED
  BY <1>3, <1>4, <1>5

\* The garment starts neither COMPLETED nor with a session or a run.
LEMMA PassedInit ==
    ASSUME EveryJobMeetsVerdicts, Init PROVE PassedInv
<1>1. /\ \A p \in Writers : sess[p] = NoSession /\ pc[p] = "idle"
      /\ \A k \in Stage : runs[k] = NoRun /\ started[k] = 0
      /\ \A w \in Waiters : job[w] = NoJob
  BY DEF Init
<1>2. db.status # Completed
  <2>1. Uploaded.status # Completed
    BY StageFacts DEF Uploaded, Received, Completed
  <2>2. \A k \in Stage : k + 1 \in Stage => Spawned(k).status # Completed
    BY StageFacts DEF Spawned, Completed, Stage
  <2>3. QED
    BY <2>1, <2>2 DEF Init, SpawnStages
<1>3. JobsMeetVerdicts
  <2>1. \E j \in {i \in Job : MeetsVerdicts(i)} : queue = <<j>>
    <3>1. CASE queue = <<NewJob(FALSE, 1)>>
      <4>1. NewJob(FALSE, 1) \in Job /\ MeetsVerdicts(NewJob(FALSE, 1))
        BY StageFacts DEF NewJob, Job, MeetsVerdicts, Stage
      <4>2. QED
        BY <3>1, <4>1
    <3>2. CASE /\ "sibling" \in Origins
               /\ \E k \in SpawnStages : k + 1 \in Stage /\ queue = <<NewJob(FALSE, k + 1)>>
      BY <3>2 DEF EveryJobMeetsVerdicts, NewJob, Job
    <3>3. QED
      BY <3>1, <3>2 DEF Init
  <2> DEFINE Good == {i \in Job : MeetsVerdicts(i)}
  <2>2. queue \in Seq(Good)
    <3> HIDE DEF Good
    <3>1. \E j \in Good : queue = <<j>>
      BY <2>1 DEF Good
    <3>2. QED
      BY <3>1
  <2>3. MeetsVerdicts(NoJob)
    BY StageFacts DEF MeetsVerdicts, NoJob, NewJob, Stage
  <2>4. QED
    BY <1>1, <2>2, <2>3 DEF JobsMeetVerdicts
<1>4. /\ NoRun.stamp = 0 /\ NoRun.status = "NONE" /\ NoSession.written = {}
      /\ NoSession.base.attrs = NoAttrs /\ \A k \in Stage : NoSession.own[k] = NoRun
  BY DEF NoRun, NoSession, Loaded, BlankGarment
<1>5. RunsAreInOrder /\ AttrsStay /\ AttrsMade
  BY <1>1, <1>4 DEF RunsAreInOrder, AttrsStay, AttrsMade
<1>6. QED
  BY <1>1, <1>2, <1>3, <1>5 DEF PassedInv, HasPassed, RunFacts

(***************************************************************************)
(* What the styling catalogue reads has passed.  For any pipeline with an   *)
(* attributes stage, any number of workers, reviewers, plain retries and    *)
(* crashes, with jobs that meet every stage that may halt them and a lock   *)
(* that holds: a garment that is COMPLETED has attributes, and the last run *)
(* committed for every such stage is a success, although each worker loads  *)
(* its copy of the garment before it waits for the lock and writes only     *)
(* what differs from that copy.                                             *)
(***************************************************************************)
THEOREM CompletedGarmentsPassed ==
    ASSUME Callers = {}, ~MayExpire, ~MayGiveUp,
           EveryJobMeetsVerdicts, HasAttributesStage
    PROVE  Spec => []CompletedHasPassed
<1> DEFINE Inv == TypeInv /\ HolderInv /\ VerdictInv /\ PassedInv
<1>1. Init => Inv
  BY TypeInit, HolderInit, VerdictInit, PassedInit
<1>2. Inv /\ [Next]_vars => Inv'
  <2> SUFFICES ASSUME Inv, [Next]_vars PROVE Inv'
    OBVIOUS
  <2>1. TypeInv' /\ HolderInv' /\ VerdictInv'
    BY TypeStep, HolderStep, VerdictStep
  <2>2. CASE \E w \in Waiters : Worker(w) \/ PollEmptyQueue(w)
    <3>1. PICK w \in Waiters : Worker(w) \/ PollEmptyQueue(w)
      BY <2>2
    <3>2. CASE \/ PollEmptyQueue(w) \/ TakeJob(w) \/ EnterLock(w) \/ WaitForLock(w)
               \/ FinishJob(w)
      BY <2>1, <3>2, WorkerOutsidePassed
    <3>3. CASE ReuseStage(w) \/ NeedStage(w) \/ StartRun(w) \/ ExecuteStage(w)
      BY <2>1, <3>3, WorkerStagePassed
    <3>4. CASE CommitRun(w)
      BY <2>1, <3>4, CommitPassed
    <3>5. PassedInv'
      BY <3>1, <3>2, <3>3, <3>4 DEF Worker
    <3>6. QED
      BY <2>1, <3>5
  <2>3. CASE \E r \in Reviewers : ReviewArrives(r) \/ ReviewSaves(r)
    BY <2>1, <2>3, ReviewerPassed
  <2>4. CASE \/ \E p \in Lockers : Crash(p)
             \/ RetryRequest \/ LockExpires \/ UNCHANGED vars
    BY <2>1, <2>4, EnvironmentPassed
  <2>5. QED
    BY <2>2, <2>3, <2>4 DEF Next
<1>3. Inv => CompletedHasPassed
  BY DEF PassedInv, CompletedHasPassed
<1>4. QED
  BY <1>1, <1>2, <1>3, PTL DEF Spec

(***************************************************************************)
(* The same of the code's nine stages, where stage 3 makes attributes and   *)
(* stages 3 and 5 may halt: uploads, siblings, approvals and retries are    *)
(* such jobs, unless a retry is forced at stage 3 or starts behind it.      *)
(***************************************************************************)
THEOREM NineStagesPassed ==
    ASSUME Pipeline = Nine, Callers = {}, ~MayExpire, ~MayGiveUp,
           "OVERRIDE" \notin Decisions,
           \A k \in RetryStages : k <= 3 /\ (k = 3 => TRUE \notin Forces)
    PROVE  Spec => []CompletedHasPassed
<1>1. /\ Stage = 1..9 /\ Pipeline[2] = "CROP" /\ Pipeline[3] = "ATTRIBUTES"
      /\ \A k \in Stage : Halting(k) <=> k \in {3, 5}
      /\ \A k \in Stage : Pipeline[k] = "CROP" <=> k = 2
  <2>1. Len(Pipeline) = 9 /\ Stage = 1..9
    BY DEF Nine, Stage
  <2>2. /\ Pipeline[1] = "CLASSIFY" /\ Pipeline[2] = "CROP" /\ Pipeline[3] = "ATTRIBUTES"
        /\ Pipeline[4] = "DIGITISE" /\ Pipeline[5] = "EMBED" /\ Pipeline[6] = "CATEGORY"
        /\ Pipeline[7] = "LAYERING" /\ Pipeline[8] = "STRUCTURE" /\ Pipeline[9] = "VISUAL"
    BY DEF Nine
  <2>3. \A k \in 1..9 : k \in {1, 2, 3, 4, 5, 6, 7, 8, 9}
    OBVIOUS
  <2>4. QED
    BY <2>1, <2>2, <2>3 DEF Halting
<1>2. HasAttributesStage
  BY <1>1 DEF HasAttributesStage
<1>3. ASSUME NEW k \in RetryStages, NEW force \in Forces
      PROVE  MeetsVerdicts(NewJob(force, k))
  <2>1. k \in 1..9 /\ k <= 3 /\ (k = 3 => force = FALSE)
    BY <1>1, PipelineAssumption
  <2>2. \A i \in {3, 5} : k <= i /\ (force => k < i)
    BY <2>1
  <2>3. QED
    BY <1>1, <2>2 DEF MeetsVerdicts, NewJob
<1>4. \A k \in SpawnStages : k + 1 \in Stage => MeetsVerdicts(NewJob(FALSE, k + 1))
  BY <1>1 DEF SpawnStages, MeetsVerdicts, NewJob
<1>5. EveryJobMeetsVerdicts
  BY <1>3, <1>4 DEF EveryJobMeetsVerdicts
<1>6. QED
  BY <1>2, <1>5, CompletedGarmentsPassed

-----------------------------------------------------------------------------
(* What is held for review                                                  *)

\* A garment that is held for review.
Held(g) == g.status = ReviewRequired /\ g.quality = "REVIEW_REQUIRED"

\* A verdict, or a status no earlier than the one it replaces.
IsAdvance(before, after) ==
    \/ after \in {Failed, ReviewRequired}
    \/ GarmentStateOrder(after) >= GarmentStateOrder(before)

\* A request computes from what it loaded: of a held garment, at any stage but
\* the attributes, it makes a held or a failed one, and of any an advanced one.
ComputesFromCopy(s) ==
    /\ pc[s] \in {"step", "stepForced", "executing"} => sess[s].cur = sess[s].base
    /\ pc[s] = "recording" /\ Held(sess[s].base) /\ Pipeline[at[s]] # "ATTRIBUTES"
           => sess[s].cur.status \in {ReviewRequired, Failed}
    /\ pc[s] = "recording" => IsAdvance(sess[s].base.status, sess[s].cur.status)

HeldInv == \A s \in Callers : ComputesFromCopy(s)

\* Only stage 3 changes a held garment, and then only its own verdict releases it.
LEMMA HeldStays ==
    ASSUME NEW k \in Stage, Pipeline[k] # "ATTRIBUTES", NEW g, Held(g),
           NEW r \in StageResults(k, g)
    PROVE  AfterStep(k, r).status \in {ReviewRequired, Failed}
<1>1. \A s, q, h : Outcome(s, q, h).garment = h
  BY DEF Outcome
<1>2. Finalised(g) = g
  BY DEF Finalised, Held
<1>3. Pipeline[k] \in StageNames
  BY StageFacts
<1>4. r.garment = g
  <2>1. CASE Pipeline[k] = "CLASSIFY"
    BY <1>1, <2>1 DEF StageResults, ClassifyResults
  <2>2. CASE Pipeline[k] = "CROP"
    BY <1>1, <2>2 DEF StageResults, CropResults
  <2>3. CASE Pipeline[k] = "DIGITISE"
    BY <1>1, <2>3 DEF StageResults, DigitiseResults
  <2>4. CASE Pipeline[k] = "EMBED"
    BY <1>1, <2>4 DEF StageResults, EmbedResults
  <2>5. CASE Pipeline[k] = "CATEGORY"
    BY <1>1, <2>5 DEF StageResults, CategoryResults
  <2>6. CASE Pipeline[k] \in {"LAYERING", "STRUCTURE"}
    BY <1>1, <2>6 DEF StageResults, RuleResults
  <2>7. CASE Pipeline[k] = "VISUAL"
    BY <1>1, <1>2, <2>7 DEF StageResults, VisualResults
  <2>8. QED
    BY <1>3, <2>1, <2>2, <2>3, <2>4, <2>5, <2>6, <2>7 DEF StageNames
<1>5. AttributeReviewHeld(k, r.garment)
  BY <1>4 DEF AttributeReviewHeld, Held
<1>6. AfterStep(k, r) = IF r.status = "FAILED" THEN Verdict(g, Failed, "REJECTED") ELSE g
  BY <1>4, <1>5 DEF AfterStep
<1>7. Verdict(g, Failed, "REJECTED").status = Failed \/ Verdict(g, Failed, "REJECTED") = g
  BY DEF Verdict
<1>8. QED
  BY <1>6, <1>7 DEF Held

\* Whatever a stage returns, /step makes an advance of it on the copy it was given.
LEMMA StepIsAdvance ==
    ASSUME NEW k \in Stage, NEW g \in Garment, NEW r \in StageResults(k, g)
    PROVE  IsAdvance(g.status, AfterStep(k, r).status)
<1>1. r \in Result /\ r.garment \in Garment
  BY ResultsTyped DEF Result
<1>2. r.garment.status \in {g.status, Completed}
  <2>1. \A s, q, h : Outcome(s, q, h).garment = h
    BY DEF Outcome
  <2>2. /\ Finalised(g).status \in {g.status, Completed}
        /\ \A a : WithAttrs(g, a).status = g.status
    BY DEF Finalised, WithAttrs, Garment
  <2>3. Pipeline[k] \in StageNames
    BY StageFacts
  <2>4. CASE Pipeline[k] = "CLASSIFY"
    BY <2>1, <2>4 DEF StageResults, ClassifyResults
  <2>5. CASE Pipeline[k] = "CROP"
    BY <2>1, <2>5 DEF StageResults, CropResults
  <2>6. CASE Pipeline[k] = "ATTRIBUTES"
    BY <2>1, <2>2, <2>6 DEF StageResults, AttributesResults
  <2>7. CASE Pipeline[k] = "DIGITISE"
    BY <2>1, <2>7 DEF StageResults, DigitiseResults
  <2>8. CASE Pipeline[k] = "EMBED"
    BY <2>1, <2>8 DEF StageResults, EmbedResults
  <2>9. CASE Pipeline[k] = "CATEGORY"
    BY <2>1, <2>9 DEF StageResults, CategoryResults
  <2>10. CASE Pipeline[k] \in {"LAYERING", "STRUCTURE"}
    BY <2>1, <2>10 DEF StageResults, RuleResults
  <2>11. CASE Pipeline[k] = "VISUAL"
    BY <2>1, <2>2, <2>11 DEF StageResults, VisualResults
  <2>12. QED
    BY <2>3, <2>4, <2>5, <2>6, <2>7, <2>8, <2>9, <2>10, <2>11 DEF StageNames
<1>3. /\ \A x \in GarmentState : GarmentStateOrder(x) \in -1..Len(Pipeline)
      /\ GarmentStateOrder(Completed) = Len(Pipeline)
      /\ \A j \in Stage : GarmentStateOrder(j) = j
  BY StageFacts
  DEF GarmentStateOrder, GarmentState, Completed, Failed, ReviewRequired, Stage
<1>4. g.status \in GarmentState /\ r.garment.status \in GarmentState
  BY <1>1 DEF Garment
<1>5. GarmentStateOrder(r.garment.status) >= GarmentStateOrder(g.status)
  BY <1>2, <1>3, <1>4, StageFacts
<1>6. GarmentStateOrder(Advanced(k, r.garment).status)
          >= GarmentStateOrder(r.garment.status)
  BY <1>1, <1>3, <1>4, StageFacts DEF Advanced, Garment
<1>7. \A h \in Garment, st \in GarmentState : \A q : Verdict(h, st, q).status = st
  BY DEF Verdict, Garment
<1>8. Advanced(k, r.garment) \in Garment
  BY <1>1, StageFacts DEF Advanced, Garment
<1>9. /\ GarmentStateOrder(g.status) \in Int /\ GarmentStateOrder(r.garment.status) \in Int
      /\ GarmentStateOrder(Advanced(k, r.garment).status) \in Int
  <2>1. Advanced(k, r.garment).status \in GarmentState
    BY <1>8 DEF Garment
  <2>2. \A i \in -1..Len(Pipeline) : i \in Int
    BY StageFacts
  <2>3. QED
    BY <1>3, <1>4, <2>1, <2>2, Zenon
<1>10. /\ Advanced(k, r.garment).status \in GarmentState
       /\ {Failed, ReviewRequired} \subseteq GarmentState
  BY <1>8, StageFacts DEF Garment
<1>11. AfterStep(k, r).status \in {Advanced(k, r.garment).status, r.garment.status,
                                  Failed, ReviewRequired}
  BY <1>1, <1>7, <1>8, <1>10 DEF AfterStep
<1>12. QED
  BY <1>5, <1>6, <1>9, <1>11 DEF IsAdvance

\* When one process moves, the requests of the others are as they were.
LEMMA OthersStepOn ==
    ASSUME HeldInv, NEW p \in Writers,
           \A q \in Writers \ {p} : pc'[q] = pc[q] /\ sess'[q] = sess[q],
           \A q \in Lockers \ {p} : at'[q] = at[q],
           p \in Callers => ComputesFromCopy(p)'
    PROVE  HeldInv'
BY DEF HeldInv, ComputesFromCopy

\* Workers and reviewers are not callers.
LEMMA OnlyCallersStep ==
    /\ \A w \in Waiters : w \in Writers /\ w \notin Callers
    /\ \A r \in Reviewers : r \in Writers /\ r \notin Callers /\ r \notin Lockers
BY LockersAssumption, PipelineAssumption

\* A request computes its garment from the copy it has loaded, and from nothing else.
LEMMA CallerHeldStep ==
    ASSUME TypeInv, HeldInv, NEW s \in Callers, StepArrives(s) \/ Caller(s)
    PROVE  HeldInv'
<1>1. /\ pc \in [Writers -> Places] /\ sess \in [Writers -> Session]
      /\ at \in [Lockers -> Stage \cup {0}] /\ ComputesFromCopy(s)
  BY DEF TypeInv, TypeOK, HeldInv
<1>2. ASSUME EndRequest(s) PROVE HeldInv'
  <2>1. /\ pc' = [pc EXCEPT ![s] = "idle"] /\ sess' = [sess EXCEPT ![s] = NoSession]
        /\ at' = [at EXCEPT ![s] = 1]
    BY <1>2 DEF EndRequest, Goto, SetSession
  <2>2. ComputesFromCopy(s)'
    BY <1>1, <2>1 DEF ComputesFromCopy
  <2>3. QED
    BY <1>1, <2>1, <2>2, OthersStepOn
<1>3. CASE StepArrives(s)
  <2>1. PICK k \in StepStages, force \in Forces :
          /\ at' = [at EXCEPT ![s] = k]
          /\ pc' = [pc EXCEPT ![s] = IF force THEN "stepForced" ELSE "step"]
    BY <1>3 DEF StepArrives, Goto
  <2>2. sess' = [sess EXCEPT ![s] = Loaded(db)]
    BY <1>3 DEF StepArrives, SetSession
  <2>3. Loaded(db).cur = Loaded(db).base
    BY DEF Loaded
  <2>4. ComputesFromCopy(s)'
    BY <1>1, <2>1, <2>2, <2>3 DEF ComputesFromCopy
  <2>5. QED
    BY <1>1, <2>1, <2>2, <2>4, OthersStepOn
<1>4. CASE StepBegins(s)
  <2>1. /\ pc' = [pc EXCEPT ![s] = "executing"] /\ sess' = sess
        /\ at' = [at EXCEPT ![s] = StepStage(s)] /\ pc[s] \in {"step", "stepForced"}
    BY <1>4 DEF StepBegins, StepPending, Goto
  <2>2. ComputesFromCopy(s)'
    BY <1>1, <2>1 DEF ComputesFromCopy
  <2>3. QED
    BY <1>1, <2>1, <2>2, OthersStepOn
<1>5. CASE StepExecutes(s)
  <2>1. PICK r \in StageResults(at[s], sess[s].cur) :
          SetSession(s, [sess[s] EXCEPT
                !.cur = AfterStep(at[s], r),
                !.own[at[s]] = [status |-> r.status,
                                input |-> InputOf(at[s], sess[s].cur), stamp |-> 0]])
    BY <1>5 DEF StepExecutes
  <2>2. /\ pc[s] = "executing" /\ pc' = [pc EXCEPT ![s] = "recording"] /\ at' = at
    BY <1>5 DEF StepExecutes, Goto
  <2>3. sess'[s].cur = AfterStep(at[s], r) /\ sess'[s].base = sess[s].base
    BY <1>1, <2>1 DEF SetSession, Session
  <2>4. \A q \in Writers \ {s} : sess'[q] = sess[q]
    BY <1>1, <2>1 DEF SetSession
  <2>5. at[s] \in Stage
    BY <1>1, <2>2 DEF TypeInv, AtAStage
  <2>6. sess[s].cur = sess[s].base
    BY <1>1, <2>2 DEF ComputesFromCopy
  <2>7. ComputesFromCopy(s)'
    <3>1. sess[s].cur \in Garment
      BY <1>1 DEF Session
    <3>2. IsAdvance(sess[s].base.status, AfterStep(at[s], r).status)
      BY <2>5, <2>6, <3>1, StepIsAdvance
    <3>3. QED
      BY <1>1, <2>2, <2>3, <2>5, <2>6, <3>2, HeldStays DEF ComputesFromCopy
  <2>8. QED
    BY <1>1, <2>2, <2>4, <2>7, OthersStepOn
<1>6. CASE StepRefused(s) \/ StepRaises(s) \/ StepRecords(s)
  BY <1>2, <1>6 DEF StepRefused, StepRaises, StepRecords
<1>7. QED
  BY <1>3, <1>4, <1>5, <1>6 DEF Caller

\* Nobody else touches a request.
LEMMA HeldStep ==
    ASSUME TypeInv, HeldInv, [Next]_vars
    PROVE  HeldInv'
<1>1. /\ pc \in [Writers -> Places] /\ sess \in [Writers -> Session]
      /\ at \in [Lockers -> Stage \cup {0}]
  BY DEF TypeInv, TypeOK
<1>2. CASE UNCHANGED vars
  BY <1>2 DEF vars, HeldInv, ComputesFromCopy
<1>3. ASSUME NEW w \in Waiters, Worker(w) \/ PollEmptyQueue(w) PROVE HeldInv'
  <2>1. \A q \in Writers \ {w} : pc'[q] = pc[q] /\ sess'[q] = sess[q]
    BY <1>1, <1>3
    DEF Worker, PollEmptyQueue, TakeJob, EnterLock, WaitForLock, ReuseStage, NeedStage,
        StartRun, ExecuteStage, CommitRun, FinishJob, LeaveStage, Goto, SetSession, vars
  <2>2. \A q \in Lockers \ {w} : at'[q] = at[q]
    BY <1>1, <1>3
    DEF Worker, PollEmptyQueue, TakeJob, EnterLock, WaitForLock, ReuseStage, NeedStage,
        StartRun, ExecuteStage, CommitRun, FinishJob, LeaveStage, vars
  <2>3. QED
    BY <2>1, <2>2, OthersStepOn, OnlyCallersStep
<1>4. ASSUME NEW s \in Callers, StepArrives(s) \/ Caller(s) PROVE HeldInv'
  BY <1>4, CallerHeldStep
<1>5. ASSUME NEW r \in Reviewers, ReviewArrives(r) \/ ReviewSaves(r) PROVE HeldInv'
  <2>1. \A q \in Writers \ {r} : pc'[q] = pc[q] /\ sess'[q] = sess[q]
    BY <1>1, <1>5
    DEF ReviewArrives, ReviewSaves, Approve, Reject, Override, Goto, SetSession
  <2>2. at' = at
    BY <1>5 DEF ReviewArrives, ReviewSaves
  <2>3. QED
    BY <2>1, <2>2, OthersStepOn, OnlyCallersStep
<1>6. ASSUME NEW p \in Lockers, Crash(p) PROVE HeldInv'
  <2>1. /\ pc' = [pc EXCEPT ![p] = "idle"] /\ sess' = [sess EXCEPT ![p] = NoSession]
        /\ at' = [at EXCEPT ![p] = 1]
    BY <1>6 DEF Crash, Goto, SetSession
  <2>2. ComputesFromCopy(p)'
    BY <1>1, <2>1 DEF ComputesFromCopy
  <2>3. QED
    BY <1>1, <2>1, <2>2, OthersStepOn
<1>7. CASE RetryRequest \/ LockExpires
  BY <1>7 DEF RetryRequest, LockExpires, HeldInv, ComputesFromCopy
<1>8. QED
  BY <1>2, <1>3, <1>4, <1>5, <1>6, <1>7 DEF Next

(***************************************************************************)
(* Whatever workers, reviewers and other requests do, a /step of any stage  *)
(* but the attributes whose copy is still what is committed leaves a held   *)
(* garment held, or fails it: attribute_review_held, with the check of      *)
(* quality_status in stage 9.                                               *)
(***************************************************************************)
THEOREM HeldReviewsStand == Spec => HeldReviewStands
<1>1. Init => HeldInv
  BY DEF Init, HeldInv, ComputesFromCopy
<1>2. TypeInv /\ HeldInv /\ [Next]_vars => HeldInv'
  BY HeldStep
<1>3. ASSUME HeldInv, NEW s \in Callers, StepRecords(s), sess[s].base = db,
             db.status = ReviewRequired, db.quality = "REVIEW_REQUIRED",
             Pipeline[at[s]] # "ATTRIBUTES"
      PROVE  db'.status \in {ReviewRequired, Failed}
  <2>1. sess[s].cur.status \in {ReviewRequired, Failed}
    BY <1>3 DEF HeldInv, ComputesFromCopy, Held, StepRecords
  <2>2. db'.status \in {sess[s].cur.status, db.status}
    BY <1>3 DEF StepRecords, Fields
  <2>3. QED
    BY <1>3, <2>1, <2>2
<1>4. HeldInv /\ [Next]_vars =>
          [\A s \in Callers :
             /\ StepRecords(s) /\ sess[s].base = db
             /\ db.status = ReviewRequired /\ db.quality = "REVIEW_REQUIRED"
             /\ Pipeline[at[s]] # "ATTRIBUTES"
             => db'.status \in {ReviewRequired, Failed}]_vars
  BY <1>3
<1>5. QED
  BY <1>1, <1>2, <1>4, TypeInit, TypeStep, PTL DEF Spec, HeldReviewStands

\* What /step would have to be, for the comment above it to be true.
CurrentStepsAdvance ==
    [][\A s \in Callers :
          StepRecords(s) /\ sess[s].base.status = db.status => StepAdvances(s)]_vars

(***************************************************************************)
(* "Only ever ADVANCES garment.status, never regresses it" (the comment     *)
(* above attribute_review_held) is true of a request whose garment has the  *)
(* status it loaded, at every stage, for every result and whoever else is   *)
(* at work: only a status that changed under the request can regress.       *)
(***************************************************************************)
THEOREM StepsRegressOnlyStale == Spec => CurrentStepsAdvance
<1>1. Init => HeldInv
  BY DEF Init, HeldInv, ComputesFromCopy
<1>2. TypeInv /\ HeldInv /\ [Next]_vars => HeldInv'
  BY HeldStep
<1>3. ASSUME TypeInv, HeldInv, NEW s \in Callers, StepRecords(s),
             sess[s].base.status = db.status
      PROVE  StepAdvances(s)
  <2>1. IsAdvance(db.status, sess[s].cur.status)
    BY <1>3 DEF HeldInv, ComputesFromCopy, StepRecords
  <2>2. db'.status = sess[s].cur.status
    <3>1. db'.status = IF "status" \in Dirty(s) THEN sess[s].cur.status ELSE db.status
      BY <1>3 DEF StepRecords, Fields
    <3>2. QED
      BY <1>3, <3>1 DEF Dirty, Fields
  <2>3. QED
    BY <2>1, <2>2 DEF StepAdvances, IsAdvance
<1>4. TypeInv /\ HeldInv /\ [Next]_vars =>
          [\A s \in Callers :
             StepRecords(s) /\ sess[s].base.status = db.status => StepAdvances(s)]_vars
  BY <1>3
<1>5. QED
  BY <1>1, <1>2, <1>4, TypeInit, TypeStep, PTL DEF Spec, CurrentStepsAdvance

-----------------------------------------------------------------------------
(* How long a job is                                                        *)

\* The steps a worker still has to take, at most, until it has done its job:
\* three for each stage, and those around them.
StepsLeft(w) ==
    CASE pc[w] = "idle"       -> 0
      [] pc[w] = "releasing"  -> 1
      [] pc[w] = "committing" -> 2
      [] pc[w] = "executing"  -> 3 * (Len(Pipeline) - at[w]) + 3
      [] pc[w] = "flushing"   -> 3 * (Len(Pipeline) - at[w]) + 4
      [] pc[w] = "checking"   -> 3 * (Len(Pipeline) - at[w]) + 5
      [] OTHER                -> 3 * Len(Pipeline) + 6

Moves(w) == pc'[w] # pc[w] \/ at'[w] # at[w]
JobsShrink ==
    [][\A w \in Waiters :
          pc[w] # "idle" /\ Moves(w) =>
              StepsLeft(w) \in Nat /\ StepsLeft(w)' \in 0..(StepsLeft(w) - 1)]_vars

(***************************************************************************)
(* The loop of run ends, for every pipeline: whatever a worker's job, the   *)
(* results of its stages and who else is at work, each of its moves leaves  *)
(* it fewer to make, so none comes back to a stage it has left.  That it    *)
(* moves at all is EveryJobEnds.                                            *)
(***************************************************************************)
THEOREM JobsAreBounded == Spec => JobsShrink
<1>1. ASSUME TypeInv, [Next]_vars, NEW w \in Waiters, pc[w] # "idle", Moves(w)
      PROVE  StepsLeft(w) \in Nat /\ StepsLeft(w)' \in 0..(StepsLeft(w) - 1)
  <2> DEFINE N == Len(Pipeline)
  <2>1. /\ pc \in [Writers -> Places] /\ at \in [Lockers -> Stage \cup {0}]
        /\ w \in Writers /\ w \in Lockers
    BY <1>1 DEF TypeInv, TypeOK
  <2>2. N \in Nat /\ at[w] \in 1..N
    BY <1>1, <2>1, OnlyCallersStep, StagesAssumption DEF TypeInv, AtAStage, Stage
  <2>3. StepsLeft(w) \in Nat
    BY <2>2 DEF StepsLeft
  <2>4. CASE EnterLock(w)
    <3>1. pc[w] = "locking" /\ pc'[w] = "checking" /\ at'[w] = job[w].from
      BY <2>1, <2>4 DEF EnterLock, Goto
    <3>2. at'[w] \in 1..N
      BY <1>1, <3>1 DEF TypeInv, TypeOK, Job, Stage
    <3>3. StepsLeft(w) = 3 * N + 6
      BY <3>1 DEF StepsLeft
    <3>4. StepsLeft(w)' = 3 * (N - at'[w]) + 5
      BY <3>1 DEF StepsLeft
    <3>5. QED
      BY <2>2, <3>2, <3>3, <3>4
  <2>5. ASSUME NEW last \in BOOLEAN, LeaveStage(w, last),
               pc[w] \in {"checking", "executing"}
        PROVE  StepsLeft(w)' \in 0..(StepsLeft(w) - 1)
    <3>1. StepsLeft(w) >= 3 * (N - at[w]) + 3
      BY <2>2, <2>5 DEF StepsLeft
    <3>2. CASE last \/ at[w] = N
      <4>1. pc'[w] = "committing"
        BY <2>1, <2>5, <3>2 DEF LeaveStage, Goto
      <4>2. StepsLeft(w)' = 2
        BY <4>1 DEF StepsLeft
      <4>3. QED
        BY <2>2, <2>3, <3>1, <4>2
    <3>3. CASE ~(last \/ at[w] = N)
      <4>1. pc'[w] = "checking" /\ at'[w] = at[w] + 1
        BY <2>1, <2>5, <3>3 DEF LeaveStage, Goto
      <4>2. StepsLeft(w)' = 3 * (N - at'[w]) + 5
        BY <4>1 DEF StepsLeft
      <4>3. at[w] < N
        BY <2>2, <3>3
      <4>4. QED
        BY <2>2, <2>3, <3>1, <4>1, <4>2, <4>3
    <3>4. QED
      BY <3>2, <3>3
  <2>6. CASE ReuseStage(w)
    BY <2>3, <2>5, <2>6 DEF ReuseStage
  <2>7. CASE ExecuteStage(w)
    <3>1. PICK r \in StageResults(at[w], sess[w].cur) : LeaveStage(w, StopsRun(at[w], r))
      BY <2>7 DEF ExecuteStage
    <3>2. StopsRun(at[w], r) \in BOOLEAN
      BY DEF StopsRun
    <3>3. QED
      BY <2>3, <2>5, <2>7, <3>1, <3>2 DEF ExecuteStage
  <2>8. CASE NeedStage(w)
    <3>1. pc[w] = "checking" /\ pc'[w] = "flushing" /\ at'[w] = at[w]
      BY <2>1, <2>8 DEF NeedStage, Goto
    <3>2. QED
      BY <2>2, <3>1 DEF StepsLeft
  <2>9. CASE StartRun(w)
    <3>1. pc[w] = "flushing" /\ pc'[w] = "executing" /\ at'[w] = at[w]
      BY <2>1, <2>9 DEF StartRun, Goto
    <3>2. QED
      BY <2>2, <3>1 DEF StepsLeft
  <2>10. CASE CommitRun(w)
    <3>1. pc[w] = "committing" /\ pc'[w] = "releasing"
      BY <2>1, <2>10 DEF CommitRun, Goto
    <3>2. QED
      BY <3>1 DEF StepsLeft
  <2>11. CASE FinishJob(w)
    <3>1. pc[w] = "releasing" /\ pc'[w] = "idle"
      BY <2>1, <2>11 DEF FinishJob, Goto
    <3>2. QED
      BY <3>1 DEF StepsLeft
  <2>12. CASE Crash(w)
    <3>1. pc'[w] = "idle"
      BY <2>1, <2>12 DEF Crash, Goto
    <3>2. StepsLeft(w)' = 0 /\ StepsLeft(w) > 0
      BY <1>1, <2>2, <3>1 DEF StepsLeft
    <3>3. QED
      BY <2>3, <3>2
  <2>13. ~TakeJob(w) /\ ~WaitForLock(w) /\ ~PollEmptyQueue(w)
    BY <1>1 DEF TakeJob, WaitForLock, PollEmptyQueue, Moves, vars
  <2>14. ASSUME NEW v \in Waiters, v # w, Worker(v) \/ PollEmptyQueue(v)
         PROVE  ~Moves(w)
    BY <2>1, <2>14
    DEF Moves, Worker, PollEmptyQueue, TakeJob, EnterLock, WaitForLock, ReuseStage,
        NeedStage, StartRun, ExecuteStage, CommitRun, FinishJob, LeaveStage, Goto, vars
  <2>15. ASSUME NEW s \in Callers, StepArrives(s) \/ Caller(s)
         PROVE  ~Moves(w)
    BY <2>1, <2>15, OnlyCallersStep
    DEF Moves, StepArrives, Caller, StepRefused, StepBegins, StepExecutes, StepRaises,
        StepRecords, EndRequest, Goto
  <2>16. ASSUME NEW r \in Reviewers, ReviewArrives(r) \/ ReviewSaves(r)
         PROVE  ~Moves(w)
    BY <2>1, <2>16, OnlyCallersStep DEF Moves, ReviewArrives, ReviewSaves, Goto
  <2>17. ASSUME NEW p \in Lockers, p # w, Crash(p)
         PROVE  ~Moves(w)
    BY <2>1, <2>17 DEF Moves, Crash, Goto
  <2>18. ~RetryRequest /\ ~LockExpires /\ ~UNCHANGED vars
    BY <1>1 DEF Moves, RetryRequest, LockExpires, vars
  <2>19. QED
    BY <1>1, <2>3, <2>4, <2>6, <2>7, <2>8, <2>9, <2>10, <2>11, <2>12, <2>13, <2>14,
       <2>15, <2>16, <2>17, <2>18 DEF Next, Worker
<1>2. TypeInv /\ [Next]_vars =>
          [\A w \in Waiters :
             pc[w] # "idle" /\ Moves(w) =>
                 StepsLeft(w) \in Nat /\ StepsLeft(w)' \in 0..(StepsLeft(w) - 1)]_vars
  BY <1>1
<1>3. QED
  BY <1>2, TypeInit, TypeStep, PTL DEF Spec, JobsShrink

=============================================================================
