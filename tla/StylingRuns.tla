----------------------------- MODULE StylingRuns -----------------------------
(***************************************************************************)
(* The streamed styling runs of one wardrobe                                *)
(* (POST /wardrobe/styling/recommendations/stream, app/api/v1/styling.py)   *)
(* and their StylingRunProgress rows.  A request supersedes the runs that    *)
(* are still RUNNING and inserts its own row; a task of the process that     *)
(* took it then works through the stages, checkpoints each one and feeds the *)
(* client's event stream.  GET /runs/active abandons the rows that have been *)
(* quiet for STALE_RUN_MINUTES.                                             *)
(***************************************************************************)
EXTENDS Naturals, Sequences, FiniteSets

CONSTANTS
    Posts,        \* requests, each also the id of its run and of its row
    Stages,       \* checkpoints of a run
    Stale,        \* STALE_RUN_MINUTES, in ticks
    StageLimit,   \* the longest a stage takes, in ticks
    RunsMayFail   \* processes die, commits fail

ASSUME RunsAssumption ==
    /\ Stages \in Nat \ {0} /\ Stale \in Nat \ {0} /\ StageLimit \in Nat
    /\ RunsMayFail \in BOOLEAN

VARIABLES
    progress,   \* the committed rows
    task,       \* where each request and its task are
    done,       \* per run, the stages that have completed
    copy,       \* per run, the trace its checkpoint session loaded
    feed,       \* per run, events the client has not read yet
    client,     \* per run, what its client has heard last
    spent,      \* per run, ticks since its current stage began, 0 after the last
    seen,       \* per request, the RUNNING rows its UPDATE found or holds
    rivals      \* history: pairs of requests whose transactions were open together

runVars == <<progress, task, done, copy, feed, client, spent, seen, rivals>>

Absent == "ABSENT"
ProgressRow == [status : {Absent, "RUNNING", "SUCCEEDED", "FAILED", "ABANDONED"},
        trace : Seq(1..Stages), quiet : 0..Stale]

Events == {"stage", "done", "error"}

RunsInit ==
    /\ progress = [r \in Posts |-> [status |-> Absent, trace |-> <<>>, quiet |-> 0]]
    /\ task = [r \in Posts |-> "idle"]
    /\ done = [r \in Posts |-> 0]
    /\ copy = [r \in Posts |-> <<>>]
    /\ feed = [r \in Posts |-> <<>>]
    /\ client = [r \in Posts |-> "none"]
    /\ spent = [r \in Posts |-> 0]
    /\ seen = [r \in Posts |-> {}]
    /\ rivals = {}

TaskAt(r, l) == task' = [task EXCEPT ![r] = l]
Running == {r \in Posts : progress[r].status = "RUNNING"}
Posting(r) == task[r] \in {"superseding", "inserting"}

\* Rows an open transaction has updated: other writers wait for its commit.
Locked(r) == \E q \in Posts \ {r} : task[q] = "inserting" /\ r \in seen[q]

-----------------------------------------------------------------------------
(* POST /recommendations/stream                                             *)

\* The UPDATE's snapshot: the rows that are committed and RUNNING.
PostArrives(r) ==
    /\ task[r] = "idle"
    /\ seen' = [seen EXCEPT ![r] = Running]
    /\ rivals' = rivals \cup {{r, q} : q \in {q \in Posts \ {r} : Posting(q)}}
    /\ TaskAt(r, "superseding")
    /\ UNCHANGED <<progress, done, copy, feed, client, spent>>

\* A mutant of PostUpdates: the earlier runs are left alone.
PostUpdatesNothing(r) ==
    /\ task[r] = "superseding"
    /\ seen' = [seen EXCEPT ![r] = {}]
    /\ TaskAt(r, "inserting")
    /\ UNCHANGED <<progress, done, copy, feed, client, spent, rivals>>

\* It waits for the rows others have updated and drops those that have
\* stopped RUNNING meanwhile.
PostUpdates(r) ==
    /\ task[r] = "superseding"
    /\ \A s \in seen[r] : ~Locked(s)
    /\ seen' = [seen EXCEPT ![r] = @ \cap Running]
    /\ TaskAt(r, "inserting")
    /\ UNCHANGED <<progress, done, copy, feed, client, spent, rivals>>

PostCommits(r) ==
    /\ task[r] = "inserting"
    /\ progress' = [q \in Posts |->
          IF q = r THEN [status |-> "RUNNING", trace |-> <<>>, quiet |-> 0]
          ELSE IF q \in seen[r] THEN [progress[q] EXCEPT !.status = "ABANDONED", !.quiet = 0]
          ELSE progress[q]]
    /\ seen' = [seen EXCEPT ![r] = {}]
    /\ client' = [client EXCEPT ![r] = "connected"]
    /\ TaskAt(r, "created")
    /\ UNCHANGED <<done, copy, feed, spent, rivals>>

\* event_stream starts the task when the response is first read.
StreamStarts(r) ==
    /\ task[r] = "created" /\ client[r] = "connected"
    /\ TaskAt(r, "running")
    /\ spent' = [spent EXCEPT ![r] = 0]
    /\ UNCHANGED <<progress, done, copy, feed, client, seen, rivals>>

-----------------------------------------------------------------------------
(* The task: runner, on_stage and checkpoint                                *)

\* What is put when the reader has gone is read by nobody.
Put(r, event) ==
    feed' = [feed EXCEPT ![r] = IF client[r] = "gone" THEN @ ELSE Append(@, event)]

\* The task whose checkpoint is not awaited goes on with the next stage.
\* A mutant of AfterStage.
CheckpointNotAwaited(r) == TaskAt(r, "running")
AfterStage(r) == TaskAt(r, "checkpointing")

StageCompletes(r) ==
    /\ task[r] = "running" /\ done[r] < Stages
    /\ done' = [done EXCEPT ![r] = @ + 1]
    /\ Put(r, "stage")
    /\ spent' = [spent EXCEPT ![r] = 0]
    /\ AfterStage(r)
    /\ UNCHANGED <<progress, copy, client, seen, rivals>>

CheckpointLoads(r) ==
    /\ task[r] = "checkpointing"
    /\ copy' = [copy EXCEPT ![r] = progress[r].trace]
    /\ TaskAt(r, "writing")
    /\ UNCHANGED <<progress, done, feed, client, spent, seen, rivals>>

\* A mutant of Touched: updated_at has no onupdate.
NotTouched(r) == progress[r].quiet
Touched(r) == 0

\* Only the trace and current_stage are written, and updated_at.
CheckpointCommits(r) ==
    /\ task[r] = "writing"
    /\ ~Locked(r)
    /\ progress' = [progress EXCEPT ![r].trace = Append(copy[r], done[r]),
                                    ![r].quiet = Touched(r)]
    /\ TaskAt(r, "running")
    /\ UNCHANGED <<done, copy, feed, client, spent, seen, rivals>>

\* The last stage is done: the row becomes SUCCEEDED whatever it is now ...
RunSucceeds(r) ==
    /\ task[r] = "running" /\ done[r] = Stages
    /\ ~Locked(r)
    /\ progress' = [progress EXCEPT ![r].status = "SUCCEEDED", ![r].quiet = 0]
    /\ TaskAt(r, "succeeded")
    /\ spent' = [spent EXCEPT ![r] = 0]
    /\ UNCHANGED <<done, copy, feed, client, seen, rivals>>

\* A stage, a checkpoint or the commit above raises: the handler makes the row
\* FAILED in a session of its own ...
RunFails(r) ==
    /\ task[r] \in {"running", "checkpointing", "writing"}
    /\ RunsMayFail
    /\ ~Locked(r)
    /\ progress' = [progress EXCEPT ![r].status = "FAILED", ![r].quiet = 0]
    /\ TaskAt(r, "failed")
    /\ spent' = [spent EXCEPT ![r] = 0]
    /\ UNCHANGED <<done, copy, feed, client, seen, rivals>>

\* ... or raises in its turn, on that session or its commit: the task ends, the
\* row stays RUNNING, nothing is put in the stream, and the client is sent
\* heartbeats until it leaves.
RunLost(r) ==
    /\ task[r] \in {"running", "checkpointing", "writing"}
    /\ RunsMayFail
    /\ TaskAt(r, "lost")
    /\ spent' = [spent EXCEPT ![r] = 0]
    /\ UNCHANGED <<progress, done, copy, feed, client, seen, rivals>>

\* A mutant of RunReports: the failure reaches the row and not the stream.
ReportsSuccessOnly(r) ==
    /\ task[r] \in {"succeeded", "failed"}
    /\ IF task[r] = "succeeded" THEN Put(r, "done") ELSE feed' = feed
    /\ TaskAt(r, "over")
    /\ UNCHANGED <<progress, done, copy, client, spent, seen, rivals>>

\* When the row has its end, the client is told.
RunReports(r) ==
    /\ task[r] \in {"succeeded", "failed"}
    /\ Put(r, IF task[r] = "succeeded" THEN "done" ELSE "error")
    /\ TaskAt(r, "over")
    /\ UNCHANGED <<progress, done, copy, client, spent, seen, rivals>>

Task(r) ==
    \/ StreamStarts(r) \/ StageCompletes(r) \/ CheckpointLoads(r)
    \/ CheckpointCommits(r) \/ RunSucceeds(r) \/ RunFails(r) \/ RunLost(r)
    \/ RunReports(r)

-----------------------------------------------------------------------------
(* Clients, time and failures                                               *)

ClientReads(r) ==
    /\ client[r] \in {"connected", "stage"} /\ feed[r] # <<>>
    /\ client' = [client EXCEPT ![r] = Head(feed[r])]
    /\ feed' = [feed EXCEPT ![r] = Tail(@)]
    /\ UNCHANGED <<progress, task, done, copy, spent, seen, rivals>>

\* The tab is closed: nobody reads what was put for it.  A task that has
\* started goes on without it.
ClientLeaves(r) ==
    /\ client[r] \in {"connected", "stage"}
    /\ client' = [client EXCEPT ![r] = "gone"]
    /\ feed' = [feed EXCEPT ![r] = <<>>]
    /\ UNCHANGED <<progress, task, done, copy, spent, seen, rivals>>

\* GET /runs/active: _abandon_stale_active_runs, then the newest RUNNING row.
\* A mutant of IsStale: a row without a checkpoint has no updated_at.
StaleOnceTouched(r) ==
    progress[r].status = "RUNNING" /\ progress[r].quiet = Stale /\ progress[r].trace # <<>>
IsStale(r) == progress[r].status = "RUNNING" /\ progress[r].quiet = Stale
AskActive ==
    /\ \E r \in Posts : IsStale(r)
    /\ \A r \in Posts : IsStale(r) => ~Locked(r)
    /\ progress' = [r \in Posts |->
          IF IsStale(r) THEN [progress[r] EXCEPT !.status = "ABANDONED", !.quiet = 0]
                        ELSE progress[r]]
    /\ UNCHANGED <<task, done, copy, feed, client, spent, seen, rivals>>

\* Time passes while stages run.  What the model leaves no time for, the
\* commits and the start of a stream that is being read, is quick in the code.
RunsTick ==
    /\ \A r \in Posts :
          /\ task[r] \in {"idle", "created", "running", "over", "lost", "dead"}
          /\ task[r] = "created" => client[r] # "connected"
          /\ task[r] = "running" => spent[r] < StageLimit /\ done[r] < Stages
    /\ \E r \in Running : progress[r].quiet < Stale
    /\ progress' = [r \in Posts |->
          IF r \in Running /\ progress[r].quiet < Stale
          THEN [progress[r] EXCEPT !.quiet = @ + 1] ELSE progress[r]]
    /\ spent' = [r \in Posts |-> IF task[r] = "running" THEN spent[r] + 1 ELSE spent[r]]
    /\ UNCHANGED <<task, done, copy, feed, client, seen, rivals>>

\* The process dies: an open transaction is rolled back, the task and its feed
\* are gone, the row stays as it is.  Of a task that has ended, or is lost,
\* there is only the row.
RunDies(r) ==
    /\ RunsMayFail
    /\ task[r] \notin {"idle", "over", "lost", "dead"}
    /\ TaskAt(r, "dead")
    /\ seen' = [seen EXCEPT ![r] = {}]
    /\ feed' = [feed EXCEPT ![r] = <<>>]
    /\ client' = [client EXCEPT ![r] = "gone"]
    /\ spent' = [spent EXCEPT ![r] = 0]
    /\ UNCHANGED <<progress, done, copy, rivals>>

RunsNext ==
    \/ \E r \in Posts :
          \/ PostArrives(r) \/ PostUpdates(r) \/ PostCommits(r) \/ Task(r)
          \/ ClientReads(r) \/ ClientLeaves(r) \/ RunDies(r)
    \/ AskActive
    \/ RunsTick

RunsSpec == RunsInit /\ [][RunsNext]_runVars

\* Tasks run, clients read what arrives, time passes, and somebody asks for
\* the active run now and then: the abandoning is lazy and has no other cause.
RunsFairness ==
    /\ \A r \in Posts :
          /\ WF_runVars(PostUpdates(r) \/ PostCommits(r))
          /\ WF_runVars(Task(r)) /\ WF_runVars(ClientReads(r))
    /\ WF_runVars(AskActive) /\ WF_runVars(RunsTick)

-----------------------------------------------------------------------------
(* Properties                                                               *)

RunsTypeOK ==
    /\ progress \in [Posts -> ProgressRow]
    /\ task \in [Posts -> {"idle", "superseding", "inserting", "created", "running",
                           "checkpointing", "writing", "succeeded", "failed", "over", "lost",
                           "dead"}]
    /\ done \in [Posts -> 0..Stages]
    /\ copy \in [Posts -> Seq(1..Stages)]
    /\ feed \in [Posts -> Seq(Events)]
    /\ client \in [Posts -> Events \cup {"none", "connected", "gone"}]
    /\ spent \in [Posts -> Nat]
    /\ seen \in [Posts -> SUBSET Posts]
    /\ rivals \subseteq SUBSET Posts

(***************************************************************************)
(* A client that resumes from the row sees the stages that ran, in order,   *)
(* at most the last one missing, and all of them once the run SUCCEEDED:    *)
(* the trace is read, extended and written back over and over, and nobody   *)
(* else's write comes in between.                                           *)
(***************************************************************************)
TraceIsWhatRan ==
    \A r \in Posts :
        LET n == Len(progress[r].trace) IN
        /\ progress[r].trace = [i \in 1..n |-> i]
        /\ n \in {done[r], done[r] - 1}
        /\ progress[r].status = "SUCCEEDED" => n = Stages

\* "A new request for this scope supersedes whatever was already running":
\* two runs are RUNNING only if their requests' transactions overlapped.
TwoActiveOverlapped ==
    \A r, s \in Running : r # s => {r, s} \in rivals

\* The lazy sweep abandons no run that is alive, however long it takes in all,
\* as long as each of its stages is shorter than the limit.
SweptRunsAreDead ==
    [][AskActive => \A r \in Posts :
          IsStale(r) => task[r] \in {"created", "dead", "lost", "over"}]_runVars

\* A row whose process died, or whose failure could not be recorded, stops
\* being RUNNING.
DeadRunAbandoned ==
    \A r \in Posts :
        task[r] \in {"dead", "lost"} /\ progress[r].status = "RUNNING"
            ~> progress[r].status # "RUNNING"

(***************************************************************************)
(* Who stays connected to a run hears how it ended, unless its process died *)
(* or the run failed and so did the handler that was to record the failure. *)
(***************************************************************************)
ClientHearsTheEnd ==
    \A r \in Posts :
        client[r] = "connected"
            ~> client[r] \in {"done", "error", "gone"} \/ task[r] = "lost"

(***************************************************************************)
(* "RUNNING -> SUCCEEDED | FAILED, or RUNNING -> ABANDONED"                 *)
(* (models/styling_run.py): ABANDONED is final.                             *)
(***************************************************************************)
AbandonedIsFinal ==
    [][\A r \in Posts :
          progress[r].status = "ABANDONED" => progress'[r].status = "ABANDONED"]_runVars

=============================================================================
