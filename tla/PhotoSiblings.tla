---------------------------- MODULE PhotoSiblings ----------------------------
(***************************************************************************)
(* The garments of one photo and the jobs that name them.  A photo is       *)
(* uploaded as one garment; stage 2 labels it and spawns a sibling garment  *)
(* for every further region it keeps (stage_02_crop.py); whoever ran the    *)
(* stage queues the siblings' jobs after the commit (app/worker/queue.py,   *)
(* POST /step).  Jobs are in Redis, or, when Redis cannot be reached, in    *)
(* the memory of the process that made them.                                *)
(*                                                                         *)
(* What happens to one garment's row inside a run is GarmentPipeline's      *)
(* business: here a run labels, spawns and settles.  The garment's lock     *)
(* keeps nobody out for good: a key expires under a slow holder, and a job  *)
(* that has waited long enough goes ahead without it (lock.py).  No time is *)
(* kept here, that is TimedExecutionLock's, so a run may begin at any       *)
(* moment; it is noted whether it went ahead of another.                    *)
(***************************************************************************)
EXTENDS Naturals, Sequences, FiniteSets

CONSTANTS
    Labels,       \* detected_label values: "top", "outerwear", ...
    NoLabel,      \* None
    Detections,   \* the sequences of kept labels a detection may return
    RedisLoops,   \* the worker process's loops on wardrobe_pipeline_jobs
    Handlers,     \* concurrent uploads and /step requests
    Api, Worker,  \* the two processes, each also the name of its memory loop
    MaxGarments,  \* bound on the rows of the photo
    MaxRequests,  \* bound on the requests after the upload
    MayStep,      \* a garment may be driven by /step
    MayFail       \* processes die, handlers raise, Redis is unreachable

Garments == 1..MaxGarments
Hosts == {Api, Worker}
Loops == RedisLoops \cup Hosts
Processes == Loops \cup Handlers

HostOf(p) == IF p \in RedisLoops \cup {Worker} THEN Worker ELSE Api

ASSUME SiblingAssumption ==
    /\ NoLabel \notin Labels
    /\ Detections \subseteq Seq(Labels)
    /\ Api # Worker /\ Hosts \cap RedisLoops = {}
    /\ Handlers \cap Loops = {}
    /\ MaxGarments \in Nat \ {0} /\ MaxRequests \in Nat
    /\ {MayStep, MayFail} \subseteq BOOLEAN

VARIABLES
    rows,      \* the committed rows, by garment
    born,      \* ids handed out so far
    redis,     \* wardrobe_pipeline_jobs, oldest first
    memory,    \* per process, its in-memory queue
    pc,        \* where each process is
    run,       \* what it is working on
    announce,  \* committed garments it has yet to queue a job for
    asked,     \* requests made so far
    lost       \* history: garments whose job died with a process

siblingVars == <<rows, born, redis, memory, pc, run, announce, asked, lost>>

-----------------------------------------------------------------------------
(* Rows, jobs and runs                                                      *)

\* "new" and "manual" have the status they were created with, RECEIVED or
\* CROPPED; "manual" ones were created with auto_process off.
RowStates == {"absent", "new", "manual", "settled", "deleted"}

\* cropped: the latest run of stage 2 succeeded (the order of commits stands
\* for that of started_at).  History, of a sibling: the label it was spawned
\* for, by whom, in which batch, by a run that had overtaken another or not,
\* and whether it was relabelled since.
Row == [state : RowStates, label : Labels \cup {NoLabel}, cropped : BOOLEAN,
        spawned : Labels \cup {NoLabel}, by : {"nobody", "upload", "sibling", "step"},
        batch : 0..MaxGarments, overtook : BOOLEAN, relabelled : BOOLEAN]
NoRow == [state |-> "absent", label |-> NoLabel, cropped |-> FALSE,
          spawned |-> NoLabel, by |-> "nobody", batch |-> 0,
          overtook |-> FALSE, relabelled |-> FALSE]
UploadRow(auto) == [NoRow EXCEPT !.state = IF auto THEN "new" ELSE "manual"]
SiblingRow(l, by, batch, overtook) ==
    [NoRow EXCEPT !.state = "new", !.label = l, !.spawned = l, !.by = by, !.batch = batch,
                  !.overtook = overtook]

Exists(g) == rows[g].state \in {"new", "manual", "settled"}

\* resume_stage: at most the second, or the attributes stage.
Job == [garment : Garments, from : {"start", "attributes"}, force : BOOLEAN]
NewJob(g, from, force) == [garment |-> g, from |-> from, force |-> force]

\* A mutant of SiblingJob: the garment's state is sent for the stage's name.
SiblingJobNamesState(g) == NewJob(g, "CROPPED", FALSE)
SiblingJob(g) == NewJob(g, "attributes", FALSE)

\* loaded, label: the garment's label in the session, as loaded and as it is
\* now; stage2: what became of the stage; found: the labels of the siblings it
\* spawns, of which the first gets id base + 1.  History: whether another run
\* of the garment had the lock when this one began.
Run == [job : Job, loaded : Labels \cup {NoLabel}, label : Labels \cup {NoLabel},
        stage2 : {"none", "SUCCEEDED", "FAILED"}, found : Seq(Labels), base : 0..MaxGarments,
        overtook : BOOLEAN]
NewRun(j, l) ==
    [job |-> j, loaded |-> l, label |-> l, stage2 |-> "none", found |-> <<>>, base |-> 0,
     overtook |-> FALSE]
RunOf(j) == NewRun(j, rows[j.garment].label)
Idle == NewRun(NewJob(1, "start", FALSE), NoLabel)

GarmentOf(p) == run[p].job.garment
SpawnIds(p) == {run[p].base + i : i \in 1..Len(run[p].found)}

Goto(p, l) == pc' = [pc EXCEPT ![p] = l]

Ask == asked < MaxRequests /\ asked' = asked + 1

\* A mutant of PutJob: no fallback, a job Redis does not take is dropped.
PutsInRedisOrDrops(h, j) ==
    \/ redis' = Append(redis, j) /\ UNCHANGED memory
    \/ MayFail /\ UNCHANGED <<redis, memory>>

\* LPUSH, or the process's own queue when that raises.
PutJob(h, j) ==
    \/ /\ redis' = Append(redis, j)
       /\ UNCHANGED memory
    \/ /\ MayFail
       /\ memory' = [memory EXCEPT ![h] = Append(@, j)]
       /\ UNCHANGED redis

SiblingInit ==
    /\ rows = [g \in Garments |-> NoRow]
    /\ born = 0
    /\ redis = <<>>
    /\ memory = [h \in Hosts |-> <<>>]
    /\ pc = [p \in Processes |-> "idle"]
    /\ run = [p \in Processes |-> Idle]
    /\ announce = [p \in Processes |-> <<>>]
    /\ asked = 0
    /\ lost = {}

-----------------------------------------------------------------------------
(* Requests                                                                 *)

\* POST /garments: the handler commits the row, then queues its job, unless
\* the caller drives the stages itself.
Upload(s) ==
    /\ born = 0
    /\ pc[s] = "idle"
    /\ \E auto \in {TRUE} \cup (IF MayStep THEN {FALSE} ELSE {}) :
          /\ rows' = [rows EXCEPT ![1] = UploadRow(auto)]
          /\ Goto(s, IF auto THEN "uploading" ELSE "idle")
    /\ born' = 1
    /\ UNCHANGED <<redis, memory, run, announce, asked, lost>>

UploadQueued(s) ==
    /\ pc[s] = "uploading"
    /\ PutJob(Api, NewJob(1, "start", FALSE))
    /\ Goto(s, "idle")
    /\ UNCHANGED <<rows, born, run, announce, asked, lost>>

\* POST /retry, with any stage or none, and POST /review with APPROVE.
RetryGarment(g) ==
    /\ Exists(g)
    /\ Ask
    /\ \E from \in {"start", "attributes"}, force \in BOOLEAN :
          PutJob(Api, NewJob(g, from, force))
    /\ UNCHANGED <<rows, born, pc, run, announce, lost>>

\* A run's first flush inserts its stage run, which holds the garment's row
\* against a DELETE until the commit; so does the flush of its siblings.
RowHeld(g) ==
    \E p \in Processes :
        /\ GarmentOf(p) = g
        /\ \/ p \in Loops /\ pc[p] = "running"
           \/ pc[p] = "committing" /\ run[p].found # <<>>

DeleteGarment(g) ==
    /\ Exists(g)
    /\ Ask
    /\ ~RowHeld(g)
    /\ rows' = [rows EXCEPT ![g].state = "deleted"]
    /\ UNCHANGED <<born, redis, memory, pc, run, announce, lost>>

-----------------------------------------------------------------------------
(* The worker loops: process_job                                            *)

\* The lock of garment g, while its key lasts: a run holds it to its commit, a
\* /step request only while the stage executes.
LockFree(g) ==
    \A p \in Processes :
        GarmentOf(p) = g =>
            pc[p] \notin (IF p \in Loops THEN {"running", "committing"} ELSE {"running"})

\* session.get: a job whose garment is gone is dropped.
LoadGarment(l, j) ==
    IF Exists(j.garment)
    THEN Goto(l, "loaded") /\ run' = [run EXCEPT ![l] = RunOf(j)]
    ELSE UNCHANGED <<pc, run>>

TakeFromRedis(l) ==
    /\ l \in RedisLoops
    /\ pc[l] = "idle" /\ redis # <<>>
    /\ LoadGarment(l, Head(redis))
    /\ redis' = Tail(redis)
    /\ UNCHANGED <<rows, born, memory, announce, asked, lost>>

\* A mutant of TakeFromMemory: the API does not start the task that drains its
\* own queue.
TakeInWorkerOnly(h) ==
    /\ h = Worker
    /\ pc[h] = "idle" /\ memory[h] # <<>>
    /\ LoadGarment(h, Head(memory[h]))
    /\ memory' = [memory EXCEPT ![h] = Tail(@)]
    /\ UNCHANGED <<rows, born, redis, announce, asked, lost>>

TakeFromMemory(h) ==
    /\ h \in Hosts
    /\ pc[h] = "idle" /\ memory[h] # <<>>
    /\ LoadGarment(h, Head(memory[h]))
    /\ memory' = [memory EXCEPT ![h] = Tail(@)]
    /\ UNCHANGED <<rows, born, redis, announce, asked, lost>>

\* Its row deleted since it was loaded, the first flush fails and the job is
\* dropped.
GarmentGone(l) ==
    /\ l \in Loops /\ pc[l] = "loaded"
    /\ ~Exists(GarmentOf(l))
    /\ Goto(l, "idle")
    /\ UNCHANGED <<rows, born, redis, memory, run, announce, asked, lost>>

\* Stage 2 is left out when the job starts after it, or when the latest run of
\* it succeeded and the job does not force.
NeedsCrop(l) ==
    run[l].job.from = "start" /\ (~rows[GarmentOf(l)].cropped \/ run[l].job.force)

\* With the lock; or without it, when its key has expired or the wait for it
\* has been given up.  Two runs may then be in stage 2 together: the row itself
\* keeps them apart only when the first stage had a change of it to flush, not
\* when the job begins at stage 2 or finds the garment classified.
BeginRun(l) ==
    /\ l \in Loops /\ pc[l] = "loaded"
    /\ Exists(GarmentOf(l))
    /\ Goto(l, IF NeedsCrop(l) THEN "running" ELSE "committing")
    /\ run' = [run EXCEPT ![l].overtook = ~LockFree(GarmentOf(l))]
    /\ UNCHANGED <<rows, born, redis, memory, announce, asked, lost>>

(***************************************************************************)
(* Stage 2 reads the labels of the photo's other garments, labels its own   *)
(* garment with the first region and adds a sibling for each further one.   *)
(***************************************************************************)
ExistingLabels(g) == {rows[h].label : h \in {h \in Garments \ {g} : Exists(h)}} \ {NoLabel}

\* A mutant of NewLabels: every region is split out again.
AllFurtherLabels(g, d) == IF d = <<>> THEN <<>> ELSE Tail(d)
NewLabels(g, d) ==
    LET kept[i \in 0..Len(d)] ==
            IF i < 2 THEN <<>>
            ELSE IF d[i] \in ExistingLabels(g) THEN kept[i - 1]
            ELSE Append(kept[i - 1], d[i])
    IN kept[Len(d)]

\* The process that ran the stage queues the siblings only after the commit.
\* A mutant of CropQueues: stage 2 queues them itself.
CropQueuesFirst(f) ==
    IF f = <<>> THEN UNCHANGED redis ELSE redis' = Append(redis, SiblingJob(born + 1))
CropQueues(f) == UNCHANGED redis

CropLabels(p) ==
    /\ pc[p] = "running"
    /\ Exists(GarmentOf(p))
    /\ \E d \in Detections :
          LET f == NewLabels(GarmentOf(p), d) IN
          /\ born + Len(f) <= MaxGarments
          /\ born' = born + Len(f)
          /\ run' = [run EXCEPT ![p].label = IF d = <<>> THEN NoLabel ELSE d[1],
                                ![p].stage2 = "SUCCEEDED", ![p].found = f, ![p].base = born]
          /\ CropQueues(f)
    /\ Goto(p, "committing")
    /\ UNCHANGED <<rows, memory, announce, asked, lost>>

\* A catalogue photo with no face keeps its label and has no siblings; a
\* failure of stage 1 or 2 ends the run and is recorded.
CropSkipsOrFails(p) ==
    /\ pc[p] = "running"
    /\ Exists(GarmentOf(p))
    /\ \E r \in {"none", "SUCCEEDED", "FAILED"} : run' = [run EXCEPT ![p].stage2 = r]
    /\ Goto(p, "committing")
    /\ UNCHANGED <<rows, born, redis, memory, announce, asked, lost>>

Spawner(p) ==
    IF p \in Handlers THEN "step"
    ELSE IF rows[GarmentOf(p)].by = "nobody" THEN "upload" ELSE "sibling"
Spawned(p) ==
    [g \in SpawnIds(p) |->
        SiblingRow(run[p].found[g - run[p].base], Spawner(p), run[p].base,
                   run[p].overtook)]

\* The commit of a run settles its garment; that of a /step on stage 2 leaves
\* it where it is in the pipeline.
StateAfter(p) ==
    IF p \in Loops THEN "settled" ELSE rows[GarmentOf(p)].state

\* Only a changed label is written.
RowAfter(p) ==
    LET r == rows[GarmentOf(p)]
        changed == run[p].label # run[p].loaded
    IN [r EXCEPT
          !.state = StateAfter(p),
          !.label = IF changed THEN run[p].label ELSE @,
          !.cropped = IF run[p].stage2 = "none" THEN @ ELSE run[p].stage2 = "SUCCEEDED",
          !.relabelled = @ \/ changed]

CommitSiblings(p) ==
    /\ pc[p] = "committing"
    /\ Exists(GarmentOf(p))
    /\ rows' = [g \in Garments |->
          IF g = GarmentOf(p)
          THEN RowAfter(p)
          ELSE IF g \in SpawnIds(p) THEN Spawned(p)[g] ELSE rows[g]]
    /\ announce' = [announce EXCEPT ![p] = [i \in 1..Len(run[p].found) |-> run[p].base + i]]
    /\ Goto(p, "announcing")
    /\ UNCHANGED <<born, redis, memory, run, asked, lost>>

\* The row was deleted under a run that had nothing to hold it with.
CommitFails(p) ==
    /\ pc[p] \in {"running", "committing"}
    /\ ~Exists(GarmentOf(p))
    /\ Goto(p, "idle")
    /\ run' = [run EXCEPT ![p] = Idle]
    /\ UNCHANGED <<rows, born, redis, memory, announce, asked, lost>>

AnnounceSibling(p) ==
    /\ pc[p] = "announcing" /\ announce[p] # <<>>
    /\ PutJob(HostOf(p), SiblingJob(Head(announce[p])))
    /\ announce' = [announce EXCEPT ![p] = Tail(@)]
    /\ UNCHANGED <<rows, born, pc, run, asked, lost>>

Finish(p) ==
    /\ pc[p] = "announcing" /\ announce[p] = <<>>
    /\ Goto(p, "idle")
    /\ run' = [run EXCEPT ![p] = Idle]
    /\ UNCHANGED <<rows, born, redis, memory, announce, asked, lost>>

-----------------------------------------------------------------------------
(* POST /step on stage 2                                                    *)

\* Refused while somebody has the lock; its key may have expired all the same.
StepCrop(s) ==
    /\ MayStep
    /\ pc[s] = "idle"
    /\ Ask
    /\ \E g \in Garments :
          /\ Exists(g)
          /\ run' = [run EXCEPT ![s] = RunOf(NewJob(g, "start", TRUE))]
    /\ Goto(s, "running")
    /\ UNCHANGED <<rows, born, redis, memory, announce, lost>>

-----------------------------------------------------------------------------
(* Failures                                                                 *)

\* What a process was going to do about a garment.
Held(p) ==
    {announce[p][i] : i \in 1..Len(announce[p])}
        \cup (IF pc[p] \in {"loaded", "running", "committing", "uploading"}
              THEN {GarmentOf(p)} ELSE {})
Remembered(h) == {memory[h][i].garment : i \in 1..Len(memory[h])}

DropWork(P) ==
    /\ pc' = [p \in Processes |-> IF p \in P THEN "idle" ELSE pc[p]]
    /\ run' = [p \in Processes |-> IF p \in P THEN Idle ELSE run[p]]
    /\ announce' = [p \in Processes |-> IF p \in P THEN <<>> ELSE announce[p]]

\* An exception escapes a job or a handler: the loop goes on with the next.
Raise(p) ==
    /\ MayFail
    /\ pc[p] # "idle"
    /\ DropWork({p})
    /\ lost' = lost \cup Held(p)
    /\ UNCHANGED <<rows, born, redis, memory, asked>>

\* A process dies, with everything it had in memory.
KillProcess(h) ==
    LET P == {p \in Processes : HostOf(p) = h} IN
    /\ MayFail
    /\ memory[h] # <<>> \/ \E p \in P : pc[p] # "idle"
    /\ DropWork(P)
    /\ memory' = [memory EXCEPT ![h] = <<>>]
    /\ lost' = lost \cup Remembered(h) \cup UNION {Held(p) : p \in P}
    /\ UNCHANGED <<rows, born, redis, asked>>

Work(p) ==
    \/ TakeFromRedis(p) \/ TakeFromMemory(p) \/ GarmentGone(p) \/ BeginRun(p)
    \/ CropLabels(p) \/ CropSkipsOrFails(p) \/ CommitSiblings(p) \/ CommitFails(p)
    \/ AnnounceSibling(p) \/ Finish(p)

SiblingNext ==
    \/ \E g \in Garments : RetryGarment(g) \/ DeleteGarment(g)
    \/ \E s \in Handlers : Upload(s) \/ UploadQueued(s) \/ StepCrop(s)
    \/ \E p \in Processes : Work(p) \/ Raise(p)
    \/ \E h \in Hosts : KillProcess(h)

SiblingSpec == SiblingInit /\ [][SiblingNext]_siblingVars

\* Loops poll, handlers that have started run on.  No request has to come.
SiblingFairness ==
    /\ \A p \in Processes : WF_siblingVars(Work(p))
    /\ \A s \in Handlers : WF_siblingVars(UploadQueued(s))

-----------------------------------------------------------------------------
(* Properties                                                               *)

SiblingTypeOK ==
    /\ rows \in [Garments -> Row]
    /\ born \in 0..MaxGarments
    /\ redis \in Seq(Job)
    /\ memory \in [Hosts -> Seq(Job)]
    /\ pc \in [Processes -> {"idle", "loaded", "running", "committing", "announcing",
                             "uploading"}]
    /\ run \in [Processes -> Run]
    /\ announce \in [Processes -> Seq(Garments)]
    /\ asked \in 0..MaxRequests
    /\ lost \subseteq Garments

JobsFor(q, g) == \E i \in 1..Len(q) : q[i].garment = g
Queued(g) == JobsFor(redis, g) \/ \E h \in Hosts : JobsFor(memory[h], g)

(***************************************************************************)
(* "Enqueuing before that commit would let the worker's separate DB session *)
(* try to load a row that isn't durable yet" (stage_02_crop.py): every job  *)
(* names a row that has been committed, wherever it is queued.              *)
(***************************************************************************)
JobsNameDurableRows ==
    \A g \in Garments : Queued(g) => rows[g].state # "absent"

(***************************************************************************)
(* A garment that is still as it was created has a job, or somebody who is  *)
(* about to make one, or is in a worker's hands, unless its job died with a *)
(* process or a handler.  Spawned siblings, the Redis fallback and deletes  *)
(* lose no garment by themselves.                                           *)
(***************************************************************************)
OnlyFailureStrands ==
    \A g \in Garments :
        rows[g].state = "new" =>
            Queued(g) \/ g \in lost \/ \E p \in Processes : g \in Held(p)

(***************************************************************************)
(* Deduplication by (source image, label) splits a region out once, however *)
(* often the photo's garments are retried, deleted and crashed under: two   *)
(* siblings are spawned for one label only when one detection lists it      *)
(* twice, when a sibling was itself put through stage 2, when /step, which  *)
(* commits after it has released the lock, ran stage 2, or when a run went  *)
(* ahead while another run of the garment had the lock: it reads the labels *)
(* before the other has committed its siblings.                             *)
(***************************************************************************)
BatchCause(r, s) ==
    \/ r.batch = s.batch
    \/ \E x \in {r, s} : x.by \in {"sibling", "step"} \/ x.overtook \/ x.relabelled
SecondBatchHasACause ==
    \A g, h \in Garments :
        /\ g # h /\ Exists(g) /\ Exists(h)
        /\ rows[g].spawned # NoLabel /\ rows[g].spawned = rows[h].spawned
        => BatchCause(rows[g], rows[h])

\* Every garment that is not driven by hand leaves the state it was created
\* in, is deleted, or lost its job to a failure.
EveryGarmentSettles ==
    \A g \in Garments :
        rows[g].state = "new" ~> rows[g].state \in {"settled", "deleted"} \/ g \in lost

=============================================================================
