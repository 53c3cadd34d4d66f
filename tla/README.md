# Closet theory pipeline: a TLA+ verification

The program is a wardrobe service: photos of clothes go through a nine-stage
pipeline of vision models and rules and become garments; a styling engine
assembles outfits from them, stores them, and lets the wearer swap garments,
rate outfits and receive one outfit a day. It is an asyncio FastAPI
application with PostgreSQL, Redis and background workers, and what is hard to
test in it is what happens *between* awaits: several processes write the same
rows through SQLAlchemy sessions that hold old copies.

This project models that part: the execution lock, the garment pipeline and all the
endpoints that write a garment, the queue and the siblings of one photo, streamed styling
runs, swaps, the outfit of the day and the ledger of opinions. It also models what is
judged in between, because the hard part there is failure: the stages that look at a photo
with every model call that may fail, the styling request from filters to stored outfits,
what votes make of a pair, the stylists' panel and its report, and the pictures in object
storage. TLC checks each model on a small instance; TLAPS proves the results listed below
for every instance. `PROJECT.json` maps every definition to the lines it models.

Paths below are relative to `src/app/` unless they start with `docs/`.

## 1. The system

### Components, their state and what makes them correct

| Component | State | Operations | Correct when |
|---|---|---|---|
| Execution lock (`pipeline/lock.py`) | one Redis key per garment, with expiry; who is inside | acquire, poll, give up and go on, refuse, compare-and-delete, expiry | nobody deletes another's key; two executions overlap only for a known cause; a waiter gets in; an orphan key goes away |
| Orchestrator (`pipeline/orchestrator.py`, `state_machine.py`, `models/pipeline_stage.py`) | `Garment.status`, `quality_status`, attributes; `PipelineStageRun` rows | one run: per stage skip or execute, record, transition, stop; one commit | only verdicts are committed; a garment whose jobs all met the halting stages is COMPLETED only past them; every job ends |
| Stages 1-9 (`pipeline/stages/*`) | columns of the garment, derived rows | execute | each verdict is handled by its caller |
| Garment endpoints (`api/v1/garments.py`) | the same rows, from request sessions | upload, bulk upload, delete, step, retry, review | a step never regresses a garment, a held review stands, a decision takes effect |
| Queue and workers (`worker/queue.py`, `runner.py`) | Redis list, one in-memory queue per process | LPUSH with fallback, BRPOP loop, memory loop | jobs name durable rows; no garment is forgotten |
| Photo siblings (`stages/stage_02_crop.py`) | garments that share a source image, their labels | split, deduplicate by label, announce after commit | a region is split out once, but for known causes |
| Streamed runs (`api/v1/styling.py`, `models/styling_run.py`) | `StylingRunProgress` rows, asyncio tasks, client streams | supersede, checkpoint, succeed, fail, abandon when stale | the trace is what ran; *done* is durable; live runs are not swept; dead ones are; the client hears the end |
| Styling pipeline (`styling/orchestrator.py` and helpers) | `StylingRequest`, `Outfit`, `OutfitGarment` | filter, assemble, rank, validate, imagine, gate, store, replay | all or nothing: at most `top_k` outfits of garments that still exist, different and complete ones where the program itself assembles them; an empty answer says why |
| Outfit swap (`styling/swap.py`) | `OutfitGarment` rows, the outfit's image | direct swap, chat swap | no rejected pair, no garment twice, the image shows the outfit |
| Pair rules (`rules/pairing.py`, `layering.py`, `structural.py`, `styling/compatibility.py`) | none | verdict of a pair | |
| Outfit of the day (`styling/ootd.py`, `worker/ootd_scheduler.py`) | one pick per member and day, subscriptions | read or generate, force, daily batch | a pick is replayable; it is replaced on purpose only; the batch reaches everybody |
| Taste ledger (`styling/behavior.py`, `rules/style_profile.py`) | `OutfitVote`, `StyleProfile` | thumb, star review, lessons | row and profile change together; opinions are neither lost nor stacked; no deadlock |
| Pair reputation (`rules/feedback.py`, `rules/wardrobe_behavior.py`) | none: rebuilt from `OutfitVote` for every request | weights of a vote, decay, pairs that are skipped | age only forgives; praise inside a dislike is not blame; three dislikes skip a pair |
| Stylists' panel (`api/v1/personas.py`, `api/v1/admin.py`, `metrics/stylist_kpis.py`) | `UserRole`, `PersonaAssignment`, `PersonaOutfitReview` | grant, revoke, assign, review, report | an exclusive character has one stylist, somebody remains admin, the report adds up |
| Model calls (`providers/`, stages 1-4, `schemas/attributes.py`) | the attempts of one stage | classify, detect, verify, extract, validate, draw | nothing that no model said is believed; another vendor gets a turn; the verdicts are those the orchestrator knows |
| Pictures (`api/v1/images.py`, `storage/`, stage 4) | objects by key, `ImageAsset` rows, cached thumbnails | upload, draw, serve, cache | an asset shows its own picture |
| Authentication, schema sync, static UI, scripts, deployment | users, tokens | | |

### How they interact

Every request and every worker job has a database session of its own
(`autoflush=False, expire_on_commit=False`). It loads rows once, keeps those
copies for its life (the identity map does not refresh them on a later select),
and at a flush writes only the columns that differ from what it loaded. From the
flush of an UPDATE to the commit PostgreSQL keeps the row locked. Redis carries
jobs and the execution lock. A worker process runs five job loops and the daily
batch (`worker/runner.py:16-20`); production runs two API processes. Process
memory holds the fallback queue, the `/step` API-key lock and streams.

### Where it is hard

* **Stale copies.** `process_job` loads the garment before it waits up to 60 s for
  the lock; `/step` before it waits for two locks; a swap before model calls.
* **A lock that is advisory.** It expires, a worker gives up waiting and goes on
  anyway, and `/step` releases it before recording anything.
* **Effects in two places.** A job is queued before (review) or after (siblings)
  the commit it depends on; a checkpoint, an event and a commit are separate.
* **Death between two steps.** After BRPOP nobody else knows the job; after a commit
  nobody else knows the siblings; a RUNNING row outlives its task.
* **Lazy recovery.** Nothing abandons a dead run until somebody asks.
* **Models that fail.** Each call may time out, refuse, or answer something that only
  looks like an answer; some verifiers fail open (regions, attributes), one fails closed
  (pictures), and heuristics and mocks stand behind several providers.
* **Overlapping administration.** Two admins' requests each decide from what they read.
* **A key that is reused.** A redrawn canonical picture replaces the old one's bytes
  before its own row is committed, beside a cache that is keyed by content.

`PROJECT.json` "hazards" lists each at its line with the properties that cover it.

## 2. The modules

| Module | Models | Composition |
|---|---|---|
| `ExecutionLock` | the lock without clocks: any holder may expire, any waiter may give up | the abstract specification |
| `TimedExecutionLock` | the lock with TTL, lease, poll and wait clocks | implements `ExecutionLock` (`LockSpec`) |
| `PipelineStages` | the stages' verdicts and the two transition functions | operators |
| `GarmentPipeline` | one garment: workers, `/step`, `/retry`, `/review`, crashes | extends both above; implements `LockSpec` |
| `PhotoSiblings` | the garments of one photo and the jobs in Redis and in memory | one level above `GarmentPipeline`: a run is four steps |
| `StylingRuns` | streamed runs of one wardrobe | |
| `GarmentRules` | which pairs are rejected | operators |
| `OutfitSwap` | swaps of one outfit, deletions | extends `GarmentRules` |
| `OutfitOfTheDay` | requests and the daily batch of one day | |
| `TasteLedger` | votes and lessons on one outfit | |
| `Shortlist` | what one styling request promises, in one step | abstract |
| `OutfitAssembly` | one styling request through its ten stages, with deletions meanwhile, and its replay | extends `GarmentRules`; implements `Shortlist` (`PromiseKept`) |
| `PerceptionStages` | stages 1 to 4, model call by model call | instantiates `PipelineStages` as its contract |
| `CharacterPanel` | roles, assignments, reviews and the report, in overlapping requests | |
| `PairReputation` | votes, their reasons, their age, and the pairs that are skipped | |
| `GarmentPictures` | object storage, asset rows, the picture endpoint and its cache | |
| `MC*` | instances for TLC | `MCWorkers`, `MCStyling` and `MCStudio` each put modules side by side |
| `*Proofs` | theorems | |

### Code to model

**Lock.** `key` is the Redis key and `inside[p]` where a process is in the `async with`
statement: "outside", "waiting", "locked", or "unlocked" when `lock.py:87-91` went on
without the key. `TryAcquire`, `ProceedAnyway`,
`Busy`, `Release` (the Lua script), `ReleaseFails` (its exception is logged,
`lock.py:49-52`). The timed module adds `expiry` (what the key has left), `elapsed` (how long
a process has been inside) and `waited` (how long it has polled).

**Garment pipeline.** `db` is the committed row (status, quality, attributes), `runs` the
committed stage run with the latest `started_at` per stage. `sess[p]` is a session:
`cur` the object, `base` its columns as last loaded or flushed, `written` the columns flushed
in this transaction (that is: the row lock), `own` its uncommitted runs. A worker is
`TakeJob, EnterLock, (ReuseStage | NeedStage, StartRun, ExecuteStage)*, CommitRun,
FinishJob`, one action per stretch between awaits that others can see; `/step` is
`StepArrives, StepBegins, StepExecutes, StepRecords`, with the lock released at the end
of `StepExecutes` (`garments.py:507`). Reviews queue, then commit. The status of a garment
in between is the index of its stage, so `GarmentStateOrder` is the code's order.

**Photo siblings.** A row is absent, new, manual, settled or deleted, with its label.
`PutJob` is LPUSH or the process's own queue. `CropLabels` is stage 2: it reads the
labels committed for the photo (`stage_02_crop.py:148-152`), labels its garment and
makes siblings, which `CommitSiblings` makes durable and `AnnounceSibling` queues. The
execution lock keeps two of these runs of one garment apart only as long as its key lives and
its waiter waits (`lock.py:59`, `87-91`), so `BeginRun` is not guarded by it: a run may begin at any
moment, and records in `overtook` whether it found another run of its garment under way.

**Streamed runs.** `progress` are the rows, `task` a request from its UPDATE of older
rows to the end of its task. `quiet` is the time since `updated_at`. A run that raises
ends in the handler of `styling.py:186-193`, which opens a session, loads the row and commits:
`RunFails` is the handler that gets through, `RunLost` the one that raises itself, after which the row
stays RUNNING, nothing is put in the stream, and the client is sent heartbeats. What is
put in a stream that nobody reads any more is left out (`Put`).

**Swap.** `worn` maps a role to its garment: an outfit of the engine has one row to a role.
`swap[r].view` is what the session loaded. `SecondLoad` is the second `_load_outfit` of
the chat path: rows it knows stay old, cascaded rows are missing.

**Outfit of the day.** One action up to the first await of the pipeline (`Ask`),
`DayRunCommits` (the orchestrator commits its own request), `LooksAgain`, then the
upsert: update of the row found, insert, or conflict with the unique key.

**Taste ledger.** A value in a row or a column is the request that wrote it. A thumb
takes the profile, then its row; a review its row, then the profile. Who has flushed a row
holds it until the end, also while a review inserts a profile.

**Styling request.** `phase` is the stage that ended last. Each stage is one action, since a
stage has no effect another request sees before the single commit (`Store`); a model call
that raises is `Raises`. `pool` is `garments_by_id`, `built` what is scored, `list` the
ranking and then the finalists, `trace` the counters that `derive_no_outfit_reason` reads,
`rows` the committed outfits. `DeleteGarment` and `RejectGarment` go on beside it;
`ForeignKeysHold` is the database refusing rows of a garment that is gone. `Replay` is
`styling/replay.py` reading the same request later. A score is any of a few numbers; what is
done with scores (the layer margin, the diversity penalty, ties) is kept. Hopit's answer is handed on
as it comes (`hopit_adapter.py:26-54`): `HopitAnswers` has any number of outfits up to `MaxAnswered`,
any sets of garments of `HopitOutfits`, incomplete ones, empty ones and repeats among them. (An outfit is
a set of garments, so a garment that Hopit names twice in one outfit is named once.)

**Model calls.** `heard` is who was asked in the current stage and what came of it. One
action is one call with what the stage does on its answer. `Extractions` has one shape
for each step of the validation that may refuse an answer (`schemas/attributes.py`), and the
subcategories, aliases and spellings with which the taxonomy is decided. `setup.keys` are the API keys
there are, each of its own (`config.py:52`, `84-85`): who is asked without the key he needs does not ask, and
an extractor without one answers with placeholder attributes. `setup.model` is whose model
`ATTRIBUTE_MODEL_NAME` names, which is what a configured "gemini" asks for
(`attributes/__init__.py:26-31`). `report` is what `execute` returned and the garment before it.

**Panel.** A request is two actions, what it reads and its commit, and holds in `request` what
it read. `shared` and `unwatched` record the named causes that the properties except.

**Pair reputation.** `book` are the `OutfitVote` rows with the weights derived when they were
written; the model of a member's taste is a function of it, as it is rebuilt for every
request.

**Pictures.** `objects` is the store, `assets` the rows, `drawing` the sessions of stage 4 between
`put_object` and the commit, `reading` the requests for a picture between their awaits. A
picture is its own hash. `drawn` and `made` count how often a key was written, to say which
assets were drawn over.

### What is abstracted

* Images, embeddings, scores, texts and model answers are nondeterministic verdicts or
  one of a few values; the attribute object is one of a few values (`Attrs`, and in
  `PerceptionStages` its subcategory, class and sleeves).
* Votes decay in steps of some nineteen days, each leaving four fifths of a vote; weights and scores are integers (hundredths,
  thousandths), rounded down.
* `OPENROUTER_MODEL` and `VISION_VERIFIER_MODEL` are taken to be their defaults, a model of OpenAI's
  and one of Google's.
* Attempt numbers are left out: only log lines read them. `ctx.force` is read by no stage.
* Some stages flush on their own; the columns they flush are not among the modelled
  ones, except through the row lock of `StartRun`, which comes first in every run.
* `Crash` also stands for a handler that raises: both roll back and answer nothing that
  is durable. `KillProcess` and `RunDies` are the death of a process.
* `started` is the clock of `started_at`: per stage and strictly increasing.
* One tick stands for any stretch of time; only the order of deadlines is kept.
* A database failure is a rollback; PostgreSQL and Redis keep what they acknowledged.

## 3. The runs

Passing runs:

| Run | Instance | Properties and what they show |
|---|---|---|
| `workers`, scene lock | 2 workers, 1 `/step`, TTL 3, wait 1, crashes, failed releases, expiry | `LeaseIntact`: a fresh holder's lease is nobody else's to shorten, so a late release cannot delete a successor's key. `LockSpec`: the timed lock implements the untimed one. `WaiterGetsIn`. |
| `workers`, scene siblings | one photo, up to 3 garments, Redis and both memories, 1 request, all failures | `JobsNameDurableRows`, `OnlyFailureStrands`, `EveryGarmentSettles`. `SecondBatchHasACause`: a region is split out a second time only by `/step`, by a sibling put through stage 2, for a label listed twice or changed since, or by a run that overtook another (the key had expired or the wait was given up). |
| `pipeline_workers` | nine stages, 2 workers, 1 reviewer, 2 requests | `CompletedHasPassed`: as long as every job of the garment met the halting stages (`EveryJobMeetsVerdicts`), the last run of each is a success when the garment is COMPLETED. Retries are from the stages 1 and 2, plain and forced; a retry from a later stage does take a held garment past a verdict (section 5). `OneWithUncommittedRuns`. |
| `pipeline_overlap` | four stages, 2 workers, reviewer with every decision, expiry, giving up, crashes | `NoHalfwayStatus`: whatever overlaps, what is committed is a verdict. `EveryJobEnds`: whatever became of the holder of the lock. |
| `pipeline_steps` | five stages, 2 `/step` requests, worker, reviewer, expiry, crashes | `HeldReviewStands`: a garment held for review is not promoted by a step whose copy is current. `EveryStepAnswered`. |
| `styling` | four scenes, below | the properties of the four modules, 160,000 states |
| `studio` | five scenes, below | the properties of the five modules, 684,000 states |

Modules that share no state are put side by side: the initial state chooses the scene
that is played and the others stand still. Fairness of a scene that is not played demands
nothing, because none of its fair actions is enabled in its initial state (which is why
the day's scenes other than its own start after today's batch, and why nobody polls and
no key expires in the initial state of the lock).

The scenes of `styling`: two streamed runs of two stages with a staleness limit of two
ticks and stages of at most one; two swaps in an outfit of three from a wardrobe of five
garments among which two layers clash; two members, a caller and the batch; two thumbs
and a star review of one person.

| Properties of `styling` | Say |
|---|---|
| `TraceIsWhatRan` | The row a client resumes from is the run, in order. |
| `TwoActiveOverlapped` | Two runs of a scope are RUNNING only if their requests' transactions overlapped. |
| `SweptRunsAreDead`, `DeadRunAbandoned`, `ClientHearsTheEnd` | The sweep takes no live run whose stages keep within the limit, takes every dead one; a connected client hears the end, unless the run failed and its handler with it (`RunLost`), when it hears only heartbeats. |
| `SoundWithoutOverlap`, `PictureIsCurrent` | Swaps that do not overtake one another keep the outfit free of rejected pairs; the picture shows it unless a named cause applies. |
| `ReplacedOnPurpose`, `BatchReachesAll` | Replacing a pick needs force or a race of first requests; the batch survives failures. |
| `AllOrNothing`, `OpinionsKept`, `EveryBallotAnswered` | Vote and profile commit together; requests that did not race leave the last opinion whole; the two lock orders do not deadlock. |

The scenes of `studio`: a closet of six garments (two tops, trousers, a dress, a coat, a bag)
under nine requests with and without anchors, Hopit, an occasion, genders, colours and a
skipped pair, while a shirt and a dress may go, and Hopit answers with up to four outfits of which
some are incomplete, empty or repeated; nine configurations of providers, models and API keys, among
them a primary whose alternate and whose verifier have no key, and "gemini" as it is by default; two accounts that are both admins and two
characters, two requests at once and four in all; four voters on one pair, three opinions,
three ages; two photos, one garment drawn by two sessions, two readers, a gate of one.

| Properties of `studio` | Say |
|---|---|
| `PromiseKept` | A request, with all that fails in it and is deleted under it, is one step of `Shortlist`: an error and no rows, or at most `TopK` outfits, from the one look it took at the wardrobe and from garments that still exist; and those it ranked itself are different and dress a body. Of Hopit's ranking only the former holds, since nobody checks it. |
| `EmptyIsExplained` | An empty answer names the stage that left nothing, and reading the request again gives the same reason and the same outfits, less the garments deleted since. |
| `StagesKeepTheirContract` | What stages 1 to 4 return on every path of failure is among the results `PipelineStages` allows them: the contract on which `GarmentPipeline` is checked and proved is kept by the code behind it. |
| `OutageIsNeverTrusted` | No heuristic classification passes as confident, no placeholder attributes are stored, no unverified picture is kept; the exceptions are named: MODA_NER and NVIDIA NIM, FLUX, and a setup in which an extractor or the verifier has no key. |
| `SecondVendorGetsItsTurn` | Nobody gives up, or falls back on a heuristic, before another vendor was asked, except under "gemini" as it is by default, where both attempts ask OpenAI. |
| `ExclusiveUnlessOverlapped`, `AnAdminRemains` | A character has two stylists, or the service no admin, only if two requests overlapped. |
| `ReportAddsUp` | No backlog is negative though rows arrive between the report's queries, and the characters' backlogs add up. |
| `AssetsShowThemselves` | What is served of an asset, from its key or from the cache, is its own picture, unless it was drawn over or shares the thumbnail of one that was. |
| `TimeOnlyForgives`, `PraiseIsNotBlame` | The passing of time makes no pair one that is skipped; a first vote does not lower a piece that its comment praises. |

Each property of a passing run has a mutant in its module, a plausible bug that the run then
finds.

Runs that are meant to be violated; each is a disagreement of the code with its own text.

| Run | Text | What TLC finds |
|---|---|---|
| `step_regresses` | "Only ever ADVANCES garment.status, never regresses it" (`garments.py:535`) | The comparison is with the copy loaded before two waits. A worker commits meanwhile; the step's older status overwrites it. |
| `reuse_input` | "Composite idempotency key: garment_id + stage + input_hash + ..." (`README.md:57`) | The check looks at garment, stage and verdict only; a stage is skipped after the attributes changed. |
| `retry_past_review` | stage 9 completes a garment "if `quality_status` is not already `REVIEW_REQUIRED`" (`docs/PIPELINES.md:387`) | After a stage-5 review a plain retry ends COMPLETED with quality REVIEW_REQUIRED: stage 5's new success carries no quality, stage 9 leaves the garment alone, the orchestrator's own transition completes it. |
| `abandoned_run` | "RUNNING -> ABANDONED" as a final status (`models/styling_run.py:29`) | The superseded task is never cancelled and records SUCCEEDED over it. |
| `swap_skew` | "rather than silently allowing a broken outfit" (`styling/swap.py:9`) | Two swaps of different roles, each checked against what it loaded, leave two outer layers. |
| `three_dislikes` | "Three pure dislikes and no likes give exactly -3 / (3 + PAIR_PRIOR) = -0.6", and such a pair "is skipped outright" (`rules/wardrobe_behavior.py:50`, `:27`) | Ages are counted from the votes' own dates, so three dislikes score above -0.6 as soon as one of them has aged at all; the unit test dates all three "now". |

### Bounds

The largest conflicts in the code are between two: two workers of one garment, a step and a
worker, two posts, two swaps, two callers. Three processes appear where a third changes
something (a holder that died, one that expired, one that waits). Shorter pipelines
(`Three`, `Four`, `Five`) keep a stage of each kind: one that only advances, halting ones,
the one that makes attributes, the one that finalises; `pipeline_workers` uses the
nine of the code. Retries and requests are bounded by `MaxRequests` because the queue is
unbounded; two are enough for a run, a decision about its verdict and a run after it.
Three garments of one photo make two batches of siblings possible. `Ttl = 3 >
MaxWait = 1` keeps the code's order (the key outlives a wait).

In `studio`, `TopK = 2` with a fallback depth of 1 keeps a finalist in reserve; four
combinations out of more than four make the diversity cap bite; four outfits of Hopit's are one more
than go on to their pictures, and room for a repeated and an incomplete one among them; three scores with a margin of one
tell a layer that improves from one that does not; two attempts at attributes and three at a picture
are the code's; four votes are one more than the three that skip a pair; ages of 0, 19 and
38 days lie within one half-life of 60, which is where the threshold is crossed.

Deadlock is checked except where the system may stop: when every request of the bound has
been answered in `workers`, `styling` and `studio`.

### Fairness

Weak fairness of each worker loop, handler or task that has started, of the polls of a
worker that waits, of key expiry, of time and, for `DeadRunAbandoned`, of somebody asking for the active run: the event loop runs
what is ready, and a row lock or a Redis key is awaited with a queue, not with luck. No
fairness for arrivals, failures, crashes, expiry under a live holder, giving up,
deletions. `WaiterGetsIn` needs no strong fairness because a waiter goes on after
its wait. Nothing in `studio` is fair: its properties are about safety.

## 4. What is proved

Proofs are in the `*Proofs` modules and hold for every value of the constants under the
named assumptions of the modules. Each invariant below is inductive as it stands; TLC was
asked first whether it holds on the instance of its run. Between them the theorems state every invariant and
every action property of the passing runs, and the refinements of the lock and of `Shortlist`.

Components that share no state are checked in one run as scenes of one specification. Theorems about a
component start from its own specification; `WorkersPlayBoth`, `StylingPlaysAll` and
`StudioPlaysAll` carry them over: the specification the run explores implements every
component's, and from this the types of all scenes follow (`WorkersTypeCorrect`,
`StylingTypeCorrect`, `StudioTypeCorrect`).

**`TimedExecutionLockProofs`.** The inductive invariant `Lease` is types, `KeyAlwaysExpires` (a key
exists exactly while it has time left) and `LeaseIntact` (a holder younger than the TTL owns the
key, and the key has what is left of its lease). The last two are inductive only together: an
acquisition needs the key absent, which the lease of a fresh holder excludes. From it
`TimedTypeCorrect`, `LeaseTheorem`, `KeyExpiryTheorem` and `OverlapTheorem` (two executions
overlap only after an expiry or a given-up wait: two fresh holders would both own the key). `TimedImplementsLock` maps each timed action to the untimed
action or a stutter.

**`GarmentPipelineProofs`.** Nine theorems about one garment.

* `PipelineUsesLock`: every step of the pipeline is a step of the lock or leaves it alone.
* `PipelineTypeCorrect`: `TypeOK` becomes inductive with `AtAStage` (who is past arriving is at a
  stage of the pipeline).
* `OneWorkerAtATime` (without expiry under a live holder and without giving up): whoever executes
  holds the key (`HolderHasKey`), and a worker has uncommitted runs only while it executes
  (`WorkIsLocked`).
* `OnlyVerdictsCommitted` (workers and reviewers, no `/step`): a worker that reaches its commit has
  a verdict in memory (`CommitsVerdict`), a reviewer changes the status to FAILED or not at all
  (`ReviewsOnlyReject`), and a commit that does not write the status is one whose copy had a
  verdict when it was loaded, and the row has had one ever since (`StaleVerdict`).
* `CompletedGarmentsPassed`: a COMPLETED garment has attributes, and the last run of every halting
  stage is a success. Its hypotheses name what would break it: no `/step` request, no
  expiry under a live holder, nobody gives up waiting, a pipeline that makes attributes, and jobs
  that meet every halting stage (`EveryJobMeetsVerdicts`: a job starts at or before the first of
  them, a forced one before it, and no override). Uploads, siblings, approvals and
  retries from the first stage are such jobs in the code's pipeline. The invariant `PassedInv` says that jobs in
  the queue and in hand start there (`JobsMeetVerdicts`), that an uncommitted run is later than the
  committed one (`RunsAreInOrder`), that no session writes the absence of attributes (`AttrsStay`,
  `AttrsMade`), and what a worker knows before, in and after a stage (`RunFacts`). The subtle part
  is `Ended`: a run that stops at a verdict must write it, unless its copy already had one when
  it was loaded; then the garment cannot have been completed meanwhile, because a worker that
  halts at its first stage found it otherwise. `NineStagesPassed` is the same of the code's own
  pipeline (`Nine`), where the hypotheses on stages and jobs come down to: no override, and retries from
  the attributes or before, a forced one from before them.
* `HeldReviewsStand` (everything, `/step` included): a request computes from the copy it loaded
  (`ComputesFromCopy`), and no stage but the attributes changes a held garment (`HeldStays`), so a
  step whose copy is current leaves it held or fails it. From the same invariant
  `StepsRegressOnlyStale`: what `/step` commits is an advance on the copy it loaded, so the comment
  that the run `step_regresses` refutes is true of a request whose garment still has the status it loaded.
* `JobsAreBounded`: `StepsLeft`, three for each stage ahead and those around them, falls with every
  move of a worker on its job. This is what `EveryJobEnds` needs besides fairness.

**`WorkersProofs`.** On the jobs of a photo one invariant, `SiblingInv`, gives types, `JobsAreDurable`, `NobodyStrands`
and `SplitOnce`. Numbers are handed out before rows exist, so a process that is about to commit
siblings keeps their numbers to itself (`PendingAreApart`), and what is still to be announced
has been committed (`AnnouncedAreDurable`). A garment that is still new is queued, lost by a named
failure, or carried by a process that is about to queue it or works on it (`NewAreCarried`).
That a region is split out once rests on the lock, as far as that goes: of two loops inside runs of one
garment one has overtaken the other, and knows it (`SecondOvertakes`). Between the read of the photo's
labels and the commit of a run that overtook nobody, only runs that did can add one, so what it is
about to write is new but for theirs (`PendingAreNew`). Nothing is assumed of the key's expiry or of
those that wait for it: `overtook` is one of the causes that `SecondBatchHasACause` names.

**`OutfitSwapProofs`.** `SwapInv` adds to the properties that a chosen garment fits the view
it was chosen for (`ChosenFits`) and that no role is empty before something is deleted
(`FilledUntilDeleted`). That a pair's verdict does not depend on its order is a lemma about the rules. A
swap that is not overtaken then commits what it checked, minus what was cascaded
(`SwapsKeepOutfitSound`, for any wardrobe and looks); `SwapsKeepPicture`, `OutfitsWornAreKept`,
`SwapTypeCorrect`.

**`StylingProofs`.** *Streamed runs.* In `RunsInv` the place of a task tells what its row holds (`TracesFollow`:
`TraceIsTrue` follows, a trace being the stages in order and one behind the task only between a stage
and its checkpoint); requests whose transactions are open together have noted each other
(`PostersAreRivals`), and a RUNNING row is seen by a later request or is a rival's (`PostersSee`),
hence `OnlyRivalsAreActive`. `SweepSparesTheLiving` assumes that a stage takes less than the staleness
limit, and needs to know how long a row may have been quiet at each place (`QuietIsShort`); a task that is lost counts as
dead. `AnEndIsFinal`
says what is left of the life cycle that the run `abandoned_run` refutes: SUCCEEDED and FAILED are final, and
ABANDONED ends otherwise only through the task that was superseded alive. A request abandons only
rows that are RUNNING when it commits (`AbandonsTheRunning`), because nobody else holds them
(`AbandonsAlone`). `ClientsAreToldTheTruth` relates the stream to the row: who has heard "done" finds it
SUCCEEDED and who has heard "error" FAILED, because the row is written before its event is sent
(`EndIsKnown`) and an end is final.

*The outfit of the day.* `DayInv`: a run that will be stored was forced, or its call had found no
pick (`StoresOnPurpose`). Hence `PicksAreReplacedOnPurpose`.

**`TasteLedgerProofs`.** In `LedgerInv` two requests never hold one row (`RowsAreApart`), what was
flushed still fits the committed row (`FlushesFit`), a profile is inserted only where none is
committed (`CreatesTheFirst`), and no copy of the profile contains an opinion that is not committed
(`CopiesAreCommitted`). `VotesAreAtomic` and `OpinionsAreKept` follow for every set of voters.

**`PanelReputationProofs`.** Two modules whose counts are sums over finite sets, with the lemmas on
those sums in front (monotone, additive, begun with any term, scaled).

* *The panel.* Requests decide from what they have read. `PanelInv` says what is still so
  when they commit: of two requests that get in each other's way neither counts as alone
  (`RivalsKnow`), an exclusive assignment that is alone has read everybody it must end
  (`OthersAreAll`), a lone revocation leaves another admin (`AnotherAdmin`), a report has read the
  outfits after the reviews (`ReportInOrder`). `PanelExclusive`, `PanelKeepsAnAdmin` and
  `PanelReportAddsUp` follow.
* *Votes.* `ReputationInv` gives the rows of the ledger their types and ranges: a garment's weight
  is at most two whatever chips and comments say (`FactorRange`, `GarmentWeightRange`), a pair's
  at most four, or two if it is blamed itself (`PairWeightRange`). `PraiseNeverHurts`: a first vote is heard of a garment
  in one way, that of its comment (`HeardAsMeant`); the evidence and the number of partners of
  that way grow, those of the other way stay (`OneVoteMore`); and the rounded score is monotone in
  all four (`ScoreRises`, `ScoreFalls`). `TimeForgives`: a step of time leaves every vote the same share
  (`AllFadeAlike`), hence every sum (`EvidenceFades`), while the prior stays; if the rest is
  damning, so was the whole (`ShareOfLowScore`). This rests on the assumption that `Decay` is
  exponential (`0.5 ** (age / HALF_LIFE_DAYS)`), stated in `ReputationAssumption`: with a
  decay that only decreases, or with rounded shares, likes could fade faster than dislikes.
  `DislikesBlockWhileFresh` is the true part of the comment refuted by the run `three_dislikes`: the
  sum of three dislikes reaches the threshold exactly (`SumAtLeast`), and only unfaded (`NoneHasFaded`).

**`StudioProofs`.** Three parts, on modules that share no state.

* *A styling request.* `AssemblyInv`: the request looks at its garments once (`LooksOnce`), what is in
  the running is a list of different complete outfits of those (`InTheRunning`), and nothing
  is stored before everything is, with what the trace says of it (`StoredAtOnce`).
  `RequestImplementsShortlist` maps the first look and the close to the two steps of `Shortlist` and
  the other stages to stutters, for every finite wardrobe, all rules and scores, and whatever Hopit answers:
that outfits are different and whole is part of the invariant only where the request ranked them itself;
  `EmptyAnswersAreExplained` is read off `StoredAtOnce`.
* *Pictures.* `PicturesInv`: what lies under a key is the picture it was put there for unless another
  was drawn over it (`RowsHold`, `DrawingsHold` before the row is committed), and the same passes
  to a cached thumbnail (`ThumbsFit`), to what a request holds between its awaits (`ReadingsFit`)
  and to what was served (`ShownFit`). Uploaded keys never collide because they are numbered
  (`KeysAreNumbered`). Hence `AssetsShowTheirPictures`.
* *The stages that look at a photo.* `LooksInv`: classifiers and detectors are asked in
  their order and extractors by attempt (`AskedInTurn`), nobody more often than he may be
  (`WithinTries`), and what is to be verified is there (`WorkAtHand`). `ContractIsKept` needs no
  more. `OutagesAreNotTrusted` has no hypothesis: attributes carry as history whether a model looked, since
  a placeholder is an Oxford shirt that could as well have been extracted. Whoever has a key answers or
  fails, so invented attributes come only from one who has none (`EveryoneHasAKey`).
  `AnotherVendorIsAsked` assumes more than one try (the code has two, `ATTRIBUTE_MAX_RETRIES`) and excepts
  the setup that names one vendor twice (`SameModelTwice`).

Facts about sums and about recursive functions (`NewLabels`, `ThoseIn`, `SumFunction`) are proved by
induction over a set of numbers or of subsets (`NaturalNumbers`, `Subsets`), from the
well-foundedness of < and of inclusion. Some operators are recursive functions on a domain for
this reason, where a fold would say the same.

**Model-checked only.** What is promised under fairness: `WaiterGetsIn`, `EveryJobEnds`,
`EveryStepAnswered`, `EveryGarmentSettles`, `DeadRunAbandoned`, `ClientHearsTheEnd`, `BatchReachesAll`,
`EveryBallotAnswered`. The prover has no rules for ENABLED, on which fairness rests.

## 5. What the models also show

Divergences met while modelling, without a run of their own:

* **A second batch of siblings.** "a second run can't produce a second batch" (`docs/PIPELINES.md:192`):
  the labels compared are those of other garments now. A label listed twice by one detection, a
  sibling that is itself put through stage 2 (and renamed), or `/step` on stage 2, which
  commits after the lock is gone, split a region out again (`stage_02_crop.py:147-154`).
  So do two runs of one upload that the lock no longer keeps apart. `SecondBatchHasACause` shows that
  nothing else does.
* **A near-duplicate accepted by `/step`.** "never silently accepted" (`docs/PIPELINES.md:348`): in
  `/step` only stage 3's REVIEW_REQUIRED halts (`garments.py:566-573`); stage 5's advances.
* **A held review can be cleared by failing.** A `/step` of another stage that FAILS sets FAILED /
  REJECTED over the held review, and the next success then advances: "Only a fresh, passing Stage 3
  re-run may clear this flag" (`garments.py:548`). `HeldReviewStands` allows the FAILED.
* **The latest verdict decides, on one's own clock.** A worker that reads before a step's commit
  skips on an older success (`orchestrator.py:101`).
* **An approval re-runs what was approved.** The approved stage's latest run is still
  REVIEW_REQUIRED, so the job queued at `garments.py:674` executes it again and may halt again.
* **Override without attributes.** It resumes at stage 6 whatever stages 2-5 produced;
  "garment must not be marked fully ingested without required attributes" (`docs/SPEC.md:1194`).
* **A success that does not advance.** "Each stage that succeeds advances the garment one state"
  (`docs/PIPELINES.md:55`): not a `/step` whose copy says COMPLETED.
* **One execution at a time.** "Ensures only one pipeline stage execution" (`lock.py:64`) holds
  only without expiry and giving up; `OverlapHasACause` and `OneWithUncommittedRuns` say how far.
* **A retry past a verdict.** `POST /retry` names any stage. From stage 6 on, of a garment held at stage 3 or
  5, it runs stages 6 to 9 and completes it (`garments.py:631-650`), and so does an override.
  `CompletedHasPassed` is about garments that had no such job, and no forced retry of a halting stage
  (below).
* **A run whose failure fails.** When the handler of a failed run raises too (`styling.py:186-193`), the
  client is sent heartbeats for good and the row is RUNNING until a sweep. `ClientHearsTheEnd` names it.
* **A failure that is not written.** A forced retry that names a halting stage or a later one may
  load the garment while it is FAILED, wait for the lock while another job completes it, and then
  fail at its first stage. FAILED is what its copy has loaded, so nothing differs and the status
  is not written (`orchestrator.py`, the unit of work of SQLAlchemy): the garment stays COMPLETED
  though the last run of its stage failed. `CompletedGarmentsPassed` excludes such jobs by name.
* **Two first requests of a day** both generate; the later one replaces the earlier pick without
  force (`models/ootd.py:38-42` promises the same cached result), or fails on the unique key.
* **An asset that changes.** "a given asset id / object key never changes what it returns"
  (`api/v1/images.py:21`), and answers are cached for a week on the strength of it. A redrawn
  canonical picture has the key of the old one (`stage_04_digitise.py:155`), so the old
  asset's id returns the new picture, also when the new row is rolled back; and a thumbnail
  built then is stored under the old picture's hash. `AssetsShowThemselves` names the cause.
* **A hard filter that yields.** "a garment that plainly violates one ... never reaches retrieval"
  (`styling/orchestrator.py:442-444`), except when every candidate does: then all are kept
  (`styling/filtering.py:37-39`, on purpose, and `NeverToZero`).
* **Where an outage is covered up.** MODA_NER without its endpoint answers from a mock; NVIDIA
  NIM turns even a failed validation into its local analysis (`nvidia_nim.py:99-101`), although
  `stage_03_attributes.py:79-81` says that real failures are now raised; FLUX pictures
  are not verified. And the "fabricated placeholder
  values" of that comment still come where keys are missing: the keys are independent, so with
  only the configured extractor's own key an outage of it leads to a second opinion that has no key and
  answers with a placeholder, and to a verifier that has none and approves it. `OutageIsNeverTrusted`
  excepts exactly these.
* **A second opinion from the first.** "every retry after that uses a genuinely different vendor so it's a real
  second opinion, not an echo" (`stage_03_attributes.py:24-25`). With `ATTRIBUTE_PROVIDER=gemini` and the default `ATTRIBUTE_MODEL_NAME`
  (`openai/gpt-4o`, `config.py:82`) both attempts ask the same model; `SecondVendorGetsItsTurn` excepts it.
* **A revised opinion is as old as the first.** The row keeps `created_at`, so a changed mind
  weighs as little as the opinion it replaces (`styling/behavior.py`).
* **Regional garments.** The subcategories added at `rules/garment_class.py:101-126` so that they
  "should not need a human to approve every item" are not all known to the taxonomy
  (mekhela chador, mundu), and still go to review.

## 6. Not modelled, and the plan

`PROJECT.json` "components" gives every part with its status. Left out, and why:

* Numbers: how a score is computed (`styling/aesthetics.py`, `rules/visual.py`), embeddings, what a
  lesson does to a style profile, medians and rates of the report. No property is about
  their values; where an order or a threshold decides something, it is kept.
* Texts: prompts (`build_prompt` and the like), the sentences of `member_context.py` and
  `member_signals.py`, error messages.
* Image processing: OpenCV and SAM segmentation as primary detectors, the mock
  providers when configured as primary ones.
* Cryptography and single-row inserts: sign-up, login, tokens.
* Start-up: `schema_sync.py`, which runs before anything else and touches no row.
* Static pages, scripts, benchmarks and tests, outside the running program.
* Two hazards without a property, in `PROJECT.json`: what an override after missing attributes should
  mean, and whose verdict wins when a rejection and a worker cross; the code has no rule to check.

What is left are proofs:

1. The composition of `PerceptionStages` with `GarmentPipeline` as a theorem of its own: at present the
   contract between them, `PipelineStages`, is proved kept on one side and assumed on the other.
2. `CompletedGarmentsPassed` with overrides, which needs to say what an override is allowed to
   skip (a hazard without a property).

## 7. Running

    tlc -config pipeline_workers.cfg MCGarmentPipeline
    tlc -config studio.cfg MCStudio
    tlapm GarmentPipelineProofs.tla
