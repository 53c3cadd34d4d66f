--------------------------- MODULE OutfitOfTheDay ---------------------------
(***************************************************************************)
(* The outfit of the day (app/styling/ootd.py): one cached pick per member   *)
(* for a given day and location, asked for by API requests and by the daily  *)
(* batch of the worker (app/worker/ootd_scheduler.py).  The look-up, the     *)
(* styling run, which commits its own StylingRequest, and the upsert of the  *)
(* pick are steps of their own.                                             *)
(***************************************************************************)
EXTENDS Sequences, FiniteSets

CONSTANTS
    Members,
    Callers,     \* API requests
    Scheduler,   \* the batch loop, one call at a time
    NoPick

Calls == Callers \cup {Scheduler}

\* A run is named by the call that asked for it and the member it styles.
Runs == Calls \X Members

ASSUME DayAssumption ==
    Members # {} /\ Scheduler \notin Callers /\ NoPick \notin Runs

VARIABLES
    subscribed,  \* members with an enabled subscription
    picks,       \* the committed row per member: the run it points at
    runs,        \* the committed styling runs
    call,        \* the calls
    begun,       \* today's batch has read the subscriptions
    batch,       \* those still to do
    failed       \* history: members whose scheduled run failed

dayVars == <<subscribed, picks, runs, call, begun, batch, failed>>

Call == [at : {"idle", "running", "storing", "saving", "over"}, member : Members,
         force : BOOLEAN, hopit : BOOLEAN, blind : BOOLEAN, found : BOOLEAN]

\* Before today's batch, or after one that found nobody subscribed.
DayInit ==
    /\ subscribed \in SUBSET Members
    /\ picks = [m \in Members |-> NoPick]
    /\ runs = {}
    /\ call = [c \in Calls |->
                  [at |-> "idle", member |-> CHOOSE m \in Members : TRUE, force |-> FALSE,
                   hopit |-> FALSE, blind |-> FALSE, found |-> FALSE]]
    /\ begun \in BOOLEAN /\ batch = {}
    /\ failed = {}

\* A mutant of Ended: the loop ends with the call.
EndsForGood(c) == "over"
\* What becomes of a call that is over: the loop goes on, a request is answered.
Ended(c) == IF c = Scheduler THEN "idle" ELSE "over"
RunOf(c) == <<c, call[c].member>>

\* A mutant of CacheHit: the cache is not looked at.
NeverHit(m, force, hopit) == FALSE
CacheHit(m, force, hopit) == ~force /\ ~hopit /\ picks[m] # NoPick

\* get_or_generate_ootd up to the styling run.  blind: there was no pick yet.
Ask(c, m, force, hopit) ==
    IF CacheHit(m, force, hopit)
    THEN call' = [call EXCEPT ![c].at = Ended(c)]
    ELSE call' = [call EXCEPT ![c] =
             [at |-> "running", member |-> m, force |-> force, hopit |-> hopit,
              blind |-> picks[m] = NoPick, found |-> FALSE]]

\* POST or GET /outfit-of-the-day.  A Hopit request ignores force.
AskForToday(c) ==
    /\ call[c].at = "idle"
    /\ \E m \in Members, force \in BOOLEAN, hopit \in BOOLEAN :
          (hopit => ~force) /\ Ask(c, m, force, hopit)
    /\ UNCHANGED <<subscribed, picks, runs, begun, batch, failed>>

\* StylingOrchestrator.run commits; with Hopit that is the answer.
DayRunCommits(c) ==
    /\ call[c].at = "running"
    /\ runs' = runs \cup {RunOf(c)}
    /\ call' = [call EXCEPT ![c].at = IF call[c].hopit THEN Ended(c) ELSE "storing"]
    /\ UNCHANGED <<subscribed, picks, begun, batch, failed>>

\* The weather service, the pipeline or the database raises: an error for the
\* client, a line in the log for the batch.
DayRunFails(c) ==
    /\ call[c].at = "running"
    /\ failed' = IF c = Scheduler THEN failed \cup {call[c].member} ELSE failed
    /\ call' = [call EXCEPT ![c].at = Ended(c)]
    /\ UNCHANGED <<subscribed, picks, runs, begun, batch>>

LooksAgain(c) ==
    /\ call[c].at = "storing"
    /\ call' = [call EXCEPT ![c].at = "saving", ![c].found = picks[call[c].member] # NoPick]
    /\ UNCHANGED <<subscribed, picks, runs, begun, batch, failed>>

\* Updates the row it found ...
StoresPick(c) ==
    LET m == call[c].member IN
    /\ call[c].at = "saving"
    /\ call[c].found \/ picks[m] = NoPick
    /\ picks' = [picks EXCEPT ![m] = RunOf(c)]
    /\ call' = [call EXCEPT ![c].at = Ended(c)]
    /\ UNCHANGED <<subscribed, runs, begun, batch, failed>>

\* ... or inserts one, which the unique constraint refuses if there is one now.
PickConflicts(c) ==
    /\ call[c].at = "saving"
    /\ ~call[c].found /\ picks[call[c].member] # NoPick
    /\ call' = [call EXCEPT ![c].at = Ended(c)]
    /\ UNCHANGED <<subscribed, picks, runs, begun, batch, failed>>

\* PUT /outfit-of-the-day/subscription
Subscribes(m) ==
    /\ subscribed' = IF m \in subscribed THEN subscribed \ {m} ELSE subscribed \cup {m}
    /\ UNCHANGED <<picks, runs, call, begun, batch, failed>>

\* run_daily_ootd_generation: the enabled subscriptions are read once, ...
BatchStarts ==
    /\ ~begun
    /\ begun' = TRUE /\ batch' = subscribed
    /\ UNCHANGED <<subscribed, picks, runs, call, failed>>

\* A mutant of BatchNext: a failure ends the batch.
BatchStops ==
    /\ call[Scheduler].at = "idle"
    /\ failed = {}
    /\ \E m \in batch : Ask(Scheduler, m, FALSE, FALSE) /\ batch' = batch \ {m}
    /\ UNCHANGED <<subscribed, picks, runs, begun, failed>>

\* ... and each gets its call whatever became of the one before.
BatchNext ==
    /\ call[Scheduler].at = "idle"
    /\ \E m \in batch : Ask(Scheduler, m, FALSE, FALSE) /\ batch' = batch \ {m}
    /\ UNCHANGED <<subscribed, picks, runs, begun, failed>>

CallProceeds(c) ==
    DayRunCommits(c) \/ DayRunFails(c) \/ LooksAgain(c) \/ StoresPick(c) \/ PickConflicts(c)

DayNext ==
    \/ \E c \in Callers : AskForToday(c)
    \/ \E c \in Calls : CallProceeds(c)
    \/ \E m \in Members : Subscribes(m)
    \/ BatchStarts \/ BatchNext

DaySpec == DayInit /\ [][DayNext]_dayVars

\* The loop of the worker wakes up, and calls come to an end.
DayFairness ==
    /\ WF_dayVars(BatchStarts) /\ WF_dayVars(BatchNext)
    /\ \A c \in Calls : WF_dayVars(CallProceeds(c))

-----------------------------------------------------------------------------
(* Properties                                                               *)

DayTypeOK ==
    /\ subscribed \subseteq Members
    /\ picks \in [Members -> Runs \cup {NoPick}]
    /\ runs \subseteq Runs
    /\ call \in [Calls -> Call]
    /\ begun \in BOOLEAN /\ batch \subseteq Members
    /\ failed \subseteq Members

\* Only a forced request, or one that found no pick when it asked, replaces a
\* pick.
ReplacedOnPurpose ==
    [][\A m \in Members :
          picks[m] # NoPick /\ picks'[m] # picks[m] =>
              LET by == call[picks'[m][1]] IN by.force \/ by.blind]_dayVars

\* The batch reaches every member subscribed when it started, whoever fails:
\* each ends up with a pick, by whichever call, unless its own run raised.
BatchReachesAll ==
    \A m \in Members :
        m \in batch ~> (picks[m] # NoPick \/ m \in failed)

=============================================================================
