--------------------------- MODULE StylingProofs ---------------------------
(***************************************************************************)
(* Proofs about StylingRuns, for every number of requests and stages; about  *)
(* OutfitOfTheDay, for every set of callers; and about the specification     *)
(* that puts the four styling modules side by side (MCStyling).  Each        *)
(* row is written by one task, whose place tells how long the trace is       *)
(* (TracesFollow); a request misses only the rows of requests it overlapped  *)
(* (PostersSee); a row that counts as stale has been quiet for longer than   *)
(* its task may leave it (QuietIsShort); who finds a run RUNNING holds the   *)
(* lock of its row until it abandons it (EndsInv); and an end is in the row  *)
(* before its event is sent (EndIsKnown).                                   *)
(***************************************************************************)
EXTENDS MCStyling, OutfitSwapProofs, TasteLedgerProofs, SequenceTheorems, TLAPS

-----------------------------------------------------------------------------
(* The inductive invariant                                                  *)

\* The place of a run's task tells what its row holds.
RowFollows(r) ==
    /\ task[r] \in {"idle", "superseding", "inserting"} => progress[r].status = Absent
    /\ task[r] \in {"idle", "superseding", "inserting", "created"} =>
           progress[r].trace = <<>> /\ done[r] = 0
    /\ task[r] \in {"running", "succeeded"} => Len(progress[r].trace) = done[r]
    /\ task[r] \in {"checkpointing", "writing"} => Len(progress[r].trace) + 1 = done[r]
    /\ task[r] = "writing" => copy[r] = progress[r].trace
    /\ Len(progress[r].trace) = done[r] \/ Len(progress[r].trace) + 1 = done[r]
    /\ progress[r].trace = [i \in 1..Len(progress[r].trace) |-> i]
    /\ progress[r].status = "SUCCEEDED" =>
           task[r] \in {"succeeded", "over", "dead"} /\ Len(progress[r].trace) = Stages
    /\ task[r] \in {"succeeded", "failed"} => progress[r].status # "RUNNING"

TracesFollow == \A r \in Posts : RowFollows(r)

\* Requests whose transactions are open together have noted each other.
PostersAreRivals ==
    \A r, s \in Posts : r # s /\ Posting(r) /\ Posting(s) => {r, s} \in rivals

\* A RUNNING row that a request will not supersede is a rival's.
PostersSee ==
    \A r \in Posts, s \in Running : r # s /\ Posting(r) => s \in seen[r] \/ {r, s} \in rivals

\* What a request has seen to supersede has been inserted.
SeenExist == \A r \in Posts : \A q \in seen[r] : progress[q].status # Absent

\* While its task lives, a RUNNING row is quiet for no longer than a stage takes.
QuietFor(r) ==
    /\ task[r] \in {"running", "checkpointing", "writing"} => spent[r] <= StageLimit
    /\ progress[r].status = "RUNNING" =>
           /\ task[r] = "created" /\ client[r] = "connected" => progress[r].quiet = 0
           /\ task[r] = "running" => progress[r].quiet <= spent[r]
           /\ task[r] \in {"checkpointing", "writing"} => progress[r].quiet <= StageLimit

QuietIsShort == \A r \in Posts : QuietFor(r)

RunsInv ==
    /\ RunsTypeOK /\ TwoActiveOverlapped
    /\ TracesFollow /\ PostersAreRivals /\ PostersSee /\ SeenExist /\ QuietIsShort

-----------------------------------------------------------------------------
(* What carries over                                                        *)

TaskPlaces == {"idle", "superseding", "inserting", "created", "running",
               "checkpointing", "writing", "succeeded", "failed", "over", "lost", "dead"}
Statuses == {Absent, "RUNNING", "SUCCEEDED", "FAILED", "ABANDONED"}
ClientStates == Events \cup {"none", "connected", "gone"}

\* A request's part of the state, in the type.
LEMMA RowIsTyped ==
    ASSUME RunsTypeOK, NEW r \in Posts
    PROVE  /\ progress[r] \in ProgressRow /\ progress[r].status \in Statuses
           /\ progress[r].trace \in Seq(1..Stages) /\ Len(progress[r].trace) \in Nat
           /\ progress[r].quiet \in 0..Stale /\ progress[r].quiet \in Nat
           /\ task[r] \in TaskPlaces /\ done[r] \in 0..Stages /\ done[r] \in Nat
           /\ copy[r] \in Seq(1..Stages) /\ feed[r] \in Seq(Events)
           /\ client[r] \in ClientStates /\ spent[r] \in Nat /\ seen[r] \subseteq Posts
           /\ Stages \in Nat /\ Stale \in Nat /\ StageLimit \in Nat
<1>1. Stages \in Nat /\ Stale \in Nat /\ StageLimit \in Nat
    BY RunsAssumption
<1>2. progress[r] \in ProgressRow
    BY DEF RunsTypeOK
<1>3. /\ progress[r].status \in Statuses /\ progress[r].trace \in Seq(1..Stages)
      /\ progress[r].quiet \in 0..Stale
    BY <1>2 DEF ProgressRow, Statuses
<1>4. done[r] \in 0..Stages /\ spent[r] \in Nat /\ seen[r] \subseteq Posts
    BY DEF RunsTypeOK
<1>5. done[r] \in Nat /\ progress[r].quiet \in Nat
    BY <1>1, <1>3, <1>4
<1>6. Len(progress[r].trace) \in Nat
    BY <1>3, LenProperties
<1>7. task[r] \in TaskPlaces /\ client[r] \in ClientStates
    BY DEF RunsTypeOK, TaskPlaces, ClientStates
<1>8. copy[r] \in Seq(1..Stages) /\ feed[r] \in Seq(Events)
    BY DEF RunsTypeOK
<1> QED
    BY <1>1, <1>2, <1>3, <1>4, <1>5, <1>6, <1>7, <1>8

\* A request that nothing happens to keeps its part.
LEMMA Untouched ==
    ASSUME NEW q, RowFollows(q), QuietFor(q),
           progress'[q] = progress[q], task'[q] = task[q], done'[q] = done[q],
           copy'[q] = copy[q], client'[q] = client[q], spent'[q] = spent[q]
    PROVE  RowFollows(q)' /\ QuietFor(q)'
BY DEF RowFollows, QuietFor

\* When no row starts RUNNING and no request forgets one, the RUNNING rows
\* stand to each other and to the open requests as before.
LEMMA ActivesKeep ==
    ASSUME TwoActiveOverlapped, PostersAreRivals, PostersSee, RunsTypeOK,
           Running' \subseteq Running, rivals \subseteq rivals',
           \A q \in Posts : Posting(q)' => Posting(q) /\ seen[q] \cap Running' \subseteq seen'[q]
    PROVE  TwoActiveOverlapped' /\ PostersAreRivals' /\ PostersSee'
<1>1. TwoActiveOverlapped'
    BY DEF TwoActiveOverlapped
<1>2. PostersAreRivals'
    BY DEF PostersAreRivals
<1>3. PostersSee'
    <2> SUFFICES ASSUME NEW r \in Posts, NEW t \in Running', r # t, Posting(r)',
                        t \notin seen'[r]
                 PROVE  {r, t} \in rivals'
        BY DEF PostersSee
    <2>1. Posting(r) /\ t \in Running /\ t \notin seen[r]
        OBVIOUS
    <2> QED
        BY <2>1 DEF PostersSee
<1> QED
    BY <1>1, <1>2, <1>3

\* A run's own step leaves the other rows and the open requests alone.
LEMMA OwnStepKeeps ==
    ASSUME RunsInv, RunsTypeOK', NEW r \in Posts,
           \A q \in Posts \ {r} :
               /\ progress'[q] = progress[q] /\ task'[q] = task[q] /\ done'[q] = done[q]
               /\ copy'[q] = copy[q] /\ client'[q] = client[q] /\ spent'[q] = spent[q]
               /\ seen'[q] = seen[q],
           rivals' = rivals, ~Posting(r)',
           progress'[r].status = "RUNNING" => progress[r].status = "RUNNING",
           progress[r].status # Absent => progress'[r].status # Absent,
           seen'[r] \subseteq seen[r],
           RowFollows(r)', QuietFor(r)'
    PROVE  RunsInv'
<1> USE DEF RunsInv
<1>1. \A q \in Posts : RowFollows(q)' /\ QuietFor(q)'
    BY Untouched DEF TracesFollow, QuietIsShort
<1>2. Running' \subseteq Running
    BY DEF Running
<1>3. \A q \in Posts : Posting(q)' => Posting(q) /\ seen'[q] = seen[q]
    BY DEF Posting
<1>4. TwoActiveOverlapped' /\ PostersAreRivals' /\ PostersSee'
    BY <1>2, <1>3, ActivesKeep
<1>5. SeenExist'
    <2>1. \A p, q \in Posts : q \in seen'[p] => q \in seen[p]
        OBVIOUS
    <2>2. \A p \in Posts : seen'[p] \subseteq Posts
        BY RowIsTyped
    <2>3. \A q \in Posts : progress[q].status # Absent => progress'[q].status # Absent
        OBVIOUS
    <2> QED
        BY <2>1, <2>2, <2>3 DEF SeenExist
<1> QED
    BY <1>1, <1>4, <1>5 DEF TracesFollow, QuietIsShort

\* The next stage's number at the end of a trace makes the next trace.
LEMMA TraceGrows ==
    ASSUME NEW t \in Seq(1..Stages), t = [i \in 1..Len(t) |-> i], NEW n \in 1..Stages,
           Len(t) + 1 = n
    PROVE  /\ Append(t, n) \in Seq(1..Stages) /\ Len(Append(t, n)) = n
           /\ Append(t, n) = [i \in 1..n |-> i]
<1>1. /\ Append(t, n) \in Seq(1..Stages) /\ Len(Append(t, n)) = n /\ Len(t) \in Nat
      /\ \A i \in 1..Len(t) : Append(t, n)[i] = t[i]
      /\ Append(t, n)[n] = n
    BY AppendProperties, LenProperties
<1>2. \A i \in 1..n : Append(t, n)[i] = i
    BY <1>1
<1>3. Append(t, n) = [i \in 1..n |-> Append(t, n)[i]]
    BY <1>1, LenProperties
<1> QED
    BY <1>1, <1>2, <1>3

-----------------------------------------------------------------------------
(* The invariant, step by step                                              *)

\* No run has begun.
LEMMA RunsStart == ASSUME RunsInit PROVE RunsInv
<1>1. RunsTypeOK
    <2>1. /\ 0 \in 0..Stages /\ 0 \in 0..Stale /\ <<>> \in Seq(1..Stages) /\ <<>> \in Seq(Events)
        BY RunsAssumption
    <2>2. [status |-> Absent, trace |-> <<>>, quiet |-> 0] \in ProgressRow
        BY <2>1 DEF ProgressRow
    <2> QED
        BY <2>1, <2>2 DEF RunsInit, RunsTypeOK
<1>2. \A r \in Posts : /\ progress[r].status = Absent /\ progress[r].trace = <<>>
                       /\ task[r] = "idle" /\ done[r] = 0
    BY DEF RunsInit
<1>3. \A r \in Posts : RowFollows(r) /\ QuietFor(r)
    BY <1>2 DEF RowFollows, QuietFor, Absent
<1>4. Running = {}
    BY <1>2 DEF Running, Absent
<1>5. TwoActiveOverlapped /\ PostersAreRivals /\ PostersSee
    BY <1>2, <1>4 DEF TwoActiveOverlapped, PostersAreRivals, PostersSee, Posting
<1>6. SeenExist
    BY DEF RunsInit, SeenExist
<1> QED
    BY <1>1, <1>3, <1>5, <1>6 DEF RunsInv, TracesFollow, QuietIsShort

\* A request finds the rows that are RUNNING and the requests that are open.
LEMMA PostArrivesKeeps ==
    ASSUME RunsInv, NEW r \in Posts, PostArrives(r) PROVE RunsInv'
<1> USE DEF RunsInv
<1>1. /\ task[r] = "idle" /\ task' = [task EXCEPT ![r] = "superseding"]
      /\ seen' = [seen EXCEPT ![r] = Running]
      /\ rivals' = rivals \cup {{r, q} : q \in {q \in Posts \ {r} : Posting(q)}}
      /\ UNCHANGED <<progress, done, copy, feed, client, spent>>
    BY DEF PostArrives, TaskAt
<1>2. /\ task'[r] = "superseding" /\ \A q \in Posts \ {r} : task'[q] = task[q]
      /\ seen'[r] = Running /\ \A q \in Posts \ {r} : seen'[q] = seen[q]
    BY <1>1 DEF RunsTypeOK
<1>3. Running' = Running /\ Running \subseteq Posts
    BY <1>1 DEF Running
<1>4. RunsTypeOK'
    <2>1. rivals' \subseteq SUBSET Posts
        <3>1. \A q \in Posts : {r, q} \in SUBSET Posts
            OBVIOUS
        <3>2. {{r, q} : q \in {q \in Posts \ {r} : Posting(q)}} \subseteq SUBSET Posts
            BY <3>1
        <3>3. rivals \subseteq SUBSET Posts
            BY DEF RunsTypeOK
        <3> QED
            BY <1>1, <3>2, <3>3
    <2>2. task' \in [Posts -> TaskPlaces] /\ seen' \in [Posts -> SUBSET Posts]
        BY <1>1, <1>3 DEF RunsTypeOK, TaskPlaces
    <2> QED
        BY <1>1, <2>1, <2>2 DEF RunsTypeOK, TaskPlaces
<1>5. \A q \in Posts : RowFollows(q)' /\ QuietFor(q)'
    <2>1. RowFollows(r)' /\ QuietFor(r)'
        BY <1>1, <1>2 DEF TracesFollow, QuietIsShort, RowFollows, QuietFor, Absent
    <2> QED
        BY <1>1, <1>2, <2>1, Untouched DEF TracesFollow, QuietIsShort
<1>6. rivals \subseteq rivals' /\ \A q \in Posts \ {r} : Posting(q) => {r, q} \in rivals'
    BY <1>1
<1>7. \A q \in Posts \ {r} : Posting(q)' <=> Posting(q)
    BY <1>2 DEF Posting
<1>8. PostersAreRivals'
    <2> SUFFICES ASSUME NEW p \in Posts, NEW q \in Posts, p # q, Posting(p)', Posting(q)'
                 PROVE  {p, q} \in rivals'
        BY DEF PostersAreRivals
    <2>1. {p, q} = {q, p}
        OBVIOUS
    <2> QED
        BY <1>6, <1>7, <2>1 DEF PostersAreRivals
<1>9. PostersSee'
    BY <1>2, <1>3, <1>6, <1>7 DEF PostersSee
<1>10. TwoActiveOverlapped'
    BY <1>3, <1>6 DEF TwoActiveOverlapped
<1>11. SeenExist'
    <2>1. \A q \in Running : progress[q].status # Absent
        BY DEF Running, Absent
    <2> QED
        BY <1>1, <1>2, <2>1 DEF SeenExist
<1> QED
    BY <1>4, <1>5, <1>8, <1>9, <1>10, <1>11 DEF TracesFollow, QuietIsShort

\* The UPDATE keeps the rows that are still RUNNING.
LEMMA PostUpdatesKeeps ==
    ASSUME RunsInv, NEW r \in Posts, PostUpdates(r) PROVE RunsInv'
<1> USE DEF RunsInv
<1>1. /\ task[r] = "superseding" /\ task' = [task EXCEPT ![r] = "inserting"]
      /\ seen' = [seen EXCEPT ![r] = @ \cap Running]
      /\ UNCHANGED <<progress, done, copy, feed, client, spent, rivals>>
    BY DEF PostUpdates, TaskAt
<1>2. /\ task'[r] = "inserting" /\ \A q \in Posts \ {r} : task'[q] = task[q]
      /\ seen'[r] = seen[r] \cap Running /\ \A q \in Posts \ {r} : seen'[q] = seen[q]
    BY <1>1 DEF RunsTypeOK
<1>3. Running' = Running
    BY <1>1 DEF Running
<1>4. RunsTypeOK'
    BY <1>1 DEF RunsTypeOK
<1>5. \A q \in Posts : RowFollows(q)' /\ QuietFor(q)'
    <2>1. RowFollows(r)' /\ QuietFor(r)'
        BY <1>1, <1>2 DEF TracesFollow, QuietIsShort, RowFollows, QuietFor, Absent
    <2> QED
        BY <1>1, <1>2, <2>1, Untouched DEF TracesFollow, QuietIsShort
<1>6. \A q \in Posts : Posting(q)' => Posting(q) /\ seen[q] \cap Running' \subseteq seen'[q]
    BY <1>1, <1>2, <1>3 DEF Posting
<1>7. TwoActiveOverlapped' /\ PostersAreRivals' /\ PostersSee'
    BY <1>1, <1>3, <1>6, ActivesKeep
<1>8. SeenExist'
    BY <1>1, <1>2 DEF SeenExist
<1> QED
    BY <1>4, <1>5, <1>7, <1>8 DEF TracesFollow, QuietIsShort

\* The commit inserts one RUNNING row: those it leaves RUNNING are its rivals'.
LEMMA PostCommitsKeeps ==
    ASSUME RunsInv, NEW r \in Posts, PostCommits(r) PROVE RunsInv'
<1> USE DEF RunsInv
<1> DEFINE fresh == [status |-> "RUNNING", trace |-> <<>>, quiet |-> 0]
           left(q) == [progress[q] EXCEPT !.status = "ABANDONED", !.quiet = 0]
<1>1. /\ task[r] = "inserting" /\ task' = [task EXCEPT ![r] = "created"]
      /\ progress' = [q \in Posts |-> IF q = r THEN fresh
                                      ELSE IF q \in seen[r] THEN left(q) ELSE progress[q]]
      /\ seen' = [seen EXCEPT ![r] = {}]
      /\ client' = [client EXCEPT ![r] = "connected"]
      /\ UNCHANGED <<done, copy, feed, spent, rivals>>
    BY DEF PostCommits, TaskAt
<1>2. /\ task'[r] = "created" /\ \A q \in Posts \ {r} : task'[q] = task[q]
      /\ \A q \in Posts \ {r} : seen'[q] = seen[q] /\ client'[q] = client[q]
    BY <1>1 DEF RunsTypeOK
<1>3. fresh \in ProgressRow /\ fresh.status = "RUNNING" /\ fresh.trace = <<>> /\ fresh.quiet = 0
    BY RunsAssumption DEF ProgressRow
<1>4. \A q \in Posts : /\ left(q) \in ProgressRow /\ left(q).status = "ABANDONED"
                       /\ left(q).trace = progress[q].trace /\ left(q).quiet = 0
    <2>1. "ABANDONED" \in Statuses /\ 0 \in 0..Stale
        BY RunsAssumption DEF Statuses
    <2> QED
        <3> SUFFICES ASSUME NEW q \in Posts
                     PROVE  /\ left(q) \in ProgressRow /\ left(q).status = "ABANDONED"
                            /\ left(q).trace = progress[q].trace /\ left(q).quiet = 0
            OBVIOUS
        <3>1. progress[q] \in ProgressRow
            BY RowIsTyped
        <3> QED
            BY <2>1, <3>1 DEF ProgressRow, Statuses
<1> HIDE DEF fresh, left
<1>5. /\ progress'[r] = fresh
      /\ \A q \in Posts \ {r} : progress'[q] = IF q \in seen[r] THEN left(q) ELSE progress[q]
    BY <1>1
<1>6. RunsTypeOK'
    <2>1. progress' \in [Posts -> ProgressRow]
        BY <1>1, <1>3, <1>4 DEF RunsTypeOK
    <2> QED
        BY <1>1, <2>1 DEF RunsTypeOK
<1>7. \A q \in Posts : RowFollows(q)' /\ QuietFor(q)'
    <2>1. RowFollows(r)' /\ QuietFor(r)'
        <3>1. /\ progress'[r].trace = progress[r].trace /\ progress[r].trace = <<>>
              /\ progress'[r].status = "RUNNING" /\ progress'[r].quiet = 0
              /\ done'[r] = done[r] /\ done[r] = 0 /\ RowFollows(r)
            BY <1>1, <1>3, <1>5 DEF TracesFollow, RowFollows
        <3>2. RowFollows(r)'
            BY <1>2, <3>1 DEF RowFollows
        <3>3. QuietFor(r)'
            BY <1>2, <3>1 DEF QuietFor
        <3> QED
            BY <3>2, <3>3
    <2>2. ASSUME NEW q \in Posts \ {r}, q \in seen[r] PROVE RowFollows(q)' /\ QuietFor(q)'
        <3>1. /\ progress'[q].status = "ABANDONED" /\ progress'[q].trace = progress[q].trace
              /\ task'[q] = task[q] /\ done'[q] = done[q] /\ copy'[q] = copy[q]
              /\ spent'[q] = spent[q]
            BY <1>1, <1>2, <1>4, <1>5, <2>2
        <3>2. progress[q].status # Absent
            BY <2>2 DEF SeenExist
        <3> QED
            BY <3>1, <3>2 DEF TracesFollow, QuietIsShort, RowFollows, QuietFor, Absent
    <2>3. ASSUME NEW q \in Posts \ {r}, q \notin seen[r] PROVE RowFollows(q)' /\ QuietFor(q)'
        BY <1>1, <1>2, <1>5, <2>3, Untouched DEF TracesFollow, QuietIsShort
    <2> QED
        BY <2>1, <2>2, <2>3
<1>8. Running' \subseteq {r} \cup {q \in Running : q \notin seen[r]}
    BY <1>4, <1>5 DEF Running
<1>9. \A q \in Posts \ {r} : Posting(q)' <=> Posting(q)
    BY <1>2 DEF Posting
<1>10. ~Posting(r)' /\ Posting(r)
    BY <1>1, <1>2 DEF Posting
<1>11. TwoActiveOverlapped'
    <2> SUFFICES ASSUME NEW p \in Running', NEW q \in Running', p # q PROVE {p, q} \in rivals
        BY <1>1 DEF TwoActiveOverlapped
    <2>1. p \in Posts /\ q \in Posts /\ {p, q} = {q, p}
        BY DEF Running
    <2> QED
        BY <1>8, <1>10, <2>1 DEF TwoActiveOverlapped, PostersSee
<1>12. PostersAreRivals'
    BY <1>1, <1>9, <1>10 DEF PostersAreRivals
<1>13. PostersSee'
    <2> SUFFICES ASSUME NEW p \in Posts, NEW q \in Running', p # q, Posting(p)'
                 PROVE  q \in seen'[p] \/ {p, q} \in rivals'
        BY DEF PostersSee
    <2>1. p # r /\ Posting(p) /\ seen'[p] = seen[p] /\ rivals' = rivals
        BY <1>1, <1>2, <1>9, <1>10
    <2>2. CASE q = r
        BY <1>10, <2>1, <2>2 DEF PostersAreRivals
    <2>3. CASE q # r
        BY <1>8, <2>1, <2>3 DEF PostersSee
    <2> QED
        BY <2>2, <2>3
<1>14. SeenExist'
    <2>1. \A q \in Posts : progress[q].status # Absent => progress'[q].status # Absent
        BY <1>3, <1>4, <1>5 DEF Absent
    <2>2. \A p \in Posts : seen'[p] \subseteq seen[p] /\ seen[p] \subseteq Posts
        BY <1>1, RowIsTyped DEF RunsTypeOK
    <2> QED
        BY <2>1, <2>2 DEF SeenExist
<1> QED
    BY <1>6, <1>7, <1>11, <1>12, <1>13, <1>14 DEF TracesFollow, QuietIsShort

\* What the task writes to its row is a row.
LEMMA StatusWritten ==
    ASSUME RunsTypeOK, NEW r \in Posts, NEW status \in Statuses, NEW age \in 0..Stale,
           progress' = [progress EXCEPT ![r].status = status, ![r].quiet = age]
    PROVE  /\ progress' \in [Posts -> ProgressRow]
           /\ progress'[r].status = status /\ progress'[r].quiet = age
           /\ progress'[r].trace = progress[r].trace
           /\ \A q \in Posts \ {r} : progress'[q] = progress[q]
<1> DEFINE new == [progress[r] EXCEPT !.status = status, !.quiet = age]
<1>1. /\ new \in ProgressRow /\ new.status = status /\ new.quiet = age
      /\ new.trace = progress[r].trace
    BY RowIsTyped DEF ProgressRow, Statuses
<1>2. progress' = [progress EXCEPT ![r] = new]
    BY DEF RunsTypeOK
<1> HIDE DEF new
<1>3. progress \in [Posts -> ProgressRow]
    BY DEF RunsTypeOK
<1> QED
    BY <1>1, <1>2, <1>3

\* The stream's first read starts the task: its row is new.
LEMMA StreamStartsKeeps ==
    ASSUME RunsInv, NEW r \in Posts, StreamStarts(r) PROVE RunsInv'
<1>1. /\ task[r] = "created" /\ client[r] = "connected"
      /\ task' = [task EXCEPT ![r] = "running"] /\ spent' = [spent EXCEPT ![r] = 0]
      /\ UNCHANGED <<progress, done, copy, feed, client, seen, rivals>>
      /\ RowFollows(r) /\ QuietFor(r) /\ RunsTypeOK
    BY DEF StreamStarts, TaskAt, RunsInv, TracesFollow, QuietIsShort
<1>2. /\ task'[r] = "running" /\ spent'[r] = 0
      /\ \A q \in Posts \ {r} : task'[q] = task[q] /\ spent'[q] = spent[q]
    BY <1>1 DEF RunsTypeOK
<1>3. RunsTypeOK'
    BY <1>1 DEF RunsTypeOK
<1>4. RowFollows(r)'
    <2>1. Len(<<>>) = 0
        OBVIOUS
    <2> QED
        BY <1>1, <1>2, <2>1 DEF RowFollows, Absent
<1>5. QuietFor(r)'
    BY <1>1, <1>2, RunsAssumption DEF QuietFor
<1>6. ~Posting(r)'
    BY <1>2 DEF Posting
<1> QED
    BY <1>1, <1>2, <1>3, <1>4, <1>5, <1>6, OwnStepKeeps

\* What is put in a stream is an event.
LEMMA PutIsTyped ==
    ASSUME RunsTypeOK, NEW r \in Posts, NEW event \in Events, Put(r, event)
    PROVE  feed' \in [Posts -> Seq(Events)]
<1>1. feed \in [Posts -> Seq(Events)] /\ Append(feed[r], event) \in Seq(Events)
    BY RowIsTyped, AppendProperties DEF RunsTypeOK
<1> QED
    BY <1>1 DEF Put

\* A stage that completes is one more than the trace has.
LEMMA StageCompletesKeeps ==
    ASSUME RunsInv, NEW r \in Posts, StageCompletes(r) PROVE RunsInv'
<1>1. /\ task[r] = "running" /\ done[r] < Stages
      /\ task' = [task EXCEPT ![r] = "checkpointing"] /\ spent' = [spent EXCEPT ![r] = 0]
      /\ done' = [done EXCEPT ![r] = @ + 1] /\ Put(r, "stage")
      /\ UNCHANGED <<progress, copy, client, seen, rivals>>
      /\ RowFollows(r) /\ QuietFor(r) /\ RunsTypeOK
    BY DEF StageCompletes, AfterStage, TaskAt, RunsInv, TracesFollow, QuietIsShort
<1>2. /\ task'[r] = "checkpointing" /\ spent'[r] = 0 /\ done'[r] = done[r] + 1
      /\ \A q \in Posts \ {r} : task'[q] = task[q] /\ spent'[q] = spent[q] /\ done'[q] = done[q]
    BY <1>1 DEF RunsTypeOK
<1>3. RunsTypeOK'
    <2>1. done' \in [Posts -> 0..Stages]
        <3>1. done[r] + 1 \in 0..Stages
            BY <1>1, RowIsTyped
        <3> QED
            BY <1>1, <3>1 DEF RunsTypeOK
    <2>2. feed' \in [Posts -> Seq(Events)]
        BY <1>1, PutIsTyped DEF Events
    <2> QED
        BY <1>1, <2>1, <2>2 DEF RunsTypeOK
<1>4. RowFollows(r)'
    <2>1. Len(progress[r].trace) = done[r] /\ progress[r].status # "SUCCEEDED"
        BY <1>1 DEF RowFollows
    <2> QED
        BY <1>1, <1>2, <2>1 DEF RowFollows
<1>5. QuietFor(r)'
    <2>1. progress[r].status = "RUNNING" => progress[r].quiet <= StageLimit
        BY <1>1, RowIsTyped DEF QuietFor
    <2> QED
        BY <1>1, <1>2, <2>1, RunsAssumption DEF QuietFor
<1>6. ~Posting(r)'
    BY <1>2 DEF Posting
<1> QED
    BY <1>1, <1>2, <1>3, <1>4, <1>5, <1>6, OwnStepKeeps

\* The checkpoint reads the trace that is there.
LEMMA CheckpointLoadsKeeps ==
    ASSUME RunsInv, NEW r \in Posts, CheckpointLoads(r) PROVE RunsInv'
<1>1. /\ task[r] = "checkpointing" /\ task' = [task EXCEPT ![r] = "writing"]
      /\ copy' = [copy EXCEPT ![r] = progress[r].trace]
      /\ UNCHANGED <<progress, done, feed, client, spent, seen, rivals>>
      /\ RowFollows(r) /\ QuietFor(r) /\ RunsTypeOK
    BY DEF CheckpointLoads, TaskAt, RunsInv, TracesFollow, QuietIsShort
<1>2. /\ task'[r] = "writing" /\ copy'[r] = progress[r].trace
      /\ \A q \in Posts \ {r} : task'[q] = task[q] /\ copy'[q] = copy[q]
    BY <1>1 DEF RunsTypeOK
<1>3. RunsTypeOK'
    <2>1. progress[r].trace \in Seq(1..Stages)
        BY <1>1, RowIsTyped
    <2> QED
        BY <1>1, <2>1 DEF RunsTypeOK
<1>4. RowFollows(r)' /\ QuietFor(r)'
    BY <1>1, <1>2 DEF RowFollows, QuietFor
<1>5. ~Posting(r)'
    BY <1>2 DEF Posting
<1> QED
    BY <1>1, <1>2, <1>3, <1>4, <1>5, OwnStepKeeps

\* The checkpoint writes what it read and the stage that completed.
LEMMA CheckpointCommitsKeeps ==
    ASSUME RunsInv, NEW r \in Posts, CheckpointCommits(r) PROVE RunsInv'
<1>1. /\ task[r] = "writing" /\ task' = [task EXCEPT ![r] = "running"]
      /\ progress' = [progress EXCEPT ![r].trace = Append(copy[r], done[r]), ![r].quiet = 0]
      /\ UNCHANGED <<done, copy, feed, client, spent, seen, rivals>>
      /\ RowFollows(r) /\ QuietFor(r) /\ RunsTypeOK
    BY DEF CheckpointCommits, Touched, TaskAt, RunsInv, TracesFollow, QuietIsShort
<1> DEFINE longer == Append(progress[r].trace, done[r])
           new == [progress[r] EXCEPT !.trace = longer, !.quiet = 0]
<1>2. /\ task'[r] = "running" /\ \A q \in Posts \ {r} : task'[q] = task[q]
    BY <1>1 DEF RunsTypeOK
<1>3. /\ longer \in Seq(1..Stages) /\ Len(longer) = done[r]
      /\ longer = [i \in 1..done[r] |-> i]
    <2>1. /\ progress[r].trace \in Seq(1..Stages) /\ Len(progress[r].trace) + 1 = done[r]
          /\ progress[r].trace = [i \in 1..Len(progress[r].trace) |-> i]
        BY <1>1, RowIsTyped DEF RowFollows
    <2>2. done[r] \in 1..Stages
        BY <1>1, <2>1, RowIsTyped
    <2> QED
        BY <2>1, <2>2, TraceGrows
<1> HIDE DEF longer
<1>4. /\ new \in ProgressRow /\ new.status = progress[r].status /\ new.trace = longer
      /\ new.quiet = 0
    <2>1. progress[r] \in ProgressRow /\ 0 \in 0..Stale
        BY <1>1, RowIsTyped
    <2> QED
        BY <1>3, <2>1 DEF ProgressRow
<1>5. progress' = [progress EXCEPT ![r] = new]
    BY <1>1 DEF RunsTypeOK, RowFollows, longer
<1> HIDE DEF new
<1>6. /\ progress'[r] = new /\ \A q \in Posts \ {r} : progress'[q] = progress[q]
      /\ progress' \in [Posts -> ProgressRow]
    <2>1. progress \in [Posts -> ProgressRow]
        BY <1>1 DEF RunsTypeOK
    <2> QED
        BY <1>4, <1>5, <2>1
<1>7. RunsTypeOK'
    BY <1>1, <1>6 DEF RunsTypeOK
<1>8. RowFollows(r)'
    <2>1. progress[r].status # "SUCCEEDED"
        BY <1>1 DEF RowFollows
    <2>2. /\ progress'[r].trace = longer /\ progress'[r].status = progress[r].status
          /\ done'[r] = done[r]
        BY <1>1, <1>4, <1>6
    <2> QED
        BY <1>2, <1>3, <2>1, <2>2 DEF RowFollows
<1>9. QuietFor(r)'
    <2>1. progress'[r].quiet = 0 /\ spent'[r] = spent[r] /\ spent[r] \in Nat
        BY <1>1, <1>4, <1>6, RowIsTyped
    <2> QED
        BY <1>1, <1>2, <2>1 DEF QuietFor
<1>10. ~Posting(r)'
    BY <1>2 DEF Posting
<1> QED
    BY <1>1, <1>2, <1>4, <1>6, <1>7, <1>8, <1>9, <1>10, OwnStepKeeps

\* The last stage done, the row says so; a run that raises says that.
LEMMA RunEndsKeeps ==
    ASSUME RunsInv, NEW r \in Posts, RunSucceeds(r) \/ RunFails(r) PROVE RunsInv'
<1> DEFINE status == IF RunSucceeds(r) THEN "SUCCEEDED" ELSE "FAILED"
           place == IF RunSucceeds(r) THEN "succeeded" ELSE "failed"
<1>1. /\ task[r] \in {"running", "checkpointing", "writing"}
      /\ task' = [task EXCEPT ![r] = place] /\ place \in {"succeeded", "failed"}
      /\ progress' = [progress EXCEPT ![r].status = status, ![r].quiet = 0]
      /\ spent' = [spent EXCEPT ![r] = 0]
      /\ UNCHANGED <<done, copy, feed, client, seen, rivals>>
      /\ RowFollows(r) /\ QuietFor(r) /\ RunsTypeOK
    BY DEF RunSucceeds, RunFails, TaskAt, RunsInv, TracesFollow, QuietIsShort
<1>2. /\ status \in {"SUCCEEDED", "FAILED"} /\ status \in Statuses
      /\ status = "SUCCEEDED" =>
            task[r] = "running" /\ done[r] = Stages /\ place = "succeeded"
    BY DEF RunSucceeds, Statuses
<1> HIDE DEF status, place
<1>3. task'[r] = place /\ \A q \in Posts \ {r} : task'[q] = task[q] /\ spent'[q] = spent[q]
    BY <1>1 DEF RunsTypeOK
<1>4. /\ progress' \in [Posts -> ProgressRow]
      /\ progress'[r].status = status /\ progress'[r].trace = progress[r].trace
      /\ \A q \in Posts \ {r} : progress'[q] = progress[q]
    <2>1. 0 \in 0..Stale
        BY RunsAssumption
    <2> QED
        BY <1>1, <1>2, <2>1, StatusWritten
<1>5. RunsTypeOK'
    <2>1. task' \in [Posts -> TaskPlaces]
        BY <1>1 DEF RunsTypeOK, TaskPlaces
    <2> QED
        BY <1>1, <1>4, <2>1 DEF RunsTypeOK, TaskPlaces
<1>6. RowFollows(r)'
    <2>1. /\ progress'[r].trace = progress[r].trace /\ done'[r] = done[r]
          /\ status = "SUCCEEDED" => Len(progress[r].trace) = Stages
          /\ place = "succeeded" => task[r] = "running"
        BY <1>1, <1>2, <1>4 DEF RowFollows, place, RunSucceeds
    <2> QED
        BY <1>1, <1>2, <1>3, <1>4, <2>1 DEF RowFollows
<1>7. QuietFor(r)'
    BY <1>1, <1>2, <1>3, <1>4 DEF QuietFor
<1>8. ~Posting(r)'
    BY <1>1, <1>3 DEF Posting
<1>9. progress'[r].status # "RUNNING" /\ progress'[r].status # Absent
    BY <1>2, <1>4 DEF Absent
<1> QED
    BY <1>1, <1>3, <1>4, <1>5, <1>6, <1>7, <1>8, <1>9, OwnStepKeeps

\* A run whose failure cannot be recorded leaves the row as it is.
LEMMA RunLostKeeps ==
    ASSUME RunsInv, NEW r \in Posts, RunLost(r) PROVE RunsInv'
<1>1. /\ task[r] \in {"running", "checkpointing", "writing"}
      /\ task' = [task EXCEPT ![r] = "lost"] /\ spent' = [spent EXCEPT ![r] = 0]
      /\ UNCHANGED <<progress, done, copy, feed, client, seen, rivals>>
      /\ RowFollows(r) /\ QuietFor(r) /\ RunsTypeOK
    BY DEF RunLost, TaskAt, RunsInv, TracesFollow, QuietIsShort
<1>2. task'[r] = "lost" /\ \A q \in Posts \ {r} : task'[q] = task[q] /\ spent'[q] = spent[q]
    BY <1>1 DEF RunsTypeOK
<1>3. RunsTypeOK'
    BY <1>1 DEF RunsTypeOK
<1>4. RowFollows(r)' /\ QuietFor(r)'
    BY <1>1, <1>2 DEF RowFollows, QuietFor
<1>5. ~Posting(r)'
    BY <1>2 DEF Posting
<1> QED
    BY <1>1, <1>2, <1>3, <1>4, <1>5, OwnStepKeeps

\* The client is told last.
LEMMA RunReportsKeeps ==
    ASSUME RunsInv, NEW r \in Posts, RunReports(r) PROVE RunsInv'
<1> DEFINE e == IF task[r] = "succeeded" THEN "done" ELSE "error"
<1>1. /\ task[r] \in {"succeeded", "failed"} /\ task' = [task EXCEPT ![r] = "over"]
      /\ Put(r, e)
      /\ UNCHANGED <<progress, done, copy, client, spent, seen, rivals>>
      /\ RowFollows(r) /\ QuietFor(r) /\ RunsTypeOK
    BY DEF RunReports, TaskAt, RunsInv, TracesFollow, QuietIsShort
<1>2. task'[r] = "over" /\ \A q \in Posts \ {r} : task'[q] = task[q]
    BY <1>1 DEF RunsTypeOK
<1>3. RunsTypeOK'
    <2>1. e \in Events
        BY DEF Events
    <2> HIDE DEF e
    <2>2. feed' \in [Posts -> Seq(Events)]
        BY <1>1, <2>1, PutIsTyped
    <2> QED
        BY <1>1, <2>2 DEF RunsTypeOK
<1>4. RowFollows(r)' /\ QuietFor(r)'
    BY <1>1, <1>2 DEF RowFollows, QuietFor
<1>5. ~Posting(r)'
    BY <1>2 DEF Posting
<1> QED
    BY <1>1, <1>2, <1>3, <1>4, <1>5, OwnStepKeeps

\* A client reads an event or goes: nothing is written.
LEMMA ClientKeeps ==
    ASSUME RunsInv, NEW r \in Posts, ClientReads(r) \/ ClientLeaves(r) PROVE RunsInv'
<1> USE DEF RunsInv
<1>1. UNCHANGED <<progress, task, done, copy, spent, seen, rivals>>
    BY DEF ClientReads, ClientLeaves
<1>2. /\ client' \in [Posts -> ClientStates] /\ feed' \in [Posts -> Seq(Events)]
      /\ client'[r] # "connected" /\ \A q \in Posts \ {r} : client'[q] = client[q]
    <2>1. client \in [Posts -> ClientStates] /\ feed \in [Posts -> Seq(Events)]
        BY DEF RunsTypeOK, ClientStates
    <2>2. CASE ClientReads(r)
        <3>1. feed[r] \in Seq(Events) /\ feed[r] # <<>>
            BY <2>1, <2>2 DEF ClientReads
        <3>2. Head(feed[r]) \in Events /\ Tail(feed[r]) \in Seq(Events)
            BY <3>1, HeadTailProperties
        <3>3. client' = [client EXCEPT ![r] = Head(feed[r])] /\ feed' = [feed EXCEPT ![r] = Tail(@)]
            BY <2>2 DEF ClientReads
        <3>4. feed' \in [Posts -> Seq(Events)]
            BY <2>1, <3>2, <3>3
        <3>5. Head(feed[r]) # "connected" /\ Head(feed[r]) \in ClientStates
            BY <3>2 DEF Events, ClientStates
        <3>6. client' \in [Posts -> ClientStates] /\ client'[r] # "connected"
              /\ \A q \in Posts \ {r} : client'[q] = client[q]
            BY <2>1, <3>3, <3>5
        <3> QED
            BY <3>4, <3>6
    <2>3. CASE ClientLeaves(r)
        <3>1. <<>> \in Seq(Events)
            OBVIOUS
        <3> QED
            BY <2>1, <2>3, <3>1 DEF ClientLeaves, ClientStates
    <2> QED
        BY <2>2, <2>3
<1>3. RunsTypeOK'
    BY <1>1, <1>2 DEF RunsTypeOK, ClientStates
<1>4. \A q \in Posts : RowFollows(q)' /\ QuietFor(q)'
    <2>1. RowFollows(r)' /\ QuietFor(r)'
        BY <1>1, <1>2 DEF TracesFollow, QuietIsShort, RowFollows, QuietFor
    <2> QED
        BY <1>1, <1>2, <2>1, Untouched DEF TracesFollow, QuietIsShort
<1>5. Running' = Running /\ \A q \in Posts : Posting(q)' <=> Posting(q)
    BY <1>1 DEF Running, Posting
<1>6. TwoActiveOverlapped' /\ PostersAreRivals' /\ PostersSee'
    BY <1>1, <1>5, ActivesKeep
<1>7. SeenExist'
    BY <1>1 DEF SeenExist
<1> QED
    BY <1>3, <1>4, <1>6, <1>7 DEF TracesFollow, QuietIsShort

\* The sweep and the clock change what is RUNNING only by taking away, and no trace.
LEMMA AgesKeep ==
    ASSUME RunsInv, progress' \in [Posts -> ProgressRow], spent' \in [Posts -> Nat],
           UNCHANGED <<task, done, copy, feed, client, seen, rivals>>,
           \A r \in Posts :
              /\ progress'[r].trace = progress[r].trace
              /\ progress'[r].status \in {progress[r].status, "ABANDONED"}
              /\ progress'[r].status # progress[r].status => progress[r].status = "RUNNING"
              /\ QuietFor(r)'
    PROVE  RunsInv'
<1> USE DEF RunsInv
<1>1. RunsTypeOK'
    BY DEF RunsTypeOK
<1>2. ASSUME NEW r \in Posts PROVE RowFollows(r)'
    <2>1. /\ RowFollows(r) /\ progress'[r].trace = progress[r].trace
          /\ task'[r] = task[r] /\ done'[r] = done[r] /\ copy'[r] = copy[r]
        BY DEF TracesFollow
    <2>2. CASE progress'[r].status = progress[r].status
        BY <2>1, <2>2 DEF RowFollows
    <2>3. CASE progress'[r].status = "ABANDONED" /\ progress[r].status = "RUNNING"
        BY <2>1, <2>3 DEF RowFollows, Absent
    <2> QED
        BY <2>2, <2>3
<1>3. Running' \subseteq Running /\ \A q \in Posts : Posting(q)' <=> Posting(q)
    BY DEF Running, Posting
<1>4. TwoActiveOverlapped' /\ PostersAreRivals' /\ PostersSee'
    BY <1>3, ActivesKeep
<1>5. SeenExist'
    <2>1. \A q \in Posts : progress[q].status # Absent => progress'[q].status # Absent
        BY DEF Absent
    <2>2. \A p \in Posts : seen'[p] = seen[p] /\ seen[p] \subseteq Posts
        BY RowIsTyped
    <2> QED
        BY <2>1, <2>2 DEF SeenExist
<1> QED
    BY <1>1, <1>2, <1>4, <1>5 DEF TracesFollow, QuietIsShort

\* The sweep abandons what is stale.
LEMMA AskActiveKeeps ==
    ASSUME RunsInv, AskActive PROVE RunsInv'
<1> DEFINE left(r) == [progress[r] EXCEPT !.status = "ABANDONED", !.quiet = 0]
<1>1. /\ progress' = [r \in Posts |-> IF IsStale(r) THEN left(r) ELSE progress[r]]
      /\ UNCHANGED <<task, done, copy, feed, client, spent, seen, rivals>>
      /\ RunsTypeOK /\ \A r \in Posts : QuietFor(r)
    BY DEF AskActive, RunsInv, QuietIsShort
<1>2. ASSUME NEW r \in Posts
      PROVE  /\ progress[r] \in ProgressRow /\ left(r) \in ProgressRow
             /\ left(r).status = "ABANDONED" /\ left(r).trace = progress[r].trace
    <2>1. progress[r] \in ProgressRow
        BY <1>1, RowIsTyped
    <2>2. 0 \in 0..Stale
        BY RunsAssumption
    <2> QED
        BY <2>1, <2>2 DEF ProgressRow
<1> HIDE DEF left
<1>3. \A r \in Posts : progress'[r] = IF IsStale(r) THEN left(r) ELSE progress[r]
    BY <1>1
<1>4. progress' \in [Posts -> ProgressRow] /\ spent' \in [Posts -> Nat]
    <2>1. spent' \in [Posts -> Nat]
        BY <1>1 DEF RunsTypeOK
    <2> QED
        BY <1>1, <1>2, <2>1
<1>5. ASSUME NEW r \in Posts
      PROVE  /\ progress'[r].trace = progress[r].trace
             /\ progress'[r].status \in {progress[r].status, "ABANDONED"}
             /\ progress'[r].status # progress[r].status => progress[r].status = "RUNNING"
             /\ QuietFor(r)'
    <2>1. CASE IsStale(r)
        <3>1. /\ progress'[r].status = "ABANDONED" /\ progress'[r].trace = progress[r].trace
              /\ progress[r].status = "RUNNING"
            BY <1>2, <1>3, <2>1 DEF IsStale
        <3>2. QuietFor(r)'
            BY <1>1, <3>1 DEF QuietFor
        <3> QED
            BY <3>1, <3>2
    <2>2. CASE ~IsStale(r)
        BY <1>1, <1>3, <2>2 DEF QuietFor
    <2> QED
        BY <2>1, <2>2
<1> QED
    BY <1>1, <1>4, <1>5, AgesKeep

\* A tick is only possible while every running stage is within its limit.
LEMMA RunsTickKeeps ==
    ASSUME RunsInv, RunsTick PROVE RunsInv'
<1> DEFINE Ages(r) == progress[r].status = "RUNNING" /\ progress[r].quiet < Stale
           older(r) == [progress[r] EXCEPT !.quiet = @ + 1]
<1>1. /\ progress' = [r \in Posts |->
             IF r \in Running /\ progress[r].quiet < Stale THEN older(r) ELSE progress[r]]
      /\ spent' = [r \in Posts |-> IF task[r] = "running" THEN spent[r] + 1 ELSE spent[r]]
      /\ \A r \in Posts :
            /\ task[r] \in {"idle", "created", "running", "over", "lost", "dead"}
            /\ task[r] = "created" => client[r] # "connected"
            /\ task[r] = "running" => spent[r] < StageLimit
      /\ UNCHANGED <<task, done, copy, feed, client, seen, rivals>>
      /\ RunsTypeOK /\ \A r \in Posts : QuietFor(r)
    BY DEF RunsTick, RunsInv, QuietIsShort
<1>2. ASSUME NEW r \in Posts, Ages(r)
      PROVE  /\ older(r) \in ProgressRow /\ older(r).status = progress[r].status
             /\ older(r).trace = progress[r].trace /\ older(r).quiet = progress[r].quiet + 1
    <2>1. progress[r] \in ProgressRow /\ progress[r].quiet + 1 \in 0..Stale
        BY <1>1, <1>2, RowIsTyped
    <2> QED
        BY <2>1 DEF ProgressRow
<1>3. \A r \in Posts : progress'[r] = IF Ages(r) THEN older(r) ELSE progress[r]
    BY <1>1 DEF Running
<1>4. \A r \in Posts : spent'[r] = IF task[r] = "running" THEN spent[r] + 1 ELSE spent[r]
    BY <1>1
<1> HIDE DEF older
<1>5. progress' \in [Posts -> ProgressRow]
    <2>1. \A r \in Posts : progress'[r] \in ProgressRow
        BY <1>1, <1>2, <1>3, RowIsTyped
    <2>2. progress' = [r \in Posts |-> progress'[r]]
        BY <1>1
    <2> QED
        BY <2>1, <2>2
<1>6. spent' \in [Posts -> Nat]
    BY <1>1 DEF RunsTypeOK
<1>7. ASSUME NEW r \in Posts
      PROVE  /\ progress'[r].trace = progress[r].trace
             /\ progress'[r].status = progress[r].status
             /\ QuietFor(r)'
    <2>1. progress'[r].trace = progress[r].trace /\ progress'[r].status = progress[r].status
        BY <1>2, <1>3
    <2>2. /\ progress'[r].quiet \in {progress[r].quiet, progress[r].quiet + 1}
          /\ progress[r].quiet \in Nat /\ spent[r] \in Nat /\ StageLimit \in Nat
        BY <1>1, <1>2, <1>3, RowIsTyped
    <2>3. /\ QuietFor(r) /\ task'[r] = task[r] /\ client'[r] = client[r]
          /\ task[r] \in {"idle", "created", "running", "over", "lost", "dead"}
          /\ task[r] = "created" => client[r] # "connected"
          /\ task[r] = "running" => spent[r] < StageLimit /\ spent'[r] = spent[r] + 1
        BY <1>1, <1>4
    <2>4. QuietFor(r)'
        <3>1. CASE task[r] # "running"
            BY <2>3, <3>1 DEF QuietFor
        <3>2. CASE task[r] = "running"
            <4>1. spent'[r] <= StageLimit
                BY <2>2, <2>3, <3>2
            <4>2. progress[r].status = "RUNNING" => progress'[r].quiet <= spent'[r]
                BY <2>2, <2>3, <3>2 DEF QuietFor
            <4> QED
                BY <2>1, <2>3, <3>2, <4>1, <4>2 DEF QuietFor
        <3> QED
            BY <3>1, <3>2
    <2> QED
        BY <2>1, <2>4
<1> QED
    BY <1>1, <1>5, <1>6, <1>7, AgesKeep

\* A death leaves the row as it is, under no task.
LEMMA RunDiesKeeps ==
    ASSUME RunsInv, NEW r \in Posts, RunDies(r) PROVE RunsInv'
<1>1. /\ task' = [task EXCEPT ![r] = "dead"] /\ seen' = [seen EXCEPT ![r] = {}]
      /\ feed' = [feed EXCEPT ![r] = <<>>] /\ client' = [client EXCEPT ![r] = "gone"]
      /\ spent' = [spent EXCEPT ![r] = 0]
      /\ UNCHANGED <<progress, done, copy, rivals>>
      /\ RowFollows(r) /\ RunsTypeOK
    BY DEF RunDies, TaskAt, RunsInv, TracesFollow
<1>2. /\ task'[r] = "dead" /\ \A q \in Posts \ {r} : task'[q] = task[q]
      /\ seen'[r] = {}
      /\ \A q \in Posts \ {r} :
             seen'[q] = seen[q] /\ client'[q] = client[q] /\ spent'[q] = spent[q]
    BY <1>1 DEF RunsTypeOK
<1>3. RunsTypeOK'
    <2>1. <<>> \in Seq(Events)
        OBVIOUS
    <2> QED
        BY <1>1, <2>1 DEF RunsTypeOK
<1>4. RowFollows(r)' /\ QuietFor(r)'
    BY <1>1, <1>2 DEF RowFollows, QuietFor
<1>5. ~Posting(r)'
    BY <1>2 DEF Posting
<1> QED
    BY <1>1, <1>2, <1>3, <1>4, <1>5, OwnStepKeeps

-----------------------------------------------------------------------------
(* The theorems                                                             *)

\* Every step of every request keeps the invariant.
LEMMA RunsStepKeeps ==
    RunsInv /\ [RunsNext]_runVars => RunsInv'
<1> SUFFICES ASSUME RunsInv, [RunsNext]_runVars PROVE RunsInv'
    OBVIOUS
<1>1. ASSUME NEW r \in Posts, PostArrives(r) \/ PostUpdates(r) \/ PostCommits(r) PROVE RunsInv'
    BY <1>1, PostArrivesKeeps, PostUpdatesKeeps, PostCommitsKeeps
<1>2. ASSUME NEW r \in Posts, Task(r) PROVE RunsInv'
    BY <1>2, StreamStartsKeeps, StageCompletesKeeps, CheckpointLoadsKeeps,
       CheckpointCommitsKeeps, RunEndsKeeps, RunLostKeeps, RunReportsKeeps DEF Task
<1>3. ASSUME NEW r \in Posts, ClientReads(r) \/ ClientLeaves(r) \/ RunDies(r) PROVE RunsInv'
    BY <1>3, ClientKeeps, RunDiesKeeps
<1>4. CASE AskActive \/ RunsTick
    BY <1>4, AskActiveKeeps, RunsTickKeeps
<1>5. CASE UNCHANGED runVars
    <2>1. /\ progress' = progress /\ spent' = spent
          /\ UNCHANGED <<task, done, copy, feed, client, seen, rivals>>
        BY <1>5 DEF runVars
    <2>2. progress' \in [Posts -> ProgressRow] /\ spent' \in [Posts -> Nat]
        BY <2>1 DEF RunsInv, RunsTypeOK
    <2>3. \A r \in Posts : QuietFor(r)'
        BY <2>1 DEF RunsInv, QuietIsShort, QuietFor
    <2> QED
        BY <2>1, <2>2, <2>3, AgesKeep
<1> QED
    BY <1>1, <1>2, <1>3, <1>4, <1>5 DEF RunsNext

\* What carries the others: the invariant holds of every wardrobe's runs.
THEOREM RunsInvariant == RunsSpec => []RunsInv
BY RunsStart, RunsStepKeeps, PTL DEF RunsSpec

\* Rows, tasks, feeds and clients keep their types.
THEOREM RunsTypeCorrect == RunsSpec => []RunsTypeOK
<1>1. RunsInv => RunsTypeOK
    BY DEF RunsInv
<1> QED
    BY <1>1, RunsInvariant, PTL

\* A row's trace is the stages that ran, all of them once it SUCCEEDED.
THEOREM TraceIsTrue == RunsSpec => []TraceIsWhatRan
<1>1. RunsInv => TraceIsWhatRan
    <2> SUFFICES ASSUME RunsInv, NEW r \in Posts
                 PROVE  /\ progress[r].trace = [i \in 1..Len(progress[r].trace) |-> i]
                        /\ Len(progress[r].trace) \in {done[r], done[r] - 1}
                        /\ progress[r].status = "SUCCEEDED" => Len(progress[r].trace) = Stages
        BY DEF TraceIsWhatRan
    <2>1. RowFollows(r) /\ Len(progress[r].trace) \in Nat /\ done[r] \in Nat
        BY RowIsTyped DEF RunsInv, TracesFollow
    <2>2. Len(progress[r].trace) = done[r] \/ Len(progress[r].trace) + 1 = done[r]
        BY <2>1 DEF RowFollows
    <2>3. Len(progress[r].trace) \in {done[r], done[r] - 1}
        BY <2>1, <2>2
    <2> QED
        BY <2>1, <2>3 DEF RowFollows
<1> QED
    BY <1>1, RunsInvariant, PTL

\* Two RUNNING rows are those of requests whose transactions were open together.
THEOREM OnlyRivalsAreActive == RunsSpec => []TwoActiveOverlapped
<1>1. RunsInv => TwoActiveOverlapped
    BY DEF RunsInv
<1> QED
    BY <1>1, RunsInvariant, PTL

\* When every stage is shorter than the limit, the sweep takes no living run's row.
THEOREM SweepSparesTheLiving ==
    ASSUME StageLimit < Stale PROVE RunsSpec => SweptRunsAreDead
<1>1. ASSUME RunsInv, NEW r \in Posts, IsStale(r)
      PROVE  task[r] \in {"created", "dead", "lost", "over"}
    <2>1. /\ RowFollows(r) /\ QuietFor(r) /\ task[r] \in TaskPlaces
          /\ progress[r].status = "RUNNING" /\ progress[r].quiet = Stale
          /\ spent[r] \in Nat /\ StageLimit \in Nat /\ Stale \in Nat
        BY <1>1, RowIsTyped DEF RunsInv, TracesFollow, QuietIsShort, IsStale
    <2>2. task[r] \notin {"idle", "superseding", "inserting", "succeeded", "failed"}
        BY <2>1 DEF RowFollows, Absent
    <2>3. task[r] # "running"
        BY <2>1 DEF QuietFor
    <2>4. task[r] \notin {"checkpointing", "writing"}
        BY <2>1 DEF QuietFor
    <2> QED
        BY <2>1, <2>2, <2>3, <2>4 DEF TaskPlaces
<1>2. RunsInv /\ [RunsNext]_runVars =>
          [AskActive => \A r \in Posts :
              IsStale(r) => task[r] \in {"created", "dead", "lost", "over"}]_runVars
    BY <1>1
<1> QED
    BY <1>2, RunsInvariant, PTL DEF RunsSpec, SweptRunsAreDead

-----------------------------------------------------------------------------
(* A run ends once                                                          *)

\* What a request is about to abandon is RUNNING, and its alone.
AbandonsTheRunning ==
    \A q \in Posts : task[q] = "inserting" => seen[q] \subseteq Running

AbandonsAlone ==
    \A p, q \in Posts :
        p # q /\ task[p] = "inserting" /\ task[q] = "inserting" => seen[p] \cap seen[q] = {}

\* A FAILED run has no task any more that could end it again.
FailedIsOver(r) == progress[r].status = "FAILED" => task[r] \in {"failed", "over", "dead"}

EndsInv == AbandonsTheRunning /\ AbandonsAlone /\ \A r \in Posts : FailedIsOver(r)

\* "RUNNING -> SUCCEEDED | FAILED, or RUNNING -> ABANDONED" (models/styling_run.py),
\* but for a superseded run whose task is alive.
RunsEndOnce ==
    [][\A r \in Posts :
          /\ progress[r].status \in {"SUCCEEDED", "FAILED"} =>
                 progress'[r].status = progress[r].status
          /\ progress[r].status = "ABANDONED" =>
                 \/ progress'[r].status = "ABANDONED"
                 \/ /\ task[r] \in {"running", "checkpointing", "writing"}
                    /\ progress'[r].status \in {"SUCCEEDED", "FAILED"}]_runVars

\* A request has no row before it is inserted, so it holds only those of others.
LEMMA HeldByOthers ==
    ASSUME RunsInv, NEW q \in Posts, task[q] = "inserting", NEW r \in seen[q], r \in Running
    PROVE  r # q /\ r \in Posts /\ Locked(r)
<1>1. progress[q].status = Absent /\ progress[r].status = "RUNNING" /\ r \in Posts
    BY DEF RunsInv, TracesFollow, RowFollows, Running
<1>2. r # q
    BY <1>1 DEF Absent
<1> QED
    BY <1>1, <1>2 DEF Locked

\* While no other request goes to its insert, and held rows keep their status,
\* what the requests hold stays as it is.
LEMMA HoldsCarry ==
    ASSUME RunsInv, EndsInv,
           \A q \in Posts : task'[q] = "inserting" => task[q] = "inserting" /\ seen'[q] = seen[q],
           \A r \in Posts : progress'[r].status = progress[r].status \/ ~Locked(r),
           \A r \in Posts : FailedIsOver(r)'
    PROVE  EndsInv'
<1>1. AbandonsTheRunning'
    <2> SUFFICES ASSUME NEW q \in Posts, task'[q] = "inserting", NEW r \in seen'[q]
                 PROVE  r \in Posts /\ progress'[r].status = "RUNNING"
        BY DEF AbandonsTheRunning, Running
    <2>1. task[q] = "inserting" /\ r \in seen[q] /\ r \in Running
        BY DEF EndsInv, AbandonsTheRunning
    <2>2. r \in Posts /\ Locked(r) /\ progress[r].status = "RUNNING"
        BY <2>1, HeldByOthers DEF Running
    <2> QED
        BY <2>2
<1>2. AbandonsAlone'
    BY DEF EndsInv, AbandonsAlone
<1> QED
    BY <1>1, <1>2 DEF EndsInv

\* A step of the task of one run, or of its client, ends no other run.
LEMMA TaskHolds ==
    ASSUME RunsInv, EndsInv, NEW r \in Posts,
           Task(r) \/ ClientReads(r) \/ ClientLeaves(r) \/ RunDies(r)
    PROVE  EndsInv'
<1>1. /\ progress \in [Posts -> ProgressRow] /\ task \in [Posts -> TaskPlaces]
      /\ seen \in [Posts -> SUBSET Posts]
    BY DEF RunsInv, RunsTypeOK, TaskPlaces
<1>2. \A q \in Posts : q # r =>
          progress'[q] = progress[q] /\ task'[q] = task[q] /\ seen'[q] = seen[q]
    BY <1>1
    DEF Task, StreamStarts, StageCompletes, AfterStage, CheckpointLoads, CheckpointCommits,
        RunSucceeds, RunFails, RunLost, RunReports, ClientReads, ClientLeaves, RunDies, TaskAt
<1>3. task'[r] = "inserting" => task[r] = "inserting" /\ seen'[r] = seen[r]
    BY <1>1
    DEF Task, StreamStarts, StageCompletes, AfterStage, CheckpointLoads, CheckpointCommits,
        RunSucceeds, RunFails, RunLost, RunReports, ClientReads, ClientLeaves, RunDies, TaskAt
<1>4. progress'[r].status = progress[r].status \/ ~Locked(r)
    BY <1>1
    DEF Task, StreamStarts, StageCompletes, CheckpointLoads, CheckpointCommits,
        RunSucceeds, RunFails, RunLost, RunReports, ClientReads, ClientLeaves, RunDies
<1>5. FailedIsOver(r)'
    <2> USE <1>1 DEF EndsInv, FailedIsOver, TaskAt, ProgressRow
    <2>1. CASE RunSucceeds(r) \/ RunFails(r)
        BY <2>1 DEF RunSucceeds, RunFails
    <2>2. CASE CheckpointCommits(r)
        BY <2>2 DEF CheckpointCommits
    <2>3. CASE \/ StreamStarts(r) \/ StageCompletes(r) \/ CheckpointLoads(r)
               \/ RunLost(r) \/ RunReports(r)
               \/ ClientReads(r) \/ ClientLeaves(r) \/ RunDies(r)
        BY <2>3
        DEF StreamStarts, StageCompletes, AfterStage, CheckpointLoads, RunLost, RunReports,
            ClientReads, ClientLeaves, RunDies
    <2> QED
        BY <2>1, <2>2, <2>3 DEF Task
<1>6. \A q \in Posts : FailedIsOver(q)'
    BY <1>2, <1>5 DEF EndsInv, FailedIsOver
<1> QED
    BY <1>2, <1>3, <1>4, <1>6, HoldsCarry

\* A request holds what its UPDATE found RUNNING, until its commit abandons it.
LEMMA PostHolds ==
    ASSUME RunsInv, EndsInv, NEW p \in Posts,
           PostArrives(p) \/ PostUpdates(p) \/ PostCommits(p)
    PROVE  EndsInv'
<1>1. /\ progress \in [Posts -> ProgressRow] /\ task \in [Posts -> TaskPlaces]
      /\ seen \in [Posts -> SUBSET Posts]
    BY DEF RunsInv, RunsTypeOK, TaskPlaces
<1>2. \A q \in Posts : q # p => task'[q] = task[q] /\ seen'[q] = seen[q]
    BY <1>1 DEF PostArrives, PostUpdates, PostCommits, TaskAt
<1>3. CASE PostArrives(p)
    <2>1. task'[p] = "superseding" /\ progress' = progress /\ task[p] = "idle"
        BY <1>1, <1>3 DEF PostArrives, TaskAt
    <2>2. \A r \in Posts : FailedIsOver(r)'
        BY <1>2, <2>1 DEF EndsInv, FailedIsOver
    <2> QED
        BY <1>2, <2>1, <2>2, HoldsCarry
<1>4. CASE PostUpdates(p)
    <2>1. /\ task'[p] = "inserting" /\ progress' = progress /\ task[p] = "superseding"
          /\ seen'[p] = seen[p] \cap Running /\ \A s \in seen[p] : ~Locked(s)
        BY <1>1, <1>4 DEF PostUpdates, TaskAt
    <2>2. \A r \in Posts : FailedIsOver(r)'
        BY <1>2, <2>1 DEF EndsInv, FailedIsOver
    <2>3. AbandonsTheRunning'
        BY <1>2, <2>1 DEF EndsInv, AbandonsTheRunning, Running
    <2>4. ASSUME NEW q \in Posts, q # p, task[q] = "inserting"
          PROVE  seen'[p] \cap seen[q] = {}
        <3> SUFFICES ASSUME NEW r \in seen'[p], r \in seen[q] PROVE FALSE
            OBVIOUS
        <3>1. r \in seen[p] /\ r \in Running
            BY <2>1
        <3>2. Locked(r)
            BY <2>4, <3>1, HeldByOthers
        <3> QED
            BY <2>1, <3>1, <3>2
    <2>5. AbandonsAlone'
        <3> SUFFICES ASSUME NEW q \in Posts, NEW t \in Posts, q # t,
                            task'[q] = "inserting", task'[t] = "inserting"
                     PROVE  seen'[q] \cap seen'[t] = {}
            BY DEF AbandonsAlone
        <3>1. CASE q # p /\ t # p
            BY <1>2, <3>1 DEF EndsInv, AbandonsAlone
        <3>2. CASE q = p
            BY <1>2, <2>4, <3>2
        <3>3. CASE t = p
            BY <1>2, <2>4, <3>3
        <3> QED
            BY <3>1, <3>2, <3>3
    <2> QED
        BY <2>2, <2>3, <2>5 DEF EndsInv
<1>5. CASE PostCommits(p)
    <2>1. /\ task'[p] = "created" /\ task[p] = "inserting"
          /\ \A q \in Posts : q # p /\ q \notin seen[p] => progress'[q] = progress[q]
          /\ \A q \in Posts : q # p /\ q \in seen[p] => progress'[q].status = "ABANDONED"
          /\ progress'[p].status = "RUNNING"
        BY <1>1, <1>5 DEF PostCommits, TaskAt, ProgressRow
    <2>2. \A r \in Posts : FailedIsOver(r)'
        BY <1>2, <2>1 DEF EndsInv, FailedIsOver
    <2>3. ASSUME NEW q \in Posts, task'[q] = "inserting"
          PROVE  seen'[q] \subseteq Running'
        <3>1. q # p /\ task[q] = "inserting" /\ seen'[q] = seen[q]
            BY <1>2, <2>1, <2>3
        <3>2. seen[q] \subseteq Running /\ seen[p] \cap seen[q] = {}
            BY <2>1, <3>1 DEF EndsInv, AbandonsTheRunning, AbandonsAlone
        <3> QED
            BY <2>1, <3>1, <3>2 DEF Running
    <2>4. AbandonsAlone'
        BY <1>2, <2>1 DEF EndsInv, AbandonsAlone
    <2> QED
        BY <2>2, <2>3, <2>4 DEF EndsInv, AbandonsTheRunning
<1> QED
    BY <1>3, <1>4, <1>5

\* Every step leaves what requests hold as it should be.
LEMMA EndsStep == RunsInv /\ EndsInv /\ [RunsNext]_runVars => EndsInv'
<1> SUFFICES ASSUME RunsInv, EndsInv, [RunsNext]_runVars PROVE EndsInv'
    OBVIOUS
<1>1. progress \in [Posts -> ProgressRow]
    BY DEF RunsInv, RunsTypeOK
<1>2. CASE AskActive
    <2>1. /\ task' = task /\ seen' = seen
          /\ \A r \in Posts : IsStale(r) => ~Locked(r) /\ progress'[r].status = "ABANDONED"
          /\ \A r \in Posts : ~IsStale(r) => progress'[r] = progress[r]
        BY <1>1, <1>2 DEF AskActive, ProgressRow
    <2>2. \A r \in Posts : FailedIsOver(r)'
        BY <2>1 DEF EndsInv, FailedIsOver
    <2> QED
        BY <2>1, <2>2, HoldsCarry
<1>3. CASE RunsTick
    <2>1. /\ task' = task /\ seen' = seen
          /\ \A r \in Posts : progress'[r].status = progress[r].status
        BY <1>1, <1>3 DEF RunsTick, ProgressRow
    <2>2. \A r \in Posts : FailedIsOver(r)'
        BY <2>1 DEF EndsInv, FailedIsOver
    <2> QED
        BY <2>1, <2>2, HoldsCarry
<1>4. CASE UNCHANGED runVars
    BY <1>4 DEF runVars, EndsInv, AbandonsTheRunning, AbandonsAlone, FailedIsOver, Running
<1> QED
    BY <1>2, <1>3, <1>4, TaskHolds, PostHolds DEF RunsNext

\* What has ended stays so, but for a run superseded alive.
LEMMA EndStays ==
    ASSUME RunsInv, EndsInv, [RunsNext]_runVars, NEW r \in Posts
    PROVE  /\ progress[r].status \in {"SUCCEEDED", "FAILED"} =>
                  progress'[r].status = progress[r].status
           /\ progress[r].status = "ABANDONED" =>
                  \/ progress'[r].status = "ABANDONED"
                  \/ /\ task[r] \in {"running", "checkpointing", "writing"}
                     /\ progress'[r].status \in {"SUCCEEDED", "FAILED"}
<1>1. progress \in [Posts -> ProgressRow] /\ RowFollows(r) /\ FailedIsOver(r)
    BY DEF RunsInv, RunsTypeOK, TracesFollow, EndsInv
<1>2. ASSUME NEW p \in Posts, PostCommits(p)
      PROVE  \/ progress'[r].status = progress[r].status
             \/ progress[r].status \in {Absent, "RUNNING"}
    <2>1. CASE r = p
        BY <1>1, <1>2, <2>1 DEF PostCommits, RowFollows
    <2>2. CASE r # p /\ r \in seen[p]
        BY <1>2, <2>2 DEF PostCommits, EndsInv, AbandonsTheRunning, Running
    <2>3. CASE r # p /\ r \notin seen[p]
        BY <1>2, <2>3 DEF PostCommits
    <2> QED
        BY <2>1, <2>2, <2>3
<1>3. ASSUME NEW p \in Posts, Task(p), p # r
      PROVE  progress'[r].status = progress[r].status
    BY <1>1, <1>3
    DEF Task, StreamStarts, StageCompletes, CheckpointLoads, CheckpointCommits,
        RunSucceeds, RunFails, RunLost, RunReports
<1>4. CASE RunSucceeds(r) \/ RunFails(r)
    <2>1. /\ task[r] \in {"running", "checkpointing", "writing"}
          /\ progress'[r].status \in {"SUCCEEDED", "FAILED"}
        BY <1>1, <1>4 DEF RunSucceeds, RunFails, ProgressRow
    <2>2. progress[r].status \notin {"SUCCEEDED", "FAILED"}
        BY <1>1, <2>1 DEF RowFollows, FailedIsOver
    <2> QED
        BY <2>1, <2>2
<1>5. CASE CheckpointCommits(r)
    BY <1>1, <1>5 DEF CheckpointCommits, ProgressRow
<1>6. CASE \/ \E p \in Posts : \/ PostArrives(p) \/ PostUpdates(p) \/ ClientReads(p)
                              \/ ClientLeaves(p) \/ RunDies(p)
           \/ StreamStarts(r) \/ StageCompletes(r) \/ CheckpointLoads(r)
           \/ RunLost(r) \/ RunReports(r)
           \/ UNCHANGED runVars
    BY <1>6
    DEF PostArrives, PostUpdates, ClientReads, ClientLeaves, RunDies, StreamStarts,
        StageCompletes, CheckpointLoads, RunLost, RunReports, runVars
<1>7. CASE AskActive
    BY <1>1, <1>7 DEF AskActive, IsStale, ProgressRow
<1>8. CASE RunsTick
    BY <1>1, <1>8 DEF RunsTick, ProgressRow
<1>9. CASE \E p \in Posts : PostCommits(p) \/ (Task(p) /\ p # r)
    BY <1>2, <1>3, <1>9 DEF Absent
<1> QED
    BY <1>4, <1>5, <1>6, <1>7, <1>8, <1>9 DEF RunsNext, Task

\* No row is there at the start.
LEMMA EndsBegin == RunsInit => EndsInv
BY DEF RunsInit, EndsInv, AbandonsTheRunning, AbandonsAlone, FailedIsOver, Absent

(***************************************************************************)
(* A run ends once, for any number of requests: who supersedes a run that   *)
(* ends meanwhile does not abandon it, and neither does the sweep, because   *)
(* the row is locked from the UPDATE that found it RUNNING to the commit.   *)
(* Only the task of a run that was superseded alive gives it a second end.  *)
(***************************************************************************)
THEOREM AnEndIsFinal == RunsSpec => RunsEndOnce
<1>1. RunsInv /\ EndsInv /\ [RunsNext]_runVars =>
          [\A r \in Posts :
             /\ progress[r].status \in {"SUCCEEDED", "FAILED"} =>
                    progress'[r].status = progress[r].status
             /\ progress[r].status = "ABANDONED" =>
                    \/ progress'[r].status = "ABANDONED"
                    \/ /\ task[r] \in {"running", "checkpointing", "writing"}
                       /\ progress'[r].status \in {"SUCCEEDED", "FAILED"}]_runVars
    BY EndStays
<1> QED
    BY <1>1, EndsBegin, EndsStep, RunsStart, RunsStepKeeps, PTL DEF RunsSpec, RunsEndOnce

\* A client hears of an end that is in the row.
ToldIsSo ==
    \A r \in Posts :
        /\ client[r] = "done" => progress[r].status = "SUCCEEDED"
        /\ client[r] = "error" => progress[r].status = "FAILED"

\* Before it hears it, the end is on its way to it.
Tells(r, event) ==
    \/ client[r] = event
    \/ \E i \in 1..Len(feed[r]) : feed[r][i] = event

EndIsKnown ==
    \A r \in Posts :
        /\ task[r] = "succeeded" \/ Tells(r, "done") => progress[r].status = "SUCCEEDED"
        /\ task[r] = "failed" \/ Tells(r, "error") => progress[r].status = "FAILED"

\* What a step tells a client was on its way, or is the end of the task.
LEMMA NewsOfTheTask ==
    ASSUME RunsInv, [RunsNext]_runVars, NEW r \in Posts
    PROVE  /\ Tells(r, "done")' => Tells(r, "done") \/ task[r] = "succeeded"
           /\ Tells(r, "error")' => Tells(r, "error") \/ task[r] = "failed"
<1>1. /\ feed \in [Posts -> Seq(Events)] /\ feed[r] \in Seq(Events)
      /\ client \in [Posts -> ClientStates] /\ Len(feed[r]) \in Nat
    BY DEF RunsInv, RunsTypeOK, ClientStates
<1>2. CASE StageCompletes(r) \/ RunReports(r)
    <2>1. PICK event \in Events :
              /\ Put(r, event) /\ client' = client
              /\ event = "done" => task[r] = "succeeded"
              /\ event = "error" => task[r] = "failed"
        <3>1. CASE StageCompletes(r)
            BY <1>1, <3>1 DEF StageCompletes, Events
        <3>2. CASE RunReports(r)
            BY <1>1, <3>2 DEF RunReports, Events
        <3> QED
            BY <1>2, <3>1, <3>2
    <2>2. ASSUME NEW i \in 1..Len(feed'[r])
          PROVE  \/ i \in 1..Len(feed[r]) /\ feed'[r][i] = feed[r][i]
                 \/ feed'[r][i] = event
        <3>1. CASE client[r] = "gone"
            BY <1>1, <2>1, <3>1 DEF Put
        <3>2. CASE client[r] # "gone"
            <4>1. feed'[r] = Append(feed[r], event)
                BY <1>1, <2>1, <3>2 DEF Put
            <4> QED
                BY <1>1, <4>1, AppendProperties
        <3> QED
            BY <3>1, <3>2
    <2> QED
        BY <2>1, <2>2 DEF Tells
<1>3. CASE ClientReads(r)
    <2>1. /\ feed[r] # <<>> /\ client'[r] = Head(feed[r]) /\ feed'[r] = Tail(feed[r])
        BY <1>1, <1>3 DEF ClientReads
    <2>2. /\ 1 \in 1..Len(feed[r]) /\ Head(feed[r]) = feed[r][1]
          /\ \A i \in 1..Len(Tail(feed[r])) :
                 i + 1 \in 1..Len(feed[r]) /\ Tail(feed[r])[i] = feed[r][i + 1]
        BY <1>1, <2>1, HeadTailProperties
    <2> QED
        BY <2>1, <2>2 DEF Tells
<1>4. CASE RunDies(r)
    <2>1. client'[r] = "gone" /\ feed'[r] = <<>>
        BY <1>1, <1>4 DEF RunDies
    <2> QED
        BY <2>1 DEF Tells
<1>5. CASE PostCommits(r)
    <2>1. client'[r] = "connected" /\ feed'[r] = feed[r]
        BY <1>1, <1>5 DEF PostCommits
    <2> QED
        BY <2>1 DEF Tells
<1>6. CASE ClientLeaves(r)
    <2>1. client'[r] = "gone" /\ feed'[r] = <<>>
        BY <1>1, <1>6 DEF ClientLeaves
    <2> QED
        BY <2>1 DEF Tells
<1>7. CASE \/ StreamStarts(r) \/ CheckpointLoads(r) \/ CheckpointCommits(r)
           \/ RunSucceeds(r) \/ RunFails(r) \/ RunLost(r) \/ PostArrives(r) \/ PostUpdates(r)
           \/ AskActive \/ RunsTick \/ UNCHANGED runVars
    <2>1. client'[r] = client[r] /\ feed'[r] = feed[r]
        BY <1>7
        DEF StreamStarts, CheckpointLoads, CheckpointCommits, RunSucceeds, RunFails, RunLost,
            PostArrives, PostUpdates, AskActive, RunsTick, runVars
    <2> QED
        BY <2>1 DEF Tells
<1>8. ASSUME NEW p \in Posts, p # r,
             \/ PostArrives(p) \/ PostUpdates(p) \/ PostCommits(p) \/ Task(p)
             \/ ClientReads(p) \/ ClientLeaves(p) \/ RunDies(p)
      PROVE  client'[r] = client[r] /\ feed'[r] = feed[r]
    BY <1>1, <1>8
    DEF PostArrives, PostUpdates, PostCommits, Task, StreamStarts, StageCompletes,
        CheckpointLoads, CheckpointCommits, RunSucceeds, RunFails, RunLost, RunReports,
        ClientReads, ClientLeaves, RunDies, Put
<1>9. CASE \E p \in Posts \ {r} : \/ PostArrives(p) \/ PostUpdates(p) \/ PostCommits(p)
                                \/ Task(p) \/ ClientReads(p) \/ ClientLeaves(p)
                                \/ RunDies(p)
    <2>1. client'[r] = client[r] /\ feed'[r] = feed[r]
        BY <1>8, <1>9
    <2> QED
        BY <2>1 DEF Tells
<1> QED
    BY <1>2, <1>3, <1>4, <1>5, <1>6, <1>7, <1>9 DEF RunsNext, Task

\* A task that has ended its run has ended it in the row.
LEMMA EndsAreWritten ==
    ASSUME RunsInv, [RunsNext]_runVars, NEW r \in Posts
    PROVE  /\ task'[r] = "succeeded" =>
                  task[r] = "succeeded" \/ progress'[r].status = "SUCCEEDED"
           /\ task'[r] = "failed" => task[r] = "failed" \/ progress'[r].status = "FAILED"
<1>1. progress \in [Posts -> ProgressRow] /\ task \in [Posts -> TaskPlaces]
    BY DEF RunsInv, RunsTypeOK, TaskPlaces
<1>2. CASE RunSucceeds(r) \/ RunFails(r)
    BY <1>1, <1>2 DEF RunSucceeds, RunFails, TaskAt, ProgressRow
<1>3. CASE \/ StreamStarts(r) \/ StageCompletes(r) \/ CheckpointLoads(r)
           \/ CheckpointCommits(r) \/ RunLost(r) \/ RunReports(r)
           \/ PostArrives(r) \/ PostUpdates(r)
           \/ PostCommits(r) \/ ClientReads(r) \/ ClientLeaves(r) \/ RunDies(r)
           \/ AskActive \/ RunsTick \/ UNCHANGED runVars
    BY <1>1, <1>3
    DEF StreamStarts, StageCompletes, AfterStage, CheckpointLoads, CheckpointCommits,
        RunLost, RunReports, PostArrives, PostUpdates, PostCommits, ClientReads, ClientLeaves,
        RunDies, AskActive, RunsTick, TaskAt, runVars
<1>4. ASSUME NEW p \in Posts, p # r,
             \/ PostArrives(p) \/ PostUpdates(p) \/ PostCommits(p) \/ Task(p)
             \/ ClientReads(p) \/ ClientLeaves(p) \/ RunDies(p)
      PROVE  task'[r] = task[r]
    BY <1>1, <1>4
    DEF PostArrives, PostUpdates, PostCommits, Task, StreamStarts, StageCompletes,
        AfterStage, CheckpointLoads, CheckpointCommits, RunSucceeds, RunFails, RunLost, RunReports,
        ClientReads, ClientLeaves, RunDies, TaskAt
<1> QED
    BY <1>2, <1>3, <1>4 DEF RunsNext, Task

(***************************************************************************)
(* What a client has been told stays true: who has heard "done" finds the    *)
(* row SUCCEEDED, and who has heard "error" FAILED, whoever supersedes the   *)
(* run, asks for the active one or dies in between.  The row is written      *)
(* before the event is sent, and an end is final.                           *)
(***************************************************************************)
THEOREM ClientsAreToldTheTruth == RunsSpec => []ToldIsSo
<1>1. RunsInit => EndIsKnown
    BY DEF RunsInit, EndIsKnown, Tells
<1>2. RunsInv /\ EndsInv /\ EndIsKnown /\ [RunsNext]_runVars => EndIsKnown'
    <2> SUFFICES ASSUME RunsInv, EndsInv, EndIsKnown, [RunsNext]_runVars, NEW r \in Posts
                 PROVE  /\ (task[r] = "succeeded" \/ Tells(r, "done"))' =>
                               progress'[r].status = "SUCCEEDED"
                        /\ (task[r] = "failed" \/ Tells(r, "error"))' =>
                               progress'[r].status = "FAILED"
        BY DEF EndIsKnown
    <2>1. progress[r].status \in {"SUCCEEDED", "FAILED"} =>
              progress'[r].status = progress[r].status
        BY EndStays
    <2> QED
        BY <2>1, NewsOfTheTask, EndsAreWritten DEF EndIsKnown
<1>3. EndIsKnown => ToldIsSo
    BY DEF EndIsKnown, ToldIsSo, Tells
<1> QED
    BY <1>1, <1>2, <1>3, EndsBegin, EndsStep, RunsStart, RunsStepKeeps, PTL DEF RunsSpec

-----------------------------------------------------------------------------
(* The outfit of the day                                                    *)

\* A run that will be stored was forced, or its call had found no pick.
StoresOnPurpose ==
    \A c \in Calls :
        /\ call[c].at = "running" => call[c].force \/ call[c].blind \/ call[c].hopit
        /\ call[c].at \in {"storing", "saving"} => call[c].force \/ call[c].blind

DayInv == DayTypeOK /\ StoresOnPurpose

\* A call that moves on, without other changes to it, or is asked anew.
LEMMA CallStep ==
    ASSUME DayInv, NEW c \in Calls, NEW new \in Call, call' = [call EXCEPT ![c] = new],
           new.at = "running" => new.force \/ new.blind \/ new.hopit,
           new.at \in {"storing", "saving"} => new.force \/ new.blind
    PROVE  call' \in [Calls -> Call] /\ StoresOnPurpose'
BY DEF DayInv, DayTypeOK, StoresOnPurpose

\* A call that moves on is still a call, with the same flags.
LEMMA CallMoves ==
    ASSUME DayInv, NEW c \in Calls,
           NEW place \in {"idle", "running", "storing", "saving", "over"}
    PROVE  /\ [call[c] EXCEPT !.at = place] \in Call
           /\ [call[c] EXCEPT !.at = place].at = place
           /\ [call[c] EXCEPT !.at = place].force = call[c].force
           /\ [call[c] EXCEPT !.at = place].blind = call[c].blind
           /\ Ended(c) \in {"idle", "over"}
<1>1. call[c] \in Call
  BY DEF DayInv, DayTypeOK
<1>2. QED
  BY <1>1 DEF Call, Ended

\* A call that is over, whatever it was.
LEMMA CallEnds ==
    ASSUME DayInv, NEW c \in Calls, call' = [call EXCEPT ![c].at = Ended(c)]
    PROVE  call' \in [Calls -> Call] /\ StoresOnPurpose'
<1> DEFINE new == [call[c] EXCEPT !.at = Ended(c)]
<1>1. Ended(c) \in {"idle", "over"}
  BY DEF Ended
<1>2. new \in Call /\ new.at \in {"idle", "over"}
  BY <1>1, CallMoves
<1>3. call' = [call EXCEPT ![c] = new]
  OBVIOUS
<1> HIDE DEF new
<1>4. QED
  BY <1>2, <1>3, CallStep

\* What is asked for either has a pick already or will be run.
LEMMA AskStep ==
    ASSUME DayInv, NEW c \in Calls, NEW m \in Members, NEW force \in BOOLEAN,
           NEW hopit \in BOOLEAN, Ask(c, m, force, hopit)
    PROVE  call' \in [Calls -> Call] /\ StoresOnPurpose'
<1>1. CASE CacheHit(m, force, hopit)
  BY <1>1, CallEnds DEF Ask
<1>2. CASE ~CacheHit(m, force, hopit)
  <2> DEFINE new == [at |-> "running", member |-> m, force |-> force, hopit |-> hopit,
                     blind |-> picks[m] = NoPick, found |-> FALSE]
  <2>1. new \in Call /\ new.at = "running"
    BY DEF Call
  <2>2. new.force \/ new.blind \/ new.hopit
    BY <1>2 DEF CacheHit
  <2>3. call' = [call EXCEPT ![c] = new]
    BY <1>2 DEF Ask
  <2> HIDE DEF new
  <2>4. QED
    BY <2>1, <2>2, <2>3, CallStep
<1>3. QED
  BY <1>1, <1>2

\* Each step of the day keeps the types and the reasons for storing.
LEMMA DayStep == DayInv /\ [DayNext]_dayVars => DayInv'
<1> SUFFICES ASSUME DayInv, [DayNext]_dayVars PROVE DayInv'
  OBVIOUS
<1>1. /\ subscribed \subseteq Members /\ picks \in [Members -> Runs \cup {NoPick}]
      /\ runs \subseteq Runs /\ call \in [Calls -> Call] /\ begun \in BOOLEAN
      /\ batch \subseteq Members /\ failed \subseteq Members /\ StoresOnPurpose
  BY DEF DayInv, DayTypeOK
<1>2. \A c \in Calls : call[c].member \in Members /\ RunOf(c) \in Runs
  BY <1>1 DEF Call, RunOf, Runs
<1>3. ASSUME call' \in [Calls -> Call], StoresOnPurpose',
             subscribed' \subseteq Members, picks' \in [Members -> Runs \cup {NoPick}],
             runs' \subseteq Runs, begun' \in BOOLEAN, batch' \subseteq Members,
             failed' \subseteq Members
      PROVE  DayInv'
  BY <1>3 DEF DayInv, DayTypeOK
<1>4. ASSUME NEW c \in Callers, AskForToday(c) PROVE DayInv'
  <2>1. PICK m \in Members, force \in BOOLEAN, hopit \in BOOLEAN : Ask(c, m, force, hopit)
    BY <1>4 DEF AskForToday
  <2>2. c \in Calls
    BY DEF Calls
  <2>3. UNCHANGED <<subscribed, picks, runs, begun, batch, failed>>
    BY <1>4 DEF AskForToday
  <2>4. QED
    BY <1>1, <1>3, <2>1, <2>2, <2>3, AskStep
<1>5. ASSUME NEW c \in Calls, DayRunCommits(c) PROVE DayInv'
  <2> DEFINE place == IF call[c].hopit THEN Ended(c) ELSE "storing"
             new == [call[c] EXCEPT !.at = place]
  <2>1. place \in {"idle", "over", "storing"} /\ (place = "storing" => ~call[c].hopit)
    BY DEF Ended
  <2>2. call[c].force \/ call[c].blind \/ call[c].hopit
    BY <1>1, <1>5 DEF DayRunCommits, StoresOnPurpose
  <2>3. call' = [call EXCEPT ![c] = new] /\ runs' = runs \cup {RunOf(c)}
        /\ UNCHANGED <<subscribed, picks, begun, batch, failed>>
    BY <1>5 DEF DayRunCommits
  <2> HIDE DEF place
  <2>4. /\ new \in Call /\ new.at = place
        /\ new.force = call[c].force /\ new.blind = call[c].blind
    <3>1. call[c] \in Call
      BY <1>1
    <3>2. QED
      BY <2>1, <3>1 DEF Call
  <2> HIDE DEF new
  <2>5. call' \in [Calls -> Call] /\ StoresOnPurpose'
    BY <2>1, <2>2, <2>3, <2>4, CallStep
  <2>6. QED
    BY <1>1, <1>2, <1>3, <2>3, <2>5
<1>6. ASSUME NEW c \in Calls, DayRunFails(c) PROVE DayInv'
  <2>1. call' = [call EXCEPT ![c].at = Ended(c)]
        /\ UNCHANGED <<subscribed, picks, runs, begun, batch>>
        /\ failed' \subseteq failed \cup {call[c].member}
    BY <1>6 DEF DayRunFails
  <2>2. QED
    BY <1>1, <1>2, <1>3, <2>1, CallEnds
<1>7. ASSUME NEW c \in Calls, LooksAgain(c) PROVE DayInv'
  <2> DEFINE found == picks[call[c].member] # NoPick
             new == [call[c] EXCEPT !.at = "saving", !.found = found]
  <2>1. /\ call' = [call EXCEPT ![c].at = "saving", ![c].found = found]
        /\ call[c].at = "storing"
        /\ UNCHANGED <<subscribed, picks, runs, begun, batch, failed>>
    BY <1>7, Zenon DEF LooksAgain
  <2>2. call[c] \in Call /\ found \in BOOLEAN
    BY <1>1
  <2>3. /\ new \in Call /\ new.at = "saving"
        /\ new.force = call[c].force /\ new.blind = call[c].blind
    <3> HIDE DEF found
    <3>1. QED
      BY <2>2 DEF Call
  <2>4. call[c].force \/ call[c].blind
    BY <1>1, <2>1 DEF StoresOnPurpose
  <2>5. call' = [call EXCEPT ![c] = new]
    <3> HIDE DEF found
    <3>1. QED
      BY <1>1, <2>1, <2>2 DEF Call
  <2> HIDE DEF new
  <2>6. call' \in [Calls -> Call] /\ StoresOnPurpose'
    BY <2>1, <2>3, <2>4, <2>5, CallStep
  <2>7. QED
    BY <1>1, <1>3, <2>1, <2>6
<1>8. ASSUME NEW c \in Calls, StoresPick(c) \/ PickConflicts(c) PROVE DayInv'
  <2>1. /\ call' = [call EXCEPT ![c].at = Ended(c)]
        /\ picks' = picks \/ picks' = [picks EXCEPT ![call[c].member] = RunOf(c)]
        /\ UNCHANGED <<subscribed, runs, begun, batch, failed>>
    BY <1>8 DEF StoresPick, PickConflicts
  <2>2. picks' \in [Members -> Runs \cup {NoPick}]
    BY <1>1, <1>2, <2>1
  <2>3. QED
    BY <1>1, <1>3, <2>1, <2>2, CallEnds
<1>9. ASSUME NEW m \in Members, Subscribes(m) PROVE DayInv'
  BY <1>1, <1>3, <1>9 DEF Subscribes, StoresOnPurpose
<1>10. CASE BatchStarts
  BY <1>1, <1>3, <1>10 DEF BatchStarts, StoresOnPurpose
<1>11. CASE BatchNext
  <2>1. Scheduler \in Calls
    BY DEF Calls
  <2>2. PICK m \in batch : Ask(Scheduler, m, FALSE, FALSE) /\ batch' = batch \ {m}
    BY <1>11 DEF BatchNext
  <2>3. call' \in [Calls -> Call] /\ StoresOnPurpose'
    BY <1>1, <2>1, <2>2, AskStep
  <2>4. UNCHANGED <<subscribed, picks, runs, begun, failed>>
    BY <1>11 DEF BatchNext
  <2>5. QED
    BY <1>1, <1>3, <2>2, <2>3, <2>4
<1>12. CASE UNCHANGED dayVars
  BY <1>1, <1>3, <1>12 DEF dayVars, StoresOnPurpose
<1>13. QED
  BY <1>4, <1>5, <1>6, <1>7, <1>8, <1>9, <1>10, <1>11, <1>12 DEF DayNext, CallProceeds

\* The day begins with every call idle.
LEMMA DayStart == DayInit => DayInv
<1> SUFFICES ASSUME DayInit PROVE DayInv
  OBVIOUS
<1>1. (CHOOSE m \in Members : TRUE) \in Members
  BY DayAssumption
<1>2. DayTypeOK
  BY <1>1 DEF DayInit, DayTypeOK, Call
<1>3. StoresOnPurpose
  BY DEF DayInit, StoresOnPurpose
<1>4. QED
  BY <1>2, <1>3 DEF DayInv

(***************************************************************************)
(* Whatever requests, batches, failures and conflicts interleave, a pick is *)
(* a run of its day, and calls and subscriptions keep their types.          *)
(***************************************************************************)
THEOREM DayTypeCorrect == DaySpec => []DayTypeOK
<1>1. DayInv => DayTypeOK
  BY DEF DayInv
<1>2. QED
  BY <1>1, DayStart, DayStep, PTL DEF DaySpec

(***************************************************************************)
(* For any number of members and requests: a pick that exists is replaced   *)
(* only by a request that was forced, or that had found no pick when it     *)
(* asked.  The daily batch, which forces nothing, replaces none it has seen.*)
(***************************************************************************)
THEOREM PicksAreReplacedOnPurpose == DaySpec => ReplacedOnPurpose
<1> DEFINE OnPurpose ==
        \A m \in Members :
          picks[m] # NoPick /\ picks'[m] # picks[m] =>
              LET by == call[picks'[m][1]] IN by.force \/ by.blind
<1>1. DayInv /\ [DayNext]_dayVars => [OnPurpose]_dayVars
  <2> SUFFICES ASSUME DayInv, DayNext PROVE OnPurpose
    OBVIOUS
  <2>1. picks \in [Members -> Runs \cup {NoPick}] /\ StoresOnPurpose
    BY DEF DayInv, DayTypeOK
  <2>2. ASSUME NEW c \in Calls, StoresPick(c) PROVE OnPurpose
    <3>1. call[c].force \/ call[c].blind
      BY <2>1, <2>2 DEF StoresPick, StoresOnPurpose
    <3>2. \A m \in Members : picks'[m] # picks[m] => picks'[m] = RunOf(c)
      BY <2>1, <2>2 DEF StoresPick
    <3>3. RunOf(c)[1] = c
      BY DEF RunOf
    <3>4. QED
      BY <3>1, <3>2, <3>3
  <2>3. (\E c \in Calls : StoresPick(c)) \/ picks' = picks
    BY DEF DayNext, AskForToday, CallProceeds, DayRunCommits, DayRunFails, LooksAgain,
           PickConflicts, Subscribes, BatchStarts, BatchNext
  <2>4. QED
    BY <2>2, <2>3
<1>2. QED
  BY <1>1, DayStart, DayStep, PTL DEF DaySpec, ReplacedOnPurpose

-----------------------------------------------------------------------------
(* The four scenes                                                          *)

\* Each scene of styling is a behaviour of its component, played or at rest:
\* what is proved of the components holds of the specification that is run.
THEOREM StylingPlaysAll == StylingSpec => RunsSpec /\ SwapSpec /\ DaySpec /\ LedgerSpec
<1>1. StylingInit => RunsInit /\ SwapInit /\ DayInit /\ LedgerInit
    BY DEF StylingInit
<1>2. [StylingNext]_stylingVars => [RunsNext]_runVars
    BY DEF StylingNext, stylingVars
<1>3. [StylingNext]_stylingVars => [SwapNext]_swapVars
    BY DEF StylingNext, stylingVars
<1>4. [StylingNext]_stylingVars => [DayNext]_dayVars
    BY DEF StylingNext, stylingVars
<1>5. [StylingNext]_stylingVars => [LedgerNext]_ledgerVars
    BY DEF StylingNext, stylingVars
<1> QED
    BY <1>1, <1>2, <1>3, <1>4, <1>5, PTL
    DEF StylingSpec, RunsSpec, SwapSpec, DaySpec, LedgerSpec

\* The types of all four components, in the specification that is run.
THEOREM StylingTypeCorrect == StylingSpec => []StylingTypeOK
BY StylingPlaysAll, RunsTypeCorrect, SwapTypeCorrect, DayTypeCorrect, LedgerTypeCorrect, PTL
   DEF StylingTypeOK

=============================================================================
