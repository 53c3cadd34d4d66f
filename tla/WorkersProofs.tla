---------------------------- MODULE WorkersProofs ----------------------------
(***************************************************************************)
(* Proofs about PhotoSiblings, for every photo, detector and set of loops    *)
(* and handlers.  Garments are numbered as they are inserted, a process that *)
(* has numbers and no rows yet keeps them to itself (PendingAreApart), and   *)
(* of two loops inside the runs of one garment one has overtaken the other   *)
(* (SecondOvertakes): what the others read of the photo's labels still tells *)
(* what they may spawn when they commit (PendingAreNew).  The last part is   *)
(* about the specification that plays the photo and the lock side by side    *)
(* (MCWorkers).                                                              *)
(***************************************************************************)
EXTENDS MCWorkers, TimedExecutionLockProofs, SequenceTheorems, WellFoundedInduction

-----------------------------------------------------------------------------
(* The inductive invariant                                                  *)

\* Where a process may be, and what it works on there.
PlacesAreRight ==
    \A p \in Processes :
        /\ pc[p] = "loaded" => p \in Loops
        /\ pc[p] = "uploading" => p \in Handlers /\ rows[1].state # "absent"
        /\ p \in Handlers /\ pc[p] \in {"idle", "uploading"} => GarmentOf(p) = 1
        /\ pc[p] \in {"loaded", "running"} => run[p].found = <<>>
        /\ pc[p] # "announcing" => announce[p] = <<>>

\* Rows have the numbers handed out; the first is nobody's sibling, the others are.
RowsAreNumbered ==
    /\ rows[1].by = "nobody" /\ rows[1].spawned = NoLabel
    /\ \A g \in Garments :
          /\ rows[g].state # "absent" => g <= born
          /\ rows[g].state # "absent" /\ g # 1 => rows[g].by # "nobody"
          /\ ~rows[g].relabelled /\ rows[g].spawned # NoLabel => rows[g].label = rows[g].spawned

\* What is still to be announced has been committed.
AnnouncedAreDurable ==
    \A p \in Processes : \A i \in 1..Len(announce[p]) : rows[announce[p][i]].state # "absent"

\* The siblings a process is about to commit have their numbers and no rows,
\* and nobody else has these numbers.
PendingAreApart ==
    \A p \in Processes : pc[p] = "committing" =>
        /\ run[p].found # <<>> => run[p].base # 0 /\ run[p].base + Len(run[p].found) <= born
        /\ \A g \in SpawnIds(p) : rows[g].state = "absent"
        /\ \A q \in Processes \ {p} :
              pc[q] = "committing" => SpawnIds(p) \cap SpawnIds(q) = {}

\* The lock: of two loops inside the runs of one garment, one went ahead while
\* the other had it.
SecondOvertakes ==
    \A p, q \in Loops :
        /\ p # q /\ GarmentOf(p) = GarmentOf(q)
        /\ pc[p] \in {"running", "committing"} /\ pc[q] \in {"running", "committing"}
        => run[p].overtook \/ run[q].overtook

\* A sibling which is not new to whoever reads it under the lock: it was
\* spawned for l, by the upload's run, which had not overtaken another, and
\* still has its label.
KnownFor(r, l) ==
    r.spawned = l /\ r.by \notin {"sibling", "step"} /\ ~r.overtook /\ ~r.relabelled

\* What a run of the uploaded garment that overtook no other is about to spawn
\* is not there yet.
PendingAreNew ==
    \A p \in Loops : pc[p] = "committing" /\ GarmentOf(p) = 1 /\ ~run[p].overtook =>
        \A i \in 1..Len(run[p].found) : \A h \in Garments :
            Exists(h) => ~KnownFor(rows[h], run[p].found[i])

\* A job that p is about to queue, or the work itself.
Carries(p, g) ==
    \/ \E i \in 1..Len(announce[p]) : announce[p][i] = g
    \/ pc[p] = "uploading" /\ g = 1
    \/ p \in Loops /\ pc[p] \in {"loaded", "running", "committing"} /\ GarmentOf(p) = g

\* A /step request does not settle its garment: it carries nothing.
NewAreCarried ==
    \A g \in Garments :
        rows[g].state = "new" => Queued(g) \/ g \in lost \/ \E p \in Processes : Carries(p, g)

SiblingInv ==
    /\ SiblingTypeOK /\ JobsNameDurableRows /\ SecondBatchHasACause
    /\ PlacesAreRight /\ RowsAreNumbered /\ AnnouncedAreDurable /\ PendingAreApart
    /\ SecondOvertakes /\ PendingAreNew /\ NewAreCarried

-----------------------------------------------------------------------------
\* Induction over the natural numbers, for a property given as a set.
LEMMA NaturalNumbers ==
    ASSUME NEW Good, 0 \in Good, \A n \in Nat : n \in Good => n + 1 \in Good
    PROVE  Nat \subseteq Good
<1> SUFFICES ASSUME Nat \ Good # {} PROVE FALSE
    OBVIOUS
<1>1. PICK n \in Nat \ Good : \A m \in Nat \ Good : ~(<<m, n>> \in OpToRel(<, Nat))
    <2>1. Nat \ Good \subseteq Nat
        OBVIOUS
    <2> QED
        BY <2>1, NatLessThanWellFounded, WFMin
<1>2. n # 0
    OBVIOUS
<1>3. n - 1 \in Nat /\ (n - 1) + 1 = n /\ n - 1 < n
    BY <1>2
<1>4. <<n - 1, n>> \in OpToRel(<, Nat)
    BY <1>3 DEF OpToRel
<1>5. n - 1 \in Good
    BY <1>1, <1>3, <1>4
<1> QED
    BY <1>3, <1>5

-----------------------------------------------------------------------------
(* What the model's operators return                                        *)

\* A job names a garment, and a new run starts on it with nothing found.
LEMMA NewJobs ==
    ASSUME NEW g \in Garments, NEW from \in {"start", "attributes"}, NEW force \in BOOLEAN
    PROVE  NewJob(g, from, force) \in Job /\ NewJob(g, from, force).garment = g
BY DEF NewJob, Job

\* The first garment is one, and an idle process names it.
LEMMA IdleIsARun ==
    /\ 1 \in Garments /\ Garments \subseteq Nat
    /\ Idle \in Run /\ Idle.job.garment = 1 /\ Idle.found = <<>>
<1>1. 1 \in Garments /\ Garments \subseteq Nat
    BY SiblingAssumption DEF Garments
<1>2. NewJob(1, "start", FALSE) \in Job /\ NewJob(1, "start", FALSE).garment = 1
    BY <1>1, NewJobs
<1>3. <<>> \in Seq(Labels) /\ 0 \in 0..MaxGarments
    BY SiblingAssumption
<1> QED
    BY <1>1, <1>2, <1>3 DEF Idle, NewRun, Run

\* A run begins with what it read of its garment's row.
LEMMA NewRuns ==
    ASSUME SiblingTypeOK, NEW j \in Job
    PROVE  RunOf(j) \in Run /\ RunOf(j).job = j /\ RunOf(j).found = <<>>
<1>1. rows[j.garment].label \in Labels \cup {NoLabel}
    BY DEF SiblingTypeOK, Job, Row
<1>2. <<>> \in Seq(Labels) /\ 0 \in 0..MaxGarments
    BY SiblingAssumption
<1> QED
    BY <1>1, <1>2 DEF RunOf, NewRun, Run

\* Every process has a host, and no handler is a loop.
LEMMA WhoIsWho ==
    /\ \A p \in Processes : HostOf(p) \in Hosts
    /\ \A p \in Handlers : p \in Processes /\ p \notin Loops
    /\ \A p \in Loops : p \in Processes
    /\ \A h \in Hosts : h \in Loops /\ h \in Processes
BY SiblingAssumption DEF HostOf, Hosts, Processes, Loops

\* Some function is what NewLabels keeps of the first n regions.
KeptAt(k, X, d, i) ==
    IF i < 2 THEN <<>> ELSE IF d[i] \in X THEN k[i - 1] ELSE Append(k[i - 1], d[i])
KeptFrom(k, X, d, n) == k = [i \in 0..n |-> KeptAt(k, X, d, i)]

\* The labels kept are defined, region by region.
LEMMA KeptExists ==
    ASSUME NEW X, NEW d, NEW n \in Nat
    PROVE  \E k : KeptFrom(k, X, d, n)
<1> DEFINE Good == {m \in Nat : \E k : KeptFrom(k, X, d, m)}
<1>1. 0 \in Good
    <2>1. KeptFrom([i \in 0..0 |-> <<>>], X, d, 0)
        BY DEF KeptFrom, KeptAt
    <2> QED
        BY <2>1
<1>2. ASSUME NEW m \in Nat, m \in Good PROVE m + 1 \in Good
    <2>1. PICK k : KeptFrom(k, X, d, m)
        BY <1>2
    <2> DEFINE e == [i \in 0..(m + 1) |-> KeptAt(k, X, d, i)]
    <2>2. \A i \in 0..m : e[i] = k[i]
        BY <2>1 DEF KeptFrom
    <2>3. ASSUME NEW i \in 0..(m + 1) PROVE KeptAt(e, X, d, i) = KeptAt(k, X, d, i)
        <3>1. i >= 2 => i - 1 \in 0..m
            OBVIOUS
        <3> HIDE DEF e
        <3> QED
            BY <2>2, <3>1 DEF KeptAt
    <2>4. KeptFrom(e, X, d, m + 1)
        BY <2>3 DEF KeptFrom
    <2> QED
        BY <2>4
<1>3. Nat \subseteq Good
    BY <1>1, <1>2, NaturalNumbers
<1> QED
    BY <1>3

\* Stage 2 spawns for labels only, and for none the photo's other garments have.
LEMMA NewLabelsAreNew ==
    ASSUME NEW g, NEW d \in Seq(Labels)
    PROVE  /\ NewLabels(g, d) \in Seq(Labels)
           /\ \A i \in 1..Len(NewLabels(g, d)) : NewLabels(g, d)[i] \notin ExistingLabels(g)
<1> DEFINE X == ExistingLabels(g)
           k == CHOOSE k : KeptFrom(k, X, d, Len(d))
           IsNew(s) == s \in Seq(Labels) /\ \A i \in 1..Len(s) : s[i] \notin X
           Good == {n \in Nat : n <= Len(d) => IsNew(k[n])}
<1>1. KeptFrom(k, X, d, Len(d))
    BY KeptExists
<1>2. NewLabels(g, d) = k[Len(d)]
    BY DEF NewLabels, KeptFrom, KeptAt
<1> HIDE DEF X, k
<1>3. 0 \in Good
    BY <1>1 DEF KeptFrom, KeptAt
<1>4. ASSUME NEW n \in Nat, n \in Good PROVE n + 1 \in Good
    <2> SUFFICES ASSUME n + 1 <= Len(d) PROVE IsNew(k[n + 1])
        OBVIOUS
    <2>1. IsNew(k[n]) /\ n + 1 \in 0..Len(d) /\ (n + 1) - 1 = n
        BY <1>4
    <2>2. k[n + 1] = IF n + 1 < 2 THEN <<>>
                     ELSE IF d[n + 1] \in X THEN k[n] ELSE Append(k[n], d[n + 1])
        BY <1>1, <2>1 DEF KeptFrom, KeptAt
    <2>3. CASE n + 1 < 2 \/ d[n + 1] \in X
        BY <2>1, <2>2, <2>3
    <2>4. CASE n + 1 >= 2 /\ d[n + 1] \notin X
        <3>1. d[n + 1] \in Labels
            BY <2>1, <2>4
        <3> QED
            BY <2>1, <2>2, <2>4, <3>1, AppendProperties
    <2> QED
        BY <2>3, <2>4
<1>5. Nat \subseteq Good
    <2> HIDE DEF Good
    <2> QED
        BY <1>3, <1>4, NaturalNumbers
<1>6. IsNew(k[Len(d)])
    BY <1>5
<1> QED
    BY <1>2, <1>6 DEF X

-----------------------------------------------------------------------------
(* Queues                                                                   *)

\* A job put at the end of a queue is the one more that it holds.
LEMMA OneMoreJob ==
    ASSUME NEW q \in Seq(Job), NEW j \in Job
    PROVE  /\ Append(q, j) \in Seq(Job)
           /\ \A g : JobsFor(Append(q, j), g) <=> JobsFor(q, g) \/ j.garment = g
<1>1. /\ Append(q, j) \in Seq(Job) /\ Len(Append(q, j)) = Len(q) + 1 /\ Len(q) \in Nat
      /\ \A i \in 1..Len(q) : Append(q, j)[i] = q[i]
      /\ Append(q, j)[Len(q) + 1] = j
    BY AppendProperties, LenProperties
<1>2. ASSUME NEW g, JobsFor(Append(q, j), g) PROVE JobsFor(q, g) \/ j.garment = g
    BY <1>1, <1>2 DEF JobsFor
<1>3. ASSUME NEW g, JobsFor(q, g) \/ j.garment = g PROVE JobsFor(Append(q, j), g)
    <2>1. CASE JobsFor(q, g)
        <3>1. PICK i \in 1..Len(q) : q[i].garment = g
            BY <2>1 DEF JobsFor
        <3>2. i \in 1..(Len(q) + 1) /\ Append(q, j)[i].garment = g
            BY <1>1, <3>1
        <3> QED
            BY <1>1, <3>2 DEF JobsFor
    <2>2. CASE j.garment = g
        <3>1. Len(q) + 1 \in 1..(Len(q) + 1)
            BY <1>1
        <3> QED
            BY <1>1, <2>2, <3>1 DEF JobsFor
    <2> QED
        BY <1>3, <2>1, <2>2
<1> QED
    BY <1>1, <1>2, <1>3

\* The first job of a queue is the one less that its tail holds.
LEMMA OneJobLess ==
    ASSUME NEW q \in Seq(Job), q # <<>>
    PROVE  /\ Head(q) \in Job /\ Tail(q) \in Seq(Job)
           /\ \A g : JobsFor(q, g) <=> JobsFor(Tail(q), g) \/ Head(q).garment = g
<1>1. /\ Head(q) \in Job /\ Tail(q) \in Seq(Job) /\ Head(q) = q[1]
      /\ Len(q) \in Nat \ {0} /\ Len(Tail(q)) = Len(q) - 1
      /\ \A i \in 1..Len(Tail(q)) : Tail(q)[i] = q[i + 1]
    BY HeadTailProperties, EmptySeq, LenProperties
<1>2. ASSUME NEW g, JobsFor(q, g) PROVE JobsFor(Tail(q), g) \/ Head(q).garment = g
    <2>1. PICK i \in 1..Len(q) : q[i].garment = g
        BY <1>2 DEF JobsFor
    <2>2. CASE i = 1
        BY <1>1, <2>1, <2>2
    <2>3. CASE i # 1
        <3>1. i - 1 \in 1..Len(Tail(q)) /\ (i - 1) + 1 = i
            BY <1>1, <2>1, <2>3
        <3>2. Tail(q)[i - 1].garment = g
            BY <1>1, <2>1, <3>1
        <3> QED
            BY <3>1, <3>2 DEF JobsFor
    <2> QED
        BY <2>2, <2>3
<1>3. ASSUME NEW g, JobsFor(Tail(q), g) PROVE JobsFor(q, g)
    <2>1. PICK i \in 1..Len(Tail(q)) : Tail(q)[i].garment = g
        BY <1>3 DEF JobsFor
    <2>2. i + 1 \in 1..Len(q) /\ q[i + 1].garment = g
        BY <1>1, <2>1
    <2> QED
        BY <2>2 DEF JobsFor
<1>4. ASSUME NEW g, Head(q).garment = g PROVE JobsFor(q, g)
    <2>1. 1 \in 1..Len(q)
        BY <1>1
    <2> QED
        BY <1>1, <1>4, <2>1 DEF JobsFor
<1> QED
    BY <1>1, <1>2, <1>3, <1>4

\* Nothing is queued for anybody in an empty queue.
LEMMA NoJobs == \A g : ~JobsFor(<<>>, g)
BY DEF JobsFor

\* Wherever the job goes, it is the one more that is queued.
LEMMA PutJobQueues ==
    ASSUME SiblingTypeOK, NEW h \in Hosts, NEW j \in Job, PutJob(h, j)
    PROVE  /\ redis' \in Seq(Job) /\ memory' \in [Hosts -> Seq(Job)]
           /\ \A g : Queued(g)' <=> Queued(g) \/ j.garment = g
<1>1. redis \in Seq(Job) /\ memory \in [Hosts -> Seq(Job)]
    BY DEF SiblingTypeOK
<1>2. CASE redis' = Append(redis, j) /\ UNCHANGED memory
    BY <1>1, <1>2, OneMoreJob DEF Queued
<1>3. CASE memory' = [memory EXCEPT ![h] = Append(@, j)] /\ UNCHANGED redis
    <2>1. /\ memory[h] \in Seq(Job) /\ memory'[h] = Append(memory[h], j)
          /\ \A k \in Hosts : k # h => memory'[k] = memory[k]
        BY <1>1, <1>3
    <2>2. /\ memory'[h] \in Seq(Job)
          /\ \A g : JobsFor(memory'[h], g) <=> JobsFor(memory[h], g) \/ j.garment = g
        BY <2>1, OneMoreJob
    <2>3. memory' \in [Hosts -> Seq(Job)]
        BY <1>1, <1>3, <2>1, <2>2
    <2> QED
        BY <1>1, <1>3, <2>1, <2>2, <2>3 DEF Queued
<1> QED
    BY <1>2, <1>3 DEF PutJob

\* The job a loop takes is the one less that is queued.
LEMMA TakeQueues ==
    ASSUME SiblingTypeOK, NEW l \in Processes, TakeFromRedis(l) \/ TakeFromMemory(l)
    PROVE  \E j \in Job :
              /\ l \in Loops /\ pc[l] = "idle" /\ LoadGarment(l, j)
              /\ redis' \in Seq(Job) /\ memory' \in [Hosts -> Seq(Job)]
              /\ \A g : Queued(g) <=> Queued(g)' \/ j.garment = g
<1>1. redis \in Seq(Job) /\ memory \in [Hosts -> Seq(Job)]
    BY DEF SiblingTypeOK
<1>2. CASE TakeFromRedis(l)
    <2>1. /\ Head(redis) \in Job /\ Tail(redis) \in Seq(Job)
          /\ \A g : JobsFor(redis, g) <=> JobsFor(Tail(redis), g) \/ Head(redis).garment = g
        BY <1>1, <1>2, OneJobLess DEF TakeFromRedis
    <2>2. \A g : Queued(g) <=> Queued(g)' \/ Head(redis).garment = g
        BY <1>2, <2>1 DEF TakeFromRedis, Queued
    <2> QED
        BY <1>1, <1>2, <2>1, <2>2, WhoIsWho DEF TakeFromRedis, Loops
<1>3. CASE TakeFromMemory(l)
    <2>1. l \in Hosts /\ memory[l] \in Seq(Job) /\ memory[l] # <<>>
        BY <1>1, <1>3 DEF TakeFromMemory
    <2>2. /\ Head(memory[l]) \in Job /\ Tail(memory[l]) \in Seq(Job)
          /\ \A g : JobsFor(memory[l], g)
                 <=> JobsFor(Tail(memory[l]), g) \/ Head(memory[l]).garment = g
        BY <2>1, OneJobLess
    <2>3. /\ memory' \in [Hosts -> Seq(Job)] /\ redis' = redis
          /\ memory'[l] = Tail(memory[l])
          /\ \A k \in Hosts : k # l => memory'[k] = memory[k]
        BY <1>1, <1>3, <2>1, <2>2 DEF TakeFromMemory
    <2>4. \A g : Queued(g) <=> Queued(g)' \/ Head(memory[l]).garment = g
        BY <2>1, <2>2, <2>3 DEF Queued
    <2> QED
        BY <1>1, <1>3, <2>1, <2>2, <2>3, <2>4, WhoIsWho DEF TakeFromMemory
<1> QED
    BY <1>2, <1>3

-----------------------------------------------------------------------------
(* What stage 2 and its commit do                                           *)

\* A detection hands out numbers for labels the photo's garments do not have.
LEMMA CropSpawns ==
    ASSUME SiblingTypeOK, NEW p \in Processes, CropLabels(p)
    PROVE  \E f \in Seq(Labels) :
              /\ born + Len(f) <= MaxGarments /\ born' = born + Len(f)
              /\ \A i \in 1..Len(f) : f[i] \notin ExistingLabels(GarmentOf(p))
              /\ run' \in [Processes -> Run]
              /\ run'[p].job = run[p].job /\ run'[p].found = f /\ run'[p].base = born
              /\ run'[p].overtook = run[p].overtook
              /\ \A q \in Processes : q # p => run'[q] = run[q]
<1>1. PICK d \in Detections :
          LET f == NewLabels(GarmentOf(p), d) IN
          /\ born + Len(f) <= MaxGarments
          /\ born' = born + Len(f)
          /\ run' = [run EXCEPT ![p].label = IF d = <<>> THEN NoLabel ELSE d[1],
                                ![p].stage2 = "SUCCEEDED", ![p].found = f, ![p].base = born]
    BY DEF CropLabels
<1> DEFINE f == NewLabels(GarmentOf(p), d)
           r == [run[p] EXCEPT !.label = IF d = <<>> THEN NoLabel ELSE d[1],
                               !.stage2 = "SUCCEEDED", !.found = f, !.base = born]
<1>2. d \in Seq(Labels)
    BY SiblingAssumption
<1>3. f \in Seq(Labels) /\ \A i \in 1..Len(f) : f[i] \notin ExistingLabels(GarmentOf(p))
    BY <1>2, NewLabelsAreNew
<1>4. (IF d = <<>> THEN NoLabel ELSE d[1]) \in Labels \cup {NoLabel}
    <2>1. d # <<>> => d[1] \in Labels
        BY <1>2, EmptySeq, LenProperties
    <2> QED
        BY <2>1
<1> HIDE DEF f
<1>5. /\ r \in Run /\ r.job = run[p].job /\ r.found = f /\ r.base = born
      /\ r.overtook = run[p].overtook
    <2>1. run[p] \in Run /\ born \in 0..MaxGarments
        BY DEF SiblingTypeOK
    <2> QED
        BY <1>3, <1>4, <2>1 DEF Run
<1>6. run' = [run EXCEPT ![p] = r]
    BY <1>1 DEF f, SiblingTypeOK
<1> HIDE DEF r
<1>7. /\ run' \in [Processes -> Run] /\ run'[p] = r
      /\ \A q \in Processes : q # p => run'[q] = run[q]
    BY <1>5, <1>6 DEF SiblingTypeOK
<1>8. born + Len(f) <= MaxGarments /\ born' = born + Len(f)
    BY <1>1 DEF f
<1> QED
    BY <1>3, <1>5, <1>7, <1>8

\* A run's garment keeps what it was spawned as; a label changes with a mark.
RowKept(r, s, state) ==
    /\ s.state = state
    /\ s.spawned = r.spawned /\ s.by = r.by /\ s.batch = r.batch /\ s.overtook = r.overtook
    /\ r.relabelled => s.relabelled
    /\ ~s.relabelled => s.label = r.label

\* A sibling's row as it is inserted.
RowOfSibling(s, l, by, batch, overtook) ==
    /\ s.state = "new" /\ s.label = l /\ s.spawned = l /\ s.by = by
    /\ s.batch = batch /\ (overtook => s.overtook) /\ ~s.relabelled

\* The commit writes the run's garment and its siblings, which it will announce.
LEMMA CommitWrites ==
    ASSUME SiblingTypeOK, PendingAreApart, NEW p \in Processes, CommitSiblings(p)
    PROVE  /\ GarmentOf(p) \in Garments /\ Exists(GarmentOf(p))
           /\ SpawnIds(p) \subseteq Garments /\ GarmentOf(p) \notin SpawnIds(p)
           /\ rows' \in [Garments -> Row]
           /\ RowKept(rows[GarmentOf(p)], rows'[GarmentOf(p)], StateAfter(p))
           /\ \A g \in SpawnIds(p) : \E i \in 1..Len(run[p].found) :
                 RowOfSibling(rows'[g], run[p].found[i], Spawner(p), run[p].base,
                              run[p].overtook)
           /\ \A g \in Garments :
                 g # GarmentOf(p) /\ g \notin SpawnIds(p) => rows'[g] = rows[g]
           /\ announce' \in [Processes -> Seq(Garments)]
           /\ \A g : (g \in SpawnIds(p)) <=> \E i \in 1..Len(announce'[p]) : announce'[p][i] = g
           /\ \A q \in Processes : q # p => announce'[q] = announce[q]
<1> DEFINE G == GarmentOf(p)
           n == Len(run[p].found)
           base == run[p].base
<1>1. /\ run[p] \in Run /\ G \in Garments /\ Exists(G)
      /\ run[p].found \in Seq(Labels) /\ n \in Nat /\ base \in Nat /\ base \in 0..MaxGarments
      /\ born \in 0..MaxGarments /\ rows[G] \in Row
    <2>1. run[p] \in Run
        BY DEF SiblingTypeOK
    <2>2. /\ run[p].job \in Job /\ run[p].found \in Seq(Labels) /\ base \in 0..MaxGarments
        BY <2>1 DEF Run
    <2>3. G \in Garments
        BY <2>2 DEF Job, GarmentOf
    <2>4. n \in Nat
        BY <2>2, LenProperties
    <2> QED
        BY <2>1, <2>2, <2>3, <2>4, SiblingAssumption DEF CommitSiblings, SiblingTypeOK
<1>2. n # 0 => base + n <= born /\ \A g \in SpawnIds(p) : rows[g].state = "absent"
    BY <1>1, EmptySeq DEF PendingAreApart, CommitSiblings
<1>3. SpawnIds(p) = {base + i : i \in 1..n}
    BY DEF SpawnIds
<1>4. \A i \in 1..n : base + i \in Garments
    <2>1. n \in Nat /\ base \in Nat /\ born \in Nat /\ born <= MaxGarments /\ MaxGarments \in Nat
        BY <1>1, SiblingAssumption
    <2> HIDE DEF n, base
    <2> QED
        BY <1>2, <2>1 DEF Garments
<1>5. SpawnIds(p) \subseteq Garments
    BY <1>3, <1>4
<1>6. G \notin SpawnIds(p)
    BY <1>1, <1>2, <1>3 DEF Exists
<1>7. /\ \A g \in Garments : rows'[g] =
              IF g = G THEN RowAfter(p) ELSE IF g \in SpawnIds(p) THEN Spawned(p)[g] ELSE rows[g]
      /\ rows' = [g \in Garments |-> rows'[g]]
    BY DEF CommitSiblings
<1>8. RowAfter(p) \in Row /\ RowKept(rows[G], RowAfter(p), StateAfter(p))
    <2>1. StateAfter(p) \in RowStates
        BY <1>1 DEF StateAfter, RowStates, Exists
    <2>2. run[p].label \in Labels \cup {NoLabel}
        BY <1>1 DEF Run
    <2> DEFINE r == rows[G]
               changed == run[p].label # run[p].loaded
               l == IF changed THEN run[p].label ELSE r.label
               c == IF run[p].stage2 = "none" THEN r.cropped ELSE run[p].stage2 = "SUCCEEDED"
               m == r.relabelled \/ changed
    <2>3. r.label \in Labels \cup {NoLabel} /\ r.cropped \in BOOLEAN /\ r.relabelled \in BOOLEAN
        BY <1>1 DEF Row
    <2>4. l \in Labels \cup {NoLabel} /\ c \in BOOLEAN /\ m \in BOOLEAN
        BY <2>2, <2>3
    <2>5. RowAfter(p) = [r EXCEPT !.state = StateAfter(p), !.label = l,
                                  !.cropped = c, !.relabelled = m]
        BY DEF RowAfter
    <2>6. (r.relabelled => m) /\ (~m => l = r.label)
        BY <2>3
    <2> HIDE DEF r, l, c, m
    <2>7. r \in Row
        BY <1>1 DEF r
    <2>8. /\ RowAfter(p) \in Row
          /\ RowAfter(p).state = StateAfter(p) /\ RowAfter(p).label = l
          /\ RowAfter(p).relabelled = m /\ RowAfter(p).spawned = r.spawned
          /\ RowAfter(p).by = r.by /\ RowAfter(p).batch = r.batch
          /\ RowAfter(p).overtook = r.overtook
        BY <2>1, <2>4, <2>5, <2>7 DEF Row
    <2>9. RowKept(r, RowAfter(p), StateAfter(p))
        BY <2>6, <2>8 DEF RowKept
    <2> QED
        BY <2>8, <2>9 DEF r
<1>9. ASSUME NEW g \in SpawnIds(p)
      PROVE  /\ Spawned(p)[g] \in Row
             /\ \E i \in 1..n : RowOfSibling(Spawned(p)[g], run[p].found[i], Spawner(p), base,
                                             run[p].overtook)
    <2>1. PICK i \in 1..n : g = base + i
        BY <1>3
    <2>2. g - base = i /\ run[p].found[i] \in Labels
        BY <1>1, <2>1
    <2>3. Spawner(p) \in {"nobody", "upload", "sibling", "step"}
        BY DEF Spawner
    <2>4. Spawned(p)[g] = [state |-> "new", label |-> run[p].found[i], cropped |-> FALSE,
                           spawned |-> run[p].found[i], by |-> Spawner(p), batch |-> base,
                           overtook |-> run[p].overtook, relabelled |-> FALSE]
        BY <2>2 DEF Spawned, SiblingRow, NoRow
    <2>5. Spawned(p)[g] \in Row
        BY <1>1, <2>2, <2>3, <2>4 DEF Row, RowStates, Run
    <2>6. RowOfSibling(Spawned(p)[g], run[p].found[i], Spawner(p), base, run[p].overtook)
        BY <2>4 DEF RowOfSibling
    <2> QED
        BY <2>5, <2>6
<1>10. rows' \in [Garments -> Row]
    <2>1. \A g \in Garments : rows'[g] \in Row
        BY <1>7, <1>8, <1>9 DEF SiblingTypeOK
    <2> QED
        BY <1>7, <2>1
<1>11. /\ announce'[p] = [i \in 1..n |-> base + i]
       /\ \A q \in Processes : q # p => announce'[q] = announce[q]
       /\ announce' = [announce EXCEPT ![p] = [i \in 1..n |-> base + i]]
    BY DEF CommitSiblings, SiblingTypeOK
<1>12. announce'[p] \in Seq(Garments) /\ Len(announce'[p]) = n
    BY <1>1, <1>4, <1>11
<1>13. \A g : (g \in SpawnIds(p)) <=> \E i \in 1..Len(announce'[p]) : announce'[p][i] = g
    BY <1>3, <1>11, <1>12
<1>14. announce' \in [Processes -> Seq(Garments)]
    BY <1>11, <1>12 DEF SiblingTypeOK
<1> HIDE DEF G, n, base
<1> QED
    BY <1>1, <1>5, <1>6, <1>7, <1>8, <1>9, <1>10, <1>11, <1>13, <1>14 DEF G, n, base

-----------------------------------------------------------------------------
(* The invariant, request by request and step by step                       *)

\* A process's own work, in the type.
LEMMA WorkIsTyped ==
    ASSUME SiblingTypeOK, NEW p \in Processes
    PROVE  /\ run[p] \in Run /\ run[p].job \in Job /\ GarmentOf(p) \in Garments
           /\ run[p].found \in Seq(Labels) /\ Len(run[p].found) \in Nat
           /\ run[p].base \in Nat /\ born \in Nat /\ born <= MaxGarments
<1>1. run[p] \in Run
    BY DEF SiblingTypeOK
<1>2. run[p].job \in Job /\ run[p].found \in Seq(Labels) /\ run[p].base \in 0..MaxGarments
    BY <1>1 DEF Run
<1>3. Len(run[p].found) \in Nat
    BY <1>2, LenProperties
<1>4. GarmentOf(p) \in Garments
    BY <1>2 DEF Job, GarmentOf
<1> QED
    BY <1>1, <1>2, <1>3, <1>4, SiblingAssumption DEF SiblingTypeOK

\* Nothing has been uploaded, nothing is queued and nobody works.
LEMMA SiblingsStart ==
    ASSUME SiblingInit PROVE SiblingInv
<1>1. 1 \in Garments /\ Garments \subseteq Nat /\ Idle \in Run /\ GarmentOf(Api) = 1
      /\ Idle.found = <<>> /\ \A p \in Processes : run[p] = Idle /\ GarmentOf(p) = 1
    BY IdleIsARun, WhoIsWho DEF SiblingInit, GarmentOf, Hosts
<1>2. NoRow \in Row /\ NoRow.state = "absent" /\ NoRow.by = "nobody" /\ NoRow.spawned = NoLabel
    BY SiblingAssumption DEF NoRow, Row, RowStates
<1>3. SiblingTypeOK
    BY <1>1, <1>2, SiblingAssumption DEF SiblingInit, SiblingTypeOK
<1>4. \A g : ~Queued(g)
    BY NoJobs DEF SiblingInit, Queued
<1>5. \A g \in Garments : rows[g] = NoRow
    BY DEF SiblingInit
<1>6. \A p \in Processes : pc[p] = "idle" /\ announce[p] = <<>>
    BY DEF SiblingInit
<1>7. JobsNameDurableRows /\ SecondBatchHasACause /\ RowsAreNumbered /\ NewAreCarried
    BY <1>1, <1>2, <1>4, <1>5
    DEF JobsNameDurableRows, SecondBatchHasACause, RowsAreNumbered, NewAreCarried, Exists
<1>8. PlacesAreRight /\ AnnouncedAreDurable
    BY <1>1, <1>6 DEF PlacesAreRight, AnnouncedAreDurable
<1>9. PendingAreApart /\ SecondOvertakes /\ PendingAreNew
    BY <1>6, WhoIsWho DEF PendingAreApart, SecondOvertakes, PendingAreNew
<1> QED
    BY <1>3, <1>7, <1>8, <1>9 DEF SiblingInv

\* An upload makes the first row; nothing named it before.
LEMMA UploadKeeps ==
    ASSUME SiblingInv, NEW s \in Handlers, Upload(s) PROVE SiblingInv'
<1> USE DEF SiblingInv
<1>1. PICK auto \in BOOLEAN : /\ rows' = [rows EXCEPT ![1] = UploadRow(auto)]
                              /\ Goto(s, IF auto THEN "uploading" ELSE "idle")
    BY DEF Upload
<1>2. /\ UploadRow(auto) \in Row /\ UploadRow(auto).state \in {"new", "manual"}
      /\ UploadRow(auto).state = "new" => auto
      /\ UploadRow(auto).by = "nobody" /\ UploadRow(auto).spawned = NoLabel
    <2>1. NoLabel \in Labels \cup {NoLabel} /\ 0 \in 0..MaxGarments
        BY SiblingAssumption
    <2>2. NoRow \in Row /\ NoRow.by = "nobody" /\ NoRow.spawned = NoLabel
        BY <2>1 DEF NoRow, Row, RowStates
    <2>3. ASSUME NEW st \in {"new", "manual"}
          PROVE  /\ [NoRow EXCEPT !.state = st] \in Row
                 /\ [NoRow EXCEPT !.state = st].state = st
                 /\ [NoRow EXCEPT !.state = st].by = "nobody"
                 /\ [NoRow EXCEPT !.state = st].spawned = NoLabel
        BY <2>2 DEF Row, RowStates
    <2>4. CASE auto
        BY <2>3, <2>4 DEF UploadRow
    <2>5. CASE ~auto
        BY <2>3, <2>5 DEF UploadRow
    <2> QED
        BY <2>4, <2>5
<1>3. /\ 1 \in Garments /\ Garments \subseteq Nat /\ s \in Processes /\ s \notin Loops
      /\ born = 0 /\ born' = 1 /\ pc[s] = "idle"
      /\ UNCHANGED <<redis, memory, run, announce, asked, lost>>
    BY IdleIsARun, WhoIsWho DEF Upload
<1>4. rows'[1] = UploadRow(auto) /\ \A g \in Garments : g # 1 => rows'[g] = rows[g]
    BY <1>1, <1>3 DEF SiblingTypeOK
<1>5. /\ pc'[s] = (IF auto THEN "uploading" ELSE "idle")
      /\ \A q \in Processes : q # s => pc'[q] = pc[q]
    BY <1>1, <1>3 DEF SiblingTypeOK, Goto
<1>6. \A g \in Garments : rows[g].state = "absent"
    BY <1>3, SiblingAssumption DEF RowsAreNumbered, Garments
<1>7. SiblingTypeOK'
    <2>1. rows' \in [Garments -> Row]
        BY <1>1, <1>2, <1>3 DEF SiblingTypeOK
    <2>2. born' \in 0..MaxGarments
        BY <1>3, SiblingAssumption
    <2>3. pc' \in [Processes -> {"idle", "loaded", "running", "committing", "announcing",
                                 "uploading"}]
        BY <1>1 DEF SiblingTypeOK, Goto
    <2> QED
        BY <1>3, <2>1, <2>2, <2>3 DEF SiblingTypeOK
<1>8. JobsNameDurableRows'
    BY <1>2, <1>3, <1>4 DEF JobsNameDurableRows, Queued
<1>9. SecondBatchHasACause'
    BY <1>2, <1>4, <1>6 DEF SecondBatchHasACause, Exists
<1>10. PlacesAreRight'
    BY <1>2, <1>3, <1>4, <1>5 DEF PlacesAreRight, GarmentOf
<1>11. RowsAreNumbered'
    <2>1. rows'[1].by = "nobody" /\ rows'[1].spawned = NoLabel
        BY <1>2, <1>4
    <2>2. ASSUME NEW g \in Garments, g # 1
          PROVE  /\ rows'[g].state = "absent"
                 /\ ~rows'[g].relabelled /\ rows'[g].spawned # NoLabel
                        => rows'[g].label = rows'[g].spawned
        BY <1>4, <1>6, <2>2 DEF RowsAreNumbered
    <2>3. ASSUME NEW g \in Garments
          PROVE  /\ rows'[g].state # "absent" => g <= born'
                 /\ rows'[g].state # "absent" /\ g # 1 => rows'[g].by # "nobody"
                 /\ ~rows'[g].relabelled /\ rows'[g].spawned # NoLabel
                        => rows'[g].label = rows'[g].spawned
        <3>1. CASE g = 1
            <4>1. g <= born'
                BY <1>3, <3>1
            <4> QED
                BY <2>1, <3>1, <4>1
        <3>2. CASE g # 1
            BY <2>2, <3>2
        <3> QED
            BY <3>1, <3>2
    <2> QED
        BY <2>1, <2>3, Zenon DEF RowsAreNumbered
<1>12. AnnouncedAreDurable'
    <2>1. \A p \in Processes : announce[p] \in Seq(Garments)
        BY DEF SiblingTypeOK
    <2>2. \A p \in Processes : \A i \in 1..Len(announce[p]) : announce[p][i] \in Garments
        BY <2>1, ElementOfSeq
    <2> QED
        BY <1>3, <1>6, <2>2 DEF AnnouncedAreDurable
<1>13. PendingAreApart'
    <2>1. \A p \in Processes : pc'[p] = "committing" => pc[p] = "committing"
        BY <1>5
    <2>2. ASSUME NEW p \in Processes, pc[p] = "committing" PROVE SpawnIds(p) = {}
        BY <1>3, <1>6, <2>2, WorkIsTyped, EmptySeq DEF PendingAreApart, SpawnIds
    <2>3. ASSUME NEW p \in Processes, pc[p] = "committing"
          PROVE  run[p].found = <<>>
        BY <1>3, <2>3, WorkIsTyped, EmptySeq DEF PendingAreApart
    <2>4. \A p : SpawnIds(p)' = SpawnIds(p)
        BY <1>3 DEF SpawnIds
    <2> QED
        BY <1>3, <2>1, <2>2, <2>3, <2>4 DEF PendingAreApart
<1>14. SecondOvertakes'
    BY <1>3, <1>5, WhoIsWho DEF SecondOvertakes, GarmentOf
<1>15. PendingAreNew'
    BY <1>2, <1>3, <1>4, <1>5, <1>6, WhoIsWho, WorkIsTyped, SiblingAssumption
    DEF PendingAreNew, GarmentOf, Exists, KnownFor
<1>16. NewAreCarried'
    BY <1>2, <1>3, <1>4, <1>5, <1>6 DEF NewAreCarried, Carries
<1> QED
    BY <1>7, <1>8, <1>9, <1>10, <1>11, <1>12, <1>13, <1>14, <1>15, <1>16

\* What a process may do, as far as the committed rows are concerned.
Moved(q) ==
    /\ pc'[q] = "loaded" => q \in Loops
    /\ pc'[q] = "uploading" => pc[q] = "uploading"
    /\ q \in Handlers /\ pc'[q] \in {"idle", "uploading"} => run'[q].job.garment = 1
    /\ pc'[q] \in {"loaded", "running"} => run'[q].found = <<>>
    /\ pc'[q] # "announcing" => announce'[q] = <<>>
    /\ \A i \in 1..Len(announce'[q]) : \E j \in 1..Len(announce[q]) : announce'[q][i] = announce[q][j]
    /\ pc'[q] = "committing" =>
           (pc[q] = "committing" /\ run'[q] = run[q]) \/ run'[q].found = <<>>
    /\ q \in Loops /\ pc'[q] \in {"running", "committing"} =>
           \/ /\ pc[q] \in {"running", "committing"}
              /\ run'[q].job = run[q].job /\ run'[q].overtook = run[q].overtook
           \/ /\ LockFree(run'[q].job.garment) \/ run'[q].overtook
              /\ \A r \in Processes \ {q} : pc'[r] = pc[r] /\ run'[r] = run[r]

\* A process that does nothing has moved as it may.
LEMMA StayingMoves ==
    ASSUME SiblingInv, NEW q \in Processes,
           pc'[q] = pc[q], run'[q] = run[q], announce'[q] = announce[q]
    PROVE  Moved(q)
<1>1. pc[q] = "loaded" => q \in Loops
    BY DEF SiblingInv, PlacesAreRight
<1> QED
    BY <1>1 DEF SiblingInv, PlacesAreRight, Moved, GarmentOf

\* Moves that commit no row keep the invariant's parts on rows and runs.
LEMMA MovesKeep ==
    ASSUME SiblingInv, UNCHANGED <<rows, born>>, \A q \in Processes : Moved(q)
    PROVE  /\ SecondBatchHasACause' /\ PlacesAreRight' /\ RowsAreNumbered'
           /\ AnnouncedAreDurable' /\ PendingAreApart' /\ SecondOvertakes' /\ PendingAreNew'
<1> USE DEF SiblingInv
<1>1. SecondBatchHasACause'
    BY DEF SecondBatchHasACause, Exists
<1>2. PlacesAreRight'
    BY DEF PlacesAreRight, Moved, GarmentOf
<1>3. RowsAreNumbered'
    BY DEF RowsAreNumbered
<1>4. AnnouncedAreDurable'
    BY DEF AnnouncedAreDurable, Moved
<1>5. PendingAreApart'
    <2>1. ASSUME NEW p \in Processes, pc'[p] = "committing"
          PROVE  /\ run'[p].found # <<>> => pc[p] = "committing" /\ run'[p] = run[p]
                 /\ run'[p].found = <<>> => SpawnIds(p)' = {}
                 /\ run'[p] = run[p] => SpawnIds(p)' = SpawnIds(p)
        <3>1. run'[p].found = <<>> => SpawnIds(p)' = {}
            BY DEF SpawnIds
        <3> QED
            BY <2>1, <3>1 DEF Moved, SpawnIds
    <2> QED
        BY <2>1 DEF PendingAreApart
<1>6. SecondOvertakes'
    <2> SUFFICES ASSUME NEW p \in Loops, NEW q \in Loops, p # q,
                        run'[p].job.garment = run'[q].job.garment,
                        pc'[p] \in {"running", "committing"}, pc'[q] \in {"running", "committing"},
                        ~run'[p].overtook, ~run'[q].overtook
                 PROVE  FALSE
        BY DEF SecondOvertakes, GarmentOf
    <2>1. Moved(p) /\ Moved(q) /\ p \in Processes /\ q \in Processes
        BY WhoIsWho
    <2>2. CASE /\ pc[p] \in {"running", "committing"} /\ run'[p].job = run[p].job
               /\ run'[p].overtook = run[p].overtook
        <3>1. CASE /\ pc[q] \in {"running", "committing"} /\ run'[q].job = run[q].job
                   /\ run'[q].overtook = run[q].overtook
            BY <2>2, <3>1 DEF SecondOvertakes, GarmentOf
        <3>2. CASE LockFree(run'[q].job.garment)
            BY <2>1, <2>2, <3>2 DEF LockFree, GarmentOf
        <3> QED
            BY <2>1, <3>1, <3>2 DEF Moved
    <2>3. CASE LockFree(run'[p].job.garment) /\ pc'[q] = pc[q] /\ run'[q] = run[q]
        BY <2>1, <2>3 DEF LockFree, GarmentOf
    <2> QED
        BY <2>1, <2>2, <2>3 DEF Moved
<1>7. PendingAreNew'
    <2> SUFFICES ASSUME NEW p \in Loops, pc'[p] = "committing", run'[p].job.garment = 1,
                        ~run'[p].overtook,
                        NEW i \in 1..Len(run'[p].found), NEW h \in Garments, Exists(h)
                 PROVE  ~KnownFor(rows[h], run'[p].found[i])
        BY DEF PendingAreNew, GarmentOf, Exists
    <2>1. run'[p].found # <<>>
        OBVIOUS
    <2>2. pc[p] = "committing" /\ run'[p] = run[p]
        BY <2>1, WhoIsWho DEF Moved
    <2> QED
        BY <2>2 DEF PendingAreNew, GarmentOf
<1> QED
    BY <1>1, <1>2, <1>3, <1>4, <1>5, <1>6, <1>7

\* POST /garments and POST /retry queue a job for a row that is there.
LEMMA RequestsKeep ==
    ASSUME SiblingInv, NEW j \in Job, PutJob(Api, j) \/ PutJob(Worker, j),
           rows[j.garment].state # "absent",
           UNCHANGED <<rows, born, run, lost>>, asked' \in 0..MaxRequests,
           pc' \in [Processes -> {"idle", "loaded", "running", "committing", "announcing",
                                  "uploading"}],
           announce' \in [Processes -> Seq(Garments)],
           \A q \in Processes : Moved(q),
           \A q \in Processes : \A g \in Garments :
               Carries(q, g) => Carries(q, g)' \/ j.garment = g
    PROVE  SiblingInv'
<1> USE DEF SiblingInv
<1>1. /\ redis' \in Seq(Job) /\ memory' \in [Hosts -> Seq(Job)]
      /\ \A g : Queued(g)' <=> Queued(g) \/ j.garment = g
    BY PutJobQueues DEF Hosts
<1>2. SiblingTypeOK'
    BY <1>1 DEF SiblingTypeOK
<1>3. JobsNameDurableRows'
    BY <1>1 DEF JobsNameDurableRows
<1>4. NewAreCarried'
    BY <1>1 DEF NewAreCarried
<1> QED
    BY <1>2, <1>3, <1>4, MovesKeep

\* The upload's handler queues its job and is done.
LEMMA UploadQueuedKeeps ==
    ASSUME SiblingInv, NEW s \in Handlers, UploadQueued(s) PROVE SiblingInv'
<1> DEFINE j == NewJob(1, "start", FALSE)
<1>1. /\ j \in Job /\ j.garment = 1 /\ s \in Processes /\ s \notin Loops
      /\ pc[s] = "uploading" /\ pc'[s] = "idle"
      /\ \A q \in Processes : q # s => pc'[q] = pc[q]
      /\ pc' \in [Processes -> {"idle", "loaded", "running", "committing", "announcing",
                                "uploading"}]
      /\ PutJob(Api, j) /\ UNCHANGED <<rows, born, run, announce, asked, lost>>
    BY IdleIsARun, NewJobs, WhoIsWho DEF UploadQueued, Goto, SiblingInv, SiblingTypeOK
<1> HIDE DEF j
<1>2. rows[1].state # "absent" /\ run[s].job.garment = 1 /\ announce[s] = <<>>
    BY <1>1 DEF SiblingInv, PlacesAreRight, GarmentOf
<1>3. \A q \in Processes : Moved(q)
    <2>1. Moved(s)
        BY <1>1, <1>2 DEF Moved
    <2> QED
        BY <1>1, <2>1, StayingMoves
<1>4. ASSUME NEW q \in Processes, NEW g \in Garments, Carries(q, g)
      PROVE  Carries(q, g)' \/ j.garment = g
    <2>1. CASE q = s
        BY <1>1, <1>2, <1>4, <2>1 DEF Carries
    <2>2. CASE q # s
        BY <1>1, <1>4, <2>2 DEF Carries, GarmentOf
    <2> QED
        BY <2>1, <2>2
<1>5. asked' \in 0..MaxRequests /\ announce' \in [Processes -> Seq(Garments)]
    BY <1>1 DEF SiblingInv, SiblingTypeOK
<1> QED
    BY <1>1, <1>2, <1>3, <1>4, <1>5, RequestsKeep

\* One more request is within the bound.
LEMMA AskIsTyped ==
    ASSUME SiblingTypeOK, Ask PROVE asked' \in 0..MaxRequests
<1>1. asked \in 0..MaxRequests /\ MaxRequests \in Nat
    BY SiblingAssumption DEF SiblingTypeOK
<1> QED
    BY <1>1 DEF Ask

\* A retry names a garment that exists.
LEMMA RetryKeeps ==
    ASSUME SiblingInv, NEW g \in Garments, RetryGarment(g) PROVE SiblingInv'
<1>1. PICK from \in {"start", "attributes"}, force \in BOOLEAN : PutJob(Api, NewJob(g, from, force))
    BY DEF RetryGarment
<1>2. NewJob(g, from, force) \in Job /\ NewJob(g, from, force).garment = g
    BY NewJobs
<1>3. /\ rows[g].state # "absent" /\ UNCHANGED <<rows, born, pc, run, announce, lost>>
      /\ asked' \in 0..MaxRequests
    BY AskIsTyped DEF RetryGarment, Exists, SiblingInv
<1>4. \A q \in Processes : Moved(q)
    BY <1>3, StayingMoves
<1>5. \A q \in Processes, h \in Garments : Carries(q, h) => Carries(q, h)'
    BY <1>3 DEF Carries, GarmentOf
<1>6. /\ pc' \in [Processes -> {"idle", "loaded", "running", "committing", "announcing",
                                "uploading"}]
      /\ announce' \in [Processes -> Seq(Garments)]
    BY <1>3 DEF SiblingInv, SiblingTypeOK
<1> QED
    BY <1>1, <1>2, <1>3, <1>4, <1>5, <1>6, RequestsKeep

\* A sibling's job names the row its announcer has committed.
LEMMA AnnounceKeeps ==
    ASSUME SiblingInv, NEW p \in Processes, AnnounceSibling(p) PROVE SiblingInv'
<1> DEFINE j == SiblingJob(Head(announce[p]))
<1>1. announce \in [Processes -> Seq(Garments)] /\ announce[p] \in Seq(Garments)
      /\ announce[p] # <<>> /\ pc[p] = "announcing"
    BY DEF SiblingInv, SiblingTypeOK, AnnounceSibling
<1>2. /\ Head(announce[p]) \in Garments /\ Head(announce[p]) = announce[p][1]
      /\ Tail(announce[p]) \in Seq(Garments) /\ Len(announce[p]) \in Nat \ {0}
      /\ Len(Tail(announce[p])) = Len(announce[p]) - 1
      /\ \A i \in 1..Len(Tail(announce[p])) : Tail(announce[p])[i] = announce[p][i + 1]
    BY <1>1, HeadTailProperties, EmptySeq, LenProperties
<1>3. j \in Job /\ j.garment = Head(announce[p])
    BY <1>2, NewJobs DEF SiblingJob
<1> HIDE DEF j
<1>4. /\ announce'[p] = Tail(announce[p]) /\ announce' \in [Processes -> Seq(Garments)]
      /\ \A q \in Processes : q # p => announce'[q] = announce[q]
      /\ UNCHANGED <<rows, born, pc, run, asked, lost>>
    BY <1>1, <1>2 DEF AnnounceSibling
<1>5. PutJob(Api, j) \/ PutJob(Worker, j)
    BY WhoIsWho DEF AnnounceSibling, Hosts, j
<1>6. rows[j.garment].state # "absent"
    <2>1. 1 \in 1..Len(announce[p])
        BY <1>2
    <2> QED
        BY <1>2, <1>3, <2>1 DEF SiblingInv, AnnouncedAreDurable
<1>7. \A q \in Processes : Moved(q)
    <2>1. Moved(p)
        <3>1. \A i \in 1..Len(announce'[p]) :
                  i + 1 \in 1..Len(announce[p]) /\ announce'[p][i] = announce[p][i + 1]
            BY <1>2, <1>4
        <3> QED
            BY <1>1, <1>4, <3>1 DEF Moved
    <2> QED
        BY <1>4, <2>1, StayingMoves
<1>8. ASSUME NEW q \in Processes, NEW g \in Garments, Carries(q, g)
      PROVE  Carries(q, g)' \/ j.garment = g
    <2>1. CASE q # p
        BY <1>4, <1>8, <2>1 DEF Carries, GarmentOf
    <2>2. CASE q = p
        <3>1. PICK i \in 1..Len(announce[p]) : announce[p][i] = g
            BY <1>1, <1>8, <2>2 DEF Carries
        <3>2. CASE i = 1
            BY <1>2, <1>3, <3>1, <3>2
        <3>3. CASE i # 1
            <4>1. i - 1 \in 1..Len(announce'[p]) /\ announce'[p][i - 1] = g
                BY <1>2, <1>4, <3>1, <3>3
            <4> QED
                BY <2>2, <4>1 DEF Carries
        <3> QED
            BY <3>2, <3>3
    <2> QED
        BY <2>1, <2>2
<1>9. asked' \in 0..MaxRequests
      /\ pc' \in [Processes -> {"idle", "loaded", "running", "committing", "announcing",
                                "uploading"}]
    BY <1>4 DEF SiblingInv, SiblingTypeOK
<1> QED
    BY <1>3, <1>4, <1>5, <1>6, <1>7, <1>8, <1>9, RequestsKeep

\* The places of the processes.
Places == {"idle", "loaded", "running", "committing", "announcing", "uploading"}

\* A process that moves and puts nothing anywhere keeps the invariant, when
\* what it carried goes on or is not needed any more.
LEMMA WorkKeeps ==
    ASSUME SiblingInv, UNCHANGED <<rows, born>>,
           redis' \in Seq(Job), memory' \in [Hosts -> Seq(Job)],
           pc' \in [Processes -> Places], run' \in [Processes -> Run],
           announce' \in [Processes -> Seq(Garments)],
           asked' \in 0..MaxRequests, lost' \subseteq Garments, lost \subseteq lost',
           \A q \in Processes : Moved(q),
           \A g : Queued(g)' => Queued(g),
           \A g \in Garments : rows[g].state = "new" /\ Queued(g) =>
               Queued(g)' \/ g \in lost' \/ \E q \in Processes : Carries(q, g)',
           \A p \in Processes : \A g \in Garments : rows[g].state = "new" /\ Carries(p, g) =>
               g \in lost' \/ \E q \in Processes : Carries(q, g)'
    PROVE  SiblingInv'
<1> USE DEF SiblingInv
<1>1. SiblingTypeOK'
    BY DEF SiblingTypeOK, Places
<1>2. JobsNameDurableRows'
    BY DEF JobsNameDurableRows
<1>3. NewAreCarried'
    BY DEF NewAreCarried
<1> QED
    BY <1>1, <1>2, <1>3, MovesKeep

\* A loop takes a job and carries its garment, unless that is gone.
LEMMA TakeKeeps ==
    ASSUME SiblingInv, NEW l \in Processes, TakeFromRedis(l) \/ TakeFromMemory(l)
    PROVE  SiblingInv'
<1>1. SiblingTypeOK
    BY DEF SiblingInv
<1>2. PICK j \in Job :
          /\ l \in Loops /\ pc[l] = "idle" /\ LoadGarment(l, j)
          /\ redis' \in Seq(Job) /\ memory' \in [Hosts -> Seq(Job)]
          /\ \A g : Queued(g) <=> Queued(g)' \/ j.garment = g
    BY <1>1, TakeQueues
<1>3. UNCHANGED <<rows, born, announce, asked, lost>>
    BY DEF TakeFromRedis, TakeFromMemory
<1>4. /\ announce' \in [Processes -> Seq(Garments)] /\ asked' \in 0..MaxRequests
      /\ lost' \subseteq Garments /\ announce[l] = <<>>
    BY <1>1, <1>2, <1>3 DEF SiblingTypeOK, SiblingInv, PlacesAreRight
<1>5. CASE Exists(j.garment)
    <2>1. RunOf(j) \in Run /\ RunOf(j).job = j /\ RunOf(j).found = <<>>
        BY <1>1, NewRuns
    <2>2. pc' = [pc EXCEPT ![l] = "loaded"] /\ run' = [run EXCEPT ![l] = RunOf(j)]
        BY <1>2, <1>5 DEF LoadGarment, Goto
    <2>3. /\ pc' \in [Processes -> Places] /\ run' \in [Processes -> Run]
          /\ pc'[l] = "loaded" /\ run'[l].job = j /\ run'[l].found = <<>>
          /\ \A q \in Processes : q # l => pc'[q] = pc[q] /\ run'[q] = run[q]
        BY <1>1, <2>1, <2>2 DEF SiblingTypeOK, Places
    <2>4. \A q \in Processes : Moved(q)
        <3>1. Moved(l)
            BY <1>2, <1>3, <1>4, <2>3, WhoIsWho DEF Moved
        <3> QED
            BY <1>3, <2>3, <3>1, StayingMoves
    <2>5. Carries(l, j.garment)'
        BY <1>2, <2>3 DEF Carries, GarmentOf
    <2>6. ASSUME NEW p \in Processes, NEW g \in Garments, Carries(p, g)
          PROVE  \E q \in Processes : Carries(q, g)'
        <3>1. p # l
            BY <1>2, <1>4, <2>6 DEF Carries
        <3> QED
            BY <1>3, <2>3, <2>6, <3>1 DEF Carries, GarmentOf
    <2> QED
        BY <1>2, <1>3, <1>4, <2>3, <2>4, <2>5, <2>6, WorkKeeps
<1>6. CASE ~Exists(j.garment)
    <2>1. UNCHANGED <<pc, run>>
        BY <1>2, <1>6 DEF LoadGarment
    <2>2. pc' \in [Processes -> Places] /\ run' \in [Processes -> Run]
        BY <1>1, <2>1 DEF SiblingTypeOK, Places
    <2>3. \A q \in Processes : Moved(q)
        BY <1>3, <2>1, StayingMoves
    <2>4. \A q \in Processes : \A g \in Garments : Carries(q, g) => Carries(q, g)'
        BY <1>3, <2>1 DEF Carries, GarmentOf
    <2>5. rows[j.garment].state # "new"
        BY <1>6 DEF Exists
    <2> QED
        BY <1>2, <1>3, <1>4, <2>2, <2>3, <2>4, <2>5, WorkKeeps
<1> QED
    BY <1>5, <1>6

\* A process that only changes its own place and work: what is left to show.
LEMMA OneWorks ==
    ASSUME SiblingInv, NEW p \in Processes, NEW place \in Places, NEW r \in Run,
           pc' = [pc EXCEPT ![p] = place], run' = [run EXCEPT ![p] = r],
           UNCHANGED <<rows, born, redis, memory, announce, lost>>, asked' \in 0..MaxRequests,
           pc[p] # "uploading",
           pc'[p] = place /\ run'[p] = r
               /\ (\A q \in Processes : q # p => pc'[q] = pc[q] /\ run'[q] = run[q]) => Moved(p),
           \A g \in Garments :
               p \in Loops /\ pc[p] \in {"loaded", "running", "committing"} /\ GarmentOf(p) = g
                   /\ rows[g].state = "new"
               => place \in {"loaded", "running", "committing"} /\ r.job = run[p].job
    PROVE  SiblingInv'
<1>1. SiblingTypeOK
    BY DEF SiblingInv
<1>2. /\ pc' \in [Processes -> Places] /\ run' \in [Processes -> Run]
      /\ pc'[p] = place /\ run'[p] = r
      /\ \A q \in Processes : q # p => pc'[q] = pc[q] /\ run'[q] = run[q]
    BY <1>1 DEF SiblingTypeOK, Places
<1>3. \A q \in Processes : Moved(q)
    BY <1>2, StayingMoves
<1>4. /\ redis' \in Seq(Job) /\ memory' \in [Hosts -> Seq(Job)] /\ lost' \subseteq Garments
      /\ announce' \in [Processes -> Seq(Garments)] /\ lost \subseteq lost'
    BY <1>1 DEF SiblingTypeOK
<1>5. \A g : Queued(g)' <=> Queued(g)
    BY DEF Queued
<1>6. ASSUME NEW q \in Processes, NEW g \in Garments, rows[g].state = "new", Carries(q, g)
      PROVE  Carries(q, g)'
    <2>1. CASE q # p
        BY <1>2, <1>6, <2>1 DEF Carries, GarmentOf
    <2>2. CASE q = p /\ \E i \in 1..Len(announce[p]) : announce[p][i] = g
        BY <2>2 DEF Carries
    <2>3. CASE q = p /\ p \in Loops /\ pc[p] \in {"loaded", "running", "committing"}
               /\ GarmentOf(p) = g
        BY <1>2, <1>6, <2>3 DEF Carries, GarmentOf
    <2> QED
        BY <1>6, <2>1, <2>2, <2>3 DEF Carries
<1> QED
    BY <1>2, <1>3, <1>4, <1>5, <1>6, WorkKeeps

\* A loop finds its garment gone, or begins its run under the lock.
LEMMA BeginKeeps ==
    ASSUME SiblingInv, NEW l \in Processes, GarmentGone(l) \/ BeginRun(l) PROVE SiblingInv'
<1>1. /\ l \in Loops /\ l \notin Handlers /\ pc[l] = "loaded" /\ run[l].found = <<>>
      /\ announce[l] = <<>> /\ run[l] \in Run /\ asked' \in 0..MaxRequests
      /\ UNCHANGED <<rows, born, redis, memory, announce, asked, lost>>
    BY WhoIsWho DEF GarmentGone, BeginRun, SiblingInv, PlacesAreRight, SiblingTypeOK
<1>3. CASE GarmentGone(l)
    <2>1. pc' = [pc EXCEPT ![l] = "idle"] /\ "idle" \in Places /\ rows[GarmentOf(l)].state # "new"
        BY <1>3 DEF GarmentGone, Goto, Places, Exists
    <2>2. pc'[l] = "idle" /\ run'[l] = run[l] => Moved(l)
        BY <1>1 DEF Moved
    <2>4. run' = [run EXCEPT ![l] = run[l]]
        BY <1>3 DEF GarmentGone, SiblingInv, SiblingTypeOK
    <2>3. \A g \in Garments :
              l \in Loops /\ pc[l] \in {"loaded", "running", "committing"} /\ GarmentOf(l) = g
                  /\ rows[g].state = "new"
              => "idle" \in {"loaded", "running", "committing"} /\ run[l].job = run[l].job
        BY <2>1
    <2> QED
        BY <1>1, <2>1, <2>2, <2>3, <2>4, OneWorks
<1>4. CASE BeginRun(l)
    <2> DEFINE place == IF NeedsCrop(l) THEN "running" ELSE "committing"
               r == [run[l] EXCEPT !.overtook = ~LockFree(GarmentOf(l))]
    <2>1. pc' = [pc EXCEPT ![l] = place] /\ place \in {"running", "committing"} /\ place \in Places
        BY <1>4 DEF BeginRun, Goto, Places
    <2> HIDE DEF place
    <2>2. run' = [run EXCEPT ![l] = r]
        BY <1>4 DEF BeginRun
    <2>3. /\ r \in Run /\ r.job = run[l].job /\ r.found = <<>>
          /\ r.overtook = ~LockFree(GarmentOf(l))
        BY <1>1 DEF Run
    <2> HIDE DEF r
    <2>4. pc'[l] = place /\ run'[l] = r
              /\ (\A q \in Processes : q # l => pc'[q] = pc[q] /\ run'[q] = run[q]) => Moved(l)
        BY <1>1, <2>1, <2>3 DEF Moved, GarmentOf
    <2>5. \A g \in Garments :
              l \in Loops /\ pc[l] \in {"loaded", "running", "committing"} /\ GarmentOf(l) = g
                  /\ rows[g].state = "new"
              => place \in {"loaded", "running", "committing"} /\ r.job = run[l].job
        BY <2>1, <2>3
    <2>6. pc[l] # "uploading"
        BY <1>1
    <2> QED
        BY <1>1, <2>1, <2>2, <2>3, <2>4, <2>5, <2>6, OneWorks
<1> QED
    BY <1>3, <1>4

\* A stage 2 that finds no sibling has nothing to commit but its garment.
LEMMA SkipKeeps ==
    ASSUME SiblingInv, NEW p \in Processes, CropSkipsOrFails(p) PROVE SiblingInv'
<1>1. PICK st \in {"none", "SUCCEEDED", "FAILED"} : run' = [run EXCEPT ![p].stage2 = st]
    BY DEF CropSkipsOrFails
<1> DEFINE r == [run[p] EXCEPT !.stage2 = st]
<1>2. /\ pc[p] = "running" /\ run[p].found = <<>> /\ announce[p] = <<>> /\ run[p] \in Run
      /\ asked' \in 0..MaxRequests /\ pc' = [pc EXCEPT ![p] = "committing"]
      /\ "committing" \in Places
      /\ UNCHANGED <<rows, born, redis, memory, announce, asked, lost>>
    BY DEF CropSkipsOrFails, Goto, SiblingInv, PlacesAreRight, SiblingTypeOK, Places
<1>3. r \in Run /\ r.job = run[p].job /\ r.found = <<>> /\ r.overtook = run[p].overtook
    BY <1>2 DEF Run
<1>4. run' = [run EXCEPT ![p] = r]
    BY <1>1
<1> HIDE DEF r
<1>5. pc'[p] = "committing" /\ run'[p] = r => Moved(p)
    BY <1>2, <1>3 DEF Moved
<1> QED
    BY <1>2, <1>3, <1>4, <1>5, OneWorks

\* A process whose garment is gone, or that has announced everything, is idle.
LEMMA LeaveKeeps ==
    ASSUME SiblingInv, NEW p \in Processes, CommitFails(p) \/ Finish(p) PROVE SiblingInv'
<1>1. /\ pc[p] \in {"running", "committing", "announcing"} /\ announce[p] = <<>>
      /\ pc' = [pc EXCEPT ![p] = "idle"] /\ run' = [run EXCEPT ![p] = Idle]
      /\ asked' \in 0..MaxRequests /\ "idle" \in Places
      /\ UNCHANGED <<rows, born, redis, memory, announce, asked, lost>>
      /\ pc[p] = "announcing" \/ rows[GarmentOf(p)].state # "new"
    BY DEF CommitFails, Finish, Goto, SiblingInv, PlacesAreRight, SiblingTypeOK, Places, Exists
<1>2. Idle \in Run /\ Idle.job.garment = 1
    BY IdleIsARun
<1>3. pc'[p] = "idle" /\ run'[p] = Idle => Moved(p)
    BY <1>1, <1>2 DEF Moved
<1>4. \A g \in Garments :
          p \in Loops /\ pc[p] \in {"loaded", "running", "committing"} /\ GarmentOf(p) = g
              /\ rows[g].state = "new"
          => "idle" \in {"loaded", "running", "committing"} /\ Idle.job = run[p].job
    BY <1>1
<1>5. pc[p] # "uploading"
    BY <1>1
<1> QED
    BY <1>1, <1>2, <1>3, <1>4, <1>5, OneWorks

\* A /step request takes the lock; it carries nothing before or after.
LEMMA StepKeeps ==
    ASSUME SiblingInv, NEW s \in Handlers, StepCrop(s) PROVE SiblingInv'
<1>1. PICK g \in Garments : run' = [run EXCEPT ![s] = RunOf(NewJob(g, "start", TRUE))]
    BY DEF StepCrop
<1> DEFINE r == RunOf(NewJob(g, "start", TRUE))
<1>2. NewJob(g, "start", TRUE) \in Job
    BY NewJobs
<1>3. r \in Run /\ r.found = <<>>
    BY <1>2, NewRuns DEF SiblingInv
<1> HIDE DEF r
<1>4. /\ s \in Processes /\ s \notin Loops /\ pc[s] = "idle" /\ announce[s] = <<>>
      /\ pc' = [pc EXCEPT ![s] = "running"] /\ run' = [run EXCEPT ![s] = r]
      /\ asked' \in 0..MaxRequests /\ "running" \in Places
      /\ UNCHANGED <<rows, born, redis, memory, announce, lost>>
    BY <1>1, WhoIsWho, AskIsTyped
    DEF StepCrop, Goto, SiblingInv, PlacesAreRight, Places, r
<1>5. pc'[s] = "running" /\ run'[s] = r => Moved(s)
    BY <1>3, <1>4 DEF Moved
<1> QED
    BY <1>3, <1>4, <1>5, OneWorks

\* What dies with a process or a handler is noted.
LEMMA DroppedMoves ==
    ASSUME SiblingInv, NEW P \in SUBSET Processes, DropWork(P), UNCHANGED rows
    PROVE  /\ pc' \in [Processes -> Places] /\ run' \in [Processes -> Run]
           /\ announce' \in [Processes -> Seq(Garments)]
           /\ \A q \in Processes : Moved(q)
           /\ \A q \in Processes : \A g \in Garments :
                 Carries(q, g) => Carries(q, g)' \/ (q \in P /\ g \in Held(q))
<1>1. Idle \in Run /\ Idle.job.garment = 1
    BY IdleIsARun
<1>2. /\ pc' \in [Processes -> Places] /\ run' \in [Processes -> Run]
      /\ announce' \in [Processes -> Seq(Garments)]
    BY <1>1 DEF DropWork, SiblingInv, SiblingTypeOK, Places
<1>3. \A q \in P : pc'[q] = "idle" /\ run'[q] = Idle /\ announce'[q] = <<>>
    BY DEF DropWork
<1>4. \A q \in Processes \ P : pc'[q] = pc[q] /\ run'[q] = run[q] /\ announce'[q] = announce[q]
    BY DEF DropWork
<1>5. \A q \in Processes : Moved(q)
    <2>1. \A q \in P : Moved(q)
        BY <1>1, <1>3 DEF Moved
    <2> QED
        BY <1>4, <2>1, StayingMoves
<1>6. ASSUME NEW q \in P, NEW g \in Garments, Carries(q, g) PROVE g \in Held(q)
    <2>1. pc[q] = "uploading" => GarmentOf(q) = 1
        BY DEF SiblingInv, PlacesAreRight
    <2> QED
        BY <1>6, <2>1 DEF Carries, Held
<1>7. \A q \in Processes \ P : \A g \in Garments : Carries(q, g) => Carries(q, g)'
    BY <1>4 DEF Carries, GarmentOf
<1> QED
    BY <1>2, <1>5, <1>6, <1>7

\* What a process holds are garments.
LEMMA HeldAreGarments ==
    ASSUME SiblingTypeOK, NEW p \in Processes PROVE Held(p) \subseteq Garments
<1>1. announce[p] \in Seq(Garments) /\ GarmentOf(p) \in Garments
    BY WorkIsTyped DEF SiblingTypeOK
<1>2. \A i \in 1..Len(announce[p]) : announce[p][i] \in Garments
    BY <1>1, ElementOfSeq
<1> QED
    BY <1>1, <1>2 DEF Held

\* An exception loses no more than what its process held.
LEMMA RaiseKeeps ==
    ASSUME SiblingInv, NEW p \in Processes, Raise(p) PROVE SiblingInv'
<1>1. /\ DropWork({p}) /\ lost' = lost \cup Held(p) /\ {p} \in SUBSET Processes
      /\ UNCHANGED <<rows, born, redis, memory, asked>>
    BY DEF Raise
<1>2. /\ redis' \in Seq(Job) /\ memory' \in [Hosts -> Seq(Job)] /\ asked' \in 0..MaxRequests
      /\ lost' \subseteq Garments /\ lost \subseteq lost'
    BY <1>1, HeldAreGarments DEF SiblingInv, SiblingTypeOK
<1>3. \A g : Queued(g)' <=> Queued(g)
    BY <1>1 DEF Queued
<1>4. /\ pc' \in [Processes -> Places] /\ run' \in [Processes -> Run]
      /\ announce' \in [Processes -> Seq(Garments)]
      /\ \A q \in Processes : Moved(q)
      /\ \A q \in Processes : \A g \in Garments :
            Carries(q, g) => Carries(q, g)' \/ (q = p /\ g \in Held(q))
    BY <1>1, DroppedMoves
<1> QED
    BY <1>1, <1>2, <1>3, <1>4, WorkKeeps

\* A death loses what its process held and what it had in memory.
LEMMA KillKeeps ==
    ASSUME SiblingInv, NEW h \in Hosts, KillProcess(h) PROVE SiblingInv'
<1> DEFINE P == {p \in Processes : HostOf(p) = h}
<1>1. /\ DropWork(P) /\ P \in SUBSET Processes /\ memory' = [memory EXCEPT ![h] = <<>>]
      /\ lost' = lost \cup Remembered(h) \cup UNION {Held(p) : p \in P}
      /\ UNCHANGED <<rows, born, redis, asked>>
    BY DEF KillProcess
<1> HIDE DEF P
<1>2. /\ memory \in [Hosts -> Seq(Job)] /\ memory[h] \in Seq(Job) /\ redis' \in Seq(Job)
      /\ lost \subseteq Garments /\ asked' \in 0..MaxRequests
    BY <1>1 DEF SiblingInv, SiblingTypeOK
<1>3. /\ <<>> \in Seq(Job) /\ memory' \in [Hosts -> Seq(Job)] /\ memory'[h] = <<>>
      /\ \A k \in Hosts : k # h => memory'[k] = memory[k]
    BY <1>1, <1>2
<1>4. Remembered(h) \subseteq Garments
    <2>1. \A i \in 1..Len(memory[h]) : memory[h][i] \in Job
        BY <1>2, ElementOfSeq
    <2> QED
        BY <2>1 DEF Remembered, Job
<1>5. lost' \subseteq Garments /\ lost \subseteq lost'
    <2>1. \A p \in P : Held(p) \subseteq Garments
        BY <1>1, HeldAreGarments DEF SiblingInv
    <2> QED
        BY <1>1, <1>2, <1>4, <2>1
<1>6. \A g : Queued(g)' => Queued(g)
    BY <1>1, <1>3, NoJobs DEF Queued
<1>7. \A g : Queued(g) => Queued(g)' \/ g \in lost'
    <2>1. \A g : JobsFor(memory[h], g) => g \in Remembered(h)
        BY DEF JobsFor, Remembered
    <2> QED
        BY <1>1, <1>3, <2>1 DEF Queued
<1>8. /\ pc' \in [Processes -> Places] /\ run' \in [Processes -> Run]
      /\ announce' \in [Processes -> Seq(Garments)]
      /\ \A q \in Processes : Moved(q)
      /\ \A q \in Processes : \A g \in Garments :
            Carries(q, g) => Carries(q, g)' \/ (q \in P /\ g \in Held(q))
    BY <1>1, DroppedMoves
<1>9. \A q \in P : Held(q) \subseteq lost'
    BY <1>1
<1> QED
    BY <1>1, <1>2, <1>3, <1>5, <1>6, <1>7, <1>8, <1>9, WorkKeeps

\* A detection takes numbers beyond those of every row, for labels that are new.
LEMMA CropKeeps ==
    ASSUME SiblingInv, NEW p \in Processes, CropLabels(p) PROVE SiblingInv'
<1> USE DEF SiblingInv
<1>1. PICK f \in Seq(Labels) :
          /\ born + Len(f) <= MaxGarments /\ born' = born + Len(f)
          /\ \A i \in 1..Len(f) : f[i] \notin ExistingLabels(GarmentOf(p))
          /\ run' \in [Processes -> Run]
          /\ run'[p].job = run[p].job /\ run'[p].found = f /\ run'[p].base = born
          /\ run'[p].overtook = run[p].overtook
          /\ \A q \in Processes : q # p => run'[q] = run[q]
    BY CropSpawns
<1>2. /\ pc[p] = "running" /\ Exists(GarmentOf(p))
      /\ pc' = [pc EXCEPT ![p] = "committing"] /\ announce[p] = <<>>
      /\ UNCHANGED <<rows, redis, memory, announce, asked, lost>>
    BY DEF CropLabels, CropQueues, Goto, PlacesAreRight
<1>3. pc'[p] = "committing" /\ \A q \in Processes : q # p => pc'[q] = pc[q]
    BY <1>2 DEF SiblingTypeOK
<1>4. /\ Len(f) \in Nat /\ born \in Nat /\ MaxGarments \in Nat /\ GarmentOf(p) \in Garments
      /\ Garments \subseteq Nat \ {0} /\ GarmentOf(p) <= born
    <2>1. Garments \subseteq Nat \ {0}
        BY SiblingAssumption DEF Garments
    <2>2. GarmentOf(p) \in Garments /\ GarmentOf(p) <= born
        BY <1>2, WorkIsTyped DEF RowsAreNumbered, Exists
    <2>3. Len(f) \in Nat /\ born \in Nat
        BY WorkIsTyped, LenProperties
    <2> QED
        BY <2>1, <2>2, <2>3, SiblingAssumption
<1>4a. born' \in Nat /\ born <= born' /\ born # 0
    <2>1. born' = born + Len(f)
        BY <1>1
    <2>2. \A g \in Nat \ {0} : g <= born => born # 0
        BY <1>4
    <2>3. born # 0
        BY <1>4, <2>2
    <2> QED
        BY <1>4, <2>1, <2>3
<1>5. SiblingTypeOK'
    <2>1. born' \in 0..MaxGarments
        BY <1>1, <1>4
    <2>2. pc' \in [Processes -> {"idle", "loaded", "running", "committing", "announcing",
                                 "uploading"}]
        BY <1>2 DEF SiblingTypeOK
    <2> QED
        BY <1>1, <1>2, <2>1, <2>2 DEF SiblingTypeOK
<1>6. JobsNameDurableRows' /\ SecondBatchHasACause' /\ AnnouncedAreDurable'
    BY <1>2 DEF JobsNameDurableRows, SecondBatchHasACause, AnnouncedAreDurable, Queued, Exists
<1>7. PlacesAreRight'
    BY <1>1, <1>2, <1>3 DEF PlacesAreRight, GarmentOf
<1>8. RowsAreNumbered'
    <2>1. \A g \in Garments : g <= born => g <= born'
        <3> SUFFICES ASSUME NEW g \in Garments, g <= born PROVE g <= born'
            OBVIOUS
        <3>1. g \in Nat
            BY <1>4
        <3> QED
            BY <1>4, <1>4a, <3>1
    <2> QED
        BY <1>2, <2>1 DEF RowsAreNumbered
<1>9. PendingAreApart'
    <2>1. \A g \in SpawnIds(p)' : g > born
        BY <1>1, <1>4 DEF SpawnIds
    <2>2. \A g \in SpawnIds(p)' : g \in Garments /\ rows'[g].state = "absent"
        <3>1. \A g \in SpawnIds(p)' : g \in Garments
            BY <1>1, <1>4 DEF SpawnIds, Garments
        <3>2. \A g \in Garments : g > born => ~(g <= born)
            BY <1>4
        <3> QED
            BY <1>2, <2>1, <3>1, <3>2 DEF RowsAreNumbered
    <2>3. ASSUME NEW q \in Processes, q # p, pc'[q] = "committing"
          PROVE  /\ pc[q] = "committing" /\ run'[q] = run[q] /\ SpawnIds(q)' = SpawnIds(q)
                 /\ \A g \in SpawnIds(q) : g <= born
        <3>1. pc[q] = "committing" /\ run'[q] = run[q]
            BY <1>1, <1>3, <2>3
        <3>2. Len(run[q].found) \in Nat /\ run[q].base \in Nat /\ run[q].found \in Seq(Labels)
            BY WorkIsTyped
        <3>3. Len(run[q].found) # 0 => run[q].base + Len(run[q].found) <= born
            BY <3>1, <3>2, EmptySeq DEF PendingAreApart
        <3>4. \A g \in SpawnIds(q) : g <= born
            BY <1>4, <3>2, <3>3 DEF SpawnIds
        <3> QED
            BY <3>1, <3>4 DEF SpawnIds
    <2>4. \A q \in Processes \ {p} : pc'[q] = "committing" => SpawnIds(p)' \cap SpawnIds(q)' = {}
        <3>1. \A g \in SpawnIds(p)' : g \in Nat
            BY <1>1, <1>4 DEF SpawnIds
        <3> QED
            BY <1>4, <2>1, <2>3, <3>1
    <2>5. ASSUME NEW q \in Processes, q # p, pc'[q] = "committing"
          PROVE  /\ run'[q].found # <<>> =>
                       run'[q].base # 0 /\ run'[q].base + Len(run'[q].found) <= born'
                 /\ \A g \in SpawnIds(q)' : rows'[g].state = "absent"
                 /\ \A o \in Processes \ {q} : pc'[o] = "committing" =>
                       SpawnIds(q)' \cap SpawnIds(o)' = {}
        <3>1. Len(run[q].found) \in Nat /\ run[q].base \in Nat
            BY WorkIsTyped
        <3>2. run[q].found # <<>> =>
                  run[q].base # 0 /\ run[q].base + Len(run[q].found) <= born
            BY <2>3, <2>5 DEF PendingAreApart
        <3>3. run'[q].found # <<>> =>
                  run'[q].base # 0 /\ run'[q].base + Len(run'[q].found) <= born'
            BY <1>1, <1>4, <2>3, <2>5, <3>1, <3>2
        <3>4. \A g \in SpawnIds(q)' : rows'[g].state = "absent"
            BY <1>2, <2>3, <2>5 DEF PendingAreApart
        <3>5. \A o \in Processes \ {q} : pc'[o] = "committing" =>
                  SpawnIds(q)' \cap SpawnIds(o)' = {}
            BY <2>3, <2>4, <2>5 DEF PendingAreApart
        <3> QED
            BY <3>3, <3>4, <3>5
    <2>6. run'[p].found # <<>> => run'[p].base # 0 /\ run'[p].base + Len(run'[p].found) <= born'
        <3>1. run'[p].found = f /\ run'[p].base = born /\ born' = born + Len(f)
            BY <1>1
        <3> QED
            BY <1>4, <1>4a, <3>1
    <2> QED
        BY <2>2, <2>4, <2>5, <2>6 DEF PendingAreApart
<1>10. SecondOvertakes'
    BY <1>1, <1>2, <1>3, WhoIsWho DEF SecondOvertakes, GarmentOf
<1>11. PendingAreNew'
    <2> SUFFICES ASSUME NEW l \in Loops, pc'[l] = "committing", run'[l].job.garment = 1,
                        ~run'[l].overtook,
                        NEW i \in 1..Len(run'[l].found), NEW h \in Garments, Exists(h),
                        KnownFor(rows[h], run'[l].found[i])
                 PROVE  FALSE
        BY <1>2 DEF PendingAreNew, GarmentOf, Exists
    <2>1. CASE l # p
        BY <1>1, <1>3, <2>1, WhoIsWho DEF PendingAreNew, GarmentOf
    <2>2. CASE l = p
        <3>1. GarmentOf(p) = 1 /\ f[i] \in Labels /\ f[i] \notin ExistingLabels(1)
            BY <1>1, <2>2 DEF GarmentOf
        <3>2. rows[h].spawned = f[i] /\ ~rows[h].relabelled
            BY <1>1, <2>2 DEF KnownFor
        <3>3. h # 1 /\ rows[h].label = f[i] /\ f[i] # NoLabel
            BY <3>1, <3>2, SiblingAssumption DEF RowsAreNumbered
        <3> QED
            BY <3>1, <3>3 DEF ExistingLabels
    <2> QED
        BY <2>1, <2>2
<1>12. NewAreCarried'
    <2>1. \A q \in Processes : \A g \in Garments : Carries(q, g) => Carries(q, g)'
        BY <1>1, <1>2, <1>3 DEF Carries, GarmentOf
    <2>2. \A g : Queued(g) => Queued(g)'
        BY <1>2 DEF Queued
    <2> QED
        BY <1>2, <2>1, <2>2 DEF NewAreCarried
<1> QED
    BY <1>5, <1>6, <1>7, <1>8, <1>9, <1>10, <1>11, <1>12

\* A delete takes a row away from whatever is said of those that exist.
LEMMA DeleteKeeps ==
    ASSUME SiblingInv, NEW g \in Garments, DeleteGarment(g) PROVE SiblingInv'
<1> USE DEF SiblingInv
<1> DEFINE d == [rows[g] EXCEPT !.state = "deleted"]
<1>1. /\ rows' = [rows EXCEPT ![g] = d] /\ Exists(g) /\ asked' \in 0..MaxRequests
      /\ UNCHANGED <<born, redis, memory, pc, run, announce, lost>>
    BY AskIsTyped DEF DeleteGarment
<1>2. rows[g] \in Row /\ rows[g].state # "absent"
    BY <1>1 DEF SiblingTypeOK, Exists
<1>3. /\ d \in Row /\ d.state = "deleted" /\ d.spawned = rows[g].spawned /\ d.by = rows[g].by
      /\ d.batch = rows[g].batch /\ d.label = rows[g].label /\ d.overtook = rows[g].overtook
      /\ d.relabelled = rows[g].relabelled
    BY <1>2 DEF Row, RowStates
<1> HIDE DEF d
<1>4. /\ rows' \in [Garments -> Row] /\ rows'[g] = d
      /\ \A h \in Garments : h # g => rows'[h] = rows[h]
    BY <1>1, <1>3 DEF SiblingTypeOK
<1>5. SiblingTypeOK'
    BY <1>1, <1>4 DEF SiblingTypeOK
<1>6. /\ \A h \in Garments : rows'[h].state = "absent" <=> rows[h].state = "absent"
      /\ \A h \in Garments : rows'[h].state = "new" => rows[h].state = "new"
      /\ \A h \in Garments : Exists(h)' => Exists(h) /\ rows'[h] = rows[h]
    BY <1>2, <1>3, <1>4 DEF Exists
<1>7. \A h : Queued(h)' <=> Queued(h)
    BY <1>1 DEF Queued
<1>8. \A q, h : Carries(q, h)' <=> Carries(q, h)
    BY <1>1 DEF Carries, GarmentOf
<1>9. JobsNameDurableRows' /\ NewAreCarried'
    BY <1>1, <1>6, <1>7, <1>8 DEF JobsNameDurableRows, NewAreCarried
<1>10. SecondBatchHasACause'
    BY <1>6 DEF SecondBatchHasACause
<1>11. PlacesAreRight' /\ SecondOvertakes'
    BY <1>1, <1>6, IdleIsARun DEF PlacesAreRight, SecondOvertakes, GarmentOf
<1>12. RowsAreNumbered'
    <2>1. 1 \in Garments
        BY IdleIsARun
    <2>2. \A h \in Garments :
              /\ rows'[h].spawned = rows[h].spawned /\ rows'[h].by = rows[h].by
              /\ rows'[h].label = rows[h].label /\ rows'[h].relabelled = rows[h].relabelled
        BY <1>3, <1>4
    <2> QED
        BY <1>1, <1>6, <2>1, <2>2 DEF RowsAreNumbered
<1>13. AnnouncedAreDurable'
    <2>1. \A p \in Processes : \A i \in 1..Len(announce[p]) : announce[p][i] \in Garments
        BY ElementOfSeq DEF SiblingTypeOK
    <2> QED
        BY <1>1, <1>6, <2>1 DEF AnnouncedAreDurable
<1>14. PendingAreApart'
    <2>1. \A p : SpawnIds(p)' = SpawnIds(p)
        BY <1>1 DEF SpawnIds
    <2>2. \A h : rows[h].state = "absent" => h # g
        BY <1>2
    <2>3. ASSUME NEW p \in Processes, pc[p] = "committing", NEW h \in SpawnIds(p)
          PROVE  rows'[h].state = "absent"
        <3>1. rows[h].state = "absent" /\ h # g
            BY <1>2, <2>3 DEF PendingAreApart
        <3>2. h \in Garments
            <4>1. /\ run[p].base \in Nat /\ Len(run[p].found) \in Nat
                  /\ born \in Nat /\ born <= MaxGarments /\ MaxGarments \in Nat
                BY WorkIsTyped, SiblingAssumption
            <4>2. run[p].found # <<>>
                BY <2>3 DEF SpawnIds
            <4>3. run[p].base + Len(run[p].found) <= born
                BY <2>3, <4>2 DEF PendingAreApart
            <4> QED
                BY <2>3, <4>1, <4>3 DEF SpawnIds, Garments
        <3> QED
            BY <1>4, <3>1, <3>2
    <2> QED
        BY <1>1, <2>1, <2>3 DEF PendingAreApart
<1>15. PendingAreNew'
    BY <1>1, <1>6 DEF PendingAreNew, GarmentOf
<1> QED
    BY <1>5, <1>9, <1>10, <1>11, <1>12, <1>13, <1>14, <1>15

\* What is spawned are garments, beyond the first, with numbers handed out.
LEMMA PendingAreGarments ==
    ASSUME SiblingInv, NEW p \in Processes, pc[p] = "committing", NEW g \in SpawnIds(p)
    PROVE  g \in Garments /\ g # 1 /\ g <= born /\ rows[g].state = "absent"
<1>1. /\ run[p].base \in Nat /\ Len(run[p].found) \in Nat
      /\ born \in Nat /\ born <= MaxGarments /\ MaxGarments \in Nat
    BY WorkIsTyped, SiblingAssumption DEF SiblingInv
<1>2. run[p].found # <<>>
    BY DEF SpawnIds
<1>3. /\ run[p].base # 0 /\ run[p].base + Len(run[p].found) <= born
      /\ rows[g].state = "absent"
    BY <1>2 DEF SiblingInv, PendingAreApart
<1> QED
    BY <1>1, <1>3 DEF SpawnIds, Garments

\* A sibling that only counts as spawned by the upload comes from a loop in the
\* uploaded garment's run.
LEMMA OnlyTheUpload ==
    ASSUME SiblingInv, NEW p \in Processes, Exists(GarmentOf(p)),
           Spawner(p) \notin {"sibling", "step"}
    PROVE  p \in Loops /\ GarmentOf(p) = 1
<1>1. p \in Loops /\ rows[GarmentOf(p)].by = "nobody"
    BY DEF Spawner, Processes
<1>2. GarmentOf(p) \in Garments
    BY WorkIsTyped DEF SiblingInv
<1> QED
    BY <1>1, <1>2 DEF SiblingInv, RowsAreNumbered, Exists

\* A commit writes rows under numbers only it has, for labels that are still new.
LEMMA CommitKeeps ==
    ASSUME SiblingInv, NEW p \in Processes, CommitSiblings(p) PROVE SiblingInv'
<1> USE DEF SiblingInv
<1> DEFINE G == GarmentOf(p)
           S == SpawnIds(p)
<1>1. /\ G \in Garments /\ Exists(G) /\ S \subseteq Garments /\ G \notin S
      /\ rows' \in [Garments -> Row]
      /\ RowKept(rows[G], rows'[G], StateAfter(p))
      /\ \A g \in S : \E i \in 1..Len(run[p].found) :
            RowOfSibling(rows'[g], run[p].found[i], Spawner(p), run[p].base, run[p].overtook)
      /\ \A g \in Garments : g # G /\ g \notin S => rows'[g] = rows[g]
      /\ announce' \in [Processes -> Seq(Garments)]
      /\ \A g : (g \in S) <=> \E i \in 1..Len(announce'[p]) : announce'[p][i] = g
      /\ \A q \in Processes : q # p => announce'[q] = announce[q]
    BY CommitWrites
<1>2. /\ pc[p] = "committing" /\ announce[p] = <<>>
      /\ pc' = [pc EXCEPT ![p] = "announcing"]
      /\ UNCHANGED <<born, redis, memory, run, asked, lost>>
    BY DEF CommitSiblings, Goto, PlacesAreRight
<1>3. pc'[p] = "announcing" /\ \A q \in Processes : q # p => pc'[q] = pc[q]
    BY <1>2 DEF SiblingTypeOK
<1>4. \A g \in S : g \in Garments /\ g # 1 /\ g <= born /\ rows[g].state = "absent"
    BY <1>2, PendingAreGarments
<1>5. \A q : SpawnIds(q)' = SpawnIds(q) /\ GarmentOf(q)' = GarmentOf(q)
    BY <1>2 DEF SpawnIds, GarmentOf
<1>6. Spawner(p) # "nobody"
    BY DEF Spawner
<1> HIDE DEF G, S
<1>7. /\ \A g \in S : rows'[g].state = "new"
      /\ rows'[G].state \in {"settled", rows[G].state}
    BY <1>1 DEF RowOfSibling, RowKept, StateAfter, G
<1>8. \A g \in Garments : rows[g].state # "absent" => rows'[g].state # "absent"
    BY <1>1, <1>7
<1>9. \A g \in Garments \ S : Exists(g)' =>
          /\ Exists(g) /\ rows'[g].spawned = rows[g].spawned /\ rows'[g].by = rows[g].by
          /\ rows'[g].batch = rows[g].batch /\ rows'[g].overtook = rows[g].overtook
          /\ (rows[g].relabelled => rows'[g].relabelled)
    BY <1>1 DEF Exists, RowKept
<1>10. SiblingTypeOK'
    <2>1. pc' \in [Processes -> {"idle", "loaded", "running", "committing", "announcing",
                                 "uploading"}]
        BY <1>2 DEF SiblingTypeOK
    <2> QED
        BY <1>1, <1>2, <2>1 DEF SiblingTypeOK
<1>11. \A g : Queued(g)' <=> Queued(g)
    BY <1>2 DEF Queued
<1>12. JobsNameDurableRows'
    BY <1>8, <1>11 DEF JobsNameDurableRows
<1>13. PlacesAreRight'
    BY <1>1, <1>2, <1>3, <1>5, <1>8, IdleIsARun DEF PlacesAreRight
<1>14. RowsAreNumbered'
    <2>1. rows'[1].by = "nobody" /\ rows'[1].spawned = NoLabel
        <3>1. 1 \notin S /\ 1 \in Garments
            BY <1>4, IdleIsARun
        <3> QED
            BY <1>1, <3>1 DEF RowsAreNumbered, RowKept
    <2>2. ASSUME NEW g \in S
          PROVE  g <= born /\ rows'[g].by # "nobody" /\ rows'[g].label = rows'[g].spawned
        BY <1>1, <1>4, <1>6 DEF RowOfSibling
    <2>3. /\ G <= born
          /\ rows'[G].state # "absent" /\ G # 1 => rows'[G].by # "nobody"
          /\ ~rows'[G].relabelled /\ rows'[G].spawned # NoLabel
                 => rows'[G].label = rows'[G].spawned
        BY <1>1 DEF RowsAreNumbered, RowKept, Exists
    <2>4. ASSUME NEW g \in Garments, g # G, g \notin S
          PROVE  /\ rows'[g].state # "absent" => g <= born
                 /\ rows'[g].state # "absent" /\ g # 1 => rows'[g].by # "nobody"
                 /\ ~rows'[g].relabelled /\ rows'[g].spawned # NoLabel
                        => rows'[g].label = rows'[g].spawned
        BY <1>1, <2>4 DEF RowsAreNumbered
    <2>5. ASSUME NEW g \in Garments
          PROVE  /\ rows'[g].state # "absent" => g <= born'
                 /\ rows'[g].state # "absent" /\ g # 1 => rows'[g].by # "nobody"
                 /\ ~rows'[g].relabelled /\ rows'[g].spawned # NoLabel
                        => rows'[g].label = rows'[g].spawned
        <3>1. CASE g \in S
            BY <1>2, <2>2, <3>1
        <3>2. CASE g = G
            BY <1>2, <2>3, <3>2
        <3>3. CASE g # G /\ g \notin S
            BY <1>2, <2>4, <3>3
        <3> QED
            BY <3>1, <3>2, <3>3
    <2> QED
        BY <2>1, <2>5, Zenon DEF RowsAreNumbered
<1>15. AnnouncedAreDurable'
    <2>1. \A i \in 1..Len(announce'[p]) : announce'[p][i] \in S
        BY <1>1
    <2>2. \A q \in Processes : \A i \in 1..Len(announce[q]) : announce[q][i] \in Garments
        BY ElementOfSeq DEF SiblingTypeOK
    <2>3. \A q \in Processes \ {p} : \A i \in 1..Len(announce'[q]) :
              rows'[announce'[q][i]].state # "absent"
        <3>1. ASSUME NEW q \in Processes, q # p, NEW i \in 1..Len(announce[q])
              PROVE  rows'[announce[q][i]].state # "absent"
            <4>1. announce[q][i] \in Garments
                BY <2>2, <3>1
            <4>2. rows[announce[q][i]].state # "absent"
                BY <3>1, Zenon DEF AnnouncedAreDurable
            <4> QED
                BY <1>8, <4>1, <4>2, Zenon
        <3>2. \A q \in Processes \ {p} : q \in Processes /\ announce'[q] = announce[q]
            BY <1>1
        <3> QED
            BY <3>1, <3>2
    <2>4. \A i \in 1..Len(announce'[p]) : rows'[announce'[p][i]].state # "absent"
        BY <1>7, <2>1
    <2> QED
        BY <2>3, <2>4, Zenon DEF AnnouncedAreDurable
<1>16. PendingAreApart'
    <2>1. ASSUME NEW q \in Processes, pc'[q] = "committing", NEW h \in SpawnIds(q)
          PROVE  rows'[h].state = "absent"
        <3>1. q # p /\ pc[q] = "committing"
            BY <1>3, <2>1
        <3>2. h \in Garments /\ rows[h].state = "absent"
            BY <3>1, <2>1, PendingAreGarments
        <3>3. h \notin S
            BY <1>2, <2>1, <3>1 DEF PendingAreApart, S
        <3> QED
            BY <1>1, <3>2, <3>3 DEF Exists
    <2> QED
        BY <1>2, <1>3, <1>5, <2>1 DEF PendingAreApart
<1>17. SecondOvertakes'
    BY <1>2, <1>3, <1>5, WhoIsWho DEF SecondOvertakes
<1>18. PendingAreNew'
    <2> SUFFICES ASSUME NEW l \in Loops, pc'[l] = "committing", GarmentOf(l) = 1,
                        ~run[l].overtook,
                        NEW i \in 1..Len(run[l].found), NEW h \in Garments, Exists(h)',
                        KnownFor(rows'[h], run[l].found[i])
                 PROVE  FALSE
        BY <1>2, <1>5 DEF PendingAreNew
    <2>1. l # p /\ pc[l] = "committing"
        BY <1>3, WhoIsWho
    <2>2. CASE h \in S
        <3>1. Spawner(p) \notin {"sibling", "step"} /\ ~run[p].overtook
            <4>1. PICK j \in 1..Len(run[p].found) :
                      RowOfSibling(rows'[h], run[p].found[j], Spawner(p), run[p].base,
                                   run[p].overtook)
                BY <1>1, <2>2
            <4> QED
                BY <4>1 DEF KnownFor, RowOfSibling
        <3>2. p \in Loops /\ GarmentOf(p) = 1
            BY <1>1, <3>1, OnlyTheUpload DEF G
        <3> QED
            BY <1>2, <2>1, <3>1, <3>2 DEF SecondOvertakes
    <2>3. CASE h \notin S
        <3>1. Exists(h) /\ KnownFor(rows[h], run[l].found[i])
            BY <1>9, <2>3 DEF KnownFor
        <3> QED
            BY <2>1, <3>1 DEF PendingAreNew
    <2> QED
        BY <2>2, <2>3
<1>19. SecondBatchHasACause'
    <2>1. ASSUME NEW g \in S, NEW h \in Garments \ S, Exists(h)',
                 rows'[g].spawned = rows'[h].spawned
          PROVE  BatchCause(rows'[g], rows'[h]) /\ BatchCause(rows'[h], rows'[g])
        <3>1. PICK i \in 1..Len(run[p].found) :
                  RowOfSibling(rows'[g], run[p].found[i], Spawner(p), run[p].base,
                               run[p].overtook)
            BY <1>1
        <3>2. CASE Spawner(p) \in {"sibling", "step"} \/ run[p].overtook
            BY <3>1, <3>2 DEF RowOfSibling, BatchCause
        <3>3. CASE Spawner(p) \notin {"sibling", "step"} /\ ~run[p].overtook
            <4>1. p \in Loops /\ GarmentOf(p) = 1
                BY <1>1, <3>3, OnlyTheUpload DEF G
            <4>2. Exists(h) /\ ~KnownFor(rows[h], run[p].found[i])
                BY <1>2, <1>9, <2>1, <3>3, <4>1 DEF PendingAreNew
            <4>3. rows[h].by \in {"sibling", "step"} \/ rows[h].overtook \/ rows[h].relabelled
                BY <1>9, <2>1, <3>1, <4>2 DEF KnownFor, RowOfSibling
            <4>4. rows'[h].by \in {"sibling", "step"} \/ rows'[h].overtook \/ rows'[h].relabelled
                BY <1>9, <2>1, <4>3
            <4> QED
                BY <4>4 DEF BatchCause
        <3> QED
            BY <3>2, <3>3
    <2>2. ASSUME NEW g \in S, NEW h \in S PROVE BatchCause(rows'[g], rows'[h])
        <3>1. rows'[g].batch = run[p].base /\ rows'[h].batch = run[p].base
            BY <1>1 DEF RowOfSibling
        <3> QED
            BY <3>1 DEF BatchCause
    <2>3. ASSUME NEW g \in Garments \ S, NEW h \in Garments \ S, g # h, Exists(g)', Exists(h)',
                 rows'[g].spawned # NoLabel, rows'[g].spawned = rows'[h].spawned
          PROVE  BatchCause(rows'[g], rows'[h])
        <3>1. BatchCause(rows[g], rows[h])
            BY <1>9, <2>3 DEF SecondBatchHasACause
        <3>2. /\ rows'[g].by = rows[g].by /\ rows'[g].batch = rows[g].batch
              /\ rows'[h].by = rows[h].by /\ rows'[h].batch = rows[h].batch
              /\ rows'[g].overtook = rows[g].overtook /\ rows'[h].overtook = rows[h].overtook
              /\ rows[g].relabelled => rows'[g].relabelled
              /\ rows[h].relabelled => rows'[h].relabelled
            BY <1>9, <2>3
        <3> QED
            BY <3>1, <3>2 DEF BatchCause
    <2> QED
        BY <2>1, <2>2, <2>3 DEF SecondBatchHasACause
<1>20. NewAreCarried'
    <2> SUFFICES ASSUME NEW g \in Garments, rows'[g].state = "new"
                 PROVE  Queued(g)' \/ g \in lost' \/ \E q \in Processes : Carries(q, g)'
        BY DEF NewAreCarried
    <2>1. CASE g \in S
        <3>1. Carries(p, g)'
            BY <1>1, <2>1 DEF Carries
        <3> QED
            BY <3>1
    <2>2. CASE g \notin S
        <3>1. rows[g].state = "new" /\ (g = G => p \notin Loops)
            BY <1>1, <2>2 DEF RowKept, StateAfter, G
        <3>2. ~Carries(p, g)
            BY <1>2, <3>1 DEF Carries, G
        <3>3. \A q \in Processes : Carries(q, g) => q # p /\ Carries(q, g)'
            BY <1>1, <1>3, <1>5, <3>2 DEF Carries
        <3> QED
            BY <1>2, <1>11, <3>1, <3>3 DEF NewAreCarried
    <2> QED
        BY <2>1, <2>2
<1> QED
    BY <1>10, <1>12, <1>13, <1>14, <1>15, <1>16, <1>17, <1>18, <1>19, <1>20

-----------------------------------------------------------------------------
(* The theorems                                                             *)

\* What carries the others: the invariant holds of every photo's history.
THEOREM SiblingInvariant == SiblingSpec => []SiblingInv
<1>1. SiblingInit => SiblingInv
    BY SiblingsStart
<1>2. SiblingInv /\ [SiblingNext]_siblingVars => SiblingInv'
    <2> SUFFICES ASSUME SiblingInv, [SiblingNext]_siblingVars PROVE SiblingInv'
        OBVIOUS
    <2>1. ASSUME NEW g \in Garments, RetryGarment(g) \/ DeleteGarment(g) PROVE SiblingInv'
        BY <2>1, RetryKeeps, DeleteKeeps
    <2>2. ASSUME NEW s \in Handlers, Upload(s) \/ UploadQueued(s) \/ StepCrop(s)
          PROVE  SiblingInv'
        BY <2>2, UploadKeeps, UploadQueuedKeeps, StepKeeps
    <2>3. ASSUME NEW p \in Processes, Work(p) PROVE SiblingInv'
        BY <2>3, TakeKeeps, BeginKeeps, CropKeeps, SkipKeeps, CommitKeeps, LeaveKeeps, AnnounceKeeps
        DEF Work
    <2>4. ASSUME NEW p \in Processes, Raise(p) PROVE SiblingInv'
        BY <2>4, RaiseKeeps
    <2>5. ASSUME NEW h \in Hosts, KillProcess(h) PROVE SiblingInv'
        BY <2>5, KillKeeps
    <2>6. CASE UNCHANGED siblingVars
        <3>1. \A q \in Processes : Moved(q)
            BY <2>6, StayingMoves DEF siblingVars
        <3>2. /\ SiblingTypeOK'
              /\ \A q, g : (Carries(q, g)' <=> Carries(q, g)) /\ (Queued(g)' <=> Queued(g))
            BY <2>6 DEF siblingVars, SiblingInv, SiblingTypeOK, Carries, Queued, GarmentOf
        <3>3. JobsNameDurableRows' /\ NewAreCarried'
            BY <2>6, <3>2 DEF siblingVars, SiblingInv, JobsNameDurableRows, NewAreCarried
        <3>4. UNCHANGED <<rows, born>>
            BY <2>6 DEF siblingVars
        <3> QED
            BY <3>1, <3>2, <3>3, <3>4, MovesKeep DEF SiblingInv
    <2> QED
        BY <2>1, <2>2, <2>3, <2>4, <2>5, <2>6 DEF SiblingNext
<1> QED
    BY <1>1, <1>2, PTL DEF SiblingSpec

\* Rows, queues and runs keep their types.
THEOREM SiblingTypeCorrect == SiblingSpec => []SiblingTypeOK
<1>1. SiblingInv => SiblingTypeOK
    BY DEF SiblingInv
<1> QED
    BY <1>1, SiblingInvariant, PTL

\* A queued job names a row that was committed, by whomever and wherever queued.
THEOREM JobsAreDurable == SiblingSpec => []JobsNameDurableRows
<1>1. SiblingInv => JobsNameDurableRows
    BY DEF SiblingInv
<1> QED
    BY <1>1, SiblingInvariant, PTL

\* A garment as it was created has a job, or somebody to make one, or a failure.
THEOREM NobodyStrands == SiblingSpec => []OnlyFailureStrands
<1>1. SiblingInv => OnlyFailureStrands
    <2>1. ASSUME SiblingInv, NEW p \in Processes, NEW g \in Garments, Carries(p, g)
          PROVE  g \in Held(p)
        <3>1. pc[p] = "uploading" => GarmentOf(p) = 1
            BY <2>1 DEF SiblingInv, PlacesAreRight
        <3> QED
            BY <2>1, <3>1 DEF Carries, Held
    <2> QED
        BY <2>1 DEF SiblingInv, NewAreCarried, OnlyFailureStrands
<1> QED
    BY <1>1, SiblingInvariant, PTL

\* A label is split out a second time only for the causes the model names: one
\* of them is a run that went ahead while another had the garment's lock.
THEOREM SplitOnce == SiblingSpec => []SecondBatchHasACause
<1>1. SiblingInv => SecondBatchHasACause
    BY DEF SiblingInv
<1> QED
    BY <1>1, SiblingInvariant, PTL

-----------------------------------------------------------------------------
(* The two scenes                                                           *)

\* The lock and the photo are behaviours of their components, played or at rest:
\* what is proved of the components holds of the specification that is run.
THEOREM WorkersPlayBoth == FairWorkersSpec => TimedSpec /\ SiblingSpec
<1>1. WorkersInit => TimedInit /\ SiblingInit
    BY DEF WorkersInit
<1>2. [WorkersNext]_workersVars => [TimedNext]_timedVars
    BY DEF WorkersNext, workersVars
<1>3. [WorkersNext]_workersVars => [SiblingNext]_siblingVars
    BY DEF WorkersNext, workersVars
<1> QED
    BY <1>1, <1>2, <1>3, PTL DEF FairWorkersSpec, TimedSpec, SiblingSpec

\* The types of both components, in the specification that is run.
THEOREM WorkersTypeCorrect == FairWorkersSpec => []WorkersTypeOK
BY WorkersPlayBoth, TimedTypeCorrect, SiblingTypeCorrect, PTL DEF WorkersTypeOK

=============================================================================
