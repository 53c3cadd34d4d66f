------------------------ MODULE PanelReputationProofs ------------------------
(***************************************************************************)
(* Proofs about CharacterPanel, for every set of people, characters, outfits *)
(* and slots, and about PairReputation, for every set of votes, chips and     *)
(* readings: both count by sums over finite sets.                            *)
(* What carries the panel is that a request is marked as soon as another     *)
(* gets in its way (RivalsKnow): one that still counts as alone finds what   *)
(* it read as it was, or changed only by requests that do no harm.  What      *)
(* carries the votes is that one more of them adds a term to a sum, and a     *)
(* step of time leaves the same share of every term.                         *)
(***************************************************************************)
EXTENDS CharacterPanel, PairReputation, FiniteSetTheorems, WellFoundedInduction, TLAPS

-----------------------------------------------------------------------------
(* Induction, over sets of numbers and of sets                              *)

\* Induction over the natural numbers, for a property given as a set.
LEMMA NaturalNumbers ==
    ASSUME NEW Good, 0 \in Good, \A n \in Nat : n \in Good => n + 1 \in Good
    PROVE  Nat \subseteq Good
<1> SUFFICES ASSUME Nat \ Good # {} PROVE FALSE
    OBVIOUS
<1>1. PICK n \in Nat \ Good : \A m \in Nat \ Good : ~(<<m, n>> \in OpToRel(<, Nat))
    <2>1. Nat \ Good \subseteq Nat
        OBVIOUS
    <2> QED
        BY <2>1, NatLessThanWellFounded, WFMin
<1>2. n # 0
    OBVIOUS
<1>3. n - 1 \in Nat /\ (n - 1) + 1 = n /\ n - 1 < n
    BY <1>2
<1>4. <<n - 1, n>> \in OpToRel(<, Nat)
    BY <1>3 DEF OpToRel
<1>5. n - 1 \in Good
    BY <1>1, <1>3, <1>4
<1> QED
    BY <1>3, <1>5

\* Induction over the subsets of a finite set.
LEMMA Subsets ==
    ASSUME NEW S, IsFiniteSet(S), NEW Good,
           {} \in Good,
           \A T \in SUBSET S : T # {} /\ (\A x \in T : T \ {x} \in Good) => T \in Good
    PROVE  SUBSET S \subseteq Good
<1> SUFFICES ASSUME (SUBSET S) \ Good # {} PROVE FALSE
    OBVIOUS
<1>1. IsWellFoundedOn(StrictSubsetOrdering(S), SUBSET S)
    BY FS_StrictSubsetOrderingWellFounded, FS_FiniteSubsetsOfFinite
<1>2. PICK T \in (SUBSET S) \ Good :
          \A U \in (SUBSET S) \ Good : ~(<<U, T>> \in StrictSubsetOrdering(S))
    <2>1. (SUBSET S) \ Good \subseteq SUBSET S
        OBVIOUS
    <2> QED
        BY <1>1, <2>1, WFMin
<1>3. ASSUME NEW x \in T PROVE T \ {x} \in Good
    <2>1. T \ {x} \in SUBSET S /\ T \ {x} \subseteq T /\ T \ {x} # T
        BY <1>3
    <2>2. <<T \ {x}, T>> \in StrictSubsetOrdering(S)
        BY <2>1 DEF StrictSubsetOrdering
    <2> QED
        BY <1>2, <2>1, <2>2
<1> QED
    BY <1>2, <1>3

-----------------------------------------------------------------------------
(* Sums over finite sets                                                    *)

Pick(s) == CHOOSE x \in s : TRUE

\* What SumFunction computes: the sums over the sets of D.
IsSum(h, f, D) ==
    h = [s \in D |-> IF s = {} THEN 0 ELSE f[Pick(s)] + h[s \ {Pick(s)}]]

\* A sum is the last of the sums over the subsets.
LEMMA SumByPicks ==
    ASSUME NEW f PROVE SumFunction(f) = (CHOOSE h : IsSum(h, f, SUBSET DOMAIN f))[DOMAIN f]
BY DEF SumFunction, SumFunctionOnSet, FoldFunctionOnSet, MapThenFoldSet, IsSum, Pick

\* An element is picked from a set that has one.
LEMMA PickIn ==
    ASSUME NEW s, s # {}
    PROVE  Pick(s) \in s
BY DEF Pick

\* The sums are defined, for a finite set: level by level of the size of its subsets.
LEMMA SumExists ==
    ASSUME NEW S, IsFiniteSet(S), NEW f
    PROVE  \E h : IsSum(h, f, SUBSET S)
<1> DEFINE Level(k) == {T \in SUBSET S : Cardinality(T) <= k}
           Good == {k \in Nat : \E h : IsSum(h, f, Level(k))}
<1>1. \A T \in SUBSET S : IsFiniteSet(T) /\ Cardinality(T) \in Nat
    BY FS_Subset, FS_CardinalityType
<1>2. 0 \in Good
    <2>1. \A T \in Level(0) : T = {}
        BY <1>1, FS_EmptySet
    <2>2. IsSum([s \in Level(0) |-> 0], f, Level(0))
        BY <2>1 DEF IsSum
    <2> QED
        BY <2>2
<1>3. ASSUME NEW k \in Nat, k \in Good PROVE k + 1 \in Good
    <2>1. PICK h : IsSum(h, f, Level(k))
        BY <1>3
    <2> DEFINE n == [s \in Level(k + 1) |-> IF s = {} THEN 0 ELSE f[Pick(s)] + h[s \ {Pick(s)}]]
    <2>2. Level(k) \subseteq Level(k + 1)
        BY <1>1
    <2>3. \A s \in Level(k) : h[s] = IF s = {} THEN 0 ELSE f[Pick(s)] + h[s \ {Pick(s)}]
        BY <2>1 DEF IsSum
    <2>4. \A s \in Level(k) : n[s] = h[s]
        BY <2>2, <2>3
    <2>5. ASSUME NEW s \in Level(k + 1), s # {} PROVE s \ {Pick(s)} \in Level(k)
        <3>1. Pick(s) \in s
            BY <2>5, PickIn
        <3>2. Cardinality(s \ {Pick(s)}) = Cardinality(s) - 1
            BY <1>1, <3>1, FS_RemoveElement
        <3> QED
            BY <1>1, <3>2
    <2>6. IsSum(n, f, Level(k + 1))
        <3>1. ASSUME NEW s \in Level(k + 1)
              PROVE  n[s] = IF s = {} THEN 0 ELSE f[Pick(s)] + n[s \ {Pick(s)}]
            BY <2>4, <2>5
        <3> HIDE DEF Level
        <3> QED
            BY <3>1 DEF IsSum
    <2>7. \E m : IsSum(m, f, Level(k + 1))
        <3> HIDE DEF n, Level
        <3> QED
            BY <2>6
    <2> HIDE DEF n, Level
    <2> QED
        BY <2>7
<1>4. Nat \subseteq Good
    <2> HIDE DEF Good
    <2> QED
        BY <1>2, <1>3, NaturalNumbers
<1>5. Level(Cardinality(S)) = SUBSET S
    BY <1>1, FS_Subset
<1>6. Cardinality(S) \in Good
    BY <1>1, <1>4
<1> QED
    BY <1>5, <1>6

\* Sums of integers, with what they are made of.
SumsUp(h, f, S) ==
    /\ h \in [SUBSET S -> Int]
    /\ SumFunction(f) = h[S] /\ h[{}] = 0
    /\ \A T \in SUBSET S : T # {} =>
          Pick(T) \in T /\ h[T] = f[Pick(T)] + h[T \ {Pick(T)}]

\* A sum of integers is made one element at a time.
LEMMA SumSteps ==
    ASSUME NEW S, IsFiniteSet(S), NEW f \in [S -> Int]
    PROVE  \E h : SumsUp(h, f, S)
<1> DEFINE h == CHOOSE h : IsSum(h, f, SUBSET S)
<1>1. IsSum(h, f, SUBSET S)
    BY SumExists
<1>2. SumFunction(f) = h[S]
    <2>1. DOMAIN f = S
        OBVIOUS
    <2> QED
        BY <2>1, SumByPicks
<1> HIDE DEF h
<1>3. DOMAIN h = SUBSET S
    BY <1>1 DEF IsSum
<1>4. h[{}] = 0
    BY <1>1 DEF IsSum
<1>5. ASSUME NEW T \in SUBSET S, T # {}
      PROVE Pick(T) \in T /\ h[T] = f[Pick(T)] + h[T \ {Pick(T)}]
    BY <1>1, <1>5, PickIn DEF IsSum
<1>6. \A T \in SUBSET S : h[T] \in Int
    <2> DEFINE Good == {T \in SUBSET S : h[T] \in Int}
    <2>1. {} \in Good
        BY <1>4
    <2>2. ASSUME NEW T \in SUBSET S, T # {}, \A x \in T : T \ {x} \in Good
          PROVE  T \in Good
        <3>1. f[Pick(T)] \in Int /\ h[T \ {Pick(T)}] \in Int
            BY <1>5, <2>2
        <3>2. h[T] = f[Pick(T)] + h[T \ {Pick(T)}]
            BY <1>5, <2>2
        <3>3. h[T] \in Int
            BY <3>1, <3>2
        <3> QED
            BY <2>2, <3>3
    <2>3. SUBSET S \subseteq Good
        <3> HIDE DEF Good
        <3> QED
            BY <2>1, <2>2, Subsets
    <2> QED
        BY <2>3
<1>7. h \in [SUBSET S -> Int]
    <2>1. h = [s \in SUBSET S |-> h[s]]
        BY <1>1 DEF IsSum
    <2> QED
        BY <1>6, <2>1
<1> QED
    BY <1>2, <1>4, <1>5, <1>7 DEF SumsUp

\* The sum of integers is an integer.
LEMMA SumType ==
    ASSUME NEW S, IsFiniteSet(S), NEW f \in [S -> Int]
    PROVE  SumFunction(f) \in Int
<1>1. PICK h : SumsUp(h, f, S)
    BY SumSteps
<1> QED
    BY <1>1 DEF SumsUp

\* A sum of lesser integers is less.
LEMMA SumMonotone ==
    ASSUME NEW S, IsFiniteSet(S), NEW f \in [S -> Int], NEW g \in [S -> Int],
           \A x \in S : f[x] <= g[x]
    PROVE  SumFunction(f) <= SumFunction(g)
<1>1. PICK h : SumsUp(h, f, S)
    BY SumSteps
<1>2. PICK k : SumsUp(k, g, S)
    BY SumSteps
<1> DEFINE Good == {T \in SUBSET S : h[T] <= k[T]}
<1>3. {} \in Good
    BY <1>1, <1>2 DEF SumsUp
<1>4. ASSUME NEW T \in SUBSET S, T # {}, \A x \in T : T \ {x} \in Good
      PROVE  T \in Good
    <2> DEFINE x == Pick(T)
    <2>1. x \in T /\ x \in S
        BY <1>1, <1>4 DEF SumsUp
    <2>2. h[T] = f[x] + h[T \ {x}] /\ k[T] = g[x] + k[T \ {x}]
        BY <1>1, <1>2, <1>4 DEF SumsUp
    <2>3. h[T \ {x}] <= k[T \ {x}] /\ f[x] <= g[x]
        BY <1>4, <2>1
    <2>4. /\ f[x] \in Int /\ g[x] \in Int
          /\ h[T \ {x}] \in Int /\ k[T \ {x}] \in Int
        BY <1>1, <1>2, <2>1 DEF SumsUp
    <2> HIDE DEF x
    <2>5. h[T] <= k[T]
        BY <2>2, <2>3, <2>4
    <2> QED
        BY <1>4, <2>5
<1>5. S \in Good
    <2> HIDE DEF Good
    <2> QED
        BY <1>3, <1>4, Subsets DEF SumsUp
<1> QED
    BY <1>1, <1>2, <1>5 DEF SumsUp

\* The sum of the differences is the difference of the sums.
LEMMA SumDifference ==
    ASSUME NEW S, IsFiniteSet(S), NEW f \in [S -> Int], NEW g \in [S -> Int], NEW d \in [S -> Int],
           \A x \in S : d[x] = f[x] - g[x]
    PROVE  SumFunction(d) = SumFunction(f) - SumFunction(g)
<1>1. PICK h : SumsUp(h, f, S)
    BY SumSteps
<1>2. PICK k : SumsUp(k, g, S)
    BY SumSteps
<1>3. PICK m : SumsUp(m, d, S)
    BY SumSteps
<1> DEFINE Good == {T \in SUBSET S : m[T] = h[T] - k[T]}
<1>4. {} \in Good
    BY <1>1, <1>2, <1>3 DEF SumsUp
<1>5. ASSUME NEW T \in SUBSET S, T # {}, \A x \in T : T \ {x} \in Good
      PROVE  T \in Good
    <2> DEFINE x == Pick(T)
    <2>1. x \in T /\ x \in S
        BY <1>1, <1>5 DEF SumsUp
    <2>2. /\ h[T] = f[x] + h[T \ {x}] /\ k[T] = g[x] + k[T \ {x}]
          /\ m[T] = d[x] + m[T \ {x}]
        BY <1>1, <1>2, <1>3, <1>5 DEF SumsUp
    <2>3. m[T \ {x}] = h[T \ {x}] - k[T \ {x}] /\ d[x] = f[x] - g[x]
        BY <1>5, <2>1
    <2>4. /\ f[x] \in Int /\ g[x] \in Int
          /\ h[T \ {x}] \in Int /\ k[T \ {x}] \in Int
        BY <1>1, <1>2, <2>1 DEF SumsUp
    <2> HIDE DEF x
    <2>5. m[T] = h[T] - k[T]
        BY <2>2, <2>3, <2>4
    <2> QED
        BY <1>5, <2>5
<1>6. S \in Good
    <2> HIDE DEF Good
    <2> QED
        BY <1>4, <1>5, Subsets
<1> QED
    BY <1>1, <1>2, <1>3, <1>6 DEF SumsUp

\* A sum of shares is the share of the sum.
LEMMA SumScaled ==
    ASSUME NEW S, IsFiniteSet(S), NEW f \in [S -> Int], NEW g \in [S -> Int],
           NEW n \in Int, NEW m \in Int, \A x \in S : g[x] * n = f[x] * m
    PROVE  SumFunction(g) * n = SumFunction(f) * m
<1>1. PICK h : SumsUp(h, f, S)
    BY SumSteps
<1>2. PICK k : SumsUp(k, g, S)
    BY SumSteps
<1> DEFINE Good == {T \in SUBSET S : k[T] * n = h[T] * m}
<1>3. {} \in Good
    BY <1>1, <1>2 DEF SumsUp
<1>4. ASSUME NEW T \in SUBSET S, T # {}, \A x \in T : T \ {x} \in Good
      PROVE  T \in Good
    <2> DEFINE x == Pick(T)
    <2>1. x \in T /\ x \in S
        BY <1>1, <1>4 DEF SumsUp
    <2>2. h[T] = f[x] + h[T \ {x}] /\ k[T] = g[x] + k[T \ {x}]
        BY <1>1, <1>2, <1>4 DEF SumsUp
    <2>3. k[T \ {x}] * n = h[T \ {x}] * m /\ g[x] * n = f[x] * m
        BY <1>4, <2>1
    <2>4. /\ f[x] \in Int /\ g[x] \in Int
          /\ h[T \ {x}] \in Int /\ k[T \ {x}] \in Int
        BY <1>1, <1>2, <2>1 DEF SumsUp
    <2> HIDE DEF x
    <2>5. k[T] * n = h[T] * m
        <3>1. k[T] * n = g[x] * n + k[T \ {x}] * n
            BY <2>2, <2>4
        <3>2. h[T] * m = f[x] * m + h[T \ {x}] * m
            BY <2>2, <2>4
        <3> QED
            BY <2>3, <3>1, <3>2
    <2> QED
        BY <1>4, <2>5
<1>5. SUBSET S \subseteq Good
    <2> HIDE DEF Good
    <2> QED
        BY <1>3, <1>4, Subsets
<1> QED
    BY <1>1, <1>2, <1>5 DEF SumsUp

\* Two finite sets without a common element.
LEMMA DisjointUnion ==
    ASSUME NEW A, IsFiniteSet(A), NEW B, IsFiniteSet(B), A \cap B = {}
    PROVE  Cardinality(A \cup B) = Cardinality(A) + Cardinality(B)
<1>1. Cardinality(A \cup B) = Cardinality(A) + Cardinality(B) - Cardinality(A \cap B)
    BY FS_Union
<1>2. Cardinality(A \cap B) = 0
    BY FS_EmptySet
<1>3. Cardinality(A) \in Nat /\ Cardinality(B) \in Nat
    BY FS_CardinalityType
<1> QED
    BY <1>1, <1>2, <1>3

\* The parts of a finite set have as many elements as the set.
LEMMA SumOfParts ==
    ASSUME NEW S, IsFiniteSet(S), NEW O, IsFiniteSet(O), NEW part, \A o \in O : part[o] \in S
    PROVE  SumFunction([c \in S |-> Cardinality({o \in O : part[o] = c})]) = Cardinality(O)
<1> DEFINE f == [c \in S |-> Cardinality({o \in O : part[o] = c})]
           In(T) == {o \in O : part[o] \in T}
<1>1. \A U \in SUBSET O : IsFiniteSet(U) /\ Cardinality(U) \in Int
    BY FS_Subset, FS_CardinalityType
<1>2. f \in [S -> Int]
    <2>1. \A c \in S : {o \in O : part[o] = c} \in SUBSET O
        OBVIOUS
    <2> QED
        BY <1>1, <2>1 DEF SumsUp
<1> HIDE DEF f
<1>3. PICK h : SumsUp(h, f, S)
    BY <1>2, SumSteps
<1> DEFINE Good == {T \in SUBSET S : h[T] = Cardinality(In(T))}
<1>4. {} \in Good
    <2>1. In({}) = {}
        OBVIOUS
    <2> QED
        BY <1>3, <2>1, FS_EmptySet DEF SumsUp
<1>5. ASSUME NEW T \in SUBSET S, T # {}, \A x \in T : T \ {x} \in Good
      PROVE  T \in Good
    <2> DEFINE x == Pick(T)
               A == {o \in O : part[o] = x}
    <2>1. x \in T /\ x \in S
        BY <1>3, <1>5 DEF SumsUp
    <2>2. h[T] = f[x] + h[T \ {x}]
        BY <1>3, <1>5 DEF SumsUp
    <2>3. h[T \ {x}] = Cardinality(In(T \ {x}))
        BY <1>5, <2>1
    <2>4. f[x] = Cardinality(A)
        BY <2>1 DEF f
    <2> HIDE DEF x
    <2>5. In(T) = A \cup In(T \ {x}) /\ A \cap In(T \ {x}) = {}
        BY <2>1
    <2>6. /\ IsFiniteSet(A) /\ IsFiniteSet(In(T \ {x}))
          /\ Cardinality(A) \in Int /\ Cardinality(In(T \ {x})) \in Int
        BY <1>1 DEF SumsUp
    <2> HIDE DEF A, In
    <2>7. Cardinality(In(T)) = Cardinality(A) + Cardinality(In(T \ {x}))
        BY <2>5, <2>6, DisjointUnion
    <2>8. h[T] = Cardinality(In(T))
        BY <2>2, <2>3, <2>4, <2>6, <2>7
    <2> QED
        BY <1>5, <2>8
<1>6. S \in Good
    <2> HIDE DEF Good
    <2> QED
        BY <1>4, <1>5, Subsets
<1>7. In(S) = O
    OBVIOUS
<1> QED
    BY <1>3, <1>6, <1>7 DEF f, SumsUp

-----------------------------------------------------------------------------
(* The inductive invariant                                                  *)

Reviews == [outfit : outfits, by : People]

\* The requests, by what they do.
Assigning == [op : {"assign"}, on : Characters, to : People, exclusive : BOOLEAN,
              others : SUBSET People, row : Row, alone : BOOLEAN]
Revoking == [op : {"revoke"}, on : Characters, to : People, row : Row, alone : BOOLEAN]
Granting == [op : {"grant role"}, on : People, role : Roles, alone : BOOLEAN]
Withdrawing == [op : {"revoke role"}, on : Roles, of : People, alone : BOOLEAN]
Styling == [op : {"style"}, on : Characters, alone : BOOLEAN]
Reviewing == [op : {"review"}, on : Reviews, alone : BOOLEAN]
Reporting == [op : {"report"}, on : 1..3, assigned : [Characters -> [People -> Row]],
              reviews : SUBSET Reviews, outfits : SUBSET outfits, alone : BOOLEAN]
Requests == Assigning \cup Revoking \cup Granting \cup Withdrawing
                \cup Styling \cup Reviewing \cup Reporting

RequestsTyped == request \in [Slots -> Requests \cup {Idle}]

\* Two requests that get in each other's way both know it.
RivalsKnow ==
    \A j, k \in Slots :
        j # k /\ InTheWay(request[j], request[k]) => ~request[k].alone

\* An exclusive assignment that counts as alone will end everybody else's.
OthersAreAll ==
    \A k \in Slots :
        LET r == request[k] IN
        r.op = "assign" /\ r.exclusive /\ r.alone => ActiveFor(r.on) \ {r.to} \subseteq r.others

\* An admin whose rights are being revoked by nobody else is not the last one.
AnotherAdmin ==
    \A k \in Slots :
        LET r == request[k] IN
        r.op = "revoke role" /\ r.on = "admin" /\ r.alone /\ ~unwatched => Admins \ {r.of} # {}

\* A report has read the outfits after the reviews.
ReportInOrder ==
    \A k \in Slots :
        LET r == request[k] IN
        r.op = "report" /\ r.on = 3 => \A v \in r.reviews : v.outfit \in r.outfits

AtMostOne == \A c \in Characters \ shared : \A u, v \in ActiveFor(c) : u = v

PanelInv ==
    /\ PanelTypeOK /\ RequestsTyped /\ IsFiniteSet(outfits)
    /\ RivalsKnow /\ OthersAreAll /\ AnotherAdmin /\ ReportInOrder
    /\ AtMostOne /\ AnAdminRemains /\ ReportAddsUp

-----------------------------------------------------------------------------
(* Requests                                                                 *)

\* One request is another, but for what it knows of its rivals.
SameBut(m, q) ==
    /\ m.op = q.op /\ m.on = q.on
    /\ q.op = "assign" => m.to = q.to /\ m.exclusive = q.exclusive /\ m.others = q.others
    /\ q.op = "revoke role" => m.of = q.of
    /\ q.op = "report" => m.reviews = q.reviews /\ m.outfits = q.outfits

\* Marking a request changes nothing else of it.
LEMMA MarkedRequest ==
    ASSUME NEW q \in Requests, NEW b \in BOOLEAN
    PROVE  LET m == [q EXCEPT !.alone = b]
           IN m \in Requests /\ m.alone = b /\ SameBut(m, q)
<1> USE DEF SameBut
<1>1. CASE q \in Assigning
    BY <1>1 DEF Assigning, Requests
<1>2. CASE q \in Revoking
    BY <1>2 DEF Revoking, Requests
<1>3. CASE q \in Granting
    BY <1>3 DEF Granting, Requests
<1>4. CASE q \in Withdrawing
    BY <1>4 DEF Withdrawing, Requests
<1>5. CASE q \in Styling
    BY <1>5 DEF Styling, Requests
<1>6. CASE q \in Reviewing
    BY <1>6 DEF Reviewing, Requests
<1>7. CASE q \in Reporting
    BY <1>7 DEF Reporting, Requests
<1> QED
    BY <1>1, <1>2, <1>3, <1>4, <1>5, <1>6, <1>7 DEF Requests

\* What a request is follows from its op.
LEMMA RequestKinds ==
    ASSUME NEW r \in Requests \cup {Idle}
    PROVE  /\ r.op = "assign" => r \in Assigning
           /\ r.op = "revoke" => r \in Revoking
           /\ r.op = "grant role" => r \in Granting
           /\ r.op = "revoke role" => r \in Withdrawing
           /\ r.op = "style" => r \in Styling
           /\ r.op = "review" => r \in Reviewing
           /\ r.op = "report" => r \in Reporting
           /\ r # Idle => r \in Requests
<1>1. \A q \in Assigning : q.op = "assign"
    BY DEF Assigning
<1>2. \A q \in Revoking : q.op = "revoke"
    BY DEF Revoking
<1>3. \A q \in Granting : q.op = "grant role"
    BY DEF Granting
<1>4. \A q \in Withdrawing : q.op = "revoke role"
    BY DEF Withdrawing
<1>5. \A q \in Styling : q.op = "style"
    BY DEF Styling
<1>6. \A q \in Reviewing : q.op = "review"
    BY DEF Reviewing
<1>7. \A q \in Reporting : q.op = "report"
    BY DEF Reporting
<1>8. Idle.op = "idle"
    BY DEF Idle
<1> QED
    BY <1>1, <1>2, <1>3, <1>4, <1>5, <1>6, <1>7, <1>8 DEF Requests

\* Outfits and reviews only come, so requests keep their types.
LEMMA RequestsGrow ==
    ASSUME outfits \subseteq outfits', reviews \subseteq [outfit : outfits, by : People]
    PROVE  Requests \subseteq Requests'
<1>1. Reviews \subseteq Reviews'
    BY DEF Reviews
<1>2. Reviewing \subseteq Reviewing' /\ Reporting \subseteq Reporting'
    BY <1>1 DEF Reviewing, Reporting
<1> QED
    BY <1>2 DEF Requests, Assigning, Revoking, Granting, Withdrawing, Styling

-----------------------------------------------------------------------------
(* What every request does first and last                                   *)

\* What a request has read and decided when it begins.
Begins(r) ==
    /\ r.alone = TRUE
    /\ r.op = "assign" /\ r.exclusive => ActiveFor(r.on) \ {r.to} \subseteq r.others
    /\ r.op = "revoke role" /\ r.on = "admin" => Admins \ {r.of} # {}
    /\ r.op = "report" => r.on = 1

\* A report stands until the next.
LEMMA ReportStands ==
    ASSUME ReportAddsUp, kpis' = kpis
    PROVE  ReportAddsUp'
BY DEF ReportAddsUp, Lines

\* A request that begins marks those whose way it gets in, and is marked.
LEMMA StartKeeps ==
    ASSUME PanelInv, NEW k \in Slots, NEW r \in Requests, Start(k, r), Begins(r),
           UNCHANGED <<granted, assigned, outfits, reviews, kpis, shared, unwatched>>
    PROVE  PanelInv'
<1> DEFINE rivals == {j \in Slots : InTheWay(request[j], r)}
<1>1. request \in [Slots -> Requests \cup {Idle}]
    BY DEF PanelInv, RequestsTyped
<1>2. \A j \in rivals : request[j] \in Requests
    <2>1. \A j \in rivals : request[j].op \in {"assign", "revoke role"}
        BY DEF InTheWay
    <2>2. Idle.op = "idle"
        BY DEF Idle
    <2> QED
        BY <1>1, <2>1, <2>2
<1>3. /\ request'[k] \in Requests
      /\ request'[k].alone = (rivals = {})
      /\ SameBut(request'[k], r)
    <2>1. request'[k] = [r EXCEPT !.alone = rivals = {}]
        BY DEF Start
    <2> QED
        BY <2>1, MarkedRequest
<1>4. ASSUME NEW j \in Slots, j # k, j \notin rivals
      PROVE  request'[j] = request[j]
    BY <1>4 DEF Start
<1>5. ASSUME NEW j \in rivals, j # k
      PROVE  /\ request'[j] \in Requests
             /\ request'[j].alone = FALSE
             /\ SameBut(request'[j], request[j])
    <2>1. request'[j] = [request[j] EXCEPT !.alone = FALSE]
        BY <1>5 DEF Start
    <2>2. request[j] \in Requests
        BY <1>2, <1>5
    <2> HIDE DEF rivals
    <2> QED
        BY <2>1, <2>2, MarkedRequest
<1>6. RequestsTyped'
    <2>1. Requests' = Requests
        BY DEF Requests, Assigning, Revoking, Granting, Withdrawing, Styling, Reviewing,
               Reporting, Reviews
    <2>2. \A j \in Slots : request'[j] \in Requests \cup {Idle}
        BY <1>1, <1>3, <1>4, <1>5
    <2>3. DOMAIN request' = Slots /\ request' = [j \in Slots |-> request'[j]]
        BY DEF Start
    <2> QED
        BY <2>1, <2>2, <2>3 DEF RequestsTyped
<1>7. \A j \in Slots \ {k} : SameBut(request'[j], request[j])
    BY <1>4, <1>5 DEF SameBut
<1>8. RivalsKnow'
    <2>1. ASSUME NEW i \in Slots, NEW j \in Slots, i # j, InTheWay(request'[i], request'[j])
          PROVE  ~request'[j].alone
        <3>1. CASE i = k
            <4>1. InTheWay(request[j], r)
                BY <1>3, <1>7, <2>1, <3>1 DEF InTheWay, SameBut
            <4> QED
                BY <1>5, <2>1, <3>1, <4>1
        <3>2. CASE j = k
            <4>1. InTheWay(request[i], r)
                BY <1>3, <1>7, <2>1, <3>2 DEF InTheWay, SameBut
            <4> QED
                BY <1>3, <3>2, <4>1
        <3>3. CASE i # k /\ j # k
            <4>1. InTheWay(request[i], request[j])
                BY <1>7, <2>1, <3>3 DEF InTheWay, SameBut
            <4>2. ~request[j].alone
                BY <2>1, <4>1 DEF PanelInv, RivalsKnow
            <4> QED
                BY <1>4, <1>5, <3>3, <4>2
        <3> QED
            BY <3>1, <3>2, <3>3
    <2> QED
        BY <2>1 DEF RivalsKnow
<1>9. OthersAreAll'
    <2>1. ASSUME NEW j \in Slots, request'[j].op = "assign", request'[j].exclusive,
                 request'[j].alone
          PROVE  ActiveFor(request'[j].on) \ {request'[j].to} \subseteq request'[j].others
        <3>1. CASE j = k
            BY <1>3, <2>1, <3>1 DEF SameBut, Begins
        <3>2. CASE j # k
            BY <1>4, <1>5, <2>1, <3>2 DEF PanelInv, OthersAreAll, SameBut
        <3> QED
            BY <3>1, <3>2
    <2> QED
        BY <2>1 DEF OthersAreAll, ActiveFor
<1>10. AnotherAdmin'
    <2>1. ASSUME NEW j \in Slots, request'[j].op = "revoke role", request'[j].on = "admin",
                 request'[j].alone, ~unwatched
          PROVE  Admins \ {request'[j].of} # {}
        <3>1. CASE j = k
            BY <1>3, <2>1, <3>1 DEF SameBut, Begins
        <3>2. CASE j # k
            BY <1>4, <1>5, <2>1, <3>2 DEF PanelInv, AnotherAdmin, SameBut
        <3> QED
            BY <3>1, <3>2
    <2> QED
        BY <2>1 DEF AnotherAdmin, Admins
<1>11. ReportInOrder'
    <2>1. ASSUME NEW j \in Slots, request'[j].op = "report", request'[j].on = 3
          PROVE  \A v \in request'[j].reviews : v.outfit \in request'[j].outfits
        <3>1. ASSUME j = k PROVE FALSE
            <4>1. r.op = "report" /\ r.on = 3
                BY <1>3, <2>1, <3>1 DEF SameBut
            <4> QED
                BY <4>1 DEF Begins
        <3> QED
            BY <1>7, <2>1, <3>1 DEF PanelInv, ReportInOrder, SameBut
    <2> QED
        BY <2>1 DEF ReportInOrder
<1>12. PanelTypeOK'
    <2>1. requests \in 0..MaxRequests
        BY DEF PanelInv, PanelTypeOK
    <2>2. requests < MaxRequests /\ requests' = requests + 1
        BY DEF Start
    <2>3. MaxRequests \in Nat
        BY PanelAssumption
    <2>4. requests' \in 0..MaxRequests
        BY <2>1, <2>2, <2>3
    <2> QED
        BY <2>4 DEF PanelInv, PanelTypeOK
<1>13. AtMostOne' /\ AnAdminRemains'
    <2>1. AtMostOne /\ AnAdminRemains
        BY DEF PanelInv
    <2>2. AtMostOne'
        BY <2>1 DEF AtMostOne, ActiveFor
    <2>3. AnAdminRemains'
        BY <2>1 DEF AnAdminRemains, Admins
    <2> QED
        BY <2>2, <2>3
<1>14. IsFiniteSet(outfits)'
    BY DEF PanelInv
<1> QED
    BY <1>6, <1>8, <1>9, <1>10, <1>11, <1>12, <1>13, <1>14, ReportStands
    DEF PanelInv

\* A request that is over is forgotten.
LEMMA FinishKeeps ==
    ASSUME PanelInv, NEW k \in Slots, Finish(k),
           outfits \subseteq outfits', reviews \subseteq reviews'
    PROVE  /\ \A j \in Slots :
                 request'[j].op # "idle" => j # k /\ request'[j] = request[j]
           /\ RequestsTyped' /\ RivalsKnow' /\ ReportInOrder'
<1>1. request \in [Slots -> Requests \cup {Idle}]
    BY DEF PanelInv, RequestsTyped
<1>2. \A j \in Slots : request'[j] = IF j = k THEN Idle ELSE request[j]
    BY <1>1 DEF Finish
<1>3. RequestsTyped'
    <2>1. Requests \subseteq Requests'
        BY RequestsGrow DEF PanelInv, PanelTypeOK
    <2> QED
        BY <1>1, <2>1 DEF RequestsTyped, Finish, Idle
<1>4. Idle.op = "idle"
    BY DEF Idle
<1>5. RivalsKnow'
    <2>1. ASSUME NEW i \in Slots, NEW j \in Slots, i # j, InTheWay(request'[i], request'[j])
          PROVE  ~request'[j].alone
        <3>1. i # k /\ j # k
            BY <1>2, <1>4, <2>1 DEF InTheWay
        <3> QED
            BY <1>2, <2>1, <3>1 DEF PanelInv, RivalsKnow
    <2> QED
        BY <2>1 DEF RivalsKnow
<1>6. ReportInOrder'
    BY <1>2, <1>4 DEF PanelInv, ReportInOrder
<1> QED
    BY <1>2, <1>3, <1>4, <1>5, <1>6

-----------------------------------------------------------------------------
(* The commits                                                              *)

\* Who is assigned to a character after an assignment has committed.
LEMMA AssignKeeps ==
    ASSUME PanelInv, NEW k \in Slots, CommitAssign(k)
    PROVE  PanelInv'
<1> DEFINE r == request[k]
           after == [u \in People |->
                       IF u \in r.others THEN "revoked"
                       ELSE IF u = r.to /\ r.row # "active" THEN "active"
                       ELSE assigned[r.on][u]]
<1>1. r \in Assigning
    BY RequestKinds DEF PanelInv, RequestsTyped, CommitAssign
<1>2. /\ r.on \in Characters /\ r.to \in People
      /\ r.exclusive \in BOOLEAN /\ r.alone \in BOOLEAN
    BY <1>1 DEF Assigning
<1>3. assigned \in [Characters -> [People -> Row]] /\ shared \subseteq Characters
    BY DEF PanelInv, PanelTypeOK
<1>4. /\ \A j \in Slots :
            request'[j].op # "idle" => j # k /\ request'[j] = request[j]
      /\ RequestsTyped' /\ RivalsKnow' /\ ReportInOrder'
    BY FinishKeeps DEF CommitAssign
<1>5. \/ UNCHANGED <<assigned, shared>>
      \/ /\ assigned' = [assigned EXCEPT ![r.on] = after]
         /\ shared' = IF r.exclusive /\ r.alone THEN shared \ {r.on} ELSE shared \cup {r.on}
    BY DEF CommitAssign
<1>6. after \in [People -> Row]
    BY <1>2, <1>3 DEF Row
<1>7. \A c \in Characters \ {r.on} : ActiveFor(c)' = ActiveFor(c)
    BY <1>3, <1>5 DEF ActiveFor
<1>8. PanelTypeOK'
    <2>1. assigned' \in [Characters -> [People -> Row]]
        BY <1>2, <1>3, <1>5, <1>6
    <2>2. shared' \subseteq Characters
        BY <1>2, <1>3, <1>5
    <2> QED
        BY <2>1, <2>2 DEF PanelInv, PanelTypeOK, CommitAssign
<1>9. OthersAreAll'
    <2>1. ASSUME NEW j \in Slots, request'[j].op = "assign", request'[j].exclusive,
                 request'[j].alone, NEW c, c = request'[j].on
          PROVE  ActiveFor(c)' \ {request'[j].to} \subseteq request'[j].others
        <3>1. j # k /\ request'[j] = request[j]
            BY <1>4, <2>1
        <3>2. c # r.on
            BY <2>1, <3>1 DEF PanelInv, RivalsKnow, InTheWay, CommitAssign
        <3>3. c \in Characters
            <4>1. request[j] \in Assigning
                BY <2>1, <3>1, RequestKinds DEF PanelInv, RequestsTyped
            <4> QED
                BY <2>1, <3>1, <4>1 DEF Assigning
        <3>4. ActiveFor(c)' = ActiveFor(c)
            BY <1>7, <3>2, <3>3
        <3>5. ActiveFor(c) \ {request[j].to} \subseteq request[j].others
            BY <2>1, <3>1 DEF PanelInv, OthersAreAll
        <3> QED
            BY <3>1, <3>4, <3>5
    <2> QED
        BY <2>1 DEF OthersAreAll, ActiveFor
<1>10. AtMostOne'
    <2>1. ASSUME NEW c \in Characters \ shared'
          PROVE  \A u, v \in ActiveFor(c)' : u = v
        <3>1. CASE UNCHANGED <<assigned, shared>>
            BY <2>1, <3>1 DEF PanelInv, AtMostOne, ActiveFor
        <3>2. CASE c # r.on
            <4>1. c \notin shared
                BY <1>5, <2>1, <3>2
            <4> QED
                BY <1>7, <3>2, <4>1 DEF PanelInv, AtMostOne
        <3>3. CASE c = r.on /\ assigned' = [assigned EXCEPT ![r.on] = after]
                            /\ r.exclusive /\ r.alone
            <4>1. ActiveFor(c) \ {r.to} \subseteq r.others
                BY <3>3 DEF PanelInv, OthersAreAll, CommitAssign
            <4>2. assigned'[c] = after
                BY <1>2, <1>3, <3>3
            <4>3. ASSUME NEW u \in ActiveFor(c)'
                  PROVE  u = r.to
                <5>1. u \in People /\ after[u] = "active"
                    BY <4>2, <4>3 DEF ActiveFor
                <5>2. u \notin r.others
                    BY <5>1
                <5>3. u = r.to \/ assigned[c][u] = "active"
                    BY <3>3, <5>1
                <5> QED
                    BY <4>1, <5>1, <5>2, <5>3 DEF ActiveFor
            <4> QED
                BY <4>3
        <3> QED
            BY <1>5, <2>1, <3>1, <3>2, <3>3
    <2> QED
        BY <2>1 DEF AtMostOne
<1>11. AnotherAdmin' /\ AnAdminRemains'
    <2>1. UNCHANGED <<granted, unwatched>>
        BY DEF CommitAssign
    <2>2. AnotherAdmin'
        <3>1. ASSUME NEW j \in Slots, request'[j].op = "revoke role"
              PROVE  request'[j] = request[j]
            BY <1>4, <3>1
        <3> QED
            BY <2>1, <3>1 DEF PanelInv, AnotherAdmin, Admins
    <2> QED
        BY <2>1, <2>2 DEF PanelInv, AnAdminRemains, Admins
<1>12. IsFiniteSet(outfits)'
    BY DEF PanelInv, CommitAssign
<1>13. kpis' = kpis
    BY DEF CommitAssign
<1> QED
    BY <1>4, <1>8, <1>9, <1>10, <1>11, <1>12, <1>13, ReportStands DEF PanelInv

\* Commits that assign nobody leave what is known of assignments standing.
LEMMA OthersStand ==
    ASSUME PanelInv, NEW k \in Slots, Finish(k),
           outfits \subseteq outfits', reviews \subseteq reviews', shared' = shared,
           \A c \in Characters : ActiveFor(c)' \subseteq ActiveFor(c)
    PROVE  OthersAreAll' /\ AtMostOne'
<1>1. \A j \in Slots : request'[j].op # "idle" => j # k /\ request'[j] = request[j]
    BY FinishKeeps
<1>2. OthersAreAll'
    <2>1. ASSUME NEW j \in Slots, request'[j].op = "assign", request'[j].exclusive,
                 request'[j].alone, NEW c, c = request'[j].on
          PROVE  ActiveFor(c)' \ {request'[j].to} \subseteq request'[j].others
        <3>1. request'[j] = request[j]
            BY <1>1, <2>1
        <3>2. c \in Characters
            <4>1. request[j] \in Assigning
                BY <2>1, <3>1, RequestKinds DEF PanelInv, RequestsTyped
            <4> QED
                BY <2>1, <3>1, <4>1 DEF Assigning
        <3>3. ActiveFor(c)' \subseteq ActiveFor(c)
            BY <3>2
        <3>4. ActiveFor(c) \ {request[j].to} \subseteq request[j].others
            BY <2>1, <3>1 DEF PanelInv, OthersAreAll
        <3> QED
            BY <3>1, <3>3, <3>4
    <2> QED
        BY <2>1 DEF OthersAreAll, ActiveFor
<1>3. AtMostOne'
    BY DEF PanelInv, AtMostOne
<1> QED
    BY <1>2, <1>3

\* Commits that take no admin's rights away leave what is known of them standing.
LEMMA AdminsStand ==
    ASSUME PanelInv, NEW k \in Slots, Finish(k),
           outfits \subseteq outfits', reviews \subseteq reviews',
           Admins \subseteq Admins', unwatched' = unwatched
    PROVE  AnotherAdmin' /\ AnAdminRemains'
<1>1. \A j \in Slots : request'[j].op # "idle" => j # k /\ request'[j] = request[j]
    BY FinishKeeps
<1>2. AnotherAdmin'
    <2>1. ASSUME NEW j \in Slots, request'[j].op = "revoke role", request'[j].on = "admin",
                 request'[j].alone, ~unwatched
          PROVE  Admins' \ {request'[j].of} # {}
        <3>1. request'[j] = request[j]
            BY <1>1, <2>1
        <3>2. Admins \ {request[j].of} # {}
            BY <2>1, <3>1 DEF PanelInv, AnotherAdmin
        <3> QED
            BY <3>1, <3>2
    <2> QED
        BY <2>1 DEF AnotherAdmin
<1>3. AnAdminRemains'
    BY DEF PanelInv, AnAdminRemains
<1> QED
    BY <1>2, <1>3

\* The commits of the other requests.
LEMMA OtherCommitsKeep ==
    ASSUME PanelInv, NEW k \in Slots,
           CommitRevoke(k) \/ CommitGrantRole(k) \/ CommitStyling(k) \/ CommitReview(k)
    PROVE  PanelInv'
<1>1. request[k] \in Requests \cup {Idle}
    BY DEF PanelInv, RequestsTyped
<1>2. CASE CommitRevoke(k)
    <2>1. request[k] \in Revoking
        BY <1>1, <1>2, RequestKinds DEF CommitRevoke
    <2>2. request[k].on \in Characters /\ request[k].to \in People
        BY <2>1 DEF Revoking
    <2>3. Finish(k) /\ UNCHANGED <<granted, outfits, reviews, kpis, shared, unwatched, requests>>
        BY <1>2 DEF CommitRevoke
    <2>4. assigned \in [Characters -> [People -> Row]]
        BY DEF PanelInv, PanelTypeOK
    <2>5. \/ assigned' = assigned
          \/ assigned' = [assigned EXCEPT ![request[k].on][request[k].to] = "revoked"]
        BY <1>2 DEF CommitRevoke
    <2>6. assigned' \in [Characters -> [People -> Row]]
        BY <2>2, <2>4, <2>5 DEF Row
    <2>7. \A c \in Characters : ActiveFor(c)' \subseteq ActiveFor(c)
        BY <2>2, <2>4, <2>5 DEF ActiveFor
    <2>8. PanelTypeOK' /\ IsFiniteSet(outfits)'
        BY <2>3, <2>6 DEF PanelInv, PanelTypeOK
    <2>9. Admins' = Admins
        BY <2>3 DEF Admins
    <2> QED
        BY <2>3, <2>7, <2>8, <2>9, FinishKeeps, OthersStand, AdminsStand,
           ReportStands DEF PanelInv
<1>3. CASE CommitGrantRole(k)
    <2>1. request[k] \in Granting
        BY <1>1, <1>3, RequestKinds DEF CommitGrantRole
    <2>2. request[k].on \in People /\ request[k].role \in Roles
        BY <2>1 DEF Granting
    <2>3. Finish(k) /\ UNCHANGED <<assigned, outfits, reviews, kpis, shared, unwatched, requests>>
        BY <1>3 DEF CommitGrantRole
    <2>4. granted' = [granted EXCEPT ![request[k].on] = @ \cup {request[k].role}]
        BY <1>3 DEF CommitGrantRole
    <2>5. granted \in [People -> SUBSET Roles]
        BY DEF PanelInv, PanelTypeOK
    <2>6. granted' \in [People -> SUBSET Roles] /\ Admins \subseteq Admins'
        BY <2>2, <2>4, <2>5 DEF Admins
    <2>7. PanelTypeOK' /\ IsFiniteSet(outfits)'
        BY <2>3, <2>6 DEF PanelInv, PanelTypeOK
    <2>8. \A c \in Characters : ActiveFor(c)' = ActiveFor(c)
        BY <2>3 DEF ActiveFor
    <2> QED
        BY <2>3, <2>6, <2>7, <2>8, FinishKeeps, OthersStand, AdminsStand,
           ReportStands DEF PanelInv
<1>4. CASE CommitStyling(k)
    <2>1. Finish(k) /\ UNCHANGED <<granted, assigned, reviews, kpis, shared, unwatched, requests>>
        BY <1>4 DEF CommitStyling
    <2>2. PICK o \in Outfits : outfits' = outfits \cup {o}
        BY <1>4 DEF CommitStyling
    <2>3. IsFiniteSet(outfits)'
        BY <2>2, FS_AddElement DEF PanelInv
    <2>4. outfits' \subseteq Outfits /\ reviews' \subseteq [outfit : outfits', by : People]
        BY <2>1, <2>2 DEF PanelInv, PanelTypeOK
    <2>5. PanelTypeOK'
        BY <2>1, <2>4 DEF PanelInv, PanelTypeOK
    <2>6. \A c \in Characters : ActiveFor(c)' = ActiveFor(c)
        BY <2>1 DEF ActiveFor
    <2>7. Admins' = Admins
        BY <2>1 DEF Admins
    <2> QED
        BY <2>1, <2>2, <2>3, <2>5, <2>6, <2>7, FinishKeeps, OthersStand, AdminsStand,
           ReportStands DEF PanelInv
<1>5. CASE CommitReview(k)
    <2>1. Finish(k) /\ UNCHANGED <<granted, assigned, outfits, kpis, shared, unwatched, requests>>
        BY <1>5 DEF CommitReview
    <2>2. request[k] \in Reviewing
        BY <1>1, <1>5, RequestKinds DEF CommitReview
    <2>3. reviews' = reviews \cup {request[k].on} /\ request[k].on \in Reviews
        BY <1>5, <2>2 DEF CommitReview, Reviewing
    <2>4. PanelTypeOK' /\ IsFiniteSet(outfits)'
        BY <2>1, <2>3 DEF PanelInv, PanelTypeOK, Reviews
    <2>5. \A c \in Characters : ActiveFor(c)' = ActiveFor(c)
        BY <2>1 DEF ActiveFor
    <2>6. Admins' = Admins
        BY <2>1 DEF Admins
    <2> QED
        BY <2>1, <2>3, <2>4, <2>5, <2>6, FinishKeeps, OthersStand, AdminsStand,
           ReportStands DEF PanelInv
<1> QED
    BY <1>2, <1>3, <1>4, <1>5

\* An admin's rights are taken away while nobody else does it to another, or
\* it is noted that two did.
LEMMA WithdrawKeeps ==
    ASSUME PanelInv, NEW k \in Slots, CommitRevokeRole(k)
    PROVE  PanelInv'
<1> DEFINE r == request[k]
<1>1. r \in Withdrawing
    BY RequestKinds DEF PanelInv, RequestsTyped, CommitRevokeRole
<1>2. r.on \in Roles /\ r.of \in People /\ r.alone \in BOOLEAN /\ r.op = "revoke role"
    BY <1>1 DEF Withdrawing
<1>3. Finish(k) /\ UNCHANGED <<assigned, outfits, reviews, kpis, shared, requests>>
    BY DEF CommitRevokeRole
<1>4. /\ granted' = [granted EXCEPT ![r.of] = @ \ {r.on}]
      /\ unwatched' = (unwatched \/ (r.on = "admin" /\ ~r.alone))
    BY DEF CommitRevokeRole
<1>5. granted \in [People -> SUBSET Roles]
    BY DEF PanelInv, PanelTypeOK
<1>6. granted' \in [People -> SUBSET Roles]
    BY <1>2, <1>4, <1>5
<1>7. /\ r.on # "admin" => Admins' = Admins
      /\ r.on = "admin" => Admins' = Admins \ {r.of}
    BY <1>2, <1>4, <1>5 DEF Admins
<1>8. \A j \in Slots : request'[j].op # "idle" => j # k /\ request'[j] = request[j]
    BY <1>3, FinishKeeps
<1>9. AnotherAdmin'
    <2>1. ASSUME NEW j \in Slots, request'[j].op = "revoke role", request'[j].on = "admin",
                 request'[j].alone, ~unwatched'
          PROVE  Admins' \ {request'[j].of} # {}
        <3>1. j # k /\ request'[j] = request[j]
            BY <1>8, <2>1
        <3>2. r.on # "admin"
            BY <1>2, <2>1, <3>1 DEF PanelInv, RivalsKnow, InTheWay
        <3> QED
            BY <1>4, <1>7, <2>1, <3>1, <3>2 DEF PanelInv, AnotherAdmin
    <2> QED
        BY <2>1 DEF AnotherAdmin
<1>10. AnAdminRemains'
    <2>1. CASE r.on # "admin"
        BY <1>4, <1>7, <2>1 DEF PanelInv, AnAdminRemains
    <2>2. CASE r.on = "admin"
        BY <1>2, <1>4, <1>7, <2>2 DEF PanelInv, AnotherAdmin, AnAdminRemains
    <2> QED
        BY <2>1, <2>2
<1>11. PanelTypeOK' /\ IsFiniteSet(outfits)'
    BY <1>3, <1>6 DEF PanelInv, PanelTypeOK
<1>12. \A c \in Characters : ActiveFor(c)' = ActiveFor(c)
    BY <1>3 DEF ActiveFor
<1> QED
    BY <1>3, <1>9, <1>10, <1>11, <1>12, FinishKeeps, OthersStand, ReportStands DEF PanelInv

-----------------------------------------------------------------------------
(* The report                                                               *)

\* The outfits are read after the reviews, and none goes away: whatever has a
\* review is among them.
LEMMA ReadKeeps ==
    ASSUME PanelInv, NEW k \in Slots, ReadNext(k)
    PROVE  PanelInv'
<1> DEFINE r == request[k]
<1>1. /\ request \in [Slots -> Requests \cup {Idle}]
      /\ UNCHANGED <<granted, assigned, outfits, reviews, kpis, shared, unwatched, requests>>
    BY DEF PanelInv, RequestsTyped, ReadNext
<1>2. r \in Reporting
    BY <1>1, RequestKinds DEF ReadNext
<1>3. reviews \subseteq Reviews
    BY DEF PanelInv, PanelTypeOK, Reviews
<1>4. r.on \in {1, 2}
    BY <1>2 DEF Reporting, ReadNext
<1>5. /\ \A j \in Slots \ {k} : request'[j] = request[j]
      /\ request'[k] \in Reporting
      /\ request'[k].op = "report"
      /\ request'[k].on = 3 => request'[k].reviews \subseteq Reviews /\ request'[k].outfits = outfits
    <2>1. CASE r.on = 1
        <3>1. request' = [request EXCEPT ![k] = [r EXCEPT !.on = 2, !.reviews = reviews]]
            BY <2>1 DEF ReadNext, Queries
        <3>2. request'[k] = [r EXCEPT !.on = 2, !.reviews = reviews]
            BY <1>1, <3>1
        <3> DEFINE q == [r EXCEPT !.on = 2]
        <3>3. q \in Reporting /\ q.on = 2
            BY <1>2 DEF Reporting
        <3>4. request'[k] = [q EXCEPT !.reviews = reviews]
            BY <3>2
        <3> HIDE DEF q
        <3>5. request'[k] \in Reporting /\ request'[k].on = 2 /\ request'[k].op = "report"
            BY <1>3, <3>3, <3>4 DEF Reporting
        <3> QED
            BY <1>1, <3>1, <3>5
    <2>2. CASE r.on = 2
        <3>1. request' = [request EXCEPT ![k] = [r EXCEPT !.on = 3, !.outfits = outfits]]
            BY <2>2 DEF ReadNext, Queries
        <3>2. request'[k] = [r EXCEPT !.on = 3, !.outfits = outfits]
            BY <1>1, <3>1
        <3> DEFINE q == [r EXCEPT !.on = 3]
        <3>3. q \in Reporting
            BY <1>2 DEF Reporting
        <3>4. request'[k] = [q EXCEPT !.outfits = outfits]
            BY <3>2
        <3> HIDE DEF q
        <3>5. /\ request'[k] \in Reporting /\ request'[k].op = "report"
              /\ request'[k].outfits = outfits /\ request'[k].reviews \subseteq Reviews
            BY <3>3, <3>4 DEF Reporting
        <3> QED
            BY <1>1, <3>1, <3>5
    <2> QED
        BY <1>4, <2>1, <2>2
<1>6. r.op = "report"
    BY DEF ReadNext
<1>7. RequestsTyped'
    <2>1. Requests' = Requests
        BY <1>1 DEF Requests, Assigning, Revoking, Granting, Withdrawing, Styling, Reviewing,
               Reporting, Reviews
    <2>2. \A j \in Slots : request'[j] \in Requests \cup {Idle}
        BY <1>1, <1>5 DEF Requests
    <2>3. request' = [j \in Slots |-> request'[j]]
        BY <1>1 DEF ReadNext
    <2> QED
        BY <2>1, <2>2, <2>3 DEF RequestsTyped
<1>8. RivalsKnow'
    <2>1. ASSUME NEW i \in Slots, NEW j \in Slots, i # j, InTheWay(request'[i], request'[j])
          PROVE  ~request'[j].alone
        <3>1. i # k /\ j # k
            BY <1>5, <2>1 DEF InTheWay
        <3> QED
            BY <1>5, <2>1, <3>1 DEF PanelInv, RivalsKnow
    <2> QED
        BY <2>1 DEF RivalsKnow
<1>9. OthersAreAll'
    BY <1>1, <1>5 DEF PanelInv, OthersAreAll, ActiveFor
<1>10. AnotherAdmin'
    BY <1>1, <1>5 DEF PanelInv, AnotherAdmin, Admins
<1>11. ReportInOrder'
    BY <1>5 DEF PanelInv, ReportInOrder, Reviews
<1>12. /\ PanelTypeOK' /\ IsFiniteSet(outfits)'
    BY <1>1 DEF PanelInv, PanelTypeOK
<1>13. AtMostOne' /\ AnAdminRemains'
    BY <1>1 DEF PanelInv, AtMostOne, AnAdminRemains, Admins, ActiveFor
<1> QED
    BY <1>1, <1>7, <1>8, <1>9, <1>10, <1>11, <1>12, <1>13, ReportStands DEF PanelInv

\* What a report is computed from.
IsSnapshot(d) ==
    /\ d.outfits \subseteq Outfits /\ IsFiniteSet(d.outfits)
    /\ d.reviews \subseteq [outfit : d.outfits, by : People]

\* The outfits made and the outfits reviewed, of a character and of all.
LEMMA ReviewedAreMade ==
    ASSUME NEW d, IsSnapshot(d)
    PROVE  /\ \A P, c : /\ IsFiniteSet(OfCharacter(d, c)) /\ IsFiniteSet(ReviewedBy(d, P, c))
                       /\ Cardinality(OfCharacter(d, c)) \in Int
                       /\ Cardinality(ReviewedBy(d, P, c)) \in Int
                       /\ Cardinality(ReviewedBy(d, P, c)) <= Cardinality(OfCharacter(d, c))
           /\ LET reviewed == {r.outfit : r \in d.reviews}
              IN /\ IsFiniteSet(reviewed)
                 /\ Cardinality(d.outfits) \in Int /\ Cardinality(reviewed) \in Int
                 /\ Cardinality(reviewed) <= Cardinality(d.outfits)
<1>1. ASSUME NEW P, NEW c
      PROVE  /\ IsFiniteSet(OfCharacter(d, c)) /\ IsFiniteSet(ReviewedBy(d, P, c))
             /\ Cardinality(OfCharacter(d, c)) \in Int
             /\ Cardinality(ReviewedBy(d, P, c)) \in Int
             /\ Cardinality(ReviewedBy(d, P, c)) <= Cardinality(OfCharacter(d, c))
    <2>1. OfCharacter(d, c) \in SUBSET d.outfits
        BY DEF OfCharacter
    <2>2. ReviewedBy(d, P, c) \in SUBSET OfCharacter(d, c)
        BY DEF IsSnapshot, OfCharacter, ReviewedBy
    <2>3. IsFiniteSet(OfCharacter(d, c))
        BY <2>1, FS_Subset DEF IsSnapshot
    <2>4. /\ IsFiniteSet(ReviewedBy(d, P, c))
          /\ Cardinality(ReviewedBy(d, P, c)) <= Cardinality(OfCharacter(d, c))
        BY <2>2, <2>3, FS_Subset
    <2> QED
        BY <2>3, <2>4, FS_CardinalityType
<1> DEFINE reviewed == {r.outfit : r \in d.reviews}
<1>2. reviewed \in SUBSET d.outfits
    BY DEF IsSnapshot
<1> HIDE DEF reviewed
<1>3. IsFiniteSet(d.outfits)
    BY DEF IsSnapshot
<1>4. IsFiniteSet(reviewed) /\ Cardinality(reviewed) <= Cardinality(d.outfits)
    BY <1>2, <1>3, FS_Subset
<1>5. Cardinality(d.outfits) \in Int /\ Cardinality(reviewed) \in Int
    BY <1>3, <1>4, FS_CardinalityType
<1> QED
    BY <1>1, <1>4, <1>5 DEF reviewed

\* No line of a report has more outfits reviewed than made.
LEMMA BacklogsAreNatural ==
    ASSUME NEW d, IsSnapshot(d)
    PROVE  \A line \in Lines(ComputeKpis(d)) : line.backlog >= 0
<1> DEFINE made(c) == Cardinality(OfCharacter(d, c))
           seen(P, c) == Cardinality(ReviewedBy(d, P, c))
<1>1. \A P, c : made(c) \in Int /\ seen(P, c) \in Int /\ seen(P, c) <= made(c)
    BY ReviewedAreMade
<1>2. \A n, m \in Int : m <= n => Line(n, m).backlog >= 0
    BY DEF Line
<1> HIDE DEF made, seen
<1>3. \A P, c : Line(made(c), seen(P, c)).backlog >= 0
    BY <1>1, <1>2
<1>4. ASSUME NEW x \in Cells(d) PROVE x.line.backlog >= 0
    <2>1. PICK u, c : x = [by |-> u, on |-> c, line |-> Line(made(c), seen({u}, c))]
        BY <1>4 DEF Cells, made, seen
    <2> QED
        BY <1>3, <2>1
<1>5. ASSUME NEW c \in Characters PROVE CharacterLine(d, c).backlog >= 0
    BY <1>3 DEF CharacterLine, made, seen
<1>6. ASSUME NEW u \in People PROVE StylistLine(d, u).backlog >= 0
    <2> DEFINE mine == {c \in Characters : d.assigned[c][u] = "active"}
               f == [c \in mine |-> seen({u}, c)]
               g == [c \in mine |-> made(c)]
    <2>1. IsFiniteSet(mine)
        BY PanelAssumption, FS_Subset
    <2>2. f \in [mine -> Int] /\ g \in [mine -> Int] /\ \A c \in mine : f[c] <= g[c]
        BY <1>1
    <2>3. StylistLine(d, u) = Line(SumFunction(g), SumFunction(f))
        BY DEF StylistLine, made, seen
    <2> HIDE DEF mine, f, g
    <2>4. /\ SumFunction(f) \in Int /\ SumFunction(g) \in Int
          /\ SumFunction(f) <= SumFunction(g)
        BY <2>1, <2>2, SumType, SumMonotone
    <2> QED
        BY <1>2, <2>3, <2>4
<1>7. Totals(d).backlog >= 0
    BY <1>2, ReviewedAreMade DEF Totals
<1> QED
    BY <1>4, <1>5, <1>6, <1>7 DEF Lines, ComputeKpis

\* The characters' backlogs add up to the whole.
LEMMA BacklogsAddUp ==
    ASSUME NEW d, IsSnapshot(d)
    PROVE  Totals(d).backlog = SumFunction([c \in Characters |-> CharacterLine(d, c).backlog])
<1> DEFINE reviewed == {r.outfit : r \in d.reviews}
           f == [c \in Characters |-> Cardinality({o \in d.outfits : CharacterOf[o] = c})]
           g == [c \in Characters |-> Cardinality({o \in reviewed : CharacterOf[o] = c})]
           b == [c \in Characters |-> CharacterLine(d, c).backlog]
<1>1. IsFiniteSet(Characters) /\ CharacterOf \in [Outfits -> Characters]
    BY PanelAssumption
<1>2. d.outfits \subseteq Outfits /\ IsFiniteSet(d.outfits)
    BY DEF IsSnapshot
<1>3. reviewed \subseteq d.outfits /\ IsFiniteSet(reviewed)
    BY ReviewedAreMade DEF IsSnapshot
<1>4. ASSUME NEW c \in Characters
      PROVE  /\ OfCharacter(d, c) = {o \in d.outfits : CharacterOf[o] = c}
             /\ ReviewedBy(d, People, c) = {o \in reviewed : CharacterOf[o] = c}
    BY DEF OfCharacter, ReviewedBy, IsSnapshot
<1>5. /\ f \in [Characters -> Int] /\ g \in [Characters -> Int] /\ b \in [Characters -> Int]
      /\ \A c \in Characters : b[c] = f[c] - g[c]
    <2>1. ASSUME NEW c \in Characters
          PROVE  f[c] \in Int /\ g[c] \in Int /\ b[c] = f[c] - g[c]
        <3>1. f[c] = Cardinality(OfCharacter(d, c)) /\ g[c] = Cardinality(ReviewedBy(d, People, c))
            BY <1>4
        <3>2. b[c] = Cardinality(OfCharacter(d, c)) - Cardinality(ReviewedBy(d, People, c))
            BY DEF CharacterLine, Line
        <3> QED
            BY <3>1, <3>2, ReviewedAreMade
    <2>2. \A c \in Characters : b[c] \in Int
        <3> HIDE DEF b, f, g
        <3> QED
            BY <2>1
    <2> QED
        BY <2>1, <2>2
<1>6. SumFunction(f) = Cardinality(d.outfits)
    BY <1>1, <1>2, SumOfParts
<1>7. SumFunction(g) = Cardinality(reviewed)
    <2> HIDE DEF reviewed
    <2> QED
        BY <1>1, <1>2, <1>3, SumOfParts
<1>8. SumFunction(b) = SumFunction(f) - SumFunction(g)
    <2> HIDE DEF f, g, b
    <2> QED
        BY <1>1, <1>5, SumDifference
<1>9. Totals(d).backlog = Cardinality(d.outfits) - Cardinality(reviewed)
    BY DEF Totals, Line
<1> QED
    BY <1>6, <1>7, <1>8, <1>9

\* A report that was read in order adds up.
LEMMA ReportKeeps ==
    ASSUME PanelInv, NEW k \in Slots, MakeReport(k)
    PROVE  PanelInv'
<1> DEFINE r == request[k]
<1>1. /\ Finish(k)
      /\ UNCHANGED <<granted, assigned, outfits, reviews, shared, unwatched, requests>>
      /\ kpis' = ComputeKpis(r)
    BY DEF MakeReport
<1>2. r \in Reporting
    BY RequestKinds DEF PanelInv, RequestsTyped, MakeReport
<1>3. IsSnapshot(r)
    <2>1. r.outfits \subseteq outfits /\ r.reviews \subseteq [outfit : outfits, by : People]
        BY <1>2 DEF Reporting, Reviews
    <2>2. r.outfits \subseteq Outfits /\ IsFiniteSet(r.outfits)
        BY <2>1, FS_Subset DEF PanelInv, PanelTypeOK
    <2>3. \A v \in r.reviews : v.outfit \in r.outfits
        BY DEF PanelInv, ReportInOrder, MakeReport
    <2> QED
        BY <2>1, <2>2, <2>3 DEF IsSnapshot
<1>4. ReportAddsUp'
    <2>1. /\ kpis'.totals = Totals(r)
          /\ \A c \in Characters : kpis'.characters[c] = CharacterLine(r, c)
        BY <1>1 DEF ComputeKpis
    <2>2. [c \in Characters |-> kpis'.characters[c].backlog]
              = [c \in Characters |-> CharacterLine(r, c).backlog]
        BY <2>1
    <2>3. kpis'.totals.backlog = SumFunction([c \in Characters |-> kpis'.characters[c].backlog])
        BY <1>3, <2>1, <2>2, BacklogsAddUp
    <2>4. \A line \in Lines(kpis') : line.backlog >= 0
        BY <1>1, <1>3, BacklogsAreNatural
    <2> QED
        BY <2>3, <2>4 DEF ReportAddsUp, Lines
<1>5. PanelTypeOK' /\ IsFiniteSet(outfits)'
    BY <1>1 DEF PanelInv, PanelTypeOK
<1>6. \A c \in Characters : ActiveFor(c)' = ActiveFor(c)
    BY <1>1 DEF ActiveFor
<1>7. Admins' = Admins
    BY <1>1 DEF Admins
<1> QED
    BY <1>1, <1>4, <1>5, <1>6, <1>7, FinishKeeps, OthersStand, AdminsStand DEF PanelInv

-----------------------------------------------------------------------------
(* Theorems                                                                 *)

\* A request begins with what it may do and has read.
LEMMA BeginningsKeep ==
    ASSUME PanelInv, NEW k \in Slots, NEW u \in People, NEW v \in People
    PROVE  /\ \A c \in Characters : StartAssign(k, u, c, v) => PanelInv'
           /\ \A c \in Characters : StartRevoke(k, u, c, v) => PanelInv'
           /\ \A role \in Roles : StartGrantRole(k, u, v, role) => PanelInv'
           /\ \A role \in Roles : StartRevokeRole(k, u, v, role) => PanelInv'
           /\ \A c \in Characters : StartStyling(k, u, c) => PanelInv'
           /\ \A o \in Outfits : StartReview(k, u, o) => PanelInv'
           /\ StartReport(k, u) => PanelInv'
<1>1. assigned \in [Characters -> [People -> Row]]
    BY DEF PanelInv, PanelTypeOK
<1>2. ASSUME NEW c \in Characters, StartAssign(k, u, c, v) PROVE PanelInv'
    <2>1. PICK exclusive \in BOOLEAN :
              Start(k, [op |-> "assign", on |-> c, to |-> v, exclusive |-> exclusive,
                        others |-> Others(c, v, exclusive), row |-> assigned[c][v],
                        alone |-> TRUE])
        BY <1>2 DEF StartAssign
    <2> DEFINE r == [op |-> "assign", on |-> c, to |-> v, exclusive |-> exclusive,
                     others |-> Others(c, v, exclusive), row |-> assigned[c][v], alone |-> TRUE]
    <2>2. r \in Requests
        <3>1. Others(c, v, exclusive) \subseteq People
            BY DEF Others, ActiveFor
        <3>2. r \in Assigning
            BY <1>1, <3>1 DEF Assigning
        <3> QED
            BY <3>2 DEF Requests
    <2>3. Begins(r)
        BY DEF Begins, Others
    <2> HIDE DEF r
    <2> QED
        BY <1>2, <2>1, <2>2, <2>3, StartKeeps DEF r, StartAssign
<1>3. ASSUME NEW c \in Characters, StartRevoke(k, u, c, v) PROVE PanelInv'
    <2> DEFINE r == [op |-> "revoke", on |-> c, to |-> v, row |-> assigned[c][v], alone |-> TRUE]
    <2>1. Start(k, r)
        BY <1>3 DEF StartRevoke
    <2>2. r \in Revoking
        BY <1>1 DEF Revoking
    <2>3. Begins(r)
        BY DEF Begins
    <2> HIDE DEF r
    <2> QED
        BY <1>3, <2>1, <2>2, <2>3, StartKeeps DEF StartRevoke, Requests
<1>4. ASSUME NEW role \in Roles, StartGrantRole(k, u, v, role) PROVE PanelInv'
    <2> DEFINE r == [op |-> "grant role", on |-> v, role |-> role, alone |-> TRUE]
    <2>1. Start(k, r)
        BY <1>4 DEF StartGrantRole
    <2>2. r \in Granting
        BY DEF Granting
    <2>3. Begins(r)
        BY DEF Begins
    <2> HIDE DEF r
    <2> QED
        BY <1>4, <2>1, <2>2, <2>3, StartKeeps DEF StartGrantRole, Requests
<1>5. ASSUME NEW role \in Roles, StartRevokeRole(k, u, v, role) PROVE PanelInv'
    <2> DEFINE r == [op |-> "revoke role", on |-> role, of |-> v, alone |-> TRUE]
    <2>1. Start(k, r)
        BY <1>5 DEF StartRevokeRole
    <2>2. r \in Withdrawing
        BY DEF Withdrawing
    <2>3. role = "admin" => u \in Admins \ {v}
        BY <1>5 DEF StartRevokeRole, RequireAdmin, RefusesRevocation
    <2>4. Begins(r)
        BY <2>3 DEF Begins
    <2> HIDE DEF r
    <2> QED
        BY <1>5, <2>1, <2>2, <2>4, StartKeeps DEF StartRevokeRole, Requests
<1>6. ASSUME NEW c \in Characters, StartStyling(k, u, c) PROVE PanelInv'
    <2> DEFINE r == [op |-> "style", on |-> c, alone |-> TRUE]
    <2>1. Start(k, r)
        BY <1>6 DEF StartStyling
    <2>2. r \in Styling
        BY DEF Styling
    <2>3. Begins(r)
        BY DEF Begins
    <2> HIDE DEF r
    <2> QED
        BY <1>6, <2>1, <2>2, <2>3, StartKeeps DEF StartStyling, Requests
<1>7. ASSUME NEW o \in Outfits, StartReview(k, u, o) PROVE PanelInv'
    <2> DEFINE r == [op |-> "review", on |-> [outfit |-> o, by |-> u], alone |-> TRUE]
    <2>1. Start(k, r) /\ o \in outfits
        BY <1>7 DEF StartReview
    <2>2. r \in Reviewing
        BY <2>1 DEF Reviewing, Reviews
    <2>3. Begins(r)
        BY DEF Begins
    <2> HIDE DEF r
    <2> QED
        BY <1>7, <2>1, <2>2, <2>3, StartKeeps DEF StartReview, Requests
<1>8. ASSUME StartReport(k, u) PROVE PanelInv'
    <2> DEFINE r == [op |-> "report", on |-> 1, assigned |-> assigned,
                     reviews |-> {}, outfits |-> {}, alone |-> TRUE]
    <2>1. Start(k, r)
        BY <1>8 DEF StartReport
    <2>2. r \in Reporting
        BY <1>1 DEF Reporting
    <2>3. Begins(r)
        BY DEF Begins
    <2> HIDE DEF r
    <2> QED
        BY <1>8, <2>1, <2>2, <2>3, StartKeeps DEF StartReport, Requests
<1> QED
    BY <1>2, <1>3, <1>4, <1>5, <1>6, <1>7, <1>8

\* The panel with nothing under way.
LEMMA PanelStarts == PanelInit => PanelInv
<1> SUFFICES ASSUME PanelInit PROVE PanelInv
    OBVIOUS
<1>1. /\ granted = FirstRoles /\ assigned = [c \in Characters |-> [u \in People |-> "none"]]
      /\ outfits = {} /\ reviews = {} /\ shared = {} /\ requests = 0
    BY DEF PanelInit
<1>2. \A k \in Slots : request[k] = Idle /\ request[k].op = "idle"
    BY DEF PanelInit, Idle
<1>3. RequestsTyped
    BY DEF PanelInit, RequestsTyped
<1>4. PanelTypeOK
    <2>1. FirstRoles \in [People -> SUBSET Roles] /\ MaxRequests \in Nat
        BY PanelAssumption
    <2>2. 0 \in 0..MaxRequests
        BY <2>1
    <2> QED
        BY <1>1, <2>1, <2>2 DEF PanelTypeOK, Row
<1>5. IsFiniteSet(outfits)
    BY <1>1, FS_EmptySet
<1>6. RivalsKnow /\ OthersAreAll /\ AnotherAdmin /\ ReportInOrder
    BY <1>2 DEF RivalsKnow, InTheWay, OthersAreAll, AnotherAdmin, ReportInOrder
<1>7. AtMostOne
    BY <1>1 DEF AtMostOne, ActiveFor
<1>8. AnAdminRemains
    BY <1>1, PanelAssumption DEF AnAdminRemains, Admins
<1>9. ReportAddsUp
    BY DEF PanelInit, ReportAddsUp, NoKpis
<1> QED
    BY <1>3, <1>4, <1>5, <1>6, <1>7, <1>8, <1>9 DEF PanelInv

\* Every step keeps what the panel promises.
THEOREM PanelInvariant == PanelSpec => []PanelInv
<1>1. PanelInit => PanelInv
    BY PanelStarts
<1>2. PanelInv /\ [PanelNext]_panelVars => PanelInv'
    <2> SUFFICES ASSUME PanelInv, [PanelNext]_panelVars PROVE PanelInv'
        OBVIOUS
    <2>1. CASE UNCHANGED panelVars
        <3>1. Requests' = Requests
            BY <2>1 DEF panelVars, Requests, Assigning, Revoking, Granting, Withdrawing,
                        Styling, Reviewing, Reporting, Reviews
        <3>2. RequestsTyped' /\ PanelTypeOK' /\ IsFiniteSet(outfits)'
            BY <2>1, <3>1 DEF panelVars, PanelInv, RequestsTyped, PanelTypeOK
        <3>3. RivalsKnow' /\ OthersAreAll' /\ AnotherAdmin' /\ ReportInOrder'
            BY <2>1 DEF panelVars, PanelInv, RivalsKnow, OthersAreAll, AnotherAdmin,
                        ReportInOrder, ActiveFor, Admins
        <3>4. AtMostOne' /\ AnAdminRemains' /\ ReportAddsUp'
            BY <2>1, ReportStands DEF panelVars, PanelInv, AtMostOne, AnAdminRemains,
                                      ActiveFor, Admins
        <3> QED
            BY <3>2, <3>3, <3>4 DEF PanelInv
    <2>2. ASSUME NEW k \in Slots,
                 \/ CommitAssign(k) \/ CommitRevoke(k) \/ CommitGrantRole(k)
                 \/ CommitRevokeRole(k) \/ CommitStyling(k) \/ CommitReview(k)
                 \/ ReadNext(k) \/ MakeReport(k)
          PROVE  PanelInv'
        BY <2>2, AssignKeeps, OtherCommitsKeep, WithdrawKeeps, ReadKeeps, ReportKeeps
    <2> QED
        BY <2>1, <2>2, BeginningsKeep DEF PanelNext
<1> QED
    BY <1>1, <1>2, PTL DEF PanelSpec

\* Every row and every count has its type.
THEOREM PanelTypeCorrect == PanelSpec => []PanelTypeOK
<1>1. PanelInv => PanelTypeOK
    BY DEF PanelInv
<1> QED
    BY <1>1, PanelInvariant, PTL

\* A character has two stylists only after an assignment that was not exclusive
\* or overlapped with another: an exclusive one that was alone ended everybody
\* else's assignment, those made since it began included.
THEOREM PanelExclusive == PanelSpec => []ExclusiveUnlessOverlapped
<1>1. PanelInv => ExclusiveUnlessOverlapped
    <2> SUFFICES ASSUME PanelInv, NEW c \in Characters \ shared
                 PROVE  ~(Cardinality(ActiveFor(c)) > 1)
        BY DEF ExclusiveUnlessOverlapped
    <2>1. ActiveFor(c) = {} \/ \E u : ActiveFor(c) = {u}
        BY DEF PanelInv, AtMostOne
    <2>2. Cardinality(ActiveFor(c)) \in {0, 1}
        BY <2>1, FS_EmptySet, FS_Singleton
    <2> QED
        BY <2>2
<1> QED
    BY <1>1, PanelInvariant, PTL

\* Nobody revokes their own admin role, so somebody can always grant it again,
\* unless two of its revocations overlapped.
THEOREM PanelKeepsAnAdmin == PanelSpec => []AnAdminRemains
<1>1. PanelInv => AnAdminRemains
    BY DEF PanelInv
<1> QED
    BY <1>1, PanelInvariant, PTL

\* However many outfits and reviews arrive between its three queries, a report
\* never shows more reviewed than made, and its characters add up to its totals.
THEOREM PanelReportAddsUp == PanelSpec => []ReportAddsUp
<1>1. PanelInv => ReportAddsUp
    BY DEF PanelInv
<1> QED
    BY <1>1, PanelInvariant, PTL

-----------------------------------------------------------------------------
(* What votes make of a pair: sums, in any order                            *)

\* A sum may be begun with any of its terms.
LEMMA AnyFirst ==
    ASSUME NEW S, IsFiniteSet(S), NEW f \in [S -> Int], NEW h, SumsUp(h, f, S)
    PROVE  \A T \in SUBSET S : \A x \in T : h[T] = f[x] + h[T \ {x}]
<1> DEFINE Good == {T \in SUBSET S : \A x \in T : h[T] = f[x] + h[T \ {x}]}
<1>1. {} \in Good
    OBVIOUS
<1>2. ASSUME NEW T \in SUBSET S, T # {}, \A x \in T : T \ {x} \in Good
      PROVE  T \in Good
    <2> DEFINE y == Pick(T)
    <2>1. y \in T /\ h[T] = f[y] + h[T \ {y}]
        BY <1>2 DEF SumsUp
    <2> HIDE DEF y
    <2>2. ASSUME NEW x \in T, x # y PROVE h[T] = f[x] + h[T \ {x}]
        <3> DEFINE U == (T \ {x}) \ {y}
        <3>1. U = (T \ {y}) \ {x} /\ U \in SUBSET S /\ x \in T \ {y} /\ y \in T \ {x}
            BY <2>1, <2>2
        <3>2. h[T \ {y}] = f[x] + h[U] /\ h[T \ {x}] = f[y] + h[U]
            BY <1>2, <2>1, <3>1
        <3>3. f[x] \in Int /\ f[y] \in Int /\ h[U] \in Int
            BY <1>2, <2>1, <3>1 DEF SumsUp
        <3> HIDE DEF U
        <3> QED
            BY <2>1, <3>2, <3>3
    <2>3. \A x \in T : h[T] = f[x] + h[T \ {x}]
        BY <2>1, <2>2
    <2> QED
        BY <2>3
<1>3. SUBSET S \subseteq Good
    <2> HIDE DEF Good
    <2> QED
        BY <1>1, <1>2, Subsets
<1> QED
    BY <1>3

\* A sum over more is the same sum and the new term.
LEMMA OneTermMore ==
    ASSUME NEW S, IsFiniteSet(S), NEW b, b \notin S,
           NEW f \in [S -> Int], NEW g \in [S \cup {b} -> Int],
           \A x \in S : g[x] = f[x]
    PROVE  SumFunction(g) = SumFunction(f) + g[b]
<1> DEFINE R == S \cup {b}
<1>1. IsFiniteSet(R)
    BY FS_AddElement
<1>2. PICK h : SumsUp(h, f, S)
    BY SumSteps
<1>3. PICK k : SumsUp(k, g, R)
    BY <1>1, SumSteps
<1> DEFINE Good == {T \in SUBSET S : h[T] = k[T]}
<1>4. {} \in Good
    BY <1>2, <1>3 DEF SumsUp
<1>5. ASSUME NEW T \in SUBSET S, T # {}, \A x \in T : T \ {x} \in Good
      PROVE  T \in Good
    <2> DEFINE x == Pick(T)
    <2>1. x \in T /\ x \in S /\ T \in SUBSET R
        BY <1>2, <1>5 DEF SumsUp
    <2>2. h[T] = f[x] + h[T \ {x}] /\ k[T] = g[x] + k[T \ {x}]
        BY <1>2, <1>3, <1>5, <2>1 DEF SumsUp
    <2>3. h[T \ {x}] = k[T \ {x}] /\ f[x] = g[x]
        BY <1>5, <2>1
    <2> QED
        BY <1>5, <2>2, <2>3
<1>6. SUBSET S \subseteq Good
    <2> HIDE DEF Good
    <2> QED
        BY <1>4, <1>5, Subsets
<1>7. R \ {b} = S /\ b \in R
    OBVIOUS
<1>8. k[R] = g[b] + k[S]
    BY <1>1, <1>3, <1>7, AnyFirst
<1>9. SumFunction(f) = h[S] /\ SumFunction(g) = k[R] /\ h[S] = k[S]
    BY <1>2, <1>3, <1>6 DEF SumsUp
<1>10. g[b] \in Int /\ h[S] \in Int
    BY <1>2 DEF SumsUp
<1> HIDE DEF R
<1> QED
    BY <1>8, <1>9, <1>10

\* A sum of natural numbers is one.
LEMMA SumNatural ==
    ASSUME NEW S, IsFiniteSet(S), NEW f \in [S -> Nat]
    PROVE  SumFunction(f) \in Nat
<1>1. f \in [S -> Int]
    OBVIOUS
<1>2. PICK h : SumsUp(h, f, S)
    BY <1>1, SumSteps
<1> DEFINE Good == {T \in SUBSET S : h[T] \in Nat}
<1>3. {} \in Good
    BY <1>2 DEF SumsUp
<1>4. ASSUME NEW T \in SUBSET S, T # {}, \A x \in T : T \ {x} \in Good
      PROVE  T \in Good
    <2> DEFINE x == Pick(T)
    <2>1. x \in T /\ h[T] = f[x] + h[T \ {x}]
        BY <1>2, <1>4 DEF SumsUp
    <2>2. f[x] \in Nat /\ h[T \ {x}] \in Nat
        BY <1>4, <2>1
    <2> HIDE DEF x
    <2>3. h[T] \in Nat
        BY <2>1, <2>2
    <2> QED
        BY <1>4, <2>3
<1>5. S \in Good
    <2> HIDE DEF Good
    <2> QED
        BY <1>3, <1>4, Subsets
<1> QED
    BY <1>2, <1>5 DEF SumsUp

\* A sum of numbers up to n.
LEMMA SumBounded ==
    ASSUME NEW S, IsFiniteSet(S), NEW n \in Nat, NEW f \in [S -> Int], \A x \in S : f[x] <= n
    PROVE  SumFunction(f) <= n * Cardinality(S)
<1>1. PICK h : SumsUp(h, f, S)
    BY SumSteps
<1>2. \A T \in SUBSET S : IsFiniteSet(T) /\ Cardinality(T) \in Nat
    BY FS_Subset, FS_CardinalityType
<1> DEFINE Good == {T \in SUBSET S : h[T] <= n * Cardinality(T)}
<1>3. {} \in Good
    BY <1>1, FS_EmptySet DEF SumsUp
<1>4. ASSUME NEW T \in SUBSET S, T # {}, \A x \in T : T \ {x} \in Good
      PROVE  T \in Good
    <2> DEFINE x == Pick(T)
               c == Cardinality(T \ {x})
    <2>1. x \in T /\ h[T] = f[x] + h[T \ {x}]
        BY <1>1, <1>4 DEF SumsUp
    <2>2. f[x] \in Int /\ f[x] <= n /\ h[T \ {x}] \in Int /\ h[T \ {x}] <= n * c
        BY <1>1, <1>4, <2>1 DEF SumsUp
    <2>3. c \in Nat /\ Cardinality(T) = c + 1
        BY <1>2, <2>1, FS_RemoveElement
    <2> HIDE DEF x, c
    <2>4. n * (c + 1) = n * c + n
        BY <2>3
    <2>5. h[T] <= n * Cardinality(T)
        BY <2>1, <2>2, <2>3, <2>4
    <2> QED
        BY <1>4, <2>5
<1>5. S \in Good
    <2> HIDE DEF Good
    <2> QED
        BY <1>3, <1>4, Subsets
<1> QED
    BY <1>1, <1>5 DEF SumsUp

\* A sum in which each of T is at least n.
LEMMA SumAtLeast ==
    ASSUME NEW S, IsFiniteSet(S), NEW f \in [S -> Nat], NEW n \in Nat,
           NEW T \in SUBSET S, \A x \in T : f[x] >= n
    PROVE  SumFunction(f) >= n * Cardinality(T)
<1>1. f \in [S -> Int]
    OBVIOUS
<1>2. PICK h : SumsUp(h, f, S)
    BY <1>1, SumSteps
<1>3. \A R \in SUBSET S : IsFiniteSet(R \cap T) /\ Cardinality(R \cap T) \in Nat
    BY FS_Subset, FS_CardinalityType
<1> DEFINE Good == {R \in SUBSET S : h[R] >= n * Cardinality(R \cap T)}
<1>4. {} \in Good
    <2>1. {} \cap T = {}
        OBVIOUS
    <2> QED
        BY <1>2, <2>1, FS_EmptySet DEF SumsUp
<1>5. ASSUME NEW R \in SUBSET S, R # {}, \A x \in R : R \ {x} \in Good
      PROVE  R \in Good
    <2> DEFINE x == Pick(R)
               c == Cardinality((R \ {x}) \cap T)
    <2>1. x \in R /\ h[R] = f[x] + h[R \ {x}]
        BY <1>2, <1>5 DEF SumsUp
    <2>2. f[x] \in Nat /\ h[R \ {x}] \in Int /\ h[R \ {x}] >= n * c
        BY <1>2, <1>5, <2>1 DEF SumsUp
    <2>3. c \in Nat /\ n * (c + 1) = n * c + n /\ n * c \in Nat
        BY <1>3
    <2>4. CASE x \in T
        <3>1. (R \cap T) \ {x} = (R \ {x}) \cap T
            OBVIOUS
        <3>2. Cardinality((R \cap T) \ {x}) = Cardinality(R \cap T) - 1
            BY <1>3, <2>1, <2>4, FS_RemoveElement
        <3>3. Cardinality(R \cap T) = c + 1
            <4> HIDE DEF x
            <4> DEFINE m == Cardinality(R \cap T)
            <4>1. c = m - 1 /\ m \in Nat
                BY <1>3, <3>1, <3>2
            <4> HIDE DEF c, m
            <4>2. m = c + 1
                BY <4>1
            <4> QED
                BY <4>2 DEF m
        <3>4. f[x] >= n
            BY <2>4
        <3> HIDE DEF x, c
        <3>5. h[R] >= n * Cardinality(R \cap T)
            BY <2>1, <2>2, <2>3, <3>3, <3>4
        <3> QED
            BY <1>5, <3>5
    <2>5. CASE x \notin T
        <3>1. R \cap T = (R \ {x}) \cap T
            BY <2>5
        <3>2. h[R] >= n * c
            <4> HIDE DEF x, c
            <4> QED
                BY <2>1, <2>2, <2>3
        <3> QED
            BY <1>5, <3>1, <3>2
    <2> QED
        BY <2>4, <2>5
<1>6. S \in Good
    <2> HIDE DEF Good
    <2> QED
        BY <1>4, <1>5, Subsets
<1>7. S \cap T = T
    OBVIOUS
<1> QED
    BY <1>2, <1>6, <1>7 DEF SumsUp

-----------------------------------------------------------------------------
(* Rounded scores                                                           *)

\* Products keep an order.
LEMMA Products ==
    ASSUME NEW x \in Int, NEW y \in Int, NEW z \in Nat, x <= y
    PROVE  x * z <= y * z
OBVIOUS

\* Rounding down keeps the order of two fractions.
LEMMA RoundedInOrder ==
    ASSUME NEW a \in Int, NEW p \in Nat \ {0}, NEW c \in Int, NEW q \in Nat \ {0},
           a * q <= c * p
    PROVE  a \div p <= c \div q
<1> DEFINE m == c \div q
           n == a \div p
<1>1. m \in Int /\ n \in Int
    OBVIOUS
<1>2. c < q * (m + 1)
    OBVIOUS
<1>3. p * n <= a
    OBVIOUS
<1> HIDE DEF m, n
<1>4. SUFFICES ASSUME n >= m + 1 PROVE FALSE
    BY <1>1 DEF m, n
<1>5. (m + 1) * p <= n * p
    BY <1>1, <1>4, Products
<1>6. (m + 1) * p <= a
    BY <1>1, <1>3, <1>5
<1>7. ((m + 1) * p) * q <= a * q
    BY <1>1, <1>6, Products
<1>8. (c + 1) * p <= (q * (m + 1)) * p
    BY <1>1, <1>2, Products
<1>9. (q * (m + 1)) * p = ((m + 1) * p) * q
    BY <1>1
<1>10. (c + 1) * p = c * p + p
    OBVIOUS
<1> QED
    BY <1>1, <1>7, <1>8, <1>9, <1>10

\* More partners, more weight.
LEMMA MorePartners ==
    ASSUME NEW n \in Nat \ {0}, NEW m \in Nat \ {0}, n <= m
    PROVE  (n * 1000) \div (n + 3) <= (m * 1000) \div (m + 3)
<1>1. (n * 1000) * (m + 3) <= (m * 1000) * (n + 3)
    <2>1. (n * 1000) * (m + 3) = (n * m) * 1000 + n * 3000
        OBVIOUS
    <2>2. (m * 1000) * (n + 3) = (n * m) * 1000 + m * 3000
        OBVIOUS
    <2> QED
        BY <2>1, <2>2
<1> DEFINE a == n * 1000
           c == m * 1000
           p == n + 3
           q == m + 3
<1>2. a \in Int /\ c \in Int /\ p \in Nat \ {0} /\ q \in Nat \ {0} /\ a * q <= c * p
    BY <1>1
<1> HIDE DEF a, c, p, q
<1>3. a \div p <= c \div q
    BY <1>2, RoundedInOrder
<1> QED
    BY <1>3 DEF a, c, p, q

Score(l, d, s, e, k) == (l * d - s * e) \div (l + s + k)

\* A score is a whole number.
LEMMA ScoreType ==
    ASSUME NEW l \in Nat, NEW d \in Nat, NEW s \in Nat, NEW e \in Nat, NEW k \in Nat \ {0}
    PROVE  Score(l, d, s, e, k) \in Int
<1>1. l * d - s * e \in Int /\ l + s + k \in Nat \ {0}
    OBVIOUS
<1>2. \A x \in Int : \A y \in Nat \ {0} : x \div y \in Int
    OBVIOUS
<1> QED
    BY <1>1, <1>2 DEF Score

\* A score rises with what is in its favour.
LEMMA ScoreRises ==
    ASSUME NEW l \in Nat, NEW m \in Nat, l <= m, NEW d \in Nat, NEW f \in Nat, d <= f,
           NEW s \in Nat, NEW e \in Nat, NEW k \in Nat \ {0}
    PROVE  Score(l, d, s, e, k) <= Score(m, f, s, e, k)
<1> DEFINE p == l + s + k
           q == m + s + k
           a == l * d - s * e
           c == m * d - s * e
           t == m * f - s * e
<1>1. p \in Nat \ {0} /\ q \in Nat \ {0} /\ a \in Int /\ c \in Int /\ t \in Int
    OBVIOUS
<1>2. c * p - a * q = (m - l) * (d * (s + k) + s * e)
    OBVIOUS
<1>3. (m - l) * (d * (s + k) + s * e) >= 0
    <2>1. d * (s + k) + s * e \in Nat /\ m - l \in Nat
        OBVIOUS
    <2> QED
        BY <2>1
<1>4. d * m <= f * m
    BY Products
<1>5. c <= t
    BY <1>4
<1> HIDE DEF p, q, a, c, t
<1>6. c * p <= t * p
    BY <1>1, <1>5, Products
<1>7. a * q <= t * p
    BY <1>1, <1>2, <1>3, <1>6
<1>8. a \div p <= t \div q
    BY <1>1, <1>7, RoundedInOrder
<1> QED
    BY <1>8 DEF Score, a, t, p, q

\* A score falls with what is held against it.
LEMMA ScoreFalls ==
    ASSUME NEW l \in Nat, NEW d \in Nat, NEW s \in Nat, NEW r \in Nat, s <= r,
           NEW e \in Nat, NEW f \in Nat, e <= f, NEW k \in Nat \ {0}
    PROVE  Score(l, d, r, f, k) <= Score(l, d, s, e, k)
<1> DEFINE p == l + s + k
           q == l + r + k
           a == l * d - s * e
           c == l * d - r * e
           t == l * d - r * f
<1>1. p \in Nat \ {0} /\ q \in Nat \ {0} /\ a \in Int /\ c \in Int /\ t \in Int
    OBVIOUS
<1>2. a * q - c * p = (r - s) * (e * (l + k) + l * d)
    OBVIOUS
<1>3. (r - s) * (e * (l + k) + l * d) >= 0
    <2>1. e * (l + k) + l * d \in Nat /\ r - s \in Nat
        OBVIOUS
    <2> QED
        BY <2>1
<1>4. e * r <= f * r
    BY Products
<1>5. t <= c
    BY <1>4
<1> HIDE DEF p, q, a, c, t
<1>6. t * p <= c * p
    BY <1>1, <1>5, Products
<1>7. t * p <= a * q
    BY <1>1, <1>2, <1>3, <1>6
<1>8. t \div q <= a \div p
    BY <1>1, <1>7, RoundedInOrder
<1> QED
    BY <1>8 DEF Score, a, t, p, q

-----------------------------------------------------------------------------
(* The weights of a vote                                                    *)

Parts == {"garment", "pair"}

\* What Factor multiplies: the products over the sets of D, in hundredths.
IsProduct(h, part, D) ==
    h = [s \in D |-> IF s = {} THEN 100
                     ELSE (h[s \ {Pick(s)}] * Chips[Pick(s)][part]) \div 100]

\* The products are defined, level by level of the size of the sets.
LEMMA ProductExists ==
    ASSUME NEW S, IsFiniteSet(S), NEW part
    PROVE  \E h : IsProduct(h, part, SUBSET S)
<1> DEFINE Level(k) == {T \in SUBSET S : Cardinality(T) <= k}
           Good == {k \in Nat : \E h : IsProduct(h, part, Level(k))}
<1>1. \A T \in SUBSET S : IsFiniteSet(T) /\ Cardinality(T) \in Nat
    BY FS_Subset, FS_CardinalityType
<1>2. 0 \in Good
    <2>1. \A T \in Level(0) : T = {}
        BY <1>1, FS_EmptySet
    <2>2. IsProduct([s \in Level(0) |-> 100], part, Level(0))
        BY <2>1 DEF IsProduct
    <2> QED
        BY <2>2
<1>3. ASSUME NEW k \in Nat, k \in Good PROVE k + 1 \in Good
    <2>1. PICK h : IsProduct(h, part, Level(k))
        BY <1>3
    <2> DEFINE n == [s \in Level(k + 1) |->
                        IF s = {} THEN 100
                        ELSE (h[s \ {Pick(s)}] * Chips[Pick(s)][part]) \div 100]
    <2>2. Level(k) \subseteq Level(k + 1)
        BY <1>1
    <2>3. \A s \in Level(k) :
              h[s] = IF s = {} THEN 100 ELSE (h[s \ {Pick(s)}] * Chips[Pick(s)][part]) \div 100
        BY <2>1 DEF IsProduct
    <2>4. \A s \in Level(k) : n[s] = h[s]
        BY <2>2, <2>3
    <2>5. ASSUME NEW s \in Level(k + 1), s # {} PROVE s \ {Pick(s)} \in Level(k)
        <3>1. Pick(s) \in s
            BY <2>5, PickIn
        <3>2. Cardinality(s \ {Pick(s)}) = Cardinality(s) - 1
            BY <1>1, <3>1, FS_RemoveElement
        <3> QED
            BY <1>1, <3>2
    <2>6. IsProduct(n, part, Level(k + 1))
        <3>1. ASSUME NEW s \in Level(k + 1)
              PROVE  n[s] = IF s = {} THEN 100
                            ELSE (n[s \ {Pick(s)}] * Chips[Pick(s)][part]) \div 100
            BY <2>4, <2>5
        <3> HIDE DEF Level
        <3> QED
            BY <3>1 DEF IsProduct
    <2>7. \E m : IsProduct(m, part, Level(k + 1))
        <3> HIDE DEF n, Level
        <3> QED
            BY <2>6
    <2> HIDE DEF n, Level
    <2> QED
        BY <2>7
<1>4. Nat \subseteq Good
    <2> HIDE DEF Good
    <2> QED
        BY <1>2, <1>3, NaturalNumbers
<1>5. Level(Cardinality(S)) = SUBSET S
    BY <1>1, FS_Subset
<1>6. Cardinality(S) \in Good
    BY <1>1, <1>4
<1> QED
    BY <1>5, <1>6

\* However many chips a vote has, its factor is between a tenth and two.
LEMMA FactorRange ==
    ASSUME NEW o \in Opinions, NEW part \in Parts
    PROVE  Factor(o, part) \in 10..200
<1> DEFINE S == {t \in o.tags : Chips[t].on = o.vote}
           h == CHOOSE h : IsProduct(h, part, SUBSET S)
<1>1. IsFiniteSet(S) /\ \A t \in S : Chips[t][part] \in Int
    <2>1. S \subseteq DOMAIN Chips
        BY ReputationAssumption
    <2>2. \A t \in DOMAIN Chips : Chips[t].garment \in Int /\ Chips[t].pair \in Int
        BY ReputationAssumption
    <2>3. part = "garment" \/ part = "pair"
        BY DEF Parts
    <2> QED
        BY <2>1, <2>2, <2>3, ReputationAssumption, FS_Subset
<1>2. IsProduct(h, part, SUBSET S)
    BY <1>1, ProductExists
<1>3. FoldSet(LAMBDA t, x : (x * Chips[t][part]) \div 100, 100, S) = h[S]
    BY DEF FoldSet, MapThenFoldSet, IsProduct, Pick
<1>7. Factor(o, part) = ClampFactor(h[S])
    BY <1>3 DEF Factor
<1> HIDE DEF h, S
<1> DEFINE Good == {T \in SUBSET S : h[T] \in Int}
<1>4. {} \in Good
    BY <1>2 DEF IsProduct
<1>5. ASSUME NEW T \in SUBSET S, T # {}, \A x \in T : T \ {x} \in Good
      PROVE  T \in Good
    <2>1. Pick(T) \in T
        BY <1>5, PickIn
    <2>2. h[T] = (h[T \ {Pick(T)}] * Chips[Pick(T)][part]) \div 100
        BY <1>2, <1>5 DEF IsProduct
    <2>3. h[T \ {Pick(T)}] \in Int /\ Chips[Pick(T)][part] \in Int
        BY <1>1, <1>5, <2>1
    <2>4. h[T] \in Int
        BY <2>2, <2>3
    <2> QED
        BY <1>5, <2>4
<1>6. h[S] \in Int
    <2> HIDE DEF Good
    <2>1. SUBSET S \subseteq Good
        BY <1>1, <1>4, <1>5, Subsets
    <2> QED
        BY <2>1 DEF Good
<1> QED
    BY <1>6, <1>7 DEF ClampFactor

\* Whatever is made of a comment: garments of the outfit, none blamed and praised.
Understood == [blamed : SUBSET Pieces, praised : SUBSET Pieces, together : SUBSET SUBSET Pieces]

LEMMA ReadingFacts ==
    ASSUME NEW o, NEW ids, ids \subseteq Pieces, NEW r \in ReadingsOf(o, ids)
    PROVE  /\ r \in Understood /\ r.blamed \subseteq ids /\ r.praised \subseteq ids
           /\ r.blamed \cap r.praised = {}
<1>1. \A raw : LET c == SanitizeExtraction(raw, ids) IN
          /\ c \in Understood /\ c.blamed \subseteq ids /\ c.praised \subseteq ids
          /\ c.blamed \cap c.praised = {}
    <2> TAKE raw
    <2>1. Unordered(ids) \subseteq SUBSET Pieces
        BY DEF Unordered
    <2> QED
        BY <2>1 DEF SanitizeExtraction, Understood
<1> QED
    BY <1>1 DEF ReadingsOf, NoReading, Understood

\* A garment's weight is at most two, and none if it was spoken of the other way.
LEMMA GarmentWeightRange ==
    ASSUME NEW o \in Opinions, NEW r, NEW g
    PROVE  /\ GarmentWeight(o, r, g) \in 0..200
           /\ g \in Same(r, o.vote) /\ g \notin Opposite(r, o.vote)
                  => GarmentWeight(o, r, g) = Factor(o, "garment")
<1>1. Factor(o, "garment") \in 10..200
    BY FactorRange DEF Parts
<1> QED
    BY <1>1 DEF GarmentWeight

\* A pair's weight is at most four, and two if the pair itself is to blame.
LEMMA PairWeightRange ==
    ASSUME NEW o \in Opinions, NEW r, NEW p, IsFiniteSet(p), Cardinality(p) <= 2
    PROVE  PairWeight(o, r, p) \in 0..(IF p \in r.together THEN 200 ELSE 400)
<1> DEFINE F == Factor(o, "pair")
           w == [g \in p |-> GarmentWeight(o, r, g)]
<1>1. F \in 10..200
    BY FactorRange DEF Parts
<1>2. SumFunction(w) \in 0..400
    <2>1. w \in [p -> Nat] /\ w \in [p -> Int] /\ \A g \in p : w[g] \in 0..200
        BY GarmentWeightRange
    <2> HIDE DEF w
    <2>2. SumFunction(w) \in Nat
        BY <2>1, SumNatural
    <2>3. SumFunction(w) <= 200 * Cardinality(p)
        BY <2>1, SumBounded
    <2>4. Cardinality(p) \in Nat
        BY FS_CardinalityType
    <2> QED
        BY <2>2, <2>3, <2>4
<1>3. PairWeight(o, r, p) = IF p \in r.together THEN ClampFactor(2 * F)
          ELSE IF \E g \in p : w[g] = 0 THEN 0 ELSE (F * SumFunction(w)) \div 200
    BY DEF PairWeight
<1> HIDE DEF F, w
<1>4. ClampFactor(2 * F) \in 0..200
    BY <1>1 DEF ClampFactor
<1>5. ASSUME NEW x \in 10..200, NEW y \in 0..400 PROVE (x * y) \div 200 \in 0..400
    <2> DEFINE z == x * y
    <2>1. x \in Nat /\ y \in Nat /\ x <= 200 /\ y <= 400
        OBVIOUS
    <2>2. z <= 200 * y
        BY <2>1, Products
    <2>3. z \in Nat
        BY <2>1
    <2> HIDE DEF z
    <2>4. z \div 200 \in Nat /\ z \div 200 <= y
        BY <2>1, <2>2, <2>3
    <2>5. z \div 200 \in 0..400
        BY <2>1, <2>4
    <2> QED
        BY <2>5 DEF z
<1>6. (F * SumFunction(w)) \div 200 \in 0..400
    BY <1>1, <1>2, <1>5
<1> QED
    BY <1>3, <1>4, <1>6

-----------------------------------------------------------------------------
(* The votes, and one more of them                                          *)

Weights == [garments : UNION {[S -> 0..200] : S \in SUBSET Pieces},
            pairs : UNION {[U -> 0..400] : U \in SUBSET SUBSET Pieces},
            counter : SUBSET Pieces]
VoteRow == [vote : {"up", "down"}, weight : Nat, ids : SUBSET Pieces, age : DOMAIN Decay,
            feedback : Understood, by : Weights]

\* A vote weighs the garments it was given for.
RowFits(b, row) ==
    /\ row.ids \subseteq Worn[b]
    /\ row.by.counter \subseteq row.ids
    /\ row.by.garments \in [row.ids -> 0..200]
    /\ \A p \in Unordered(row.ids) :
          row.by.pairs[p] \in 0..(IF p \in row.feedback.together THEN 200 ELSE 400)

ReputationInv ==
    /\ lasting \subseteq Pieces
    /\ book \in [Sources -> VoteRow \cup {NoVote}]
    /\ \A b \in Sources : book[b] # NoVote => RowFits(b, book[b])

\* A row is told from none.
LEMMA RowIsVote ==
    /\ NoVote \notin VoteRow
    /\ \A row \in VoteRow : row.vote \in {"up", "down"} /\ row # NoVote
<1>1. NoVote.vote = "none"
    BY DEF NoVote
<1>2. \A row \in VoteRow : row.vote \in {"up", "down"}
    BY DEF VoteRow
<1> QED
    BY <1>1, <1>2

\* A pair is at most two garments.
LEMMA PairsAreSmall ==
    ASSUME NEW S, NEW p \in Unordered(S)
    PROVE  p \subseteq S /\ IsFiniteSet(p) /\ Cardinality(p) <= 2
<1>1. PICK x \in S, y \in S : x # y /\ p = {x, y}
    BY DEF Unordered
<1>2. IsFiniteSet({x}) /\ Cardinality({x}) = 1
    BY FS_Singleton
<1>3. IsFiniteSet({x} \cup {y}) /\ Cardinality({x} \cup {y}) = 1 + 1
    BY <1>1, <1>2, FS_AddElement
<1>4. {x} \cup {y} = p
    BY <1>1
<1> QED
    BY <1>1, <1>3, <1>4

\* What a vote records is a row that fits.
LEMMA NewRowFits ==
    ASSUME NEW b \in Sources, NEW o \in Opinions, NEW ids \in SUBSET Worn[b],
           NEW r \in Understood, NEW age \in DOMAIN Decay, NEW row,
           row = [vote |-> o.vote, weight |-> o.weight, ids |-> ids, age |-> age,
                  feedback |-> r, by |-> DeriveVoteWeights(o, ids, r)]
    PROVE  row \in VoteRow /\ RowFits(b, row)
<1> DEFINE by == DeriveVoteWeights(o, ids, r)
<1>1. ids \subseteq Pieces /\ Unordered(ids) \subseteq SUBSET Pieces
    BY DEF Pieces, Unordered
<1>2. by.garments \in [ids -> 0..200] /\ by.counter \subseteq ids
    BY GarmentWeightRange DEF DeriveVoteWeights
<1>3. by.pairs = [p \in Unordered(ids) |-> PairWeight(o, r, p)]
    BY DEF DeriveVoteWeights
<1>4. \A p \in Unordered(ids) :
          PairWeight(o, r, p) \in 0..(IF p \in r.together THEN 200 ELSE 400)
    BY PairsAreSmall, PairWeightRange
<1>5. by.pairs \in [Unordered(ids) -> 0..400]
    BY <1>3, <1>4
<1>6. by = [garments |-> by.garments, pairs |-> by.pairs, counter |-> by.counter]
    BY DEF DeriveVoteWeights
<1> HIDE DEF by
<1>7. by \in Weights
    BY <1>1, <1>2, <1>5, <1>6 DEF Weights
<1>8. row \in VoteRow
    BY <1>1, <1>7, ReputationAssumption DEF VoteRow, by
<1>9. RowFits(b, row)
    BY <1>2, <1>3, <1>4 DEF RowFits, by
<1> QED
    BY <1>8, <1>9

\* One row changes, or none.
LEMMA RowsKeep ==
    ASSUME ReputationInv, lasting' \subseteq Pieces, NEW b \in Sources,
           NEW row \in VoteRow \cup {NoVote}, row # NoVote => RowFits(b, row),
           book' = [book EXCEPT ![b] = row]
    PROVE  ReputationInv'
BY DEF ReputationInv

LEMMA ReputationStep == ReputationInv /\ [ReputationNext]_reputationVars => ReputationInv'
<1> SUFFICES ASSUME ReputationInv, [ReputationNext]_reputationVars PROVE ReputationInv'
    OBVIOUS
<1>1. CASE UNCHANGED reputationVars
    BY <1>1 DEF reputationVars, ReputationInv, RowFits
<1>2. ASSUME NEW b \in Sources, RecordOutfitVote(b), UNCHANGED lasting PROVE ReputationInv'
    <2> DEFINE left == Worn[b] \cap lasting
               ids == IF left = {} /\ book[b] # NoVote THEN book[b].ids ELSE left
               age == IF book[b] = NoVote THEN 1 ELSE book[b].age
    <2>8. PICK o \in Opinions : \E r \in ReadingsOf(o, left) :
            book' = [book EXCEPT ![b] =
               [vote |-> o.vote, weight |-> o.weight, ids |-> ids, age |-> age,
                feedback |-> r, by |-> DeriveVoteWeights(o, ids, r)]]
        BY <1>2 DEF RecordOutfitVote
    <2>1. PICK r \in ReadingsOf(o, left) :
            book' = [book EXCEPT ![b] =
               [vote |-> o.vote, weight |-> o.weight, ids |-> ids, age |-> age,
                feedback |-> r, by |-> DeriveVoteWeights(o, ids, r)]]
        BY <2>8
    <2>2. book[b] # NoVote => book[b] \in VoteRow /\ RowFits(b, book[b])
        BY DEF ReputationInv
    <2>3. ids \in SUBSET Worn[b]
        BY <2>2 DEF RowFits
    <2>4. age \in DOMAIN Decay
        BY <2>2, ReputationAssumption DEF VoteRow
    <2>5. left \subseteq Pieces
        BY DEF Pieces
    <2> HIDE DEF left, ids, age
    <2>6. r \in Understood
        BY <2>5, ReadingFacts
    <2>7. ReputationInv'
        BY <1>2, <2>1, <2>3, <2>4, <2>6, NewRowFits, RowsKeep DEF ReputationInv
    <2> QED
        BY <2>7
<1>3. ASSUME NEW b \in Sources, WithdrawVote(b), UNCHANGED lasting PROVE ReputationInv'
    BY <1>3, RowsKeep DEF WithdrawVote, ReputationInv
<1>4. CASE TimePasses
    <2>1. /\ book' = [b \in Sources |-> Grown(book[b])] /\ lasting' = lasting
          /\ \A b \in Sources : book[b] # NoVote => book'[b].age <= Len(Decay)
        BY <1>4 DEF TimePasses
    <2>2. ASSUME NEW b \in Sources
          PROVE  /\ book'[b] \in VoteRow \cup {NoVote}
                 /\ book'[b] # NoVote => RowFits(b, book'[b])
        <3>1. CASE book[b] = NoVote
            BY <2>1, <3>1 DEF Grown
        <3>2. CASE book[b] # NoVote
            <4>1. book[b] \in VoteRow /\ RowFits(b, book[b])
                BY <3>2 DEF ReputationInv
            <4>2. book'[b] = [book[b] EXCEPT !.age = @ + 1]
                BY <2>1, <3>2 DEF Grown
            <4>3. book[b].age + 1 \in DOMAIN Decay
                BY <2>1, <3>2, <4>1, <4>2, ReputationAssumption DEF VoteRow
            <4>4. book'[b] \in VoteRow
                BY <4>1, <4>2, <4>3 DEF VoteRow
            <4>5. RowFits(b, book'[b])
                BY <4>1, <4>2 DEF VoteRow, RowFits
            <4> QED
                BY <4>4, <4>5
        <3> QED
            BY <3>1, <3>2
    <2>3. book' \in [Sources -> VoteRow \cup {NoVote}]
        BY <2>1, <2>2
    <2> QED
        BY <2>1, <2>2, <2>3 DEF ReputationInv
<1>5. ASSUME NEW g \in Mortal, PieceDeleted(g) PROVE ReputationInv'
    BY <1>5 DEF PieceDeleted, ReputationInv, RowFits
<1> QED
    BY <1>1, <1>2, <1>3, <1>4, <1>5 DEF ReputationNext

LEMMA ReputationBegins == ReputationInit => ReputationInv
BY DEF ReputationInit, ReputationInv

\* The rows of votes keep their types: whatever chips and readings, a garment's
\* weight is at most two, and a vote weighs the garments it was given for.
THEOREM ReputationTypeCorrect == ReputationSpec => []ReputationTypeOK
<1>1. ReputationInv => ReputationTypeOK
    BY DEF ReputationInv, ReputationTypeOK, RowFits, VoteRow, Votes
<1> QED
    BY <1>1, ReputationBegins, ReputationStep, PTL DEF ReputationSpec

-----------------------------------------------------------------------------
(* What a first vote does to a garment's score                              *)

Ways == {"up", "down"}

\* What is said of every garment, either way.
EvidenceCounts ==
    \A g \in Pieces : \A v \in Ways :
        /\ IsFiniteSet(GarmentVotes(g, v)) /\ IsFiniteSet(Partners(g, v))
        /\ \A c \in GarmentVotes(g, v) : OnGarment(c, g) \in Nat
        /\ GarmentEvidence(g, v) \in Nat
        /\ Diversity(g, v) \in Nat

\* The pieces are finitely many.
LEMMA PiecesAreFinite == IsFiniteSet(Pieces)
<1> DEFINE Of(T) == UNION {Worn[b] : b \in T}
           Good == {T \in SUBSET Sources : IsFiniteSet(Of(T))}
<1>1. {} \in Good
    <2>1. Of({}) = {}
        OBVIOUS
    <2> QED
        BY <2>1, FS_EmptySet
<1>2. ASSUME NEW T \in SUBSET Sources, T # {}, \A x \in T : T \ {x} \in Good
      PROVE  T \in Good
    <2>1. PICK x \in T : TRUE
        BY <1>2
    <2>2. IsFiniteSet(Of(T \ {x})) /\ IsFiniteSet(Worn[x])
        BY <1>2, <2>1, ReputationAssumption
    <2>3. Of(T) = Of(T \ {x}) \cup Worn[x]
        BY <2>1
    <2> HIDE DEF Of
    <2>4. IsFiniteSet(Of(T))
        BY <2>2, <2>3, FS_Union
    <2> QED
        BY <1>2, <2>4
<1>3. SUBSET Sources \subseteq Good
    <2> HIDE DEF Good
    <2> QED
        BY <1>1, <1>2, ReputationAssumption, Subsets
<1> QED
    BY <1>3 DEF Pieces

\* A vote says so much of a garment, and never less than nothing.
LEMMA OnGarmentNatural ==
    ASSUME ReputationInv, NEW c \in Votes, NEW g
    PROVE  OnGarment(c, g) \in Nat
<1>1. book[c] \in VoteRow /\ RowFits(c, book[c]) /\ c \in Sources
    BY DEF Votes, ReputationInv
<1> DEFINE x == book[c].weight
           y == Left(c)
           z == IF g \in book[c].by.counter THEN 100 ELSE book[c].by.garments[g]
<1>2. x \in Nat
    BY <1>1 DEF VoteRow
<1>3. y \in Nat
    BY <1>1, ReputationAssumption DEF VoteRow, Left
<1>4. g \in book[c].ids => z \in Nat
    BY <1>1 DEF RowFits
<1>5. OnGarment(c, g) = IF g \notin book[c].ids THEN 0 ELSE (x * y) * z
    BY DEF OnGarment, Amount
<1> HIDE DEF x, y, z
<1>6. \A m \in Nat, n \in Nat : m * n \in Nat
    OBVIOUS
<1> QED
    BY <1>2, <1>3, <1>4, <1>5, <1>6

\* So the evidence can be added up, and the partners counted.
LEMMA EvidenceIsNatural == ReputationInv => EvidenceCounts
<1> SUFFICES ASSUME ReputationInv, NEW g \in Pieces, NEW v \in Ways
             PROVE  /\ IsFiniteSet(GarmentVotes(g, v)) /\ IsFiniteSet(Partners(g, v))
                    /\ \A c \in GarmentVotes(g, v) : OnGarment(c, g) \in Nat
                    /\ GarmentEvidence(g, v) \in Nat
                    /\ Diversity(g, v) \in Nat
    BY DEF EvidenceCounts
<1>1. GarmentVotes(g, v) \subseteq Sources
    BY DEF GarmentVotes, Votes
<1>2. IsFiniteSet(GarmentVotes(g, v))
    BY <1>1, ReputationAssumption, FS_Subset
<1>3. Partners(g, v) \subseteq Pieces
    <2>1. \A c \in GarmentVotes(g, v) : book[c].ids \subseteq Pieces
        BY DEF GarmentVotes, Votes, ReputationInv, RowFits, Pieces
    <2> QED
        BY <2>1 DEF Partners
<1>4. IsFiniteSet(Partners(g, v))
    BY <1>3, PiecesAreFinite, FS_Subset
<1>5. \A c \in GarmentVotes(g, v) : OnGarment(c, g) \in Nat
    BY OnGarmentNatural DEF GarmentVotes
<1>6. GarmentEvidence(g, v) \in Nat
    <2> DEFINE f == [c \in GarmentVotes(g, v) |-> OnGarment(c, g)]
    <2>1. f \in [GarmentVotes(g, v) -> Nat]
        BY <1>5
    <2>2. SumFunction(f) \in Nat
        BY <1>2, <2>1, SumNatural
    <2> QED
        BY <2>2 DEF GarmentEvidence
<1>7. Diversity(g, v) \in Nat
    <2> DEFINE n == Cardinality(Partners(g, v)) + 1
    <2>1. n \in Nat
        BY <1>4, FS_CardinalityType
    <2>2. Diversity(g, v) = (n * 1000) \div (n + 3)
        BY DEF Diversity
    <2> HIDE DEF n
    <2> QED
        BY <2>1, <2>2
<1> QED
    BY <1>2, <1>4, <1>5, <1>6, <1>7

\* The other votes are what they were, and the new one is heard one way only.
LEMMA OneVoteMore ==
    ASSUME ReputationInv, ReputationInv', NEW b \in Sources, book[b] = NoVote,
           \A c \in Sources \ {b} : book'[c] = book[c],
           NEW g \in Pieces, NEW v \in Ways
    PROVE  /\ Polarity(b, g)' # v => /\ GarmentEvidence(g, v)' = GarmentEvidence(g, v)
                                     /\ Diversity(g, v)' = Diversity(g, v)
           /\ GarmentEvidence(g, v) <= GarmentEvidence(g, v)'
           /\ Diversity(g, v) <= Diversity(g, v)'
<1> DEFINE S == GarmentVotes(g, v)
           T == GarmentVotes(g, v)'
           f == [c \in S |-> OnGarment(c, g)]
           k == [c \in T |-> OnGarment(c, g)']
           m == Cardinality(Partners(g, v)) + 1
           n == Cardinality(Partners(g, v)') + 1
<1>1. b \notin S /\ S \subseteq Sources /\ T \subseteq Sources
    BY DEF GarmentVotes, Votes
<1>2. \A c \in Sources \ {b} : OnGarment(c, g)' = OnGarment(c, g)
    BY DEF OnGarment, Amount, Left
<1>3. \A c \in Sources \ {b} : Polarity(c, g)' = Polarity(c, g)
    BY DEF Polarity
<1>4. \A c \in Sources \ {b} : c \in Votes' <=> c \in Votes
    BY DEF Votes
<1>5. T = S \/ T = S \cup {b}
    <2>1. \A c \in Sources \ {b} : c \in T <=> c \in S
        BY <1>2, <1>3, <1>4 DEF GarmentVotes
    <2> QED
        BY <1>1, <2>1
<1>6. Polarity(b, g)' # v => T = S
    <2>1. b \in T => Polarity(b, g)' = v
        BY DEF GarmentVotes
    <2> QED
        BY <1>5, <2>1
<1>7. EvidenceCounts /\ EvidenceCounts'
    <2>1. ReputationInv' => EvidenceCounts'
        BY EvidenceIsNatural, PTL
    <2> QED
        BY <2>1, EvidenceIsNatural
<1>8. /\ IsFiniteSet(S) /\ IsFiniteSet(Partners(g, v)) /\ IsFiniteSet(Partners(g, v)')
      /\ f \in [S -> Nat] /\ k \in [T -> Nat]
    BY <1>7 DEF EvidenceCounts
<1>9. GarmentEvidence(g, v) = SumFunction(f) /\ GarmentEvidence(g, v)' = SumFunction(k)
    BY DEF GarmentEvidence
<1>10. GarmentEvidence(g, v) \in Nat /\ GarmentEvidence(g, v)' \in Nat
    BY <1>7 DEF EvidenceCounts
<1>11. \A c \in S : k[c] = f[c]
    BY <1>1, <1>2, <1>5
<1>12. T = S => k = f
    BY <1>8, <1>11
<1>13. T = S \cup {b} => GarmentEvidence(g, v) <= GarmentEvidence(g, v)'
    <2> SUFFICES ASSUME T = S \cup {b} PROVE GarmentEvidence(g, v) <= GarmentEvidence(g, v)'
        OBVIOUS
    <2>1. k[b] \in Nat /\ f \in [S -> Int] /\ k \in [S \cup {b} -> Int]
        BY <1>8
    <2> HIDE DEF f, k, S, T
    <2>2. SumFunction(k) = SumFunction(f) + k[b]
        BY <1>1, <1>8, <1>11, <2>1, OneTermMore
    <2> QED
        BY <1>9, <1>10, <2>1, <2>2
<1>14. Partners(g, v) \subseteq Partners(g, v)' /\ (T = S => Partners(g, v)' = Partners(g, v))
    <2> DEFINE With(c) == {h \in book[c].ids \ book[c].by.counter : book[c].by.garments[h] > 0} \ {g}
               Then(c) == {h \in book'[c].ids \ book'[c].by.counter : book'[c].by.garments[h] > 0} \ {g}
    <2>1. Partners(g, v) = UNION {With(c) : c \in S} /\ Partners(g, v)' = UNION {Then(c) : c \in T}
        BY DEF Partners
    <2>2. \A c \in S : With(c) = Then(c)
        BY <1>1
    <2> HIDE DEF With, Then, S, T
    <2> QED
        BY <1>5, <2>1, <2>2
<1>15. m \in Nat \ {0} /\ n \in Nat \ {0} /\ m <= n /\ (T = S => m = n)
    <2>1. Cardinality(Partners(g, v)) \in Nat /\ Cardinality(Partners(g, v)') \in Nat
        BY <1>8, FS_CardinalityType
    <2>2. Cardinality(Partners(g, v)) <= Cardinality(Partners(g, v)')
        BY <1>8, <1>14, FS_Subset
    <2> QED
        BY <1>14, <2>1, <2>2
<1>16. Diversity(g, v) = (m * 1000) \div (m + 3) /\ Diversity(g, v)' = (n * 1000) \div (n + 3)
    BY DEF Diversity
<1> HIDE DEF S, T, f, k, m, n
<1>17. Diversity(g, v) <= Diversity(g, v)' /\ (T = S => Diversity(g, v)' = Diversity(g, v))
    BY <1>15, <1>16, MorePartners
<1> QED
    BY <1>5, <1>6, <1>9, <1>10, <1>12, <1>13, <1>17

\* A first vote is heard of a garment the way its comment speaks of it.
LEMMA HeardAsMeant ==
    ASSUME ReputationInv, ReputationNext, NEW b \in Sources, FirstVote(b)
    PROVE  /\ \A c \in Sources \ {b} : book'[c] = book[c]
           /\ \A g \in book'[b].feedback.praised : g \in Pieces /\ Polarity(b, g)' = "up"
           /\ \A g \in book'[b].feedback.blamed : g \in Pieces /\ Polarity(b, g)' = "down"
<1> DEFINE ids == Worn[b] \cap lasting
<1>1. book[b] = NoVote /\ book'[b] # NoVote
    BY DEF FirstVote
<1>2. RecordOutfitVote(b)
    <2>1. ~TimePasses
        BY <1>1 DEF TimePasses, Grown
    <2>2. \A g : ~PieceDeleted(g)
        BY <1>1 DEF PieceDeleted
    <2>3. \A c \in Sources : WithdrawVote(c) => c # b /\ book'[b] = book[b]
        BY <1>1 DEF WithdrawVote, ReputationInv
    <2>4. \A c \in Sources : RecordOutfitVote(c) => c = b \/ book'[b] = book[b]
        BY DEF RecordOutfitVote, ReputationInv
    <2> QED
        BY <1>1, <2>1, <2>2, <2>3, <2>4 DEF ReputationNext
<1>3. PICK o \in Opinions : \E r \in ReadingsOf(o, ids) :
        book' = [book EXCEPT ![b] =
           [vote |-> o.vote, weight |-> o.weight, ids |-> ids, age |-> 1,
            feedback |-> r, by |-> DeriveVoteWeights(o, ids, r)]]
    BY <1>1, <1>2 DEF RecordOutfitVote
<1>4. PICK r \in ReadingsOf(o, ids) :
        book' = [book EXCEPT ![b] =
           [vote |-> o.vote, weight |-> o.weight, ids |-> ids, age |-> 1,
            feedback |-> r, by |-> DeriveVoteWeights(o, ids, r)]]
    BY <1>3
<1>5. \A c \in Sources \ {b} : book'[c] = book[c]
    BY <1>4 DEF ReputationInv
<1>6. /\ book'[b].feedback = r /\ book'[b].vote = o.vote
      /\ book'[b].by.counter = Opposite(r, o.vote) \cap ids
    BY <1>4 DEF ReputationInv, DeriveVoteWeights
<1>7. ids \subseteq Pieces
    BY DEF Pieces
<1>8. r.blamed \subseteq ids /\ r.praised \subseteq ids /\ r.blamed \cap r.praised = {}
    BY <1>7, ReadingFacts
<1>9. o.vote \in Ways
    BY ReputationAssumption DEF Ways
<1> HIDE DEF ids
<1>10. \A g \in r.praised : Polarity(b, g)' = "up"
    BY <1>6, <1>8, <1>9 DEF Polarity, Opposite, Other, Ways
<1>11. \A g \in r.blamed : Polarity(b, g)' = "down"
    BY <1>6, <1>8, <1>9 DEF Polarity, Opposite, Other, Ways
<1> QED
    BY <1>5, <1>6, <1>7, <1>8, <1>10, <1>11

\* What the scores are divided by is more than nothing.
LEMMA PriorIsPositive == 3 * Unit \in Nat \ {0}
BY DEF Unit

\* A garment's standing is a score of the evidence for and against it.
LEMMA StandingIsScore ==
    ASSUME NEW g
    PROVE  /\ GarmentSigned(g) = Score(GarmentEvidence(g, "up"), Diversity(g, "up"),
                                       GarmentEvidence(g, "down"), Diversity(g, "down"), 3 * Unit)
           /\ GarmentSigned(g)' = Score(GarmentEvidence(g, "up")', Diversity(g, "up")',
                                        GarmentEvidence(g, "down")', Diversity(g, "down")', 3 * Unit)
BY DEF GarmentSigned, Score

\* A first vote never lowers the standing of a piece that its comment praises,
\* nor raises one that it blames: the vote is heard one way, the evidence and
\* the partners of that way grow, and the score is monotone in both.
THEOREM PraiseNeverHurts == ReputationSpec => PraiseIsNotBlame
<1>1. ASSUME ReputationInv, ReputationInv', ReputationNext, NEW b \in Sources, FirstVote(b),
             NEW g \in Pieces
      PROVE  /\ Polarity(b, g)' = "up" => GarmentSigned(g)' >= GarmentSigned(g)
             /\ Polarity(b, g)' = "down" => GarmentSigned(g)' <= GarmentSigned(g)
    <2>1. book[b] = NoVote /\ \A c \in Sources \ {b} : book'[c] = book[c]
        BY <1>1, HeardAsMeant DEF FirstVote
    <2> DEFINE l == GarmentEvidence(g, "up")
               d == Diversity(g, "up")
               s == GarmentEvidence(g, "down")
               e == Diversity(g, "down")
               k == 3 * Unit
    <2>2. EvidenceCounts /\ EvidenceCounts'
        <3>1. ReputationInv' => EvidenceCounts'
            BY EvidenceIsNatural, PTL
        <3> QED
            BY <1>1, <3>1, EvidenceIsNatural
    <2>3. l \in Nat /\ d \in Nat /\ s \in Nat /\ e \in Nat
        BY <2>2 DEF EvidenceCounts, Ways
    <2>4. l' \in Nat /\ d' \in Nat /\ s' \in Nat /\ e' \in Nat
        BY <2>2 DEF EvidenceCounts, Ways
    <2>5. /\ l <= l' /\ d <= d' /\ s <= s' /\ e <= e'
          /\ Polarity(b, g)' = "up" => s' = s /\ e' = e
          /\ Polarity(b, g)' = "down" => l' = l /\ d' = d
        BY <1>1, <2>1, OneVoteMore DEF Ways
    <2>6. k \in Nat \ {0}
        BY PriorIsPositive
    <2>7. /\ GarmentSigned(g) = Score(l, d, s, e, k)
          /\ GarmentSigned(g)' = Score(l', d', s', e', k)
        BY StandingIsScore
    <2> HIDE DEF l, d, s, e, k
    <2>8. Score(l, d, s, e, k) \in Int /\ Score(l', d', s', e', k) \in Int
        BY <2>3, <2>4, <2>6, ScoreType
    <2>9. ASSUME Polarity(b, g)' = "up" PROVE Score(l, d, s, e, k) <= Score(l', d', s', e', k)
        BY <2>3, <2>4, <2>5, <2>6, <2>9, ScoreRises
    <2>10. ASSUME Polarity(b, g)' = "down" PROVE Score(l', d', s', e', k) <= Score(l, d, s, e, k)
        BY <2>3, <2>4, <2>5, <2>6, <2>10, ScoreFalls
    <2> QED
        BY <2>7, <2>8, <2>9, <2>10
<1>2. ASSUME ReputationInv, ReputationInv', ReputationNext, NEW b \in Sources, FirstVote(b)
      PROVE  /\ \A g \in book'[b].feedback.praised : GarmentSigned(g)' >= GarmentSigned(g)
             /\ \A g \in book'[b].feedback.blamed : GarmentSigned(g)' <= GarmentSigned(g)
    BY <1>1, <1>2, HeardAsMeant
<1>3. ReputationInv /\ ReputationInv' /\ [ReputationNext]_reputationVars =>
        [\A b \in Sources : FirstVote(b) =>
          /\ \A g \in book'[b].feedback.praised : GarmentSigned(g)' >= GarmentSigned(g)
          /\ \A g \in book'[b].feedback.blamed : GarmentSigned(g)' <= GarmentSigned(g)]_reputationVars
    BY <1>2
<1> QED
    BY <1>3, ReputationBegins, ReputationStep, PTL DEF ReputationSpec, PraiseIsNotBlame

-----------------------------------------------------------------------------
(* What time does to a pair's score                                         *)

\* Every step of an exponential decay leaves the same share.
LEMMA DecayFacts ==
    /\ Len(Decay) \in Nat /\ DOMAIN Decay = 1..Len(Decay)
    /\ \A i \in 1..Len(Decay) : Decay[i] \in Nat
    /\ Len(Decay) >= 2 => Decay[2] \in 1..100
    /\ \A i \in 1..Len(Decay) : i + 1 \in 2..Len(Decay) => Decay[i + 1] * 100 = Decay[2] * Decay[i]
<1>1. Decay \in Seq(Nat) /\ Decay[1] = 100
    BY ReputationAssumption
<1>2. Len(Decay) \in Nat /\ DOMAIN Decay = 1..Len(Decay)
    BY <1>1
<1>3. \A i \in 1..Len(Decay) : Decay[i] \in Nat
    BY <1>1, <1>2
<1>4. Len(Decay) >= 2 => Decay[2] \in 1..100
    <2>1. 2 - 1 = 1 /\ (Len(Decay) >= 2 => 2 \in 2..Len(Decay))
        BY <1>2
    <2>2. \A i \in 2..Len(Decay) : Decay[i] \in 1..Decay[i - 1]
        BY ReputationAssumption
    <2>3. Len(Decay) >= 2 => Decay[2] \in 1..Decay[2 - 1]
        BY <2>1, <2>2
    <2> QED
        BY <1>1, <2>1, <2>3
<1>5. ASSUME NEW i \in 1..Len(Decay), i + 1 \in 2..Len(Decay)
      PROVE  Decay[i + 1] * 100 = Decay[2] * Decay[i]
    <2>1. 2 \in 2..Len(Decay) /\ 2 - 1 = 1 /\ (i + 1) - 1 = i
        BY <1>2, <1>5
    <2>2. \A j, k \in 2..Len(Decay) : Decay[j] * Decay[k - 1] = Decay[k] * Decay[j - 1]
        BY ReputationAssumption
    <2>3. Decay[i + 1] * Decay[2 - 1] = Decay[2] * Decay[(i + 1) - 1]
        BY <1>5, <2>1, <2>2
    <2> QED
        BY <1>1, <2>1, <2>3
<1> QED
    BY <1>2, <1>3, <1>4, <1>5

\* The weight of a pair is a natural number.
LEMMA PairWeighs ==
    ASSUME NEW b, NEW row, RowFits(b, row), NEW p \in Unordered(row.ids)
    PROVE  row.by.pairs[p] \in Nat
<1> DEFINE z == row.by.pairs[p]
           n == IF p \in row.feedback.together THEN 200 ELSE 400
<1>1. z \in 0..n /\ n \in Nat
    BY DEF RowFits
<1> HIDE DEF z, n
<1>2. z \in Nat
    BY <1>1
<1> QED
    BY <1>2 DEF z

\* What a vote says of a pair is a natural number.
LEMMA OnPairNatural ==
    ASSUME ReputationInv, NEW c \in Votes, NEW pair
    PROVE  OnPair(c, pair) \in Nat
<1>1. book[c] \in VoteRow /\ RowFits(c, book[c]) /\ c \in Sources
    BY DEF Votes, ReputationInv
<1> DEFINE x == book[c].weight
           y == Left(c)
           z == book[c].by.pairs[pair]
           held == pair \in Unordered(book[c].ids \ book[c].by.counter)
<1>2. x \in Nat
    BY <1>1 DEF VoteRow
<1>3. y \in Nat
    BY <1>1, ReputationAssumption DEF VoteRow, Left
<1>4. held => z \in Nat
    <2>1. held => pair \in Unordered(book[c].ids)
        BY DEF Unordered
    <2>2. pair \in Unordered(book[c].ids) => z \in Nat
        BY <1>1, PairWeighs
    <2> QED
        BY <2>1, <2>2
<1>5. OnPair(c, pair) = IF held THEN (x * y) * z ELSE 0
    BY DEF OnPair, Amount
<1> HIDE DEF x, y, z, held
<1>6. \A m \in Nat, n \in Nat : m * n \in Nat
    OBVIOUS
<1> QED
    BY <1>2, <1>3, <1>4, <1>5, <1>6

PairCounts == \A c \in Votes : \A pair \in Unordered(Pieces) : OnPair(c, pair) \in Nat

LEMMA PairsAreNatural == ReputationInv => PairCounts
BY OnPairNatural DEF PairCounts

\* A step of time leaves the same share of what every vote says.
LEMMA AllFadeAlike ==
    ASSUME ReputationInv, TimePasses, NEW c \in Votes, NEW pair
    PROVE  /\ Len(Decay) >= 2 /\ c \in Votes' /\ book'[c].vote = book[c].vote
           /\ OnPair(c, pair) \in Nat /\ OnPair(c, pair)' * 100 = OnPair(c, pair) * Decay[2]
<1>1. c \in Sources /\ book[c] # NoVote /\ book[c].ids # {}
    BY DEF Votes
<1>2. book[c] \in VoteRow
    BY <1>1 DEF ReputationInv
<1>3. book'[c] = [book[c] EXCEPT !.age = @ + 1]
    BY <1>1 DEF TimePasses, Grown
<1>4. /\ book'[c].age = book[c].age + 1 /\ book'[c].vote = book[c].vote
      /\ book'[c].weight = book[c].weight /\ book'[c].ids = book[c].ids
      /\ book'[c].by = book[c].by
    BY <1>2, <1>3 DEF VoteRow
<1>5. book[c].age \in 1..Len(Decay) /\ book[c].age + 1 \in 2..Len(Decay) /\ Len(Decay) \in Nat
    BY <1>1, <1>2, <1>4, ReputationAssumption DEF VoteRow, TimePasses
<1>6. c \in Votes'
    <2>1. book'[c].vote \in {"up", "down"}
        BY <1>2, <1>4, RowIsVote
    <2>2. book'[c] # NoVote
        BY <2>1 DEF NoVote
    <2> QED
        BY <1>1, <1>4, <2>2 DEF Votes
<1> DEFINE x == book[c].weight
           y == Left(c)
           t == Left(c)'
           z == book[c].by.pairs[pair]
           d == Decay[2]
           held == pair \in Unordered(book[c].ids \ book[c].by.counter)
<1>7. x \in Nat /\ y \in Nat /\ t \in Nat /\ d \in Nat
    <2>1. t = Decay[book[c].age + 1] /\ y = Decay[book[c].age] /\ x \in Nat
        BY <1>2, <1>4 DEF VoteRow, Left
    <2>2. book[c].age + 1 \in 1..Len(Decay) /\ 2 \in 1..Len(Decay)
        BY <1>5
    <2> QED
        BY <1>5, <2>1, <2>2, DecayFacts
<1>8. t * 100 = d * y
    <2>1. t = Decay[book[c].age + 1] /\ y = Decay[book[c].age]
        BY <1>4 DEF Left
    <2> QED
        BY <1>5, <2>1, DecayFacts
<1>9. OnPair(c, pair) \in Nat
    BY OnPairNatural
<1>10. held => z \in Nat
    <2>1. held => pair \in Unordered(book[c].ids)
        BY DEF Unordered
    <2>2. pair \in Unordered(book[c].ids) => z \in Nat
        BY <1>1, PairWeighs DEF ReputationInv
    <2> QED
        BY <2>1, <2>2
<1>11. OnPair(c, pair) = IF held THEN (x * y) * z ELSE 0
    BY DEF OnPair, Amount
<1>12. OnPair(c, pair)' = IF held THEN (x * t) * z ELSE 0
    BY <1>4 DEF OnPair, Amount
<1> HIDE DEF x, y, t, z, d, held
<1>13. held => ((x * t) * z) * 100 = ((x * y) * z) * d
    <2> SUFFICES ASSUME held PROVE ((x * t) * z) * 100 = ((x * y) * z) * d
        OBVIOUS
    <2>1. ((x * t) * z) * 100 = (x * z) * (t * 100)
        BY <1>7, <1>10
    <2>2. ((x * y) * z) * d = (x * z) * (d * y)
        BY <1>7, <1>10
    <2> QED
        BY <1>8, <2>1, <2>2
<1>14. OnPair(c, pair)' * 100 = OnPair(c, pair) * d
    BY <1>7, <1>11, <1>12, <1>13
<1> QED
    BY <1>4, <1>5, <1>6, <1>9, <1>14 DEF d

\* Nor does time bring a vote back.
LEMMA TimeAddsNoVote ==
    ASSUME ReputationInv, TimePasses
    PROVE  Votes' \subseteq Votes
<1>1. ASSUME NEW c \in Sources, book[c] = NoVote \/ book[c].ids = {} PROVE c \notin Votes'
    <2>1. CASE book[c] = NoVote
        BY <1>1, <2>1 DEF Votes, TimePasses, Grown
    <2>2. CASE book[c] # NoVote /\ book[c].ids = {}
        <3>1. book'[c] = [book[c] EXCEPT !.age = @ + 1] /\ book[c] \in VoteRow
            BY <1>1, <2>2 DEF TimePasses, Grown, ReputationInv
        <3>2. book'[c].ids = {}
            BY <2>2, <3>1 DEF VoteRow
        <3> QED
            BY <3>2 DEF Votes
    <2> QED
        BY <1>1, <2>1, <2>2
<1> QED
    BY <1>1 DEF Votes

\* The same votes speak of a pair, and of their evidence the same share is left.
LEMMA EvidenceFades ==
    ASSUME ReputationInv, ReputationInv', TimePasses, Len(Decay) >= 2,
           NEW pair \in Unordered(Pieces), NEW v \in Ways
    PROVE  /\ PairVotes(pair, v)' = PairVotes(pair, v)
           /\ PairEvidence(pair, v) \in Nat /\ PairEvidence(pair, v)' \in Nat
           /\ PairEvidence(pair, v)' * 100 = PairEvidence(pair, v) * Decay[2]
<1> DEFINE S == PairVotes(pair, v)
           T == PairVotes(pair, v)'
           d == Decay[2]
           f == [c \in S |-> OnPair(c, pair)]
           k == [c \in T |-> OnPair(c, pair)']
<1>1. d \in 1..100
    BY DecayFacts
<1>2. PairCounts /\ PairCounts'
    <2>1. ReputationInv' => PairCounts'
        BY PairsAreNatural, PTL
    <2> QED
        BY <2>1, PairsAreNatural
<1>3. Votes' = Votes
    BY AllFadeAlike, TimeAddsNoVote
<1>4. \A c \in Votes : /\ OnPair(c, pair) \in Nat /\ OnPair(c, pair)' \in Nat
                       /\ OnPair(c, pair)' * 100 = OnPair(c, pair) * d
    BY <1>2, <1>3, AllFadeAlike DEF PairCounts
<1>5. \A c \in Votes : OnPair(c, pair)' > 0 <=> OnPair(c, pair) > 0
    <2>1. ASSUME NEW m \in Nat, NEW n \in Nat, NEW q \in 1..100, m * 100 = n * q
          PROVE  m > 0 <=> n > 0
        <3>1. n > 0 => n * q > 0
            BY <2>1
        <3>2. n = 0 => n * q = 0
            BY <2>1
        <3> QED
            BY <2>1, <3>1, <3>2
    <2> HIDE DEF d
    <2> QED
        BY <1>1, <1>4, <2>1
<1>6. T = S
    <2>1. \A c \in Votes : book'[c].vote = book[c].vote
        BY AllFadeAlike
    <2> QED
        BY <1>3, <1>5, <2>1 DEF PairVotes
<1>7. IsFiniteSet(S) /\ S \subseteq Votes
    <2>1. S \subseteq Sources /\ S \subseteq Votes
        BY DEF PairVotes, Votes
    <2> QED
        BY <2>1, ReputationAssumption, FS_Subset
<1>8. PairEvidence(pair, v) = SumFunction(f) /\ PairEvidence(pair, v)' = SumFunction(k)
    BY DEF PairEvidence
<1>9. /\ f \in [S -> Nat] /\ k \in [S -> Nat] /\ f \in [S -> Int] /\ k \in [S -> Int]
      /\ \A c \in S : k[c] * 100 = f[c] * d
    BY <1>4, <1>6, <1>7
<1> HIDE DEF S, T, f, k, d
<1>10. SumFunction(f) \in Nat /\ SumFunction(k) \in Nat
    BY <1>7, <1>9, SumNatural
<1>11. SumFunction(k) * 100 = SumFunction(f) * d
    BY <1>1, <1>7, <1>9, SumScaled
<1> QED
    BY <1>6, <1>8, <1>10, <1>11 DEF S, T, d

\* If what is left of the evidence is damning, so was all of it.
LEMMA ShareOfLowScore ==
    ASSUME NEW l \in Nat, NEW s \in Nat, NEW m \in Nat, NEW r \in Nat, NEW d \in 1..100,
           NEW u \in Nat, m * 100 = l * d, r * 100 = s * d,
           10 * (m - r) <= (0 - 6) * (m + r + 2 * u)
    PROVE  10 * (l - s) <= (0 - 6) * (l + s + 2 * u)
<1>1. 16 * m + 12 * u <= 4 * r
    OBVIOUS
<1>2. 16 * (m * 100) + 12 * (u * 100) <= 4 * (r * 100)
    BY <1>1
<1>3. d * u <= 100 * u
    BY Products
<1>4. 16 * (l * d) + 12 * (d * u) <= 4 * (s * d)
    <2>1. d * u \in Int
        OBVIOUS
    <2> QED
        BY <1>2, <1>3, <2>1
<1>5. 16 * l + 12 * u <= 4 * s
    <2> SUFFICES ASSUME 4 * s + 1 <= 16 * l + 12 * u PROVE FALSE
        OBVIOUS
    <2>1. (4 * s + 1) * d <= (16 * l + 12 * u) * d
        BY Products
    <2>2. (4 * s + 1) * d = 4 * (s * d) + d
        OBVIOUS
    <2>3. (16 * l + 12 * u) * d = 16 * (l * d) + 12 * (d * u)
        OBVIOUS
    <2>4. l * d \in Int /\ s * d \in Int /\ d * u \in Int /\ d >= 1
        OBVIOUS
    <2> QED
        BY <1>4, <2>1, <2>2, <2>3, <2>4
<1> QED
    BY <1>5

\* That time passes never makes a pair one that is skipped: every vote, whatever
\* its age, loses the same share in a step, and the prior loses nothing.
THEOREM TimeForgives == ReputationSpec => TimeOnlyForgives
<1>1. ASSUME ReputationInv, ReputationInv', TimePasses
      PROVE  HardRejectPairs' \subseteq HardRejectPairs
    <2> SUFFICES ASSUME NEW pair \in Unordered(Pieces),
                        Cardinality(PairVotes(pair, "down")') >= 3, LowScore(pair)'
                 PROVE  Cardinality(PairVotes(pair, "down")) >= 3 /\ LowScore(pair)
        BY DEF HardRejectPairs
    <2>1. Len(Decay) >= 2
        <3>1. PairVotes(pair, "down")' # {}
            BY FS_EmptySet
        <3>2. Votes # {}
            BY <1>1, <3>1, TimeAddsNoVote DEF PairVotes
        <3> QED
            BY <1>1, <3>2, AllFadeAlike
    <2> DEFINE l == PairEvidence(pair, "up")
               s == PairEvidence(pair, "down")
               m == PairEvidence(pair, "up")'
               r == PairEvidence(pair, "down")'
               d == Decay[2]
    <2>2. PairVotes(pair, "down")' = PairVotes(pair, "down")
        BY <1>1, <2>1, EvidenceFades DEF Ways
    <2>3. /\ l \in Nat /\ m \in Nat /\ m * 100 = l * d
          /\ s \in Nat /\ r \in Nat /\ r * 100 = s * d
        BY <1>1, <2>1, EvidenceFades DEF Ways
    <2>4. d \in 1..100
        BY <2>1, DecayFacts
    <2>5. Unit \in Nat
        BY DEF Unit
    <2>6. 10 * (m - r) <= (0 - 6) * (m + r + 2 * Unit)
        BY DEF LowScore
    <2>7. LowScore(pair) <=> 10 * (l - s) <= (0 - 6) * (l + s + 2 * Unit)
        BY DEF LowScore
    <2> HIDE DEF l, s, m, r, d
    <2>8. 10 * (l - s) <= (0 - 6) * (l + s + 2 * Unit)
        BY <2>3, <2>4, <2>5, <2>6, ShareOfLowScore
    <2> QED
        BY <2>2, <2>7, <2>8
<1>2. ReputationInv /\ ReputationInv' /\ [ReputationNext]_reputationVars =>
        [TimePasses => HardRejectPairs' \subseteq HardRejectPairs]_reputationVars
    BY <1>1
<1> QED
    BY <1>2, ReputationBegins, ReputationStep, PTL DEF ReputationSpec, TimeOnlyForgives

-----------------------------------------------------------------------------
(* Three dislikes                                                           *)

\* A plain dislike of a pair, in a vote that praises neither of the two.
Disliked(b, pair) == PlainDislike(b, pair) /\ pair \cap book[b].by.counter = {}

\* Three dislikes alone on a pair are enough as long as none has faded, and others
\* next to three fresh ones do not spoil it.
ThreeFreshDislikesBlock ==
    \A pair \in Unordered(Pieces) :
        PairVotes(pair, "up") = {} =>
            /\ Cardinality({b \in Votes : Disliked(b, pair) /\ Left(b) = 100}) >= 3
                   => pair \in HardRejectPairs
            /\ /\ Cardinality(PairVotes(pair, "down")) = 3
               /\ \A b \in PairVotes(pair, "down") : Disliked(b, pair)
               /\ pair \in HardRejectPairs
               => \A b \in PairVotes(pair, "down") : Left(b) = 100

\* What is left of a vote is something, and at most all of it.
LEMMA FreshIsMost == \A i \in DOMAIN Decay : Decay[i] \in 1..100
<1>1. Decay \in Seq(Nat) /\ Len(Decay) \in Nat /\ DOMAIN Decay = 1..Len(Decay)
    BY ReputationAssumption
<1> DEFINE Good == {i \in Nat : i + 1 \in 1..Len(Decay) => Decay[i + 1] \in 1..100}
<1>2. 0 \in Good
    BY ReputationAssumption
<1>3. ASSUME NEW i \in Nat, i \in Good PROVE i + 1 \in Good
    <2> SUFFICES ASSUME (i + 1) + 1 \in 1..Len(Decay) PROVE Decay[(i + 1) + 1] \in 1..100
        OBVIOUS
    <2>1. (i + 1) + 1 \in 2..Len(Decay) /\ ((i + 1) + 1) - 1 = i + 1 /\ i + 1 \in 1..Len(Decay)
        BY <1>1
    <2>2. Decay[i + 1] \in 1..100
        BY <1>3, <2>1
    <2>3. Decay[(i + 1) + 1] \in 1..Decay[((i + 1) + 1) - 1]
        BY <2>1, ReputationAssumption
    <2> DEFINE later == Decay[(i + 1) + 1]
               sooner == Decay[i + 1]
    <2>4. later \in 1..sooner /\ sooner \in 1..100
        BY <2>1, <2>2, <2>3
    <2> HIDE DEF later, sooner
    <2>5. later \in 1..100
        BY <2>4
    <2> QED
        BY <2>5 DEF later
<1>4. Nat \subseteq Good
    <2> HIDE DEF Good
    <2> QED
        BY <1>2, <1>3, NaturalNumbers
<1>5. ASSUME NEW i \in DOMAIN Decay PROVE Decay[i] \in 1..100
    <2>1. i - 1 \in Nat /\ (i - 1) + 1 = i
        BY <1>1
    <2> QED
        BY <1>1, <1>4, <2>1
<1> QED
    BY <1>5

\* What a plain dislike says of its pair.
LEMMA DislikeCounts ==
    ASSUME ReputationInv, NEW b \in Votes, NEW pair \in Unordered(Pieces), Disliked(b, pair)
    PROVE  OnPair(b, pair) = 200 * Left(b) /\ Left(b) \in 1..100
<1>1. pair \in Unordered(book[b].ids \ book[b].by.counter)
    <2>1. PICK x \in Pieces, y \in Pieces : x # y /\ pair = {x, y}
        BY DEF Unordered
    <2>2. x \in book[b].ids \ book[b].by.counter /\ y \in book[b].ids \ book[b].by.counter
        BY <2>1 DEF Disliked, PlainDislike
    <2>3. <<x, y>> \in (book[b].ids \ book[b].by.counter) \X (book[b].ids \ book[b].by.counter)
        BY <2>2
    <2> QED
        BY <2>1, <2>3 DEF Unordered
<1>2. Left(b) \in 1..100
    BY FreshIsMost DEF Votes, ReputationInv, Left, VoteRow
<1>3. book[b].weight = 2 /\ book[b].by.pairs[pair] = 100
    BY DEF Disliked, PlainDislike
<1> QED
    BY <1>1, <1>2, <1>3 DEF OnPair, Amount

\* Three of them, of at most Unit each, add up to 3 * Unit only if each is Unit.
LEMMA NoneHasFaded ==
    ASSUME NEW S, IsFiniteSet(S), Cardinality(S) = 3, NEW u \in Nat, NEW f \in [S -> Nat],
           \A x \in S : f[x] <= u, SumFunction(f) >= 3 * u
    PROVE  \A x \in S : f[x] = u
<1> SUFFICES ASSUME NEW x \in S, f[x] < u PROVE FALSE
    OBVIOUS
<1> DEFINE full == [y \in S |-> u]
           d == [y \in S |-> u - f[y]]
<1>1. /\ full \in [S -> Int] /\ f \in [S -> Int] /\ d \in [S -> Nat] /\ d \in [S -> Int]
      /\ \A y \in S : full[y] <= u /\ d[y] = full[y] - f[y]
    OBVIOUS
<1>2. {x} \in SUBSET S /\ (\A y \in {x} : d[y] >= 1)
    OBVIOUS
<1> HIDE DEF full, d
<1>3. SumFunction(full) <= u * 3
    BY <1>1, SumBounded
<1>4. SumFunction(d) >= 1 * 1
    BY <1>1, <1>2, SumAtLeast, FS_Singleton
<1>5. SumFunction(d) = SumFunction(full) - SumFunction(f)
    BY <1>1, SumDifference
<1>6. SumFunction(d) \in Int /\ SumFunction(full) \in Int /\ SumFunction(f) \in Int
    BY <1>1, SumType
<1> QED
    BY <1>3, <1>4, <1>5, <1>6

(***************************************************************************)
(* "Three pure dislikes and no likes give exactly -3 / (3 + PAIR_PRIOR)"    *)
(* (wardrobe_behavior.py:50): exactly the score that still rejects, so      *)
(* three plain dislikes block a pair as long as they are fresh, whatever    *)
(* else the ledger holds against it, and three alone not a step longer.     *)
(***************************************************************************)
THEOREM DislikesBlockWhileFresh == ReputationSpec => []ThreeFreshDislikesBlock
<1>1. ASSUME ReputationInv PROVE ThreeFreshDislikesBlock
    <2> SUFFICES ASSUME NEW pair \in Unordered(Pieces), PairVotes(pair, "up") = {}
                 PROVE  /\ Cardinality({b \in Votes : Disliked(b, pair) /\ Left(b) = 100}) >= 3
                               => pair \in HardRejectPairs
                        /\ /\ Cardinality(PairVotes(pair, "down")) = 3
                           /\ \A b \in PairVotes(pair, "down") : Disliked(b, pair)
                           /\ pair \in HardRejectPairs
                           => \A b \in PairVotes(pair, "down") : Left(b) = 100
        BY DEF ThreeFreshDislikesBlock
    <2> DEFINE S == PairVotes(pair, "down")
               f == [b \in S |-> OnPair(b, pair)]
               T == {b \in Votes : Disliked(b, pair) /\ Left(b) = 100}
    <2>1. Votes \subseteq Sources /\ S \subseteq Votes /\ IsFiniteSet(S) /\ Cardinality(S) \in Nat
        <3>1. Votes \subseteq Sources /\ S \subseteq Votes
            BY DEF Votes, PairVotes
        <3> QED
            BY <3>1, ReputationAssumption, FS_Subset, FS_CardinalityType
    <2>2. f \in [S -> Nat] /\ f \in [S -> Int]
        BY <1>1, <2>1, PairsAreNatural DEF PairCounts
    <2>3. PairEvidence(pair, "down") = SumFunction(f)
        BY DEF PairEvidence
    <2>4. PairEvidence(pair, "up") = 0
        <3>1. {} = PairVotes(pair, "up")
            OBVIOUS
        <3> DEFINE e == [b \in PairVotes(pair, "up") |-> OnPair(b, pair)]
        <3>2. e \in [{} -> Int] /\ e \in [{} -> Nat] /\ IsFiniteSet({}) /\ Cardinality({}) = 0
            BY <3>1, FS_EmptySet
        <3>3. PairEvidence(pair, "up") = SumFunction(e)
            BY DEF PairEvidence
        <3> HIDE DEF e
        <3>4. SumFunction(e) \in Nat /\ SumFunction(e) <= 1 * 0
            BY <3>2, SumNatural, SumBounded
        <3> QED
            BY <3>3, <3>4
    <2>5. Unit = 20000
        BY DEF Unit
    <2>6. SumFunction(f) \in Nat
        BY <2>1, <2>2, SumNatural
    <2>7. LowScore(pair) <=> SumFunction(f) >= 3 * 20000
        BY <2>3, <2>4, <2>5, <2>6 DEF LowScore
    <2>8. ASSUME NEW b \in Votes, Disliked(b, pair)
          PROVE  OnPair(b, pair) = 200 * Left(b) /\ Left(b) \in 1..100 /\ b \in S
        <3>1. OnPair(b, pair) = 200 * Left(b) /\ Left(b) \in 1..100
            BY <1>1, <2>8, DislikeCounts
        <3>2. OnPair(b, pair) > 0 /\ book[b].vote = "down"
            BY <2>8, <3>1 DEF Disliked, PlainDislike
        <3>3. b \in S
            BY <3>2, Zenon DEF PairVotes
        <3> QED
            BY <3>1, <3>3
    <2>9. ASSUME Cardinality(T) >= 3 PROVE pair \in HardRejectPairs
        <3>1. T \in SUBSET S /\ \A b \in T : f[b] >= 20000
            BY <2>8
        <3>2. IsFiniteSet(T) /\ Cardinality(T) \in Nat /\ Cardinality(T) <= Cardinality(S)
            BY <2>1, <3>1, FS_Subset, FS_CardinalityType
        <3> HIDE DEF f, T
        <3>3. SumFunction(f) >= 20000 * Cardinality(T)
            BY <2>1, <2>2, <3>1, SumAtLeast
        <3>4. LowScore(pair)
            BY <2>6, <2>7, <2>9, <3>2, <3>3
        <3> HIDE DEF S
        <3>5. Cardinality(S) >= 3
            BY <2>1, <2>9, <3>2
        <3> QED
            BY <3>4, <3>5 DEF HardRejectPairs, S
    <2>10. ASSUME Cardinality(S) = 3, \A b \in S : Disliked(b, pair), pair \in HardRejectPairs
           PROVE  \A b \in S : Left(b) = 100
        <3>1. \A b \in S : f[b] = 200 * Left(b) /\ Left(b) \in 1..100
            BY <2>1, <2>8, <2>10
        <3>2. \A b \in S : f[b] <= 20000
            BY <3>1
        <3>3. SumFunction(f) >= 3 * 20000
            BY <2>7, <2>10 DEF HardRejectPairs
        <3> HIDE DEF f, S
        <3>4. \A b \in S : f[b] = 20000
            BY <2>1, <2>2, <2>10, <3>2, <3>3, NoneHasFaded
        <3> QED
            BY <3>1, <3>4
    <2> QED
        BY <2>9, <2>10
<1> QED
    BY <1>1, ReputationBegins, ReputationStep, PTL DEF ReputationSpec

=============================================================================
