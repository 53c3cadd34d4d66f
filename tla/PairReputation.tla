--------------------------- MODULE PairReputation ---------------------------
(***************************************************************************)
(* From the member's votes to what ranking knows of the garments and of the  *)
(* pairs (rules/feedback.py, rules/wardrobe_behavior.py, styling/behavior.py):*)
(* a vote with its reason becomes weights on garments and pairs, the weights  *)
(* fade with age, and a pair disliked enough is skipped outright.  The model  *)
(* is built anew for every request.  Ages are counted in steps; vote weights *)
(* in halves, decay and factors in hundredths, scores in thousandths.       *)
(***************************************************************************)
EXTENDS Integers, Sequences, SequencesExt, FiniteSets, FiniteSetsExt, Functions

CONSTANTS
    Worn,        \* (outfit, voter, source) -> the garments of the outfit
    Mortal,      \* the garments that may be deleted
    Chips,       \* REASON_TAGS: chip -> [on, garment, pair], the last two factors
    Opinions,    \* what a voter may say: [vote, weight, tags, clauses]
    Readings,    \* what a model may make of a comment: [blamed, praised, together]
    Decay        \* what is left of a vote at each age

Sources == DOMAIN Worn
Pieces == UNION {Worn[b] : b \in Sources}
Unordered(S) == {{p[1], p[2]} : p \in {p \in S \X S : p[1] # p[2]}}

ASSUME ReputationAssumption ==
    /\ IsFiniteSet(Sources) /\ \A b \in Sources : IsFiniteSet(Worn[b])
    /\ \A o \in Opinions :
          o.vote \in {"up", "down"} /\ o.weight \in Nat /\ o.tags \subseteq DOMAIN Chips
    /\ IsFiniteSet(DOMAIN Chips)
    /\ \A t \in DOMAIN Chips : Chips[t].garment \in Nat /\ Chips[t].pair \in Nat
    /\ Decay \in Seq(Nat) \ {<<>>}
    /\ Decay[1] = 100 /\ \A i \in 2..Len(Decay) : Decay[i] \in 1..Decay[i - 1]
    \* 0.5 ** (age / HALF_LIFE_DAYS): every step leaves the same share.
    /\ \A i, j \in 2..Len(Decay) : Decay[i] * Decay[j - 1] = Decay[j] * Decay[i - 1]

NoVote == [vote |-> "none"]
NoReading == [blamed |-> {}, praised |-> {}, together |-> {}]

VARIABLES
    book,     \* OutfitVote rows of the member
    lasting   \* the garments not deleted

reputationVars == <<book, lasting>>

ReputationInit == book = [b \in Sources |-> NoVote] /\ lasting = Pieces

-----------------------------------------------------------------------------
(* The reason of a vote                                                     *)

\* A clause is about the garments it mentions; its tone, when it has none of
\* its own, is the vote's; cue: it has a word for a combination.
Tone(clause, vote) == IF clause.tone = "none" THEN vote ELSE clause.tone

Mentioned(clauses, vote, tone, ids) ==
    UNION {c.mentions \cap ids : c \in {c \in ToSet(clauses) : Tone(c, vote) = tone}}

HeuristicExtract(clauses, vote, ids) ==
    [blamed |-> Mentioned(clauses, vote, "down", ids),
     praised |-> Mentioned(clauses, vote, "up", ids),
     together |-> UNION {Unordered(c.mentions \cap ids) :
                     c \in {c \in ToSet(clauses) : c.cue /\ Tone(c, vote) = "down"}}]

\* Only what is in the outfit, and no garment both blamed and praised.
SanitizeExtraction(raw, ids) ==
    LET blamed == raw.blamed \cap ids
    IN [blamed |-> blamed, praised |-> (raw.praised \cap ids) \ blamed,
        together |-> raw.together \cap Unordered(ids)]

\* The model's reading of a comment, or the heuristic's if it fails.
ReadingsOf(o, ids) ==
    IF o.clauses = <<>> \/ ids = {} THEN {NoReading}
    ELSE {SanitizeExtraction(raw, ids) : raw \in Readings \cup {HeuristicExtract(o.clauses, o.vote, ids)}}

\* A mutant of ClampFactor: the factor is not bounded.
Unclamped(x) == x
ClampFactor(x) == IF x < 10 THEN 10 ELSE IF x > 200 THEN 200 ELSE x

\* A chip of the other polarity says nothing.
Factor(o, part) ==
    LET chips == {t \in o.tags : Chips[t].on = o.vote}
    IN ClampFactor(FoldSet(LAMBDA t, x : (x * Chips[t][part]) \div 100, 100, chips))

\* A mutant of Opposite: praise in a dislike is overheard.
Overheard(reading, vote) == {}
Opposite(reading, vote) == IF vote = "down" THEN reading.praised ELSE reading.blamed
Same(reading, vote) == IF vote = "down" THEN reading.blamed ELSE reading.praised

GarmentWeight(o, reading, g) ==
    IF g \in Opposite(reading, o.vote) THEN 0
    ELSE IF Same(reading, o.vote) \subseteq {g} \/ g \in Same(reading, o.vote)
         THEN Factor(o, "garment")
    ELSE Factor(o, "garment") \div 4

PairWeight(o, reading, pair) ==
    LET weights == [g \in pair |-> GarmentWeight(o, reading, g)]
    IN IF pair \in reading.together THEN ClampFactor(2 * Factor(o, "pair"))
       ELSE IF \E g \in pair : weights[g] = 0 THEN 0
       ELSE (Factor(o, "pair") * SumFunction(weights)) \div 200

DeriveVoteWeights(o, ids, reading) ==
    [garments |-> [g \in ids |-> GarmentWeight(o, reading, g)],
     pairs |-> [p \in Unordered(ids) |-> PairWeight(o, reading, p)],
     counter |-> Opposite(reading, o.vote) \cap ids]

-----------------------------------------------------------------------------
(* The ledger                                                               *)

\* One row per outfit, voter and source.  A revised opinion keeps the age of
\* the first, and the garments it had when none of them is left.
RecordOutfitVote(b) ==
    LET row == book[b]
        left == Worn[b] \cap lasting
        ids == IF left = {} /\ row # NoVote THEN row.ids ELSE left
        age == IF row = NoVote THEN 1 ELSE row.age
    IN \E o \in Opinions : \E reading \in ReadingsOf(o, left) :
          book' = [book EXCEPT ![b] =
             [vote |-> o.vote, weight |-> o.weight, ids |-> ids, age |-> age,
              feedback |-> reading, by |-> DeriveVoteWeights(o, ids, reading)]]

\* A 3-star review, or a thumb taken back.
WithdrawVote(b) == book[b] # NoVote /\ book' = [book EXCEPT ![b] = NoVote]

\* Every vote ages alike; Decay bounds the ages looked at.
Grown(row) == IF row = NoVote THEN row ELSE [row EXCEPT !.age = @ + 1]
TimePasses ==
    /\ book' = [b \in Sources |-> Grown(book[b])]
    /\ \A b \in Sources : book[b] # NoVote => book'[b].age <= Len(Decay)
    /\ UNCHANGED lasting

PieceDeleted(g) ==
    /\ g \in lasting /\ lasting' = lasting \ {g}
    /\ UNCHANGED book

ReputationNext ==
    \/ \E b \in Sources : (RecordOutfitVote(b) \/ WithdrawVote(b)) /\ UNCHANGED lasting
    \/ TimePasses
    \/ \E g \in Mortal : PieceDeleted(g)

ReputationSpec == ReputationInit /\ [][ReputationNext]_reputationVars

-----------------------------------------------------------------------------
(* The model built from it                                                  *)

Votes == {b \in Sources : book[b] # NoVote /\ book[b].ids # {}}

Other(vote) == IF vote = "up" THEN "down" ELSE "up"

\* A mutant of Left: only likes fade.
LikesFade(b) == IF book[b].vote = "up" THEN Decay[book[b].age] ELSE 100
Left(b) == Decay[book[b].age]

\* w = vote.weight * _decay(created_at, now)
Amount(b) == book[b].weight * Left(b)
Unit == 2 * 100 * 100

\* Praise inside a dislike counts in full as a like.
Polarity(b, g) == IF g \in book[b].by.counter THEN Other(book[b].vote) ELSE book[b].vote
OnGarment(b, g) ==
    IF g \notin book[b].ids THEN 0
    ELSE Amount(b) * IF g \in book[b].by.counter THEN 100 ELSE book[b].by.garments[g]
OnPair(b, pair) ==
    IF pair \in Unordered(book[b].ids \ book[b].by.counter)
    THEN Amount(b) * book[b].by.pairs[pair] ELSE 0

GarmentVotes(g, vote) == {b \in Votes : OnGarment(b, g) > 0 /\ Polarity(b, g) = vote}
PairVotes(pair, vote) == {b \in Votes : OnPair(b, pair) > 0 /\ book[b].vote = vote}

GarmentEvidence(g, vote) == SumFunction([b \in GarmentVotes(g, vote) |-> OnGarment(b, g)])
PairEvidence(pair, vote) == SumFunction([b \in PairVotes(pair, vote) |-> OnPair(b, pair)])

\* The garments that shared a vote's polarity with g.
Partners(g, vote) ==
    UNION {{h \in book[b].ids \ book[b].by.counter : book[b].by.garments[h] > 0} \ {g} :
              b \in GarmentVotes(g, vote)}

\* Dislikes next to different partners weigh more than next to the same.
Diversity(g, vote) ==
    LET n == Cardinality(Partners(g, vote)) + 1 IN (n * 1000) \div (n + 3)

GarmentSigned(g) ==
    LET likes == GarmentEvidence(g, "up")
        dislikes == GarmentEvidence(g, "down")
    IN (likes * Diversity(g, "up") - dislikes * Diversity(g, "down"))
          \div (likes + dislikes + 3 * Unit)

\* (likes - dislikes) / (likes + dislikes + PAIR_PRIOR) <= HARD_REJECT_SCORE
LowScore(pair) ==
    LET likes == PairEvidence(pair, "up")
        dislikes == PairEvidence(pair, "down")
    IN 10 * (likes - dislikes) <= (0 - 6) * (likes + dislikes + 2 * Unit)

HardRejectPairs ==
    {pair \in Unordered(Pieces) : Cardinality(PairVotes(pair, "down")) >= 3 /\ LowScore(pair)}

-----------------------------------------------------------------------------

ReputationTypeOK ==
    /\ lasting \subseteq Pieces
    /\ \A b \in Votes :
          /\ book[b].ids \subseteq Worn[b] /\ book[b].age \in DOMAIN Decay
          /\ book[b].by.counter \subseteq book[b].ids
          /\ \A g \in book[b].ids : book[b].by.garments[g] \in 0..200
          /\ \A p \in Unordered(book[b].ids) :
                book[b].by.pairs[p] \in 0..(IF p \in book[b].feedback.together THEN 200 ELSE 400)

\* "A 60-day half-life lets taste change": that time passes never makes a pair
\* one that is skipped (_decay, build_behavior_model).
TimeOnlyForgives == [][TimePasses => HardRejectPairs' \subseteq HardRejectPairs]_reputationVars

FirstVote(b) == book[b] = NoVote /\ book'[b] # NoVote

\* A first vote never lowers the standing of a piece that its comment praises,
\* whatever it says of the outfit, nor raises one that it blames
\* (derive_vote_weights, build_behavior_model).
PraiseIsNotBlame ==
    [][\A b \in Sources : FirstVote(b) =>
          /\ \A g \in book'[b].feedback.praised : GarmentSigned(g)' >= GarmentSigned(g)
          /\ \A g \in book'[b].feedback.blamed : GarmentSigned(g)' <= GarmentSigned(g)]_reputationVars

PlainDislike(b, pair) ==
    /\ book[b].vote = "down" /\ book[b].weight = 2
    /\ pair \subseteq book[b].ids /\ book[b].by.pairs[pair] = 100

\* "Three pure dislikes and no likes give exactly -3 / (3 + PAIR_PRIOR) = -0.6"
\* (wardrobe_behavior.py:50), which is low enough: a pairing "the member has
\* disliked three or more times" is never sent to the model (ranking.py).
ThreeDislikesBlock ==
    \A pair \in Unordered(Pieces) :
        /\ Cardinality({b \in Votes : PlainDislike(b, pair)}) >= 3
        /\ PairVotes(pair, "up") = {}
        => pair \in HardRejectPairs
=============================================================================
