--------------------------- MODULE OutfitAssembly ---------------------------
(***************************************************************************)
(* One recommendation request through the ten styling stages                 *)
(* (app/styling/orchestrator.py and the stage modules it calls): anchors,    *)
(* filtering, retrieval, combination, ranking, semantic validation, image    *)
(* generation with its gates, and the one commit.  Model calls answer        *)
(* anything or raise; the member goes on deleting and rejecting garments.    *)
(* A score stands for the weighted sum of ranking's components, in           *)
(* hundredths.                                                              *)
(***************************************************************************)
EXTENDS GarmentRules, Naturals, Sequences, SequencesExt

CONSTANTS
    Closet,           \* garment -> Attributes, colour, gender, breaks a hard constraint
    Asks,             \* the requests to consider
    Fickle,           \* the garments that may be deleted or rejected meanwhile
    TopK,             \* outfits asked for
    FallbackDepth,    \* GATE_FALLBACK_DEPTH
    HopitOutfits,     \* the sets of garments that Hopit may call an outfit
    MaxAnswered,      \* bound on the outfits of one answer of Hopit's
    MaxPerRole,       \* STYLING_MAX_CANDIDATES_PER_ROLE
    MaxCombos,        \* MAX_COMBOS_TO_EVALUATE
    Eagerness,        \* retrieval scores, in hundredths
    Scores,           \* final scores, in hundredths
    Epsilon           \* LAYER_IMPROVEMENT_EPSILON, in hundredths

Wardrobe == DOMAIN Closet
Role(g) == Closet[g].category
InRole(S, role) == {g \in S : Role(g) = role}

BodyRoles == {"TOP", "BOTTOM", "ONE_PIECE"}
SlotRoles == BodyRoles \cup {"FOOTWEAR", "OUTERWEAR"}
NoOuterwearContexts == {"party", "formal", "evening"}

\* anchors: pinned garments; said, plan: the occasion of the text and of the
\* weekly plan; wants, account: the gender asked for and the member's own;
\* blocked: pairs the member has disliked again and again.
ASSUME AssemblyAssumption ==
    /\ \A g \in Wardrobe : Closet[g].category \in Categories
    /\ \A a \in Asks : a.anchors \subseteq Wardrobe /\ a.hopit \in BOOLEAN
    /\ {TopK, FallbackDepth, MaxAnswered, MaxPerRole, MaxCombos, Epsilon} \subseteq Nat
    /\ HopitOutfits \subseteq SUBSET Wardrobe
    /\ IsFiniteSet(Wardrobe) /\ Fickle \subseteq Wardrobe
    /\ TopK > 0 /\ Eagerness \cup Scores \subseteq Nat

VARIABLES
    ask,       \* the request and what is known of its member
    closet,    \* garment -> "usable", "rejected" or "gone", as committed
    phase,
    intent,    \* dressy, gender, colour: the normalised request
    pool,      \* the ids of garments_by_id
    built,     \* the combinations that Stage 6 evaluates
    list,      \* the outfits still in the running, best first
    passing,   \* the places of those whose picture passed both gates
    trace,     \* what the trace says of Stages 8 and 10
    rows,      \* the committed outfits, by rank
    reply      \* the answer of the live run

assemblyVars == <<ask, closet, phase, intent, pool, built, list, passing,
                  trace, rows, reply>>

BlankTrace == [validated |-> 0, accepted |-> 0, gated |-> 0]
NoReply == [outfits |-> <<>>, reason |-> "none"]

AssemblyInit ==
    /\ ask \in Asks
    /\ closet = [g \in Wardrobe |-> "usable"]
    /\ phase = "asked"
    /\ intent = [dressy |-> FALSE, gender |-> "any", colour |-> "any"]
    /\ pool = {} /\ built = {} /\ list = <<>> /\ passing = {}
    /\ trace = BlankTrace /\ rows = <<>> /\ reply = NoReply

Kept == {g \in Wardrobe : closet[g] # "gone"}
Usable == {g \in Wardrobe : closet[g] = "usable"}

\* An exception: the session is rolled back and the endpoint answers an error.
Raises ==
    /\ phase' = "failed"
    /\ built' = {} /\ list' = <<>> /\ passing' = {}
    /\ UNCHANGED <<ask, closet, intent, pool, trace, rows, reply>>

-----------------------------------------------------------------------------
(* Anchors, the member and filtering: Stages 1 to 4. *)

AnchorsCoverBody(A) ==
    LET roles == {Role(a) : a \in A}
    IN {"TOP", "BOTTOM"} \subseteq roles \/ "ONE_PIECE" \in roles

LoadAnchors ==
    /\ phase = "asked"
    /\ IF ask.anchors \subseteq Kept /\ (ask.anchors = {} \/ AnchorsCoverBody(ask.anchors))
       THEN /\ phase' = "anchored"
            /\ pool' = ask.anchors
            /\ UNCHANGED <<ask, closet, intent, built, list, passing, trace, rows, reply>>
       ELSE Raises

\* normalize: what the model made of the text, or a neutral intent when there
\* was no answer that could be read.
NeutralIntent == [occasion |-> "none", gender |-> "any", colour |-> "any"]
Normalised ==
    {NeutralIntent, [occasion |-> ask.said, gender |-> ask.wants, colour |-> ask.colour]}

\* The text's occasion, or else the first tag of today's plan.
Occasion(told) == IF told.occasion = "none" THEN ask.plan ELSE told.occasion
WantedGender(told) == IF told.gender = "any" THEN ask.account ELSE told.gender

ReadMember ==
    /\ phase = "anchored"
    /\ phase' = "known"
    /\ \E told \in Normalised :
          intent' = [dressy |-> Occasion(told) \in NoOuterwearContexts,
                     gender |-> WantedGender(told), colour |-> told.colour]
    /\ UNCHANGED <<ask, closet, pool, built, list, passing, trace, rows, reply>>

\* A filter that is not applied when it would leave nothing.
NeverToZero(S, keep) == IF S \cap keep = {} THEN S ELSE S \cap keep

OfColour == {g \in Wardrobe : intent.colour \in {"any", "dark", "neutral", Closet[g].colour}}
OfGender == {g \in Wardrobe : intent.gender = "any" \/ Closet[g].gender \in {intent.gender, "unisex"}}
Compliant == {g \in Wardrobe : ~Closet[g].breaks}

FilterCandidates == NeverToZero(NeverToZero(Usable, OfColour), OfGender)

ApplyHardConstraints(candidates) == NeverToZero(candidates, Compliant \cup ask.anchors)

Filter ==
    /\ phase = "known"
    /\ phase' = "filtered"
    /\ pool' = IF ask.anchors # {} THEN ApplyHardConstraints(ask.anchors) \cup ask.anchors
               ELSE ApplyHardConstraints(FilterCandidates)
    /\ UNCHANGED <<ask, closet, intent, built, list, passing, trace, rows, reply>>

-----------------------------------------------------------------------------
(* Retrieval and combination: Stage 5 and the first half of Stage 7. *)

AtMost(n, m) == IF n < m THEN n ELSE m

\* retrieve_by_role: any MaxPerRole garments of each role, the jitter and the
\* weighted draw being what they are.
Retrieved(S) ==
    {R \in SUBSET S : \A role \in Categories :
        Cardinality(InRole(R, role)) = AtMost(MaxPerRole, Cardinality(InRole(S, role)))}

OneOfEach(S, roles) ==
    {{pick[role] : role \in roles} :
        pick \in {pick \in [roles -> S] : \A role \in roles : Role(pick[role]) = role}}

Bodies(S) == OneOfEach(S, {"TOP", "BOTTOM"}) \cup OneOfEach(S, {"ONE_PIECE"})

\* Each body with each choice of the given roles, where there is one.
Dressed(S, bodies, roles) ==
    {b \cup r : b \in bodies, r \in OneOfEach(S, {role \in roles : InRole(S, role) # {}})}

\* base: the combination that an optional layer was put on.
Plain(worn) == [worn |-> worn, base |-> {}]

Layered(bases, outers) ==
    {[worn |-> b \cup {o}, base |-> b] : b \in bases, o \in outers}

BuildCombinations(S) ==
    LET bases == Dressed(S, Bodies(S), {"FOOTWEAR"})
        outers == IF intent.dressy THEN {} ELSE InRole(S, "OUTERWEAR")
    IN {Plain(b) : b \in bases} \cup Layered(bases, outers)

\* Every anchored slot is filled and every anchored extra rides along.
AnchorsOnlyCombinations(A) ==
    LET extras == {a \in A : Role(a) \notin SlotRoles}
    IN {Plain(b \cup extras) : b \in Dressed(A, Bodies(A), {"FOOTWEAR", "OUTERWEAR"})}

\* Scores times 84000: 840 is a multiple of every size below 9.
Scaled(hundredths) == 840 * hundredths
Similarity(a, b) ==
    (84000 * Cardinality(a \cap b)) \div Cardinality(a \cup b)

NearestSimilarity(worn, chosen) ==
    IF chosen = <<>> THEN 0
    ELSE CHOOSE s \in {Similarity(worn, c) : c \in ToSet(chosen)} :
            \A c \in ToSet(chosen) : Similarity(worn, c) <= s

\* The orders in which the first n of S may be taken greedily, each time one
\* with the best value less its similarity to what was taken before.
GreedyOrders(S, n, value) ==
    LET Better(p, c, d) ==
            value[c] + NearestSimilarity(d, p) >= value[d] + NearestSimilarity(c, p)
        Best(p) == {c \in S \ ToSet(p) : \A d \in S \ ToSet(p) : Better(p, c, d)}
    IN {p \in [1..n -> S] : \A i \in 1..n : p[i] \in Best(SubSeq(p, 1, i - 1))}

RetrievalScore(worn, eager) ==
    LET sum[S \in SUBSET worn] ==
            IF S = {} THEN 0
            ELSE LET g == CHOOSE g \in S : TRUE IN eager[g] + sum[S \ {g}]
    IN (840 * sum[worn]) \div Cardinality(worn)

\* The sets of combinations that may survive the cap.
DiversityCapped(combos, eager) ==
    IF Cardinality(combos) <= MaxCombos THEN {combos}
    ELSE LET worn == {c.worn : c \in combos}
             value == [w \in worn |-> RetrievalScore(w, eager)]
         IN {{c \in combos : c.worn \in ToSet(p)} : p \in GreedyOrders(worn, MaxCombos, value)}

Combine ==
    /\ phase = "filtered" /\ ~ask.hopit
    /\ phase' = "combined"
    /\ IF ask.anchors # {}
       THEN built' \in DiversityCapped(AnchorsOnlyCombinations(pool),
                                       [g \in pool |-> 100])
       ELSE \E R \in Retrieved(pool), eager \in [Wardrobe -> Eagerness] :
               built' \in DiversityCapped(BuildCombinations(R), eager)
    /\ UNCHANGED <<ask, closet, intent, pool, list, passing, trace, rows, reply>>

-----------------------------------------------------------------------------
(* Compatibility and ranking: Stages 6 and 7. *)

Blocked(worn) ==
    \E pair \in ask.blocked : pair \subseteq worn /\ ~(pair \subseteq ask.anchors)

Incompatible(worn) ==
    \E g, h \in worn : g # h /\ HardReject(Closet[g], Closet[h])

Survivors(combos) == {c \in combos : ~Blocked(c.worn) /\ ~Incompatible(c.worn)}

\* An optional layer must improve on its base, when the base was scored.
WorthLayering(c, score) ==
    \/ c.base = {} \/ c.base \notin DOMAIN score \/ score[c.worn] > score[c.base] + Epsilon

PoolSize == IF 2 * TopK > TopK + 2 THEN 2 * TopK ELSE TopK + 2

Rank ==
    /\ phase = "combined"
    /\ phase' = "ranked"
    /\ LET survivors == Survivors(built)
       IN \E score \in [{c.worn : c \in survivors} -> Scores] :
             LET kept == {c.worn : c \in {c \in survivors : WorthLayering(c, score)}}
             IN list' \in GreedyOrders(kept, AtMost(PoolSize, Cardinality(kept)),
                                       [w \in kept |-> Scaled(score[w])])
    /\ UNCHANGED <<ask, closet, intent, pool, built, passing, trace, rows, reply>>

\* Whatever Hopit says is handed on: outfits that lack a garment or repeat one
\* another, in any number, and garments it was not asked about.
HopitAnswers == UNION {[1..n -> HopitOutfits] : n \in 0..MaxAnswered}

\* Those of a list at the places in I, in their order.
Picked(s, I) ==
    LET from[n \in 0..Len(s)] ==
            IF n = 0 THEN <<>>
            ELSE IF n \in I THEN Append(from[n - 1], s[n]) ELSE from[n - 1]
    IN from[Len(s)]

\* Hopit ranks; apply_behavior_rerank drops what the member has disliked.
HopitRanks ==
    /\ phase = "filtered" /\ ask.hopit
    /\ phase' = "ranked"
    /\ \E s \in HopitAnswers : list' = Picked(s, {i \in DOMAIN s : ~Blocked(s[i])})
    /\ UNCHANGED <<ask, closet, intent, pool, built, passing, trace, rows, reply>>

-----------------------------------------------------------------------------
(* Validation, pictures, gates and the commit: Stages 8 to 10. *)

\* An answer that did not come, or could not be read, is a review.
Verdict(answer) == IF answer = "none" THEN "NEEDS_REVIEW" ELSE answer

\* A garment that is not in the pool cannot be looked up (KeyError).
LookedUp == \A i \in DOMAIN list : list[i] \subseteq pool

\* The best that did not FAIL, a few more than asked for.
Validate ==
    /\ phase = "ranked" /\ LookedUp
    /\ phase' = "validated"
    /\ \E answer \in [DOMAIN list -> {"PASS", "FAIL", "none"}] :
          LET sound == Picked(list, {i \in DOMAIN list : Verdict(answer[i]) # "FAIL"})
              accepted == SubSeq(sound, 1, AtMost(TopK + FallbackDepth, Len(sound)))
          IN /\ list' = accepted
             /\ trace' = [trace EXCEPT !.validated = Len(list), !.accepted = Len(accepted)]
    /\ built' = {}
    /\ UNCHANGED <<ask, closet, intent, pool, passing, rows, reply>>

LookupFails == phase = "ranked" /\ ~LookedUp /\ Raises

\* A judge without an answer scores 5 of 10, and FAILs.
VisualScore == [high |-> 8, low |-> 3, none |-> 5]
SemanticStatus == [PASS |-> "PASS", FAIL |-> "FAIL", none |-> "FAIL"]

NoPicture == [made |-> FALSE, visual |-> "none", semantic |-> "none"]
Pictures ==
    {NoPicture} \cup
    [made : {TRUE}, visual : DOMAIN VisualScore, semantic : DOMAIN SemanticStatus]

GatesPassed(p) ==
    p.made /\ VisualScore[p.visual] >= 6 /\ SemanticStatus[p.semantic] = "PASS"

\* last: the picture that passed or that used up an outfit's attempts.
GenerateAndGate ==
    /\ phase = "validated"
    /\ phase' = "gated"
    /\ \E last \in [DOMAIN list -> Pictures] :
          passing' = {i \in DOMAIN list : GatesPassed(last[i])}
    /\ UNCHANGED <<ask, closet, intent, pool, built, list, trace, rows, reply>>

Accepted ==
    LET passed == Picked(list, passing)
    IN SubSeq(passed, 1, AtMost(TopK, Len(passed)))

\* How many candidates the storing loop looks at before it has enough.
Examined ==
    Cardinality({i \in DOMAIN list : Cardinality({j \in passing : j < i}) < TopK})

\* A mutant of NoOutfitReason: a generated picture alone blames the gates.
NoOutfitReasonAnyPicture(t, count) ==
    IF count > 0 THEN "none"
    ELSE IF t.validated > 0 THEN "gates"
    ELSE "assembly"
NoOutfitReason(t, count) ==
    IF count > 0 THEN "none"
    ELSE IF t.accepted > 0 /\ t.gated > 0 THEN "gates"
    ELSE IF t.validated > 0 THEN "validation"
    ELSE "assembly"

\* A mutant of ForeignKeysHold: nothing stops a row of a garment that is gone.
ForeignKeysForget(outfits) == TRUE
ForeignKeysHold(outfits) == \A worn \in ToSet(outfits) : worn \subseteq Kept

\* One transaction: the request, its pictures, its outfits and the whole trace.
Store ==
    /\ phase = "gated"
    /\ IF ForeignKeysHold(Accepted)
       THEN LET told == [trace EXCEPT !.gated = Examined]
            IN /\ phase' = "done"
               /\ rows' = Accepted
               /\ trace' = told
               /\ reply' = [outfits |-> Accepted, reason |-> NoOutfitReason(told, Len(Accepted))]
               /\ list' = <<>> /\ passing' = {}
               /\ UNCHANGED <<ask, closet, intent, pool, built>>
       ELSE Raises

\* A normaliser, ranking, validator, imaging or Hopit call raises.
ProviderFails == phase \in {"anchored", "filtered", "combined", "ranked", "validated"} /\ Raises

\* replay_styling_request: the outfits in rank order, less the garments that
\* have gone since, and the reason derived again from the stored trace.
Replay ==
    [outfits |-> [i \in DOMAIN rows |-> rows[i] \cap Kept],
     reason |-> NoOutfitReason(trace, Len(rows))]

-----------------------------------------------------------------------------

\* The member, meanwhile: a garment is deleted, its rows cascading, or a
\* review rejects it.
DeleteGarment(g) ==
    /\ closet[g] # "gone"
    /\ closet' = [closet EXCEPT ![g] = "gone"]

RejectGarment(g) ==
    /\ closet[g] = "usable"
    /\ closet' = [closet EXCEPT ![g] = "rejected"]

Meanwhile(g) ==
    /\ DeleteGarment(g) \/ RejectGarment(g)
    /\ UNCHANGED <<ask, phase, intent, pool, built, list, passing, trace, rows, reply>>

AssemblyNext ==
    \/ LoadAnchors \/ ReadMember \/ Filter \/ Combine \/ Rank \/ HopitRanks
    \/ Validate \/ LookupFails \/ GenerateAndGate \/ Store \/ ProviderFails
    \/ \E g \in Fickle : Meanwhile(g)

AssemblySpec == AssemblyInit /\ [][AssemblyNext]_assemblyVars

-----------------------------------------------------------------------------

AssemblyTypeOK ==
    /\ ask \in Asks
    /\ closet \in [Wardrobe -> {"usable", "rejected", "gone"}]
    /\ phase \in {"asked", "anchored", "known", "filtered", "combined", "ranked",
                  "validated", "gated", "done", "failed"}
    /\ pool \subseteq Wardrobe
    /\ ToSet(list) \cup ToSet(rows) \subseteq SUBSET Wardrobe
    /\ passing \subseteq DOMAIN list

\* The sets that dress a body: one or no garment of each slot, a top and a
\* bottom or a one-piece among them.
DressesABody ==
    {w \in SUBSET Wardrobe :
        /\ AnchorsCoverBody(w)
        /\ \A role \in SlotRoles : Cardinality(InRole(w, role)) <= 1
        /\ InRole(w, "ONE_PIECE") # {} => InRole(w, "TOP") \cup InRole(w, "BOTTOM") = {}}

\* A request closes once, all or nothing: with an error and no rows, or with
\* at most TopK outfits from the one look it took at the wardrobe, of garments
\* that still exist when it commits; and those it ranked itself are complete and
\* different.  Of Hopit's outfits only the former is promised: nobody checks
\* that they dress a body or differ (hopit_adapter.py, validate_outfits).
Promise == INSTANCE Shortlist WITH
    Complete <- DressesABody,
    owned <- Kept,
    handedOn <- ask.hopit,
    answer <- [closed |-> phase \in {"done", "failed"}, outfits |-> rows]
PromiseKept == Promise!Spec

\* An empty answer names the stage that left nothing, and reading the request
\* again gives the same answer, less the garments deleted since
\* (derive_no_outfit_reason, replay_styling_request).
EmptyIsExplained ==
    phase = "done" =>
        /\ Replay.reason = reply.reason
        /\ \A i \in DOMAIN reply.outfits : Replay.outfits[i] = reply.outfits[i] \cap Kept
        /\ reply.reason = "none" <=> reply.outfits # <<>>
        /\ reply.reason = "gates" => trace.accepted > 0
        /\ reply.reason = "validation" => trace.accepted = 0 /\ trace.validated > 0
        /\ reply.reason = "assembly" => trace.validated = 0

=============================================================================
