---------------------------- MODULE StudioProofs ----------------------------
(***************************************************************************)
(* Theorems for every wardrobe, request, photo and bound: a styling request  *)
(* implements Shortlist, pictures show what their hashes say, and the stages *)
(* that look at a photo keep the contract of PipelineStages.  The modules    *)
(* share no state; each part of this one is about one of them, and the last  *)
(* about the specification that puts all five side by side (MCStudio).      *)
(***************************************************************************)
EXTENDS MCStudio, PanelReputationProofs, SequenceTheorems

-----------------------------------------------------------------------------
(* Lists of outfits                                                         *)

Distinct(s) == \A i, j \in DOMAIN s : i # j => s[i] # s[j]

\* Some function is what Picked keeps of the first n elements.
KeptAt(k, S, s, i) ==
    IF i = 0 THEN <<>> ELSE IF i \in S THEN Append(k[i - 1], s[i]) ELSE k[i - 1]
KeptFrom(k, S, s, n) == k = [i \in 0..n |-> KeptAt(k, S, s, i)]

\* What is kept is defined, element by element.
LEMMA KeptExists ==
    ASSUME NEW S, NEW s, NEW n \in Nat
    PROVE  \E k : KeptFrom(k, S, s, n)
<1> DEFINE Good == {m \in Nat : \E k : KeptFrom(k, S, s, m)}
<1>1. 0 \in Good
  <2>1. KeptFrom([i \in 0..0 |-> <<>>], S, s, 0)
    BY DEF KeptFrom, KeptAt
  <2>2. QED
    BY <2>1
<1>2. ASSUME NEW m \in Nat, m \in Good PROVE m + 1 \in Good
  <2>1. PICK k : KeptFrom(k, S, s, m)
    BY <1>2
  <2> DEFINE e == [i \in 0..(m + 1) |-> KeptAt(k, S, s, i)]
  <2>2. \A i \in 0..m : e[i] = k[i]
    BY <2>1 DEF KeptFrom
  <2>3. ASSUME NEW i \in 0..(m + 1) PROVE KeptAt(e, S, s, i) = KeptAt(k, S, s, i)
    <3>1. i # 0 => i - 1 \in 0..m
      OBVIOUS
    <3> HIDE DEF e
    <3>2. QED
      BY <2>2, <3>1 DEF KeptAt
  <2>4. KeptFrom(e, S, s, m + 1)
    BY <2>3 DEF KeptFrom
  <2>5. QED
    BY <2>4
<1>3. Nat \subseteq Good
  <2> HIDE DEF Good
  <2>1. QED
    BY <1>1, <1>2, NaturalNumbers
<1>4. QED
  BY <1>3

\* What a selection returns: elements of the list, each different if they were,
\* and nothing only if nothing was selected.
LEMMA PickedAreThere ==
    ASSUME NEW T, NEW s \in Seq(T), NEW S
    PROVE  /\ Picked(s, S) \in Seq(T) /\ (Distinct(s) => Distinct(Picked(s, S)))
           /\ ToSet(Picked(s, S)) \subseteq ToSet(s)
           /\ Picked(s, S) = <<>> => S \cap DOMAIN s = {}
<1> DEFINE k == CHOOSE k : KeptFrom(k, S, s, Len(s))
           IsKept(t, n) ==
               /\ t \in Seq(T)
               /\ \A i \in 1..Len(t) : \E j \in 1..n : t[i] = s[j]
               /\ Distinct(s) => \A i, j \in 1..Len(t) : i # j => t[i] # t[j]
               /\ t = <<>> => S \cap (1..n) = {}
           Good == {n \in Nat : n <= Len(s) => IsKept(k[n], n)}
<1>1. KeptFrom(k, S, s, Len(s))
  BY KeptExists
<1>2. Picked(s, S) = k[Len(s)]
  BY DEF Picked, KeptFrom, KeptAt
<1> HIDE DEF k
<1>3. 0 \in Good
  BY <1>1 DEF KeptFrom, KeptAt
<1>4. ASSUME NEW n \in Nat, n \in Good PROVE n + 1 \in Good
  <2> SUFFICES ASSUME n + 1 <= Len(s) PROVE IsKept(k[n + 1], n + 1)
    OBVIOUS
  <2>1. IsKept(k[n], n) /\ n + 1 \in 0..Len(s) /\ (n + 1) - 1 = n
    <3> HIDE DEF IsKept
    <3>1. n <= Len(s) => IsKept(k[n], n)
      BY <1>4
    <3>2. Len(s) \in Nat
      OBVIOUS
    <3>3. QED
      BY <3>1, <3>2
  <2>2. k[n + 1] = IF n + 1 \in S THEN Append(k[n], s[n + 1]) ELSE k[n]
    <3>1. k[n + 1] = KeptAt(k, S, s, n + 1)
      BY <1>1, <2>1 DEF KeptFrom
    <3>2. n + 1 # 0
      OBVIOUS
    <3>3. QED
      BY <2>1, <3>1, <3>2 DEF KeptAt
  <2>3. CASE n + 1 \notin S
    <3>1. k[n + 1] = k[n]
      BY <2>2, <2>3
    <3>2. \A j \in 1..(n + 1) : j \in 1..n \/ j = n + 1
      OBVIOUS
    <3>3. QED
      BY <2>1, <2>3, <3>1, <3>2
  <2>4. CASE n + 1 \in S
    <3> DEFINE t == k[n]
               x == s[n + 1]
    <3>1. t \in Seq(T) /\ Len(t) \in Nat /\ x \in T
      BY <2>1
    <3>2. Distinct(s) => \A j \in 1..n : s[j] # x
      BY <2>1 DEF Distinct
    <3>3. /\ Append(t, x) \in Seq(T) /\ Len(Append(t, x)) = Len(t) + 1
          /\ \A i \in 1..Len(t) : Append(t, x)[i] = t[i]
          /\ Append(t, x)[Len(t) + 1] = x
      BY <3>1, AppendProperties
    <3>4. Distinct(s) => \A i \in 1..Len(t) : t[i] # x
      BY <2>1, <3>2
    <3>5. k[n + 1] = Append(t, x)
      BY <2>2, <2>4
    <3>6. \A i \in 1..(Len(t) + 1) : i \in 1..Len(t) \/ i = Len(t) + 1
      BY <3>1
    <3> HIDE DEF t
    <3>7. ASSUME NEW i \in 1..(Len(t) + 1)
          PROVE  \E j \in 1..(n + 1) : Append(t, x)[i] = s[j]
      <4>1. CASE i \in 1..Len(t)
        BY <2>1, <3>3, <4>1 DEF t
      <4>2. CASE i = Len(t) + 1
        BY <2>4, <3>3, <4>2
      <4>3. QED
        BY <3>6, <4>1, <4>2
    <3>8. ASSUME Distinct(s), NEW i \in 1..(Len(t) + 1), NEW j \in 1..(Len(t) + 1), i # j
          PROVE  Append(t, x)[i] # Append(t, x)[j]
      <4>1. CASE i \in 1..Len(t) /\ j \in 1..Len(t)
        BY <2>1, <3>3, <3>8, <4>1 DEF t
      <4>2. QED
        BY <3>3, <3>4, <3>6, <3>8, <4>1
    <3>9. Append(t, x) # <<>>
      BY <3>1, <3>3
    <3>10. QED
      BY <3>3, <3>5, <3>7, <3>8, <3>9
  <2>5. QED
    BY <2>3, <2>4
<1>5. Nat \subseteq Good
  <2> HIDE DEF Good
  <2>1. QED
    BY <1>3, <1>4, NaturalNumbers
<1>6. IsKept(k[Len(s)], Len(s))
  BY <1>5
<1> DEFINE t == k[Len(s)]
<1>7. t \in Seq(T) /\ DOMAIN t = 1..Len(t) /\ DOMAIN s = 1..Len(s)
  BY <1>6
<1>8. Distinct(s) => Distinct(t)
  BY <1>6, <1>7 DEF Distinct
<1>9. ToSet(t) \subseteq ToSet(s)
  BY <1>6, <1>7 DEF ToSet
<1>10. t = <<>> => S \cap DOMAIN s = {}
  BY <1>6, <1>7
<1>11. QED
  BY <1>2, <1>7, <1>8, <1>9, <1>10

\* The first few of a list.
LEMMA FirstFew ==
    ASSUME NEW T, NEW s \in Seq(T), NEW n \in Nat
    PROVE  LET few == SubSeq(s, 1, AtMost(n, Len(s))) IN
           /\ few \in Seq(T) /\ (Distinct(s) => Distinct(few)) /\ ToSet(few) \subseteq ToSet(s)
           /\ Len(few) <= n /\ Len(few) = AtMost(n, Len(s))
<1> DEFINE m == AtMost(n, Len(s))
           few == SubSeq(s, 1, m)
<1>1. m \in Nat /\ m <= n /\ m <= Len(s) /\ Len(s) \in Nat
  BY DEF AtMost
<1> HIDE DEF m
<1>2. few \in Seq(T) /\ Len(few) = m /\ \A i \in 1..m : few[i] = s[i]
  BY <1>1
<1> HIDE DEF few
<1>3. \A i \in 1..m : i \in DOMAIN s
  BY <1>1
<1>4. DOMAIN few = 1..m
  BY <1>2
<1>5. Distinct(s) => Distinct(few)
  BY <1>2, <1>3, <1>4 DEF Distinct
<1>6. ToSet(few) \subseteq ToSet(s)
  BY <1>2, <1>3, <1>4 DEF ToSet
<1>7. QED
  BY <1>1, <1>2, <1>5, <1>6 DEF few, m

\* A greedy order takes nothing twice.
LEMMA GreedyOrdersAreDistinct ==
    ASSUME NEW S, NEW n \in Nat, NEW value, NEW p \in GreedyOrders(S, n, value)
    PROVE  p \in Seq(S) /\ Distinct(p)
<1>1. p \in [1..n -> S] /\ \A i \in 1..n : p[i] \notin ToSet(SubSeq(p, 1, i - 1))
  BY DEF GreedyOrders
<1>2. p \in Seq(S) /\ Len(p) = n
  BY <1>1
<1>3. ASSUME NEW i \in 1..n, NEW j \in 1..n, i < j PROVE p[i] # p[j]
  <2>1. i \in DOMAIN SubSeq(p, 1, j - 1) /\ SubSeq(p, 1, j - 1)[i] = p[i]
    BY <1>2, <1>3
  <2>2. p[i] \in ToSet(SubSeq(p, 1, j - 1))
    BY <2>1 DEF ToSet
  <2>3. QED
    BY <1>1, <2>2
<1>4. \A i, j \in 1..n : i # j => i < j \/ j < i
  OBVIOUS
<1>5. Distinct(p)
  BY <1>1, <1>3, <1>4 DEF Distinct
<1>6. QED
  BY <1>2, <1>5

-----------------------------------------------------------------------------
(* Outfits                                                                  *)

\* One garment of S for each of the roles, and no other.
OnePerRole(w, S, roles) ==
    /\ w \subseteq S
    /\ \A g \in w : Role(g) \in roles
    /\ \A g, h \in w : Role(g) = Role(h) => g = h
    /\ \A role \in roles : \E g \in w : Role(g) = role

\* What is picked for some roles is one garment for each.
LEMMA OneOfEachIs ==
    ASSUME NEW S, NEW roles, NEW w \in OneOfEach(S, roles)
    PROVE  OnePerRole(w, S, roles)
<1>1. PICK pick \in [roles -> S] :
          /\ \A role \in roles : Role(pick[role]) = role
          /\ w = {pick[role] : role \in roles}
  BY DEF OneOfEach
<1>2. \A g \in w : \E role \in roles : g = pick[role] /\ Role(g) = role
  BY <1>1
<1>3. w \subseteq S
  BY <1>1
<1>4. \A g, h \in w : Role(g) = Role(h) => g = h
  BY <1>2
<1>5. \A role \in roles : \E g \in w : Role(g) = role
  BY <1>1
<1>6. QED
  BY <1>2, <1>3, <1>4, <1>5 DEF OnePerRole

\* Garments picked for other roles go with them.
LEMMA TogetherIsOnePerRole ==
    ASSUME NEW S, NEW roles, NEW others, roles \cap others = {},
           NEW w, OnePerRole(w, S, roles), NEW v, OnePerRole(v, S, others)
    PROVE  OnePerRole(w \cup v, S, roles \cup others)
BY DEF OnePerRole

\* A top and a bottom, the body that is not a one-piece.
BodyPair == {"TOP", "BOTTOM"}

\* A body is one or the other.
LEMMA BodiesAre ==
    ASSUME NEW S, NEW b \in Bodies(S)
    PROVE  OnePerRole(b, S, BodyPair) \/ OnePerRole(b, S, {"ONE_PIECE"})
BY OneOfEachIs DEF Bodies, BodyPair

\* A body, or what it was dressed in, with no more than one garment of each slot.
Dressing(w, S) ==
    \E roles \in SUBSET SlotRoles :
        /\ OnePerRole(w, S, roles)
        /\ \/ BodyPair \subseteq roles /\ "ONE_PIECE" \notin roles
           \/ "ONE_PIECE" \in roles /\ roles \cap BodyPair = {}

\* A set without two members has at most one.
LEMMA OneOfARole ==
    ASSUME NEW S, \A g, h \in S : g = h
    PROVE  Cardinality(S) <= 1
<1>1. CASE S = {}
  BY <1>1, FS_EmptySet
<1>2. CASE S # {}
  <2>1. PICK g : S = {g}
    BY <1>2
  <2>2. QED
    BY <2>1, FS_Singleton
<1>3. QED
  BY <1>1, <1>2

\* What is dressed so, with extras of no slot, dresses a body.
LEMMA DressingDresses ==
    ASSUME NEW S \in SUBSET Wardrobe, NEW w, Dressing(w, S),
           NEW extras \in SUBSET S, \A e \in extras : Role(e) \notin SlotRoles
    PROVE  w \cup extras \in DressesABody /\ w \cup extras \subseteq S
<1> DEFINE all == w \cup extras
<1>1. PICK roles \in SUBSET SlotRoles :
          /\ OnePerRole(w, S, roles)
          /\ \/ BodyPair \subseteq roles /\ "ONE_PIECE" \notin roles
             \/ "ONE_PIECE" \in roles /\ roles \cap BodyPair = {}
  BY DEF Dressing
<1>2. all \subseteq S /\ all \subseteq Wardrobe
  BY <1>1 DEF OnePerRole
<1>3. \A g \in all : Role(g) \in SlotRoles => g \in w /\ Role(g) \in roles
  BY <1>1 DEF OnePerRole
<1>4. \A role \in roles : role \in {Role(a) : a \in all}
  BY <1>1 DEF OnePerRole
<1>5. AnchorsCoverBody(all)
  BY <1>1, <1>4 DEF AnchorsCoverBody, BodyPair
<1>6. ASSUME NEW role \in SlotRoles PROVE Cardinality(InRole(all, role)) <= 1
  <2>1. \A g, h \in InRole(all, role) : g = h
    BY <1>1, <1>3 DEF InRole, OnePerRole
  <2>2. QED
    BY <2>1, OneOfARole
<1>7. InRole(all, "ONE_PIECE") # {} => InRole(all, "TOP") \cup InRole(all, "BOTTOM") = {}
  <2>1. {"ONE_PIECE", "TOP", "BOTTOM"} \subseteq SlotRoles
    BY DEF SlotRoles, BodyRoles
  <2>2. \A role \in {"ONE_PIECE", "TOP", "BOTTOM"} :
            InRole(all, role) # {} => role \in roles
    BY <1>3, <2>1 DEF InRole
  <2>3. QED
    BY <1>1, <2>2 DEF BodyPair
<1>8. QED
  BY <1>2, <1>5, <1>6, <1>7 DEF DressesABody

\* Each body with each choice of footwear and outerwear is so dressed.
LEMMA DressedIsDressing ==
    ASSUME NEW S, NEW roles \in SUBSET {"FOOTWEAR", "OUTERWEAR"},
           NEW w \in Dressed(S, Bodies(S), roles)
    PROVE  \E body \in {BodyPair, {"ONE_PIECE"}}, more \in SUBSET roles :
               OnePerRole(w, S, body \cup more)
<1>1. PICK b \in Bodies(S),
           r \in OneOfEach(S, {role \in roles : InRole(S, role) # {}}) : w = b \cup r
  BY DEF Dressed
<1> DEFINE more == {role \in roles : InRole(S, role) # {}}
<1>2. OnePerRole(r, S, more) /\ more \subseteq roles
  BY <1>1, OneOfEachIs
<1>3. PICK body \in {BodyPair, {"ONE_PIECE"}} : OnePerRole(b, S, body)
  BY <1>1, BodiesAre
<1>4. body \cap more = {}
  BY <1>2 DEF BodyPair
<1> HIDE DEF more
<1>5. OnePerRole(w, S, body \cup more)
  BY <1>1, <1>2, <1>3, <1>4, TogetherIsOnePerRole
<1>6. QED
  BY <1>2, <1>5

\* So is such a choice with an outer layer, when it had none.
LEMMA Dressings ==
    ASSUME NEW S, NEW body \in {BodyPair, {"ONE_PIECE"}},
           NEW more \in SUBSET {"FOOTWEAR", "OUTERWEAR"},
           NEW w, OnePerRole(w, S, body \cup more)
    PROVE  /\ Dressing(w, S)
           /\ "OUTERWEAR" \notin more =>
                 \A o \in InRole(S, "OUTERWEAR") : Dressing(w \cup {o}, S)
<1>1. ASSUME NEW v, NEW m \in SUBSET {"FOOTWEAR", "OUTERWEAR"}, OnePerRole(v, S, body \cup m)
      PROVE  Dressing(v, S)
  <2>1. body \cup m \in SUBSET SlotRoles
    BY DEF SlotRoles, BodyRoles, BodyPair
  <2>2. \/ BodyPair \subseteq body \cup m /\ "ONE_PIECE" \notin body \cup m
        \/ "ONE_PIECE" \in body \cup m /\ (body \cup m) \cap BodyPair = {}
    BY DEF BodyPair
  <2>3. QED
    BY <1>1, <2>1, <2>2 DEF Dressing
<1>2. ASSUME "OUTERWEAR" \notin more, NEW o \in InRole(S, "OUTERWEAR")
      PROVE  Dressing(w \cup {o}, S)
  <2>1. OnePerRole({o}, S, {"OUTERWEAR"})
    BY DEF InRole, OnePerRole
  <2>2. (body \cup more) \cap {"OUTERWEAR"} = {}
    BY <1>2 DEF BodyPair
  <2>3. OnePerRole(w \cup {o}, S, (body \cup more) \cup {"OUTERWEAR"})
    BY <2>1, <2>2, TogetherIsOnePerRole
  <2>4. (body \cup more) \cup {"OUTERWEAR"} = body \cup (more \cup {"OUTERWEAR"})
    OBVIOUS
  <2>5. more \cup {"OUTERWEAR"} \in SUBSET {"FOOTWEAR", "OUTERWEAR"}
    OBVIOUS
  <2>6. QED
    BY <1>1, <2>3, <2>4, <2>5
<1>3. QED
  BY <1>1, <1>2

\* The outfits out of some garments.
OutfitsOf(S) == {w \in DressesABody : w \subseteq S}

\* Without extras, what is so dressed is an outfit.
LEMMA DressingIsOutfit ==
    ASSUME NEW S \in SUBSET Wardrobe, NEW w, Dressing(w, S)
    PROVE  w \in OutfitsOf(S)
<1>1. PICK none \in SUBSET S : none = {}
  OBVIOUS
<1>2. w \cup none \in DressesABody /\ w \cup none \subseteq S
  <2>1. \A e \in none : Role(e) \notin SlotRoles
    BY <1>1
  <2>2. QED
    BY <2>1, DressingDresses
<1>3. w \cup none = w
  BY <1>1
<1>4. QED
  BY <1>2, <1>3 DEF OutfitsOf

\* Every way of combining the garments of a request makes outfits of them.
LEMMA AnchorsMakeOutfits ==
    ASSUME NEW S \in SUBSET Wardrobe, NEW c \in AnchorsOnlyCombinations(S)
    PROVE  c.worn \in OutfitsOf(S)
<1> DEFINE extras == {a \in S : Role(a) \notin SlotRoles}
<1>1. PICK b \in Dressed(S, Bodies(S), {"FOOTWEAR", "OUTERWEAR"}) : c = Plain(b \cup extras)
  BY DEF AnchorsOnlyCombinations
<1>2. PICK body \in {BodyPair, {"ONE_PIECE"}}, more \in SUBSET {"FOOTWEAR", "OUTERWEAR"} :
          OnePerRole(b, S, body \cup more)
  BY <1>1, DressedIsDressing
<1>3. Dressing(b, S)
  BY <1>2, Dressings
<1>4. extras \in SUBSET S /\ \A e \in extras : Role(e) \notin SlotRoles
  OBVIOUS
<1> HIDE DEF extras
<1>5. b \cup extras \in DressesABody /\ b \cup extras \subseteq S
  BY <1>3, <1>4, DressingDresses
<1>6. QED
  BY <1>1, <1>5 DEF Plain, OutfitsOf

\* So does every way of combining what was retrieved.
LEMMA CombinationsAreOutfits ==
    ASSUME NEW S \in SUBSET Wardrobe, NEW R \in SUBSET S, NEW c \in BuildCombinations(R)
    PROVE  c.worn \in OutfitsOf(S)
<1>1. \A w \in OutfitsOf(R) : w \in OutfitsOf(S)
  BY DEF OutfitsOf
<1>2. PICK b \in Dressed(R, Bodies(R), {"FOOTWEAR"}) :
          c.worn = b \/ \E o \in InRole(R, "OUTERWEAR") : c.worn = b \cup {o}
  <2> DEFINE bases == Dressed(R, Bodies(R), {"FOOTWEAR"})
             outers == IF intent.dressy THEN {} ELSE InRole(R, "OUTERWEAR")
  <2>1. c \in {Plain(b) : b \in bases} \cup Layered(bases, outers)
    BY DEF BuildCombinations
  <2>2. outers \subseteq InRole(R, "OUTERWEAR")
    OBVIOUS
  <2> HIDE DEF bases, outers
  <2>3. CASE c \in {Plain(b) : b \in bases}
    <3>1. PICK b \in bases : c = Plain(b)
      BY <2>3
    <3>2. c.worn = b
      BY <3>1 DEF Plain
    <3>3. QED
      BY <3>2 DEF bases
  <2>4. CASE c \in Layered(bases, outers)
    <3>1. PICK b \in bases, o \in outers : c = [worn |-> b \cup {o}, base |-> b]
      BY <2>4 DEF Layered
    <3>2. QED
      BY <2>2, <3>1 DEF bases
  <2>5. QED
    BY <2>1, <2>3, <2>4
<1>3. PICK body \in {BodyPair, {"ONE_PIECE"}}, more \in SUBSET {"FOOTWEAR"} :
          OnePerRole(b, R, body \cup more)
  BY <1>2, DressedIsDressing
<1>4. more \in SUBSET {"FOOTWEAR", "OUTERWEAR"} /\ "OUTERWEAR" \notin more
  BY <1>3
<1>5. Dressing(c.worn, R)
  BY <1>2, <1>3, <1>4, Dressings
<1>6. QED
  BY <1>1, <1>5, DressingIsOutfit

\* Hopit's outfits are sets of garments.
LEMMA HopitAnswersAreSets == \A s \in HopitAnswers : s \in Seq(SUBSET Wardrobe)
<1>1. HopitOutfits \subseteq SUBSET Wardrobe
  BY AssemblyAssumption
<1>2. QED
  BY <1>1 DEF HopitAnswers

-----------------------------------------------------------------------------
(* One styling request                                                      *)

Phases == {"asked", "anchored", "known", "filtered", "combined", "ranked",
           "validated", "gated", "done", "failed"}

RequestTypes ==
    /\ ask \in Asks /\ pool \subseteq Wardrobe /\ phase \in Phases
    /\ closet \in [Wardrobe -> {"usable", "rejected", "gone"}]
    /\ trace \in [validated : Nat, accepted : Nat, gated : Nat]

\* The request looks at its garments once: the pinned ones first, else those of
\* the filter.
LooksOnce ==
    /\ phase = "asked" => pool = {}
    /\ phase \in {"anchored", "known"} => pool = ask.anchors

\* What may be ranked: outfits of the pool, or whatever Hopit says.
MayBeRanked == IF ask.hopit THEN SUBSET Wardrobe ELSE OutfitsOf(pool)

\* Whatever is still in the running is a list of what may be ranked, different
\* outfits unless Hopit's; what was validated has been looked up.
InTheRunning ==
    /\ \A c \in built : c.worn \in OutfitsOf(pool)
    /\ phase \notin {"combined", "ranked"} => built = {}
    /\ phase = "combined" => ~ask.hopit
    /\ list \in Seq(MayBeRanked) /\ (ask.hopit \/ Distinct(list))
    /\ phase \notin {"ranked", "validated", "gated"} => list = <<>>
    /\ phase # "ranked" => LookedUp
    /\ passing \subseteq DOMAIN list
    /\ phase # "gated" => passing = {}

\* Nothing is stored before all is, with what the trace says of it.
StoredAtOnce ==
    /\ phase # "done" => rows = <<>>
    /\ rows \in Seq(SUBSET Wardrobe)
    /\ phase \in {"validated", "gated"} => trace.accepted = Len(list)
    /\ phase = "done" =>
          /\ reply = [outfits |-> rows, reason |-> NoOutfitReason(trace, Len(rows))]
          /\ rows = <<>> => trace.gated = trace.accepted

AssemblyInv == RequestTypes /\ LooksOnce /\ InTheRunning /\ StoredAtOnce

\* The list of those in the running, and those of them that passed.
LEMMA ListIs ==
    ASSUME AssemblyInv
    PROVE  /\ list \in Seq(MayBeRanked) /\ (ask.hopit \/ Distinct(list)) /\ Len(list) \in Nat
           /\ passing \subseteq DOMAIN list
BY DEF AssemblyInv, InTheRunning

\* An empty list is in order, whoever ranks.
LEMMA NothingRuns ==
    list' = <<>> => list' \in Seq(MayBeRanked') /\ Distinct(list') /\ LookedUp'
BY DEF Distinct, LookedUp

\* An exception closes a request with nothing.
LEMMA RaisesStep ==
    ASSUME AssemblyInv, Raises, phase # "done"
    PROVE  AssemblyInv'
<1>1. /\ phase' = "failed" /\ built' = {} /\ list' = <<>> /\ passing' = {}
      /\ UNCHANGED <<ask, closet, intent, pool, trace, rows, reply>>
  BY DEF Raises
<1>2. RequestTypes' /\ LooksOnce'
  BY <1>1 DEF AssemblyInv, RequestTypes, LooksOnce, Phases
<1>3. InTheRunning'
  BY <1>1, NothingRuns DEF InTheRunning
<1>4. StoredAtOnce'
  BY <1>1 DEF AssemblyInv, StoredAtOnce
<1>5. QED
  BY <1>2, <1>3, <1>4 DEF AssemblyInv

\* The filters leave some of what they are given.
LEMMA FiltersChoose ==
    /\ \A S, keep : NeverToZero(S, keep) \subseteq S
    /\ FilterCandidates \subseteq Usable
    /\ \A S : ApplyHardConstraints(S) \subseteq S
BY DEF NeverToZero, FilterCandidates, ApplyHardConstraints

\* Up to the filter nothing runs yet, and what is looked at changes at will.
LEMMA LookingStep ==
    ASSUME AssemblyInv, LoadAnchors \/ ReadMember \/ Filter
    PROVE  AssemblyInv'
<1>1. /\ ask \in Asks /\ ask.anchors \subseteq Wardrobe /\ pool \subseteq Wardrobe
      /\ phase \notin {"combined", "ranked", "validated", "gated", "done"}
      /\ phase # "done"
  BY AssemblyAssumption DEF AssemblyInv, RequestTypes, LoadAnchors, ReadMember, Filter
<1>2. CASE Raises
  BY <1>1, <1>2, RaisesStep
<1>3. ASSUME /\ phase' \in {"anchored", "known", "filtered"} /\ pool' \subseteq Wardrobe
             /\ phase' \in {"anchored", "known"} => pool' = ask.anchors
             /\ UNCHANGED <<ask, closet, built, list, passing, trace, rows, reply>>
      PROVE  AssemblyInv'
  <2>1. RequestTypes' /\ LooksOnce'
    BY <1>3 DEF AssemblyInv, RequestTypes, LooksOnce, Phases
  <2>2. built = {} /\ list = <<>> /\ passing = {}
    BY <1>1 DEF AssemblyInv, InTheRunning
  <2>3. InTheRunning'
    BY <1>3, <2>2, NothingRuns DEF InTheRunning
  <2>4. StoredAtOnce'
    BY <1>1, <1>3 DEF AssemblyInv, StoredAtOnce
  <2>5. QED
    BY <2>1, <2>3, <2>4 DEF AssemblyInv
<1>4. CASE LoadAnchors /\ ~Raises
  <2>1. /\ phase' = "anchored" /\ pool' = ask.anchors
        /\ UNCHANGED <<ask, closet, intent, built, list, passing, trace, rows, reply>>
    BY <1>4 DEF LoadAnchors
  <2>2. QED
    BY <1>1, <1>3, <2>1
<1>5. CASE ReadMember
  <2>1. /\ phase' = "known" /\ pool' = pool /\ pool = ask.anchors
        /\ UNCHANGED <<ask, closet, built, list, passing, trace, rows, reply>>
    BY <1>5 DEF ReadMember, AssemblyInv, LooksOnce
  <2>2. QED
    BY <1>1, <1>3, <2>1
<1>6. CASE Filter
  <2>1. /\ phase' = "filtered"
        /\ UNCHANGED <<ask, closet, intent, built, list, passing, trace, rows, reply>>
    BY <1>6 DEF Filter
  <2>2. pool' \subseteq Wardrobe
    <3>1. ApplyHardConstraints(ask.anchors) \cup ask.anchors \subseteq Wardrobe
      BY <1>1, FiltersChoose
    <3>2. ApplyHardConstraints(FilterCandidates) \subseteq Wardrobe
      BY FiltersChoose DEF Usable
    <3>3. QED
      BY <1>6, <3>1, <3>2 DEF Filter
  <2>3. QED
    BY <1>3, <2>1, <2>2
<1>7. QED
  BY <1>2, <1>4, <1>5, <1>6

\* What is combined is made of the garments looked at.
LEMMA CombineStep ==
    ASSUME AssemblyInv, Combine
    PROVE  AssemblyInv'
<1>1. /\ phase = "filtered" /\ ~ask.hopit /\ phase' = "combined"
      /\ UNCHANGED <<ask, closet, intent, pool, list, passing, trace, rows, reply>>
  BY DEF Combine
<1>2. pool \in SUBSET Wardrobe
  BY DEF AssemblyInv, RequestTypes
<1>3. \A combos, eager : \A some \in DiversityCapped(combos, eager) : some \subseteq combos
  BY DEF DiversityCapped
<1>4. \A c \in built' : c.worn \in OutfitsOf(pool)
  <2>1. CASE built' \in DiversityCapped(AnchorsOnlyCombinations(pool), [g \in pool |-> 100])
    <3>1. built' \subseteq AnchorsOnlyCombinations(pool)
      BY <1>3, <2>1
    <3>2. QED
      BY <1>2, <3>1, AnchorsMakeOutfits
  <2>2. ASSUME NEW R \in Retrieved(pool), NEW eager \in [Wardrobe -> Eagerness],
               built' \in DiversityCapped(BuildCombinations(R), eager)
        PROVE  \A c \in built' : c.worn \in OutfitsOf(pool)
    <3>1. built' \subseteq BuildCombinations(R) /\ R \in SUBSET pool
      BY <1>3, <2>2 DEF Retrieved
    <3>2. QED
      BY <1>2, <3>1, CombinationsAreOutfits
  <2>3. QED
    BY <2>1, <2>2 DEF Combine
<1>5. RequestTypes' /\ LooksOnce'
  BY <1>1 DEF AssemblyInv, RequestTypes, LooksOnce, Phases
<1>6. OutfitsOf(pool)' = OutfitsOf(pool)
  BY <1>1 DEF OutfitsOf
<1>7. InTheRunning'
  <2>1. list = <<>> /\ list' = <<>> /\ passing' = {}
    BY <1>1 DEF AssemblyInv, InTheRunning
  <2>2. QED
    BY <1>1, <1>4, <1>6, <2>1, NothingRuns DEF InTheRunning
<1>8. StoredAtOnce'
  BY <1>1 DEF AssemblyInv, StoredAtOnce
<1>9. QED
  BY <1>5, <1>7, <1>8 DEF AssemblyInv

\* What is ranked, validated or gated was in the running.
LEMMA ShortenStep ==
    ASSUME AssemblyInv, phase' \in {"ranked", "validated", "gated"},
           phase \notin {"done", "failed"},
           list' \in Seq(MayBeRanked), ask.hopit \/ Distinct(list'),
           phase' # "ranked" => \A i \in DOMAIN list' : list'[i] \subseteq pool,
           built' = built \/ built' = {}, phase' # "ranked" => built' = {},
           passing' \subseteq DOMAIN list', phase' # "gated" => passing' = {},
           trace' \in [validated : Nat, accepted : Nat, gated : Nat],
           phase' \in {"validated", "gated"} => trace'.accepted = Len(list'),
           UNCHANGED <<ask, closet, pool, rows, reply>>
    PROVE  AssemblyInv'
<1>1. RequestTypes' /\ LooksOnce'
  BY DEF AssemblyInv, RequestTypes, LooksOnce, Phases
<1>2. OutfitsOf(pool)' = OutfitsOf(pool) /\ MayBeRanked' = MayBeRanked
  BY DEF OutfitsOf, MayBeRanked
<1>3. InTheRunning'
  BY <1>2 DEF AssemblyInv, InTheRunning, Distinct, LookedUp
<1>4. StoredAtOnce'
  BY DEF AssemblyInv, StoredAtOnce
<1>5. QED
  BY <1>1, <1>3, <1>4 DEF AssemblyInv

\* Ranking keeps some of what was combined, in some order.
LEMMA RankStep ==
    ASSUME AssemblyInv, Rank
    PROVE  AssemblyInv'
<1>1. /\ phase = "combined" /\ phase' = "ranked" /\ ~ask.hopit
      /\ UNCHANGED <<ask, closet, intent, pool, built, passing, trace, rows, reply>>
  BY DEF Rank, AssemblyInv, InTheRunning
<1>2. PICK score, kept :
          /\ kept = {c.worn : c \in {c \in Survivors(built) : WorthLayering(c, score)}}
          /\ list' \in GreedyOrders(kept, AtMost(PoolSize, Cardinality(kept)),
                                    [w \in kept |-> Scaled(score[w])])
  BY DEF Rank
<1>3. kept \subseteq OutfitsOf(pool)
  BY <1>2 DEF Survivors, AssemblyInv, InTheRunning
<1>4. IsFiniteSet(kept)
  <2>1. IsFiniteSet(SUBSET Wardrobe)
    BY AssemblyAssumption, FS_SUBSET
  <2>2. kept \in SUBSET (SUBSET Wardrobe)
    BY <1>3 DEF OutfitsOf, DressesABody
  <2>3. QED
    BY <2>1, <2>2, FS_Subset
<1>5. AtMost(PoolSize, Cardinality(kept)) \in Nat
  BY <1>4, FS_CardinalityType, AssemblyAssumption DEF AtMost, PoolSize
<1>6. list' \in Seq(kept) /\ Distinct(list')
  BY <1>2, <1>5, GreedyOrdersAreDistinct
<1>7. list' \in Seq(MayBeRanked)
  BY <1>1, <1>3, <1>6 DEF MayBeRanked
<1>8. passing = {} /\ trace \in [validated : Nat, accepted : Nat, gated : Nat]
  BY <1>1 DEF AssemblyInv, RequestTypes, InTheRunning
<1>9. QED
  BY <1>1, <1>6, <1>7, <1>8, ShortenStep

\* Hopit's answers stand in for the combinations, less what the member disliked.
LEMMA HopitStep ==
    ASSUME AssemblyInv, HopitRanks
    PROVE  AssemblyInv'
<1>1. /\ phase = "filtered" /\ phase' = "ranked" /\ ask.hopit
      /\ UNCHANGED <<ask, closet, intent, pool, built, passing, trace, rows, reply>>
  BY DEF HopitRanks
<1>2. PICK s \in HopitAnswers : \E I : list' = Picked(s, I)
  BY DEF HopitRanks
<1>3. passing = {} /\ trace \in [validated : Nat, accepted : Nat, gated : Nat]
  BY <1>1 DEF AssemblyInv, RequestTypes, InTheRunning
<1>4. s \in Seq(SUBSET Wardrobe)
  BY HopitAnswersAreSets
<1>5. list' \in Seq(MayBeRanked)
  BY <1>1, <1>2, <1>4, PickedAreThere DEF MayBeRanked
<1>6. QED
  BY <1>1, <1>3, <1>5, ShortenStep

\* Validation keeps the best few that did not fail.
LEMMA ValidateStep ==
    ASSUME AssemblyInv, Validate
    PROVE  AssemblyInv'
<1>1. /\ phase = "ranked" /\ phase' = "validated" /\ built' = {} /\ LookedUp
      /\ UNCHANGED <<ask, closet, intent, pool, passing, rows, reply>>
  BY DEF Validate
<1>2. PICK sound, S :
          /\ sound = Picked(list, S)
          /\ list' = SubSeq(sound, 1, AtMost(TopK + FallbackDepth, Len(sound)))
          /\ trace' = [trace EXCEPT !.validated = Len(list), !.accepted = Len(list')]
  BY DEF Validate
<1>3. passing = {} /\ trace \in [validated : Nat, accepted : Nat, gated : Nat]
  BY <1>1 DEF AssemblyInv, RequestTypes, InTheRunning
<1>4. /\ sound \in Seq(MayBeRanked) /\ (ask.hopit \/ Distinct(sound))
      /\ ToSet(sound) \subseteq ToSet(list)
  BY <1>2, ListIs, PickedAreThere
<1>5. TopK + FallbackDepth \in Nat
  BY AssemblyAssumption
<1>6. /\ list' \in Seq(MayBeRanked) /\ (ask.hopit \/ Distinct(list'))
      /\ ToSet(list') \subseteq ToSet(list)
  BY <1>2, <1>4, <1>5, FirstFew
<1>9. \A i \in DOMAIN list' : list'[i] \subseteq pool
  BY <1>1, <1>6 DEF ToSet, LookedUp
<1>7. /\ trace' \in [validated : Nat, accepted : Nat, gated : Nat]
      /\ trace'.accepted = Len(list')
  <2>1. Len(list) \in Nat /\ Len(list') \in Nat
    BY <1>6, ListIs
  <2>2. QED
    BY <1>2, <1>3, <2>1
<1>8. QED
  BY <1>1, <1>3, <1>6, <1>7, <1>9, ShortenStep

\* The gates mark those whose picture passed.
LEMMA GateStep ==
    ASSUME AssemblyInv, GenerateAndGate
    PROVE  AssemblyInv'
<1>1. /\ phase = "validated" /\ phase' = "gated"
      /\ UNCHANGED <<ask, closet, intent, pool, built, list, trace, rows, reply>>
      /\ passing' \subseteq DOMAIN list
  BY DEF GenerateAndGate
<1>2. /\ trace \in [validated : Nat, accepted : Nat, gated : Nat]
      /\ trace.accepted = Len(list) /\ built = {} /\ LookedUp
  BY <1>1 DEF AssemblyInv, RequestTypes, InTheRunning, StoredAtOnce
<1>3. QED
  BY <1>1, <1>2, ListIs, ShortenStep DEF LookedUp

\* What will be stored: no more than asked for, of what passed.
LEMMA AcceptedAre ==
    ASSUME AssemblyInv
    PROVE  /\ Accepted \in Seq(MayBeRanked) /\ (ask.hopit \/ Distinct(Accepted))
           /\ Len(Accepted) <= TopK /\ ToSet(Accepted) \subseteq ToSet(list)
           /\ Examined \in Nat /\ (Accepted = <<>> => Examined = Len(list))
<1> DEFINE passed == Picked(list, passing)
<1>1. /\ passed \in Seq(MayBeRanked) /\ (ask.hopit \/ Distinct(passed))
      /\ ToSet(passed) \subseteq ToSet(list)
      /\ passed = <<>> => passing \cap DOMAIN list = {}
  BY ListIs, PickedAreThere
<1>2. TopK \in Nat /\ TopK > 0
  BY AssemblyAssumption
<1>3. Accepted = SubSeq(passed, 1, AtMost(TopK, Len(passed)))
  BY DEF Accepted
<1> HIDE DEF passed
<1>4. /\ Accepted \in Seq(MayBeRanked) /\ (ask.hopit \/ Distinct(Accepted))
      /\ Len(Accepted) <= TopK /\ Len(Accepted) = AtMost(TopK, Len(passed))
      /\ ToSet(Accepted) \subseteq ToSet(list)
  BY <1>1, <1>2, <1>3, FirstFew
<1> DEFINE Before(i) == {j \in passing : j < i}
           Looked == {i \in DOMAIN list : Cardinality(Before(i)) < TopK}
<1>5. Len(list) \in Nat /\ DOMAIN list = 1..Len(list) /\ passing \subseteq DOMAIN list
  BY ListIs
<1>6. IsFiniteSet(DOMAIN list) /\ Cardinality(DOMAIN list) = Len(list)
  BY <1>5, FS_Interval
<1>7. Examined = Cardinality(Looked)
  BY DEF Examined
<1>8. Examined \in Nat
  <2>1. IsFiniteSet(Looked)
    BY <1>6, FS_Subset
  <2>2. QED
    BY <1>7, <2>1, FS_CardinalityType
<1>9. ASSUME Accepted = <<>> PROVE Examined = Len(list)
  <2>1. passed = <<>>
    BY <1>1, <1>2, <1>4, <1>9 DEF AtMost
  <2>2. passing = {}
    BY <1>1, <1>5, <2>1
  <2>3. \A i : Cardinality(Before(i)) = 0
    BY <2>2, FS_EmptySet
  <2>4. Looked = DOMAIN list
    BY <1>2, <2>3
  <2>5. QED
    BY <1>6, <1>7, <2>4
<1>10. QED
  BY <1>4, <1>8, <1>9

\* One commit stores what was accepted and says so in the trace.
LEMMA StoreStep ==
    ASSUME AssemblyInv, Store
    PROVE  AssemblyInv'
<1>1. phase = "gated"
  BY DEF Store
<1>2. CASE Raises
  BY <1>1, <1>2, RaisesStep
<1>3. CASE ~Raises
  <2> DEFINE told == [trace EXCEPT !.gated = Examined]
  <2>1. /\ phase' = "done" /\ rows' = Accepted /\ trace' = told
        /\ reply' = [outfits |-> Accepted, reason |-> NoOutfitReason(told, Len(Accepted))]
        /\ list' = <<>> /\ passing' = {}
        /\ UNCHANGED <<ask, closet, intent, pool, built>>
    BY <1>3 DEF Store
  <2>2. /\ trace \in [validated : Nat, accepted : Nat, gated : Nat]
        /\ trace.accepted = Len(list) /\ built = {}
    BY <1>1 DEF AssemblyInv, RequestTypes, InTheRunning, StoredAtOnce
  <2>3. /\ trace' \in [validated : Nat, accepted : Nat, gated : Nat]
        /\ trace'.gated = Examined /\ trace'.accepted = trace.accepted
    BY <2>1, <2>2, AcceptedAre
  <2> HIDE DEF told
  <2>4. RequestTypes' /\ LooksOnce'
    BY <2>1, <2>3 DEF AssemblyInv, RequestTypes, LooksOnce, Phases
  <2>5. InTheRunning'
    BY <2>1, <2>2, NothingRuns DEF InTheRunning
  <2>6. Accepted \in Seq(SUBSET Wardrobe)
    <3>1. MayBeRanked \subseteq SUBSET Wardrobe
      BY DEF MayBeRanked, OutfitsOf, DressesABody
    <3>2. QED
      BY <3>1, AcceptedAre
  <2>7. reply' = [outfits |-> rows', reason |-> NoOutfitReason(trace, Len(rows))']
    BY <2>1 DEF NoOutfitReason
  <2>8. rows' = <<>> => trace'.gated = trace'.accepted
    BY <2>1, <2>2, <2>3, AcceptedAre
  <2>9. StoredAtOnce'
    BY <2>1, <2>6, <2>7, <2>8 DEF StoredAtOnce
  <2>10. QED
    BY <2>4, <2>5, <2>9 DEF AssemblyInv
<1>4. QED
  BY <1>2, <1>3

\* The member's garments may go at any time.
LEMMA MeanwhileStep ==
    ASSUME AssemblyInv, NEW g \in Fickle, Meanwhile(g)
    PROVE  AssemblyInv'
<1>1. UNCHANGED <<ask, phase, intent, pool, built, list, passing, trace, rows, reply>>
  BY DEF Meanwhile
<1>2. closet' \in [Wardrobe -> {"usable", "rejected", "gone"}]
  BY DEF Meanwhile, DeleteGarment, RejectGarment, AssemblyInv, RequestTypes
<1>3. RequestTypes' /\ LooksOnce'
  BY <1>1, <1>2 DEF AssemblyInv, RequestTypes, LooksOnce
<1>4. OutfitsOf(pool)' = OutfitsOf(pool) /\ MayBeRanked' = MayBeRanked
  BY <1>1 DEF OutfitsOf, MayBeRanked
<1>5. InTheRunning'
  BY <1>1, <1>4 DEF AssemblyInv, InTheRunning, Distinct, LookedUp
<1>6. StoredAtOnce'
  BY <1>1 DEF AssemblyInv, StoredAtOnce, NoOutfitReason
<1>7. QED
  BY <1>3, <1>5, <1>6 DEF AssemblyInv

\* A request starts with nothing.
LEMMA AssemblyStart == AssemblyInit => AssemblyInv
<1> SUFFICES ASSUME AssemblyInit PROVE AssemblyInv
  OBVIOUS
<1>1. RequestTypes /\ LooksOnce
  BY DEF AssemblyInit, RequestTypes, LooksOnce, Phases, BlankTrace
<1>2. InTheRunning
  BY DEF AssemblyInit, InTheRunning, Distinct, LookedUp
<1>3. StoredAtOnce
  BY DEF AssemblyInit, StoredAtOnce
<1>4. QED
  BY <1>1, <1>2, <1>3 DEF AssemblyInv

\* Each step of a request keeps its invariant.
LEMMA AssemblyStep == AssemblyInv /\ [AssemblyNext]_assemblyVars => AssemblyInv'
<1> SUFFICES ASSUME AssemblyInv, [AssemblyNext]_assemblyVars PROVE AssemblyInv'
  OBVIOUS
<1>1. CASE UNCHANGED assemblyVars
  <2>1. UNCHANGED <<ask, closet, phase, intent, pool, built, list, passing, trace, rows, reply>>
    BY <1>1 DEF assemblyVars
  <2>2. OutfitsOf(pool)' = OutfitsOf(pool) /\ MayBeRanked' = MayBeRanked
    BY <2>1 DEF OutfitsOf, MayBeRanked
  <2>3. RequestTypes' /\ LooksOnce' /\ InTheRunning' /\ StoredAtOnce'
    BY <2>1, <2>2 DEF AssemblyInv, RequestTypes, LooksOnce, InTheRunning, Distinct, LookedUp,
       StoredAtOnce, NoOutfitReason
  <2>4. QED
    BY <2>3 DEF AssemblyInv
<1>2. CASE ProviderFails \/ LookupFails
  BY <1>2, RaisesStep DEF ProviderFails, LookupFails
<1>3. QED
  BY <1>1, <1>2, LookingStep, CombineStep, RankStep, HopitStep, ValidateStep, GateStep,
     StoreStep, MeanwhileStep DEF AssemblyNext

\* The invariant of a request holds throughout.
LEMMA AssemblyInvariant == AssemblySpec => []AssemblyInv
BY AssemblyStart, AssemblyStep, PTL DEF AssemblySpec

(***************************************************************************)
(* A request and what it works on keep their types.                         *)
(***************************************************************************)
THEOREM AssemblyTypeCorrect == AssemblySpec => []AssemblyTypeOK
<1>1. AssemblyInv => AssemblyTypeOK
  <2> SUFFICES ASSUME AssemblyInv PROVE AssemblyTypeOK
    OBVIOUS
  <2>1. MayBeRanked \subseteq SUBSET Wardrobe
    BY DEF MayBeRanked, OutfitsOf, DressesABody
  <2>2. ToSet(list) \subseteq SUBSET Wardrobe
    BY <2>1, ListIs DEF ToSet
  <2>3. ToSet(rows) \subseteq SUBSET Wardrobe
    BY DEF AssemblyInv, StoredAtOnce, ToSet
  <2>4. QED
    BY <2>2, <2>3 DEF AssemblyInv, RequestTypes, InTheRunning, Phases, AssemblyTypeOK
<1>2. QED
  BY <1>1, AssemblyInvariant, PTL

(***************************************************************************)
(* For every wardrobe, request and choice of the models: an answer without  *)
(* outfits names the stage that left none, and the answer and its reason    *)
(* can be derived again from what was stored.                               *)
(***************************************************************************)
THEOREM EmptyAnswersAreExplained == AssemblySpec => []EmptyIsExplained
<1>1. AssemblyInv => EmptyIsExplained
  <2> SUFFICES ASSUME AssemblyInv, phase = "done" PROVE EmptyIsExplained
    BY DEF EmptyIsExplained
  <2>1. /\ reply = [outfits |-> rows, reason |-> NoOutfitReason(trace, Len(rows))]
        /\ rows = <<>> => trace.gated = trace.accepted
        /\ rows \in Seq(SUBSET Wardrobe)
    BY DEF AssemblyInv, StoredAtOnce
  <2>2. reply.outfits = rows /\ reply.reason = NoOutfitReason(trace, Len(rows))
    BY <2>1
  <2>3. trace.validated \in Nat /\ trace.accepted \in Nat
    BY DEF AssemblyInv, RequestTypes
  <2>4. Len(rows) \in Nat /\ (Len(rows) > 0 <=> rows # <<>>)
    BY <2>1
  <2>5. /\ Replay.reason = NoOutfitReason(trace, Len(rows))
        /\ Replay.outfits = [i \in DOMAIN rows |-> rows[i] \cap Kept]
    BY DEF Replay
  <2>6. \A i \in DOMAIN reply.outfits : Replay.outfits[i] = reply.outfits[i] \cap Kept
    BY <2>2, <2>5
  <2>7. /\ reply.reason = "none" <=> rows # <<>>
        /\ reply.reason = "gates" => trace.accepted > 0
        /\ reply.reason = "validation" => trace.accepted = 0 /\ trace.validated > 0
        /\ reply.reason = "assembly" => trace.validated = 0
    BY <2>1, <2>2, <2>3, <2>4 DEF NoOutfitReason
  <2>8. QED
    BY <2>2, <2>5, <2>6, <2>7 DEF EmptyIsExplained
<1>2. QED
  BY <1>1, AssemblyInvariant, PTL

\* What the promise sees of a request: an answer that is open or closed.
Answer == [closed |-> phase \in {"done", "failed"}, outfits |-> rows]

\* Until it is done or has failed, an answer is open.
LEMMA AnswerIs ==
    /\ phase \notin {"done", "failed"} /\ rows = <<>> => Answer = Promise!Open
    /\ phase \in {"done", "failed"} => Answer = Promise!Closed(rows)
<1>1. ASSUME phase \notin {"done", "failed"} PROVE (phase \in {"done", "failed"}) = FALSE
  BY <1>1
<1>2. ASSUME phase \in {"done", "failed"} PROVE (phase \in {"done", "failed"}) = TRUE
  BY <1>2
<1>3. QED
  BY <1>1, <1>2 DEF Answer, Promise!Open, Promise!Closed

\* An open answer may close as promised.
LEMMA ClosesAsPromised ==
    ASSUME phase \notin {"done", "failed"}, rows = <<>>, phase' \in {"done", "failed"},
           UNCHANGED <<ask, closet, pool>>, NEW looks, rows' = looks,
           Promise!Promised(looks)
    PROVE  Promise!Next
<1>1. Answer = Promise!Open
  BY AnswerIs
<1>2. Answer' = Promise!Closed(looks)
  <2>1. (phase' \in {"done", "failed"}) = TRUE
    OBVIOUS
  <2>2. QED
    BY <2>1 DEF Answer, Promise!Closed
<1>3. Answer'.closed /\ Answer'.outfits = looks
  BY <1>2 DEF Promise!Closed
<1>4. Kept' = Kept
  BY DEF Kept
<1>5. Promise!Close
  BY <1>1, <1>2, <1>3, <1>4 DEF Promise!Close, Answer
<1>6. QED
  BY <1>5 DEF Promise!Next

\* An answer that is still open may close with nothing.
LEMMA ClosesWithNothing ==
    ASSUME AssemblyInv, Raises, phase \notin {"done", "failed"}
    PROVE  Promise!Next
<1>1. /\ rows = <<>> /\ rows' = <<>> /\ phase' = "failed"
      /\ closet' = closet /\ pool' = pool /\ ask' = ask
  BY DEF AssemblyInv, StoredAtOnce, Raises
<1>2. PICK looks : looks = <<>>
  OBVIOUS
<1>3. Promise!Promised(looks)
  BY <1>2, AssemblyAssumption DEF Promise!Promised, Promise!Whole
<1>4. QED
  BY <1>1, <1>2, <1>3, ClosesAsPromised

\* A look at garments that are still there.
LEMMA LooksAtGarments ==
    ASSUME AssemblyInv, phase \notin {"done", "failed"}, phase' \notin {"done", "failed"},
           UNCHANGED <<ask, closet, rows>>,
           pool' = pool \/ (pool = {} /\ pool' \subseteq Kept)
    PROVE  [Promise!Next]_(Promise!vars)
<1>1. rows = <<>> /\ Kept' = Kept
  BY DEF AssemblyInv, StoredAtOnce, Kept
<1>2. Answer = Promise!Open /\ Answer' = Answer
  <2>1. (phase \in {"done", "failed"}) = FALSE /\ (phase' \in {"done", "failed"}) = FALSE
    OBVIOUS
  <2>2. QED
    BY <1>1, <2>1, AnswerIs DEF Answer
<1>3. CASE pool' = pool
  BY <1>1, <1>2, <1>3 DEF Promise!vars, Answer
<1>4. CASE pool = {} /\ pool' \subseteq Kept
  BY <1>1, <1>2, <1>4 DEF Promise!Next, Promise!Look, Answer
<1>5. QED
  BY <1>3, <1>4

\* The outfits stored are what was promised.
LEMMA ClosesWithOutfits ==
    ASSUME AssemblyInv, Store, ~Raises
    PROVE  Promise!Next
<1>1. /\ phase = "gated" /\ phase' = "done" /\ rows' = Accepted /\ rows = <<>>
      /\ ForeignKeysHold(Accepted) /\ UNCHANGED <<ask, closet, pool>> /\ LookedUp
  BY DEF Store, AssemblyInv, StoredAtOnce, InTheRunning
<1>2. PICK looks : looks = Accepted
  OBVIOUS
<1>3. /\ looks \in Seq(MayBeRanked) /\ (ask.hopit \/ Distinct(looks))
      /\ Len(looks) <= TopK /\ ToSet(looks) \subseteq ToSet(list)
  BY <1>2, AcceptedAre
<1>4. Promise!Promised(looks)
  <2>1. ASSUME NEW i \in DOMAIN looks PROVE looks[i] \subseteq pool \cap Kept
    <3>1. looks[i] \subseteq Kept
      BY <1>1, <1>2 DEF ForeignKeysHold, ToSet
    <3>2. looks[i] \subseteq pool
      BY <1>1, <1>3 DEF ToSet, LookedUp
    <3>3. QED
      BY <3>1, <3>2
  <2>2. ASSUME ~ask.hopit PROVE Promise!Whole(looks)
    <3>1. looks \in Seq(OutfitsOf(pool)) /\ Distinct(looks)
      BY <1>3, <2>2 DEF MayBeRanked
    <3>2. QED
      BY <3>1 DEF Promise!Whole, OutfitsOf, Distinct
  <2>3. QED
    BY <1>3, <2>1, <2>2 DEF Promise!Promised
<1>5. QED
  BY <1>1, <1>2, <1>4, ClosesAsPromised

(***************************************************************************)
(* A styling request implements Shortlist, for every wardrobe, request and  *)
(* answer of the models: it looks once, closes once, and closes with        *)
(* nothing or with at most TopK outfits of garments it looked at and that   *)
(* are there when it commits, which are different and complete unless Hopit  *)
(* ranked them.                                                             *)
(***************************************************************************)
THEOREM RequestImplementsShortlist == AssemblySpec => PromiseKept
<1>1. AssemblyInit => Promise!Init
  BY AnswerIs, AssemblyAssumption DEF AssemblyInit, Promise!Init, Answer
<1>2. AssemblyInv /\ [AssemblyNext]_assemblyVars => [Promise!Next]_(Promise!vars)
  <2> SUFFICES ASSUME AssemblyInv, [AssemblyNext]_assemblyVars
               PROVE  [Promise!Next]_(Promise!vars)
    OBVIOUS
  <2>1. CASE LoadAnchors
    <3>1. phase = "asked" /\ pool = {}
      BY <2>1 DEF LoadAnchors, AssemblyInv, LooksOnce
    <3>2. CASE Raises
      BY <3>1, <3>2, ClosesWithNothing
    <3>3. CASE ~Raises
      <4>1. /\ phase' = "anchored" /\ pool' = ask.anchors /\ ask.anchors \subseteq Kept
            /\ UNCHANGED <<ask, closet, rows>>
        BY <2>1, <3>3 DEF LoadAnchors
      <4>2. QED
        BY <3>1, <4>1, LooksAtGarments
    <3>4. QED
      BY <3>2, <3>3
  <2>2. CASE Filter
    <3>1. /\ phase = "known" /\ phase' = "filtered" /\ pool = ask.anchors
          /\ UNCHANGED <<ask, closet, rows>>
      BY <2>2 DEF Filter, AssemblyInv, LooksOnce
    <3>2. CASE ask.anchors # {}
      <4>1. pool' = pool
        BY <2>2, <3>1, <3>2, FiltersChoose DEF Filter
      <4>2. QED
        BY <3>1, <4>1, LooksAtGarments
    <3>3. CASE ask.anchors = {}
      <4>1. pool' \subseteq Usable
        BY <2>2, <3>3, FiltersChoose DEF Filter
      <4>2. Usable \subseteq Kept
        BY DEF Usable, Kept
      <4>3. QED
        BY <3>1, <3>3, <4>1, <4>2, LooksAtGarments
    <3>4. QED
      BY <3>2, <3>3
  <2>3. CASE \/ ReadMember \/ Combine \/ Rank \/ HopitRanks \/ Validate \/ GenerateAndGate
    <3>1. /\ phase \notin {"done", "failed"} /\ phase' \notin {"done", "failed"}
          /\ UNCHANGED <<ask, closet, rows, pool>>
      BY <2>3 DEF ReadMember, Combine, Rank, HopitRanks, Validate, GenerateAndGate
    <3>2. QED
      BY <3>1, LooksAtGarments
  <2>4. CASE Store
    <3>1. phase = "gated"
      BY <2>4 DEF Store
    <3>2. QED
      BY <2>4, <3>1, ClosesWithNothing, ClosesWithOutfits
  <2>5. CASE ProviderFails \/ LookupFails
    BY <2>5, ClosesWithNothing DEF ProviderFails, LookupFails
  <2>6. ASSUME NEW g \in Fickle, Meanwhile(g) PROVE [Promise!Next]_(Promise!vars)
    <3>1. UNCHANGED <<ask, phase, pool, rows>>
      BY <2>6 DEF Meanwhile
    <3>2. Kept' \subseteq Kept
      <4>1. closet \in [Wardrobe -> {"usable", "rejected", "gone"}]
        BY DEF AssemblyInv, RequestTypes
      <4>2. closet' = [closet EXCEPT ![g] = "gone"] \/ closet' = [closet EXCEPT ![g] = "rejected"]
        BY <2>6 DEF Meanwhile, DeleteGarment, RejectGarment
      <4>3. closet[g] # "gone"
        BY <2>6 DEF Meanwhile, DeleteGarment, RejectGarment
      <4>4. QED
        BY <4>1, <4>2, <4>3 DEF Kept
    <3>3. QED
      BY <3>1, <3>2 DEF Promise!Next, Promise!Part
  <2>7. CASE UNCHANGED assemblyVars
    BY <2>7 DEF assemblyVars, Promise!vars, Kept
  <2>8. QED
    BY <2>1, <2>2, <2>3, <2>4, <2>5, <2>6, <2>7 DEF AssemblyNext
<1>3. QED
  BY <1>1, <1>2, AssemblyInvariant, PTL DEF AssemblySpec, PromiseKept, Promise!Spec

-----------------------------------------------------------------------------
(* The pictures in object storage                                           *)

RawKeys == [raw : Nat]
ThumbKeys == [thumb : Photos, edge : Nat]
Keys == RawKeys \cup Canonicals \cup ThumbKeys
Uploads == {o \in objects : "raw" \in DOMAIN o.key}

Stored == [key : Keys, photo : Photos]
AssetRow == [key : RawKeys \cup Canonicals, sha : Photos, made : Nat]
Drawn == [phase : {"put"}, key : Canonicals, sha : Photos, made : Nat]
Looking == [phase : {"cache"}, of : Nat, thumb : ThumbKeys]
Fetching == [phase : {"original"}, of : Nat, thumb : ThumbKeys \cup {NoThumb}]
Building == [phase : {"queued", "building", "built"}, of : Nat, thumb : ThumbKeys,
             photo : Photos]
Reading == Looking \cup Fetching \cup Building

PictureTypes ==
    /\ objects \subseteq Stored /\ IsFiniteSet(objects)
    /\ \A o, p \in objects : o.key = p.key => o = p
    /\ assets \in Seq(AssetRow)
    /\ drawn \in [Canonicals -> Nat]
    /\ drawing \in [Drawers -> Drawn \cup {Free}]
    /\ reading \in [Readers -> Reading \cup {Free}]
    /\ shown \subseteq [of : Nat, photo : Photos]

\* The keys of the uploads are numbered as they came.
KeysAreNumbered == \A o \in Uploads : o.key.raw < Cardinality(Uploads)

\* What lies under a key is the picture it was put there for, or another was
\* drawn under it since.
Under(row) ==
    /\ row.key \in RawKeys => row.made = 0
    /\ row.key \in Canonicals => row.made # 0 /\ row.made <= drawn[row.key]
    /\ Exists(row.key)
    /\ \A o \in objects :
          o.key = row.key =>
              \/ o.photo = row.sha
              \/ row.key \in Canonicals /\ row.made < drawn[row.key]

\* The picture may be served of an asset with the hash.
Fits(sha, photo) ==
    photo = sha \/ \E a \in DOMAIN assets : assets[a].sha = sha /\ DrawnOver(a)

RowsHold == \A a \in DOMAIN assets : Under(assets[a])
DrawingsHold == \A d \in Drawers : drawing[d] # Free => Under(drawing[d])
ThumbsFit == \A o \in objects : o.key \in ThumbKeys => Fits(o.key.thumb, o.photo)
ReadingFits(q) ==
    q # Free =>
        /\ q.of \in DOMAIN assets
        /\ q.thumb # NoThumb => q.thumb.thumb = assets[q.of].sha
        /\ q.phase \in {"queued", "building", "built"} => Fits(assets[q.of].sha, q.photo)
ReadingsFit == \A r \in Readers : ReadingFits(reading[r])
ShownFit == \A s \in shown : s.of \in DOMAIN assets /\ Fits(assets[s.of].sha, s.photo)

PicturesInv ==
    /\ PictureTypes /\ KeysAreNumbered /\ RowsHold /\ DrawingsHold
    /\ ThumbsFit /\ ReadingsFit /\ ShownFit

\* The kinds of key are told apart by their fields.
LEMMA KeyKinds ==
    /\ \A k \in RawKeys : "raw" \in DOMAIN k
    /\ \A k \in Canonicals \cup ThumbKeys : "raw" \notin DOMAIN k
    /\ RawKeys \cap Canonicals = {} /\ RawKeys \cap ThumbKeys = {}
    /\ Canonicals \cap ThumbKeys = {} /\ NoThumb \notin ThumbKeys
<1>1. \A k \in RawKeys : DOMAIN k = {"raw"}
  BY DEF RawKeys
<1>2. \A k \in Canonicals : DOMAIN k = {"canonical"}
  BY DEF Canonicals
<1>3. \A k \in ThumbKeys : DOMAIN k = {"thumb", "edge"}
  BY DEF ThumbKeys
<1>4. DOMAIN NoThumb = {"none"}
  BY DEF NoThumb
<1>5. QED
  BY <1>1, <1>2, <1>3, <1>4

\* What is fetched from under a key is what lies there.
LEMMA Fetched ==
    ASSUME PicturesInv, NEW key, Exists(key)
    PROVE  \E o \in objects : o.key = key /\ o.photo = GetObject(key) /\ o.photo \in Photos
<1> DEFINE found == CHOOSE o \in objects : o.key = key
<1>1. found \in objects /\ found.key = key
  BY DEF Exists
<1>2. found.photo \in Photos
  BY <1>1 DEF PicturesInv, PictureTypes, Stored
<1>3. QED
  BY <1>1, <1>2 DEF GetObject

\* A picture that is put replaces the one under its key and no other.
LEMMA Put ==
    ASSUME PicturesInv, NEW key \in Keys, NEW photo \in Photos, PutObject(key, photo)
    PROVE  /\ objects' \subseteq Stored /\ IsFiniteSet(objects')
           /\ \A o, p \in objects' : o.key = p.key => o = p
           /\ \A o \in objects' : (o.key = key /\ o.photo = photo) \/ (o.key # key /\ o \in objects)
           /\ \A k : Exists(k) => Exists(k)'
           /\ Exists(key)'
<1> DEFINE new == [key |-> key, photo |-> photo]
           rest == {o \in objects : o.key # key}
<1>1. objects' = rest \cup {new} /\ new \in Stored /\ new.key = key /\ new.photo = photo
  BY DEF PutObject, Stored
<1>2. rest \subseteq objects /\ \A o \in rest : o.key # key
  OBVIOUS
<1>3. \A o \in objects : o.key # key => o \in rest
  OBVIOUS
<1>4. objects \subseteq Stored /\ IsFiniteSet(objects)
      /\ \A o, p \in objects : o.key = p.key => o = p
  BY DEF PicturesInv, PictureTypes
<1>5. IsFiniteSet(rest \cup {new})
  BY <1>2, <1>4, FS_Subset, FS_AddElement
<1> HIDE DEF new, rest
<1>6. \A k : Exists(k) => Exists(k)'
  BY <1>1, <1>3 DEF Exists
<1>7. Exists(key)'
  BY <1>1 DEF Exists
<1>8. QED
  BY <1>1, <1>2, <1>4, <1>5, <1>6, <1>7

\* Rows and drawings never go, and no drawing is undone.
Onward ==
    /\ assets' \in Seq(AssetRow)
    /\ \A a \in DOMAIN assets : a \in DOMAIN assets' /\ assets'[a] = assets[a]
    /\ drawn' \in [Canonicals -> Nat]
    /\ \A k \in Canonicals : drawn'[k] >= drawn[k]

\* An asset that was drawn over stays so, and what fits a hash goes on fitting it.
LEMMA FitsStay ==
    ASSUME PicturesInv, Onward
    PROVE  \A sha, photo : Fits(sha, photo) => Fits(sha, photo)'
<1>1. ASSUME NEW a \in DOMAIN assets, DrawnOver(a) PROVE DrawnOver(a)'
  <2>1. Under(assets[a]) /\ assets[a] \in AssetRow /\ drawn \in [Canonicals -> Nat]
    BY DEF PicturesInv, PictureTypes, RowsHold
  <2>2. assets[a].key \in Canonicals /\ assets[a].made \in Nat
    BY <1>1, <2>1 DEF Under, DrawnOver, AssetRow
  <2>3. assets'[a] = assets[a] /\ drawn'[assets[a].key] >= drawn[assets[a].key]
        /\ drawn'[assets[a].key] \in Nat
    BY <2>2 DEF Onward
  <2>4. QED
    BY <1>1, <2>1, <2>2, <2>3 DEF DrawnOver
<1>2. QED
  BY <1>1 DEF Fits, Onward

\* A row is still held when its picture is left alone or drawn over.
LEMMA UnderStays ==
    ASSUME PicturesInv, Onward, NEW row, Under(row),
           row.key \in RawKeys \cup Canonicals, row.made \in Nat,
           \A k : Exists(k) => Exists(k)',
           \A o \in objects' :
               \/ o \in objects \/ o.key # row.key
               \/ row.key \in Canonicals /\ drawn'[row.key] > drawn[row.key]
    PROVE  Under(row)'
<1>1. drawn \in [Canonicals -> Nat]
  BY DEF PicturesInv, PictureTypes
<1>2. CASE row.key \in RawKeys
  BY <1>2, KeyKinds DEF Under
<1>3. CASE row.key \in Canonicals
  <2>1. /\ drawn'[row.key] \in Nat /\ drawn[row.key] \in Nat
        /\ drawn'[row.key] >= drawn[row.key]
    BY <1>1, <1>3 DEF Onward
  <2>2. row.made # 0 /\ row.made <= drawn'[row.key] /\ row.key \notin RawKeys
    BY <1>3, <2>1, KeyKinds DEF Under
  <2>3. Exists(row.key)'
    BY DEF Under
  <2>4. ASSUME NEW o \in objects', o.key = row.key
        PROVE  o.photo = row.sha \/ row.made < drawn'[row.key]
    BY <1>3, <2>1, <2>4 DEF Under
  <2>5. QED
    BY <1>3, <2>2, <2>3, <2>4 DEF Under
<1>4. QED
  BY <1>2, <1>3

\* A step that leaves the readers alone, and what it has to show.
LEMMA StorageStep ==
    ASSUME PicturesInv, Onward, UNCHANGED <<reading, shown>>,
           objects' \subseteq Stored /\ IsFiniteSet(objects'),
           \A o, p \in objects' : o.key = p.key => o = p,
           drawing' \in [Drawers -> Drawn \cup {Free}],
           KeysAreNumbered', RowsHold', DrawingsHold',
           \A o \in objects' : o.key \in ThumbKeys => o \in objects
    PROVE  PicturesInv'
<1>1. PictureTypes'
  BY DEF PicturesInv, PictureTypes, Onward
<1>2. \A sha, photo : Fits(sha, photo) => Fits(sha, photo)'
  BY FitsStay
<1>3. ThumbsFit'
  BY <1>2 DEF ThumbsFit, PicturesInv
<1>4. ASSUME NEW q, ReadingFits(q) PROVE ReadingFits(q)'
  BY <1>2, <1>4 DEF ReadingFits, Onward
<1>5. ReadingsFit'
  BY <1>4 DEF ReadingsFit, PicturesInv
<1>6. ShownFit'
  BY <1>2 DEF ShownFit, PicturesInv, Onward
<1>7. QED
  BY <1>1, <1>3, <1>5, <1>6 DEF PicturesInv

\* What is appended comes after what was there.
LEMMA Appended ==
    ASSUME NEW S, NEW s \in Seq(S), NEW x \in S
    PROVE  /\ Append(s, x) \in Seq(S)
           /\ \A i \in DOMAIN s : i \in DOMAIN Append(s, x) /\ Append(s, x)[i] = s[i]
           /\ \A i \in DOMAIN Append(s, x) : i \in DOMAIN s \/ Append(s, x)[i] = x
  OBVIOUS

\* An upload gets a key of its own.
LEMMA UploadStep ==
    ASSUME PicturesInv, NEW photo \in Photos, StoreUploadedImage(photo)
    PROVE  PicturesInv'
<1>1. /\ objects \subseteq Stored /\ IsFiniteSet(objects) /\ assets \in Seq(AssetRow)
      /\ drawn \in [Canonicals -> Nat] /\ drawing \in [Drawers -> Drawn \cup {Free}]
  BY DEF PicturesInv, PictureTypes
<1>2. IsFiniteSet(Uploads) /\ Cardinality(Uploads) \in Nat
  BY <1>1, FS_Subset, FS_CardinalityType DEF Uploads
<1>3. PICK n \in Nat : n = Cardinality(Uploads)
  BY <1>2
<1> DEFINE key == [raw |-> n]
           row == [key |-> key, sha |-> photo, made |-> 0]
<1>0. /\ PutObject(key, photo)
      /\ assets' = Append(assets, row) \/ assets' = assets
      /\ UNCHANGED <<drawn, drawing, reading, shown>>
  BY <1>3 DEF StoreUploadedImage, Uploads
<1>4. key \in RawKeys /\ key.raw = n /\ row \in AssetRow
  BY DEF RawKeys, AssetRow
<1>5. row.key = key /\ row.sha = photo /\ row.made = 0
  OBVIOUS
<1> HIDE DEF key, row
<1>6. \A o \in objects : o.key # key
  <2> SUFFICES ASSUME NEW o \in objects, o.key = key PROVE FALSE
    OBVIOUS
  <2>1. o \in Uploads
    BY <1>4, KeyKinds DEF Uploads
  <2>2. n < n
    BY <1>4, <2>1, <1>3 DEF PicturesInv, KeysAreNumbered
  <2>3. QED
    BY <1>3, <2>2
<1>7. /\ objects' \subseteq Stored /\ IsFiniteSet(objects')
      /\ \A o, p \in objects' : o.key = p.key => o = p
      /\ \A o \in objects' : (o.key = key /\ o.photo = photo) \/ (o.key # key /\ o \in objects)
      /\ \A k : Exists(k) => Exists(k)'
      /\ Exists(key)'
  <2>1. key \in Keys
    BY <1>4 DEF Keys
  <2>2. QED
    BY <1>0, <2>1, Put
<1>8. KeysAreNumbered'
  <2> DEFINE new == [key |-> key, photo |-> photo]
  <2>1. objects' = objects \cup {new} /\ new.key = key
    BY <1>0, <1>6 DEF PutObject
  <2>2. Uploads' = Uploads \cup {new} /\ new \notin Uploads
    BY <1>4, <1>6, <2>1, KeyKinds DEF Uploads
  <2>3. Cardinality(Uploads') = n + 1
    BY <1>2, <1>3, <2>2, FS_AddElement
  <2>4. \A o \in Uploads : o.key.raw < n /\ o.key.raw \in Nat
    <3>1. \A o \in Uploads : o.key \in RawKeys
      BY <1>1, KeyKinds DEF Uploads, Stored, Keys
    <3>2. QED
      BY <1>3, <3>1 DEF PicturesInv, KeysAreNumbered, RawKeys
  <2>5. \A o \in Uploads' : o.key.raw < n + 1
    BY <1>3, <1>4, <2>1, <2>2, <2>4
  <2>6. QED
    BY <2>3, <2>5 DEF KeysAreNumbered
<1>9. Onward /\ \A a \in DOMAIN assets' : a \in DOMAIN assets \/ assets'[a] = row
  <2>1. /\ assets' \in Seq(AssetRow)
        /\ \A a \in DOMAIN assets : a \in DOMAIN assets' /\ assets'[a] = assets[a]
        /\ \A a \in DOMAIN assets' : a \in DOMAIN assets \/ assets'[a] = row
    <3>1. CASE assets' = Append(assets, row)
      <4>1. assets \in Seq(AssetRow) /\ row \in AssetRow
        BY <1>1, <1>4
      <4>2. QED
        BY <3>1, <4>1, Appended
    <3>2. CASE assets' = assets
      BY <1>1, <3>2
    <3>3. QED
      BY <1>0, <3>1, <3>2
  <2>2. QED
    BY <1>0, <1>1, <2>1 DEF Onward
<1>10. ASSUME NEW r, Under(r), r.key \in RawKeys \cup Canonicals, r.made \in Nat
       PROVE  Under(r)'
  <2>1. r.key # key
    BY <1>6, <1>10 DEF Under, Exists
  <2>2. QED
    BY <1>7, <1>9, <1>10, <2>1, UnderStays
<1>11. Under(row)'
  <2>1. row.key \notin Canonicals
    BY <1>4, <1>5, KeyKinds
  <2>2. \A o \in objects' : o.key = key => o.photo = photo
    BY <1>7
  <2>3. QED
    BY <1>5, <1>7, <2>1, <2>2 DEF Under
<1>12. RowsHold'
  <2> SUFFICES ASSUME NEW a \in DOMAIN assets' PROVE Under(assets[a])'
    BY DEF RowsHold
  <2>1. CASE a \in DOMAIN assets
    <3>1. Under(assets[a]) /\ assets[a] \in AssetRow /\ assets'[a] = assets[a]
      BY <1>1, <1>9, <2>1 DEF PicturesInv, RowsHold, Onward
    <3>2. QED
      BY <1>10, <3>1 DEF AssetRow
  <2>2. CASE a \notin DOMAIN assets
    <3>1. assets'[a] = row
      BY <1>9, <2>2
    <3>2. QED
      BY <1>11, <3>1
  <2>3. QED
    BY <2>1, <2>2
<1>13. DrawingsHold'
  <2> SUFFICES ASSUME NEW d \in Drawers, drawing[d] # Free PROVE Under(drawing[d])'
    BY <1>0 DEF DrawingsHold
  <2>1. Under(drawing[d]) /\ drawing[d] \in Drawn
    BY <1>1 DEF PicturesInv, DrawingsHold
  <2>2. QED
    BY <1>0, <1>10, <2>1 DEF Drawn
<1>14. \A o \in objects' : o.key \in ThumbKeys => o \in objects
  BY <1>4, <1>7, KeyKinds
<1>15. QED
  BY <1>0, <1>1, <1>7, <1>8, <1>9, <1>12, <1>13, <1>14, StorageStep

\* A picture of another kind leaves the numbers of the uploads alone.
LEMMA NumbersStay ==
    ASSUME PicturesInv, NEW key \in Canonicals \cup ThumbKeys, NEW photo,
           PutObject(key, photo)
    PROVE  KeysAreNumbered'
<1>1. Uploads' = Uploads
  <2> DEFINE new == [key |-> key, photo |-> photo]
  <2>1. "raw" \notin DOMAIN key /\ new.key = key
    BY KeyKinds
  <2>2. objects' = {o \in objects : o.key # key} \cup {new}
    BY DEF PutObject
  <2> HIDE DEF new
  <2>3. QED
    BY <2>1, <2>2 DEF Uploads
<1>2. QED
  BY <1>1 DEF PicturesInv, KeysAreNumbered

\* A canonical picture counts the drawings it replaces.
LEMMA DrawStep ==
    ASSUME PicturesInv, NEW d \in Drawers, NEW key \in Canonicals, NEW photo \in Photos,
           PutCanonical(d, key, photo)
    PROVE  PicturesInv'
<1>1. /\ objects \subseteq Stored /\ assets \in Seq(AssetRow)
      /\ drawn \in [Canonicals -> Nat] /\ drawing \in [Drawers -> Drawn \cup {Free}]
  BY DEF PicturesInv, PictureTypes
<1>2. PICK made \in Nat : made = drawn[key] + 1
  BY <1>1
<1> DEFINE new == [phase |-> "put", key |-> key, sha |-> photo, made |-> made]
<1>3. /\ PutObject(key, photo)
      /\ drawn' = [drawn EXCEPT ![key] = made]
      /\ drawing' = [drawing EXCEPT ![d] = new]
      /\ UNCHANGED <<assets, reading, shown>>
  BY <1>2 DEF PutCanonical
<1>4. new \in Drawn /\ new.key = key /\ new.sha = photo /\ new.made = made
  BY DEF Drawn
<1> HIDE DEF new
<1>5. /\ objects' \subseteq Stored /\ IsFiniteSet(objects')
      /\ \A o, p \in objects' : o.key = p.key => o = p
      /\ \A o \in objects' : (o.key = key /\ o.photo = photo) \/ (o.key # key /\ o \in objects)
      /\ \A k : Exists(k) => Exists(k)'
      /\ Exists(key)'
  <2>1. key \in Keys
    BY DEF Keys
  <2>2. QED
    BY <1>3, <2>1, Put
<1>6. drawn'[key] = made /\ drawn'[key] > drawn[key]
  BY <1>1, <1>2, <1>3
<1>7. Onward
  BY <1>1, <1>2, <1>3 DEF Onward
<1>8. ASSUME NEW r, Under(r), r.key \in RawKeys \cup Canonicals, r.made \in Nat
      PROVE  Under(r)'
  <2>1. \A o \in objects' :
            \/ o \in objects \/ o.key # r.key
            \/ r.key \in Canonicals /\ drawn'[r.key] > drawn[r.key]
    BY <1>5, <1>6
  <2>2. QED
    BY <1>5, <1>7, <1>8, <2>1, UnderStays
<1>9. Under(new)'
  <2>1. new.key \notin RawKeys
    BY <1>4, KeyKinds
  <2>2. new.made # 0 /\ new.made <= drawn'[new.key]
    BY <1>1, <1>2, <1>4, <1>6
  <2>3. Exists(new.key)' /\ \A o \in objects' : o.key = new.key => o.photo = new.sha
    BY <1>4, <1>5
  <2>4. QED
    BY <2>1, <2>2, <2>3 DEF Under
<1>10. RowsHold'
  <2> SUFFICES ASSUME NEW a \in DOMAIN assets PROVE Under(assets[a])'
    BY <1>3 DEF RowsHold
  <2>1. Under(assets[a]) /\ assets[a] \in AssetRow /\ assets' = assets
    BY <1>1, <1>3 DEF PicturesInv, RowsHold
  <2>2. QED
    BY <1>8, <2>1 DEF AssetRow
<1>11. drawing' \in [Drawers -> Drawn \cup {Free}] /\ DrawingsHold'
  <2>1. drawing' \in [Drawers -> Drawn \cup {Free}]
    BY <1>1, <1>3, <1>4
  <2> SUFFICES ASSUME NEW e \in Drawers, drawing'[e] # Free PROVE Under(drawing[e])'
    BY <2>1 DEF DrawingsHold
  <2>2. CASE e = d
    BY <1>1, <1>3, <1>9, <2>2
  <2>3. CASE e # d
    <3>1. drawing'[e] = drawing[e] /\ drawing[e] \in Drawn /\ Under(drawing[e])
      BY <1>1, <1>3, <2>3 DEF PicturesInv, DrawingsHold
    <3>2. QED
      BY <1>8, <3>1 DEF Drawn
  <2>4. QED
    BY <2>2, <2>3
<1>12. KeysAreNumbered'
  BY <1>3, NumbersStay
<1>13. \A o \in objects' : o.key \in ThumbKeys => o \in objects
  BY <1>5, KeyKinds
<1>14. QED
  BY <1>3, <1>5, <1>7, <1>10, <1>11, <1>12, <1>13, StorageStep

\* What is committed or rolled back is what was drawn.
LEMMA DrawingEnds ==
    ASSUME PicturesInv, NEW d \in Drawers, CommitCanonical(d) \/ LoseCanonical(d)
    PROVE  PicturesInv'
<1>1. /\ objects \subseteq Stored /\ IsFiniteSet(objects)
      /\ \A o, p \in objects : o.key = p.key => o = p
      /\ assets \in Seq(AssetRow)
      /\ drawn \in [Canonicals -> Nat] /\ drawing \in [Drawers -> Drawn \cup {Free}]
      /\ KeysAreNumbered /\ RowsHold /\ DrawingsHold
  BY DEF PicturesInv, PictureTypes
<1>2. drawing[d] # Free /\ drawing' = [drawing EXCEPT ![d] = Free]
      /\ UNCHANGED <<objects, drawn, reading, shown>>
  BY DEF CommitCanonical, LoseCanonical, Free
<1>3. drawing[d] \in Drawn /\ Under(drawing[d])
  BY <1>1, <1>2 DEF DrawingsHold
<1>4. PICK row : row = [key |-> drawing[d].key, sha |-> drawing[d].sha,
                        made |-> drawing[d].made]
  OBVIOUS
<1>5. row \in AssetRow /\ Under(row)
  BY <1>3, <1>4 DEF Under, Drawn, AssetRow
<1>6. assets' = Append(assets, row) \/ assets' = assets
  BY <1>4 DEF CommitCanonical, LoseCanonical
<1>7. Onward /\ \A a \in DOMAIN assets' : a \in DOMAIN assets \/ assets'[a] = row
  <2>1. /\ assets' \in Seq(AssetRow)
        /\ \A a \in DOMAIN assets : a \in DOMAIN assets' /\ assets'[a] = assets[a]
        /\ \A a \in DOMAIN assets' : a \in DOMAIN assets \/ assets'[a] = row
    <3>1. CASE assets' = Append(assets, row)
      <4>1. assets \in Seq(AssetRow) /\ row \in AssetRow
        BY <1>1, <1>5
      <4>2. QED
        BY <3>1, <4>1, Appended
    <3>2. CASE assets' = assets
      BY <1>1, <3>2
    <3>3. QED
      BY <1>6, <3>1, <3>2
  <2>2. QED
    BY <1>1, <1>2, <2>1 DEF Onward
<1>8. \A r : Under(r)' <=> Under(r)
  BY <1>2 DEF Under, Exists
<1>9. RowsHold'
  <2> SUFFICES ASSUME NEW a \in DOMAIN assets' PROVE Under(assets[a])'
    BY DEF RowsHold
  <2>1. Under(assets'[a])
    BY <1>1, <1>5, <1>7 DEF RowsHold, Onward
  <2>2. QED
    BY <1>8, <2>1
<1>10. drawing' \in [Drawers -> Drawn \cup {Free}] /\ DrawingsHold'
  <2>1. drawing' \in [Drawers -> Drawn \cup {Free}]
    BY <1>1, <1>2
  <2> SUFFICES ASSUME NEW e \in Drawers, drawing'[e] # Free PROVE Under(drawing[e])'
    BY <2>1 DEF DrawingsHold
  <2>2. drawing'[e] = drawing[e] /\ Under(drawing[e])
    BY <1>1, <1>2 DEF DrawingsHold
  <2>3. QED
    BY <1>8, <2>2
<1>11. KeysAreNumbered'
  BY <1>1, <1>2 DEF KeysAreNumbered, Uploads
<1>12. QED
  BY <1>1, <1>2, <1>7, <1>9, <1>10, <1>11, StorageStep

\* A request that moves on.
LEMMA ReaderStep ==
    ASSUME PicturesInv, NEW r \in Readers, NEW to \in Reading \cup {Free}, ReadingFits(to),
           Goes(r, to), UNCHANGED <<assets, drawn>>
    PROVE  reading' \in [Readers -> Reading \cup {Free}] /\ ReadingsFit'
<1>1. reading \in [Readers -> Reading \cup {Free}] /\ ReadingsFit
  BY DEF PicturesInv, PictureTypes
<1>2. reading' = [reading EXCEPT ![r] = to]
  BY DEF Goes
<1>3. \A q : ReadingFits(q) => ReadingFits(q)'
  BY DEF ReadingFits, Fits, DrawnOver
<1>4. reading' \in [Readers -> Reading \cup {Free}]
  BY <1>1, <1>2
<1>5. ASSUME NEW q \in Readers PROVE ReadingFits(reading[q])'
  <2>1. ReadingFits(reading'[q])
    BY <1>1, <1>2 DEF ReadingsFit
  <2>2. QED
    BY <1>3, <2>1
<1>6. QED
  BY <1>4, <1>5 DEF ReadingsFit

\* A picture that fits may be served.
LEMMA ServeStep ==
    ASSUME PicturesInv, NEW r \in Readers, NEW photo \in Photos, reading[r] # Free,
           Fits(assets[reading[r].of].sha, photo), Serve(r, photo),
           UNCHANGED <<assets, drawn>>
    PROVE  /\ reading' \in [Readers -> Reading \cup {Free}] /\ ReadingsFit'
           /\ shown' \subseteq [of : Nat, photo : Photos] /\ ShownFit'
<1>1. reading[r] \in Reading /\ ReadingFits(reading[r])
      /\ shown \subseteq [of : Nat, photo : Photos] /\ ShownFit
  BY DEF PicturesInv, PictureTypes, ReadingsFit
<1>2. reading[r].of \in Nat /\ reading[r].of \in DOMAIN assets
  BY <1>1 DEF ReadingFits, Reading, Looking, Fetching, Building
<1>3. PICK s : s = [of |-> reading[r].of, photo |-> photo]
  OBVIOUS
<1>4. s \in [of : Nat, photo : Photos] /\ s.of \in DOMAIN assets
      /\ Fits(assets[s.of].sha, s.photo)
  BY <1>2, <1>3
<1>5. shown' = shown \cup {s} /\ Goes(r, Free)
  BY <1>3 DEF Serve
<1>6. \A sha, p : Fits(sha, p)' <=> Fits(sha, p)
  BY DEF Fits, DrawnOver
<1>7. shown' \subseteq [of : Nat, photo : Photos] /\ ShownFit'
  BY <1>1, <1>4, <1>5, <1>6 DEF ShownFit
<1>8. reading' \in [Readers -> Reading \cup {Free}] /\ ReadingsFit'
  BY <1>5, ReaderStep DEF ReadingFits
<1>9. QED
  BY <1>7, <1>8

\* A step that leaves storage alone, and what it has to show.
LEMMA ReadStep ==
    ASSUME PicturesInv, UNCHANGED <<objects, assets, drawn, drawing>>,
           reading' \in [Readers -> Reading \cup {Free}] /\ ReadingsFit',
           (shown' \subseteq [of : Nat, photo : Photos] /\ ShownFit') \/ UNCHANGED shown
    PROVE  PicturesInv'
<1>1. \A sha, p : Fits(sha, p)' <=> Fits(sha, p)
  BY DEF Fits, DrawnOver
<1>2. \A row : Under(row)' <=> Under(row)
  BY DEF Under, Exists
<1>3. PictureTypes'
  BY DEF PicturesInv, PictureTypes
<1>4. KeysAreNumbered'
  BY DEF PicturesInv, KeysAreNumbered, Uploads
<1>5. RowsHold' /\ DrawingsHold'
  BY <1>2 DEF PicturesInv, RowsHold, DrawingsHold
<1>6. ThumbsFit' /\ ShownFit'
  BY <1>1 DEF PicturesInv, ThumbsFit, ShownFit
<1>7. QED
  BY <1>3, <1>4, <1>5, <1>6 DEF PicturesInv

\* What lies under an asset's own key may be served of it.
LEMMA OriginalFits ==
    ASSUME PicturesInv, NEW a \in DOMAIN assets
    PROVE  GetObject(assets[a].key) \in Photos /\ Fits(assets[a].sha, GetObject(assets[a].key))
<1>1. Under(assets[a]) /\ assets[a] \in AssetRow
  BY DEF PicturesInv, PictureTypes, RowsHold
<1>2. PICK o \in objects : o.key = assets[a].key /\ o.photo = GetObject(assets[a].key)
                           /\ o.photo \in Photos
  BY <1>1, Fetched DEF Under
<1>3. o.photo = assets[a].sha \/ DrawnOver(a)
  <2>1. CASE assets[a].key \in Canonicals /\ assets[a].made < drawn[assets[a].key]
    BY <1>1, <2>1 DEF Under, DrawnOver
  <2>2. QED
    BY <1>1, <1>2, <2>1 DEF Under
<1>4. QED
  BY <1>2, <1>3 DEF Fits

\* A look in the cache, the picture itself, the gate and the build.
LEMMA ServingStep ==
    ASSUME PicturesInv, NEW r \in Readers,
           \/ LookInCache(r) \/ FetchOriginal(r) \/ EnterGate(r) \/ BuildThumbnail(r)
    PROVE  PicturesInv'
<1> DEFINE q == reading[r]
<1>1. q \in Reading \cup {Free} /\ ReadingFits(q)
  BY DEF PicturesInv, PictureTypes, ReadingsFit
<1>2. UNCHANGED <<objects, assets, drawn, drawing>> /\ q # Free
  BY DEF LookInCache, FetchOriginal, EnterGate, BuildThumbnail, Free
<1>3. q.of \in DOMAIN assets
  BY <1>1, <1>2 DEF ReadingFits
<1>4. ASSUME NEW photo \in Photos, Fits(assets[q.of].sha, photo), Serve(r, photo)
      PROVE  PicturesInv'
  BY <1>2, <1>4, ServeStep, ReadStep
<1>5. ASSUME NEW to \in Reading \cup {Free}, ReadingFits(to), Goes(r, to), UNCHANGED shown
      PROVE  PicturesInv'
  BY <1>2, <1>5, ReaderStep, ReadStep
<1>6. CASE LookInCache(r)
  <2>1. q \in Looking /\ q.phase = "cache"
    BY <1>1, <1>6 DEF LookInCache, Reading, Looking, Fetching, Building, Free
  <2>2. q.thumb \in ThumbKeys /\ q.thumb.thumb = assets[q.of].sha
    BY <1>1, <1>2, <2>1, KeyKinds DEF Looking, ReadingFits
  <2>3. CASE Exists(q.thumb) /\ Serve(r, GetObject(q.thumb))
    <3>1. PICK o \in objects : o.key = q.thumb /\ o.photo = GetObject(q.thumb)
                               /\ o.photo \in Photos
      BY <2>3, Fetched
    <3>2. Fits(assets[q.of].sha, o.photo)
      BY <2>2, <3>1 DEF PicturesInv, ThumbsFit
    <3>3. QED
      BY <1>4, <2>3, <3>1, <3>2
  <2>4. CASE Goes(r, [q EXCEPT !.phase = "original"]) /\ UNCHANGED shown
    <3>1. PICK to : to = [q EXCEPT !.phase = "original"]
      OBVIOUS
    <3>2. to \in Fetching /\ to.phase = "original" /\ to.of = q.of /\ to.thumb = q.thumb
      BY <2>1, <3>1 DEF Looking, Fetching
    <3>3. ReadingFits(to)
      BY <1>3, <2>2, <3>2 DEF ReadingFits
    <3>4. QED
      BY <1>5, <2>4, <3>1, <3>2, <3>3 DEF Reading
  <2>5. QED
    BY <1>6, <2>3, <2>4 DEF LookInCache
<1>7. CASE FetchOriginal(r)
  <2> DEFINE photo == GetObject(assets[q.of].key)
  <2>1. photo \in Photos /\ Fits(assets[q.of].sha, photo)
    BY <1>3, OriginalFits
  <2>2. q \in Fetching
    BY <1>1, <1>7 DEF FetchOriginal, Reading, Looking, Fetching, Building, Free
  <2>3. CASE q.thumb # NoThumb /\ UNCHANGED shown
             /\ Goes(r, [phase |-> "queued", of |-> q.of, thumb |-> q.thumb, photo |-> photo])
    <3>1. PICK to : to = [phase |-> "queued", of |-> q.of, thumb |-> q.thumb, photo |-> photo]
      OBVIOUS
    <3>2. q.thumb \in ThumbKeys /\ q.thumb.thumb = assets[q.of].sha /\ q.of \in Nat
      BY <1>1, <1>2, <2>2, <2>3 DEF Fetching, ReadingFits
    <3>3. to \in Building
      BY <2>1, <3>1, <3>2 DEF Building
    <3>4. ReadingFits(to)
      BY <1>3, <2>1, <3>1, <3>2 DEF ReadingFits
    <3>5. QED
      BY <1>5, <2>3, <3>1, <3>3, <3>4 DEF Reading
  <2>4. CASE Goes(r, Free) /\ UNCHANGED shown
    BY <1>5, <2>4 DEF ReadingFits
  <2>5. CASE Serve(r, photo)
    BY <1>4, <2>1, <2>5
  <2>6. QED
    BY <1>7, <2>3, <2>4, <2>5 DEF FetchOriginal
<1>8. CASE EnterGate(r) \/ BuildThumbnail(r)
  <2>1. q \in Building
    BY <1>1, <1>8 DEF EnterGate, BuildThumbnail, Reading, Looking, Fetching, Building, Free
  <2>2. q.photo \in Photos /\ Fits(assets[q.of].sha, q.photo)
    BY <1>1, <1>2, <2>1 DEF Building, ReadingFits
  <2>3. ASSUME NEW phase1 \in {"building", "built"},
               Goes(r, [q EXCEPT !.phase = phase1]), UNCHANGED shown
        PROVE  PicturesInv'
    <3>1. PICK to : to = [q EXCEPT !.phase = phase1]
      OBVIOUS
    <3>2. to \in Building /\ to.of = q.of /\ to.thumb = q.thumb /\ to.photo = q.photo
      BY <2>1, <3>1 DEF Building
    <3>3. ReadingFits(to)
      BY <1>1, <1>2, <2>2, <3>2 DEF ReadingFits
    <3>4. QED
      BY <1>5, <2>3, <3>1, <3>2, <3>3 DEF Reading
  <2>4. CASE Serve(r, q.photo)
    BY <1>4, <2>2, <2>4
  <2>5. QED
    BY <1>8, <2>3, <2>4 DEF EnterGate, BuildThumbnail
<1>9. QED
  BY <1>6, <1>7, <1>8

\* A request names the thumbnail by the hash of its asset.
LEMMA AskPictureStep ==
    ASSUME PicturesInv, NEW r \in Readers, NEW a \in DOMAIN assets, AskForPicture(r, a)
    PROVE  PicturesInv'
<1>1. assets \in Seq(AssetRow) /\ UNCHANGED <<objects, assets, drawn, drawing, shown>>
  BY DEF PicturesInv, PictureTypes, AskForPicture
<1>2. a \in Nat /\ assets[a].sha \in Photos
  <2>1. assets[a] \in AssetRow /\ a \in 1..Len(assets)
    BY <1>1
  <2>2. QED
    BY <1>1, <2>1 DEF AssetRow
<1>3. ASSUME NEW to \in Reading, ReadingFits(to), Goes(r, to) PROVE PicturesInv'
  BY <1>1, <1>3, ReaderStep, ReadStep
<1>4. CASE Goes(r, [phase |-> "original", of |-> a, thumb |-> NoThumb])
  <2>1. PICK to : to = [phase |-> "original", of |-> a, thumb |-> NoThumb]
    OBVIOUS
  <2>2. to \in Fetching /\ ReadingFits(to)
    BY <1>2, <2>1 DEF Fetching, ReadingFits
  <2>3. QED
    BY <1>3, <1>4, <2>1, <2>2 DEF Reading
<1>5. ASSUME NEW size \in Sizes,
             Goes(r, [phase |-> "cache", of |-> a, thumb |-> ThumbnailKey(assets[a], size)])
      PROVE  PicturesInv'
  <2>1. PICK to : to = [phase |-> "cache", of |-> a, thumb |-> ThumbnailKey(assets[a], size)]
    OBVIOUS
  <2>2. Edge(size) \in Nat
    BY PicturesAssumption DEF Edge
  <2>3. to.thumb \in ThumbKeys /\ to.thumb.thumb = assets[a].sha
    BY <1>2, <2>1, <2>2 DEF ThumbnailKey, ThumbKeys
  <2>4. to \in Looking
    BY <1>2, <2>1, <2>3 DEF Looking
  <2>5. ReadingFits(to)
    BY <2>1, <2>3 DEF ReadingFits
  <2>6. QED
    BY <1>3, <1>5, <2>1, <2>4, <2>5 DEF Reading
<1>6. QED
  BY <1>4, <1>5 DEF AskForPicture

\* A thumbnail is cached under the hash of the asset it was built for.
LEMMA ServeThumbnailStep ==
    ASSUME PicturesInv, NEW r \in Readers, ServeThumbnail(r)
    PROVE  PicturesInv'
<1> DEFINE q == reading[r]
<1>1. q \in Reading \cup {Free} /\ ReadingFits(q) /\ q # Free
  BY DEF PicturesInv, PictureTypes, ReadingsFit, ServeThumbnail, Free
<1>2. q \in Building
  BY <1>1 DEF ServeThumbnail, Reading, Looking, Fetching, Building, Free
<1>3. /\ q.photo \in Photos /\ q.thumb \in ThumbKeys
      /\ q.thumb.thumb = assets[q.of].sha /\ Fits(assets[q.of].sha, q.photo)
  BY <1>1, <1>2, KeyKinds DEF Building, ReadingFits
<1>4. /\ PutObject(q.thumb, q.photo) \/ objects' = objects
      /\ Serve(r, q.photo) /\ UNCHANGED <<assets, drawn, drawing>>
  BY DEF ServeThumbnail
<1>5. /\ reading' \in [Readers -> Reading \cup {Free}] /\ ReadingsFit'
      /\ shown' \subseteq [of : Nat, photo : Photos] /\ ShownFit'
  BY <1>1, <1>3, <1>4, ServeStep
<1>6. CASE objects' = objects
  BY <1>4, <1>5, <1>6, ReadStep
<1>7. CASE PutObject(q.thumb, q.photo)
  <2>1. PICK key, photo : key = q.thumb /\ photo = q.photo
    OBVIOUS
  <2>2. key \in Keys /\ key \in ThumbKeys /\ photo \in Photos /\ PutObject(key, photo)
        /\ Fits(key.thumb, photo)
    BY <1>3, <1>7, <2>1 DEF Keys
  <2>3. /\ objects' \subseteq Stored /\ IsFiniteSet(objects')
        /\ \A o, p \in objects' : o.key = p.key => o = p
        /\ \A o \in objects' : (o.key = key /\ o.photo = photo) \/ (o.key # key /\ o \in objects)
        /\ \A k : Exists(k) => Exists(k)'
    BY <2>2, Put
  <2>4. Onward
    BY <1>4 DEF Onward, PicturesInv, PictureTypes
  <2>5. PictureTypes'
    BY <1>4, <1>5, <2>3 DEF PicturesInv, PictureTypes
  <2>6. KeysAreNumbered'
    BY <2>2, NumbersStay
  <2>7. ASSUME NEW row, Under(row), row.key \in RawKeys \cup Canonicals, row.made \in Nat
        PROVE  Under(row)'
    <3>1. row.key # key
      BY <2>2, <2>7, KeyKinds
    <3>2. QED
      BY <2>3, <2>4, <2>7, <3>1, UnderStays
  <2>8. RowsHold'
    <3> SUFFICES ASSUME NEW a \in DOMAIN assets PROVE Under(assets[a])'
      BY <1>4 DEF RowsHold
    <3>1. Under(assets[a]) /\ assets[a] \in AssetRow /\ assets' = assets
      BY <1>4 DEF PicturesInv, PictureTypes, RowsHold
    <3>2. QED
      BY <2>7, <3>1 DEF AssetRow
  <2>9. DrawingsHold'
    <3> SUFFICES ASSUME NEW d \in Drawers, drawing[d] # Free PROVE Under(drawing[d])'
      BY <1>4 DEF DrawingsHold
    <3>1. Under(drawing[d]) /\ drawing[d] \in Drawn /\ drawing' = drawing
      BY <1>4 DEF PicturesInv, PictureTypes, DrawingsHold
    <3>2. QED
      BY <2>7, <3>1 DEF Drawn
  <2>10. ThumbsFit'
    <3>1. \A sha, p : Fits(sha, p) => Fits(sha, p)'
      BY <2>4, FitsStay
    <3>2. QED
      BY <2>2, <2>3, <3>1 DEF PicturesInv, ThumbsFit
  <2>11. QED
    BY <1>5, <2>5, <2>6, <2>8, <2>9, <2>10 DEF PicturesInv
<1>8. QED
  BY <1>4, <1>6, <1>7

\* Storage is empty at first.
LEMMA PicturesStart == PicturesInit => PicturesInv
<1> SUFFICES ASSUME PicturesInit PROVE PicturesInv
  OBVIOUS
<1>1. PictureTypes
  BY FS_EmptySet DEF PicturesInit, PictureTypes
<1>2. KeysAreNumbered /\ RowsHold /\ ThumbsFit /\ ShownFit
  BY DEF PicturesInit, KeysAreNumbered, Uploads, RowsHold, ThumbsFit, ShownFit
<1>3. DrawingsHold /\ ReadingsFit
  BY DEF PicturesInit, DrawingsHold, ReadingsFit, ReadingFits
<1>4. QED
  BY <1>1, <1>2, <1>3 DEF PicturesInv

\* Each step of uploads, drawings and requests.
LEMMA PicturesStep == PicturesInv /\ [PicturesNext]_pictureVars => PicturesInv'
<1> SUFFICES ASSUME PicturesInv, [PicturesNext]_pictureVars PROVE PicturesInv'
  OBVIOUS
<1>1. CASE UNCHANGED pictureVars
  BY <1>1, ReadStep DEF pictureVars, PicturesInv, PictureTypes, ReadingsFit, ReadingFits, Fits,
     DrawnOver
<1>2. CASE PicturesNext
  BY <1>2, UploadStep, DrawStep, DrawingEnds, AskPictureStep, ServingStep, ServeThumbnailStep
     DEF PicturesNext
<1>3. QED
  BY <1>1, <1>2

\* The invariant of the pictures holds throughout.
LEMMA PicturesInvariant == PicturesSpec => []PicturesInv
BY PicturesStart, PicturesStep, PTL DEF PicturesSpec

(***************************************************************************)
(* One object lies under a key, every row's picture is there, and whatever  *)
(* is served is served of a row that exists.                                *)
(***************************************************************************)
THEOREM PicturesTypeCorrect == PicturesSpec => []PicturesTypeOK
<1>1. PicturesInv => PicturesTypeOK
  <2> SUFFICES ASSUME PicturesInv PROVE PicturesTypeOK
    OBVIOUS
  <2>1. \A a \in DOMAIN assets : assets[a].sha \in Photos /\ Exists(assets[a].key)
    <3> SUFFICES ASSUME NEW a \in DOMAIN assets
                 PROVE  assets[a].sha \in Photos /\ Exists(assets[a].key)
      OBVIOUS
    <3>1. Under(assets[a]) /\ assets[a] \in AssetRow
      BY DEF PicturesInv, PictureTypes, RowsHold
    <3>2. QED
      BY <3>1 DEF Under, AssetRow
  <2>2. QED
    BY <2>1 DEF PicturesInv, PictureTypes, ShownFit, PicturesTypeOK
<1>2. QED
  BY <1>1, PicturesInvariant, PTL

(***************************************************************************)
(* For any number of photos, garments, sessions that draw and requests that *)
(* read: what is served of an asset, at any size, from its key or from the  *)
(* cache, is what its hash says, unless an asset with that hash was drawn   *)
(* over.                                                                    *)
(***************************************************************************)
THEOREM AssetsShowTheirPictures == PicturesSpec => []AssetsShowThemselves
<1>1. PicturesInv => AssetsShowThemselves
  BY DEF PicturesInv, ShownFit, Fits, AssetsShowThemselves
<1>2. QED
  BY <1>1, PicturesInvariant, PTL

-----------------------------------------------------------------------------
(* The stages that look at the photo                                         *)

Photographed == [type : ImageTypes \cup {"none"}, label : Labels \cup {NoLabel},
                 attrs : AttributeSets \cup {NoAttributes}, picture : {"none", "match", "unseen"}]
Voices == {"openai", "google", "anthropic", "nvidia", "hopit", "heuristic", "flux", "gpt"}
Words == {"answer", "none", "extracted", "outage", "invalid", "match", "mismatch", "refused"}

\* Types, with those of what is only held during a stage.
LookTypes ==
    /\ setup \in Setups
    /\ item \in Photographed
    /\ stage \in {"CLASSIFY", "CROP", "ATTRIBUTES", "DIGITISE", "idle"}
    /\ heard \in Seq([by : Voices, said : Words])
    /\ regions \in [left : Seq(Labels), kept : Seq(Labels)]
    /\ draft \in AttributeSets \cup {NoAttributes}
    /\ easel \in {"none", "unseen", "match", "mismatch"}
    /\ shelf \in {"none", "match", "unseen"}

\* Who was asked so far: the classifiers and detectors in the order of Attempts
\* and not all of them, the extractors by Vendor.
ByAttempts == Len(heard) < 3 /\ \A i \in DOMAIN heard : heard[i].by = Attempts[i]
AskedInTurn ==
    /\ stage = "CLASSIFY" => ByAttempts
    /\ stage = "CROP" => regions.left # <<>> \/ regions.kept # <<>> \/ ByAttempts
    /\ stage = "ATTRIBUTES" => \A i \in DOMAIN heard : heard[i].by = Vendor(i)
    /\ stage = "DIGITISE" => \A i \in DOMAIN heard : heard[i].by # "heuristic"

\* Stages end: nobody is asked more often than he may be.
WithinTries ==
    /\ \E most \in {4, AttributeTries, PictureTries} : Len(heard) <= most
    /\ stage = "ATTRIBUTES" =>
           Len(heard) < AttributeTries \/ (ToVerify /\ Len(heard) = AttributeTries)
    /\ stage = "DIGITISE" => Len(heard) < PictureTries

\* Attributes to verify are there, and a picture is drawn of attributes.
WorkAtHand ==
    /\ stage = "ATTRIBUTES" /\ ToVerify => draft \in AttributeSets
    /\ stage = "DIGITISE" /\ easel # "none" => item.attrs \in AttributeSets
    /\ stage # "idle" => report = NoReport

\* Nobody who is asked for attributes has a reason to invent them.
NobodyInvents == EveryoneHasAKey /\ setup.extractor \notin {"moda_ner", "nvidia_nim"}
NoneInvented == NobodyInvents => item.attrs.source # "mock" /\ draft.source # "mock"
GuessesAreUnsure ==
    report # NoReport /\ report.stage = "CLASSIFY" /\ report.status = "SUCCEEDED"
        => Last(heard).by # "heuristic"
SeenByTheVerifier == setup.digitiser = "gpt" => {item.picture, shelf} \subseteq {"none", "match"}

HeuristicComesLast == "heuristic" \in Asked => {"openai", "google"} \subseteq Asked
TwoWereAsked ==
    AttributeTries > 1 /\ report # NoReport /\ report.stage = "ATTRIBUTES"
        /\ report.status \in {"REVIEW_REQUIRED", "FAILED"} /\ ~SameModelTwice
        => Cardinality(Asked) > 1

LooksInv ==
    /\ LookTypes /\ AskedInTurn /\ WithinTries /\ WorkAtHand
    /\ StagesKeepTheirContract
    /\ NoneInvented /\ GuessesAreUnsure /\ SeenByTheVerifier
    /\ HeuristicComesLast /\ TwoWereAsked

Utterances == [by : Voices, said : Words]

\* A sequence with one more element.
LEMMA OneMore ==
    ASSUME NEW S, NEW s \in Seq(S), NEW e \in S
    PROVE  /\ Append(s, e) \in Seq(S) /\ Append(s, e) # <<>>
           /\ Len(Append(s, e)) = Len(s) + 1 /\ Len(s) \in Nat
           /\ DOMAIN Append(s, e) = 1..(Len(s) + 1)
           /\ Append(s, e)[Len(s) + 1] = e
           /\ \A i \in 1..Len(s) : Append(s, e)[i] = s[i]
  OBVIOUS

\* Whom the attempts ask.
LEMMA VendorsKnown ==
    ASSUME setup \in Setups, NEW n \in Nat
    PROVE  Vendor(n) \in {"openai", "google", "anthropic", "nvidia", "hopit"}
<1>1. /\ setup.extractor \in {"openrouter", "gemini", "claude", "nvidia_nim", "moda_ner"}
      /\ setup.model \in {"openai", "google"}
  BY PerceptionAssumption
<1>2. QED
  BY <1>1 DEF Vendor, Provider

\* The second attempt at the attributes is another vendor's than the first, but
\* for the one setup that asks the same model twice.
LEMMA AnotherVendor ==
    ASSUME setup \in Setups, ~SameModelTwice
    PROVE  Vendor(1) # Vendor(2)
<1>1. /\ setup.extractor \in {"openrouter", "gemini", "claude", "nvidia_nim", "moda_ner"}
      /\ setup.model \in {"openai", "google"}
  BY PerceptionAssumption
<1>2. CASE setup.extractor = "gemini"
  BY <1>1, <1>2 DEF Vendor, Provider, SameModelTwice
<1>3. CASE setup.extractor # "gemini"
  BY <1>1, <1>3 DEF Vendor, Provider
<1>4. QED
  BY <1>2, <1>3

\* What has keys, and whose models are asked, stays with the setup.
LEMMA SetupsStand ==
    ASSUME UNCHANGED setup
    PROVE  NobodyInvents' = NobodyInvents /\ SameModelTwice' = SameModelTwice
  BY DEF NobodyInvents, EveryoneHasAKey, HasKey, SameModelTwice

\* Attributes are never the lack of them.
LEMMA AttributesAreSomething == NoAttributes \notin AttributeSets
<1>1. ASSUME NEW x \in Extractions PROVE Validated(x).sleeves # "none"
  <2>1. x.sleeves \in {"sleeveless", "long"}
    BY <1>1 DEF Extractions
  <2>2. QED
    BY <2>1 DEF Validated
<1>2. NoAttributes.sleeves = "none" /\ Placeholder.sleeves # "none"
  BY DEF NoAttributes, Placeholder
<1>3. QED
  BY <1>1, <1>2 DEF AttributeSets

\* An answer of a model is extracted attributes or a reply that fails.
LEMMA ModelsAnswer ==
    ASSUME NEW r \in ModelAnswers
    PROVE  /\ r.came \in {"extracted", "invalid"}
           /\ r.came = "extracted" => r.attrs \in AttributeSets /\ r.attrs.source # "mock"
<1>1. PICK x \in Extractions : r = Interpreted(x)
  BY DEF ModelAnswers
<1>2. CASE Fault(x) # "none"
  BY <1>1, <1>2 DEF Interpreted
<1>3. CASE Fault(x) = "none"
  <2>1. r.came = "extracted" /\ r.attrs = Validated(x)
    BY <1>1, <1>3 DEF Interpreted
  <2>2. Validated(x) \in AttributeSets
    BY <1>3 DEF AttributeSets
  <2>3. Validated(x).source = "model"
    BY DEF Validated
  <2>4. QED
    BY <2>1, <2>2, <2>3
<1>4. QED
  BY <1>2, <1>3

\* Whatever comes of asking a provider is attributes or the reason for none, and
\* only one without a key, or one that covers up an outage, invents them.
LEMMA ProvidersAnswer ==
    ASSUME setup \in Setups, NEW n \in Nat \ {0}, NEW r \in Extracts(n)
    PROVE  /\ r.came \in {"extracted", "invalid", "outage"}
           /\ r.came = "extracted" => r.attrs \in AttributeSets
           /\ r.came = "extracted" /\ NobodyInvents => r.attrs.source # "mock"
<1>1. setup.extractor \in {"openrouter", "gemini", "claude", "nvidia_nim", "moda_ner"}
  BY PerceptionAssumption
<1>2. Merged({}) \subseteq ModelAnswers /\ Merged(Required) \subseteq ModelAnswers
  BY DEF Merged, ModelAnswers
<1>3. \A keyed : AskedWith(keyed) \subseteq {Outage, Invented} \cup ModelAnswers
  BY DEF AskedWith
<1>4. r \in {Outage, Invented} \cup ModelAnswers
  <2>1. Provider(n) \in {"openrouter", "gemini", "claude", "nvidia_nim", "moda_ner"}
    BY <1>1 DEF Provider
  <2>2. r \in OpenRouterExtracts \cup GeminiExtracts(n) \cup ClaudeExtracts
             \cup NvidiaExtracts \cup ModaNerExtracts
    BY <2>1 DEF Extracts
  <2>3. OpenRouterExtracts \cup GeminiExtracts(n) \cup ClaudeExtracts
             \subseteq {Outage, Invented} \cup ModelAnswers
    BY <1>3 DEF OpenRouterExtracts, GeminiExtracts, ClaudeExtracts, HasKey
  <2>4. NvidiaExtracts \subseteq {Outage, Invented} \cup ModelAnswers
    BY DEF NvidiaExtracts
  <2>5. ModaNerExtracts \subseteq {Outage, Invented} \cup ModelAnswers
    BY <1>2 DEF ModaNerExtracts
  <2>6. QED
    BY <2>2, <2>3, <2>4, <2>5
<1>5. Outage.came = "outage" /\ Invented.came = "extracted" /\ Invented.attrs \in AttributeSets
  BY DEF Outage, Invented, AttributeSets
<1>6. ASSUME NobodyInvents PROVE r \in {Outage} \cup ModelAnswers
  <2>1. setup.extractor \in {"openrouter", "gemini", "claude"}
    BY <1>1, <1>6 DEF NobodyInvents
  <2>2. HasKey("openrouter") /\ (setup.extractor = "claude" => HasKey("anthropic"))
    BY <1>6 DEF NobodyInvents, EveryoneHasAKey
  <2>3. /\ Provider(n) \in {"openrouter", "gemini", "claude"}
        /\ Provider(n) = "claude" => setup.extractor = "claude"
    BY <2>1 DEF Provider
  <2>4. OpenRouterExtracts = {Outage} \cup ModelAnswers
    BY <2>2 DEF OpenRouterExtracts, AskedWith
  <2>5. GeminiExtracts(n) = {Outage} \cup ModelAnswers
    BY <2>2 DEF GeminiExtracts, AskedWith
  <2>6. HasKey("anthropic") => ClaudeExtracts = {Outage} \cup ModelAnswers
    BY DEF ClaudeExtracts, AskedWith
  <2>7. r \in OpenRouterExtracts \/ r \in GeminiExtracts(n)
        \/ (HasKey("anthropic") /\ r \in ClaudeExtracts)
    BY <2>2, <2>3 DEF Extracts
  <2>8. QED
    BY <2>4, <2>5, <2>6, <2>7
<1>7. QED
  BY <1>4, <1>5, <1>6, ModelsAnswer

\* The stages by their numbers.
LEMMA FourLooks ==
    /\ DOMAIN Looks = 1..4 /\ Looks[1] = "CLASSIFY" /\ Looks[2] = "CROP"
    /\ Looks[3] = "ATTRIBUTES" /\ Looks[4] = "DIGITISE"
    /\ ToSet(Looks) = {"CLASSIFY", "CROP", "ATTRIBUTES", "DIGITISE"}
  BY DEF Looks, ToSet

\* What the contract lets a stage return, here of a garment of which only the
\* attributes are looked at.
Allowed(s, status, quality, before, after) ==
    \E k \in DOMAIN Looks :
        /\ Looks[k] = s
        /\ Contract!Outcome(status, quality, AsGarment(after))
              \in Contract!StageResults(k, AsGarment(before))

\* Every stage may raise.
LEMMA RaisingIsAllowed ==
    ASSUME NEW s \in {"CLASSIFY", "CROP", "ATTRIBUTES", "DIGITISE"}, NEW before
    PROVE  Allowed(s, "RAISED", "UNSET", before, before)
<1>1. PICK k \in 1..4 : Looks[k] = s
  BY FourLooks
<1>2. Contract!Outcome("RAISED", "UNSET", AsGarment(before))
         \in Contract!StageResults(k, AsGarment(before))
  BY <1>1, FourLooks
     DEF Contract!StageResults, Contract!ClassifyResults, Contract!CropResults,
         Contract!AttributesResults, Contract!DigitiseResults
<1>3. QED
  BY <1>1, <1>2, FourLooks DEF Allowed

LEMMA ClassifyingIsAllowed ==
    ASSUME NEW before, NEW after, after.attrs = before.attrs,
           NEW status, NEW quality,
           <<status, quality>> \in {<<"SUCCEEDED", "APPROVED">>,
                                    <<"REVIEW_REQUIRED", "REVIEW_REQUIRED">>}
    PROVE  Allowed("CLASSIFY", status, quality, before, after)
<1>1. AsGarment(after) = AsGarment(before)
  BY DEF AsGarment
<1>2. Contract!Outcome(status, quality, AsGarment(before))
         \in Contract!StageResults(1, AsGarment(before))
  BY FourLooks DEF Contract!StageResults, Contract!ClassifyResults
<1>3. QED
  BY <1>1, <1>2, FourLooks DEF Allowed

LEMMA CroppingIsAllowed ==
    ASSUME NEW before, NEW after, after.attrs = before.attrs
    PROVE  Allowed("CROP", "SUCCEEDED", "UNSET", before, after)
<1>1. AsGarment(after) = AsGarment(before)
  BY DEF AsGarment
<1>2. Contract!Outcome("SUCCEEDED", "UNSET", AsGarment(before))
         \in Contract!StageResults(2, AsGarment(before))
  BY FourLooks DEF Contract!StageResults, Contract!CropResults
<1>3. QED
  BY <1>1, <1>2, FourLooks DEF Allowed

\* Attributes are stored with an approval or a review.
LEMMA StoringIsAllowed ==
    ASSUME NEW before, NEW after, after.attrs \in AttributeSets, NEW status, NEW quality,
           <<status, quality>> \in {<<"SUCCEEDED", "APPROVED">>,
                                    <<"REVIEW_REQUIRED", "REVIEW_REQUIRED">>}
    PROVE  Allowed("ATTRIBUTES", status, quality, before, after)
<1>1. AsGarment(after) = Contract!WithAttrs(AsGarment(before), after.attrs)
  BY DEF AsGarment, Contract!WithAttrs
<1>2. Contract!Outcome(status, quality, Contract!WithAttrs(AsGarment(before), after.attrs))
         \in Contract!StageResults(3, AsGarment(before))
  BY FourLooks DEF Contract!StageResults, Contract!AttributesResults
<1>3. QED
  BY <1>1, <1>2, FourLooks DEF Allowed

\* Without attributes the garment stays as it is.
LEMMA NothingStoredIsAllowed ==
    ASSUME NEW before, NEW status, NEW quality,
           <<status, quality>> \in {<<"FAILED", "REJECTED">>,
                                    <<"REVIEW_REQUIRED", "REVIEW_REQUIRED">>}
    PROVE  Allowed("ATTRIBUTES", status, quality, before, before)
<1>1. AsGarment(before) = Contract!WithAttrs(AsGarment(before), AsGarment(before).attrs)
  BY DEF AsGarment, Contract!WithAttrs
<1>2. Contract!Outcome(status, quality, AsGarment(before))
         \in Contract!StageResults(3, AsGarment(before))
  <2>1. CASE status = "FAILED"
    BY <2>1, FourLooks DEF Contract!StageResults, Contract!AttributesResults
  <2>2. CASE status = "REVIEW_REQUIRED"
    BY <1>1, <2>2, FourLooks DEF Contract!StageResults, Contract!AttributesResults
  <2>3. QED
    BY <2>1, <2>2
<1>3. QED
  BY <1>2, FourLooks DEF Allowed

\* A picture is drawn of attributes only.
LEMMA DrawingIsAllowed ==
    ASSUME NEW before, NEW after, after.attrs = before.attrs, before.attrs # NoAttributes,
           NEW status, NEW quality,
           <<status, quality>> \in {<<"SUCCEEDED", "APPROVED">>, <<"FAILED", "UNSET">>,
                                    <<"REVIEW_REQUIRED", "REVIEW_REQUIRED">>}
    PROVE  Allowed("DIGITISE", status, quality, before, after)
<1>1. AsGarment(after) = AsGarment(before) /\ AsGarment(before).attrs # NoAttributes
  BY DEF AsGarment
<1>2. Contract!Outcome(status, quality, AsGarment(before))
         \in Contract!StageResults(4, AsGarment(before))
  BY <1>1, FourLooks DEF Contract!StageResults, Contract!DigitiseResults
<1>3. QED
  BY <1>1, <1>2, FourLooks DEF Allowed

\* Whom a stage has asked.
AskedOf(said) == {said[i].by : i \in DOMAIN said}

\* What must hold when a stage returns for the invariant to be kept.
LEMMA ReturningKeeps ==
    ASSUME LooksInv, stage # "idle", LookTypes', NEW said, NEW status, NEW quality, NEW after,
           Return(said, status, quality, after),
           \E most \in {4, AttributeTries, PictureTries} : Len(said) <= most,
           Allowed(stage, status, quality, item, after),
           NoneInvented', SeenByTheVerifier',
           "heuristic" \in AskedOf(said) => {"openai", "google"} \subseteq AskedOf(said),
           stage = "CLASSIFY" /\ status = "SUCCEEDED" => Last(said).by # "heuristic",
           AttributeTries > 1 /\ stage = "ATTRIBUTES" /\ status \in {"REVIEW_REQUIRED", "FAILED"}
              /\ ~SameModelTwice'
              => Cardinality(AskedOf(said)) > 1
    PROVE  LooksInv'
<1>1. /\ stage' = "idle" /\ heard' = said /\ item' = after
      /\ report' = [stage |-> stage, status |-> status, quality |-> quality, before |-> item]
  BY DEF Return
<1>2. AskedInTurn' /\ WithinTries' /\ WorkAtHand'
  BY <1>1 DEF AskedInTurn, WithinTries, WorkAtHand
<1>3. /\ report'.stage = stage /\ report'.status = status
      /\ report'.quality = quality /\ report'.before = item
  BY <1>1
<1>4. StagesKeepTheirContract'
  <2>1. PICK k \in DOMAIN Looks :
            /\ Looks[k] = stage
            /\ Contract!Outcome(status, quality, AsGarment(after))
                  \in Contract!StageResults(k, AsGarment(item))
    BY DEF Allowed
  <2>2. QED
    BY <1>1, <1>3, <2>1 DEF StagesKeepTheirContract
<1>5. Asked' = AskedOf(said)
  BY <1>1 DEF Asked, AskedOf
<1>6. GuessesAreUnsure' /\ HeuristicComesLast' /\ TwoWereAsked'
  BY <1>1, <1>3, <1>5 DEF GuessesAreUnsure, HeuristicComesLast, TwoWereAsked
<1>7. QED
  BY <1>2, <1>4, <1>6 DEF LooksInv

\* ... and when it goes on.
LEMMA GoingOnKeeps ==
    ASSUME LooksInv, stage # "idle", LookTypes', UNCHANGED <<setup, item, stage, report>>,
           AskedInTurn', WithinTries', WorkAtHand', NoneInvented', SeenByTheVerifier',
           HeuristicComesLast'
    PROVE  LooksInv'
<1>1. report' = NoReport
  BY DEF LooksInv, WorkAtHand
<1>2. StagesKeepTheirContract' /\ GuessesAreUnsure' /\ TwoWereAsked'
  BY <1>1 DEF StagesKeepTheirContract, GuessesAreUnsure, TwoWereAsked
<1>3. QED
  BY <1>2 DEF LooksInv

LEMMA LooksStart == PerceptionInit => LooksInv
<1> SUFFICES ASSUME PerceptionInit PROVE LooksInv
  OBVIOUS
<1>1. /\ item = [type |-> "none", label |-> NoLabel, attrs |-> NoAttributes, picture |-> "none"]
      /\ heard = <<>> /\ stage = "idle" /\ draft = NoAttributes /\ easel = "none"
      /\ shelf = "none" /\ report = NoReport /\ setup \in Setups /\ regions = NoRegions
  BY DEF PerceptionInit
<1>2. LookTypes
  <2>1. item \in Photographed
    BY <1>1 DEF Photographed
  <2>2. regions \in [left : Seq(Labels), kept : Seq(Labels)]
    BY <1>1 DEF NoRegions
  <2>3. QED
    BY <1>1, <2>1, <2>2 DEF LookTypes
<1>3. AskedInTurn /\ WorkAtHand /\ GuessesAreUnsure /\ TwoWereAsked /\ StagesKeepTheirContract
  BY <1>1 DEF AskedInTurn, WorkAtHand, GuessesAreUnsure, TwoWereAsked, StagesKeepTheirContract
<1>4. WithinTries
  BY <1>1, PerceptionAssumption DEF WithinTries
<1>5. NoAttributes.source # "mock" /\ item.attrs = NoAttributes
  BY <1>1 DEF NoAttributes
<1>6. NoneInvented /\ SeenByTheVerifier
  BY <1>1, <1>5 DEF NoneInvented, SeenByTheVerifier
<1>7. HeuristicComesLast
  BY <1>1 DEF HeuristicComesLast, Asked
<1>8. QED
  BY <1>2, <1>3, <1>4, <1>6, <1>7 DEF LooksInv

LEMMA BeginKeeps == ASSUME LooksInv, NEW s \in ToSet(Looks), Begin(s) PROVE LooksInv'
<1>1. /\ stage' = s /\ heard' = <<>> /\ regions' = NoRegions /\ draft' = NoAttributes
      /\ easel' = "none" /\ report' = NoReport
      /\ setup' = setup /\ item' = item /\ shelf' = shelf
  BY DEF Begin
<1>2. LookTypes'
  <2>1. regions' \in [left : Seq(Labels), kept : Seq(Labels)]
    BY <1>1 DEF NoRegions
  <2>2. stage' \in {"CLASSIFY", "CROP", "ATTRIBUTES", "DIGITISE", "idle"}
    BY <1>1, FourLooks
  <2>3. QED
    BY <1>1, <2>1, <2>2 DEF LookTypes, LooksInv
<1>3. AskedInTurn' /\ WorkAtHand' /\ GuessesAreUnsure' /\ TwoWereAsked' /\ StagesKeepTheirContract'
  BY <1>1 DEF AskedInTurn, ByAttempts, WorkAtHand, GuessesAreUnsure, TwoWereAsked,
              StagesKeepTheirContract, ToVerify
<1>4. WithinTries'
  BY <1>1, PerceptionAssumption DEF WithinTries
<1>5. NoAttributes.source # "mock" /\ NobodyInvents' = NobodyInvents
  BY <1>1, SetupsStand DEF NoAttributes
<1>6. NoneInvented' /\ SeenByTheVerifier'
  BY <1>1, <1>5 DEF NoneInvented, SeenByTheVerifier, LooksInv
<1>7. HeuristicComesLast'
  BY <1>1 DEF HeuristicComesLast, Asked
<1>8. QED
  BY <1>2, <1>3, <1>4, <1>6, <1>7 DEF LooksInv

\* Raising keeps the garment, and all that is asked of a return.
LEMMA RaisingKeeps ==
    ASSUME LooksInv, stage # "idle", LookTypes', NEW said, Raise(said),
           \E most \in {4, AttributeTries, PictureTries} : Len(said) <= most,
           NoneInvented', SeenByTheVerifier',
           "heuristic" \in AskedOf(said) => {"openai", "google"} \subseteq AskedOf(said)
    PROVE  LooksInv'
<1>1. Return(said, "RAISED", "UNSET", item)
  BY DEF Raise
<1>2. stage \in {"CLASSIFY", "CROP", "ATTRIBUTES", "DIGITISE"}
  BY DEF LooksInv, LookTypes
<1>3. Allowed(stage, "RAISED", "UNSET", item, item)
  BY <1>2, RaisingIsAllowed
<1>4. QED
  BY <1>1, <1>3, ReturningKeeps

LEMMA UnpreparedKeeps == ASSUME LooksInv, Unprepared PROVE LooksInv'
<1>1. /\ stage # "idle" /\ Raise(heard)
      /\ UNCHANGED <<setup, regions, draft, easel, shelf>>
  BY DEF Unprepared
<1>2. item' = item /\ stage' = "idle" /\ heard' = heard
  BY <1>1 DEF Raise, Return
<1>3. LookTypes'
  BY <1>1, <1>2 DEF LookTypes, LooksInv
<1>4. NoneInvented' /\ SeenByTheVerifier'
  BY <1>1, <1>2, SetupsStand DEF NoneInvented, SeenByTheVerifier, LooksInv
<1>5. "heuristic" \in AskedOf(heard) => {"openai", "google"} \subseteq AskedOf(heard)
  BY DEF LooksInv, HeuristicComesLast, Asked, AskedOf
<1>6. \E most \in {4, AttributeTries, PictureTries} : Len(heard) <= most
  BY DEF LooksInv, WithinTries
<1>7. QED
  BY <1>1, <1>3, <1>4, <1>5, <1>6, RaisingKeeps

\* One more attempt of three, which is the last if there have been two.
LEMMA AnAttempt ==
    ASSUME LooksInv, ByAttempts, NEW w \in Words, NEW said, said = Note(Attempts[Len(heard) + 1], w)
    PROVE  /\ said \in Seq(Utterances) /\ Len(said) = Len(heard) + 1 /\ Len(said) \in 1..3
           /\ Len(Attempts) = 3
           /\ \A i \in DOMAIN said : said[i].by = Attempts[i]
           /\ Last(said).by # "heuristic"
           /\ "heuristic" \notin AskedOf(said)
           /\ Len(said) = 3 => {"openai", "google"} \subseteq AskedOf(said)
<1> DEFINE u == [by |-> Attempts[Len(heard) + 1], said |-> w]
<1>1. heard \in Seq(Utterances) /\ Len(heard) \in 0..2 /\ DOMAIN heard = 1..Len(heard)
  <2>1. heard \in Seq(Utterances)
    BY DEF LooksInv, LookTypes, Utterances
  <2>2. Len(heard) < 3
    BY DEF ByAttempts
  <2>3. Len(heard) \in Nat /\ DOMAIN heard = 1..Len(heard)
    BY <2>1
  <2>4. QED
    BY <2>1, <2>2, <2>3
<1>2. /\ Len(Attempts) = 3
      /\ Attempts[1] = "openai" /\ Attempts[2] = "openai" /\ Attempts[3] = "google"
  BY DEF Attempts
<1>3. u \in Utterances /\ u.by = Attempts[Len(heard) + 1]
  <2>1. Attempts[Len(heard) + 1] \in Voices
    BY <1>1, <1>2 DEF Voices
  <2>2. QED
    BY <2>1 DEF Utterances
<1>4. said = Append(heard, u)
  BY DEF Note
<1> HIDE DEF u
<1>5. /\ said \in Seq(Utterances) /\ Len(said) = Len(heard) + 1
      /\ DOMAIN said = 1..(Len(heard) + 1) /\ said[Len(heard) + 1] = u
      /\ \A i \in 1..Len(heard) : said[i] = heard[i]
  BY <1>1, <1>3, <1>4, OneMore
<1>6. \A i \in 1..Len(heard) : heard[i].by = Attempts[i]
  BY <1>1 DEF ByAttempts
<1>7. ASSUME NEW i \in DOMAIN said PROVE said[i].by = Attempts[i]
  <2>1. CASE i = Len(heard) + 1
    BY <1>3, <1>5, <2>1
  <2>2. CASE i # Len(heard) + 1
    <3>1. i \in 1..Len(heard)
      BY <1>1, <1>5, <2>2
    <3>2. QED
      BY <1>5, <1>6, <3>1
  <2>3. QED
    BY <2>1, <2>2
<1>8. \A i \in DOMAIN said : said[i].by # "heuristic"
  BY <1>1, <1>2, <1>5, <1>7
<1>9. "heuristic" \notin AskedOf(said)
  BY <1>8 DEF AskedOf
<1>10. Last(said).by # "heuristic"
  BY <1>1, <1>5, <1>8 DEF Last
<1>11. ASSUME Len(said) = 3 PROVE {"openai", "google"} \subseteq AskedOf(said)
  <2>1. said[1].by = "openai" /\ said[3].by = "google" /\ 1 \in DOMAIN said /\ 3 \in DOMAIN said
    BY <1>1, <1>2, <1>5, <1>7, <1>11
  <2>2. QED
    BY <2>1 DEF AskedOf
<1>12. Len(said) \in 1..3
  BY <1>1, <1>5
<1>13. QED
  BY <1>2, <1>5, <1>7, <1>9, <1>10, <1>11, <1>12

\* The heuristic after three attempts.
LEMMA ThenTheHeuristic ==
    ASSUME NEW said \in Seq(Utterances), Len(said) \in 1..3,
           {"openai", "google"} \subseteq AskedOf(said),
           NEW more, more = Append(said, [by |-> "heuristic", said |-> "answer"])
    PROVE  /\ more \in Seq(Utterances) /\ Len(more) \in 1..4
           /\ {"openai", "google"} \subseteq AskedOf(more)
<1>1. PICK u \in Utterances : more = Append(said, u)
  <2>1. [by |-> "heuristic", said |-> "answer"] \in Utterances
    BY DEF Utterances, Voices, Words
  <2>2. QED
    BY <2>1
<1>2. /\ more \in Seq(Utterances) /\ Len(more) = Len(said) + 1 /\ Len(said) \in Nat
      /\ DOMAIN more = 1..(Len(said) + 1)
      /\ \A i \in 1..Len(said) : more[i] = said[i]
  BY <1>1, OneMore
<1>3. Len(more) \in 1..4
  BY <1>2
<1>4. DOMAIN said = 1..Len(said)
  OBVIOUS
<1>5. AskedOf(said) \subseteq AskedOf(more)
  BY <1>2, <1>4 DEF AskedOf
<1>6. QED
  BY <1>2, <1>3, <1>5

LEMMA ClassifyKeeps == ASSUME LooksInv, Classify PROVE LooksInv'
<1>1. PICK got \in Answering :
          IF got = "answer"
          THEN \E type \in ImageTypes, confidence \in {50, 90} :
                  Classified(Note(Attempts[Len(heard) + 1], got), type, confidence)
          ELSE IF Len(Note(Attempts[Len(heard) + 1], got)) = Len(Attempts)
               THEN \E guess \in Guesses :
                       Classified(Append(Note(Attempts[Len(heard) + 1], got),
                                         [by |-> "heuristic", said |-> "answer"]),
                                  guess.type, HeuristicConfidence(guess.confidence))
          ELSE /\ heard' = Note(Attempts[Len(heard) + 1], got)
               /\ UNCHANGED <<item, stage, report>>
  BY DEF Classify
<1>2. PICK said : said = Note(Attempts[Len(heard) + 1], got)
  OBVIOUS
<1>3. /\ stage = "CLASSIFY" /\ UNCHANGED <<setup, regions, draft, easel, shelf>>
      /\ LookTypes /\ ByAttempts
  BY DEF Classify, LooksInv, AskedInTurn
<1>4. got \in Words /\ got \in {"answer", "none"}
  BY DEF Answering, ParseModelJson, Words
<1>5. /\ said \in Seq(Utterances) /\ Len(said) = Len(heard) + 1 /\ Len(said) \in 1..3
      /\ Len(Attempts) = 3
      /\ \A i \in DOMAIN said : said[i].by = Attempts[i]
      /\ Last(said).by # "heuristic"
      /\ "heuristic" \notin AskedOf(said)
      /\ Len(said) = 3 => {"openai", "google"} \subseteq AskedOf(said)
  BY <1>2, <1>3, <1>4, AnAttempt
\* A verdict on the kind of photo.
<1>6. ASSUME NEW more \in Seq(Utterances), NEW type \in ImageTypes, NEW confidence,
             Classified(more, type, confidence), Len(more) \in 1..4,
             "heuristic" \in AskedOf(more) => {"openai", "google"} \subseteq AskedOf(more),
             confidence >= 70 => Last(more).by # "heuristic"
      PROVE  LooksInv'
  <2> DEFINE after == [item EXCEPT !.type = type]
  <2>1. after \in Photographed /\ after.attrs = item.attrs /\ after.picture = item.picture
    BY <1>3 DEF LookTypes, Photographed
  <2> HIDE DEF after
  <2>2. PICK status, quality :
            /\ Return(more, status, quality, after)
            /\ <<status, quality>> \in {<<"SUCCEEDED", "APPROVED">>,
                                        <<"REVIEW_REQUIRED", "REVIEW_REQUIRED">>}
            /\ status = "SUCCEEDED" => confidence >= 70
    <3>1. CASE confidence >= 70
      BY <1>6, <3>1 DEF Classified, after
    <3>2. CASE ~(confidence >= 70)
      BY <1>6, <3>2 DEF Classified, after
    <3>3. QED
      BY <3>1, <3>2
  <2>3. item' = after /\ stage' = "idle" /\ heard' = more
    BY <2>2 DEF Return
  <2>4. LookTypes'
    BY <1>3, <2>1, <2>3 DEF LookTypes, Utterances
  <2>5. Allowed(stage, status, quality, item, after)
    BY <1>3, <2>1, <2>2, ClassifyingIsAllowed
  <2>6. NoneInvented' /\ SeenByTheVerifier'
    <3>1. NoneInvented'
      <4>1. NoneInvented
        BY DEF LooksInv
      <4>2. item'.attrs = item.attrs /\ setup' = setup /\ draft' = draft
        BY <1>3, <2>1, <2>3
      <4>3. QED
        BY <4>1, <4>2, SetupsStand DEF NoneInvented
    <3>2. SeenByTheVerifier'
      BY <1>3, <2>1, <2>3 DEF SeenByTheVerifier, LooksInv
    <3>3. QED
      BY <3>1, <3>2
  <2>7. \E most \in {4, AttributeTries, PictureTries} : Len(more) <= most
    <3>1. Len(more) \in 1..4
      BY <1>6, Zenon
    <3>2. \A n \in 1..4 : n <= 4
      OBVIOUS
    <3>3. QED
      BY <3>1, <3>2, Zenon
  <2>8. stage # "ATTRIBUTES" /\ stage # "idle"
    BY <1>3
  <2>9. stage = "CLASSIFY" /\ status = "SUCCEEDED" => Last(more).by # "heuristic"
    BY <1>6, <2>2
  <2>10. QED
    BY <1>6, <2>2, <2>4, <2>5, <2>6, <2>7, <2>8, <2>9, ReturningKeeps
<1>7. CASE got = "answer"
  <2>1. PICK type \in ImageTypes, confidence \in {50, 90} : Classified(said, type, confidence)
    BY <1>1, <1>2, <1>7
  <2>2. Len(said) \in 1..4
    BY <1>5
  <2>3. QED
    BY <1>5, <1>6, <2>1, <2>2
<1>8. CASE got # "answer" /\ Len(said) = 3
  <2>1. PICK guess \in Guesses :
            Classified(Append(said, [by |-> "heuristic", said |-> "answer"]),
                       guess.type, HeuristicConfidence(guess.confidence))
    BY <1>1, <1>2, <1>5, <1>8
  <2>2. PICK more : more = Append(said, [by |-> "heuristic", said |-> "answer"])
    OBVIOUS
  <2>3. /\ more \in Seq(Utterances) /\ Len(more) \in 1..4
        /\ {"openai", "google"} \subseteq AskedOf(more)
    BY <1>5, <1>8, <2>2, ThenTheHeuristic
  <2>4. guess.type \in ImageTypes /\ guess.confidence \in {85, 96}
    BY DEF Guesses
  <2>5. PICK confidence : confidence = HeuristicConfidence(guess.confidence)
    OBVIOUS
  <2>6. confidence = 40
    BY <2>4, <2>5 DEF HeuristicConfidence
  <2>7. Classified(more, guess.type, confidence) /\ Len(more) \in 1..4 /\ ~(confidence >= 70)
    BY <2>1, <2>2, <2>3, <2>5, <2>6
  <2>8. QED
    BY <1>6, <2>3, <2>4, <2>7
<1>9. CASE got # "answer" /\ Len(said) # 3
  <2>1. heard' = said /\ UNCHANGED <<item, stage, report>>
    BY <1>1, <1>2, <1>5, <1>9
  <2>2. LookTypes'
    BY <1>3, <1>5, <2>1 DEF LookTypes, Utterances
  <2>3. AskedInTurn' /\ WorkAtHand' /\ WithinTries'
    <3>1. AskedInTurn'
      BY <1>3, <1>5, <1>9, <2>1 DEF AskedInTurn, ByAttempts, Attempts
    <3>2. WithinTries'
      BY <1>3, <1>5, <2>1 DEF WithinTries
    <3>3. WorkAtHand'
      BY <1>3, <2>1 DEF WorkAtHand, LooksInv
    <3>4. QED
      BY <3>1, <3>2, <3>3
  <2>4. NoneInvented' /\ SeenByTheVerifier'
    BY <1>3, <2>1, SetupsStand DEF NoneInvented, SeenByTheVerifier, LooksInv
  <2>5. HeuristicComesLast'
    BY <1>5, <2>1 DEF HeuristicComesLast, Asked, AskedOf
  <2>6. QED
    BY <1>3, <2>1, <2>2, <2>3, <2>4, <2>5, GoingOnKeeps
<1>10. QED
  BY <1>7, <1>8, <1>9

\* Relabelling a garment leaves its attributes and its picture.
LEMMA RelabellingKeeps ==
    ASSUME item \in Photographed, NEW kept \in Seq(Labels), NEW after,
           after \in {item, Labelled(kept)}
    PROVE  after \in Photographed /\ after.attrs = item.attrs /\ after.picture = item.picture
<1>1. CASE after = item
  BY <1>1
<1>2. CASE after = Labelled(kept)
  <2>1. kept # <<>> => kept[1] \in Labels
    OBVIOUS
  <2>2. CASE kept = <<>>
    BY <1>2, <2>2 DEF Labelled, Photographed
  <2>3. CASE kept # <<>>
    BY <1>2, <2>1, <2>3 DEF Labelled, Photographed
  <2>4. QED
    BY <2>2, <2>3
<1>3. QED
  BY <1>1, <1>2

\* The detection stage succeeds with the garment perhaps relabelled.
LEMMA CropReturnKeeps ==
    ASSUME LooksInv, stage = "CROP", UNCHANGED <<setup, draft, easel, shelf>>,
           regions' \in [left : Seq(Labels), kept : Seq(Labels)],
           NEW more \in Seq(Utterances),
           \E most \in {4, AttributeTries, PictureTries} : Len(more) <= most,
           "heuristic" \in AskedOf(more) => {"openai", "google"} \subseteq AskedOf(more),
           NEW kept \in Seq(Labels), NEW after, after \in {item, Labelled(kept)},
           Return(more, "SUCCEEDED", "UNSET", after)
    PROVE  LooksInv'
<1>1. after \in Photographed /\ after.attrs = item.attrs /\ after.picture = item.picture
  BY RelabellingKeeps DEF LooksInv, LookTypes
<1>2. item' = after /\ stage' = "idle" /\ heard' = more
  BY DEF Return
<1>3. LookTypes'
  BY <1>1, <1>2 DEF LookTypes, Utterances, LooksInv
<1>4. Allowed(stage, "SUCCEEDED", "UNSET", item, after)
  BY <1>1, CroppingIsAllowed
<1>5. NoneInvented'
  <2>1. NoneInvented
    BY DEF LooksInv
  <2>2. item'.attrs = item.attrs /\ setup' = setup /\ draft' = draft
    BY <1>1, <1>2
  <2>3. QED
    BY <2>1, <2>2, SetupsStand DEF NoneInvented
<1>6. SeenByTheVerifier'
  BY <1>1, <1>2 DEF SeenByTheVerifier, LooksInv
<1>7. stage # "ATTRIBUTES" /\ stage # "idle" /\ stage # "CLASSIFY"
  OBVIOUS
<1>8. QED
  BY <1>3, <1>4, <1>5, <1>6, <1>7, ReturningKeeps

\* The detection stage goes on with regions to check, or with another attempt.
LEMMA CropGoesOn ==
    ASSUME LooksInv, stage = "CROP", UNCHANGED <<setup, item, stage, draft, easel, shelf, report>>,
           regions' \in [left : Seq(Labels), kept : Seq(Labels)],
           heard' \in Seq(Utterances),
           \E most \in {4, AttributeTries, PictureTries} : Len(heard') <= most,
           "heuristic" \in Asked' => {"openai", "google"} \subseteq Asked',
           regions'.left # <<>> \/ regions'.kept # <<>> \/ ByAttempts'
    PROVE  LooksInv'
<1>1. LookTypes'
  BY DEF LookTypes, Utterances, LooksInv
<1>2. AskedInTurn'
  BY DEF AskedInTurn
<1>3. WithinTries'
  BY DEF WithinTries
<1>4. WorkAtHand'
  BY DEF WorkAtHand, LooksInv
<1>5. NoneInvented' /\ SeenByTheVerifier'
  BY SetupsStand DEF NoneInvented, SeenByTheVerifier, LooksInv
<1>6. HeuristicComesLast'
  BY DEF HeuristicComesLast
<1>7. stage # "idle"
  OBVIOUS
<1>8. QED
  BY <1>1, <1>2, <1>3, <1>4, <1>5, <1>6, <1>7, GoingOnKeeps

\* What a detector finds is a sequence of labels.
LEMMA DetectionsAreLabels == <<>> \in Seq(Labels) /\ Detections \subseteq Seq(Labels)
<1>1. ASSUME NEW found \in Detections PROVE found \in Seq(Labels)
  <2>1. PICK n \in 0..2 : found \in [1..n -> Labels]
    BY DEF Detections
  <2>2. n \in Nat
    OBVIOUS
  <2>3. QED
    BY <2>1, <2>2
<1>2. QED
  BY <1>1

LEMMA DetectKeeps == ASSUME LooksInv, Detect PROVE LooksInv'
<1>1. PICK got \in Answering, person, face \in BOOLEAN, labels \in Detections :
          LET found == labels # <<>>
              useful == got = "answer" /\ (found \/ ~person)
              said == Note(Attempts[Len(heard) + 1], IF useful THEN "answer" ELSE "none")
          IN IF useful THEN Detected(said, face /\ found, labels)
             ELSE IF Len(said) = Len(Attempts)
                  THEN /\ HeuristicDetects(face, labels)
                       /\ Detected(Append(said, [by |-> "heuristic", said |-> "answer"]),
                                   face, labels)
             ELSE heard' = said /\ UNCHANGED <<item, stage, regions, report>>
  BY DEF Detect
<1>2. PICK useful \in BOOLEAN : useful = (got = "answer" /\ (labels # <<>> \/ ~person))
  OBVIOUS
<1>3. PICK w \in Words : w = IF useful THEN "answer" ELSE "none"
  BY DEF Words
<1>4. PICK said : said = Note(Attempts[Len(heard) + 1], w)
  OBVIOUS
<1>5. /\ (useful = TRUE) => \E f : Detected(said, f, labels)
      /\ (useful = FALSE) /\ Len(said) = Len(Attempts) =>
             Detected(Append(said, [by |-> "heuristic", said |-> "answer"]), face, labels)
      /\ (useful = FALSE) /\ Len(said) # Len(Attempts) =>
             heard' = said /\ UNCHANGED <<item, stage, regions, report>>
  BY <1>1, <1>2, <1>3, <1>4
<1>6. /\ stage = "CROP" /\ UNCHANGED <<setup, draft, easel, shelf>>
      /\ regions.left = <<>> /\ regions.kept = <<>> /\ LookTypes /\ ByAttempts
  BY DEF Detect, LooksInv, AskedInTurn
<1>7. /\ said \in Seq(Utterances) /\ Len(said) = Len(heard) + 1 /\ Len(said) \in 1..3
      /\ Len(Attempts) = 3
      /\ \A i \in DOMAIN said : said[i].by = Attempts[i]
      /\ "heuristic" \notin AskedOf(said)
      /\ Len(said) = 3 => {"openai", "google"} \subseteq AskedOf(said)
  BY <1>4, <1>6, AnAttempt
<1>8. labels \in Seq(Labels)
  BY DetectionsAreLabels
<1>9. ASSUME NEW more \in Seq(Utterances), NEW f, Detected(more, f, labels), Len(more) \in 1..4,
             "heuristic" \in AskedOf(more) => {"openai", "google"} \subseteq AskedOf(more)
      PROVE  LooksInv'
  <2>1. \E most \in {4, AttributeTries, PictureTries} : Len(more) <= most
    <3>1. Len(more) \in 1..4
      BY <1>9, Zenon
    <3>2. \A n \in 1..4 : n <= 4
      OBVIOUS
    <3>3. QED
      BY <3>1, <3>2, Zenon
  <2>2. regions' = [left |-> labels, kept |-> <<>>]
    BY <1>9 DEF Detected
  <2>3. regions' \in [left : Seq(Labels), kept : Seq(Labels)] /\ regions'.left = labels
    BY <1>8, <2>2
  <2>4. PICK none \in Seq(Labels) : none = <<>>
    BY DetectionsAreLabels, Zenon
  <2>5. \/ Return(more, "SUCCEEDED", "UNSET", item)
        \/ Return(more, "SUCCEEDED", "UNSET", Labelled(none))
        \/ labels # <<>> /\ heard' = more /\ UNCHANGED <<item, stage, report>>
    BY <1>9, <2>4 DEF Detected
  <2>6. CASE Return(more, "SUCCEEDED", "UNSET", item)
    BY <1>6, <1>9, <2>1, <2>3, <2>4, <2>6, CropReturnKeeps
  <2>7. CASE Return(more, "SUCCEEDED", "UNSET", Labelled(none))
    BY <1>6, <1>9, <2>1, <2>3, <2>4, <2>7, CropReturnKeeps
  <2>8. CASE labels # <<>> /\ heard' = more /\ UNCHANGED <<item, stage, report>>
    <3>1. Asked' = AskedOf(more)
      BY <2>8 DEF Asked, AskedOf
    <3>2. "heuristic" \in Asked' => {"openai", "google"} \subseteq Asked'
      BY <1>9, <3>1
    <3>3. QED
      BY <1>6, <2>1, <2>3, <2>8, <3>2, CropGoesOn
  <2>9. QED
    BY <2>5, <2>6, <2>7, <2>8
<1>10. CASE useful = TRUE
  <2>1. PICK f : Detected(said, f, labels)
    BY <1>5, <1>10
  <2>2. Len(said) \in 1..4
    BY <1>7
  <2>3. QED
    BY <1>7, <1>9, <2>1, <2>2
<1>11. CASE useful = FALSE /\ Len(said) = 3
  <2>1. PICK more : more = Append(said, [by |-> "heuristic", said |-> "answer"])
    OBVIOUS
  <2>2. Detected(more, face, labels)
    BY <1>5, <1>7, <1>11, <2>1
  <2>3. /\ more \in Seq(Utterances) /\ Len(more) \in 1..4
        /\ {"openai", "google"} \subseteq AskedOf(more)
    BY <1>7, <1>11, <2>1, ThenTheHeuristic
  <2>4. QED
    BY <1>9, <2>2, <2>3
<1>12. CASE useful = FALSE /\ Len(said) # 3
  <2>1. heard' = said /\ UNCHANGED <<item, stage, regions, report>>
    BY <1>5, <1>7, <1>12
  <2>2. Asked' = AskedOf(said)
    BY <2>1 DEF Asked, AskedOf
  <2>3. ByAttempts'
    BY <1>7, <1>12, <2>1 DEF ByAttempts, Attempts
  <2>4. regions' \in [left : Seq(Labels), kept : Seq(Labels)]
    BY <1>6, <2>1 DEF LookTypes
  <2>5. \E most \in {4, AttributeTries, PictureTries} : Len(heard') <= most
    BY <1>7, <2>1
  <2>6. heard' \in Seq(Utterances)
    BY <1>7, <2>1
  <2>7. QED
    BY <1>6, <1>7, <2>1, <2>2, <2>3, <2>4, <2>5, <2>6, CropGoesOn
<1>13. QED
  BY <1>10, <1>11, <1>12

LEMMA VerifyRegionKeeps == ASSUME LooksInv, VerifyRegion PROVE LooksInv'
<1>1. PICK kept, left :
          /\ left = Tail(regions.left)
          /\ kept \in {regions.kept, Append(regions.kept, Head(regions.left))}
          /\ kept # <<>>
          /\ regions' = [left |-> left, kept |-> kept]
          /\ \/ UNCHANGED <<item, stage, heard, report>>
             \/ Return(heard, "SUCCEEDED", "UNSET", Labelled(kept))
             \/ Raise(heard)
  <2>1. PICK verdict \in VerifierSays({"present", "absent"}) :
          LET label == Head(regions.left)
              kept == IF verdict = "absent" /\ regions.kept # <<>> THEN regions.kept
                      ELSE Append(regions.kept, label)
              left == Tail(regions.left)
          IN /\ regions' = [left |-> left, kept |-> kept]
             /\ IF left # <<>> THEN UNCHANGED <<item, stage, heard, report>>
                ELSE Return(heard, "SUCCEEDED", "UNSET", Labelled(kept)) \/ Raise(heard)
    BY DEF VerifyRegion
  <2>2. PICK label : label = Head(regions.left)
    OBVIOUS
  <2>3. regions.kept \in Seq(Labels) /\ label \in Labels
    BY <2>2 DEF LooksInv, LookTypes, VerifyRegion
  <2>4. Append(regions.kept, label) # <<>>
    BY <2>3, OneMore
  <2>5. CASE verdict = "absent" /\ regions.kept # <<>>
    BY <2>1, <2>5, Zenon
  <2>6. CASE ~(verdict = "absent" /\ regions.kept # <<>>)
    BY <2>1, <2>2, <2>4, <2>6, Zenon
  <2>7. QED
    BY <2>5, <2>6
<1>2. /\ stage = "CROP" /\ UNCHANGED <<setup, draft, easel, shelf>> /\ regions.left # <<>>
      /\ LookTypes
  BY DEF VerifyRegion, LooksInv
<1>3. left \in Seq(Labels) /\ kept \in Seq(Labels)
  <2>1. regions.left \in Seq(Labels) /\ regions.kept \in Seq(Labels)
    BY <1>2 DEF LookTypes
  <2>2. PICK label : label = Head(regions.left)
    OBVIOUS
  <2>3. label \in Labels /\ Tail(regions.left) \in Seq(Labels)
    BY <1>2, <2>1, <2>2
  <2>4. Append(regions.kept, label) \in Seq(Labels)
    BY <2>1, <2>3, OneMore
  <2>5. QED
    BY <1>1, <2>1, <2>2, <2>3, <2>4
<1>4. regions' \in [left : Seq(Labels), kept : Seq(Labels)] /\ regions'.kept = kept
  BY <1>1, <1>3
<1>5. /\ heard \in Seq(Utterances)
      /\ \E most \in {4, AttributeTries, PictureTries} : Len(heard) <= most
      /\ "heuristic" \in Asked => {"openai", "google"} \subseteq Asked
      /\ Asked = AskedOf(heard)
  BY <1>2 DEF LookTypes, Utterances, LooksInv, WithinTries, HeuristicComesLast, Asked, AskedOf
<1>6. CASE UNCHANGED <<item, stage, heard, report>>
  <2>1. heard' = heard /\ Asked' = Asked
    BY <1>6 DEF Asked
  <2>2. QED
    BY <1>1, <1>2, <1>4, <1>5, <1>6, <2>1, CropGoesOn
<1>7. CASE Return(heard, "SUCCEEDED", "UNSET", Labelled(kept))
  BY <1>2, <1>3, <1>4, <1>5, <1>7, CropReturnKeeps
<1>8. CASE Raise(heard)
  <2>1. item' = item /\ stage' = "idle" /\ heard' = heard
    BY <1>8 DEF Raise, Return
  <2>2. LookTypes'
    BY <1>2, <1>4, <2>1 DEF LookTypes
  <2>3. NoneInvented' /\ SeenByTheVerifier'
    BY <1>2, <2>1, SetupsStand DEF NoneInvented, SeenByTheVerifier, LooksInv
  <2>4. stage # "idle"
    BY <1>2
  <2>5. QED
    BY <1>5, <1>8, <2>2, <2>3, <2>4, RaisingKeeps
<1>9. QED
  BY <1>1, <1>6, <1>7, <1>8

\* Two different elements are more than one.
LEMMA TwoOfThem ==
    ASSUME NEW S, IsFiniteSet(S), NEW p \in S, NEW q \in S, p # q
    PROVE  Cardinality(S) > 1
<1>1. IsFiniteSet({p}) /\ Cardinality({p}) = 1
  BY FS_Singleton
<1>2. Cardinality({p} \cup {q}) = 1 + 1
  <2>1. q \notin {p}
    OBVIOUS
  <2>2. QED
    BY <1>1, <2>1, FS_AddElement
<1>3. {p} \cup {q} \in SUBSET S
  OBVIOUS
<1>4. Cardinality({p} \cup {q}) <= Cardinality(S)
  BY <1>3, FS_Subset
<1>5. Cardinality(S) \in Nat
  BY FS_CardinalityType
<1>6. QED
  BY <1>2, <1>4, <1>5

\* Two different voices are more than one.
LEMMA TwoVoices ==
    ASSUME NEW said \in Seq(Utterances), NEW p \in AskedOf(said), NEW q \in AskedOf(said), p # q
    PROVE  Cardinality(AskedOf(said)) > 1
<1> DEFINE voices == [i \in 1..Len(said) |-> said[i].by]
<1>1. voices \in Seq(AskedOf(said)) /\ Len(voices) = Len(said)
  BY DEF AskedOf
<1>2. \A v \in AskedOf(said) : \E n \in 1..Len(voices) : voices[n] = v
  BY <1>1 DEF AskedOf
<1> HIDE DEF voices
<1>3. IsFiniteSet(AskedOf(said))
  BY <1>1, <1>2 DEF IsFiniteSet
<1>4. QED
  BY <1>3, TwoOfThem

\* The stage settles with attributes that were verified, or after all its tries.
LEMMA SettleKeeps ==
    ASSUME LooksInv, stage = "ATTRIBUTES", UNCHANGED <<setup, regions, draft, easel, shelf>>,
           NEW said \in Seq(Utterances), Len(said) \in 1..AttributeTries,
           \A i \in DOMAIN said : said[i].by = Vendor(i),
           draft = NoAttributes \/ said[Len(said)].said \notin {"match", "none"}
               => Len(said) = AttributeTries,
           Settle(said, draft)
    PROVE  LooksInv'
<1>1. LookTypes
  BY DEF LooksInv
<1>2. AttributeTries \in Nat \ {0}
  BY PerceptionAssumption
<1>3. \E most \in {4, AttributeTries, PictureTries} : Len(said) <= most
  BY <1>2
<1>4. \A i \in DOMAIN said : said[i].by # "heuristic"
  <2>1. ASSUME NEW i \in DOMAIN said PROVE said[i].by # "heuristic"
    <3>1. i \in Nat /\ said[i].by = Vendor(i)
      OBVIOUS
    <3>2. Vendor(i) # "heuristic"
      BY <1>1, <3>1, VendorsKnown DEF LookTypes
    <3>3. QED
      BY <3>1, <3>2
  <2>2. QED
    BY <2>1
<1>5. "heuristic" \notin AskedOf(said)
  BY <1>4 DEF AskedOf
<1>6. ASSUME AttributeTries > 1, Len(said) = AttributeTries, ~SameModelTwice
      PROVE  Cardinality(AskedOf(said)) > 1
  <2>1. 1 \in DOMAIN said /\ 2 \in DOMAIN said
    BY <1>2, <1>6
  <2>2. said[1].by \in AskedOf(said) /\ said[2].by \in AskedOf(said)
    BY <2>1 DEF AskedOf
  <2>3. said[1].by # said[2].by
    BY <1>1, <1>6, <2>1, AnotherVendor DEF LookTypes
  <2>4. QED
    BY <2>2, <2>3, TwoVoices
\* What is common to the ways of returning.
<1>7. ASSUME NEW status, NEW quality, NEW after, Return(said, status, quality, after),
             Allowed("ATTRIBUTES", status, quality, item, after),
             after \in Photographed, after.picture = item.picture,
             after.attrs \in {item.attrs, draft},
             status \in {"REVIEW_REQUIRED", "FAILED"} => Len(said) = AttributeTries
      PROVE  LooksInv'
  <2>1. item' = after /\ stage' = "idle" /\ heard' = said
    BY <1>7 DEF Return
  <2>2. LookTypes'
    BY <1>1, <1>7, <2>1 DEF LookTypes, Utterances
  <2>3. NoneInvented'
    <3>1. NoneInvented
      BY DEF LooksInv
    <3>2. item'.attrs \in {item.attrs, draft} /\ setup' = setup /\ draft' = draft
      BY <1>7, <2>1
    <3>3. QED
      BY <3>1, <3>2, SetupsStand DEF NoneInvented
  <2>4. SeenByTheVerifier'
    BY <1>7, <2>1 DEF SeenByTheVerifier, LooksInv
  <2>5. Allowed(stage, status, quality, item, after)
    BY <1>7
  <2>6. AttributeTries > 1 /\ status \in {"REVIEW_REQUIRED", "FAILED"} /\ ~SameModelTwice'
           => Cardinality(AskedOf(said)) > 1
    BY <1>6, <1>7, SetupsStand
  <2>7. stage # "CLASSIFY" /\ stage # "idle"
    OBVIOUS
  <2>8. QED
    BY <1>3, <1>5, <1>7, <2>2, <2>3, <2>4, <2>5, <2>6, <2>7, ReturningKeeps
<1>8. CASE draft = NoAttributes
  <2>1. \/ Return(said, "FAILED", "REJECTED", item)
        \/ Return(said, "REVIEW_REQUIRED", "REVIEW_REQUIRED", item)
    BY <1>8 DEF Settle
  <2>2. /\ Allowed("ATTRIBUTES", "FAILED", "REJECTED", item, item)
        /\ Allowed("ATTRIBUTES", "REVIEW_REQUIRED", "REVIEW_REQUIRED", item, item)
    BY NothingStoredIsAllowed
  <2>3. item \in Photographed /\ Len(said) = AttributeTries
    BY <1>1, <1>8 DEF LookTypes
  <2>4. QED
    BY <1>7, <2>1, <2>2, <2>3
<1>9. CASE draft # NoAttributes
  <2>1. draft \in AttributeSets
    BY <1>1, <1>9 DEF LookTypes
  <2>2. PICK after : after = [item EXCEPT !.attrs = draft]
    OBVIOUS
  <2>3. after \in Photographed /\ after.attrs = draft /\ after.picture = item.picture
    BY <1>1, <2>1, <2>2 DEF LookTypes, Photographed
  <2>4. \/ Return(said, "SUCCEEDED", "APPROVED", after)
        \/ /\ Return(said, "REVIEW_REQUIRED", "REVIEW_REQUIRED", after)
           /\ said[Len(said)].said \notin {"match", "none"}
    BY <1>9, <2>2 DEF Settle
  <2>5. /\ Allowed("ATTRIBUTES", "SUCCEEDED", "APPROVED", item, after)
        /\ Allowed("ATTRIBUTES", "REVIEW_REQUIRED", "REVIEW_REQUIRED", item, after)
    BY <2>1, <2>3, StoringIsAllowed
  <2>6. CASE Return(said, "SUCCEEDED", "APPROVED", after)
    BY <1>7, <2>3, <2>5, <2>6
  <2>7. CASE /\ Return(said, "REVIEW_REQUIRED", "REVIEW_REQUIRED", after)
             /\ said[Len(said)].said \notin {"match", "none"}
    BY <1>7, <2>3, <2>5, <2>7
  <2>8. QED
    BY <2>4, <2>6, <2>7
<1>10. QED
  BY <1>8, <1>9

\* The stage goes on with attributes to verify, or with another attempt.
LEMMA AttributesGoOn ==
    ASSUME LooksInv, stage = "ATTRIBUTES",
           UNCHANGED <<setup, item, stage, regions, easel, shelf, report>>,
           NEW said \in Seq(Utterances), heard' = said, Len(said) \in 1..AttributeTries,
           \A i \in DOMAIN said : said[i].by = Vendor(i),
           IF said[Len(said)].said = "extracted" THEN draft' \in AttributeSets
           ELSE Len(said) # AttributeTries /\ draft' = draft,
           NobodyInvents => draft'.source # "mock"
    PROVE  LooksInv'
<1>1. LookTypes
  BY DEF LooksInv
<1>2. AttributeTries \in Nat \ {0}
  BY PerceptionAssumption
<1>3. LookTypes'
  BY <1>1 DEF LookTypes, Utterances
<1>4. AskedInTurn'
  BY DEF AskedInTurn, Vendor, Provider
<1>5. said # <<>> /\ (ToVerify' = (said[Len(said)].said = "extracted"))
  BY DEF ToVerify
<1>6. WithinTries'
  <2>1. \E most \in {4, AttributeTries, PictureTries} : Len(said) <= most
    BY <1>2
  <2>2. Len(said) < AttributeTries \/ (ToVerify' /\ Len(said) = AttributeTries)
    <3>1. Len(said) < AttributeTries \/ Len(said) = AttributeTries
      BY <1>2
    <3>2. Len(said) = AttributeTries => ToVerify'
      BY <1>5, Zenon
    <3>3. QED
      BY <3>1, <3>2
  <2>3. QED
    BY <2>1, <2>2 DEF WithinTries
<1>7. WorkAtHand'
  BY <1>5 DEF WorkAtHand, LooksInv
<1>8. NoneInvented'
  BY SetupsStand DEF NoneInvented, LooksInv
<1>9. SeenByTheVerifier'
  BY DEF SeenByTheVerifier, LooksInv
<1>10. "heuristic" \notin Asked'
  <2>1. ASSUME NEW i \in DOMAIN said PROVE said[i].by # "heuristic"
    <3>1. i \in Nat /\ said[i].by = Vendor(i)
      OBVIOUS
    <3>2. Vendor(i) # "heuristic"
      BY <1>1, <3>1, VendorsKnown DEF LookTypes
    <3>3. QED
      BY <3>1, <3>2
  <2>2. QED
    BY <2>1 DEF Asked
<1>11. HeuristicComesLast' /\ stage # "idle"
  BY <1>10 DEF HeuristicComesLast
<1>12. QED
  BY <1>3, <1>4, <1>6, <1>7, <1>8, <1>9, <1>11, GoingOnKeeps

\* One more attempt of the extraction.
LEMMA AnExtraction ==
    ASSUME LooksInv, stage = "ATTRIBUTES", ~ToVerify, NEW w \in Words,
           NEW said, said = Note(Vendor(Len(heard) + 1), w)
    PROVE  /\ said \in Seq(Utterances) /\ Len(said) \in 1..AttributeTries
           /\ \A i \in DOMAIN said : said[i].by = Vendor(i)
           /\ said[Len(said)].said = w
<1>1. /\ heard \in Seq(Utterances) /\ setup \in Setups /\ Len(heard) < AttributeTries
      /\ \A i \in DOMAIN heard : heard[i].by = Vendor(i)
  BY DEF LooksInv, LookTypes, Utterances, AskedInTurn, WithinTries
<1>2. Len(heard) \in Nat /\ DOMAIN heard = 1..Len(heard)
  BY <1>1
<1>3. PICK v \in Voices : v = Vendor(Len(heard) + 1)
  BY <1>1, <1>2, VendorsKnown DEF Voices
<1>4. PICK u \in Utterances : u = [by |-> v, said |-> w]
  BY DEF Utterances
<1>5. u.by = v /\ u.said = w /\ said = Append(heard, u)
  BY <1>3, <1>4 DEF Note
<1>6. /\ said \in Seq(Utterances) /\ Len(said) = Len(heard) + 1
      /\ DOMAIN said = 1..(Len(heard) + 1) /\ said[Len(heard) + 1] = u
      /\ \A i \in 1..Len(heard) : said[i] = heard[i]
  BY <1>1, <1>5, OneMore
<1>7. ASSUME NEW i \in DOMAIN said PROVE said[i].by = Vendor(i)
  <2>1. CASE i = Len(heard) + 1
    BY <1>3, <1>5, <1>6, <2>1
  <2>2. CASE i # Len(heard) + 1
    <3>1. i \in 1..Len(heard)
      BY <1>2, <1>6, <2>2
    <3>2. QED
      BY <1>1, <1>2, <1>6, <3>1
  <2>3. QED
    BY <2>1, <2>2
<1>8. Len(said) \in 1..AttributeTries
  BY <1>1, <1>2, <1>6, PerceptionAssumption
<1>9. QED
  BY <1>5, <1>6, <1>7, <1>8

LEMMA ExtractKeeps == ASSUME LooksInv, Extract PROVE LooksInv'
<1>1. PICK r \in Extracts(Len(heard) + 1) :
          IF r.came = "extracted" THEN Extracted(r.attrs) ELSE NothingExtracted(r.came)
  BY DEF Extract
<1>2. /\ stage = "ATTRIBUTES" /\ ~ToVerify /\ UNCHANGED <<setup, regions, easel, shelf>>
      /\ LookTypes
  BY DEF Extract, LooksInv
<1>3. Len(heard) + 1 \in Nat \ {0} /\ setup \in Setups
  <2>1. Len(heard) \in Nat /\ setup \in Setups
    BY <1>2 DEF LookTypes
  <2>2. QED
    BY <2>1
<1>4. /\ r.came \in {"extracted", "invalid", "outage"}
      /\ r.came = "extracted" => r.attrs \in AttributeSets
      /\ r.came = "extracted" /\ NobodyInvents => r.attrs.source # "mock"
  BY <1>3, ProvidersAnswer
<1>5. PICK w \in Words : w = r.came
  BY <1>4 DEF Words
<1>6. PICK said : said = Note(Vendor(Len(heard) + 1), w)
  OBVIOUS
<1>7. /\ said \in Seq(Utterances) /\ Len(said) \in 1..AttributeTries
      /\ \A i \in DOMAIN said : said[i].by = Vendor(i)
      /\ said[Len(said)].said = w
  BY <1>2, <1>6, AnExtraction
<1>8. NoneInvented
  BY DEF LooksInv
<1>9. CASE w = "extracted"
  <2>1. draft' = r.attrs /\ heard' = said /\ UNCHANGED <<item, stage, report>>
    BY <1>1, <1>5, <1>6, <1>9 DEF Extracted
  <2>2. draft' \in AttributeSets
    BY <1>4, <1>5, <1>9, <2>1
  <2>3. NobodyInvents => draft'.source # "mock"
    BY <1>4, <1>5, <1>9, <2>1
  <2>4. IF said[Len(said)].said = "extracted" THEN draft' \in AttributeSets
        ELSE Len(said) # AttributeTries /\ draft' = draft
    BY <1>7, <1>9, <2>2
  <2>5. QED
    BY <1>2, <1>7, <2>1, <2>3, <2>4, AttributesGoOn
<1>10. CASE w # "extracted"
  <2>1. /\ draft' = draft
        /\ IF Len(said) = AttributeTries THEN Settle(said, draft)
           ELSE heard' = said /\ UNCHANGED <<item, stage, report>>
    BY <1>1, <1>5, <1>6, <1>10 DEF NothingExtracted
  <2>2. CASE Len(said) = AttributeTries
    BY <1>2, <1>7, <2>1, <2>2, SettleKeeps
  <2>3. CASE Len(said) # AttributeTries
    <3>1. heard' = said /\ UNCHANGED <<item, stage, report, draft>>
      BY <2>1, <2>3
    <3>2. IF said[Len(said)].said = "extracted" THEN draft' \in AttributeSets
          ELSE Len(said) # AttributeTries /\ draft' = draft
      BY <1>7, <1>10, <2>3, <3>1
    <3>3. NobodyInvents => draft'.source # "mock"
      BY <1>8, <3>1, SetupsStand DEF NoneInvented
    <3>4. QED
      BY <1>2, <1>7, <3>1, <3>2, <3>3, AttributesGoOn
  <2>4. QED
    BY <2>2, <2>3
<1>11. QED
  BY <1>9, <1>10

\* A sequence with one element replaced.
LEMMA OneReplaced ==
    ASSUME NEW S, NEW s \in Seq(S), NEW n \in 1..Len(s), NEW e \in S
    PROVE  /\ [s EXCEPT ![n] = e] \in Seq(S) /\ Len([s EXCEPT ![n] = e]) = Len(s)
           /\ DOMAIN [s EXCEPT ![n] = e] = DOMAIN s
           /\ [s EXCEPT ![n] = e][n] = e
           /\ \A i \in 1..Len(s) : i # n => [s EXCEPT ![n] = e][i] = s[i]
  OBVIOUS

\* What the verifier said is noted over what the attempt had come to.
NotedOver(s, n, w, t) == t = [s EXCEPT ![n].said = w]

LEMMA VerdictNoted ==
    ASSUME NEW s \in Seq(Utterances), NEW n \in 1..Len(s), NEW w \in Words,
           NEW t, NotedOver(s, n, w, t)
    PROVE  /\ t \in Seq(Utterances) /\ Len(t) = Len(s) /\ DOMAIN t = DOMAIN s
           /\ t[n].said = w /\ \A i \in DOMAIN s : t[i].by = s[i].by
<1>1. s[n] \in Utterances /\ DOMAIN s = 1..Len(s)
  OBVIOUS
<1>2. PICK u : u = [s[n] EXCEPT !.said = w]
  OBVIOUS
<1>3. u \in Utterances /\ u.by = s[n].by /\ u.said = w
  BY <1>1, <1>2 DEF Utterances
<1>4. t = [s EXCEPT ![n] = u]
  BY <1>2 DEF NotedOver
<1>5. /\ t \in Seq(Utterances) /\ Len(t) = Len(s) /\ DOMAIN t = DOMAIN s
      /\ t[n] = u /\ \A i \in 1..Len(s) : i # n => t[i] = s[i]
  BY <1>3, <1>4, OneReplaced
<1>6. QED
  BY <1>1, <1>3, <1>5, Zenon

LEMMA VerifyAttributesKeeps == ASSUME LooksInv, VerifyAttributes PROVE LooksInv'
<1>1. PICK verdict \in VerifierSays({"match", "mismatch"}) :
          LET said == [heard EXCEPT ![Len(heard)].said = verdict]
          IN IF verdict # "mismatch" \/ Len(said) = AttributeTries THEN Settle(said, draft)
             ELSE heard' = said /\ UNCHANGED <<item, stage, report>>
  BY DEF VerifyAttributes
<1>2. /\ stage = "ATTRIBUTES" /\ ToVerify /\ UNCHANGED <<setup, regions, draft, easel, shelf>>
      /\ draft \in AttributeSets /\ NoneInvented
      /\ heard \in Seq(Utterances) /\ Len(heard) <= AttributeTries
      /\ \A i \in DOMAIN heard : heard[i].by = Vendor(i)
  <2>1. /\ stage = "ATTRIBUTES" /\ ToVerify /\ UNCHANGED <<setup, regions, draft, easel, shelf>>
    BY DEF VerifyAttributes
  <2>2. /\ draft \in AttributeSets /\ NoneInvented /\ heard \in Seq(Utterances)
        /\ \A i \in DOMAIN heard : heard[i].by = Vendor(i)
    BY <2>1 DEF LooksInv, LookTypes, WorkAtHand, AskedInTurn, Utterances
  <2>3. Len(heard) < AttributeTries \/ Len(heard) = AttributeTries
    BY <2>1 DEF LooksInv, WithinTries
  <2>4. Len(heard) \in Nat /\ AttributeTries \in Nat
    BY <2>2, PerceptionAssumption
  <2>5. Len(heard) <= AttributeTries
    BY <2>3, <2>4
  <2>6. QED
    BY <2>1, <2>2, <2>5
<1>3. verdict \in {"match", "mismatch", "none"} /\ verdict \in Words
  BY DEF VerifierSays, Words
<1>4. PICK said : NotedOver(heard, Len(heard), verdict, said)
  BY DEF NotedOver
<1>5. Len(heard) \in 1..Len(heard) /\ Len(heard) \in 1..AttributeTries
  <2>1. heard # <<>> /\ heard \in Seq(Utterances) /\ Len(heard) <= AttributeTries
    BY <1>2, Zenon DEF ToVerify
  <2>2. QED
    BY <2>1, EmptySeq, PerceptionAssumption
<1>6. /\ said \in Seq(Utterances) /\ Len(said) \in 1..AttributeTries
      /\ \A i \in DOMAIN said : said[i].by = Vendor(i)
      /\ said[Len(said)].said = verdict
  <2>1. /\ said \in Seq(Utterances) /\ Len(said) = Len(heard) /\ DOMAIN said = DOMAIN heard
        /\ said[Len(heard)].said = verdict /\ \A i \in DOMAIN heard : said[i].by = heard[i].by
    BY <1>2, <1>3, <1>4, <1>5, VerdictNoted
  <2>2. QED
    BY <1>2, <1>5, <2>1, Zenon
<1>7. CASE verdict # "mismatch" \/ Len(said) = AttributeTries
  <2>1. Settle(said, draft)
    BY <1>1, <1>4, <1>7 DEF NotedOver
  <2>2. draft # NoAttributes
    BY <1>2, AttributesAreSomething
  <2>3. said[Len(said)].said \notin {"match", "none"} => Len(said) = AttributeTries
    BY <1>3, <1>6, <1>7
  <2>4. QED
    BY <1>2, <1>6, <2>1, <2>2, <2>3, SettleKeeps
<1>8. CASE ~(verdict # "mismatch" \/ Len(said) = AttributeTries)
  <2>1. heard' = said /\ UNCHANGED <<item, stage, report>>
    BY <1>1, <1>4, <1>8 DEF NotedOver
  <2>2. IF said[Len(said)].said = "extracted" THEN draft' \in AttributeSets
        ELSE Len(said) # AttributeTries /\ draft' = draft
    BY <1>2, <1>6, <1>8
  <2>3. NobodyInvents => draft'.source # "mock"
    BY <1>2, SetupsStand DEF NoneInvented
  <2>4. QED
    BY <1>2, <1>6, <2>1, <2>2, <2>3, AttributesGoOn
<1>9. QED
  BY <1>7, <1>8

\* One more note about the picture.
LEMMA APicture ==
    ASSUME LooksInv, stage = "DIGITISE", NEW v \in Voices \ {"heuristic"}, NEW w \in Words,
           NEW said, said = Note(v, w)
    PROVE  /\ said \in Seq(Utterances) /\ Len(said) \in 1..PictureTries
           /\ \A i \in DOMAIN said : said[i].by # "heuristic"
           /\ "heuristic" \notin AskedOf(said)
           /\ \E most \in {4, AttributeTries, PictureTries} : Len(said) <= most
<1>1. /\ heard \in Seq(Utterances) /\ Len(heard) < PictureTries
      /\ \A i \in DOMAIN heard : heard[i].by # "heuristic"
  BY DEF LooksInv, LookTypes, Utterances, AskedInTurn, WithinTries
<1>2. Len(heard) \in Nat /\ DOMAIN heard = 1..Len(heard) /\ PictureTries \in Nat
  BY <1>1, PerceptionAssumption
<1>3. PICK u \in Utterances : u = [by |-> v, said |-> w]
  BY DEF Utterances
<1>4. u.by = v /\ said = Append(heard, u)
  BY <1>3 DEF Note
<1>5. /\ said \in Seq(Utterances) /\ Len(said) = Len(heard) + 1
      /\ DOMAIN said = 1..(Len(heard) + 1) /\ said[Len(heard) + 1] = u
      /\ \A i \in 1..Len(heard) : said[i] = heard[i]
  BY <1>1, <1>4, OneMore
<1>6. ASSUME NEW i \in DOMAIN said PROVE said[i].by # "heuristic"
  <2>1. CASE i = Len(heard) + 1
    BY <1>4, <1>5, <2>1
  <2>2. CASE i # Len(heard) + 1
    <3>1. i \in 1..Len(heard)
      BY <1>2, <1>5, <2>2
    <3>2. QED
      BY <1>1, <1>2, <1>5, <3>1
  <2>3. QED
    BY <2>1, <2>2
<1>7. "heuristic" \notin AskedOf(said)
  BY <1>6 DEF AskedOf
<1>8. Len(said) \in 1..PictureTries
  BY <1>1, <1>2, <1>5
<1>9. Len(said) <= PictureTries
  BY <1>2, <1>8
<1>10. \E most \in {4, AttributeTries, PictureTries} : Len(said) <= most
  BY <1>9, Zenon
<1>11. QED
  BY <1>5, <1>6, <1>7, <1>8, <1>10

\* The stage returns with one of its verdicts, and perhaps with a picture.
LEMMA DigitiseReturnKeeps ==
    ASSUME LooksInv, stage = "DIGITISE", UNCHANGED <<setup, regions, draft>>,
           item.attrs # NoAttributes,
           easel' \in {"none", "unseen", "match", "mismatch"},
           shelf' \in {"none", "match", "unseen"},
           NEW v \in Voices \ {"heuristic"}, NEW w \in Words, NEW said, said = Note(v, w),
           NEW after \in Photographed, after.attrs = item.attrs,
           setup.digitiser = "gpt" => {after.picture, shelf'} \subseteq {"none", "match"},
           NEW status, NEW quality, Return(said, status, quality, after),
           \/ status = "RAISED" /\ quality = "UNSET" /\ after = item
           \/ <<status, quality>> \in {<<"SUCCEEDED", "APPROVED">>, <<"FAILED", "UNSET">>,
                                       <<"REVIEW_REQUIRED", "REVIEW_REQUIRED">>}
    PROVE  LooksInv'
<1>1. /\ said \in Seq(Utterances) /\ "heuristic" \notin AskedOf(said)
      /\ \E most \in {4, AttributeTries, PictureTries} : Len(said) <= most
  BY APicture
<1>2. item' = after /\ stage' = "idle" /\ heard' = said
  BY DEF Return
<1>3. LookTypes'
  BY <1>1, <1>2 DEF LookTypes, Utterances, LooksInv
<1>4. Allowed(stage, status, quality, item, after)
  <2>1. CASE status = "RAISED" /\ quality = "UNSET" /\ after = item
    BY <2>1, RaisingIsAllowed
  <2>2. CASE <<status, quality>> \in {<<"SUCCEEDED", "APPROVED">>, <<"FAILED", "UNSET">>,
                                      <<"REVIEW_REQUIRED", "REVIEW_REQUIRED">>}
    BY <2>2, DrawingIsAllowed
  <2>3. QED
    BY <2>1, <2>2
<1>5. NoneInvented'
  <2>1. NoneInvented
    BY DEF LooksInv
  <2>2. item'.attrs = item.attrs /\ setup' = setup /\ draft' = draft
    BY <1>2
  <2>3. QED
    BY <2>1, <2>2, SetupsStand DEF NoneInvented
<1>6. SeenByTheVerifier'
  BY <1>2 DEF SeenByTheVerifier
<1>7. stage # "ATTRIBUTES" /\ stage # "idle" /\ stage # "CLASSIFY"
  OBVIOUS
<1>8. QED
  BY <1>1, <1>3, <1>4, <1>5, <1>6, <1>7, ReturningKeeps

\* The stage goes on: something was drawn, or what was drawn is not accepted.
LEMMA DigitiseGoesOn ==
    ASSUME LooksInv, stage = "DIGITISE",
           UNCHANGED <<setup, item, stage, regions, draft, shelf, report>>,
           item.attrs \in AttributeSets, easel' \in {"none", "unseen", "match", "mismatch"},
           heard' \in Seq(Utterances), Len(heard') < PictureTries,
           \A i \in DOMAIN heard' : heard'[i].by # "heuristic"
    PROVE  LooksInv'
<1>1. LookTypes'
  BY DEF LookTypes, Utterances, LooksInv
<1>2. AskedInTurn'
  BY DEF AskedInTurn
<1>3. WithinTries'
  <2>1. Len(heard') \in Nat /\ PictureTries \in Nat
    BY PerceptionAssumption
  <2>2. Len(heard') <= PictureTries
    BY <2>1
  <2>3. \E most \in {4, AttributeTries, PictureTries} : Len(heard') <= most
    BY <2>2, Zenon
  <2>4. QED
    BY <2>3 DEF WithinTries
<1>4. WorkAtHand'
  BY DEF WorkAtHand, LooksInv
<1>5. NoneInvented' /\ SeenByTheVerifier'
  BY SetupsStand DEF NoneInvented, SeenByTheVerifier, LooksInv
<1>6. HeuristicComesLast'
  BY DEF HeuristicComesLast, Asked
<1>7. stage # "idle"
  OBVIOUS
<1>8. QED
  BY <1>1, <1>2, <1>3, <1>4, <1>5, <1>6, <1>7, GoingOnKeeps

LEMMA DrawKeeps == ASSUME LooksInv, Draw PROVE LooksInv'
<1>1. \/ easel' = "unseen" /\ UNCHANGED <<item, stage, heard, report>>
      \/ /\ easel' = "none"
         /\ Return(Note(setup.digitiser, "refused"), "REVIEW_REQUIRED", "REVIEW_REQUIRED", item)
  BY DEF Draw
<1>2. /\ stage = "DIGITISE" /\ item.attrs # NoAttributes
      /\ UNCHANGED <<setup, regions, draft, shelf>> /\ LookTypes /\ SeenByTheVerifier
  BY DEF Draw, LooksInv
<1>3. setup.digitiser \in {"flux", "gpt"}
  BY <1>2, PerceptionAssumption DEF LookTypes
<1>4. CASE easel' = "unseen" /\ UNCHANGED <<item, stage, heard, report>>
  <2>1. item.attrs \in AttributeSets /\ heard' \in Seq(Utterances)
    BY <1>2, <1>4 DEF LookTypes, Utterances, Photographed
  <2>2. Len(heard') < PictureTries /\ \A i \in DOMAIN heard' : heard'[i].by # "heuristic"
    BY <1>2, <1>4 DEF LooksInv, AskedInTurn, WithinTries
  <2>3. QED
    BY <1>2, <1>4, <2>1, <2>2, DigitiseGoesOn
<1>5. CASE /\ easel' = "none"
           /\ Return(Note(setup.digitiser, "refused"), "REVIEW_REQUIRED", "REVIEW_REQUIRED", item)
  <2>1. PICK v \in Voices \ {"heuristic"} : v = setup.digitiser
    BY <1>3 DEF Voices
  <2>2. PICK w \in Words : w = "refused"
    BY DEF Words
  <2>3. PICK said : said = Note(v, w)
    OBVIOUS
  <2>4. Return(said, "REVIEW_REQUIRED", "REVIEW_REQUIRED", item)
    BY <1>5, <2>1, <2>2, <2>3
  <2>5. item \in Photographed /\ shelf' \in {"none", "match", "unseen"}
    BY <1>2 DEF LookTypes
  <2>6. setup.digitiser = "gpt" => {item.picture, shelf'} \subseteq {"none", "match"}
    BY <1>2 DEF SeenByTheVerifier
  <2>7. QED
    BY <1>2, <1>5, <2>3, <2>4, <2>5, <2>6, DigitiseReturnKeeps
<1>6. QED
  BY <1>1, <1>4, <1>5

LEMMA CheckPictureKeeps == ASSUME LooksInv, CheckPicture PROVE LooksInv'
<1>1. /\ stage = "DIGITISE" /\ easel = "unseen" /\ UNCHANGED <<setup, regions, draft>>
      /\ LookTypes /\ SeenByTheVerifier
  BY DEF CheckPicture, ToCheck, LooksInv
<1>2. item.attrs \in AttributeSets /\ item.attrs # NoAttributes
  BY <1>1, AttributesAreSomething DEF LooksInv, WorkAtHand
<1>3. setup.digitiser \in {"flux", "gpt"}
  BY <1>1, PerceptionAssumption DEF LookTypes
<1>4. /\ easel' \in {"none", "unseen", "match", "mismatch"}
      /\ \E v \in Voices \ {"heuristic"}, w \in Words, picture \in {"match", "unseen"} :
            /\ picture = "match" \/ setup.digitiser = "flux"
            /\ \/ Keep(Note(v, w), picture) \/ NotAccepted(Note(v, w))
               \/ Unavailable(Note(v, w))
  <2>1. CASE setup.digitiser = "flux"
    <3>1. easel' = easel /\ Keep(Note("flux", "match"), easel)
      BY <2>1 DEF CheckPicture
    <3>2. "flux" \in Voices \ {"heuristic"} /\ "match" \in Words /\ easel \in {"match", "unseen"}
      BY <1>1 DEF Voices, Words
    <3>3. easel' \in {"none", "unseen", "match", "mismatch"}
      BY <1>1, <3>1
    <3>4. QED
      BY <2>1, <3>1, <3>2, <3>3, Zenon
  <2>2. CASE setup.digitiser # "flux"
    <3>1. PICK verdict \in {"match", "mismatch", "none"} :
              /\ easel' = verdict
              /\ CASE verdict = "match"    -> Keep(Note("google", verdict), verdict)
                   [] verdict = "mismatch" -> NotAccepted(Note("google", verdict))
                   [] verdict = "none"     -> Unavailable(Note("google", verdict))
      BY <2>2 DEF CheckPicture
    <3>2. /\ "google" \in Voices \ {"heuristic"} /\ verdict \in Words
          /\ "match" \in {"match", "unseen"} /\ verdict \in {"none", "unseen", "match", "mismatch"}
      BY DEF Voices, Words
    <3>3. \/ Keep(Note("google", verdict), "match") \/ NotAccepted(Note("google", verdict))
          \/ Unavailable(Note("google", verdict))
      BY <3>1
    <3>4. easel' \in {"none", "unseen", "match", "mismatch"}
      BY <3>1, <3>2
    <3>5. QED
      BY <3>2, <3>3, <3>4, Zenon
  <2>3. QED
    BY <2>1, <2>2
<1>5. PICK v \in Voices \ {"heuristic"}, w \in Words, picture \in {"match", "unseen"} :
          /\ picture = "match" \/ setup.digitiser = "flux"
          /\ \/ Keep(Note(v, w), picture) \/ NotAccepted(Note(v, w))
             \/ Unavailable(Note(v, w))
  BY <1>4
<1>6. PICK said : said = Note(v, w)
  OBVIOUS
<1>7. setup.digitiser = "gpt" => picture = "match" /\ item.picture \in {"none", "match"}
                                 /\ shelf \in {"none", "match"}
  BY <1>1, <1>4, <1>5, <1>6 DEF SeenByTheVerifier
<1>8. /\ item \in Photographed /\ shelf \in {"none", "match", "unseen"}
      /\ picture \in {"none", "match", "unseen"}
  BY <1>1, <1>4, <1>5, <1>6 DEF LookTypes
<1>9. PICK kept : kept = [item EXCEPT !.picture = picture]
  OBVIOUS
<1>10. kept \in Photographed /\ kept.attrs = item.attrs /\ kept.picture = picture
  BY <1>8, <1>9 DEF Photographed
<1>11. CASE shelf' = picture /\ Return(said, "SUCCEEDED", "APPROVED", kept)
  <2>1. setup.digitiser = "gpt" => {kept.picture, shelf'} \subseteq {"none", "match"}
    BY <1>7, <1>10, <1>11
  <2>2. shelf' \in {"none", "match", "unseen"}
    BY <1>8, <1>11
  <2>3. QED
    BY <1>1, <1>2, <1>4, <1>5, <1>6, <1>10, <1>11, <2>1, <2>2, DigitiseReturnKeeps
<1>12. ASSUME NEW status, NEW quality, Return(said, status, quality, item),
              <<status, quality>> \in {<<"RAISED", "UNSET">>, <<"FAILED", "UNSET">>,
                                       <<"REVIEW_REQUIRED", "REVIEW_REQUIRED">>},
              shelf' \in {shelf, picture}
       PROVE  LooksInv'
  <2>1. setup.digitiser = "gpt" => {item.picture, shelf'} \subseteq {"none", "match"}
    BY <1>7, <1>12
  <2>2. shelf' \in {"none", "match", "unseen"}
    BY <1>8, <1>12
  <2>3. \/ status = "RAISED" /\ quality = "UNSET" /\ item = item
        \/ <<status, quality>> \in {<<"SUCCEEDED", "APPROVED">>, <<"FAILED", "UNSET">>,
                                    <<"REVIEW_REQUIRED", "REVIEW_REQUIRED">>}
    BY <1>12
  <2>4. QED
    BY <1>1, <1>2, <1>4, <1>5, <1>6, <1>8, <1>12, <2>1, <2>2, <2>3, DigitiseReturnKeeps
<1>13. CASE Raise(said) /\ shelf' \in {shelf, picture}
  <2>1. Return(said, "RAISED", "UNSET", item)
    BY <1>13 DEF Raise
  <2>2. QED
    BY <1>12, <1>13, <2>1
<1>14. CASE NotAccepted(said)
  <2>1. CASE Len(said) = PictureTries
    <3>1. shelf' = shelf /\ Return(said, "REVIEW_REQUIRED", "REVIEW_REQUIRED", item)
      BY <1>14, <2>1 DEF NotAccepted
    <3>2. QED
      BY <1>12, <3>1
  <2>2. CASE Len(said) # PictureTries
    <3>1. shelf' = shelf /\ heard' = said /\ UNCHANGED <<item, stage, report>>
      BY <1>14, <2>2 DEF NotAccepted
    <3>2. /\ said \in Seq(Utterances) /\ Len(said) \in 1..PictureTries
          /\ \A i \in DOMAIN said : said[i].by # "heuristic"
      BY <1>1, <1>4, <1>5, <1>6, APicture
    <3>3. Len(said) < PictureTries
      BY <2>2, <3>2, PerceptionAssumption
    <3>4. QED
      BY <1>1, <1>2, <1>4, <1>5, <1>6, <3>1, <3>2, <3>3, DigitiseGoesOn
  <2>3. QED
    BY <2>1, <2>2
<1>15. CASE Unavailable(said)
  <2>1. shelf' = shelf /\ Return(said, "FAILED", "UNSET", item)
    BY <1>15 DEF Unavailable
  <2>2. QED
    BY <1>12, <2>1
<1>16. CASE Keep(said, picture)
  <2>1. \/ shelf' = picture /\ Return(said, "SUCCEEDED", "APPROVED", kept)
        \/ Raise(said) /\ shelf' \in {shelf, picture}
    BY <1>9, <1>16 DEF Keep
  <2>2. QED
    BY <1>11, <1>13, <2>1
<1>17. QED
  BY <1>4, <1>5, <1>6, <1>14, <1>15, <1>16

LEMMA LooksStand == ASSUME LooksInv, UNCHANGED perceptionVars PROVE LooksInv'
<1>1. UNCHANGED <<setup, item, stage, heard, regions, draft, easel, shelf, report>>
  BY DEF perceptionVars
<1>2. NobodyInvents' = NobodyInvents /\ SameModelTwice' = SameModelTwice
  BY <1>1, SetupsStand
<1>3. LookTypes' /\ WorkAtHand' /\ WithinTries'
  BY <1>1 DEF LooksInv, LookTypes, WorkAtHand, WithinTries, ToVerify
<1>4. AskedInTurn'
  BY <1>1 DEF LooksInv, AskedInTurn, ByAttempts, Vendor, Provider
<1>5. StagesKeepTheirContract'
  BY <1>1 DEF LooksInv, StagesKeepTheirContract, AsGarment
<1>6. NoneInvented' /\ GuessesAreUnsure' /\ SeenByTheVerifier'
  BY <1>1, <1>2 DEF LooksInv, NoneInvented, GuessesAreUnsure, SeenByTheVerifier
<1>7. HeuristicComesLast' /\ TwoWereAsked'
  BY <1>1, <1>2 DEF LooksInv, HeuristicComesLast, TwoWereAsked, Asked
<1>8. QED
  BY <1>3, <1>4, <1>5, <1>6, <1>7 DEF LooksInv

\* The inductive invariant of the four stages holds throughout: who was asked, how
\* often, and what is at hand (execute of stages 1 to 4 and what it calls).
THEOREM LooksInvariant == PerceptionSpec => []LooksInv
<1>1. PerceptionInit => LooksInv
  BY LooksStart
<1>2. ASSUME LooksInv, [PerceptionNext]_perceptionVars PROVE LooksInv'
  <2>1. ASSUME NEW s \in ToSet(Looks), Begin(s) PROVE LooksInv'
    BY <1>2, <2>1, BeginKeeps
  <2>2. CASE Unprepared
    BY <1>2, <2>2, UnpreparedKeeps
  <2>3. CASE Classify
    BY <1>2, <2>3, ClassifyKeeps
  <2>4. CASE Detect
    BY <1>2, <2>4, DetectKeeps
  <2>5. CASE VerifyRegion
    BY <1>2, <2>5, VerifyRegionKeeps
  <2>6. CASE Extract
    BY <1>2, <2>6, ExtractKeeps
  <2>7. CASE VerifyAttributes
    BY <1>2, <2>7, VerifyAttributesKeeps
  <2>8. CASE Draw
    BY <1>2, <2>8, DrawKeeps
  <2>9. CASE CheckPicture
    BY <1>2, <2>9, CheckPictureKeeps
  <2>10. CASE UNCHANGED perceptionVars
    BY <1>2, <2>10, LooksStand
  <2>11. QED
    BY <1>2, <2>1, <2>2, <2>3, <2>4, <2>5, <2>6, <2>7, <2>8, <2>9, <2>10 DEF PerceptionNext
<1>3. QED
  BY <1>1, <1>2, PTL DEF PerceptionSpec

\* The garment, the attributes extracted and the picture keep their types, and
\* nobody is asked more often than the stage's number of tries.
THEOREM LooksTypeCorrect == PerceptionSpec => []PerceptionTypeOK
<1>1. LooksInv => PerceptionTypeOK
  <2> SUFFICES ASSUME LooksInv PROVE PerceptionTypeOK
    OBVIOUS
  <2>1. LookTypes /\ WithinTries
    BY DEF LooksInv
  <2>2. Len(Attempts) + 1 = 4
    BY DEF Attempts
  <2>3. \E most \in {Len(Attempts) + 1, AttributeTries, PictureTries} : Len(heard) <= most
    BY <2>1, <2>2 DEF WithinTries
  <2>4. QED
    BY <2>1, <2>3, FourLooks DEF PerceptionTypeOK, LookTypes, Photographed
<1>2. QED
  BY <1>1, LooksInvariant, PTL

\* What stages 1 to 4 return, with what they did to the garment, is what
\* PipelineStages lets them return, for any providers, taxonomy, number of tries
\* and answers: the contract on which the garment pipeline's proofs rest.
THEOREM ContractIsKept == PerceptionSpec => []StagesKeepTheirContract
<1>1. LooksInv => StagesKeepTheirContract
  BY DEF LooksInv
<1>2. QED
  BY <1>1, LooksInvariant, PTL

\* What no model said is not believed, for any taxonomy and any number of tries:
\* with keys for all who are asked, only MODA_NER and NVIDIA NIM fill a garment with
\* invented attributes (the fallbacks of openrouter.py and gemini.py, stage_04).
THEOREM OutagesAreNotTrusted == PerceptionSpec => []OutageIsNeverTrusted
<1>1. LooksInv => OutageIsNeverTrusted
  BY DEF LooksInv, OutageIsNeverTrusted, NoneInvented, NobodyInvents, GuessesAreUnsure,
         SeenByTheVerifier
<1>2. QED
  BY <1>1, LooksInvariant, PTL

\* With more than one try, a stage gives up, or falls back on the heuristic, only
\* after another vendor was asked, unless the setup names one vendor twice (classify, detect_and_crop, _providers_for_attempts).
THEOREM AnotherVendorIsAsked ==
    ASSUME AttributeTries > 1
    PROVE  PerceptionSpec => []SecondVendorGetsItsTurn
<1>1. LooksInv => SecondVendorGetsItsTurn
  BY DEF LooksInv, SecondVendorGetsItsTurn, HeuristicComesLast, TwoWereAsked
<1>2. QED
  BY <1>1, LooksInvariant, PTL
-----------------------------------------------------------------------------
(* The five scenes                                                          *)

\* Each scene of the studio is a behaviour of its component, played or at rest:
\* what is proved of the components holds of the specification that is run.
THEOREM StudioPlaysAll ==
    StudioSpec => AssemblySpec /\ PerceptionSpec /\ PanelSpec /\ ReputationSpec /\ PicturesSpec
<1>1. StudioInit => /\ AssemblyInit /\ PerceptionInit /\ PanelInit
                    /\ ReputationInit /\ PicturesInit
    BY DEF StudioInit
<1>2. [StudioNext]_studioVars => [AssemblyNext]_assemblyVars
    BY DEF StudioNext, studioVars
<1>3. [StudioNext]_studioVars => [PerceptionNext]_perceptionVars
    BY DEF StudioNext, studioVars
<1>4. [StudioNext]_studioVars => [PanelNext]_panelVars
    BY DEF StudioNext, studioVars
<1>5. [StudioNext]_studioVars => [ReputationNext]_reputationVars
    BY DEF StudioNext, studioVars
<1>6. [StudioNext]_studioVars => [PicturesNext]_pictureVars
    BY DEF StudioNext, studioVars
<1> QED
    BY <1>1, <1>2, <1>3, <1>4, <1>5, <1>6, PTL
    DEF StudioSpec, AssemblySpec, PerceptionSpec, PanelSpec, ReputationSpec, PicturesSpec

\* The types of all five components, in the specification that is run.
THEOREM StudioTypeCorrect == StudioSpec => []StudioTypeOK
BY StudioPlaysAll, AssemblyTypeCorrect, LooksTypeCorrect, PanelTypeCorrect,
   ReputationTypeCorrect, PicturesTypeCorrect, PTL DEF StudioTypeOK

=============================================================================
