-------------------------- MODULE OutfitSwapProofs --------------------------
(***************************************************************************)
(* Proofs about OutfitSwap, for every wardrobe, first outfit and number of   *)
(* requests.  Two facts carry them: what a request has chosen fits the copy  *)
(* it loaded (ChosenFits), and a request that was not overtaken finds an     *)
(* outfit that is this copy or has lost garments since (CurrentView).        *)
(***************************************************************************)
EXTENDS OutfitSwap, TLAPS

\* The verdict on a pair does not depend on its order.
LEMMA HardRejectSymmetric ==
    ASSUME NEW a, NEW b
    PROVE  HardReject(a, b) = HardReject(b, a)
<1>1. Cats(a, b) = Cats(b, a) /\ LayerPair(a, b) = LayerPair(b, a)
    BY DEF Cats, LayerPair
<1>2. Pairing(a, b) = Pairing(b, a)
    BY <1>1 DEF Pairing
<1>3. Layering(a, b) = Layering(b, a)
    BY <1>1 DEF Layering
<1>4. Structural(a, b) = Structural(b, a)
    <2>1. (a.role # b.role) = (b.role # a.role)
        OBVIOUS
    <2> QED
        BY <1>1, <2>1 DEF Structural
<1> QED
    BY <1>2, <1>3, <1>4 DEF HardReject

\* What a request has chosen is a garment of the wardrobe that the loaded
\* outfit does not hold and the rules do not reject beside the rest of it.
ChosenFits ==
    \A r \in Swaps :
        swap[r].at = "chosen" =>
            /\ swap[r].new \in Wardrobe
            /\ swap[r].new \notin Garments(swap[r].view)
            /\ Accepts(swap[r].view, swap[r].role, swap[r].new)

\* A role is empty only once a garment of the outfit has been deleted.
FilledUntilDeleted ==
    "deleted" \notin causes => \A role \in Roles : worn[role] # None

SwapInv ==
    /\ SwapTypeOK
    /\ ChosenFits
    /\ FilledUntilDeleted
    /\ WornIsKept
    /\ SoundWithoutOverlap
    /\ PictureIsCurrent

\* A request that is not at work is a SwapRequest (BlankSwap).
LEMMA BlankSwapType ==
    ASSUME NEW l \in {"idle", "over"}
    PROVE  /\ BlankSwap(l) \in SwapRequest
           /\ BlankSwap(l).at = l
<1>1. (CHOOSE role \in Roles : TRUE) \in Roles
    BY SwapAssumption DEF Roles
<1>2. FirstOutfit \in [Roles -> Wardrobe \cup {None}]
    BY SwapAssumption DEF Roles
<1> QED
    BY <1>1, <1>2 DEF BlankSwap, SwapRequest

\* The outfit as the styling run stored it.
LEMMA SwapInitInv == SwapInit => SwapInv
<1> SUFFICES ASSUME SwapInit PROVE SwapInv
    OBVIOUS
<1> USE DEF SwapInit
<1>1. FirstOutfit \in [Roles -> Wardrobe] /\ None \notin Wardrobe
    BY SwapAssumption DEF Roles
<1>2. Garments(FirstOutfit) \subseteq Wardrobe
    BY <1>1 DEF Garments
<1>3. \A r \in Swaps : swap[r] \in SwapRequest /\ swap[r].at = "idle"
    BY BlankSwapType
<1>4. SwapTypeOK
    <2>1. worn \in [Roles -> Wardrobe \cup {None}]
        BY <1>1
    <2>2. swap \in [Swaps -> SwapRequest]
        BY <1>3
    <2> QED
        BY <1>2, <2>1, <2>2 DEF SwapTypeOK
<1>5. ChosenFits
    BY <1>3 DEF ChosenFits
<1>6. FilledUntilDeleted
    BY <1>1 DEF FilledUntilDeleted
<1>7. WornIsKept /\ PictureIsCurrent
    BY <1>2 DEF WornIsKept, PictureIsCurrent
<1>8. SoundWithoutOverlap
    BY SwapAssumption DEF SoundWithoutOverlap
<1> QED
    BY <1>4, <1>5, <1>6, <1>7, <1>8 DEF SwapInv

\* Garments that go from an outfit leave it sound.
LEMMA FewerGarmentsSound ==
    ASSUME NEW before \in [Roles -> Wardrobe \cup {None}],
           NEW after \in [Roles -> Wardrobe \cup {None}],
           \A role \in Roles : after[role] \in {before[role], None},
           ~Broken(before)
    PROVE  ~Broken(after)
<1>1. Garments(after) \subseteq Garments(before)
    BY DEF Garments
<1>2. \A r, s \in Roles : r # s /\ after[r] # None => after[r] # after[s]
    BY DEF Broken
<1> QED
    BY <1>1, <1>2 DEF Broken

\* A garment that fits the copy fits an outfit that has only lost garments.
LEMMA FittingGarmentSound ==
    ASSUME NEW view \in [Roles -> Wardrobe \cup {None}],
           NEW outfit \in [Roles -> Wardrobe \cup {None}],
           NEW role \in Roles, NEW g \in Wardrobe,
           \A q \in Roles : outfit[q] \in {view[q], None},
           g \notin Garments(view),
           Accepts(view, role, g),
           ~Broken(outfit)
    PROVE  ~Broken([outfit EXCEPT ![role] = g])
<1> DEFINE new == [outfit EXCEPT ![role] = g]
<1>1. \A q \in Roles : new[q] = IF q = role THEN g ELSE outfit[q]
    OBVIOUS
<1>2. ASSUME NEW q \in Roles, q # role, outfit[q] # None
      PROVE  /\ outfit[q] = view[q]
             /\ outfit[q] \in Garments([view EXCEPT ![role] = None])
             /\ outfit[q] \in Garments(view)
    <2>1. outfit[q] = view[q]
        BY <1>2
    <2>2. [view EXCEPT ![role] = None][q] = view[q]
        BY <1>2
    <2> QED
        BY <1>2, <2>1, <2>2 DEF Garments
<1>3. ASSUME NEW q \in Roles, NEW s \in Roles, q # s, new[q] # None
      PROVE  new[q] # new[s]
    <2>1. CASE q = role
        <3>1. new[q] = g /\ new[s] = outfit[s] /\ s # role
            BY <1>1, <1>3, <2>1
        <3>2. g # None
            BY SwapAssumption
        <3> QED
            BY <1>2, <3>1, <3>2
    <2>2. CASE s = role
        <3>1. new[s] = g /\ new[q] = outfit[q] /\ q # role
            BY <1>1, <1>3, <2>2
        <3> QED
            BY <1>2, <1>3, <3>1
    <2>3. CASE q # role /\ s # role
        BY <1>1, <1>3, <2>3 DEF Broken
    <2> QED
        BY <2>1, <2>2, <2>3
<1>4. ASSUME NEW x \in Garments(new), NEW y \in Garments(new), x # y
      PROVE  ~HardReject(Look[x], Look[y])
    <2>1. PICK q \in Roles : x = new[q]
        BY DEF Garments
    <2>2. PICK s \in Roles : y = new[s]
        BY DEF Garments
    <2>3. x # None /\ y # None
        BY DEF Garments
    <2>4. \A h \in Garments([view EXCEPT ![role] = None]) : ~HardReject(Look[g], Look[h])
        BY DEF Accepts, Clash
    <2>5. CASE q = role
        <3>1. x = g /\ s # role /\ y = outfit[s]
            BY <1>1, <1>4, <2>1, <2>2, <2>5
        <3> QED
            BY <1>2, <2>3, <2>4, <3>1
    <2>6. CASE s = role
        <3>1. y = g /\ q # role /\ x = outfit[q]
            BY <1>1, <1>4, <2>1, <2>2, <2>6
        <3>2. ~HardReject(Look[y], Look[x])
            BY <1>2, <2>3, <2>4, <3>1
        <3> QED
            BY <3>2, HardRejectSymmetric
    <2>7. CASE q # role /\ s # role
        <3>1. x = outfit[q] /\ y = outfit[s]
            BY <1>1, <2>1, <2>2, <2>7
        <3>2. x \in Garments(outfit) /\ y \in Garments(outfit)
            BY <2>3, <3>1 DEF Garments
        <3> QED
            BY <1>4, <3>2 DEF Broken
    <2> QED
        BY <2>5, <2>6, <2>7
<1> QED
    BY <1>3, <1>4 DEF Broken

-----------------------------------------------------------------------------
(* The actions                                                              *)

\* An answered request has chosen nothing.
LEMMA AnsweredKeeps ==
    ASSUME SwapTypeOK, ChosenFits, NEW r \in Swaps, Answered(r)
    PROVE  swap' \in [Swaps -> SwapRequest] /\ ChosenFits'
<1>1. BlankSwap("over") \in SwapRequest /\ BlankSwap("over").at = "over"
    BY BlankSwapType
<1>2. swap' = [swap EXCEPT ![r] = BlankSwap("over")]
    BY DEF Answered
<1>3. swap' \in [Swaps -> SwapRequest]
    BY <1>1, <1>2 DEF SwapTypeOK
<1>4. \A q \in Swaps : swap'[q].at = "chosen" => swap'[q] = swap[q]
    BY <1>1, <1>2 DEF SwapTypeOK
<1> QED
    BY <1>3, <1>4 DEF ChosenFits

\* A step that leaves the outfit alone keeps what is said of it.
LEMMA OutfitUntouched ==
    ASSUME SwapInv, UNCHANGED <<worn, picture, kept, causes>>,
           swap' \in [Swaps -> SwapRequest], ChosenFits'
    PROVE  SwapInv'
<1>1. SwapTypeOK'
    BY DEF SwapInv, SwapTypeOK
<1>2. FilledUntilDeleted' /\ WornIsKept' /\ SoundWithoutOverlap' /\ PictureIsCurrent'
    BY DEF SwapInv, FilledUntilDeleted, WornIsKept, SoundWithoutOverlap,
           PictureIsCurrent, Garments, Broken
<1> QED
    BY <1>1, <1>2 DEF SwapInv

\* swap_garment_direct keeps the invariant: what it chooses fits what it loaded.
LEMMA DirectSwapInv ==
    ASSUME SwapInv, NEW r \in Swaps, DirectSwap(r)
    PROVE  SwapInv'
<1>1. PICK role \in Roles, g \in kept :
          /\ worn[role] # None /\ g \notin Garments(worn)
          /\ IF Accepts(worn, role, g)
             THEN swap' = [swap EXCEPT ![r] =
                      [LoadOutfit(r) EXCEPT !.role = role, !.new = g, !.at = "chosen"]]
             ELSE Answered(r)
    BY DEF DirectSwap
<1>2. CASE Accepts(worn, role, g)
    <2> DEFINE s == [LoadOutfit(r) EXCEPT !.role = role, !.new = g, !.at = "chosen"]
    <2>1. g \in Wardrobe /\ worn \in [Roles -> Wardrobe \cup {None}] /\ swap[r] \in SwapRequest
        BY DEF SwapInv, SwapTypeOK
    <2>2. s \in SwapRequest
        BY <2>1 DEF LoadOutfit, SwapRequest
    <2>3. s.view = worn /\ s.role = role /\ s.new = g
        BY <2>1 DEF LoadOutfit, SwapRequest
    <2>4. swap' = [swap EXCEPT ![r] = s]
        BY <1>1, <1>2
    <2>5. swap' \in [Swaps -> SwapRequest]
        BY <2>2, <2>4 DEF SwapInv, SwapTypeOK
    <2>6. swap'[r] = s /\ \A q \in Swaps \ {r} : swap'[q] = swap[q]
        BY <2>4 DEF SwapInv, SwapTypeOK
    <2>7. ChosenFits'
        BY <1>1, <1>2, <2>1, <2>3, <2>6 DEF SwapInv, ChosenFits
    <2> QED
        BY <2>5, <2>7, OutfitUntouched DEF DirectSwap
<1>3. CASE ~Accepts(worn, role, g)
    <2>1. Answered(r)
        BY <1>1, <1>3
    <2> QED
        BY <2>1, AnsweredKeeps, OutfitUntouched DEF SwapInv, DirectSwap
<1> QED
    BY <1>2, <1>3

\* swap_garment_by_chat loads the outfit and asks the model.
LEMMA ChatSwapInv ==
    ASSUME SwapInv, NEW r \in Swaps, ChatSwap(r)
    PROVE  SwapInv'
<1>1. PICK role \in Roles :
          swap' = [swap EXCEPT ![r] = [LoadOutfit(r) EXCEPT !.role = role, !.at = "asking"]]
    BY DEF ChatSwap
<1> DEFINE s == [LoadOutfit(r) EXCEPT !.role = role, !.at = "asking"]
<1>2. worn \in [Roles -> Wardrobe \cup {None}] /\ swap[r] \in SwapRequest
    BY DEF SwapInv, SwapTypeOK
<1>3. s \in SwapRequest /\ s.at = "asking"
    BY <1>2 DEF LoadOutfit, SwapRequest
<1>4. swap' \in [Swaps -> SwapRequest]
    BY <1>1, <1>3 DEF SwapInv, SwapTypeOK
<1>5. swap'[r] = s /\ \A q \in Swaps \ {r} : swap'[q] = swap[q]
    BY <1>1 DEF SwapInv, SwapTypeOK
<1>6. ChosenFits'
    BY <1>3, <1>5 DEF SwapInv, ChosenFits
<1> QED
    BY <1>4, <1>6, OutfitUntouched DEF ChatSwap

\* Its candidates fit the copy it loaded before it asked.
LEMMA ChatChoosesInv ==
    ASSUME SwapInv, NEW r \in Swaps, ChatChooses(r)
    PROVE  SwapInv'
<1>1. CASE Answered(r)
    BY <1>1, AnsweredKeeps, OutfitUntouched DEF SwapInv, ChatChooses
<1>2. ASSUME NEW g \in kept \ Garments(swap[r].view),
             Accepts(swap[r].view, swap[r].role, g),
             swap' = [swap EXCEPT ![r].new = g, ![r].view = SecondLoad(swap[r]),
                                  ![r].at = "chosen"]
      PROVE  SwapInv'
    <2> DEFINE view == SecondLoad(swap[r])
               s == [swap[r] EXCEPT !.new = g, !.view = view, !.at = "chosen"]
    <2>1. g \in Wardrobe /\ swap[r] \in SwapRequest
        BY DEF SwapInv, SwapTypeOK
    <2>2. s \in SwapRequest /\ s.view = view /\ s.role = swap[r].role /\ s.new = g
        BY <2>1 DEF SwapRequest, SecondLoad
    <2>3. swap' = [swap EXCEPT ![r] = s]
        BY <1>2, <2>1 DEF SwapInv, SwapTypeOK, SwapRequest
    <2>4. g \notin Garments(view) /\ Accepts(view, swap[r].role, g)
        <3>1. \A q \in Roles : view[q] \in {swap[r].view[q], None}
            BY DEF SecondLoad
        <3>2. view \in [Roles -> Wardrobe \cup {None}]
            BY <2>1 DEF SwapRequest, SecondLoad
        <3>3. Garments(view) \subseteq Garments(swap[r].view)
            BY <3>1 DEF Garments
        <3>4. Garments([view EXCEPT ![swap[r].role] = None])
                  \subseteq Garments([swap[r].view EXCEPT ![swap[r].role] = None])
            BY <2>1, <3>1, <3>2 DEF Garments, SwapRequest
        <3> QED
            BY <1>2, <3>3, <3>4 DEF Accepts, Clash
    <2>5. swap' \in [Swaps -> SwapRequest]
        BY <2>2, <2>3 DEF SwapInv, SwapTypeOK
    <2>6. swap'[r] = s /\ \A q \in Swaps \ {r} : swap'[q] = swap[q]
        BY <2>3 DEF SwapInv, SwapTypeOK
    <2>7. ChosenFits'
        BY <2>1, <2>2, <2>4, <2>6 DEF SwapInv, ChosenFits
    <2> QED
        BY <2>5, <2>7, OutfitUntouched DEF ChatChooses
<1> QED
    BY <1>1, <1>2 DEF ChatChooses

\* A request that was not overtaken: each role is as loaded, or empty by now.
LEMMA CurrentView ==
    ASSUME NEW r \in Swaps, ~Overtaken(r)
    PROVE  \A q \in Roles : worn[q] \in {swap[r].view[q], None}
BY DEF Overtaken

\* _apply_swap writes one row of an outfit that may have changed.
LEMMA SwapCommitsInv ==
    ASSUME SwapInv, NEW r \in Swaps, SwapCommits(r)
    PROVE  SwapInv'
<1> DEFINE s == swap[r]
           role == swap[r].role
           g == swap[r].new
<1>1. /\ s \in SwapRequest /\ role \in Roles
      /\ worn \in [Roles -> Wardrobe \cup {None}]
      /\ s.view \in [Roles -> Wardrobe \cup {None}]
    BY DEF SwapInv, SwapTypeOK, SwapRequest
<1>2. /\ s.at = "chosen" /\ worn[role] # None /\ g \in kept
      /\ worn' = [worn EXCEPT ![role] = g]
      /\ Answered(r) /\ kept' = kept
    BY DEF SwapCommits
<1>3. PICK image \in BOOLEAN :
          /\ picture' = IF image THEN PictureOf(r) ELSE picture
          /\ causes' = causes \cup (IF Overtaken(r) THEN {"overlap"} ELSE {})
                              \cup (IF image THEN {} ELSE {"no image"})
    BY DEF SwapCommits
<1>4. g \in Wardrobe /\ g # None /\ g \notin Garments(s.view) /\ Accepts(s.view, role, g)
    BY <1>2, SwapAssumption DEF SwapInv, ChosenFits
<1>5. worn' \in [Roles -> Wardrobe \cup {None}]
    BY <1>1, <1>2, <1>4
<1>6. \A q \in Roles : worn'[q] = IF q = role THEN g ELSE worn[q]
    BY <1>1, <1>2
<1>7. SwapTypeOK' /\ ChosenFits'
    <2>1. PictureOf(r) \subseteq Wardrobe
        BY <1>1, <1>4 DEF PictureOf, Swapped, Garments
    <2>2. swap' \in [Swaps -> SwapRequest] /\ ChosenFits'
        BY <1>2, AnsweredKeeps DEF SwapInv
    <2> QED
        BY <1>2, <1>3, <1>5, <2>1, <2>2 DEF SwapInv, SwapTypeOK
<1>8. FilledUntilDeleted'
    BY <1>3, <1>4, <1>6 DEF SwapInv, FilledUntilDeleted
<1>9. WornIsKept'
    BY <1>2, <1>6 DEF SwapInv, WornIsKept, Garments
<1>10. SoundWithoutOverlap'
    <2> SUFFICES ASSUME "overlap" \notin causes' PROVE ~Broken(worn')
        BY DEF SoundWithoutOverlap, Broken, Garments
    <2>1. ~Overtaken(r) /\ ~Broken(worn)
        BY <1>3 DEF SwapInv, SoundWithoutOverlap
    <2> QED
        BY <1>1, <1>2, <1>4, <2>1, CurrentView, FittingGarmentSound
<1>11. PictureIsCurrent'
    <2> SUFFICES ASSUME causes' = {} PROVE picture' = Garments(worn')
        BY DEF PictureIsCurrent, Garments
    <2>1. ~Overtaken(r) /\ image = TRUE /\ causes = {}
        BY <1>3
    <2>2. \A q \in Roles : worn[q] = s.view[q]
        BY <2>1, CurrentView DEF SwapInv, FilledUntilDeleted
    <2>3. worn' = Swapped(r)
        BY <1>1, <1>2, <2>2 DEF Swapped
    <2> QED
        BY <1>3, <2>1, <2>3 DEF PictureOf
<1> QED
    BY <1>7, <1>8, <1>9, <1>10, <1>11 DEF SwapInv

\* A garment deleted from the wardrobe goes from the outfit with its row.
LEMMA DeleteInv ==
    ASSUME SwapInv, NEW g \in Wardrobe, DeleteFromWardrobe(g)
    PROVE  SwapInv'
<1>1. /\ kept' = kept \ {g} /\ worn' = Uncovered(g) /\ UNCHANGED <<picture, swap>>
      /\ causes' = causes \cup (IF g \in Garments(worn) THEN {"deleted"} ELSE {})
    BY DEF DeleteFromWardrobe
<1>2. worn \in [Roles -> Wardrobe \cup {None}]
    BY DEF SwapInv, SwapTypeOK
<1>3. /\ worn' \in [Roles -> Wardrobe \cup {None}]
      /\ \A q \in Roles : worn'[q] = IF worn[q] = g THEN None ELSE worn[q]
    BY <1>1, <1>2 DEF Uncovered
<1>4. g \notin Garments(worn) => worn' = worn
    <2>1. g # None
        BY SwapAssumption
    <2> QED
        BY <1>2, <1>3, <2>1 DEF Garments
<1>5. SwapTypeOK' /\ ChosenFits'
    BY <1>1, <1>3 DEF SwapInv, SwapTypeOK, ChosenFits
<1>6. FilledUntilDeleted'
    BY <1>1, <1>4 DEF SwapInv, FilledUntilDeleted
<1>7. WornIsKept'
    BY <1>1, <1>3 DEF SwapInv, WornIsKept, Garments
<1>8. SoundWithoutOverlap'
    <2> SUFFICES ASSUME "overlap" \notin causes' PROVE ~Broken(worn')
        BY DEF SoundWithoutOverlap, Broken, Garments
    <2>1. ~Broken(worn)
        BY <1>1 DEF SwapInv, SoundWithoutOverlap
    <2> QED
        BY <1>2, <1>3, <2>1, FewerGarmentsSound
<1>9. PictureIsCurrent'
    BY <1>1, <1>4 DEF SwapInv, PictureIsCurrent, Garments
<1> QED
    BY <1>5, <1>6, <1>7, <1>8, <1>9 DEF SwapInv

\* Every step of requests and of the wardrobe keeps the invariant.
LEMMA SwapNextInv == SwapInv /\ [SwapNext]_swapVars => SwapInv'
<1> SUFFICES ASSUME SwapInv, [SwapNext]_swapVars PROVE SwapInv'
    OBVIOUS
<1>1. CASE SwapNext
    <2>1. ASSUME NEW r \in Swaps, DirectSwap(r) PROVE SwapInv'
        BY <2>1, DirectSwapInv
    <2>2. ASSUME NEW r \in Swaps, ChatSwap(r) PROVE SwapInv'
        BY <2>2, ChatSwapInv
    <2>3. ASSUME NEW r \in Swaps, ChatChooses(r) PROVE SwapInv'
        BY <2>3, ChatChoosesInv
    <2>4. ASSUME NEW r \in Swaps, SwapCommits(r) PROVE SwapInv'
        BY <2>4, SwapCommitsInv
    <2>5. ASSUME NEW r \in Swaps, SwapFails(r) PROVE SwapInv'
        BY <2>5, AnsweredKeeps, OutfitUntouched DEF SwapInv, SwapFails
    <2>6. ASSUME NEW g \in Wardrobe, DeleteFromWardrobe(g) PROVE SwapInv'
        BY <2>6, DeleteInv
    <2> QED
        BY <1>1, <2>1, <2>2, <2>3, <2>4, <2>5, <2>6 DEF SwapNext
<1>2. CASE UNCHANGED swapVars
    <2>1. swap' \in [Swaps -> SwapRequest] /\ ChosenFits'
        BY <1>2 DEF swapVars, SwapInv, SwapTypeOK, ChosenFits
    <2> QED
        BY <1>2, <2>1, OutfitUntouched DEF swapVars
<1> QED
    BY <1>1, <1>2

-----------------------------------------------------------------------------
(* The theorems                                                             *)

\* The inductive invariant, from which the theorems follow.
LEMMA SwapInvariant == SwapSpec => []SwapInv
BY SwapInitInv, SwapNextInv, PTL DEF SwapSpec

\* Requests, outfit rows and the picture keep their types (_apply_swap).
THEOREM SwapTypeCorrect == SwapSpec => []SwapTypeOK
<1>1. SwapInv => SwapTypeOK
    BY DEF SwapInv
<1> QED
    BY <1>1, SwapInvariant, PTL

\* Whatever the wardrobe and its looks, swaps that do not overtake each other
\* never leave a pair that the rules reject (_compatibility_with_rest).
THEOREM SwapsKeepOutfitSound == SwapSpec => []SoundWithoutOverlap
<1>1. SwapInv => SoundWithoutOverlap
    BY DEF SwapInv
<1> QED
    BY <1>1, SwapInvariant, PTL

\* The stored picture is of the stored outfit (_apply_swap changes the row
\* before it generates the image).
THEOREM SwapsKeepPicture == SwapSpec => []PictureIsCurrent
<1>1. SwapInv => PictureIsCurrent
    BY DEF SwapInv
<1> QED
    BY <1>1, SwapInvariant, PTL

\* No outfit row names a deleted garment (the cascade of OutfitGarment).
THEOREM OutfitsWornAreKept == SwapSpec => []WornIsKept
<1>1. SwapInv => WornIsKept
    BY DEF SwapInv
<1> QED
    BY <1>1, SwapInvariant, PTL

=============================================================================
