----------------------------- MODULE OutfitSwap -----------------------------
(***************************************************************************)
(* Replacing one garment of a persisted outfit (app/styling/swap.py, with    *)
(* image generation of styling/imaging.py), by garment id or by chat, while  *)
(* other swaps and garment deletions go on.  A swap works on the rows as its *)
(* session first loaded them, across model calls and the image generation,   *)
(* and commits one changed row.                                             *)
(***************************************************************************)
EXTENDS GarmentRules

CONSTANTS
    Swaps,        \* requests
    Wardrobe,     \* the member's COMPLETED garments
    Look,         \* garment -> Attributes
    FirstOutfit,  \* role -> garment, as the styling run stored it
    None

Roles == DOMAIN FirstOutfit
Garments(outfit) == {outfit[role] : role \in Roles} \ {None}

\* One garment in two roles, or a pair that the rules reject.
Broken(outfit) ==
    \/ \E r, s \in Roles : r # s /\ outfit[r] # None /\ outfit[r] = outfit[s]
    \/ \E g, h \in Garments(outfit) : g # h /\ HardReject(Look[g], Look[h])

\* Ranking stores no outfit that the rules reject.
ASSUME SwapAssumption ==
    /\ DOMAIN FirstOutfit # {}
    /\ Look \in [Wardrobe -> Attributes]
    /\ FirstOutfit \in [DOMAIN FirstOutfit -> Wardrobe]
    /\ None \notin Wardrobe
    /\ ~Broken(FirstOutfit)

VARIABLES
    worn,      \* committed OutfitGarment rows: role -> garment, None once cascaded away
    picture,   \* the garments the committed image was generated from
    kept,      \* the garments that have not been deleted
    swap,      \* the requests
    causes     \* history: what has happened that may explain a bad outfit

swapVars == <<worn, picture, kept, swap, causes>>

Clash(g, others) == \E h \in others : HardReject(Look[g], Look[h])

SwapRequest == [at : {"idle", "asking", "chosen", "over"},
            role : Roles, new : Wardrobe \cup {None},
            view : [Roles -> Wardrobe \cup {None}]]

BlankSwap(at) == [at |-> at, role |-> CHOOSE role \in Roles : TRUE, new |-> None,
              view |-> FirstOutfit]

SwapInit ==
    /\ worn = FirstOutfit
    /\ picture = Garments(FirstOutfit)
    /\ kept = Wardrobe
    /\ swap = [r \in Swaps |-> BlankSwap("idle")]
    /\ causes = {}

\* The request is answered, with the new outfit or with an error.
Answered(r) == swap' = [swap EXCEPT ![r] = BlankSwap("over")]

-----------------------------------------------------------------------------

\* The outfit's rows and their garments, as both entry points load them.
LoadOutfit(r) == [swap[r] EXCEPT !.view = worn]

\* A mutant of Accepts: the last verdict counts, not the worst.
AcceptsLastVerdict(view, role, g) ==
    \E h \in Garments([view EXCEPT ![role] = None]) : ~HardReject(Look[g], Look[h])
Accepts(view, role, g) == ~Clash(g, Garments([view EXCEPT ![role] = None]))

\* swap_garment_direct: load, validate and check in one go.
DirectSwap(r) ==
    /\ swap[r].at = "idle"
    /\ \E role \in Roles, g \in kept :
          /\ worn[role] # None /\ g \notin Garments(worn)
          /\ IF Accepts(worn, role, g)
             THEN swap' = [swap EXCEPT ![r] =
                      [LoadOutfit(r) EXCEPT !.role = role, !.new = g, !.at = "chosen"]]
             ELSE Answered(r)
    /\ UNCHANGED <<worn, picture, kept, causes>>

\* swap_garment_by_chat: load, then ask the model which role is meant.
ChatSwap(r) ==
    /\ swap[r].at = "idle"
    /\ \E role \in Roles :
          /\ worn[role] # None
          /\ swap' = [swap EXCEPT ![r] = [LoadOutfit(r) EXCEPT !.role = role, !.at = "asking"]]
    /\ UNCHANGED <<worn, picture, kept, causes>>

\* _apply_swap loads again: rows this session knows keep their old garment, a
\* cascaded row or a deleted garment is missing.
SecondLoad(s) ==
    [role \in Roles |-> IF worn[role] = None \/ s.view[role] \notin kept THEN None
                       ELSE s.view[role]]

\* The candidates are the COMPLETED garments of that category now.
ChatChooses(r) ==
    LET s == swap[r]
        candidates == {g \in kept \ Garments(s.view) :
                          /\ Look[g].category = s.role
                          /\ Accepts(s.view, s.role, g)}
    IN  /\ s.at = "asking"
        /\ \/ /\ candidates # {} /\ worn[s.role] # None
              /\ \E g \in candidates :
                    swap' = [swap EXCEPT ![r].new = g, ![r].view = SecondLoad(s),
                                         ![r].at = "chosen"]
           \/ /\ candidates = {} \/ worn[s.role] = None
              /\ Answered(r)
        /\ UNCHANGED <<worn, picture, kept, causes>>

Swapped(r) == [swap[r].view EXCEPT ![swap[r].role] = swap[r].new]
\* A mutant of PictureOf: the image is generated before the row changes.
PictureOfOld(r) == Garments(swap[r].view)
\* A mutant of PictureOf: rows without a garment are not skipped.
PictureOfRows(r) == {Swapped(r)[role] : role \in Roles}
PictureOf(r) == Garments(Swapped(r))

\* Another swap has committed since this one loaded the outfit.
Overtaken(r) == \E role \in Roles : worn[role] \notin {swap[r].view[role], None}

\* _apply_swap, once generate_and_run_gates has answered with the bytes of its
\* last attempt or with none.
SwapCommits(r) ==
    LET s == swap[r] IN
    /\ s.at = "chosen"
    /\ worn[s.role] # None /\ s.new \in kept
    /\ worn' = [worn EXCEPT ![s.role] = s.new]
    /\ \E image \in BOOLEAN :
          /\ picture' = IF image THEN PictureOf(r) ELSE picture
          /\ causes' = causes \cup (IF Overtaken(r) THEN {"overlap"} ELSE {})
                              \cup (IF image THEN {} ELSE {"no image"})
    /\ Answered(r)
    /\ UNCHANGED kept

\* The UPDATE of a row that is gone, or to a garment that is gone, fails.
SwapFails(r) ==
    LET s == swap[r] IN
    /\ s.at = "chosen"
    /\ worn[s.role] = None \/ s.new \notin kept
    /\ Answered(r)
    /\ UNCHANGED <<worn, picture, kept, causes>>

Uncovered(g) == [role \in Roles |-> IF worn[role] = g THEN None ELSE worn[role]]

\* DELETE /wardrobe/garments/{id}: its OutfitGarment rows go by cascade.
DeleteFromWardrobe(g) ==
    /\ g \in kept
    /\ kept' = kept \ {g}
    /\ worn' = Uncovered(g)
    /\ causes' = causes \cup (IF g \in Garments(worn) THEN {"deleted"} ELSE {})
    /\ UNCHANGED <<picture, swap>>

SwapNext ==
    \/ \E r \in Swaps :
          \/ DirectSwap(r) \/ ChatSwap(r) \/ ChatChooses(r)
          \/ SwapCommits(r) \/ SwapFails(r)
    \/ \E g \in Wardrobe : DeleteFromWardrobe(g)

SwapSpec == SwapInit /\ [][SwapNext]_swapVars

-----------------------------------------------------------------------------
(* Properties                                                               *)

SwapTypeOK ==
    /\ worn \in [Roles -> Wardrobe \cup {None}]
    /\ picture \subseteq Wardrobe
    /\ kept \subseteq Wardrobe
    /\ swap \in [Swaps -> SwapRequest]
    /\ causes \subseteq {"overlap", "no image", "deleted"}

\* Swaps that do not overlap, in any number and order and with garments
\* deleted between or under them, keep the outfit free of rejected pairs and
\* of one garment in two roles.
SoundWithoutOverlap ==
    "overlap" \notin causes => ~Broken(worn)

\* The image shows the outfit, unless its generation failed, swaps overlapped
\* or a garment of it was deleted.
PictureIsCurrent ==
    causes = {} => picture = Garments(worn)

\* No committed row names a deleted garment, however late a swap commits.
WornIsKept == Garments(worn) \subseteq kept

(***************************************************************************)
(* "re-checks compatibility with the rest of the outfit (hard-rejects a     *)
(* genuinely incompatible replacement rather than silently allowing a        *)
(* broken outfit)" (styling/swap.py): no outfit ever holds a rejected pair.  *)
(***************************************************************************)
NeverBroken == ~Broken(worn)

=============================================================================
