----------------------------- MODULE MCStyling -----------------------------
(***************************************************************************)
(* The styling modules share no state: each initial state chooses the scene  *)
(* that is played, and the others stand still.  No action that fairness is    *)
(* assumed of is enabled in an initial state, once today's batch has begun,  *)
(* so fairness asks nothing of a scene that is not played.                  *)
(***************************************************************************)
EXTENDS StylingRuns, OutfitSwap, OutfitOfTheDay, TasteLedger, TLC

CONSTANTS b1, b2, b3

\* Two layers that are fine one at a time and clash together.
SmallLook ==
    [tee       |-> [category |-> "TOP", role |-> "base", inner |-> FALSE],
     overshirt |-> [category |-> "TOP", role |-> "outer", inner |-> FALSE],
     blazer    |-> [category |-> "OUTERWEAR", role |-> "mid", inner |-> FALSE],
     coat      |-> [category |-> "OUTERWEAR", role |-> "outer", inner |-> FALSE],
     jeans     |-> [category |-> "BOTTOM", role |-> "base", inner |-> FALSE]]
SmallWardrobe == DOMAIN SmallLook
SmallOutfit == [TOP |-> "tee", OUTERWEAR |-> "blazer", BOTTOM |-> "jeans"]

\* Two thumbs and a star review of one person.
OnePersonsKeys == (b1 :> "styling_page") @@ (b2 :> "styling_page") @@ (b3 :> "own_review")

VARIABLE scene

stylingVars == <<scene, runVars, swapVars, dayVars, ledgerVars>>

Scenes == {"runs", "swap", "day", "ledger"}

StylingInit ==
    /\ scene \in Scenes
    /\ RunsInit /\ SwapInit /\ DayInit /\ LedgerInit
    /\ scene # "day" => subscribed = {} /\ begun

Plays(s) == scene = s /\ UNCHANGED scene

StylingNext ==
    \/ Plays("runs") /\ RunsNext /\ UNCHANGED <<swapVars, dayVars, ledgerVars>>
    \/ Plays("swap") /\ SwapNext /\ UNCHANGED <<runVars, dayVars, ledgerVars>>
    \/ Plays("day") /\ DayNext /\ UNCHANGED <<runVars, swapVars, ledgerVars>>
    \/ Plays("ledger") /\ LedgerNext /\ UNCHANGED <<runVars, swapVars, dayVars>>

StylingSpec == StylingInit /\ [][StylingNext]_stylingVars

FairStylingSpec ==
    /\ StylingSpec
    /\ RunsFairness /\ DayFairness /\ LedgerFairness

\* The types of all four modules.
StylingTypeOK == RunsTypeOK /\ SwapTypeOK /\ DayTypeOK /\ LedgerTypeOK

=============================================================================
