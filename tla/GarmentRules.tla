---------------------------- MODULE GarmentRules ----------------------------
(***************************************************************************)
(* The deterministic verdicts on a pair of garments: pairing, layering and  *)
(* structure (app/rules), and the pair's verdict (styling/compatibility.py). *)
(* Scores and reasons are left out.  In each rule the first case that        *)
(* applies decides.                                                         *)
(***************************************************************************)
EXTENDS FiniteSets

Categories == {"TOP", "BOTTOM", "OUTERWEAR", "FOOTWEAR", "ONE_PIECE",
               "ACCESSORY", "BAG", "TRADITIONAL"}
LayeringRoles == {"base", "mid", "outer", "standalone", "accessory", "footwear"}

\* inner: the subcategory is a tank or crop top.
Attributes == [category : Categories, role : LayeringRoles, inner : BOOLEAN]

Decisions == {"COMPATIBLE", "REVIEW_REQUIRED", "INCOMPATIBLE"}

Cats(a, b) == {a.category, b.category}
LayerPair(a, b) == {a.role, b.role}

Pairing(a, b) ==
    IF Cats(a, b) = {"ONE_PIECE"} THEN "INCOMPATIBLE"
    ELSE IF "TRADITIONAL" \in Cats(a, b) /\ Cats(a, b) \cap {"BOTTOM", "ONE_PIECE"} # {}
         THEN "REVIEW_REQUIRED"
    ELSE "COMPATIBLE"

Layering(a, b) ==
    IF \/ "BOTTOM" \in Cats(a, b)
       \/ LayerPair(a, b) \cap {"accessory", "footwear"} # {} THEN "COMPATIBLE"
    ELSE IF LayerPair(a, b) = {"outer"} THEN "INCOMPATIBLE"
    ELSE IF LayerPair(a, b) = {"mid"} THEN "REVIEW_REQUIRED"
    ELSE IF LayerPair(a, b) \in {{"base", "mid"}, {"mid", "outer"}, {"base", "outer"}}
         THEN "COMPATIBLE"
    ELSE IF LayerPair(a, b) = {"base"}
         THEN IF a.inner \/ b.inner THEN "COMPATIBLE" ELSE "INCOMPATIBLE"
    ELSE IF LayerPair(a, b) = {"standalone", "outer"} THEN "COMPATIBLE"
    ELSE "REVIEW_REQUIRED"

Structural(a, b) ==
    IF Cats(a, b) \in {{"BOTTOM"}, {"FOOTWEAR"}, {"ONE_PIECE", "BOTTOM"}} THEN "INCOMPATIBLE"
    ELSE IF Cats(a, b) = {"ONE_PIECE", "TOP"}
         THEN IF "outer" \in LayerPair(a, b) THEN "COMPATIBLE" ELSE "INCOMPATIBLE"
    ELSE IF \/ Cats(a, b) = {"BOTTOM", "TOP"}
            \/ Cats(a, b) \cap {"FOOTWEAR", "ACCESSORY"} # {} THEN "COMPATIBLE"
    ELSE IF Cats(a, b) \subseteq {"TOP", "OUTERWEAR"} /\ a.role # b.role
            /\ "outer" \in LayerPair(a, b) THEN "COMPATIBLE"
    ELSE "REVIEW_REQUIRED"

\* What rejects a pair whatever it looks like: the visual rules and the model
\* behind them never escalate to INCOMPATIBLE, and a shared source photo does
\* not excuse it.
HardReject(a, b) ==
    "INCOMPATIBLE" \in {Pairing(a, b), Layering(a, b), Structural(a, b)}

=============================================================================
