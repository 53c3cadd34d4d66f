------------------------------ MODULE MCStudio ------------------------------
(***************************************************************************)
(* The modules about what is judged, rather than about who runs when, share   *)
(* no state: each initial state chooses the scene that is played, and the    *)
(* others stand still in one of their initial states.                       *)
(***************************************************************************)
EXTENDS OutfitAssembly, PerceptionStages, CharacterPanel, PairReputation, GarmentPictures, TLC

Item(category, role, colour, gender, breaks) ==
    [category |-> category, role |-> role, inner |-> FALSE,
     colour |-> colour, gender |-> gender, breaks |-> breaks]

SmallCloset ==
    [tee   |-> Item("TOP", "base", "white", "unisex", TRUE),
     shirt |-> Item("TOP", "base", "black", "men", FALSE),
     jeans |-> Item("BOTTOM", "base", "black", "unisex", FALSE),
     dress |-> Item("ONE_PIECE", "standalone", "white", "women", FALSE),
     coat  |-> Item("OUTERWEAR", "outer", "black", "unisex", FALSE),
     bag   |-> Item("BAG", "accessory", "black", "unisex", FALSE)]

FreeAsk == [anchors |-> {}, hopit |-> FALSE, said |-> "none", plan |-> "none",
            wants |-> "any", account |-> "any", colour |-> "any", blocked |-> {}]

SomeAsks ==
    {FreeAsk,
     [FreeAsk EXCEPT !.plan = "party"],
     [FreeAsk EXCEPT !.account = "women", !.colour = "white"],
     [FreeAsk EXCEPT !.wants = "men", !.account = "women", !.colour = "white"],
     [FreeAsk EXCEPT !.blocked = {{"shirt", "jeans"}}],
     [FreeAsk EXCEPT !.anchors = {"tee", "shirt", "jeans", "bag"}, !.blocked = {{"shirt", "jeans"}}],
     [FreeAsk EXCEPT !.anchors = {"dress", "coat"}],
     [FreeAsk EXCEPT !.anchors = {"tee", "coat"}],
     [FreeAsk EXCEPT !.hopit = TRUE, !.blocked = {{"shirt", "jeans"}}]}

\* A body dressed, with a disliked pair or a garment that the filters drop; no
\* body; and nothing at all.
SomeHopitOutfits ==
    {{"dress"}, {"shirt", "jeans"}, {"tee", "jeans"}, {"shirt"}, {}}

\* Two subcategories, and a class that only a mistaken model would choose.
TankTop == <<"tank", "top">>
Heels == <<"heels">>
SmallSubcategories == {TankTop, Heels}
SmallAliases == <<"tank">> :> TankTop
SmallSpellings == {TankTop, <<"tank">>, <<"red", "heels">>, <<"mundu">>}
SmallClassOf == TankTop :> "TANK_TOP" @@ Heels :> "HEELS"
SmallSleeveless == {TankTop}
Setup(digitiser, extractor, model, keys) ==
    [digitiser |-> digitiser, extractor |-> extractor, model |-> model, keys |-> keys]
\* Among them the defaults of "gemini", and vendors whose second opinion, or
\* whose verifier, has no key.
SomeSetups ==
    {Setup("gpt", "openrouter", "openai", {"openrouter"}),
     Setup("gpt", "gemini", "openai", {"openrouter"}),
     Setup("gpt", "gemini", "google", {"gemini", "openrouter"}),
     Setup("gpt", "gemini", "google", {"gemini"}),
     Setup("gpt", "claude", "openai", {"anthropic", "openrouter"}),
     Setup("flux", "claude", "openai", {"anthropic", "nvidia"}),
     Setup("flux", "moda_ner", "openai", {"runpod", "openrouter"}),
     Setup("gpt", "nvidia_nim", "openai", {"nvidia", "openrouter"}),
     Setup("flux", "openrouter", "openai", {})}
SmallCategoryOf == [TANK_TOP |-> "TOP", T_SHIRT |-> "TOP", HEELS |-> "FOOTWEAR"]

TwoAdmins == [ann |-> {"admin"}, sue |-> {"admin", "stylist"}]
ThreeOutfits == [festive |-> "asha", office |-> "asha", travel |-> "ravi"]

\* Enough votes for a pair to be skipped although somebody likes it.
FourVotes ==
    [ann |-> {"tee", "jeans"}, sue |-> {"tee", "jeans"}, kim |-> {"tee", "jeans"},
     own |-> {"tee", "jeans", "shoes"}]
TwoChips ==
    [colour_clash    |-> [on |-> "down", garment |-> 50, pair |-> 150],
     love_the_pieces |-> [on |-> "up", garment |-> 120, pair |-> 60]]
Clause(tone, mentions, cue) == [tone |-> tone, mentions |-> mentions, cue |-> cue]
SomeOpinions ==
    {[vote |-> "down", weight |-> 2, tags |-> {}, clauses |-> <<>>],
     [vote |-> "up", weight |-> 2, tags |-> {"love_the_pieces"}, clauses |-> <<>>],
     [vote |-> "down", weight |-> 2, tags |-> {"colour_clash"},
      clauses |-> <<Clause("up", {"tee"}, FALSE), Clause("none", {"jeans", "shoes"}, TRUE)>>]}
\* A model that speaks of a hat nobody wore, and praises what it blames.
OneReading ==
    {[blamed |-> {"jeans", "hat"}, praised |-> {"jeans"},
      together |-> {{"tee", "jeans"}, {"tee", "hat"}}]}
\* Steps of some nineteen days of a half-life of sixty: 0.5 ** (1/3.1).
NineteenDays == <<100, 80, 64>>

VARIABLE scene

studioVars == <<scene, assemblyVars, perceptionVars, panelVars, reputationVars, pictureVars>>

StudioInit ==
    /\ scene \in {"assembly", "perception", "panel", "reputation", "pictures"}
    /\ AssemblyInit /\ PerceptionInit /\ PanelInit /\ ReputationInit /\ PicturesInit
    /\ scene # "assembly" => ask = FreeAsk
    /\ scene # "perception" =>
           setup = Setup("gpt", "openrouter", "openai", {"openrouter"})

Plays(s) == scene = s /\ UNCHANGED scene

StudioNext ==
    \/ /\ Plays("assembly") /\ AssemblyNext
       /\ UNCHANGED <<perceptionVars, panelVars, reputationVars, pictureVars>>
    \/ /\ Plays("perception") /\ PerceptionNext
       /\ UNCHANGED <<assemblyVars, panelVars, reputationVars, pictureVars>>
    \/ /\ Plays("panel") /\ PanelNext
       /\ UNCHANGED <<assemblyVars, perceptionVars, reputationVars, pictureVars>>
    \/ /\ Plays("reputation") /\ ReputationNext
       /\ UNCHANGED <<assemblyVars, perceptionVars, panelVars, pictureVars>>
    \/ /\ Plays("pictures") /\ PicturesNext
       /\ UNCHANGED <<assemblyVars, perceptionVars, panelVars, reputationVars>>

StudioSpec == StudioInit /\ [][StudioNext]_studioVars

\* The types of all five modules.
StudioTypeOK ==
    /\ AssemblyTypeOK /\ PerceptionTypeOK /\ PanelTypeOK /\ ReputationTypeOK /\ PicturesTypeOK

=============================================================================
