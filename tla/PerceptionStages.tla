-------------------------- MODULE PerceptionStages --------------------------
(***************************************************************************)
(* The four stages that look at the photo, model call by model call: the     *)
(* classifier, the detector with its second opinion on each region, the      *)
(* extraction of attributes with a verifier, and the canonical picture with   *)
(* another.  Any call may fail, answer what cannot be read, or answer        *)
(* anything; PipelineStages promises what a stage as a whole may return.     *)
(* Confidences are in hundredths.                                           *)
(***************************************************************************)
EXTENDS Naturals, Sequences, FiniteSets, SequencesExt

CONSTANTS
    Labels,           \* what a region of the photo may show
    Subcategories,    \* KNOWN_SUBCATEGORIES, each a sequence of words
    Aliases,          \* SUBCATEGORY_ALIASES
    Spellings,        \* what a model may write for a subcategory
    ClassOf,          \* SUBCATEGORY_TO_CLASS
    CategoryOf,       \* CLASS_TO_CATEGORY
    Sleeveless,       \* SLEEVELESS_SUBCATEGORIES
    AttributeTries,   \* ATTRIBUTE_MAX_RETRIES
    PictureTries,     \* DIGITISATION_MAX_RETRIES
    Painters,         \* how many image models are on the ladder
    Setups            \* the configurations to consider

GarmentClasses == DOMAIN CategoryOf

ASSUME PerceptionAssumption ==
    /\ ClassOf \in [Subcategories -> GarmentClasses]
    /\ Subcategories \cup Spellings \subseteq Seq(STRING)
    /\ \A a \in DOMAIN Aliases : Aliases[a] \in Subcategories
    /\ Sleeveless \subseteq Subcategories
    /\ {AttributeTries, PictureTries, Painters} \subseteq Nat \ {0}
    /\ Setups \subseteq [digitiser : {"flux", "gpt"}, model : {"openai", "google"},
                        extractor : {"openrouter", "gemini", "claude", "nvidia_nim", "moda_ner"},
                        keys : SUBSET {"openrouter", "gemini", "anthropic", "nvidia", "runpod"}]

NoLabel == "no label"
ImageTypes == {"CATALOG", "CROP", "FULL_BODY"}
Looks == <<"CLASSIFY", "CROP", "ATTRIBUTES", "DIGITISE">>

VARIABLES
    setup,    \* the providers configured, the API keys there are, and whose model
              \* ATTRIBUTE_MODEL_NAME is
    item,     \* the garment, as the session holds it
    stage,    \* the stage at work, or "idle"
    heard,    \* whom it has asked and what came of it
    regions,  \* what the detector found: the labels to check, those kept
    draft,    \* the attributes extracted last
    easel,    \* the picture drawn last, by what the verifier said of it
    shelf,    \* the object under the garment's canonical key, likewise
    report    \* what the last stage returned

perceptionVars == <<setup, item, stage, heard, regions, draft, easel, shelf, report>>

\* source is history: whether a model looked at the photo.
NoAttributes == [sub |-> <<>>, class |-> "none", sleeves |-> "none", source |-> "none"]
NoRegions == [left |-> <<>>, kept |-> <<>>]
NoReport == [stage |-> "none"]

PerceptionInit ==
    /\ setup \in Setups
    /\ item = [type |-> "none", label |-> NoLabel, attrs |-> NoAttributes, picture |-> "none"]
    /\ stage = "idle" /\ heard = <<>> /\ regions = NoRegions /\ draft = NoAttributes
    /\ easel = "none" /\ shelf = "none" /\ report = NoReport

\* The orchestrator runs the stages in order, the /step endpoint any of them.
Begin(s) ==
    /\ stage = "idle"
    /\ stage' = s
    /\ heard' = <<>> /\ regions' = NoRegions /\ draft' = NoAttributes /\ easel' = "none"
    /\ report' = NoReport
    /\ UNCHANGED <<setup, item, shelf>>

\* execute returns, with the garment as it leaves it.
Return(said, status, quality, after) ==
    /\ stage' = "idle"
    /\ heard' = said
    /\ item' = after
    /\ report' = [stage |-> stage, status |-> status, quality |-> quality, before |-> item]

Raise(said) == Return(said, "RAISED", "UNSET", item)

Note(by, said) == Append(heard, [by |-> by, said |-> said])

\* The photo, or what the garment row should hold by now, is not there.
Unprepared ==
    /\ stage # "idle" /\ heard = <<>> /\ easel = "none"
    /\ Raise(heard)
    /\ UNCHANGED <<setup, regions, draft, easel, shelf>>

-----------------------------------------------------------------------------
(* Classification and detection: the first model, the first again, another    *)
(* vendor's, and a heuristic when none of them is of use.                   *)

\* A mutant of Attempts: the same model each time.
EchoedAttempts == <<"openai", "openai", "openai">>
\* OPENROUTER_MODEL and VISION_VERIFIER_MODEL are taken to be their defaults.
Attempts == <<"openai", "openai", "google">>

\* parse_model_json copes with fences, prose around the JSON and trailing
\* commas; what stops halfway has no balanced JSON.
Replies == {"bare", "fenced", "in prose", "trailing comma", "cut short", "empty"}
ParseModelJson(reply) == IF reply \in {"cut short", "empty"} THEN "none" ELSE "answer"

\* An empty key is no key.
HasKey(key) == key \in setup.keys

\* One chat completion; an error or a timeout is no answer.
Answering ==
    IF HasKey("openrouter") THEN {"none"} \cup {ParseModelJson(reply) : reply \in Replies} ELSE {"none"}

HeuristicConfidence(own) == IF own < 40 THEN own ELSE 40

\* The heuristic goes by a face and the proportions, and is always sure.
Guesses == [type : ImageTypes, confidence : {85, 96}]

Classified(said, type, confidence) ==
    LET after == [item EXCEPT !.type = type]
    IN IF confidence >= 70 THEN Return(said, "SUCCEEDED", "APPROVED", after)
       ELSE Return(said, "REVIEW_REQUIRED", "REVIEW_REQUIRED", after)

Classify ==
    /\ stage = "CLASSIFY" /\ Len(heard) < Len(Attempts)
    /\ \E got \in Answering :
          LET said == Note(Attempts[Len(heard) + 1], got) IN
          IF got = "answer"
          THEN \E type \in ImageTypes, confidence \in {50, 90} : Classified(said, type, confidence)
          ELSE IF Len(said) = Len(Attempts)
               THEN \E guess \in Guesses :
                       Classified(Append(said, [by |-> "heuristic", said |-> "answer"]),
                                  guess.type, HeuristicConfidence(guess.confidence))
          ELSE heard' = said /\ UNCHANGED <<item, stage, report>>
    /\ UNCHANGED <<setup, regions, draft, easel, shelf>>

\* The regions a detector is confident of, in its order.
Detections == UNION {[1..n -> Labels] : n \in 0..2}

\* The heuristic finds one region, or two below a face.
HeuristicDetects(face, labels) == labels # <<>> /\ (face \/ Len(labels) = 1)

\* The photo shows the garment alone: it is left whole.
AlreadyClean(face) == item.type \in {"CATALOG", "CROP"} /\ ~face

Labelled(kept) == [item EXCEPT !.label = IF kept = <<>> THEN NoLabel ELSE kept[1]]

Detected(said, face, labels) ==
    /\ IF AlreadyClean(face) THEN Return(said, "SUCCEEDED", "UNSET", item)
       ELSE IF labels = <<>> THEN Return(said, "SUCCEEDED", "UNSET", Labelled(<<>>))
       ELSE heard' = said /\ UNCHANGED <<item, stage, report>>
    /\ regions' = [left |-> labels, kept |-> <<>>]

\* A person of whom no garment could be told apart is no answer; nobody and
\* nothing is one, and is believed.
Detect ==
    /\ stage = "CROP" /\ regions.left = <<>> /\ regions.kept = <<>>
    /\ \E got \in Answering, person, face \in BOOLEAN, labels \in Detections :
          LET found == labels # <<>>
              useful == got = "answer" /\ (found \/ ~person)
              said == Note(Attempts[Len(heard) + 1], IF useful THEN "answer" ELSE "none")
          IN IF useful THEN Detected(said, face /\ found, labels)
             ELSE IF Len(said) = Len(Attempts)
                  THEN /\ HeuristicDetects(face, labels)
                       /\ Detected(Append(said, [by |-> "heuristic", said |-> "answer"]),
                                   face, labels)
             ELSE heard' = said /\ UNCHANGED <<item, stage, regions, report>>
    /\ UNCHANGED <<setup, draft, easel, shelf>>

\* What asking the verifier comes to: one call, with the OpenRouter key whoever
\* answered, and not repeated.
VerifierSays(answers) == {"none"} \cup (IF HasKey("openrouter") THEN answers ELSE {})

\* verify_region_presence: a verifier that does not answer lets the region pass,
\* and the first region is kept whatever it says.
VerifyRegion ==
    /\ stage = "CROP" /\ regions.left # <<>>
    /\ \E verdict \in VerifierSays({"present", "absent"}) :
          LET label == Head(regions.left)
              kept == IF verdict = "absent" /\ regions.kept # <<>> THEN regions.kept
                      ELSE Append(regions.kept, label)
              left == Tail(regions.left)
          IN /\ regions' = [left |-> left, kept |-> kept]
             /\ IF left # <<>> THEN UNCHANGED <<item, stage, heard, report>>
                ELSE Return(heard, "SUCCEEDED", "UNSET", Labelled(kept)) \/ Raise(heard)
    /\ UNCHANGED <<setup, draft, easel, shelf>>

-----------------------------------------------------------------------------
(* Attributes                                                               *)

\* What a model may answer: shape is what the steps of the validation look at
\* in turn, sub and class what it made of the garment.
Extractions ==
    [shape : {"prose", "partial", "range", "enum", "misplaced", "sound", "unsure"},
     sub : Spellings, class : GarmentClasses \cup {"foreign"},
     sleeves : {"sleeveless", "long"}]

\* A value that belongs to another optional field is dropped, not refused.
Coerced(shape) == IF shape = "misplaced" THEN "sound" ELSE shape

\* The longest known subcategory at the end of what was written, which may also
\* be an alias; whatever is neither stays as it is.
KnownAs(written) ==
    LET meant == IF written \in DOMAIN Aliases THEN Aliases[written] ELSE written
        known == {k \in Subcategories : IsSuffix(k, meant)}
    IN IF known = {} THEN meant
       ELSE CHOOSE k \in known : \A other \in known : Len(other) <= Len(k)

\* The first of the seven steps that fails.
Fault(x) ==
    LET shape == Coerced(x.shape)
        known == KnownAs(x.sub) \in Subcategories
    IN CASE shape = "prose"   -> "1_parse_json"
         [] shape = "partial" -> "6_required_fields"
         [] shape = "range"   -> "4_range_validation"
         [] shape = "enum"    -> "3_enum_validation"
         [] shape \in {"sound", "unsure"} /\ ~known -> "5_taxonomy_validation"
         [] shape = "unsure" /\ known -> "7_confidence_checks"
         [] OTHER -> "none"

\* A class of another category than the subcategory's gives way to it.
AgreedClass(x) ==
    LET expected == ClassOf[KnownAs(x.sub)]
    IN IF x.class \in GarmentClasses /\ CategoryOf[x.class] = CategoryOf[expected]
       THEN x.class ELSE expected

Validated(x) ==
    [sub |-> KnownAs(x.sub), class |-> AgreedClass(x),
     sleeves |-> IF KnownAs(x.sub) \in Sleeveless THEN "sleeveless" ELSE x.sleeves,
     source |-> "model"]

\* The fixed attributes of a provider that could not look.
Placeholder ==
    [sub |-> <<"oxford", "shirt">>, class |-> "SHIRT", sleeves |-> "long", source |-> "mock"]

AttributeSets == {Validated(x) : x \in {x \in Extractions : Fault(x) = "none"}} \cup {Placeholder}

\* What comes of asking a provider.  A reply that fails the validation is not
\* an outage, and only what was extracted has attributes.
Invented == [came |-> "extracted", attrs |-> Placeholder]
Outage == [came |-> "outage", attrs |-> NoAttributes]
Interpreted(x) ==
    IF Fault(x) = "none" THEN [came |-> "extracted", attrs |-> Validated(x)]
    ELSE [came |-> "invalid", attrs |-> NoAttributes]
ModelAnswers == {Interpreted(x) : x \in Extractions}

\* The required fields that MODA_NER's answer covers, by the kind of photo.
MapCropTrack == {"category", "subcategory", "pattern", "silhouette"}
MapCatalogTrack == {"category", "subcategory", "colour", "material", "fit", "pattern"}
MapFullbodyTrack == {"material", "pattern"}
Track ==
    CASE item.type = "CATALOG" -> MapCatalogTrack
      [] item.type = "FULL_BODY" -> MapFullbodyTrack
      [] OTHER -> MapCropTrack
Required == {"category", "subcategory", "colour", "pattern", "material", "fit", "silhouette",
             "occasion", "season", "layering_role", "warmth", "versatility"}

\* A language model is asked for the other fields, and may add none of them.
Merged(topup) ==
    IF Required \subseteq Track \cup topup THEN ModelAnswers
    ELSE {Interpreted(x) : x \in {x \in Extractions : x.shape = "partial"}}

\* Each vendor has a key of its own; a provider without one does not ask.
\* A mutant of AskedWith: an outage is covered up like a missing key.
AskedOrInvented(keyed) == IF keyed THEN {Invented} \cup ModelAnswers ELSE {Invented}
AskedWith(keyed) == IF keyed THEN {Outage} \cup ModelAnswers ELSE {Invented}
OpenRouterExtracts == AskedWith(HasKey("openrouter"))
\* The configured one prefers its own key; the alternate is given none.
GeminiExtracts(n) == AskedWith(HasKey("openrouter") \/ (n = 1 /\ HasKey("gemini")))
ClaudeExtracts == AskedWith(HasKey("anthropic"))
\* Whatever goes wrong is covered up by the local analysis.
NvidiaExtracts ==
    {Invented} \cup (IF HasKey("nvidia") THEN {r \in ModelAnswers : r.came = "extracted"} ELSE {})
\* An endpoint that does not answer is replaced by the mock; the language model
\* adds to one that does, if it has a key.
ModaNerExtracts ==
    {Invented} \cup
    (IF HasKey("runpod") THEN Merged({}) \cup (IF HasKey("openrouter") THEN Merged(Required) ELSE {})
     ELSE {})

\* _providers_for_attempts: the configured one, then another.
Provider(n) ==
    IF n = 1 THEN setup.extractor
    ELSE IF setup.extractor = "gemini" THEN "openrouter" ELSE "gemini"

Extracts(n) ==
    CASE Provider(n) = "openrouter" -> OpenRouterExtracts
      [] Provider(n) = "gemini"     -> GeminiExtracts(n)
      [] Provider(n) = "claude"     -> ClaudeExtracts
      [] Provider(n) = "nvidia_nim" -> NvidiaExtracts
      [] Provider(n) = "moda_ner"   -> ModaNerExtracts

\* Whose model a provider asks: a configured "gemini" asks for
\* ATTRIBUTE_MODEL_NAME, which is OpenAI's unless it is set; as the alternate
\* it asks for VISION_VERIFIER_MODEL.
Vendor(n) ==
    CASE Provider(n) = "openrouter" -> "openai"
      [] Provider(n) = "gemini"     -> IF n = 1 THEN setup.model ELSE "google"
      [] Provider(n) = "claude"     -> "anthropic"
      [] Provider(n) = "nvidia_nim" -> "nvidia"
      [] Provider(n) = "moda_ner"   -> "hopit"

\* Every attempt is used up, or the last attributes were verified.
Settle(said, attributes) ==
    LET last == said[Len(said)].said
        after == [item EXCEPT !.attrs = attributes]
    IN IF attributes = NoAttributes
       THEN IF last = "outage" THEN Return(said, "FAILED", "REJECTED", item)
            ELSE Return(said, "REVIEW_REQUIRED", "REVIEW_REQUIRED", item)
       ELSE IF last \in {"match", "none"} THEN Return(said, "SUCCEEDED", "APPROVED", after)
            ELSE Return(said, "REVIEW_REQUIRED", "REVIEW_REQUIRED", after)

\* An attempt that brought nothing leaves what an earlier one had extracted.
NothingExtracted(why) ==
    LET said == Note(Vendor(Len(heard) + 1), why)
    IN /\ draft' = draft
       /\ IF Len(said) = AttributeTries THEN Settle(said, draft)
          ELSE heard' = said /\ UNCHANGED <<item, stage, report>>

Extracted(attributes) ==
    /\ draft' = attributes
    /\ heard' = Note(Vendor(Len(heard) + 1), "extracted")
    /\ UNCHANGED <<item, stage, report>>

ToVerify == heard # <<>> /\ heard[Len(heard)].said = "extracted"

Extract ==
    /\ stage = "ATTRIBUTES" /\ ~ToVerify
    /\ \E r \in Extracts(Len(heard) + 1) :
          IF r.came = "extracted" THEN Extracted(r.attrs) ELSE NothingExtracted(r.came)
    /\ UNCHANGED <<setup, regions, easel, shelf>>

\* verify_attributes_against_image: a verifier that does not answer agrees.
VerifyAttributes ==
    /\ stage = "ATTRIBUTES" /\ ToVerify
    /\ \E verdict \in VerifierSays({"match", "mismatch"}) :
          LET said == [heard EXCEPT ![Len(heard)].said = verdict]
          IN IF verdict # "mismatch" \/ Len(said) = AttributeTries THEN Settle(said, draft)
             ELSE heard' = said /\ UNCHANGED <<item, stage, report>>
    /\ UNCHANGED <<setup, regions, draft, easel, shelf>>

-----------------------------------------------------------------------------
(* The canonical picture                                                    *)

\* Each model on the ladder is asked for an image, with the garment as the
\* reference, and the first image is taken;
GptDraws(answers) == "image" \in ToSet(answers)
\* FLUX models that decline the reference photo are asked again without it.
FluxDraws(answers) == ToSet(answers) \cap {"image", "image without reference"} # {}

ToCheck == easel = "unseen"

CanDraw ==
    HasKey("openrouter") \/ (setup.digitiser = "flux" /\ HasKey("nvidia"))

\* Nobody drew it: a refusal is not retried.
Draw ==
    /\ stage = "DIGITISE" /\ item.attrs # NoAttributes /\ ~ToCheck
    /\ \E answers \in [1..Painters -> {"image", "image without reference", "none"}] :
          IF CanDraw /\ (IF setup.digitiser = "flux" THEN FluxDraws(answers) ELSE GptDraws(answers))
          THEN easel' = "unseen" /\ UNCHANGED <<item, stage, heard, report>>
          ELSE /\ easel' = "none"
               /\ Return(Note(setup.digitiser, "refused"), "REVIEW_REQUIRED", "REVIEW_REQUIRED", item)
    /\ UNCHANGED <<setup, regions, draft, shelf>>

\* The image is put under a fixed key and then linked to the garment; either
\* may raise.
Keep(said, picture) ==
    \/ /\ shelf' = picture
       /\ Return(said, "SUCCEEDED", "APPROVED", [item EXCEPT !.picture = picture])
    \/ shelf' = picture /\ Raise(said)
    \/ shelf' = shelf /\ Raise(said)

NotAccepted(said) ==
    /\ shelf' = shelf
    /\ IF Len(said) = PictureTries
       THEN Return(said, "REVIEW_REQUIRED", "REVIEW_REQUIRED", item)
       ELSE heard' = said /\ UNCHANGED <<item, stage, report>>

\* A mutant of Unavailable: the garment is rejected.
UnavailableRejects(said) == shelf' = shelf /\ Return(said, "FAILED", "REJECTED", item)
\* A verifier that does not answer fails the stage.
Unavailable(said) == shelf' = shelf /\ Return(said, "FAILED", "UNSET", item)

CheckPicture ==
    /\ stage = "DIGITISE" /\ ToCheck
    /\ IF setup.digitiser = "flux"
       THEN easel' = easel /\ Keep(Note("flux", "match"), easel)
       ELSE \E verdict \in {"match", "mismatch", "none"} :
               LET said == Note("google", verdict) IN
               /\ easel' = verdict
               /\ CASE verdict = "match"    -> Keep(said, verdict)
                    [] verdict = "mismatch" -> NotAccepted(said)
                    [] verdict = "none"     -> Unavailable(said)
    /\ UNCHANGED <<setup, regions, draft>>

PerceptionNext ==
    \/ \E s \in ToSet(Looks) : Begin(s)
    \/ Unprepared \/ Classify \/ Detect \/ VerifyRegion
    \/ Extract \/ VerifyAttributes \/ Draw \/ CheckPicture

PerceptionSpec == PerceptionInit /\ [][PerceptionNext]_perceptionVars

-----------------------------------------------------------------------------

PerceptionTypeOK ==
    /\ item.type \in ImageTypes \cup {"none"}
    /\ item.label \in Labels \cup {NoLabel}
    /\ item.attrs \in AttributeSets \cup {NoAttributes}
    /\ {item.picture, shelf} \subseteq {"none", "match", "unseen"}
    /\ stage \in ToSet(Looks) \cup {"idle"}
    /\ draft \in AttributeSets \cup {NoAttributes}
    /\ \E most \in {Len(Attempts) + 1, AttributeTries, PictureTries} : Len(heard) <= most

Contract == INSTANCE PipelineStages WITH
    Pipeline <- Looks, Attrs <- AttributeSets, NoAttrs <- NoAttributes

AsGarment(x) == [status |-> Contract!Received, quality |-> "PENDING", attrs |-> x.attrs]

\* What a stage returns, with what it did to the attributes, is what
\* PipelineStages lets the stage return (the execute methods, and the verdicts
\* that the orchestrator and the endpoints rely on).
StagesKeepTheirContract ==
    report # NoReport =>
        \E k \in DOMAIN Looks :
            /\ Looks[k] = report.stage
            /\ Contract!Outcome(report.status, report.quality, AsGarment(item))
                 \in Contract!StageResults(k, AsGarment(report.before))

\* The configured extractor and its second opinion have the keys they ask with.
EveryoneHasAKey ==
    HasKey("openrouter") /\ (setup.extractor = "claude" => HasKey("anthropic"))

\* What no model said is not believed: no photo is classified with confidence by
\* the heuristic, no garment carries the attributes of a provider that did not
\* look, and no picture is shown, or kept where it would be, that the verifier
\* has not matched with the photo (openrouter.py, gemini.py, stage_04).  Excepted
\* are MODA_NER and NVIDIA NIM, which fall back on a mock; FLUX, which verifies
\* nothing; and an extractor, the first or the second, that has no key: what it
\* invents in an outage of the other is approved when there is no key for the
\* verifier either.
OutageIsNeverTrusted ==
    /\ report # NoReport /\ report.stage = "CLASSIFY" /\ report.status = "SUCCEEDED"
         => Last(heard).by # "heuristic"
    /\ EveryoneHasAKey /\ setup.extractor \notin {"moda_ner", "nvidia_nim"}
         => item.attrs.source # "mock"
    /\ setup.digitiser = "gpt" => {item.picture, shelf} \subseteq {"none", "match"}

Asked == {heard[i].by : i \in DOMAIN heard}

\* With "gemini" configured and ATTRIBUTE_MODEL_NAME at its default, both
\* attempts ask OpenAI's model, whatever _providers_for_attempts says of them.
SameModelTwice == setup.extractor = "gemini" /\ setup.model = "openai"

\* A stage falls back on the heuristic, or gives the garment up, only when
\* another vendor's model has had its turn after the first (the attempts of
\* classify and detect_and_crop, _providers_for_attempts), but for the setup
\* whose alternate is the same vendor's.
SecondVendorGetsItsTurn ==
    /\ "heuristic" \in Asked => {"openai", "google"} \subseteq Asked
    /\ report # NoReport /\ report.stage = "ATTRIBUTES"
         /\ report.status \in {"REVIEW_REQUIRED", "FAILED"} /\ ~SameModelTwice
         => Cardinality(Asked) > 1

=============================================================================
