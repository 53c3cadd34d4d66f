--------------------------- MODULE PipelineStages ---------------------------
(***************************************************************************)
(* The stages of the ingestion pipeline, what each may do to the garment it *)
(* is given, and how the two callers, PipelineOrchestrator.run and the      *)
(* /step endpoint, turn a stage's result into the garment's next status.    *)
(*                                                                         *)
(* A stage is its position in Pipeline, and a status of forward progress is *)
(* the position of the stage that leads to it: 0 is RECEIVED, k the entry   *)
(* of STAGE_TO_GARMENT_STATE for the k-th stage, Len(Pipeline) COMPLETED.   *)
(* The code's Pipeline has nine stages; a shorter one keeps some of them in *)
(* the same order and is used where processes interleave.                   *)
(***************************************************************************)
EXTENDS Integers, Sequences

CONSTANTS
    Pipeline,   \* PIPELINE_STAGES_ORDER
    Attrs,      \* attribute sets a model or an operator may give the garment
    NoAttrs     \* attributes_json is empty

StageNames == {"CLASSIFY", "CROP", "ATTRIBUTES", "DIGITISE", "EMBED",
               "CATEGORY", "LAYERING", "STRUCTURE", "VISUAL"}

ASSUME StagesAssumption ==
    /\ Pipeline \in Seq(StageNames)
    /\ Len(Pipeline) > 0
    /\ NoAttrs \notin Attrs

Stage == 1..Len(Pipeline)

-----------------------------------------------------------------------------
(* Garment rows                                                             *)

Received == 0
Completed == Len(Pipeline)
Failed == -1
ReviewRequired == -2

GarmentState == 0..Len(Pipeline) \cup {Failed, ReviewRequired}
Quality == {"PENDING", "APPROVED", "REVIEW_REQUIRED", "REJECTED"}
Garment == [status : GarmentState, quality : Quality, attrs : Attrs \cup {NoAttrs}]
Fields == {"status", "quality", "attrs"}

\* _garment_state_order: -1 for FAILED and REVIEW_REQUIRED.
GarmentStateOrder(s) == IF s \in {Failed, ReviewRequired} THEN -1 ELSE s

\* HALTING_REVIEW_STAGES
Halting(k) == Pipeline[k] \in {"ATTRIBUTES", "EMBED"}

\* What input_hash is computed from, for the stages that hash attributes; the
\* others hash an image, which never changes.
InputOf(k, g) ==
    IF Pipeline[k] \in {"CATEGORY", "LAYERING", "STRUCTURE", "VISUAL"}
    THEN g.attrs ELSE NoAttrs

-----------------------------------------------------------------------------
(* Stage results: what execute() returns, and the garment as it leaves it.  *)
(* "RAISED" is an exception; quality "UNSET" is quality_status=None.        *)

RunStatus == {"SUCCEEDED", "REVIEW_REQUIRED", "FAILED"}
Result == [status : RunStatus \cup {"RAISED"}, quality : Quality \cup {"UNSET"},
           garment : Garment]

Outcome(status, quality, g) == [status |-> status, quality |-> quality, garment |-> g]

WithAttrs(g, a) == [g EXCEPT !.attrs = a]

\* Stage 9 finalises the garment itself unless it is held for review.
Finalised(g) ==
    IF g.quality = "REVIEW_REQUIRED" THEN g
    ELSE [g EXCEPT !.quality = "APPROVED", !.status = Completed]

ClassifyResults(g) ==
    {Outcome("SUCCEEDED", "APPROVED", g),
     Outcome("REVIEW_REQUIRED", "REVIEW_REQUIRED", g), Outcome("RAISED", "UNSET", g)}

CropResults(g) == {Outcome("SUCCEEDED", "UNSET", g), Outcome("RAISED", "UNSET", g)}

\* Attributes are stored whenever one model produced some, also when the
\* verifier then rejects them; they stay as they were when every extraction
\* broke the schema (review) or failed (failed).
AttributesResults(g) ==
    {Outcome("SUCCEEDED", "APPROVED", WithAttrs(g, a)) : a \in Attrs}
    \cup {Outcome("REVIEW_REQUIRED", "REVIEW_REQUIRED", WithAttrs(g, a))
             : a \in Attrs \cup {g.attrs}}
    \cup {Outcome("FAILED", "REJECTED", g), Outcome("RAISED", "UNSET", g)}

\* model_validate raises on empty attributes; refused or never accepted is a
\* review, an unavailable verifier a failure.
DigitiseResults(g) ==
    {Outcome("RAISED", "UNSET", g)}
    \cup (IF g.attrs = NoAttrs THEN {}
          ELSE {Outcome("SUCCEEDED", "APPROVED", g),
                Outcome("REVIEW_REQUIRED", "REVIEW_REQUIRED", g),
                Outcome("FAILED", "UNSET", g)})

EmbedResults(g) ==
    {Outcome("SUCCEEDED", "UNSET", g),
     Outcome("REVIEW_REQUIRED", "REVIEW_REQUIRED", g),
     Outcome("FAILED", "UNSET", g), Outcome("RAISED", "UNSET", g)}

CategoryResults(g) ==
    {Outcome("SUCCEEDED", "UNSET", g), Outcome("REVIEW_REQUIRED", "REVIEW_REQUIRED", g)}

RuleResults(g) == {Outcome("SUCCEEDED", "UNSET", g)}

VisualResults(g) == {Outcome("SUCCEEDED", Finalised(g).quality, Finalised(g))}

StageResults(k, g) ==
    CASE Pipeline[k] = "CLASSIFY"   -> ClassifyResults(g)
      [] Pipeline[k] = "CROP"       -> CropResults(g)
      [] Pipeline[k] = "ATTRIBUTES" -> AttributesResults(g)
      [] Pipeline[k] = "DIGITISE"   -> DigitiseResults(g)
      [] Pipeline[k] = "EMBED"      -> EmbedResults(g)
      [] Pipeline[k] = "CATEGORY"   -> CategoryResults(g)
      [] Pipeline[k] \in {"LAYERING", "STRUCTURE"} -> RuleResults(g)
      [] Pipeline[k] = "VISUAL"     -> VisualResults(g)

\* What the stage run row records of a result.
RecordedStatus(r) == IF r.status = "RAISED" THEN "FAILED" ELSE r.status

-----------------------------------------------------------------------------
(* The two state transitions                                                *)

Verdict(g, s, q) == [g EXCEPT !.status = s, !.quality = IF q = "UNSET" THEN @ ELSE q]

\* PipelineOrchestrator.run, after a stage.
AfterRunStage(k, r) ==
    CASE r.status = "SUCCEEDED" -> Verdict(r.garment, k, r.quality)
      [] r.status = "REVIEW_REQUIRED" /\ Halting(k) ->
            Verdict(r.garment, ReviewRequired, "REVIEW_REQUIRED")
      [] r.status = "REVIEW_REQUIRED" /\ ~Halting(k) -> Verdict(r.garment, k, "UNSET")
      [] OTHER -> Verdict(r.garment, Failed, "REJECTED")

\* A mutant of StopsRun: a review verdict does not stop the pipeline.
StopsOnFailureOnly(k, r) == r.status \in {"FAILED", "RAISED"}

\* ... and whether it breaks out of the loop over the stages.
StopsRun(k, r) ==
    \/ r.status \in {"FAILED", "RAISED"}
    \/ r.status = "REVIEW_REQUIRED" /\ Halting(k)

\* A skipped stage still sets the garment's status, unless it is COMPLETED.
AfterReuse(k, g) == IF g.status = Completed THEN g ELSE [g EXCEPT !.status = k]

\* A mutant of AttributeReviewHeld: the endpoint before it had the check.
NeverHeld(k, g) == FALSE

\* attribute_review_held of the /step endpoint.
AttributeReviewHeld(k, g) ==
    /\ g.status = ReviewRequired
    /\ g.quality = "REVIEW_REQUIRED"
    /\ Pipeline[k] # "ATTRIBUTES"

Advanced(k, g) ==
    IF k > GarmentStateOrder(g.status) THEN [g EXCEPT !.status = k] ELSE g

\* The state transition of the /step endpoint (an exception never gets here).
AfterStep(k, r) ==
    LET held == AttributeReviewHeld(k, r.garment) IN
    CASE r.status = "SUCCEEDED" /\ ~held ->
            Verdict(Advanced(k, r.garment), Advanced(k, r.garment).status, r.quality)
      [] r.status = "REVIEW_REQUIRED" /\ Pipeline[k] = "ATTRIBUTES" ->
            Verdict(r.garment, ReviewRequired, "REVIEW_REQUIRED")
      [] r.status = "REVIEW_REQUIRED" /\ Pipeline[k] # "ATTRIBUTES" /\ ~held ->
            Advanced(k, r.garment)
      [] r.status = "FAILED" -> Verdict(r.garment, Failed, "REJECTED")
      [] OTHER -> r.garment

\* stage_mapping of the /step endpoint: the stage a status calls for, 0 if none.
NextStageFor(s) == IF s \in 0..(Len(Pipeline) - 1) THEN s + 1 ELSE 0

=============================================================================
