------------------------- MODULE MCGarmentPipeline -------------------------
(* Model-checking instances of GarmentPipeline: the code's nine stages, and *)
(* shorter pipelines that keep a stage of each kind for the runs in which   *)
(* several processes interleave.                                           *)
EXTENDS GarmentPipeline

Nine == <<"CLASSIFY", "CROP", "ATTRIBUTES", "DIGITISE", "EMBED",
          "CATEGORY", "LAYERING", "STRUCTURE", "VISUAL">>
Five == <<"CROP", "ATTRIBUTES", "EMBED", "CATEGORY", "VISUAL">>
Four == <<"CROP", "ATTRIBUTES", "CATEGORY", "VISUAL">>
Three == <<"CROP", "ATTRIBUTES", "VISUAL">>
=============================================================================
