-------------------------- MODULE MCAudioPipeline ---------------------------
(* AudioPipeline over small chains; the bounds are those of each .cfg. *)
EXTENDS AudioPipelineInductive
=============================================================================
