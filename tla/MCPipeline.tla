----------------------------- MODULE MCPipeline -----------------------------
(***************************************************************************)
(* A whole query for TLC: a buffer of two batches, two slots, two workers. *)
(***************************************************************************)
EXTENDS Pipeline
============================================================================
