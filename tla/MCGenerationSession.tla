-------------------------- MODULE MCGenerationSession --------------------------
(***************************************************************************)
(* An instance of GenerationSession for TLC with one stop sequence and a   *)
(* token that is no part of it; the larger one is in MCServing.            *)
(***************************************************************************)
EXTENDS GenerationSession

MCOneStop == {<<1, 2>>}
MCOneChunk == {<<3>>}
================================================================================
