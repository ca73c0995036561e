----------------------------- MODULE FinishReasons -----------------------------
(***************************************************************************)
(* Why a generation ended: the reasons that GenerationFinishReason and     *)
(* ChatFinishReason share with the scheduler's RequestFinishReason.        *)
(***************************************************************************)

None == <<"None", <<>>>>
Eos == <<"Eos", <<>>>>
Length == <<"Length", <<>>>>
ToolCalls == <<"ToolCalls", <<>>>>
================================================================================
