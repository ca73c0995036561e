------------------------------ MODULE MCForward ------------------------------
(***************************************************************************)
(* SpeculativeDecode and ExpertPaging for TLC: what a decode tick and a    *)
(* mixture-of-experts layer enqueue.  They do not meet; a behaviour steps  *)
(* one of them and the other stays where it began.                         *)
(***************************************************************************)
EXTENDS SpeculativeDecode, ExpertPaging

VARIABLE part

MCInit ==
  /\ part \in {"decode", "experts"}
  /\ Init
  /\ PagingInit
  /\ part = "decode" => pager = "host"
  /\ part = "experts" =>
       prompt_position = 0 /\ drafter = "none" /\ stop = [at |-> PromptLen, by |-> "eos"]

DecodeNext == part = "decode" /\ Next /\ UNCHANGED <<part, pagingVars>>
ExpertsNext == part = "experts" /\ PagingNext /\ UNCHANGED <<part, vars>>

MCSpec ==
  /\ MCInit
  /\ [][DecodeNext \/ ExpertsNext]_<<part, vars, pagingVars>>
  /\ WF_vars(part = "decode" /\ Tick)
  /\ Fairness

\* The request of a decode behaviour completes: see Completes of SpeculativeDecode.
DecodeCompletes == part = "decode" => Completes
==============================================================================
