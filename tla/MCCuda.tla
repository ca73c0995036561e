------------------------------- MODULE MCCuda -------------------------------
(***************************************************************************)
(* ExecutionSlots and PagedRows for TLC: two users of a CUDA stream that   *)
(* do not meet.  A behaviour steps one of them; the other stays where it   *)
(* began.                                                                  *)
(***************************************************************************)
EXTENDS ExecutionSlots, PagedRows

VARIABLE part

\* Row lists of one row, with a repeated row, and longer than what a worker
\* and its channel take at once.
MCRequests == {<<1>>, <<2, 1, 2>>, <<1, 2, 3>>}

MCInit ==
  /\ part \in {"slots", "rows"}
  /\ Init
  /\ part # "slots" => eager
  /\ ReaderInit

SlotsNext == part = "slots" /\ Next /\ UNCHANGED <<part, readerVars>>
RowsNext == part = "rows" /\ ReaderNext /\ UNCHANGED <<part, vars>>

MCSpec ==
  /\ MCInit
  /\ [][SlotsNext \/ RowsNext]_<<part, vars, readerVars>>
  /\ part = "rows" => ReaderFairness
=============================================================================
