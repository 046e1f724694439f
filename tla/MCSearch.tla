------------------------------ MODULE MCSearch ------------------------------
(***************************************************************************)
(* A small instance of Search: one memory and one gap of one agent, whose  *)
(* workspace is claimed, and as callers the agent, its owner and somebody  *)
(* without a name.  Every property is about one memory and one caller.     *)
(* merge_ranks breaks ties by id, so the ids of memories are numbers.      *)
(***************************************************************************)
EXTENDS Search, TLC

CONSTANTS a1, w1, g1

MCWorkspaceOf == a1 :> w1

\* A private memory, and one that its author wants to publish, both for a gap.
FoundInputs ==
    {[visibility |-> "agent_private", request_public |-> asks, evidence |-> FALSE,
      relations |-> {}, gap_id |-> g1] : asks \in BOOLEAN}
=============================================================================
