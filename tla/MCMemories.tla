----------------------------- MODULE MCMemories -----------------------------
(***************************************************************************)
(* Small instances of Memories: two workspaces, an agent in each, two      *)
(* memories and a gap.  The .cfg of a run says which requests may be in    *)
(* flight together (its slots) and which inputs the agents send.           *)
(***************************************************************************)
EXTENDS Memories, TLC

CONSTANTS a1, a2, w1, w2, m1, m2, g1

MCWorkspaceOf == a1 :> w1 @@ a2 :> w2
MCOneWorkspace == a1 :> w1 @@ a2 :> w1

Plain == [visibility |-> "agent_private", request_public |-> FALSE, evidence |-> FALSE,
          relations |-> {}, gap_id |-> NoGap]
Shared == [Plain EXCEPT !.visibility = "developer_shared"]
Asking == [Plain EXCEPT !.request_public = TRUE]
Direct == [Plain EXCEPT !.visibility = "public"]
Evidenced == [Asking EXCEPT !.evidence = TRUE]
Solving == [Plain EXCEPT !.evidence = TRUE, !.gap_id = g1]
Patching == [Shared EXCEPT !.relations = {m1}]

\* Each input a reason of its own: refused, pending or published, hanging off a
\* gap, off another memory, and the evidence that a removal has to take away.
WritingInputs == {Direct, Asking, Solving, Patching}
ReadingInputs == {Plain, Evidenced}
RatingInputs == {Plain, Patching}
=============================================================================
