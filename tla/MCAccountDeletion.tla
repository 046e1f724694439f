------------------------ MODULE MCAccountDeletion ------------------------
(***************************************************************************)
(* Two accounts whose agents have answered, rated and linked each other's  *)
(* memories, so that every foreign key has a row of either side to bite on *)
(* and every table that two handlers share has a row that they share.      *)
(* Any three of twelve requests arrive together, or both deletions, an     *)
(* import and one beside them; and the circles of more removals, or of a   *)
(* row that is committed late, have arrivals of their own.                 *)
(*                                                                         *)
(* TLC evaluates what stands for a constant at every use of it, and a      *)
(* definition that this names only once: hence the two names of each.      *)
(***************************************************************************)
EXTENDS AccountDeletion

In(table, refs) == [table |-> table, refs |-> refs]

TwoAccounts ==
    [d1 |-> In("developers", << >>),
     d2 |-> In("developers", << >>),
     w1 |-> In("workspaces", [developer_id |-> "d1"]),
     w2 |-> In("workspaces", [developer_id |-> "d2"]),
     s1 |-> In("developer_sessions", [developer_id |-> "d1"]),
     s2 |-> In("developer_sessions", [developer_id |-> "d2"]),
     a1 |-> In("agents", [workspace_id |-> "w1"]),
     a2 |-> In("agents", [workspace_id |-> "w2"]),
     k1 |-> In("agent_keys", [agent_id |-> "a1"]),
     k2 |-> In("agent_keys", [agent_id |-> "a2"]),
     m1 |-> In("memories", [workspace_id |-> "w1", author_agent_id |-> "a1"]),
     m2 |-> In("memories", [workspace_id |-> "w2", author_agent_id |-> "a2"]),
     e1 |-> In("memory_evidence", [memory_id |-> "m1"]),
     g1 |-> In("experience_gaps", [workspace_id |-> "w1", author_agent_id |-> "a1"]),
     \* m2 patches m1 and answers g1, as m5 does; either agent has rated the other's
     \* memory, a1 twice.
     r1 |-> In("memory_relations", [source_memory_id |-> "m2", target_memory_id |-> "m1"]),
     l1 |-> In("gap_memory_links", [gap_id |-> "g1", memory_id |-> "m2"]),
     m5 |-> In("memories", [workspace_id |-> "w2", author_agent_id |-> "a2"]),
     l5 |-> In("gap_memory_links", [gap_id |-> "g1", memory_id |-> "m5"]),
     f1 |-> In("memory_feedback", [memory_id |-> "m2", agent_id |-> "a1"]),
     f2 |-> In("memory_feedback", [memory_id |-> "m1", agent_id |-> "a2"]),
     f5 |-> In("memory_feedback", [memory_id |-> "m2", agent_id |-> "a1"]),
     \* What the requests insert.
     s3 |-> In("developer_sessions", [developer_id |-> "d1"]),
     a3 |-> In("agents", [workspace_id |-> "w1"]),
     k3 |-> In("agent_keys", [agent_id |-> "a3"]),
     m3 |-> In("memories", [workspace_id |-> "w1", author_agent_id |-> "a1"]),
     e3 |-> In("memory_evidence", [memory_id |-> "m3"]),
     r3 |-> In("memory_relations", [source_memory_id |-> "m3", target_memory_id |-> "m5"]),
     l3 |-> In("gap_memory_links", [gap_id |-> "g1", memory_id |-> "m3"]),
     m4 |-> In("memories", [workspace_id |-> "w2", author_agent_id |-> "a2"]),
     r4 |-> In("memory_relations", [source_memory_id |-> "m4", target_memory_id |-> "m1"]),
     r5 |-> In("memory_relations", [source_memory_id |-> "m4", target_memory_id |-> "m2"]),
     f3 |-> In("memory_feedback", [memory_id |-> "m2", agent_id |-> "a3"]),
     f4 |-> In("memory_feedback", [memory_id |-> "m1", developer_id |-> "d1"]),
     g3 |-> In("experience_gaps", [workspace_id |-> "w1", author_agent_id |-> "a1"])]

FifteenRequests ==
    [delete1   |-> DeleteAccount("d1", "s1"),
     delete2   |-> DeleteAccount("d2", "s2"),
     remove1   |-> RemoveMemory("m1", "s1"),
     remove2   |-> RemoveMemory("m2", "s2"),
     remove4   |-> RemoveMemory("m4", "s2"),
     remove3   |-> RemoveMemory("m3", "s1"),
     remove5   |-> RemoveMemory("m5", "s2"),
     again2    |-> RemoveMemory("m2", "s2"),
     register  |-> RegisterAgent("a3", "k3"),
     import    |-> InsertMemory("m3", "k1", <<"e3", "r3", "l3">>),
     import2   |-> InsertMemory("m4", "k2", <<"r4", "r5">>),
     rate      |-> CreateFeedback("f3", "k3"),
     rateOwn   |-> CreateFeedback("f4", "s1"),
     ask       |-> CreateGap("g3", "k1"),
     login     |-> Login("s3")]

RowNames == DOMAIN TwoAccounts
RequestNames == DOMAIN FifteenRequests
Inserted ==
    UNION {{FifteenRequests[t].rows[i] : i \in DOMAIN FifteenRequests[t].rows} : t \in RequestNames}
RowsThere == RowNames \ Inserted

MCIds == RowNames
MCRow == TwoAccounts
MCInitial == RowsThere
MCRequests == RequestNames
MCWork == FifteenRequests
MCArrivals ==
    {S \in SUBSET (RequestNames \ {"again2", "remove3", "remove5"}) :
        \/ Cardinality(S) = 3
        \/ /\ Cardinality(S) = 4
           /\ {"delete1", "delete2", "import"} \subseteq S
           /\ S \cap {"remove1", "remove2", "register"} # {}}
    \cup {{"remove2", "again2", t} : t \in {"delete1", "delete2", "rateOwn", "import2"}}
    \cup {{"import2", "remove1", "remove2", "remove4"},
          {"delete1", "import", "remove2", "remove5"},
          {"delete1", "import", "remove3", "remove5"}}
==========================================================================
