---------------------------- MODULE MCAlgorithms ----------------------------
(***************************************************************************)
(* The pure algorithms side by side: the ranks of a search (limit > 0) and *)
(* the addresses of requests (limit = 0).  The ranks are those of every    *)
(* pair of lists that two channels can find among four memories, three at  *)
(* most each: with RRF_K = 2 three candidates are as many as the           *)
(* assumption on the constants lets a channel find.                        *)
(***************************************************************************)
EXTENDS RankLists, ClientIp

NetworkEntries == [base : Addresses, prefix : 0 .. Wide + 1]
\* No proxies, any one network, or any one beside an IPv4 address.
MCConfigured ==
    {{}} \cup {{e} : e \in NetworkEntries}
        \cup {{e, [base |-> [family |-> "v4", bits |-> 1], prefix |-> Narrow]} :
                 e \in NetworkEntries}

SomeAddress == [family |-> "v4", bits |-> 0]

AInit ==
    \/ /\ ListsInit
       /\ trusted = {} /\ forwarded = << >>
       /\ sender = SomeAddress /\ realIp = SomeAddress /\ peer = SomeAddress
    \/ ChainInit /\ lexical = << >> /\ semantic = << >> /\ limit = 0

ANext ==
    \/ limit > 0 /\ ListsNext /\ UNCHANGED chain
    \/ limit = 0 /\ ChainNext /\ UNCHANGED lists

ASpec == AInit /\ [][ANext]_<<lists, chain>>
=============================================================================
