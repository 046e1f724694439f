----------------------------- MODULE MCAccounts -----------------------------
(***************************************************************************)
(* Small instances of Accounts.  The .cfg of a run says which requests may *)
(* be in flight together and how many rows there may be.  Rows and request *)
(* slots are interchangeable, so the safety runs check them up to a        *)
(* permutation of each set.                                                *)
(***************************************************************************)
EXTENDS Accounts, TLC

Interchangeable ==
    UNION {Permutations(S) : S \in {Workspaces, Developers, Agents, Keys, Sessions, Logins,
                                    Claims, Joins, Rotations, Renewals, Entries}}
=============================================================================
