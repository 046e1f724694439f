----------------------------- MODULE Lifecycle ------------------------------
(***************************************************************************)
(* What the server promises about one memory, whatever the interleaving of *)
(* requests: it is written once, together with the rest of its batch; its  *)
(* audience only ever widens; it reaches the public only in a workspace    *)
(* that has an owner; and once the owner removed it, nobody reads it again.*)
(* Module Memories implements this specification.                          *)
(***************************************************************************)

CONSTANTS Memories, Workspaces, NoWorkspace

Audiences == {"agent_private", "developer_shared", "public"}
Lives == Audiences \cup {"absent", "removed"}

VARIABLES
    life,       \* who may read each memory: one of Lives
    home,       \* the workspace each memory was written in
    owned       \* the workspaces that have been claimed

vars == <<life, home, owned>>

TypeOK ==
    /\ life \in [Memories -> Lives]
    /\ home \in [Memories -> Workspaces \cup {NoWorkspace}]
    /\ owned \subseteq Workspaces

Init ==
    /\ life = [m \in Memories |-> "absent"]
    /\ home = [m \in Memories |-> NoWorkspace]
    /\ owned = {}

Claim(w) ==
    /\ owned' = owned \cup {w}
    /\ UNCHANGED <<life, home>>

\* A batch of memories appears in one step.
Write(w, batch, audience) ==
    /\ \A m \in batch : life[m] = "absent"
    /\ \A m \in batch : audience[m] = "public" => w \in owned
    /\ life' = [m \in Memories |-> IF m \in batch THEN audience[m] ELSE life[m]]
    /\ home' = [m \in Memories |-> IF m \in batch THEN w ELSE home[m]]
    /\ UNCHANGED owned

Publish(m) ==
    /\ life[m] \in Audiences
    /\ home[m] \in owned
    /\ life' = [life EXCEPT ![m] = "public"]
    /\ UNCHANGED <<home, owned>>

Remove(m) ==
    /\ life[m] \in Audiences
    /\ home[m] \in owned
    /\ life' = [life EXCEPT ![m] = "removed"]
    /\ UNCHANGED <<home, owned>>

Next ==
    \/ \E w \in Workspaces : Claim(w)
    \/ \E w \in Workspaces, batch \in SUBSET Memories :
           \E audience \in [batch -> Audiences] : Write(w, batch, audience)
    \/ \E m \in Memories : Publish(m) \/ Remove(m)

Spec == Init /\ [][Next]_vars
=============================================================================
