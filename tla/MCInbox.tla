-------------------------------- MODULE MCInbox --------------------------------
(***************************************************************************)
(* Inbox for TLC: ann bids on a property of bob's.                         *)
(***************************************************************************)
EXTENDS Inbox, TLC

CONSTANTS ann, bob, b1

Agents == [b \in Bids |-> ann]
Managers == [b \in Bids |-> bob]
\* Ann is both an agent and a manager, bob an administrator with a property.
HeldRoles == (ann :> {"agent", "manager"}) @@ (bob :> {"admin"})
Symmetric == Permutations(Requests)
================================================================================
