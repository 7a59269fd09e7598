------------------------------- MODULE NodePool -------------------------------
(***************************************************************************)
(* What new_node promises to its callers: a node is handed out to one at a *)
(* time, and again only after a free_node.  A free_node of a node nobody   *)
(* has is a step that changes nothing here.                                *)
(***************************************************************************)
EXTENDS Naturals

CONSTANT Nodes

VARIABLE users   \* for each node, how many callers it was handed out to

Init == users = [n \in Nodes |-> 0]

New(n) == users[n] = 0 /\ users' = [users EXCEPT ![n] = 1]

Free(n) == users[n] = 1 /\ users' = [users EXCEPT ![n] = 0]

Next == \E n \in Nodes : New(n) \/ Free(n)

Spec == Init /\ [][Next]_users
===============================================================================
