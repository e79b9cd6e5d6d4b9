----------------------------- MODULE NodeStore -----------------------------
(* What the tree may rely on from any backend (trait NodeStore of           *)
(* src/src/store.rs): a set of nodes by id, where an id that is in use is   *)
(* never handed out again before it is reclaimed.                           *)
EXTENDS Functions

CONSTANTS Id,        \* the ids a backend can hand out
          Content,   \* the nodes a client stores
          Blank      \* the empty leaf a reset store starts from

VARIABLES nodes,     \* the node behind each id in use
          answer     \* what the last operation returned: an id or a node

vars == <<nodes, answer>>

Init == nodes = <<>> /\ answer = [node |-> Blank]

(* "Store node and return a fresh id for it": any id not in use.            *)
AllocNode(node) ==
    \E id \in Id \ DOMAIN nodes :
        /\ nodes' = [j \in DOMAIN nodes \cup {id} |-> IF j = id THEN node ELSE nodes[j]]
        /\ answer' = [id |-> id]

(* "Remove the node at id, returning it."                                   *)
ReclaimNode(id) ==
    /\ nodes' = Restrict(nodes, DOMAIN nodes \ {id})
    /\ answer' = [node |-> nodes[id]]

GetNode(id) ==
    /\ answer' = [node |-> nodes[id]]
    /\ UNCHANGED nodes

(* A write through the reference get_mut returns.                           *)
PutNode(id, node) ==
    /\ nodes' = [nodes EXCEPT ![id] = node]
    /\ answer' = [node |-> nodes[id]]

(* "Drop every node and return a fresh empty-leaf root."                    *)
Reset ==
    \E id \in Id :
        /\ nodes' = [j \in {id} |-> Blank]
        /\ answer' = [id |-> id]

Next == \/ \E node \in Content : AllocNode(node)
        \/ \E id \in DOMAIN nodes :
               \/ ReclaimNode(id)
               \/ GetNode(id)
               \/ \E node \in Content : PutNode(id, node)
        \/ Reset

Spec == Init /\ [][Next]_vars
=============================================================================
