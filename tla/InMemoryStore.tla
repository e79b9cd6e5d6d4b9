--------------------------- MODULE InMemoryStore ---------------------------
(* The slab store run by a client that uses only ids it holds, as the tree  *)
(* does: one action per method of impl NodeStore for InMemoryStore.         *)
EXTENDS SlabStore

CONSTANTS Content,     \* the nodes the client stores
          SlabBound    \* bound: the client lets the slab grow to this many slots

ASSUME ContentAssumption == Content \subseteq AnyNode
ASSUME SlabBoundAssumption == SlabBound \in Nat

VARIABLES store,       \* the slab and the free list
          answer       \* what the last method returned: an id or a node

vars == <<store, answer>>

Init == store = EmptyStore /\ answer = [node |-> EmptyLeaf]

AllocNode(node) ==
    /\ store.free # <<>> \/ Len(store.slab) < SlabBound
    /\ store' = Alloc(store, node)
    /\ answer' = [id |-> AllocId(store)]

ReclaimNode(id) ==
    /\ store' = Reclaim(store, id)
    /\ answer' = [node |-> Fetch(store, id)]

GetNode(id) ==
    /\ answer' = [node |-> Fetch(store, id)]
    /\ UNCHANGED store

PutNode(id, node) ==
    /\ store' = Write(store, id, node)
    /\ answer' = [node |-> Fetch(store, id)]

Reset ==
    /\ store' = ResetStore
    /\ answer' = [id |-> AllocId(EmptyStore)]

Next == \/ \E node \in Content : AllocNode(node)
        \/ \E id \in Live(store) :
               \/ ReclaimNode(id)
               \/ GetNode(id)
               \/ \E node \in Content : PutNode(id, node)
        \/ Reset

Spec == Init /\ [][Next]_vars

-----------------------------------------------------------------------------

(* Types of the slab, the free list and the last answer.                    *)
TypeOK == /\ store \in StoreType
          /\ answer \in [node : AnyNode] \cup [id : NodeId]

(* A reclaimed id waits on the free list once and only while it has a slot, *)
(* and its slot holds no entries: whatever sequence of alloc, reclaim and   *)
(* reset led here, no id can be handed to two clients (store.rs:72-89).     *)
FreeListSound ==
    /\ StoreOK(store)
    /\ \A id \in Range(store.free) : Fetch(store, id) = EmptyLeaf

(* store.rs:30: "Store node and return a fresh id for it": alloc never      *)
(* returns an id that is in use.                                            *)
FreshId ==
    [][\A node \in Content : AllocNode(node) => answer'.id \notin Live(store)]_vars

Backend == INSTANCE NodeStore
             WITH nodes <- Arena(store), answer <- answer,
                  Id <- NodeId, Content <- Content, Blank <- EmptyLeaf

(* The slab with its free list keeps the promises of the trait: every id in *)
(* use resolves to the node last written through it, across reuse of slots. *)
ImplementsBackend == Backend!Spec
=============================================================================
