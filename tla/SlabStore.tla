----------------------------- MODULE SlabStore -----------------------------
(* InMemoryStore (src/src/store.rs) as operations on a store value: a slab  *)
(* of node slots and the stack of reclaimed ids. Id i of this module is     *)
(* NodeId(i - 1) of the code.                                               *)
EXTENDS TreeNode

CONSTANT IdSpace   \* how many ids a NodeId can tell apart (2^32: it is a u32)

ASSUME IdSpaceAssumption == IdSpace \in Nat \ {0}

NodeId == 1 .. IdSpace

AnyNode == NodeOf(NodeId)

EmptyStore == [slab |-> <<>>, free |-> <<>>]

(* Mutant: one below the index of the new slot.                             *)
AllocIdBelow(st) == IF st.free # <<>> THEN Last(st.free) ELSE Len(st.slab) % IdSpace

(* The id alloc hands out: the last one reclaimed, else the next slab       *)
(* index, which "as u32" wraps.                                             *)
AllocId(st) == IF st.free # <<>> THEN Last(st.free) ELSE (Len(st.slab) % IdSpace) + 1

(* Mutant: a reused id is not taken off the free list.                      *)
AllocKeepsFree(st, node) ==
    IF st.free # <<>>
    THEN [slab |-> [st.slab EXCEPT ![Last(st.free)] = node], free |-> st.free]
    ELSE [slab |-> Append(st.slab, node), free |-> st.free]

Alloc(st, node) ==
    IF st.free # <<>>
    THEN [slab |-> [st.slab EXCEPT ![Last(st.free)] = node], free |-> Front(st.free)]
    ELSE [slab |-> Append(st.slab, node), free |-> st.free]

(* Mutant: a reclaimed id is not put on the free list.                      *)
ReclaimForgets(st, id) ==
    [slab |-> [st.slab EXCEPT ![id] = EmptyLeaf], free |-> st.free]

Reclaim(st, id) ==
    [slab |-> [st.slab EXCEPT ![id] = EmptyLeaf], free |-> Append(st.free, id)]

Fetch(st, id) == st.slab[id]

Write(st, id, node) == [slab |-> [st.slab EXCEPT ![id] = node], free |-> st.free]

ResetStore == Alloc(EmptyStore, EmptyLeaf)

-----------------------------------------------------------------------------

(* The ids handed out and not reclaimed, and the nodes behind them.         *)
Live(st) == (1 .. Len(st.slab)) \ Range(st.free)

Arena(st) == [id \in Live(st) |-> st.slab[id]]

(* alloc has an id to give: one to reuse, or a slab index below the wrap.   *)
Room(st) == st.free # <<>> \/ Len(st.slab) < IdSpace

(* No id is on the free list twice, each has a slot, each slot has an id.   *)
StoreOK(st) == /\ IsInjective(st.free)
               /\ Range(st.free) \subseteq 1 .. Len(st.slab)
               /\ Len(st.slab) <= IdSpace

StoreType == [slab : Seq(AnyNode), free : Seq(NodeId)]
=============================================================================
