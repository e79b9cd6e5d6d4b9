------------------------ MODULE InMemoryStoreProofs ------------------------
(* The slab store keeps its free list sound and implements the NodeStore    *)
(* trait, for every set of nodes, as long as the slab stays within the ids. *)
EXTENDS InMemoryStore, StoreTreeProofs

Inv == TypeOK /\ FreeListSound

(* The invariant, from the empty slab through each operation.               *)
LEMMA InitInv == Init => Inv
<1> SUFFICES ASSUME Init PROVE Inv
  OBVIOUS
<1>1. /\ EmptyStore \in StoreType /\ StoreOK(EmptyStore) 
      /\ Range(EmptyStore.free) = {}
  BY IdSpaceAssumption DEF EmptyStore, StoreType, StoreOK, Range, IsInjective
<1>2. answer \in [node : AnyNode]
  BY EmptyLeafIsNode DEF Init
<1> QED
  BY <1>1, <1>2 DEF Init, Inv, TypeOK, FreeListSound

(* The empty slots stay empty when no slot of the free list is touched.     *)
LEMMA AllocStep ==
    ASSUME SlabBound <= IdSpace, Inv, NEW node \in Content, AllocNode(node)
    PROVE  /\ Inv'
           /\ answer' = [id |-> AllocId(store)]
           /\ AllocId(store) \in NodeId \ Live(store)
           /\ Arena(store)' = [j \in Live(store) \cup {AllocId(store)} |->
                                    IF j = AllocId(store) THEN node ELSE Arena(store)[j]]
<1>1. store \in StoreType /\ StoreOK(store) /\ node \in AnyNode
  BY ContentAssumption DEF Inv, TypeOK, FreeListSound
<1>2. Room(store) /\ Len(store.slab) \in Nat
  BY <1>1, IdSpaceAssumption, SlabBoundAssumption, LenProperties
     DEF AllocNode, Room, StoreType
<1>3. store' = Alloc(store, node) /\ answer' = [id |-> AllocId(store)]
  BY DEF AllocNode
<1>4. /\ AllocId(store) \in NodeId \ Live(store)
      /\ store' \in StoreType
      /\ StoreOK(store')
      /\ Live(store') = Live(store) \cup {AllocId(store)}
      /\ Fetch(store', AllocId(store)) = node
      /\ \A id \in Live(store) : Fetch(store', id) = Fetch(store, id)
  BY <1>1, <1>2, <1>3, AllocProperties
<1>5. TypeOK'
  BY <1>3, <1>4 DEF TypeOK
<1>6. \A id \in Range(store'.free) : Fetch(store', id) = EmptyLeaf
  <2>1. CASE store.free = <<>>
    BY <1>3, <2>1 DEF Alloc, Range
  <2>2. CASE store.free # <<>>
    <3>1. /\ Range(store.free) = Range(Front(store.free)) \cup {Last(store.free)}
          /\ Last(store.free) \notin Range(Front(store.free))
      BY <1>1, <2>2, PopProperties DEF StoreOK, StoreType
    <3>2. /\ store'.free = Front(store.free)
          /\ store'.slab = [store.slab EXCEPT ![Last(store.free)] = node]
      BY <1>3, <2>2 DEF Alloc
    <3>3. \A id \in Range(store'.free) :
             /\ id \in Range(store.free)
             /\ store'.slab[id] = store.slab[id]
      <4>1. store.slab \in Seq(AnyNode) /\ DOMAIN store.slab = 1 .. Len(store.slab)
        BY <1>1, LenProperties DEF StoreType
      <4>2. \A id \in Range(store.free) : id \in DOMAIN store.slab
        BY <1>1, <4>1 DEF StoreOK
      <4> QED
        BY <3>1, <3>2, <4>2
    <3> QED
      BY <3>3 DEF Inv, FreeListSound, Fetch
  <2> QED
    BY <2>1, <2>2
<1>7. Arena(store)' = [j \in Live(store) \cup {AllocId(store)} |->
                          IF j = AllocId(store) THEN node ELSE Arena(store)[j]]
  BY <1>4 DEF Arena, Fetch
<1> QED
  BY <1>3, <1>4, <1>5, <1>6, <1>7 DEF Inv, FreeListSound

LEMMA ReclaimStep ==
    ASSUME Inv, NEW id \in Live(store), ReclaimNode(id)
    PROVE  /\ Inv'
           /\ answer' = [node |-> Arena(store)[id]]
           /\ Arena(store)' = Restrict(Arena(store), DOMAIN Arena(store) \ {id})
<1>1. store \in StoreType /\ StoreOK(store)
  BY DEF Inv, TypeOK, FreeListSound
<1>2. store' = Reclaim(store, id) /\ answer' = [node |-> Fetch(store, id)]
  BY DEF ReclaimNode
<1>3. /\ store' \in StoreType
      /\ StoreOK(store')
      /\ Live(store') = Live(store) \ {id}
      /\ \A other \in Live(store) \ {id} : Fetch(store', other) = Fetch(store, other)
      /\ Fetch(store', id) = EmptyLeaf
  BY <1>1, <1>2, ReclaimProperties, EmptyLeafIsNode
<1>4. Fetch(store, id) \in AnyNode /\ id \in NodeId
  BY <1>1, LiveProperties
<1>5. TypeOK'
  BY <1>2, <1>3, <1>4 DEF TypeOK
<1>6. \A j \in Range(store'.free) : Fetch(store', j) = EmptyLeaf
  <2>1. /\ store.free \in Seq(NodeId)
        /\ store'.free = Append(store.free, id)
        /\ store'.slab = [store.slab EXCEPT ![id] = EmptyLeaf]
        /\ store.slab \in Seq(AnyNode)
    BY <1>1, <1>2 DEF StoreType, Reclaim
  <2>2. Range(store'.free) = Range(store.free) \cup {id}
    BY <1>4, <2>1, PushProperties
  <2>3. \A j \in Range(store.free) : store'.slab[j] = EmptyLeaf
    <3>1. \A j \in Range(store.free) : j \in DOMAIN store.slab /\ store.slab[j] = EmptyLeaf
      BY <1>1, <2>1, LenProperties DEF StoreOK, Inv, FreeListSound, Fetch
    <3> QED
      BY <2>1, <3>1
  <2> QED
    BY <1>3, <2>2, <2>3 DEF Fetch
<1>7. Arena(store)' = Restrict(Arena(store), DOMAIN Arena(store) \ {id})
  BY <1>3 DEF Arena, Fetch, Restrict
<1> QED
  BY <1>2, <1>3, <1>5, <1>6, <1>7 DEF Inv, FreeListSound, Arena, Fetch

LEMMA PutStep ==
    ASSUME Inv, NEW id \in Live(store), NEW node \in Content, PutNode(id, node)
    PROVE  /\ Inv'
           /\ answer' = [node |-> Arena(store)[id]]
           /\ Arena(store)' = [Arena(store) EXCEPT ![id] = node]
<1>1. store \in StoreType /\ StoreOK(store) /\ node \in AnyNode
  BY ContentAssumption DEF Inv, TypeOK, FreeListSound
<1>2. store' = Write(store, id, node) /\ answer' = [node |-> Fetch(store, id)]
  BY DEF PutNode
<1>3. /\ store' \in StoreType
      /\ StoreOK(store')
      /\ Live(store') = Live(store)
      /\ \A j \in Live(store) : Fetch(store', j) = IF j = id THEN node ELSE Fetch(store, j)
  BY <1>1, <1>2, WriteProperties
<1>4. Fetch(store, id) \in AnyNode /\ id \notin Range(store.free)
  BY <1>1, LiveProperties
<1>5. TypeOK'
  BY <1>2, <1>3, <1>4 DEF TypeOK
<1>6. \A j \in Range(store'.free) : Fetch(store', j) = EmptyLeaf
  <2>1. /\ store'.free = store.free
        /\ store'.slab = [store.slab EXCEPT ![id] = node]
    BY <1>2 DEF Write
  <2>2. \A j \in Range(store.free) :
           j \in DOMAIN store.slab /\ store.slab[j] = EmptyLeaf /\ j # id
    BY <1>1, <1>4, LenProperties DEF StoreType, StoreOK, Inv, FreeListSound, Fetch
  <2> QED
    BY <2>1, <2>2 DEF Fetch
<1>7. Arena(store)' = [Arena(store) EXCEPT ![id] = node]
  BY <1>3 DEF Arena, Fetch
<1> QED
  BY <1>2, <1>3, <1>5, <1>6, <1>7 DEF Inv, FreeListSound, Arena, Fetch

LEMMA GetStep ==
    ASSUME Inv, NEW id \in Live(store), GetNode(id)
    PROVE  /\ Inv'
           /\ answer' = [node |-> Arena(store)[id]]
           /\ Arena(store)' = Arena(store)
<1>1. store' = store /\ answer' = [node |-> Fetch(store, id)]
  BY DEF GetNode
<1>2. Fetch(store, id) \in AnyNode
  BY LiveProperties DEF Inv, TypeOK, FreeListSound
<1> QED
  BY <1>1, <1>2 DEF Inv, TypeOK, FreeListSound, Arena, Fetch

LEMMA ResetStep ==
    ASSUME Reset
    PROVE  /\ Inv'
           /\ answer' = [id |-> 1] /\ 1 \in NodeId
           /\ Arena(store)' = [j \in {1} |-> EmptyLeaf]
<1>1. store' = ResetStore /\ answer' = [id |-> 1] /\ 1 \in NodeId
  BY ResetProperties, EmptyLeafIsNode DEF Reset
<1>2. /\ store' \in StoreType /\ StoreOK(store')
      /\ Live(store') = {1} /\ Fetch(store', 1) = EmptyLeaf
      /\ store'.free = <<>>
  BY <1>1, ResetProperties, EmptyLeafIsNode
<1>3. \A j \in Range(store'.free) : Fetch(store', j) = EmptyLeaf
  BY <1>2 DEF Range
<1>4. Arena(store)' = [j \in {1} |-> EmptyLeaf]
  BY <1>2 DEF Arena, Fetch
<1> QED
  BY <1>1, <1>2, <1>3, <1>4 DEF Inv, TypeOK, FreeListSound

-----------------------------------------------------------------------------

LEMMA NextInv == ASSUME SlabBound <= IdSpace PROVE Inv /\ [Next]_vars => Inv'
<1> SUFFICES ASSUME Inv, [Next]_vars PROVE Inv'
  OBVIOUS
<1>1. CASE \E node \in Content : AllocNode(node)
  BY <1>1, AllocStep
<1>2. CASE \E id \in Live(store) : ReclaimNode(id)
  BY <1>2, ReclaimStep
<1>3. CASE \E id \in Live(store) : GetNode(id)
  BY <1>3, GetStep
<1>4. CASE \E id \in Live(store) : \E node \in Content : PutNode(id, node)
  BY <1>4, PutStep
<1>5. CASE Reset
  BY <1>5, ResetStep
<1>6. CASE UNCHANGED vars
  BY <1>6 DEF vars, Inv, TypeOK, FreeListSound
<1> QED
  BY <1>1, <1>2, <1>3, <1>4, <1>5, <1>6 DEF Next

(* The slab and the free list are well formed, and every answer is the id   *)
(* or the node asked for, after every operation (store.rs:60-105).          *)
THEOREM StoreTypeTheorem ==
    ASSUME SlabBound <= IdSpace
    PROVE  Spec => []TypeOK
<1>1. Inv => TypeOK
  BY DEF Inv
<1> QED
  BY InitInv, NextInv, <1>1, PTL DEF Spec

(* The free list is sound for every sequence of alloc, reclaim, get_mut and *)
(* reset, of any length and over any nodes (store.rs:72-105).               *)
THEOREM FreeListTheorem ==
    ASSUME SlabBound <= IdSpace
    PROVE  Spec => [](TypeOK /\ FreeListSound)
<1>1. Inv => TypeOK /\ FreeListSound
  BY DEF Inv
<1> QED
  BY InitInv, NextInv, <1>1, PTL DEF Spec

(* The slab store implements the trait: nothing a client can observe, ids   *)
(* and nodes, differs from a store with a fresh id for every alloc.         *)
THEOREM BackendTheorem ==
    ASSUME SlabBound <= IdSpace
    PROVE  Spec => ImplementsBackend
<1>1. Init => Backend!Init
  <2>1. Live(EmptyStore) = {}
    BY DEF Live, EmptyStore
  <2> QED
    BY <2>1 DEF Init, Backend!Init, Arena
<1>2. Inv /\ [Next]_vars => [Backend!Next]_(Backend!vars)
  <2> SUFFICES ASSUME Inv, [Next]_vars PROVE [Backend!Next]_(Backend!vars)
    OBVIOUS
  <2> USE DEF Backend!Next
  <2>0. DOMAIN Arena(store) = Live(store)
    BY DEF Arena
  <2>1. ASSUME NEW node \in Content, AllocNode(node)
        PROVE  Backend!AllocNode(node)
    BY <2>0, <2>1, AllocStep DEF Backend!AllocNode
  <2>2. ASSUME NEW id \in Live(store), ReclaimNode(id)
        PROVE  Backend!ReclaimNode(id)
    BY <2>2, ReclaimStep DEF Backend!ReclaimNode, Backend!Restrict, Restrict
  <2>3. ASSUME NEW id \in Live(store), GetNode(id)
        PROVE  Backend!GetNode(id)
    BY <2>3, GetStep DEF Backend!GetNode
  <2>4. ASSUME NEW id \in Live(store), NEW node \in Content, PutNode(id, node)
        PROVE  Backend!PutNode(id, node)
    BY <2>4, PutStep DEF Backend!PutNode
  <2>5. ASSUME Reset PROVE Backend!Reset
    BY <2>5, ResetStep DEF Backend!Reset
  <2>6. CASE UNCHANGED vars
    BY <2>6 DEF vars, Backend!vars, Arena
  <2> QED
    BY <2>0, <2>1, <2>2, <2>3, <2>4, <2>5, <2>6 DEF Next
<1> QED
  BY InitInv, NextInv, <1>1, <1>2, PTL DEF Spec, ImplementsBackend, Backend!Spec
=============================================================================
