---------------------------- MODULE UnwindProofs ----------------------------
(* For every order, key and value set, id space and number of panics:       *)
(* wherever the caller's Clone or Ord panics, the nodes left behind form a  *)
(* tree with all leaves at one depth and no node over-full, and so they do  *)
(* after every later call.                                                  *)
EXTENDS Unwind, TreeMapProofs

(* What every panic leaves: a tree below the root and no frames.            *)
LEMMA UnwoundKeeps ==
    ASSUME NEW lv, Inductive(lv), NEW st, Unwound(st), TreeOK(st, {root}, lv)
    PROVE  Inductive(lv)'
<1>1. Return(None, root) /\ store' = st /\ len' = len
  BY DEF Unwound, Return
<1>2. len' \in Int /\ TreeOK(store', {root}, lv)
  BY <1>1, CallFacts
<1> QED
  BY <1>1, <1>2, ReturnKeeps

(* Panics that leave the store as it is: a tree, for no split is pending.   *)
LEMMA NothingWritten ==
    ASSUME NEW lv, Inductive(lv), NoneFull(store), pc # "absorb", Unwound(store)
    PROVE  Inductive(lv)' /\ NoneFull(store')
<1>1. TreeOK(store, {root}, lv)
  BY CallFacts DEF Inductive
<1>2. store' = store
  BY DEF Unwound
<1> QED
  BY <1>1, <1>2, UnwoundKeeps

(* Panics after one leaf was cut short.                                     *)
LEMMA LeafCutShort ==
    ASSUME NEW lv, Inductive(lv), NoneFull(store), pc # "absorb",
           NEW id \in Live(store), IsLeaf(Node(id)),
           NEW node \in AnyNode, IsLeaf(node), ShapeOK(node), KeysLen(node) < Order,
           Unwound(Write(store, id, node))
    PROVE  Inductive(lv)' /\ NoneFull(store')
<1>1. TreeOK(store, {root}, lv) /\ store \in StoreType
  BY CallFacts DEF Inductive
<1>2. NodeKids(node) = {} /\ Kids(store, id) = {}
  BY DEF NodeKids, Kids, Node
<1>3. TreeOK(Write(store, id, node), {root} \ {}, lv)
  BY <1>1, <1>2, ReplaceNode DEF Node
<1>4. {root} \ {} = {root}
  OBVIOUS
<1>5. Inductive(lv)'
  BY <1>3, <1>4, UnwoundKeeps
<1>6. store' = Write(store, id, node)
  BY DEF Unwound
<1>7. /\ Live(store') = Live(store) /\ Untouched(store, store', {id})
      /\ KeyCount(store', id) = KeysLen(node)
  BY <1>1, <1>6, WriteUntouched
<1>8. NoneFull(store')
  BY <1>7, NoneFullKept
<1> QED
  BY <1>5, <1>8

(* Each panic that writes keeps the tree.                                   *)
LEMMA SplitPanicsKeeps ==
    ASSUME NEW lv, Inductive(lv), NoneFull(store), SplitPanics
    PROVE  Inductive(lv)' /\ NoneFull(store')
<1> DEFINE full == LeafWith(Node(cur), arg.key, arg.val)
           n == KeysLen(full)
           mid == n \div 2
           lower == Leaf(SubSeq(full.keys, 1, mid), SubSeq(full.vals, 1, mid))
           upper == Leaf(SubSeq(full.keys, mid + 1, n), SubSeq(full.vals, mid + 1, n))
<1>1. /\ pc = "descend" /\ arg.op = "insert" /\ IsLeaf(Node(cur))
      /\ KeysLen(Node(cur)) + 1 >= Order
      /\ Unwound(Write(store, cur, lower))
  BY DEF SplitPanics, Overflows, AtLeaf, LowerHalf
<1>2. /\ cur \in Live(store)
      /\ Node(cur) \in AnyNode /\ ShapeOK(Node(cur))
      /\ arg.key \in Key /\ arg.val \in Val
      /\ KeysLen(Node(cur)) \in Nat /\ KeysLen(Node(cur)) < Order
  BY <1>1, LeafFacts, CallFacts, StateFacts DEF NoneFull, KeyCount, Node
<1>3. /\ full \in AnyNode /\ IsLeaf(full) /\ ShapeOK(full)
      /\ n = KeysLen(Node(cur)) + 1
  BY <1>1, <1>2, LeafWithProperties DEF ShapeOK, AnyNode
<1> HIDE DEF full
<1>4. n = Order /\ n \in Nat /\ n >= 2
  BY <1>1, <1>2, <1>3, OrderAssumption
<1>5. mid \in 1 .. n - 1
  <2> HIDE DEF n
  <2> QED
    BY <1>4, HalfProperties
<1>6. n = KeysLen(full) /\ full.keys \in Seq(Key) /\ n = Len(full.keys)
  BY <1>3, NodeCases DEF AnyNode, KeysLen
<1> HIDE DEF n, mid
<1>7. lower \in AnyNode /\ IsLeaf(lower) /\ ShapeOK(lower)
  BY <1>3, <1>5, <1>6, CutLeaf DEF AnyNode
<1>8. KeysLen(lower) = mid
  <2>1. mid \in 0 .. n
    BY <1>4, <1>5
  <2>2. mid \in 0 .. Len(full.keys)
    BY <1>6, <2>1
  <2> QED
    BY <1>6, <2>2, HalvesProperties DEF KeysLen, Leaf
<1> HIDE DEF lower
<1>9. KeysLen(lower) < Order
  BY <1>4, <1>5, <1>8
<1> QED
  BY <1>1, <1>2, <1>7, <1>9, LeafCutShort

(* The nodes between which a leaf borrows.                                  *)
LEMMA BorrowFacts ==
    ASSUME NEW lv, Inductive(lv), NEW i, BorrowsFrom(i), i = ToLeft \/ i = ToRight
    PROVE  /\ pc = "rebalance" /\ path # <<>> /\ UnderFull
           /\ i \in 1 .. Len(Siblings) /\ i # Last(path).idx
           /\ KeysLen(Node(Siblings[i])) > Half
           /\ Siblings[i] \in Live(store)
           /\ Node(Siblings[i]) \in NodeOf(NodeId) /\ Node(cur) \in NodeOf(NodeId)
           /\ ShapeOK(Node(Siblings[i])) /\ ShapeOK(Node(cur))
           /\ IsLeaf(Node(Siblings[i])) <=> IsLeaf(Node(cur))
           /\ Half \in Nat /\ Half >= 1
<1>1. pc = "rebalance" /\ path # <<>> /\ UnderFull /\ CanLend(i)
  BY DEF BorrowsFrom
<1>2. /\ Last(path).idx \in 1 .. Len(Siblings) /\ Len(Siblings) \in Nat
      /\ Siblings[Last(path).idx] = cur
      /\ ToLeft = Last(path).idx - 1 /\ ToRight = Last(path).idx + 1
  BY <1>1, RepairFacts
<1>3. i # Last(path).idx
  BY <1>2
<1>4. Half \in Nat /\ Half >= 1 /\ MinKeys = Half
  BY HalfFacts
<1>5. i \in 1 .. Len(Siblings) /\ KeysLen(Node(Siblings[i])) > Half
  BY <1>1, <1>4 DEF CanLend
<1>6. /\ Siblings[i] \in Live(store)
      /\ Node(Siblings[i]) \in NodeOf(NodeId) /\ Node(cur) \in NodeOf(NodeId)
      /\ ShapeOK(Node(Siblings[i])) /\ ShapeOK(Node(cur))
      /\ IsLeaf(Node(Siblings[i])) <=> IsLeaf(Node(cur))
  BY <1>1, <1>2, <1>3, <1>5, SiblingFacts
<1> QED
  BY <1>1, <1>3, <1>4, <1>5, <1>6

LEMMA LeftBorrowPanicsKeeps ==
    ASSUME NEW lv, Inductive(lv), NoneFull(store), LeftBorrowPanics
    PROVE  Inductive(lv)' /\ NoneFull(store')
<1> DEFINE a == Siblings[ToLeft]
           l == Node(a)
           node == Leaf(Front(l.keys), Front(l.vals))
<1>1. /\ BorrowsFrom(ToLeft) /\ IsLeaf(Node(cur))
      /\ Unwound(Write(store, a, node))
  BY DEF LeftBorrowPanics
<1>2. /\ pc = "rebalance" /\ a \in Live(store)
      /\ l \in NodeOf(NodeId) /\ ShapeOK(l) /\ IsLeaf(l)
      /\ KeysLen(l) > Half /\ Half \in Nat
  BY <1>1, BorrowFacts
<1>3. KeysLen(l) < Order
  BY <1>2 DEF NoneFull, KeyCount, Node
<1> HIDE DEF l
<1>4. /\ l.keys \in Seq(Key) /\ l.vals \in Seq(Val) /\ Len(l.vals) = Len(l.keys)
      /\ KeysLen(l) = Len(l.keys) /\ Len(l.keys) \in Nat
  BY <1>2, LeafCases
<1>5. l.keys # <<>> /\ l.vals # <<>>
  BY <1>2, <1>4, EmptySeq
<1>6. /\ Front(l.keys) \in Seq(Key) /\ Len(Front(l.keys)) = Len(l.keys) - 1
      /\ Front(l.vals) \in Seq(Val) /\ Len(Front(l.vals)) = Len(l.vals) - 1
  BY <1>4, <1>5, PopProperties
<1>7. node \in AnyNode /\ IsLeaf(node) /\ ShapeOK(node)
  BY <1>4, <1>6, LeafShape DEF AnyNode
<1>8. KeysLen(node) < Order
  <2>1. KeysLen(node) = Len(Front(l.keys))
    BY DEF KeysLen, Leaf
  <2> HIDE DEF node
  <2> QED
    BY <1>3, <1>4, <1>6, <2>1, OrderAssumption
<1> HIDE DEF node, a
<1>9. IsLeaf(Node(a))
  BY <1>2 DEF l
<1> QED
  BY <1>1, <1>2, <1>7, <1>8, <1>9, LeafCutShort

LEMMA RightBorrowPanicsKeeps ==
    ASSUME NEW lv, Inductive(lv), NoneFull(store), RightBorrowPanics
    PROVE  Inductive(lv)' /\ NoneFull(store')
<1> DEFINE f == Last(path).id
           a == Siblings[ToRight]
           p == Node(f)
           r == Node(a)
           c == Node(cur)
           rn == Leaf(Tail(r.keys), Tail(r.vals))
           cn == Leaf(Append(c.keys, Head(r.keys)), Append(c.vals, Head(r.vals)))
           tops == {root}
           D == {a, cur, f}
<1>1. /\ BorrowsFrom(ToRight) /\ IsLeaf(c)
      /\ Unwound(Rewritten(a, rn, cn, p))
  BY DEF RightBorrowPanics
<1>2. /\ pc = "rebalance" /\ path # <<>> /\ UnderFull
      /\ ToRight \in 1 .. Len(Siblings) /\ ToRight # Last(path).idx
      /\ r \in NodeOf(NodeId) /\ c \in NodeOf(NodeId)
      /\ ShapeOK(r) /\ ShapeOK(c) /\ IsLeaf(r)
      /\ KeysLen(r) > Half /\ Half \in Nat /\ Half >= 1
  BY <1>1, BorrowFacts
<1>3. /\ a \in Live(store) /\ cur \in Live(store) /\ f \in Live(store)
      /\ a # cur /\ a # f /\ cur # f
      /\ ~IsLeaf(p) /\ p \in AnyNode /\ ShapeOK(p)
      /\ \A id \in Live(store) : KeyCount(store, id) \in Nat
      /\ Siblings[Last(path).idx] = cur
      /\ Last(path).idx \in 1 .. Len(Siblings)
  BY <1>2, RepairSizeFacts DEF Node
<1>4. /\ a \in Kids(store, f) /\ cur \in Kids(store, f)
      /\ NodeKids(r) = Kids(store, a) /\ NodeKids(c) = Kids(store, cur)
      /\ NodeKids(r) \cap NodeKids(c) = {}
  BY <1>2, <1>3, SiblingFacts
<1>5. TreeOK(store, tops, lv)
  BY <1>2, RepairFacts
<1>6. KeyCount(store, f) < Order /\ KeyCount(store, a) < Order
  BY <1>3 DEF NoneFull
<1>7. KeysLen(r) = KeyCount(store, a) /\ KeysLen(c) = KeyCount(store, cur)
  BY DEF KeyCount, Node
<1>8. Kids(store, f) = NodeKids(p)
  BY DEF Kids, Node
<1>9. store' = Write(Write(Write(store, a, rn), cur, cn), f, p)
  BY <1>1 DEF Unwound, Rewritten
<1> HIDE DEF f, a, p, r, c
<1>10. /\ r.keys \in Seq(Key) /\ r.vals \in Seq(Val) /\ Len(r.vals) = Len(r.keys)
       /\ KeysLen(r) = Len(r.keys) /\ Len(r.keys) \in Nat
       /\ c.keys \in Seq(Key) /\ c.vals \in Seq(Val) /\ Len(c.vals) = Len(c.keys)
       /\ KeysLen(c) = Len(c.keys) /\ Len(c.keys) \in Nat
       /\ NodeKids(r) = {} /\ NodeKids(c) = {}
  BY <1>1, <1>2, LeafCases
<1>11. r.keys # <<>> /\ r.vals # <<>>
  BY <1>2, <1>10, EmptySeq
<1>12. /\ Tail(r.keys) \in Seq(Key) /\ Len(Tail(r.keys)) = Len(r.keys) - 1
       /\ Tail(r.vals) \in Seq(Val) /\ Len(Tail(r.vals)) = Len(r.vals) - 1
       /\ Head(r.keys) \in Key /\ Head(r.vals) \in Val
  BY <1>10, <1>11, TailProperties
<1>13. /\ Append(c.keys, Head(r.keys)) \in Seq(Key)
       /\ Len(Append(c.keys, Head(r.keys))) = Len(c.keys) + 1
       /\ Append(c.vals, Head(r.vals)) \in Seq(Val)
       /\ Len(Append(c.vals, Head(r.vals))) = Len(c.vals) + 1
  BY <1>10, <1>12, PushProperties
<1>14. /\ rn \in AnyNode /\ IsLeaf(rn) /\ ShapeOK(rn) /\ NodeKids(rn) = {}
       /\ cn \in AnyNode /\ IsLeaf(cn) /\ ShapeOK(cn) /\ NodeKids(cn) = {}
  BY <1>10, <1>12, <1>13, LeafShape DEF AnyNode
<1>15. KeysLen(rn) = KeysLen(r) - 1 /\ KeysLen(cn) = KeysLen(c) + 1
  BY <1>10, <1>12, <1>13 DEF KeysLen, Leaf
<1> HIDE DEF rn, cn
<1>16. Exchanges(store, tops, lv, f, a, cur, rn, cn, p, store')
  BY <1>1, <1>2, <1>3, <1>4, <1>5, <1>8, <1>9, <1>10, <1>14
     DEF Exchanges, r, c, Node
<1> HIDE DEF tops
<1>17. /\ Live(store') = Live(store)
       /\ \A j \in Live(store) \ {a, cur, f} : Fetch(store', j) = Fetch(store, j)
       /\ TreeOK(store', tops, lv)
  BY <1>16, ExchangeNodes
<1>18. Inductive(lv)'
  <2>1. Return(None, root) /\ len' = len
    BY <1>1 DEF Unwound, Return
  <2>2. len' \in Int /\ TreeOK(store', {root}, lv)
    BY <1>17, <2>1, CallFacts DEF tops
  <2> QED
    BY <2>1, <2>2, ReturnKeeps
<1>19. Fetch(store', a) = rn /\ Fetch(store', cur) = cn /\ Fetch(store', f) = p
  <2>1. store \in StoreType
    BY CallFacts
  <2> DEFINE one == Write(store, a, rn)
             two == Write(one, cur, cn)
  <2>2. /\ one \in StoreType /\ Live(one) = Live(store) /\ Fetch(one, a) = rn
    BY <1>3, <1>14, <2>1, WriteProperties
  <2> HIDE DEF one
  <2>3. /\ two \in StoreType /\ Live(two) = Live(store)
        /\ Fetch(two, a) = rn /\ Fetch(two, cur) = cn
    BY <1>3, <1>14, <2>2, WriteProperties
  <2>4. store' = Write(two, f, p)
    BY <1>9 DEF one
  <2> HIDE DEF two
  <2> QED
    BY <1>3, <2>3, <2>4, WriteProperties
<1>20. /\ Untouched(store, store', D)
       /\ KeyCount(store', a) = KeysLen(rn) /\ KeyCount(store', cur) = KeysLen(cn)
       /\ KeyCount(store', f) = KeyCount(store, f)
  BY <1>17, <1>19 DEF Untouched, KeyCount, p, Node
<1>21. KeysLen(c) < Half
  BY <1>2, HalfFacts DEF UnderFull, c
<1>22. \A x \in D : KeyCount(store', x) < Order
  <2>1. KeysLen(r) \in Nat /\ KeysLen(c) \in Nat
    BY <1>10
  <2>2. KeysLen(rn) < Order
    BY <1>6, <1>7, <1>15, <2>1, OrderAssumption
  <2>3. KeysLen(cn) < Order
    BY <1>15, <1>21, <2>1, HalfFacts
  <2> QED
    BY <1>6, <1>20, <2>2, <2>3
<1>23. NoneFull(store')
  BY <1>20, <1>22, NoneFullKept
<1> QED
  BY <1>18, <1>23
-----------------------------------------------------------------------------
(* What survives.                                                           *)
Survives == Structure /\ NoneFull(store)

(* What the runs check of it.                                               *)
LEMMA SurvivesIsStructure ==
    ASSUME Survives
    PROVE  StructureSurvives
<1>1. PICK lv : Inductive(lv)
  BY DEF Survives, Structure
<1>2. NoLeakNoAlias /\ SameDepth /\ FramesHold
  BY <1>1, LinksAreSound, LevelsAreSound, FramesAreSound
<1>3. Aligned
  <2>1. \A id \in Live(store) : ShapeOK(Fetch(store, id))
    BY <1>1 DEF Inductive, TreeOK
  <2> QED
    BY <2>1 DEF Aligned, ShapeOK, Inner, Children, Node
<1>4. \A id \in Live(store) : KeysLen(Node(id)) < Order
  BY DEF Survives, NoneFull, KeyCount, Node
<1> QED
  BY <1>2, <1>3, <1>4 DEF StructureSurvives

(* Every step, a call's or a panic, keeps it,                               *)
LEMMA UnwindKeeps ==
    ASSUME NEW lv, Inductive(lv), NoneFull(store), [UnwindNext]_unwindVars
    PROVE  (\E newLv : Inductive(newLv)') /\ NoneFull(store')
<1>1. CASE GetCall \/ InsertCall \/ RemoveCall
  BY <1>1, CallKeeps, CallSizes
<1>2. CASE Step
  <2>1. [Next]_vars
    BY <1>2 DEF Next
  <2> QED
    BY <1>2, <2>1, NextKeeps, StepSizes
<1>3. CASE Unrepaired
  <2>1. pc = "rebalance" /\ path # <<>> /\ Ascend /\ UNCHANGED <<tree, pc, arg, split, ret>>
    BY <1>3 DEF Unrepaired
  <2>2. Inductive(lv)'
    BY <2>1, AscendKeeps
  <2>3. store' = store
    BY <2>1 DEF tree
  <2> QED
    BY <2>2, <2>3
<1>4. CASE Clear
  BY <1>4, ClearKeeps, ClearSizes
<1>5. CASE SearchPanics \/ InnerBorrowPanics
  <2>1. pc # "absorb" /\ Unwound(store)
    BY <1>5 DEF SearchPanics, InnerBorrowPanics, BorrowsFrom
  <2>2. Inductive(lv)' /\ NoneFull(store')
    BY <2>1, NothingWritten
  <2> QED
    BY <2>2
<1>6. CASE SplitPanics
  <2>1. Inductive(lv)' /\ NoneFull(store')
    BY <1>6, SplitPanicsKeeps
  <2> QED
    BY <2>1
<1>7. CASE LeftBorrowPanics
  <2>1. Inductive(lv)' /\ NoneFull(store')
    BY <1>7, LeftBorrowPanicsKeeps
  <2> QED
    BY <2>1
<1>8. CASE RightBorrowPanics
  <2>1. Inductive(lv)' /\ NoneFull(store')
    BY <1>8, RightBorrowPanicsKeeps
  <2> QED
    BY <2>1
<1>9. CASE UNCHANGED unwindVars
  <2>1. UNCHANGED vars
    BY <1>9 DEF unwindVars
  <2>2. store' = store
    BY <2>1 DEF vars
  <2> QED
    BY <2>1, <2>2, NextKeeps
<1> QED
  BY <1>1, <1>2, <1>3, <1>4, <1>5, <1>6, <1>7, <1>8, <1>9 DEF UnwindNext

(* so it always holds.                                                      *)
LEMMA SurvivesAlways == UnwindSpec => []Survives
<1>1. UnwindInit => Survives
  <2> SUFFICES ASSUME UnwindInit PROVE Survives
    OBVIOUS
  <2>1. Structure
    BY InitKeeps DEF UnwindInit, Structure
  <2>2. store = ResetStore
    BY DEF UnwindInit, Init
  <2> QED
    BY <2>1, <2>2, ResetSizes DEF Survives
<1>2. Survives /\ [UnwindNext]_unwindVars => Survives'
  BY UnwindKeeps DEF Survives, Structure, NoneFull
<1> QED
  BY <1>1, <1>2, PTL DEF UnwindSpec

(* Whatever the caller's Clone and Ord do, whenever and however often: no   *)
(* node is leaked, shared or over-full, all leaves are at one depth, and    *)
(* the frames of every later call hold (ops.rs:109-141, 319-357, 370-428).  *)
THEOREM UnwindTheorem == UnwindSpec => []StructureSurvives
<1>1. Survives => StructureSurvives
  BY SurvivesIsStructure
<1> QED
  BY <1>1, SurvivesAlways, PTL

(* Until a clone panics the lower bounds hold too.                          *)
Clean == /\ torn \in Nat
         /\ torn = 0 => Sized

(* Every step that damages nothing keeps the lower bounds,                  *)
LEMMA CleanKeeps ==
    ASSUME NEW lv, Inductive(lv), NoneFull(store), Clean, [UnwindNext]_unwindVars
    PROVE  Clean'
<1>1. CASE (GetCall \/ InsertCall \/ RemoveCall) /\ UNCHANGED torn
  BY <1>1, CallSizes DEF Clean
<1>2. CASE Step /\ UNCHANGED torn
  BY <1>2, StepSizes DEF Clean
<1>3. CASE Unrepaired /\ UNCHANGED torn
  <2>1. pc = "rebalance" /\ path # <<>> /\ Len(Siblings) = 1
    BY <1>3 DEF Unrepaired
  <2>2. ~Sized
    BY <2>1, SiblingExists
  <2> QED
    BY <1>3, <2>2 DEF Clean
<1>4. CASE Clear /\ torn' = 0
  BY <1>4, ClearSizes DEF Clean
<1>5. CASE SearchPanics
  <2>1. /\ store' = store /\ root' = root /\ split' = NoSplit
        /\ pc = "descend" /\ pc' = "idle" /\ torn' = torn
    BY <1>5 DEF SearchPanics, Unwound
  <2>2. split = NoSplit
    BY <2>1, CallFacts
  <2> QED
    BY <2>1, <2>2, SameSizes DEF Clean
<1>6. CASE Torn
  <2>1. torn' = torn + 1 /\ torn \in Nat
    BY <1>6 DEF Torn, Clean
  <2> QED
    BY <2>1 DEF Clean
<1>7. CASE UNCHANGED unwindVars
  <2>1. UNCHANGED <<store, root, pc, cur, torn>>
    BY <1>7 DEF unwindVars, vars
  <2> QED
    BY <2>1 DEF Clean, Sized, Owing
<1> QED
  BY <1>1, <1>2, <1>3, <1>4, <1>5, <1>6, <1>7
     DEF UnwindNext, SplitPanics, LeftBorrowPanics, RightBorrowPanics, InnerBorrowPanics

(* so they hold until one does.                                             *)
LEMMA CleanAlways == UnwindSpec => []Clean
<1>1. UnwindInit => Clean
  <2> SUFFICES ASSUME UnwindInit PROVE Clean
    OBVIOUS
  <2>1. store = ResetStore /\ root = AllocId(EmptyStore) /\ pc = "idle" /\ torn = 0
    BY DEF UnwindInit, Init
  <2> QED
    BY <2>1, ResetSizes DEF Clean, Sized, Owing
<1>2. Survives /\ Clean /\ [UnwindNext]_unwindVars => Clean'
  BY CleanKeeps DEF Survives, Structure
<1> QED
  BY <1>1, <1>2, SurvivesAlways, PTL DEF UnwindSpec

-----------------------------------------------------------------------------
(* The order of the keys. Only a borrow from the right that is cut short    *)
(* leaves an entry outside the range of its leaf.                           *)

(* A shorter list stays in its range.                                       *)
LEMMA FirstKeysPlaced ==
    ASSUME NEW keys \in Seq(Key), NEW l \in SUBSET Key, NEW h \in SUBSET Key,
           KeysPlaced(keys, l, h), NEW m \in Nat, m <= Len(keys)
    PROVE  KeysPlaced(SubSeq(keys, 1, m), l, h)
<1>1. Ascending(keys) /\ \A j \in 1 .. Len(keys) : InRange(keys[j], l, h)
  BY DEF KeysPlaced
<1>2. \A j \in 1 .. m : InRange(keys[j], l, h)
  BY <1>1, LenProperties
<1>3. 1 \in Nat /\ 1 <= 1 /\ 1 <= m + 1
  OBVIOUS
<1> QED
  BY <1>1, <1>2, <1>3, CutPlaced

(* A leaf cut short by a split keeps its first keys,                        *)
LEMMA SplitPanicsOrdered ==
    ASSUME NEW lv, Inductive(lv), NEW lo, NEW hi, NEW out, Ordered(lo, hi, out), SplitPanics
    PROVE  Ordered(lo, hi, hi)'
<1> DEFINE full == LeafWith(Node(cur), arg.key, arg.val)
           n == KeysLen(full)
           mid == n \div 2
           lower == Leaf(SubSeq(full.keys, 1, mid), SubSeq(full.vals, 1, mid))
<1>1. /\ pc = "descend" /\ arg.op = "insert" /\ IsLeaf(Node(cur)) /\ ~HasKey
      /\ KeysLen(Node(cur)) + 1 >= Order
      /\ store' = Write(store, cur, lower) /\ root' = root /\ pc' = "idle"
  BY DEF SplitPanics, Overflows, AtLeaf, LowerHalf, Unwound
<1>2. /\ cur \in Live(store) /\ arg.val \in Val
      /\ Node(cur) \in AnyNode /\ ShapeOK(Node(cur))
      /\ lo[cur] \in SUBSET Key /\ hi[cur] \in SUBSET Key
      /\ KeysPlaced(Node(cur).keys, lo[cur], hi[cur])
      /\ arg.key \in Key /\ InRange(arg.key, lo[cur], hi[cur])
  BY <1>1, LeafBounds, LeafFacts
<1>3. KeysPlaced(full.keys, lo[cur], hi[cur])
  BY <1>1, <1>2, LeafWithPlaced DEF HasKey
<1>4. /\ full \in AnyNode /\ IsLeaf(full) /\ ShapeOK(full)
      /\ n = KeysLen(Node(cur)) + 1
  BY <1>1, <1>2, LeafWithProperties DEF ShapeOK, AnyNode
<1>5. n \in Nat /\ n >= 2
  BY <1>1, <1>2, <1>4, NodeCases, OrderAssumption DEF AnyNode
<1> HIDE DEF full
<1>6. mid \in 1 .. n - 1
  <2> HIDE DEF n
  <2> QED
    BY <1>5, HalfProperties
<1>7. n = KeysLen(full) /\ full.keys \in Seq(Key) /\ n = Len(full.keys)
  BY <1>4, NodeCases DEF AnyNode, KeysLen
<1> HIDE DEF n, mid
<1>8. lower \in AnyNode /\ IsLeaf(lower)
  BY <1>4, <1>6, <1>7, CutLeaf DEF AnyNode
<1>9. lower.keys = SubSeq(full.keys, 1, mid)
  BY DEF Leaf
<1>10. KeysPlaced(SubSeq(full.keys, 1, mid), lo[cur], hi[cur])
  <2>1. mid \in Nat /\ mid <= Len(full.keys)
    BY <1>5, <1>6, <1>7
  <2> QED
    BY <1>2, <1>3, <1>7, <2>1, FirstKeysPlaced
<1> HIDE DEF lower
<1>11. pc # "absorb" /\ pc' \in {"idle", "rebalance"}
  BY <1>1
<1> QED
  BY <1>1, <1>2, <1>8, <1>9, <1>10, <1>11, LeafRewritten

(* one cut short by a borrow from the left all but its last.                *)
LEMMA LeftBorrowPanicsOrdered ==
    ASSUME NEW lv, Inductive(lv), NEW lo, NEW hi, NEW out, Ordered(lo, hi, out), LeftBorrowPanics
    PROVE  Ordered(lo, hi, hi)'
<1> DEFINE a == Siblings[ToLeft]
           l == Node(a)
           node == Leaf(Front(l.keys), Front(l.vals))
<1>1. /\ BorrowsFrom(ToLeft) /\ IsLeaf(Node(cur))
      /\ store' = Write(store, a, node) /\ root' = root /\ pc' = "idle"
  BY DEF LeftBorrowPanics, Unwound
<1>2. /\ pc = "rebalance" /\ a \in Live(store)
      /\ l \in NodeOf(NodeId) /\ ShapeOK(l) /\ IsLeaf(l)
      /\ KeysLen(l) > Half /\ Half \in Nat
  BY <1>1, BorrowFacts
<1>3. /\ KeysPlaced(l.keys, lo[a], hi[a])
      /\ lo[a] \in SUBSET Key /\ hi[a] \in SUBSET Key
  BY <1>2 DEF Ordered, Placed, NodePlaced, Node
<1> HIDE DEF l
<1>4. /\ l.keys \in Seq(Key) /\ l.vals \in Seq(Val) /\ Len(l.vals) = Len(l.keys)
      /\ KeysLen(l) = Len(l.keys) /\ Len(l.keys) \in Nat
  BY <1>2, LeafCases
<1>5. l.keys # <<>> /\ l.vals # <<>>
  BY <1>2, <1>4
<1>6. /\ Front(l.keys) \in Seq(Key) /\ Front(l.vals) \in Seq(Val)
      /\ Len(l.keys) - 1 \in Nat /\ Len(l.keys) - 1 <= Len(l.keys)
  BY <1>4, <1>5, PopProperties
<1>7. Front(l.keys) = SubSeq(l.keys, 1, Len(l.keys) - 1)
  BY DEF Front
<1>8. KeysPlaced(Front(l.keys), lo[a], hi[a])
  BY <1>3, <1>4, <1>6, <1>7, FirstKeysPlaced
<1>9. node \in AnyNode /\ IsLeaf(node) /\ node.keys = Front(l.keys)
  BY <1>6, LeafIsNode DEF AnyNode
<1> HIDE DEF node, a
<1>10. pc # "absorb" /\ pc' \in {"idle", "rebalance"}
  BY <1>1, <1>2
<1> QED
  BY <1>1, <1>2, <1>8, <1>9, <1>10, LeafRewritten

(* Sorted, until a borrow from the right is cut short.                      *)
Straight == /\ astray \in BOOLEAN
            /\ ~astray => Sorted

(* Every step but a RightBorrowPanics keeps the order,                      *)
LEMMA UnwindOrdered ==
    ASSUME NEW lv, Inductive(lv), NEW lo, NEW hi, NEW out, Ordered(lo, hi, out),
           [UnwindNext]_unwindVars, ~RightBorrowPanics
    PROVE  \E newLo, newHi, newOut : Ordered(newLo, newHi, newOut)'
<1>1. CASE GetCall \/ InsertCall \/ RemoveCall \/ Step \/ Clear \/ UNCHANGED unwindVars
  <2>1. [Next]_vars
    BY <1>1 DEF Next, unwindVars
  <2> QED
    BY <2>1, OrderedNext
<1>2. CASE SearchPanics \/ InnerBorrowPanics \/ Unrepaired
  <2>1. /\ store' = store /\ root' = root /\ pc # "absorb" /\ pc' \in {"idle", "rebalance"}
    BY <1>2 DEF SearchPanics, InnerBorrowPanics, Unrepaired, BorrowsFrom, Unwound, tree
  <2>2. Ordered(lo, hi, hi)'
    BY <2>1, StillOrdered
  <2> QED
    BY <2>2
<1>3. CASE SplitPanics \/ LeftBorrowPanics
  <2>1. Ordered(lo, hi, hi)'
    BY <1>3, SplitPanicsOrdered, LeftBorrowPanicsOrdered
  <2> QED
    BY <2>1
<1> QED
  BY <1>1, <1>2, <1>3 DEF UnwindNext

(* and records whether it was one,                                          *)
LEMMA StraightStep ==
    ASSUME Survives, Straight, [UnwindNext]_unwindVars
    PROVE  Straight'
<1>1. \E newLv : Inductive(newLv)'
  BY UnwindKeeps DEF Survives, Structure
<1>2. CASE RightBorrowPanics
  BY <1>2 DEF RightBorrowPanics, Straight
<1>3. CASE Clear /\ astray' = FALSE
  <2>1. \E newLo, newHi, newOut : Ordered(newLo, newHi, newOut)'
    BY <1>3, ResetOrdered DEF Clear
  <2> QED
    BY <1>1, <1>3, <2>1 DEF Straight, Sorted
<1>4. CASE ~RightBorrowPanics /\ astray' = astray
  <2>1. ASSUME ~astray PROVE Sorted'
    <3>1. PICK lv, lo, hi, out : Inductive(lv) /\ Ordered(lo, hi, out)
      BY <2>1 DEF Straight, Sorted
    <3>2. \E newLo, newHi, newOut : Ordered(newLo, newHi, newOut)'
      BY <1>4, <3>1, UnwindOrdered
    <3> QED
      BY <1>1, <3>2 DEF Sorted
  <2> QED
    BY <1>4, <2>1 DEF Straight
<1>5. \/ RightBorrowPanics
      \/ Clear /\ astray' = FALSE
      \/ ~RightBorrowPanics /\ astray' = astray
  BY DEF UnwindNext, unwindVars, SearchPanics, SplitPanics, LeftBorrowPanics, InnerBorrowPanics
<1> QED
  BY <1>2, <1>3, <1>4, <1>5, Zenon

(* so the order holds until one happens.                                    *)
LEMMA StraightAlways == UnwindSpec => []Straight
<1>1. UnwindInit => Straight
  BY InitSorted DEF UnwindInit, Straight
<1>2. Survives /\ Straight /\ [UnwindNext]_unwindVars => Straight'
  BY StraightStep
<1> QED
  BY <1>1, <1>2, SurvivesAlways, PTL DEF UnwindSpec

(* Every entry is found where the separators send its key, through nodes    *)
(* cut short and calls cut off, as long as no borrow from the right was cut *)
(* short (node.rs:38-40, ops.rs:386).                                       *)
THEOREM RoutingSurvivesTheorem == UnwindSpec => []RoutingSurvives
<1>1. Straight => RoutingSurvives
  BY OrderedIsRouting DEF Straight, Sorted, RoutingSurvives
<1> QED
  BY <1>1, StraightAlways, PTL

-----------------------------------------------------------------------------
(* Until a clone panics the map and its count are right.                    *)
CleanMap == torn = 0 => ~astray /\ MapHeld

CleanCount == torn = 0 => ~astray /\ Counted

(* Nothing is uncounted until a write is cut short.                         *)
LEMMA CleanCountStep ==
    ASSUME Clean, Straight, CleanMap, CleanMap', CleanCount, [UnwindNext]_unwindVars
    PROVE  CleanCount'
<1>1. CASE Clear /\ torn' = 0 /\ astray' = FALSE
  BY <1>1, ClearCounted DEF CleanMap, CleanCount
<1>2. CASE Torn
  <2>1. torn' = torn + 1 /\ torn \in Nat
    BY <1>2 DEF Torn, Clean
  <2> QED
    BY <2>1 DEF CleanCount
<1>3. CASE torn' = torn /\ astray' = astray /\ torn # 0
  BY <1>3 DEF CleanCount
<1>4. CASE torn' = torn /\ astray' = astray /\ torn = 0 /\ [Next]_vars
  BY <1>4, CountedStep DEF CleanMap, CleanCount, Straight
<1>5. CASE SearchPanics /\ torn = 0
  <2>1. /\ store' = store /\ len' = len /\ pc = "descend" /\ pc' = "idle"
        /\ torn' = torn /\ astray' = astray
    BY <1>5 DEF SearchPanics, Unwound
  <2>2. ~astray /\ MapHeld /\ MapHeld' /\ Counted
    BY <1>5, <2>1 DEF CleanMap, CleanCount
  <2>3. Contents' = Contents
    BY <2>1, <2>2, PairsStay DEF Stays
  <2>4. \A m : Contents' = m /\ Counts(m, len' + Behind') /\ len' \in Nat /\ pc' # "absorb"
               => Counted'
    BY DEF Counted
  <2>5. Counts(Contents, len + Behind) /\ len \in Nat
    BY <2>2 DEF Counted
  <2> HIDE DEF Contents
  <2>6. len' + Behind' = len + Behind /\ len' = len /\ pc' # "absorb"
    BY <2>1 DEF Behind
  <2>7. Counted'
    BY <2>3, <2>4, <2>5, <2>6
  <2> QED
    BY <2>1, <2>2, <2>7 DEF CleanCount
<1>6. CASE Unrepaired /\ torn = 0
  <2>1. PICK lv, lo, hi, out : Inductive(lv) /\ Ordered(lo, hi, out)
    BY <1>6 DEF CleanMap, Straight, Sorted
  <2>2. Sized
    BY <1>6 DEF Clean
  <2>3. pc = "rebalance" /\ path # <<>> /\ Len(Siblings) = 1
    BY <1>6 DEF Unrepaired
  <2>4. FALSE
    BY <2>1, <2>2, <2>3, SiblingExists
  <2> QED
    BY <2>4
<1>7. \/ Clear /\ torn' = 0 /\ astray' = FALSE
      \/ Torn
      \/ torn' = torn /\ astray' = astray /\ ([Next]_vars \/ SearchPanics \/ Unrepaired)
  BY DEF UnwindNext, unwindVars, Next, SearchPanics, SplitPanics, LeftBorrowPanics,
         RightBorrowPanics, InnerBorrowPanics
<1> QED
  BY <1>1, <1>2, <1>3, <1>4, <1>5, <1>6, <1>7

(* The leaves hold the map until a write is cut short.                      *)
LEMMA CleanMapAlways == UnwindSpec => [](Straight /\ (torn = 0 => ~astray) => CleanMap)
<1>1. Straight /\ (torn = 0 => ~astray) => CleanMap
  BY ContentsArePairs DEF Straight, Sorted, CleanMap
<1> QED
  BY <1>1, PTL

(* A panic in a comparison leaves every node with enough keys, every entry  *)
(* where the separators send its key and the count right, whichever call it *)
(* cuts short: every search comes before the first write (ops.rs:77-112,    *)
(* 223-233). And a clear makes good whatever a clone has broken             *)
(* (tree.rs:233-236).                                                       *)
THEOREM CleanTreeTheorem == UnwindSpec => []CleanTree
<1> DEFINE Unbent == torn = 0 => ~astray
<1>1. UnwindInit => Unbent
  BY DEF UnwindInit
<1>2. Clean /\ Unbent /\ [UnwindNext]_unwindVars => Unbent'
  BY DEF Clean, UnwindNext, unwindVars, Torn, SearchPanics, SplitPanics, LeftBorrowPanics,
         RightBorrowPanics, InnerBorrowPanics
<1>3. UnwindInit /\ CleanMap => CleanCount
  BY InitCounted DEF UnwindInit, CleanMap, CleanCount
<1>4. Clean /\ Straight /\ CleanMap /\ CleanMap' /\ CleanCount /\ [UnwindNext]_unwindVars
      => CleanCount'
  BY CleanCountStep
<1>5. Survives /\ Clean /\ Straight /\ CleanMap /\ CleanCount => CleanTree
  <2> SUFFICES ASSUME Survives, Clean, Straight, CleanMap, CleanCount, torn = 0
               PROVE  Occupancy /\ Routing /\ LenExact
    BY DEF CleanTree
  <2>1. Filled
    BY DEF Survives, Clean, Filled
  <2>2. Sorted /\ MapHeld /\ Counted
    BY DEF Straight, CleanMap, CleanCount
  <2>3. Routing
    BY <2>2, OrderedIsRouting DEF Sorted
  <2> QED
    BY <2>1, <2>2, <2>3, FilledIsOccupancy, CountedIsExact
<1> QED
  BY <1>1, <1>2, <1>3, <1>4, <1>5, SurvivesAlways, CleanAlways, StraightAlways, CleanMapAlways,
     PTL DEF UnwindSpec

-----------------------------------------------------------------------------
(* How many entries are stored. A borrow that was cut short can leave a key *)
(* in two leaves, so they are counted by leaf and index.                    *)
LeafIds(st) == {x \in Live(st) : IsLeaf(Fetch(st, x))}

RowsIn(S, st) == {e \in S \X (1 .. Order) : e[2] <= KeyCount(st, e[1])}

StoredIn(st) == Cardinality(RowsIn(LeafIds(st), st))

(* What a node counts for, and what an id does.                             *)
Weight(node) == IF IsLeaf(node) THEN KeysLen(node) ELSE 0

Held(st, x) == IF x \in LeafIds(st) THEN KeyCount(st, x) ELSE 0

Countable(st) == /\ IsFiniteSet(Live(st))
                 /\ \A x \in Live(st) : KeyCount(st, x) \in 0 .. Order

(* A tree with no node over-full can be counted.                            *)
LEMMA TreeCountable ==
    ASSUME NEW lv, Inductive(lv), NoneFull(store)
    PROVE  Countable(store)
<1>1. store \in StoreType /\ \A x \in Live(store) : KeyCount(store, x) \in Nat
  BY StateFacts
<1>2. IsFiniteSet(Live(store))
  BY LiveFinite
<1>3. \A x \in Live(store) : KeyCount(store, x) \in 0 .. Order
  BY <1>1, OrderAssumption DEF NoneFull
<1> QED
  BY <1>2, <1>3 DEF Countable

(* One leaf has a row for each of its keys.                                 *)
LEMMA RowsOfOne ==
    ASSUME NEW st, NEW x, KeyCount(st, x) \in 0 .. Order
    PROVE  LET R == RowsIn({x}, st)
           IN  IsFiniteSet(R) /\ Cardinality(R) = KeyCount(st, x)
<1> DEFINE k == KeyCount(st, x)
           R == RowsIn({x}, st)
           I == 1 .. k
           row == [i \in I |-> <<x, i>>]
<1>1. k \in 0 .. Order /\ Order \in Nat
  BY OrderAssumption
<1>2. \A e : e \in R <=> \E i \in I : e = <<x, i>>
  BY <1>1 DEF RowsIn
<1> HIDE DEF R, k
<1>3. IsFiniteSet(I) /\ Cardinality(I) = k
  <2>1. k \in Int /\ 1 \in Int /\ k >= 0
    BY <1>1
  <2>2. IsFiniteSet(I) /\ Cardinality(I) = IF 1 > k THEN 0 ELSE k - 1 + 1
    BY <2>1, FS_Interval
  <2> QED
    BY <2>1, <2>2
<1>4. row \in Bijection(I, R)
  <2>1. row \in [I -> R]
    BY <1>2
  <2>2. \A i, j \in I : row[i] = row[j] => i = j
    OBVIOUS
  <2>3. \A e \in R : \E i \in I : row[i] = e
    BY <1>2
  <2> QED
    BY <2>1, <2>2, <2>3 DEF Bijection, Injection, Surjection, IsInjective
<1> HIDE DEF I, row
<1>5. IsFiniteSet(R) /\ Cardinality(R) = Cardinality(I)
  BY <1>3, <1>4, FS_Bijection DEF ExistsBijection
<1> QED
  BY <1>3, <1>5 DEF R, k

(* Taking one leaf out of a set of leaves takes its rows out.               *)
LEMMA RowsButOne ==
    ASSUME NEW st, NEW S, IsFiniteSet(S), NEW x
    PROVE  /\ IsFiniteSet(RowsIn(S, st)) /\ Cardinality(RowsIn(S, st)) \in Nat
           /\ x \in S /\ KeyCount(st, x) \in 0 .. Order =>
                 Cardinality(RowsIn(S, st)) = Cardinality(RowsIn(S \ {x}, st)) + KeyCount(st, x)
<1>1. ASSUME NEW T, IsFiniteSet(T)
      PROVE  IsFiniteSet(RowsIn(T, st)) /\ Cardinality(RowsIn(T, st)) \in Nat
  <2>1. IsFiniteSet(1 .. Order)
    BY OrderAssumption, FS_Interval
  <2>2. IsFiniteSet(T \X (1 .. Order))
    BY <1>1, <2>1, FS_Product
  <2>3. RowsIn(T, st) \subseteq T \X (1 .. Order)
    BY DEF RowsIn
  <2>4. IsFiniteSet(RowsIn(T, st))
    BY <2>2, <2>3, FS_Subset
  <2> QED
    BY <2>4, FS_CardinalityType
<1>2. ASSUME x \in S, KeyCount(st, x) \in 0 .. Order
      PROVE  Cardinality(RowsIn(S, st)) = Cardinality(RowsIn(S \ {x}, st)) + KeyCount(st, x)
  <2> DEFINE A == RowsIn(S, st)
             T == S \ {x}
             B == RowsIn(T, st)
             C == RowsIn({x}, st)
  <2>1. IsFiniteSet(T)
    BY FS_Difference
  <2>2. IsFiniteSet(B) /\ Cardinality(B) \in Nat
    <3> HIDE DEF T
    <3> QED
      BY <1>1, <2>1
  <2>3. IsFiniteSet(C) /\ Cardinality(C) = KeyCount(st, x)
    BY <1>2, RowsOfOne
  <2>4. A = B \cup C /\ B \cap C = {}
    BY <1>2 DEF RowsIn
  <2> HIDE DEF A, B, C
  <2>5. Cardinality(B \cup C) = Cardinality(B) + Cardinality(C) - Cardinality(B \cap C)
    BY <2>2, <2>3, FS_Union
  <2>6. Cardinality(B \cap C) = 0
    BY <2>4, FS_EmptySet
  <2> QED
    BY <1>2, <2>2, <2>3, <2>4, <2>5, <2>6 DEF A, B
<1> QED
  BY <1>1, <1>2

(* Two leaves taken out, or ids that are none.                              *)
LEMMA RowsButTwo ==
    ASSUME NEW st, Countable(st), NEW a, NEW b, a # b
    PROVE  LET R == RowsIn(LeafIds(st) \ {a, b}, st)
           IN  /\ Cardinality(R) \in Nat
               /\ Held(st, a) \in Nat /\ Held(st, b) \in Nat
               /\ StoredIn(st) = Cardinality(R) + Held(st, a) + Held(st, b)
<1> DEFINE S == LeafIds(st)
           T == S \ {a}
           U == T \ {b}
<1>1. IsFiniteSet(S) /\ \A x \in S : KeyCount(st, x) \in 0 .. Order
  <2>1. S \subseteq Live(st)
    BY DEF LeafIds
  <2>2. IsFiniteSet(Live(st)) /\ \A x \in Live(st) : KeyCount(st, x) \in 0 .. Order
    BY DEF Countable
  <2> QED
    BY <2>1, <2>2, FS_Subset
<1>2. Held(st, a) \in Nat /\ Held(st, b) \in Nat
  BY <1>1, OrderAssumption DEF Held
<1>3. b \in T <=> b \in S
  OBVIOUS
<1>4. U = S \ {a, b}
  OBVIOUS
<1> HIDE DEF S
<1>5. IsFiniteSet(T)
  BY <1>1, FS_Difference
<1>6. a \notin S => T = S
  OBVIOUS
<1>7. Cardinality(RowsIn(S, st)) = Cardinality(RowsIn(T, st)) + Held(st, a)
  <2>1. Cardinality(RowsIn(S, st)) \in Nat
    BY <1>1, RowsButOne
  <2>2. CASE a \in S
    <3>1. Held(st, a) = KeyCount(st, a) /\ KeyCount(st, a) \in 0 .. Order
      BY <1>1, <2>2 DEF Held, S
    <3> QED
      BY <1>1, <2>2, <3>1, RowsButOne
  <2>3. CASE a \notin S
    <3>1. Held(st, a) = 0 /\ T = S
      BY <1>6, <2>3 DEF Held, S
    <3> HIDE DEF T
    <3> QED
      BY <2>1, <3>1
  <2> QED
    BY <2>2, <2>3
<1> HIDE DEF T
<1>8. b \notin T => U = T
  OBVIOUS
<1>9. /\ Cardinality(RowsIn(T, st)) = Cardinality(RowsIn(U, st)) + Held(st, b)
      /\ Cardinality(RowsIn(U, st)) \in Nat
  <2>1. Cardinality(RowsIn(T, st)) \in Nat
    BY <1>5, RowsButOne
  <2>2. IsFiniteSet(U)
    BY <1>5, FS_Difference
  <2>3. Cardinality(RowsIn(U, st)) \in Nat
    <3> HIDE DEF U
    <3> QED
      BY <2>2, RowsButOne
  <2>4. CASE b \in T
    <3>1. Held(st, b) = KeyCount(st, b) /\ KeyCount(st, b) \in 0 .. Order
      BY <1>1, <1>3, <2>4 DEF Held, S
    <3> QED
      BY <1>5, <2>3, <2>4, <3>1, RowsButOne
  <2>5. CASE b \notin T
    <3>1. Held(st, b) = 0 /\ U = T
      BY <1>3, <1>8, <2>5 DEF Held, S
    <3> HIDE DEF U
    <3> QED
      BY <2>1, <3>1
  <2> QED
    BY <2>3, <2>4, <2>5
<1> HIDE DEF U
<1>10. StoredIn(st) = Cardinality(RowsIn(S, st))
  BY DEF StoredIn, S
<1>11. Cardinality(RowsIn(LeafIds(st) \ {a, b}, st)) = Cardinality(RowsIn(U, st))
  BY <1>4 DEF S
<1> QED
  BY <1>2, <1>7, <1>9, <1>10, <1>11

(* The leaves but a and b stay as they are.                                 *)
LeavesStay(st, new, a, b) ==
    \A x : x # a /\ x # b => /\ x \in LeafIds(st) <=> x \in LeafIds(new)
                             /\ x \in LeafIds(st) => KeyCount(st, x) = KeyCount(new, x)

(* So what the two hold makes the difference.                               *)
LEMMA TwoChanged ==
    ASSUME NEW st, NEW new, Countable(st), Countable(new),
           NEW a, NEW b, a # b, LeavesStay(st, new, a, b)
    PROVE  /\ StoredIn(st) \in Nat /\ StoredIn(new) \in Nat
           /\ StoredIn(new) + Held(st, a) + Held(st, b) = StoredIn(st) + Held(new, a) + Held(new, b)
<1> DEFINE R == RowsIn(LeafIds(st) \ {a, b}, st)
           Q == RowsIn(LeafIds(new) \ {a, b}, new)
<1>1. /\ Cardinality(R) \in Nat /\ Held(st, a) \in Nat /\ Held(st, b) \in Nat
      /\ StoredIn(st) = Cardinality(R) + Held(st, a) + Held(st, b)
  BY RowsButTwo
<1>2. /\ Cardinality(Q) \in Nat /\ Held(new, a) \in Nat /\ Held(new, b) \in Nat
      /\ StoredIn(new) = Cardinality(Q) + Held(new, a) + Held(new, b)
  BY RowsButTwo
<1>3. R = Q
  <2>1. \A x : x \in LeafIds(st) \ {a, b} <=> x \in LeafIds(new) \ {a, b}
    BY DEF LeavesStay
  <2>2. \A x \in LeafIds(st) \ {a, b} : KeyCount(st, x) = KeyCount(new, x)
    BY DEF LeavesStay
  <2> QED
    BY <2>1, <2>2 DEF RowsIn
<1> HIDE DEF R, Q
<1> QED
  BY <1>1, <1>2, <1>3

-----------------------------------------------------------------------------
(* What each change of the store makes of the count.                        *)
LEMMA HeldWeight ==
    ASSUME NEW st, NEW x
    PROVE  Held(st, x) = IF x \in Live(st) THEN Weight(Fetch(st, x)) ELSE 0
BY DEF Held, Weight, LeafIds, KeyCount

(* Only the ids in D change, and of these only a and b may be leaves.       *)
LEMMA OnlyTwo ==
    ASSUME NEW st, NEW new, NEW D, NEW a, NEW b,
           Untouched(st, new, D), Live(st) \ D \subseteq Live(new),
           \A x \in D \ {a, b} : x \notin LeafIds(st) /\ x \notin LeafIds(new)
    PROVE  LeavesStay(st, new, a, b)
<1> SUFFICES ASSUME NEW x, x # a, x # b
             PROVE  /\ x \in LeafIds(st) <=> x \in LeafIds(new)
                    /\ x \in LeafIds(st) => KeyCount(st, x) = KeyCount(new, x)
  BY DEF LeavesStay
<1>1. CASE x \in D
  BY <1>1
<1>2. CASE x \notin D
  BY <1>2 DEF Untouched, LeafIds, KeyCount
<1> QED
  BY <1>1, <1>2

(* A node written anew,                                                     *)
LEMMA WriteStored ==
    ASSUME NEW st \in StoreType, NEW id \in Live(st), NEW node \in AnyNode,
           NEW new, new = Write(st, id, node), Countable(st), Countable(new)
    PROVE  /\ StoredIn(st) \in Nat /\ StoredIn(new) \in Nat
           /\ StoredIn(new) + Weight(Fetch(st, id)) = StoredIn(st) + Weight(node)
<1> DEFINE D == {id}
<1>1. /\ Live(new) = Live(st) /\ Untouched(st, new, D) /\ Fetch(new, id) = node
  BY WriteUntouched
<1>2. 0 \notin Live(st) /\ id # 0
  <2>1. Len(st.slab) \in Nat
    BY LenProperties DEF StoreType
  <2> QED
    BY <2>1 DEF Live
<1>3. LeavesStay(st, new, id, 0)
  BY <1>1, OnlyTwo
<1> HIDE DEF D
<1>4. /\ StoredIn(st) \in Nat /\ StoredIn(new) \in Nat
      /\ StoredIn(new) + Held(st, id) + Held(st, 0) = StoredIn(st) + Held(new, id) + Held(new, 0)
  BY <1>2, <1>3, TwoChanged
<1>5. /\ Held(st, id) = Weight(Fetch(st, id)) /\ Held(new, id) = Weight(node)
      /\ Held(st, 0) = 0 /\ Held(new, 0) = 0
  BY <1>1, <1>2, HeldWeight
<1>6. Held(st, id) \in Nat /\ Held(new, id) \in Nat
  BY <1>2, RowsButTwo
<1> QED
  BY <1>4, <1>5, <1>6

(* a node split,                                                            *)
LEMMA SplitStored ==
    ASSUME NEW st \in StoreType, StoreOK(st), Room(st), NEW id \in Live(st),
           NEW lower \in AnyNode, NEW upper \in AnyNode,
           NEW new, new = Alloc(Write(st, id, lower), upper), Countable(st), Countable(new)
    PROVE  /\ StoredIn(st) \in Nat /\ StoredIn(new) \in Nat
           /\ StoredIn(new) + Weight(Fetch(st, id)) = StoredIn(st) + Weight(lower) + Weight(upper)
<1>1. PICK r : r = AllocId(st)
  OBVIOUS
<1> DEFINE D == {id, r}
<1>2. /\ r \notin Live(st) /\ r # id
      /\ Live(new) = Live(st) \cup {r}
      /\ Untouched(st, new, D)
      /\ Fetch(new, id) = lower /\ Fetch(new, r) = upper
  BY <1>1, SplitStore
<1>3. LeavesStay(st, new, id, r)
  BY <1>2, OnlyTwo
<1> HIDE DEF D
<1>4. /\ StoredIn(st) \in Nat /\ StoredIn(new) \in Nat
      /\ StoredIn(new) + Held(st, id) + Held(st, r) = StoredIn(st) + Held(new, id) + Held(new, r)
  BY <1>2, <1>3, TwoChanged
<1>5. /\ Held(st, id) = Weight(Fetch(st, id)) /\ Held(st, r) = 0
      /\ Held(new, id) = Weight(lower) /\ Held(new, r) = Weight(upper)
  BY <1>2, HeldWeight
<1>6. Held(st, id) \in Nat /\ Held(new, id) \in Nat /\ Held(new, r) \in Nat
  BY <1>2, RowsButTwo
<1> QED
  BY <1>4, <1>5, <1>6

(* two siblings and their parent written anew,                              *)
LEMMA RotationStored ==
    ASSUME NEW st, NEW a, NEW b, NEW f, NEW an, NEW bn, NEW pn, NEW new, NEW D,
           RotatesIn(st, a, b, f, an, bn, pn, new, D),
           ~IsLeaf(Fetch(st, f)), ~IsLeaf(pn), Countable(st), Countable(new),
           Weight(an) + Weight(bn) = Weight(Fetch(st, a)) + Weight(Fetch(st, b))
    PROVE  StoredIn(new) \in Nat /\ StoredIn(new) = StoredIn(st)
<1>1. /\ Live(new) = Live(st)
      /\ Untouched(st, new, D)
      /\ Fetch(new, a) = an /\ Fetch(new, b) = bn /\ Fetch(new, f) = pn
  BY RotatedStore
<1>2. a \in Live(st) /\ b \in Live(st) /\ f \in Live(st) /\ a # b /\ D = {a, b, f}
  BY DEF RotatesIn
<1>3. f \notin LeafIds(st) /\ f \notin LeafIds(new)
  BY <1>1 DEF LeafIds
<1>4. LeavesStay(st, new, a, b)
  BY <1>1, <1>2, <1>3, OnlyTwo
<1>5. /\ StoredIn(st) \in Nat /\ StoredIn(new) \in Nat
      /\ StoredIn(new) + Held(st, a) + Held(st, b) = StoredIn(st) + Held(new, a) + Held(new, b)
  BY <1>2, <1>4, TwoChanged
<1>6. /\ Held(st, a) = Weight(Fetch(st, a)) /\ Held(st, b) = Weight(Fetch(st, b))
      /\ Held(new, a) = Weight(an) /\ Held(new, b) = Weight(bn)
  BY <1>1, <1>2, HeldWeight
<1>7. Held(st, a) \in Nat /\ Held(st, b) \in Nat /\ Held(new, a) \in Nat /\ Held(new, b) \in Nat
  BY <1>2, RowsButTwo
<1> QED
  BY <1>5, <1>6, <1>7

(* and a node merged into its sibling.                                      *)
LEMMA MergedStored ==
    ASSUME NEW st, NEW a, NEW b, NEW f, NEW an, NEW pn, NEW new, NEW D,
           MergesInto(st, a, b, f, an, pn, new, D),
           ~IsLeaf(Fetch(st, f)), ~IsLeaf(pn), Countable(st), Countable(new),
           Weight(an) = Weight(Fetch(st, a)) + Weight(Fetch(st, b))
    PROVE  StoredIn(new) \in Nat /\ StoredIn(new) = StoredIn(st)
<1> DEFINE E == {a, b, f}
<1>1. /\ Live(new) = Live(st) \ {b}
      /\ Untouched(st, new, D)
      /\ Fetch(new, a) = an /\ Fetch(new, f) = pn
  BY MergedStore
<1>2. a \in Live(st) /\ b \in Live(st) /\ f \in Live(st) /\ a # b /\ D = {a, f}
  BY DEF MergesInto
<1>3. f \notin LeafIds(st) /\ f \notin LeafIds(new)
  BY <1>1 DEF LeafIds
<1>4. Untouched(st, new, E) /\ Live(st) \ E \subseteq Live(new)
  BY <1>1, <1>2 DEF Untouched
<1>5. LeavesStay(st, new, a, b)
  BY <1>3, <1>4, OnlyTwo
<1> HIDE DEF E
<1>6. /\ StoredIn(st) \in Nat /\ StoredIn(new) \in Nat
      /\ StoredIn(new) + Held(st, a) + Held(st, b) = StoredIn(st) + Held(new, a) + Held(new, b)
  BY <1>2, <1>5, TwoChanged
<1>7. /\ Held(st, a) = Weight(Fetch(st, a)) /\ Held(st, b) = Weight(Fetch(st, b))
      /\ Held(new, a) = Weight(an) /\ Held(new, b) = 0
  BY <1>1, <1>2, HeldWeight
<1>8. Held(st, a) \in Nat /\ Held(st, b) \in Nat /\ Held(new, a) \in Nat
  BY <1>2, RowsButTwo
<1> QED
  BY <1>6, <1>7, <1>8

(* An inner node added or given up changes nothing.                         *)
LEMMA InnerStored ==
    ASSUME NEW st, NEW new, NEW x, Untouched(st, new, {x}), Live(st) \ {x} \subseteq Live(new),
           x \notin LeafIds(st), x \notin LeafIds(new), Countable(st), Countable(new)
    PROVE  StoredIn(new) \in Nat /\ StoredIn(new) = StoredIn(st)
<1>1. \A w : w \in LeafIds(st) <=> w \in LeafIds(new)
  BY DEF Untouched, LeafIds
<1>2. \A w \in LeafIds(st) : KeyCount(st, w) = KeyCount(new, w)
  BY <1>1 DEF Untouched, LeafIds, KeyCount
<1>3. RowsIn(LeafIds(st), st) = RowsIn(LeafIds(new), new)
  BY <1>1, <1>2 DEF RowsIn
<1>4. IsFiniteSet(LeafIds(new))
  BY FS_Subset DEF Countable, LeafIds
<1> QED
  BY <1>3, <1>4, RowsButOne DEF StoredIn

-----------------------------------------------------------------------------
(* Lending moves an entry and merging all of them.                          *)
LEMMA LendLastWeight ==
    ASSUME NEW l \in NodeOf(NodeId), NEW c \in NodeOf(NodeId), NEW sep,
           NEW ln, NEW cn, LentLast(l, c, sep, ln, cn)
    PROVE  Weight(ln) + Weight(cn) = Weight(l) + Weight(c)
<1>1. CASE ~IsLeaf(c)
  <2>1. ~IsLeaf(ln) /\ ~IsLeaf(cn) /\ ~IsLeaf(l)
    BY <1>1 DEF LentLast, IsLeaf, Internal
  <2> QED
    BY <1>1, <2>1 DEF Weight
<1>2. CASE IsLeaf(c)
  <2>1. /\ IsLeaf(l) /\ ShapeOK(l) /\ ShapeOK(c) /\ KeysLen(l) > 0
        /\ ln = Leaf(Front(l.keys), Front(l.vals))
        /\ cn = Leaf(Cons(Last(l.keys), c.keys), Cons(Last(l.vals), c.vals))
    BY <1>2 DEF LentLast
  <2>2. /\ l.keys \in Seq(Key) /\ Len(l.keys) \in Nat /\ KeysLen(l) = Len(l.keys)
        /\ c.keys \in Seq(Key) /\ Len(c.keys) \in Nat /\ KeysLen(c) = Len(c.keys)
    BY <1>2, <2>1, LeafCases
  <2>3. Last(l.keys) \in Key /\ Len(Front(l.keys)) = Len(l.keys) - 1
    BY <2>1, <2>2, EmptySeq, PopProperties
  <2>4. Len(Cons(Last(l.keys), c.keys)) = Len(c.keys) + 1
    BY <2>2, <2>3, ConsProperties
  <2>5. Weight(ln) = Len(Front(l.keys)) /\ Weight(cn) = Len(Cons(Last(l.keys), c.keys))
    BY <2>1 DEF Weight, Leaf, IsLeaf, KeysLen
  <2>6. PICK x \in Nat : x = Len(l.keys)
    BY <2>2
  <2>7. PICK y \in Nat : y = Len(c.keys)
    BY <2>2
  <2>8. Weight(l) = x /\ Weight(c) = y
    BY <1>2, <2>1, <2>2, <2>6, <2>7 DEF Weight
  <2>9. Weight(ln) = x - 1 /\ Weight(cn) = y + 1
    BY <2>3, <2>4, <2>5, <2>6, <2>7
  <2> QED
    BY <2>8, <2>9
<1> QED
  BY <1>1, <1>2

LEMMA LendFirstWeight ==
    ASSUME NEW r \in NodeOf(NodeId), NEW c \in NodeOf(NodeId), NEW sep,
           NEW rn, NEW cn, LentFirst(r, c, sep, rn, cn)
    PROVE  Weight(rn) + Weight(cn) = Weight(r) + Weight(c)
<1>1. CASE ~IsLeaf(c)
  <2>1. ~IsLeaf(rn) /\ ~IsLeaf(cn) /\ ~IsLeaf(r)
    BY <1>1 DEF LentFirst, IsLeaf, Internal
  <2> QED
    BY <1>1, <2>1 DEF Weight
<1>2. CASE IsLeaf(c)
  <2>1. /\ IsLeaf(r) /\ ShapeOK(r) /\ ShapeOK(c) /\ KeysLen(r) > 1
        /\ rn = Leaf(Tail(r.keys), Tail(r.vals))
        /\ cn = Leaf(Append(c.keys, Head(r.keys)), Append(c.vals, Head(r.vals)))
    BY <1>2 DEF LentFirst
  <2>2. /\ r.keys \in Seq(Key) /\ Len(r.keys) \in Nat /\ KeysLen(r) = Len(r.keys)
        /\ c.keys \in Seq(Key) /\ Len(c.keys) \in Nat /\ KeysLen(c) = Len(c.keys)
    BY <1>2, <2>1, LeafCases
  <2>3. Head(r.keys) \in Key /\ Len(Tail(r.keys)) = Len(r.keys) - 1
    BY <2>1, <2>2, EmptySeq, TailProperties
  <2>4. Len(Append(c.keys, Head(r.keys))) = Len(c.keys) + 1
    BY <2>2, <2>3, PushProperties
  <2>5. Weight(rn) = Len(Tail(r.keys)) /\ Weight(cn) = Len(Append(c.keys, Head(r.keys)))
    BY <2>1 DEF Weight, Leaf, IsLeaf, KeysLen
  <2>6. PICK x \in Nat : x = Len(r.keys)
    BY <2>2
  <2>7. PICK y \in Nat : y = Len(c.keys)
    BY <2>2
  <2>8. Weight(r) = x /\ Weight(c) = y
    BY <1>2, <2>1, <2>2, <2>6, <2>7 DEF Weight
  <2>9. Weight(rn) = x - 1 /\ Weight(cn) = y + 1
    BY <2>3, <2>4, <2>5, <2>6, <2>7
  <2> QED
    BY <2>8, <2>9
<1> QED
  BY <1>1, <1>2

LEMMA MergeWeight ==
    ASSUME NEW l \in NodeOf(NodeId), NEW r \in NodeOf(NodeId),
           IsLeaf(l) <=> IsLeaf(r), NEW sep \in Key,
           NEW mn, mn = IF IsLeaf(l)
                        THEN Leaf(l.keys \o r.keys, l.vals \o r.vals)
                        ELSE Internal(Append(l.keys, sep) \o r.keys, l.children \o r.children)
    PROVE  Weight(mn) = Weight(l) + Weight(r)
<1>1. IsLeaf(mn) <=> IsLeaf(l)
  BY DEF IsLeaf, Leaf, Internal
<1>2. /\ KeysLen(l) \in Nat /\ KeysLen(r) \in Nat
      /\ KeysLen(mn) = KeysLen(l) + KeysLen(r) + (IF IsLeaf(l) THEN 0 ELSE 1)
  BY MergedSize
<1> QED
  BY <1>1, <1>2 DEF Weight

(* What a state and the next need to be compared.                           *)
BothCountable == Countable(store) /\ Countable(store')

Gains(d) == /\ StoredIn(store) \in Nat /\ StoredIn(store') \in Nat
            /\ StoredIn(store') = StoredIn(store) + d

LEMMA SameStored ==
    ASSUME BothCountable, store' = store
    PROVE  Gains(0)
<1>1. IsFiniteSet(LeafIds(store))
  BY FS_Subset DEF BothCountable, Countable, LeafIds
<1>2. StoredIn(store) \in Nat
  BY <1>1, RowsButOne DEF StoredIn
<1> QED
  BY <1>2 DEF Gains

(* A leaf rewritten by a call.                                              *)
LEMMA LeafStored ==
    ASSUME NEW lv, Inductive(lv), BothCountable, NEW id \in Live(store), IsLeaf(Fetch(store, id)),
           NEW node \in AnyNode, IsLeaf(node), NEW d \in Int,
           KeysLen(node) = KeyCount(store, id) + d, store' = Write(store, id, node)
    PROVE  Gains(d)
<1>1. store \in StoreType /\ KeyCount(store, id) \in Nat
  BY StateFacts
<1>2. PICK w, v : w = Weight(Fetch(store, id)) /\ v = Weight(node)
  OBVIOUS
<1>3. w = KeyCount(store, id) /\ v = w + d
  BY <1>2 DEF Weight, KeyCount
<1>4. /\ StoredIn(store) \in Nat /\ StoredIn(store') \in Nat
      /\ StoredIn(store') + w = StoredIn(store) + v
  BY <1>1, <1>2, WriteStored DEF BothCountable
<1>5. w \in Nat /\ v \in Int
  BY <1>1, <1>3
<1>6. StoredIn(store') = StoredIn(store) + d
  BY <1>3, <1>4, <1>5
<1> QED
  BY <1>4, <1>6 DEF Gains

LEMMA InsertReplaceStored ==
    ASSUME NEW lv, Inductive(lv), BothCountable, InsertReplace
    PROVE  Gains(0)
<1> DEFINE leaf == Node(cur)
           vals == ReplaceAt(leaf.vals, Position(leaf.keys, arg.key), arg.val)
           node == Leaf(leaf.keys, vals)
<1>1. /\ pc = "descend" /\ arg.op = "insert" /\ IsLeaf(leaf) /\ HasKey
      /\ store' = Write(store, cur, node)
  BY DEF InsertReplace, AtLeaf
<1>2. /\ leaf.keys \in Seq(Key) /\ leaf.vals \in Seq(Val) /\ arg.val \in Val
      /\ Position(leaf.keys, arg.key) \in 1 .. Len(leaf.vals)
      /\ cur \in Live(store)
  BY <1>1, LeafFacts
<1>3. vals \in Seq(Val)
  BY <1>2, ExceptSeq DEF ReplaceAt
<1> HIDE DEF vals
<1>4. node \in AnyNode /\ IsLeaf(node) /\ KeysLen(node) = KeyCount(store, cur)
  BY <1>2, <1>3, LeafIsNode DEF AnyNode, KeysLen, KeyCount, Node
<1> HIDE DEF node
<1>5. KeyCount(store, cur) \in Nat
  BY StateFacts
<1>6. KeysLen(node) = KeyCount(store, cur) + 0 /\ IsLeaf(Fetch(store, cur)) /\ 0 \in Int
  BY <1>1, <1>4, <1>5 DEF Node
<1> QED
  BY <1>1, <1>2, <1>4, <1>6, LeafStored

LEMMA InsertFitsStored ==
    ASSUME NEW lv, Inductive(lv), BothCountable, InsertFits
    PROVE  Gains(1)
<1> DEFINE node == LeafWith(Node(cur), arg.key, arg.val)
<1>1. /\ pc = "descend" /\ arg.op = "insert" /\ IsLeaf(Node(cur))
      /\ store' = Write(store, cur, node)
  BY DEF InsertFits, AtLeaf
<1>2. /\ Node(cur) \in AnyNode /\ ShapeOK(Node(cur)) /\ arg.key \in Key /\ arg.val \in Val
      /\ cur \in Live(store)
  BY <1>1, LeafFacts, CallFacts
<1>3. node \in AnyNode /\ IsLeaf(node) /\ KeysLen(node) = KeyCount(store, cur) + 1
  BY <1>1, <1>2, LeafWithProperties DEF ShapeOK, AnyNode, KeyCount, Node
<1> HIDE DEF node
<1>4. IsLeaf(Fetch(store, cur)) /\ 1 \in Int
  BY <1>1 DEF Node
<1> QED
  BY <1>1, <1>2, <1>3, <1>4, LeafStored

LEMMA RemoveEntryStored ==
    ASSUME NEW lv, Inductive(lv), BothCountable, RemoveEntry
    PROVE  Gains(-1)
<1> DEFINE node == LeafWithout(Node(cur), arg.key)
<1>1. /\ pc = "descend" /\ arg.op = "remove" /\ IsLeaf(Node(cur)) /\ HasKey
      /\ store' = Write(store, cur, node)
  BY DEF RemoveEntry, AtLeaf
<1>2. /\ Node(cur) \in AnyNode /\ ShapeOK(Node(cur)) /\ arg.key \in Key
      /\ KeyCount(store, cur) \in Nat /\ cur \in Live(store)
  BY <1>1, LeafFacts, CallFacts, StateFacts
<1>3. node \in AnyNode /\ IsLeaf(node) /\ KeysLen(node) = KeyCount(store, cur) - 1
  BY <1>1, <1>2, LeafWithoutProperties DEF ShapeOK, AnyNode, HasKey, KeyCount, Node
<1> HIDE DEF node
<1>4. PICK d \in Int : d = -1
  OBVIOUS
<1>5. IsLeaf(Fetch(store, cur)) /\ KeysLen(node) = KeyCount(store, cur) + d
  BY <1>1, <1>2, <1>3, <1>4 DEF Node
<1>6. Gains(d)
  BY <1>1, <1>2, <1>3, <1>5, LeafStored
<1> QED
  BY <1>4, <1>6

LEMMA InsertSplitStored ==
    ASSUME NEW lv, Inductive(lv), BothCountable, InsertSplit
    PROVE  Gains(1)
<1> DEFINE full == LeafWith(Node(cur), arg.key, arg.val)
           n == KeysLen(full)
           mid == n \div 2
           lower == Leaf(SubSeq(full.keys, 1, mid), SubSeq(full.vals, 1, mid))
           upper == Leaf(SubSeq(full.keys, mid + 1, n), SubSeq(full.vals, mid + 1, n))
<1>1. /\ pc = "descend" /\ arg.op = "insert" /\ IsLeaf(Node(cur))
      /\ KeysLen(Node(cur)) + 1 >= Order
      /\ Room(store)
      /\ store' = Alloc(Write(store, cur, lower), upper)
  BY DEF InsertSplit, AtLeaf
<1>2. /\ Node(cur) \in AnyNode /\ ShapeOK(Node(cur)) /\ cur \in Live(store)
      /\ arg.key \in Key /\ arg.val \in Val
      /\ KeysLen(Node(cur)) = KeyCount(store, cur) /\ KeyCount(store, cur) \in Nat
  BY <1>1, LeafFacts, CallFacts, StateFacts DEF KeyCount, Node
<1>3. /\ full \in AnyNode /\ IsLeaf(full) /\ ShapeOK(full)
      /\ n = KeysLen(Node(cur)) + 1
  BY <1>1, <1>2, LeafWithProperties DEF ShapeOK, AnyNode
<1>4. n \in Nat /\ n >= 2
  BY <1>1, <1>2, <1>3, OrderAssumption
<1> HIDE DEF full
<1>5. mid \in 1 .. n - 1
  <2> HIDE DEF n
  <2> QED
    BY <1>4, HalfProperties
<1>6. n = KeysLen(full) /\ full.keys \in Seq(Key) /\ n = Len(full.keys)
  BY <1>3, NodeCases DEF AnyNode, KeysLen
<1> HIDE DEF n, mid
<1>7. lower \in AnyNode /\ upper \in AnyNode /\ IsLeaf(lower) /\ IsLeaf(upper)
  BY <1>3, <1>5, <1>6, CutLeaf DEF AnyNode
<1>8. KeysLen(lower) = mid /\ KeysLen(upper) = n - mid
  <2>1. mid \in 0 .. Len(full.keys)
    BY <1>4, <1>5, <1>6
  <2> QED
    BY <1>6, <2>1, HalvesProperties DEF KeysLen, Leaf
<1> HIDE DEF lower, upper
<1>9. store \in StoreType /\ StoreOK(store)
  BY CallFacts
<1>10. PICK w, x, y : w = Weight(Fetch(store, cur)) /\ x = Weight(lower) /\ y = Weight(upper)
  OBVIOUS
<1>11. /\ StoredIn(store) \in Nat /\ StoredIn(store') \in Nat
       /\ StoredIn(store') + w = StoredIn(store) + x + y
  BY <1>1, <1>2, <1>7, <1>9, <1>10, SplitStored DEF BothCountable
<1>12. w = KeyCount(store, cur) /\ x = mid /\ y = n - mid
  BY <1>1, <1>7, <1>8, <1>10 DEF Weight, KeyCount, Node
<1>13. n = w + 1 /\ w \in Nat /\ mid \in Nat
  BY <1>2, <1>3, <1>4, <1>5, <1>12
<1>14. StoredIn(store') = StoredIn(store) + 1
  BY <1>4, <1>11, <1>12, <1>13
<1> QED
  BY <1>11, <1>14 DEF Gains

(* Inner nodes only: a parent takes a new child,                            *)
LEMMA AbsorbFitsStored ==
    ASSUME NEW lv, Inductive(lv), BothCountable, AbsorbFits
    PROVE  Gains(0)
<1>1. PICK f : f = Last(path).id
  OBVIOUS
<1>2. f \in Live(store) /\ ~IsLeaf(Fetch(store, f)) /\ Absorbed \in AnyNode /\ ~IsLeaf(Absorbed)
  BY <1>1, AbsorbFacts DEF AbsorbFits, Node
<1>3. store' = Write(store, f, Absorbed) /\ store \in StoreType
  BY <1>1, CallFacts DEF AbsorbFits
<1>4. /\ StoredIn(store) \in Nat /\ StoredIn(store') \in Nat
      /\ StoredIn(store') + Weight(Fetch(store, f)) = StoredIn(store) + Weight(Absorbed)
  BY <1>2, <1>3, WriteStored DEF BothCountable
<1>5. Weight(Fetch(store, f)) = 0 /\ Weight(Absorbed) = 0
  BY <1>2 DEF Weight
<1> QED
  BY <1>4, <1>5 DEF Gains

(* a parent splits,                                                         *)
LEMMA AbsorbSplitStored ==
    ASSUME NEW lv, Inductive(lv), BothCountable, AbsorbSplit
    PROVE  Gains(0)
<1> DEFINE f == Last(path).id
           full == Absorbed
           n == KeysLen(full)
           mid == n \div 2
           lower == Internal(SubSeq(full.keys, 1, mid),
                             SubSeq(full.children, 1, mid + 1))
           upper == Internal(SubSeq(full.keys, mid + 2, n),
                             SubSeq(full.children, mid + 2, n + 1))
<1>1. /\ pc = "absorb" /\ path # <<>> /\ n >= Order /\ Room(store)
      /\ store' = Alloc(Write(store, f, lower), upper)
  BY DEF AbsorbSplit, Ascend
<1>2. /\ f \in Live(store) /\ ~IsLeaf(Fetch(store, f))
      /\ full \in AnyNode /\ ShapeOK(full) /\ ~IsLeaf(full)
  BY <1>1, AbsorbFacts DEF Node
<1> HIDE DEF f, full
<1>3. n \in Nat /\ n >= 2
  BY <1>1, <1>2, NodeCases, OrderAssumption DEF AnyNode
<1>4. mid \in 1 .. n - 1
  <2> HIDE DEF n
  <2> QED
    BY <1>3, HalfProperties
<1>5. n = KeysLen(full)
  OBVIOUS
<1> HIDE DEF n, mid
<1>6. CutAround(full, n, mid, lower, upper)
  BY <1>2, <1>4, <1>5 DEF CutAround
<1> HIDE DEF lower, upper
<1>7. lower \in AnyNode /\ upper \in AnyNode /\ ~IsLeaf(lower) /\ ~IsLeaf(upper)
  BY <1>2, <1>6, CutInternal DEF AnyNode
<1>8. store \in StoreType /\ StoreOK(store)
  BY CallFacts
<1>9. /\ StoredIn(store) \in Nat /\ StoredIn(store') \in Nat
      /\ StoredIn(store') + Weight(Fetch(store, f))
            = StoredIn(store) + Weight(lower) + Weight(upper)
  BY <1>1, <1>2, <1>7, <1>8, SplitStored DEF BothCountable
<1>10. Weight(Fetch(store, f)) = 0 /\ Weight(lower) = 0 /\ Weight(upper) = 0
  BY <1>2, <1>7 DEF Weight
<1> QED
  BY <1>9, <1>10 DEF Gains

(* a root is put on top,                                                    *)
LEMMA GrowRootStored ==
    ASSUME NEW lv, Inductive(lv), BothCountable, GrowRoot
    PROVE  Gains(0)
<1> DEFINE node == Internal(<<split.sep>>, <<root, split.right>>)
<1>1. pc = "absorb" /\ Room(store) /\ store' = Alloc(store, node)
  BY DEF GrowRoot
<1>2. store \in StoreType /\ StoreOK(store)
  BY CallFacts
<1>3. node \in AnyNode /\ ~IsLeaf(node)
  <2>1. split.sep \in Key /\ split.right \in NodeId /\ root \in NodeId
    BY <1>1, CallFacts
  <2>2. <<split.sep>> \in Seq(Key) /\ <<root, split.right>> \in Seq(NodeId)
    BY <2>1
  <2> QED
    BY <2>2, InternalIsNode DEF AnyNode
<1> HIDE DEF node
<1>4. PICK r : r = AllocId(store)
  OBVIOUS
<1>5. /\ r \notin Live(store) /\ Live(store') = Live(store) \cup {r}
      /\ Fetch(store', r) = node
      /\ \A x \in Live(store) : Fetch(store', x) = Fetch(store, x)
  BY <1>1, <1>2, <1>3, <1>4, AllocProperties
<1>6. /\ Untouched(store, store', {r}) /\ Live(store) \ {r} \subseteq Live(store')
      /\ r \notin LeafIds(store) /\ r \notin LeafIds(store')
  BY <1>3, <1>5 DEF Untouched, LeafIds
<1>7. StoredIn(store') \in Nat /\ StoredIn(store') = StoredIn(store)
  BY <1>6, InnerStored DEF BothCountable
<1> QED
  BY <1>7 DEF Gains

(* or taken off.                                                            *)
LEMMA FinishRemoveStored ==
    ASSUME NEW lv, Inductive(lv), BothCountable, FinishRemove
    PROVE  Gains(0)
<1>1. CASE store' = store
  BY <1>1, SameStored
<1>2. CASE ~IsLeaf(Node(root)) /\ store' = Reclaim(store, root)
  <2>1. store \in StoreType /\ StoreOK(store) /\ root \in Live(store)
    BY CallFacts
  <2>2. /\ Live(store') = Live(store) \ {root}
        /\ \A x \in Live(store) \ {root} : Fetch(store', x) = Fetch(store, x)
    BY <1>2, <2>1, ReclaimProperties, EmptyLeafIsNode
  <2>3. /\ Untouched(store, store', {root}) /\ Live(store) \ {root} \subseteq Live(store')
        /\ root \notin LeafIds(store) /\ root \notin LeafIds(store')
    BY <1>2, <2>2 DEF Untouched, LeafIds, Node
  <2>4. StoredIn(store') \in Nat /\ StoredIn(store') = StoredIn(store)
    BY <2>3, InnerStored DEF BothCountable
  <2> QED
    BY <2>4 DEF Gains
<1> QED
  BY <1>1, <1>2 DEF FinishRemove

-----------------------------------------------------------------------------
(* The repair of an under-full node loses and copies nothing,               *)
LEMMA BorrowFromLeftStored ==
    ASSUME NEW lv, Inductive(lv), BothCountable,
           pc = "rebalance", path # <<>>, CanLend(ToLeft), store' = BorrowFromLeft
    PROVE  Gains(0)
<1> DEFINE f == Last(path).id
           p == Fetch(store, f)
           i == ToLeft
           a == Siblings[i]
           l == Node(a)
           c == Node(cur)
           sep == p.keys[i]
           k == Last(l.keys)
           ln == IF IsLeaf(c) THEN Leaf(Front(l.keys), Front(l.vals))
                              ELSE Internal(Front(l.keys), Front(l.children))
           cn == IF IsLeaf(c)
                 THEN Leaf(Cons(Last(l.keys), c.keys), Cons(Last(l.vals), c.vals))
                 ELSE Internal(Cons(sep, c.keys), Cons(Last(l.children), c.children))
           pn == NewSeparator(i, k)
           D == {a, cur, f}
<1>1. /\ Last(path).idx \in 1 .. Len(Siblings) /\ Siblings[Last(path).idx] = cur
      /\ i = Last(path).idx - 1 /\ Len(Siblings) = Len(p.keys) + 1 /\ Len(p.keys) \in Nat
      /\ MinKeys \in Nat /\ MinKeys >= 1
      /\ store \in StoreType /\ p \in NodeOf(NodeId) /\ ~IsLeaf(p) /\ ShapeOK(p)
  BY RepairFacts, CallFacts, HalfFacts
<1>2. /\ i \in 1 .. Len(Siblings) /\ i # Last(path).idx
      /\ i \in 1 .. Len(p.keys) /\ KeysLen(l) > MinKeys
  BY <1>1 DEF CanLend
<1>3. store' = Write(Write(Write(store, a, ln), cur, cn), f, pn)
  BY DEF BorrowFromLeft, Rewritten, Node
<1>4. /\ f \in Live(store) /\ a \in Live(store) /\ cur \in Live(store)
      /\ a # cur /\ a # f /\ cur # f
  BY <1>2, RepairSizeFacts
<1>5. pn = Internal(ReplaceAt(p.keys, i, k), p.children)
  BY DEF NewSeparator, Node
<1>6. /\ l \in NodeOf(NodeId) /\ c \in NodeOf(NodeId)
      /\ ShapeOK(l) /\ ShapeOK(c) /\ (IsLeaf(l) <=> IsLeaf(c))
      /\ NodeKids(l) \cap NodeKids(c) = {}
  BY <1>1, <1>2, SiblingFacts
<1>7. l = Fetch(store, a) /\ c = Fetch(store, cur)
  BY DEF Node
<1> HIDE DEF i, a, c, l, f, p
<1>8. sep \in Key
  BY <1>1, <1>2, NodeCases, ElementOfSeq
<1> HIDE DEF sep
<1>9. KeysLen(l) > 0
  <2>1. KeysLen(l) \in Nat
    BY <1>6, NodeCases
  <2> QED
    BY <1>1, <1>2, <2>1
<1>10. LentLast(l, c, sep, ln, cn)
  BY <1>6, <1>9 DEF LentLast
<1> HIDE DEF ln, cn
<1>11. /\ ln \in NodeOf(NodeId) /\ cn \in NodeOf(NodeId) /\ k \in Key
  BY <1>6, <1>8, <1>10, LendLast
<1>12. Weight(ln) + Weight(cn) = Weight(Fetch(store, a)) + Weight(Fetch(store, cur))
  BY <1>6, <1>7, <1>10, LendLastWeight
<1> HIDE DEF k
<1>13. pn \in AnyNode /\ ~IsLeaf(pn)
  BY <1>1, <1>2, <1>5, <1>11, ReplaceSeparator DEF AnyNode
<1> HIDE DEF pn
<1>14. RotatesIn(store, a, cur, f, ln, cn, pn, store', D)
  BY <1>1, <1>3, <1>4, <1>11, <1>13 DEF RotatesIn, AnyNode
<1>15. ~IsLeaf(Fetch(store, f))
  BY <1>1 DEF p
<1> HIDE DEF D
<1>16. StoredIn(store') \in Nat /\ StoredIn(store') = StoredIn(store)
  BY <1>12, <1>13, <1>14, <1>15, RotationStored DEF BothCountable
<1> QED
  BY <1>16 DEF Gains

LEMMA BorrowFromRightStored ==
    ASSUME NEW lv, Inductive(lv), BothCountable,
           pc = "rebalance", path # <<>>, CanLend(ToRight), store' = BorrowFromRight
    PROVE  Gains(0)
<1> DEFINE f == Last(path).id
           p == Fetch(store, f)
           i == Last(path).idx
           b == Siblings[i + 1]
           r == Node(b)
           c == Node(cur)
           sep == p.keys[i]
           k == IF IsLeaf(c) THEN Head(Tail(r.keys)) ELSE Head(r.keys)
           rn == IF IsLeaf(c) THEN Leaf(Tail(r.keys), Tail(r.vals))
                              ELSE Internal(Tail(r.keys), Tail(r.children))
           cn == IF IsLeaf(c)
                 THEN Leaf(Append(c.keys, Head(r.keys)), Append(c.vals, Head(r.vals)))
                 ELSE Internal(Append(c.keys, sep), Append(c.children, Head(r.children)))
           pn == NewSeparator(i, k)
           D == {b, cur, f}
<1>1. /\ i \in 1 .. Len(Siblings) /\ Siblings[i] = cur
      /\ ToRight = i + 1 /\ Len(Siblings) = Len(p.keys) + 1 /\ Len(p.keys) \in Nat
      /\ MinKeys \in Nat /\ MinKeys >= 1
      /\ store \in StoreType /\ p \in NodeOf(NodeId) /\ ~IsLeaf(p) /\ ShapeOK(p)
  BY RepairFacts, CallFacts, HalfFacts
<1>2. /\ i + 1 \in 1 .. Len(Siblings) /\ i + 1 # i
      /\ i \in 1 .. Len(p.keys) /\ KeysLen(r) > MinKeys
  BY <1>1 DEF CanLend
<1>3. store' = Write(Write(Write(store, b, rn), cur, cn), f, pn)
  BY <1>2 DEF BorrowFromRight, Rewritten, Node
<1>4. /\ f \in Live(store) /\ b \in Live(store) /\ cur \in Live(store)
      /\ b # cur /\ b # f /\ cur # f
  BY <1>2, RepairSizeFacts
<1>5. pn = Internal(ReplaceAt(p.keys, i, k), p.children)
  BY DEF NewSeparator, Node
<1>6. /\ r \in NodeOf(NodeId) /\ c \in NodeOf(NodeId)
      /\ ShapeOK(r) /\ ShapeOK(c) /\ (IsLeaf(r) <=> IsLeaf(c))
      /\ NodeKids(r) \cap NodeKids(c) = {}
  BY <1>1, <1>2, SiblingFacts
<1>7. r = Fetch(store, b) /\ c = Fetch(store, cur)
  BY DEF Node
<1> HIDE DEF i, b, c, r, f, p
<1>8. sep \in Key
  BY <1>1, <1>2, NodeCases, ElementOfSeq
<1> HIDE DEF sep
<1>9. KeysLen(r) > 1
  <2>1. KeysLen(r) \in Nat
    BY <1>6, NodeCases
  <2> QED
    BY <1>1, <1>2, <2>1
<1>10. LentFirst(r, c, sep, rn, cn)
  BY <1>6, <1>9 DEF LentFirst
<1> HIDE DEF rn, cn
<1>11. /\ rn \in NodeOf(NodeId) /\ cn \in NodeOf(NodeId) /\ k \in Key
  BY <1>6, <1>8, <1>10, LendFirst
<1>12. Weight(rn) + Weight(cn) = Weight(Fetch(store, b)) + Weight(Fetch(store, cur))
  BY <1>6, <1>7, <1>10, LendFirstWeight
<1> HIDE DEF k
<1>13. pn \in AnyNode /\ ~IsLeaf(pn)
  BY <1>1, <1>2, <1>5, <1>11, ReplaceSeparator DEF AnyNode
<1> HIDE DEF pn
<1>14. RotatesIn(store, b, cur, f, rn, cn, pn, store', D)
  BY <1>1, <1>3, <1>4, <1>11, <1>13 DEF RotatesIn, AnyNode
<1>15. ~IsLeaf(Fetch(store, f))
  BY <1>1 DEF p
<1> HIDE DEF D
<1>16. StoredIn(store') \in Nat /\ StoredIn(store') = StoredIn(store)
  BY <1>12, <1>13, <1>14, <1>15, RotationStored DEF BothCountable
<1> QED
  BY <1>16 DEF Gains

LEMMA MergeStoreStored ==
    ASSUME NEW lv, Inductive(lv), BothCountable,
           pc = "rebalance", path # <<>>,
           NEW i \in 1 .. Len(Siblings), i + 1 \in 1 .. Len(Siblings),
           Last(path).idx \in {i, i + 1}, store' = Merge(i)
    PROVE  Gains(0)
<1> DEFINE f == Last(path).id
           p == Fetch(store, f)
           a == Siblings[i]
           b == Siblings[i + 1]
           l == Node(a)
           r == Node(b)
           sep == p.keys[i]
           mn == IF IsLeaf(l)
                 THEN Leaf(l.keys \o r.keys, l.vals \o r.vals)
                 ELSE Internal(Append(l.keys, sep) \o r.keys, l.children \o r.children)
           pn == Internal(RemoveAt(p.keys, i), RemoveAt(p.children, i + 1))
           D == {a, f}
<1>1. /\ Siblings = p.children /\ Len(Siblings) = Len(p.keys) + 1 /\ Len(p.keys) \in Nat
      /\ store \in StoreType /\ StoreOK(store)
      /\ f \in Live(store) /\ p \in NodeOf(NodeId) /\ ~IsLeaf(p) /\ ShapeOK(p)
  BY RepairFacts, CallFacts
<1>2. i \in 1 .. Len(p.keys) /\ i # i + 1
  BY <1>1
<1>3. /\ a \in Live(store) /\ b \in Live(store) /\ a # b /\ a # f /\ b # f
  <2>1. PICK q \in {i, i + 1} : q # Last(path).idx
    BY <1>2
  <2>2. q \in 1 .. Len(Siblings)
    BY <2>1
  <2>3. /\ Siblings[q] \in Live(store) /\ cur \in Live(store)
        /\ Siblings[q] # cur /\ Siblings[q] # f /\ cur # f
        /\ Siblings[Last(path).idx] = cur
    BY <2>1, <2>2, RepairSizeFacts
  <2> QED
    BY <2>1, <2>3
<1>4. /\ l \in NodeOf(NodeId) /\ r \in NodeOf(NodeId)
      /\ ShapeOK(l) /\ ShapeOK(r) /\ (IsLeaf(l) <=> IsLeaf(r))
      /\ NodeKids(l) \cap NodeKids(r) = {}
  BY <1>2, SiblingFacts
<1>5. store' = Write(Reclaim(Write(store, f, pn), b), a, mn)
  BY <1>1 DEF Merge, Node, Siblings
<1>6. l = Fetch(store, a) /\ r = Fetch(store, b)
  BY DEF Node
<1> HIDE DEF a, b, l, r, f, p
<1>7. sep \in Key
  BY <1>1, <1>2, NodeCases, ElementOfSeq
<1> HIDE DEF sep
<1>8. mn \in AnyNode
  BY <1>4, <1>7, MergeLists DEF AnyNode
<1>9. Weight(mn) = Weight(Fetch(store, a)) + Weight(Fetch(store, b))
  BY <1>4, <1>6, <1>7, MergeWeight
<1>10. pn \in AnyNode /\ ~IsLeaf(pn)
  BY <1>1, <1>2, UnlinkChild DEF AnyNode
<1> HIDE DEF mn, pn
<1>11. MergesInto(store, a, b, f, mn, pn, store', D)
  BY <1>1, <1>3, <1>5, <1>8, <1>10 DEF MergesInto
<1> HIDE DEF D
<1>12. ~IsLeaf(Fetch(store, f))
  BY <1>1 DEF p
<1>13. StoredIn(store') \in Nat /\ StoredIn(store') = StoredIn(store)
  BY <1>9, <1>10, <1>11, <1>12, MergedStored DEF BothCountable
<1> QED
  BY <1>13 DEF Gains

LEMMA RebalanceStored ==
    ASSUME NEW lv, Inductive(lv), BothCountable, Rebalance
    PROVE  Gains(0)
<1>1. pc = "rebalance" /\ path # <<>>
  BY DEF Rebalance
<1>2. /\ Last(path).idx \in 1 .. Len(Siblings)
      /\ ToLeft = Last(path).idx - 1 /\ ToRight = Last(path).idx + 1
      /\ Len(Siblings) \in Nat
  BY <1>1, RepairFacts
<1>3. CASE CanLend(ToLeft) /\ store' = BorrowFromLeft
  BY <1>1, <1>3, BorrowFromLeftStored
<1>4. CASE CanLend(ToRight) /\ store' = BorrowFromRight
  BY <1>1, <1>4, BorrowFromRightStored
<1>5. CASE ToLeft >= 1 /\ store' = Merge(ToLeft)
  <2>1. PICK i : i = ToLeft
    OBVIOUS
  <2>2. /\ i \in 1 .. Len(Siblings) /\ i + 1 \in 1 .. Len(Siblings)
        /\ Last(path).idx \in {i, i + 1} /\ store' = Merge(i)
    BY <1>2, <1>5, <2>1
  <2> QED
    BY <1>1, <2>2, MergeStoreStored
<1>6. CASE ToRight <= Len(Siblings) /\ store' = Merge(Last(path).idx)
  <2>1. PICK i : i = Last(path).idx
    OBVIOUS
  <2>2. /\ i \in 1 .. Len(Siblings) /\ i + 1 \in 1 .. Len(Siblings)
        /\ Last(path).idx \in {i, i + 1} /\ store' = Merge(i)
    BY <1>2, <1>6, <2>1
  <2> QED
    BY <1>1, <2>2, MergeStoreStored
<1> QED
  BY <1>3, <1>4, <1>5, <1>6 DEF Rebalance

-----------------------------------------------------------------------------
(* A new tree holds none.                                                   *)
LEMMA ResetStored ==
    ASSUME NEW st, st = ResetStore
    PROVE  StoredIn(st) = 0
<1>1. Live(st) = {1} /\ Fetch(st, 1) = EmptyLeaf
  BY ResetProperties, EmptyLeafIsNode
<1>2. KeyCount(st, 1) = 0
  BY <1>1 DEF KeyCount, EmptyLeaf, Leaf, KeysLen
<1>3. RowsIn(LeafIds(st), st) = {}
  <2>1. \A x \in LeafIds(st) : KeyCount(st, x) = 0
    BY <1>1, <1>2 DEF LeafIds
  <2>2. \A i \in 1 .. Order : ~(i <= 0)
    BY OrderAssumption
  <2> QED
    BY <2>1, <2>2 DEF RowsIn
<1> QED
  BY <1>3, FS_EmptySet DEF StoredIn

(* A split cut short loses the upper half without the new entry,            *)
LEMMA SplitCutStored ==
    ASSUME NEW lv, Inductive(lv), NoneFull(store), BothCountable, SplitPanics
    PROVE  \E d \in 0 .. MinKeys : Gains(0 - d)
<1> DEFINE full == LeafWith(Node(cur), arg.key, arg.val)
           n == KeysLen(full)
           mid == n \div 2
           lower == Leaf(SubSeq(full.keys, 1, mid), SubSeq(full.vals, 1, mid))
           upper == Leaf(SubSeq(full.keys, mid + 1, n), SubSeq(full.vals, mid + 1, n))
<1>1. /\ pc = "descend" /\ arg.op = "insert" /\ IsLeaf(Node(cur))
      /\ KeysLen(Node(cur)) + 1 >= Order
      /\ store' = Write(store, cur, lower)
  BY DEF SplitPanics, Overflows, AtLeaf, LowerHalf, Unwound
<1>2. /\ Node(cur) \in AnyNode /\ ShapeOK(Node(cur)) /\ cur \in Live(store)
      /\ arg.key \in Key /\ arg.val \in Val
      /\ KeysLen(Node(cur)) = KeyCount(store, cur) /\ KeyCount(store, cur) \in Nat
      /\ KeyCount(store, cur) < Order
  BY <1>1, LeafFacts, CallFacts, StateFacts DEF NoneFull, KeyCount, Node
<1>3. /\ full \in AnyNode /\ IsLeaf(full) /\ ShapeOK(full)
      /\ n = KeysLen(Node(cur)) + 1
  BY <1>1, <1>2, LeafWithProperties DEF ShapeOK, AnyNode
<1> HIDE DEF full
<1>4. n = Order /\ n \in Nat /\ n >= 2
  BY <1>1, <1>2, <1>3, OrderAssumption
<1>5. mid = Order \div 2 /\ mid \in 1 .. n - 1
  <2>1. mid = Order \div 2
    BY <1>4
  <2> HIDE DEF n
  <2> QED
    BY <1>4, <2>1, HalfProperties
<1>6. n = KeysLen(full) /\ full.keys \in Seq(Key) /\ n = Len(full.keys)
  BY <1>3, NodeCases DEF AnyNode, KeysLen
<1> HIDE DEF n, mid
<1>7. lower \in AnyNode /\ IsLeaf(lower)
  BY <1>3, <1>5, <1>6, CutLeaf DEF AnyNode
<1>8. KeysLen(lower) = mid
  <2>1. mid \in 0 .. n
    BY <1>4, <1>5
  <2>2. mid \in 0 .. Len(full.keys)
    BY <1>6, <2>1
  <2> QED
    BY <1>6, <2>2, HalvesProperties DEF KeysLen, Leaf
<1> HIDE DEF lower
<1>9. KeyCount(store, cur) = Order - 1
  BY <1>2, <1>3, <1>4, OrderAssumption
<1>10. PICK d \in 0 .. MinKeys : mid = (Order - 1) - d
  <2>1. Order \in Nat /\ Order >= 3
    BY OrderAssumption
  <2>2. (Order - 1) - (Order \div 2) \in 0 .. (((Order + 1) \div 2) - 1)
    BY <2>1
  <2>3. \A q \in 0 .. MinKeys : q = (Order - 1) - mid => mid = (Order - 1) - q
    BY <1>4, <1>5, <2>1
  <2> QED
    BY <1>5, <2>2, <2>3 DEF MinKeys
<1>11. PICK e \in Int : e = 0 - d
  BY HalfFacts
<1>12. KeysLen(lower) = KeyCount(store, cur) + e
  BY <1>8, <1>9, <1>10, <1>11, HalfFacts
<1>13. IsLeaf(Fetch(store, cur))
  BY <1>1 DEF Node
<1>14. Gains(e)
  BY <1>1, <1>2, <1>7, <1>12, <1>13, LeafStored
<1>15. d \in 0 .. MinKeys /\ Gains(0 - d)
  BY <1>10, <1>11, <1>14, Zenon
<1> QED
  BY <1>15, Zenon

(* a borrow from the left the entry taken off the left leaf.                *)
LEMMA LeftCutStored ==
    ASSUME NEW lv, Inductive(lv), BothCountable, LeftBorrowPanics
    PROVE  Gains(-1)
<1> DEFINE a == Siblings[ToLeft]
           l == Node(a)
           node == Leaf(Front(l.keys), Front(l.vals))
<1>1. /\ BorrowsFrom(ToLeft) /\ IsLeaf(Node(cur))
      /\ store' = Write(store, a, node)
  BY DEF LeftBorrowPanics, Unwound
<1>2. /\ a \in Live(store) /\ l \in NodeOf(NodeId) /\ ShapeOK(l) /\ IsLeaf(l)
      /\ KeysLen(l) > Half /\ Half \in Nat
  BY <1>1, BorrowFacts
<1>3. l = Fetch(store, a)
  BY DEF Node
<1> HIDE DEF l, a
<1>4. /\ l.keys \in Seq(Key) /\ l.vals \in Seq(Val) /\ Len(l.vals) = Len(l.keys)
      /\ KeysLen(l) = Len(l.keys) /\ Len(l.keys) \in Nat
  BY <1>2, LeafCases
<1>5. l.keys # <<>> /\ l.vals # <<>>
  BY <1>2, <1>4, EmptySeq
<1>6. /\ Front(l.keys) \in Seq(Key) /\ Len(Front(l.keys)) = Len(l.keys) - 1
      /\ Front(l.vals) \in Seq(Val) /\ Len(Front(l.vals)) = Len(l.vals) - 1
  BY <1>4, <1>5, PopProperties
<1>7. node \in AnyNode /\ IsLeaf(node) /\ KeysLen(node) = Len(Front(l.keys))
  BY <1>4, <1>6, LeafShape DEF AnyNode, KeysLen, Leaf
<1> HIDE DEF node
<1>8. PICK d \in Int : d = -1
  OBVIOUS
<1>9. IsLeaf(Fetch(store, a)) /\ KeysLen(node) = KeyCount(store, a) + d
  BY <1>2, <1>3, <1>4, <1>6, <1>7, <1>8 DEF KeyCount
<1>10. Gains(d)
  BY <1>1, <1>2, <1>7, <1>9, LeafStored
<1> QED
  BY <1>8, <1>10

(* A borrow from the right has moved its entry when it is cut short.        *)
LEMMA RightCutStored ==
    ASSUME NEW lv, Inductive(lv), BothCountable, RightBorrowPanics
    PROVE  Gains(0)
<1> DEFINE f == Last(path).id
           a == Siblings[ToRight]
           p == Node(f)
           r == Node(a)
           c == Node(cur)
           rn == Leaf(Tail(r.keys), Tail(r.vals))
           cn == Leaf(Append(c.keys, Head(r.keys)), Append(c.vals, Head(r.vals)))
           D == {a, cur, f}
<1>1. /\ BorrowsFrom(ToRight) /\ IsLeaf(c)
      /\ store' = Write(Write(Write(store, a, rn), cur, cn), f, p)
  BY DEF RightBorrowPanics, Unwound, Rewritten
<1>2. /\ pc = "rebalance" /\ path # <<>>
      /\ ToRight \in 1 .. Len(Siblings) /\ ToRight # Last(path).idx
      /\ r \in NodeOf(NodeId) /\ c \in NodeOf(NodeId)
      /\ ShapeOK(r) /\ ShapeOK(c) /\ IsLeaf(r)
      /\ KeysLen(r) > Half /\ Half \in Nat /\ Half >= 1
  BY <1>1, BorrowFacts
<1>3. /\ a \in Live(store) /\ cur \in Live(store) /\ f \in Live(store)
      /\ a # cur /\ a # f /\ cur # f
      /\ ~IsLeaf(p) /\ p \in AnyNode /\ store \in StoreType
  BY <1>2, RepairSizeFacts, CallFacts DEF Node
<1>4. p = Fetch(store, f) /\ r = Fetch(store, a) /\ c = Fetch(store, cur)
  BY DEF Node
<1> HIDE DEF f, a, p, r, c
<1>5. /\ r.keys \in Seq(Key) /\ r.vals \in Seq(Val) /\ Len(r.vals) = Len(r.keys)
      /\ KeysLen(r) = Len(r.keys) /\ Len(r.keys) \in Nat
      /\ c.keys \in Seq(Key) /\ c.vals \in Seq(Val) /\ Len(c.vals) = Len(c.keys)
      /\ KeysLen(c) = Len(c.keys) /\ Len(c.keys) \in Nat
      /\ NodeKids(r) = {}
  BY <1>1, <1>2, LeafCases
<1>6. KeysLen(r) > 1
  BY <1>2, <1>5
<1>7. LentFirst(r, c, {}, rn, cn)
  BY <1>1, <1>2, <1>5, <1>6 DEF LentFirst
<1>8. Weight(rn) + Weight(cn) = Weight(r) + Weight(c)
  BY <1>2, <1>7, LendFirstWeight
<1>9. r.keys # <<>> /\ r.vals # <<>>
  BY <1>5, <1>6, EmptySeq
<1>10. /\ Tail(r.keys) \in Seq(Key) /\ Len(Tail(r.keys)) = Len(r.keys) - 1
       /\ Tail(r.vals) \in Seq(Val) /\ Len(Tail(r.vals)) = Len(r.vals) - 1
       /\ Head(r.keys) \in Key /\ Head(r.vals) \in Val
  BY <1>5, <1>9, TailProperties
<1>11. /\ Append(c.keys, Head(r.keys)) \in Seq(Key)
       /\ Len(Append(c.keys, Head(r.keys))) = Len(c.keys) + 1
       /\ Append(c.vals, Head(r.vals)) \in Seq(Val)
       /\ Len(Append(c.vals, Head(r.vals))) = Len(c.vals) + 1
  BY <1>5, <1>10, PushProperties
<1>12. rn \in AnyNode /\ cn \in AnyNode
  BY <1>5, <1>10, <1>11, LeafShape DEF AnyNode
<1> HIDE DEF rn, cn
<1>13. RotatesIn(store, a, cur, f, rn, cn, p, store', D)
  BY <1>1, <1>3, <1>12 DEF RotatesIn
<1> HIDE DEF D
<1>14. StoredIn(store') \in Nat /\ StoredIn(store') = StoredIn(store)
  BY <1>3, <1>4, <1>8, <1>13, RotationStored DEF BothCountable
<1> QED
  BY <1>14 DEF Gains

-----------------------------------------------------------------------------
(* len, with the entry a running call has still to count in or out.         *)
Tally == len + Behind

Covered ==
    /\ Tally \in Int /\ torn \in Nat
    /\ StoredIn(store) <= Tally
    /\ Tally <= StoredIn(store) + torn * LostByOne

(* What a call does to the store it does to the count,                      *)
Moves(d) == Gains(d) /\ Tally' = Tally + d /\ torn' = torn

(* and what a panic does to the store is not counted.                       *)
Loses(d, c) == /\ Gains(d) /\ Tally' = Tally + c /\ torn' = torn + 1
               /\ d <= c /\ c <= d + LostByOne

LEMMA MovesCovered ==
    ASSUME Covered, NEW d \in Int, Moves(d)
    PROVE  Covered'
<1>0. torn * LostByOne \in Int
  <2>1. torn \in Nat /\ LostByOne \in Nat
    BY HalfFacts DEF LostByOne, Covered
  <2> QED
    BY <2>1
<1>1. PICK t \in Int, s \in Nat, x \in Int :
         /\ t = Tally /\ s = StoredIn(store) /\ x = torn * LostByOne
         /\ s <= t /\ t <= s + x
  BY <1>0 DEF Covered, Moves, Gains
<1>3. Tally' = t + d /\ StoredIn(store') = s + d /\ torn' * LostByOne = x
  BY <1>1 DEF Moves, Gains
<1>4. t + d \in Int /\ s + d <= t + d /\ t + d <= (s + d) + x
  BY <1>1
<1>5. torn' \in Nat
  BY DEF Moves, Covered
<1> QED
  BY <1>3, <1>4, <1>5 DEF Covered, LostByOne, MinKeys

LEMMA LosesCovered ==
    ASSUME Covered, NEW d \in Int, NEW c \in Int, Loses(d, c)
    PROVE  Covered'
<1>0. LostByOne \in Nat
  BY HalfFacts DEF LostByOne
<1>1. PICK t \in Int, s \in Nat, n \in Nat, lost \in Nat :
         /\ t = Tally /\ s = StoredIn(store) /\ n = torn /\ lost = LostByOne
         /\ s <= t /\ t <= s + n * lost
  BY <1>0 DEF Covered, Loses, Gains
<1>3. Tally' = t + c /\ StoredIn(store') = s + d /\ torn' = n + 1 /\ d <= c /\ c <= d + lost
  BY <1>1 DEF Loses, Gains
<1>4. PICK x \in Nat : x = n * lost
  BY <1>1
<1>5. (n + 1) * lost = x + lost
  BY <1>1, <1>4
<1>6. t + c \in Int /\ s + d <= t + c /\ t + c <= (s + d) + (x + lost)
  BY <1>1, <1>3, <1>4
<1>7. torn' \in Nat /\ torn' * lost = x + lost
  BY <1>1, <1>3, <1>5
<1> QED
  BY <1>1, <1>3, <1>6, <1>7 DEF Covered, LostByOne, MinKeys

(* The steps of the calls: those that only go up or down the tree,          *)
LEMMA WalkMoves ==
    ASSUME BothCountable, store' = store, Tally \in Int, Tally' = Tally, torn' = torn
    PROVE  Moves(0)
<1>1. Gains(0)
  BY SameStored
<1> QED
  BY <1>1 DEF Moves

(* and all the others.                                                      *)
LEMMA StepMoves ==
    ASSUME NEW lv, Inductive(lv), BothCountable, Tally \in Int, Step, torn' = torn
    PROVE  \E d \in Int : Moves(d)
<1>1. len \in Int
  BY CallFacts
<1>2. CASE Descend \/ GetAnswer \/ RemoveAbsent \/ Sufficient
  <2>1. store' = store /\ Tally' = Tally
    BY <1>2 DEF Descend, GetAnswer, RemoveAbsent, Sufficient, AtLeaf, Return, tree, Tally, Behind
  <2> QED
    BY <2>1, WalkMoves
<1>3. CASE InsertReplace \/ AbsorbSplit \/ Rebalance
  <2>1. Tally' = Tally
    BY <1>3 DEF InsertReplace, AbsorbSplit, Rebalance, AtLeaf, Return, Tally, Behind
  <2>2. Gains(0)
    BY <1>3, InsertReplaceStored, AbsorbSplitStored, RebalanceStored
  <2>3. Moves(0)
    BY <2>1, <2>2 DEF Moves
  <2> QED
    BY <2>3
<1>4. CASE AbsorbFits \/ GrowRoot \/ FinishRemove
  <2>1. Tally' = Tally
    BY <1>1, <1>4 DEF AbsorbFits, GrowRoot, FinishRemove, Return, Tally, Behind
  <2>2. Gains(0)
    BY <1>4, AbsorbFitsStored, GrowRootStored, FinishRemoveStored
  <2>3. Moves(0)
    BY <2>1, <2>2 DEF Moves
  <2> QED
    BY <2>3
<1>5. CASE InsertFits \/ InsertSplit
  <2>1. Tally' = Tally + 1
    BY <1>1, <1>5 DEF InsertFits, InsertSplit, AtLeaf, Return, Tally, Behind
  <2>2. Gains(1)
    BY <1>5, InsertFitsStored, InsertSplitStored
  <2>3. Moves(1)
    BY <1>5, <2>1, <2>2 DEF Moves
  <2> QED
    BY <2>3
<1>6. CASE RemoveEntry
  <2>1. PICK d \in Int : d = -1
    OBVIOUS
  <2>2. Tally' = Tally + d
    BY <1>1, <1>6, <2>1 DEF RemoveEntry, AtLeaf, Tally, Behind
  <2>3. Gains(d)
    BY <1>6, <2>1, RemoveEntryStored
  <2>4. Moves(d)
    BY <2>2, <2>3 DEF Moves
  <2> QED
    BY <2>4
<1> QED
  BY <1>2, <1>3, <1>4, <1>5, <1>6 DEF Step

(* The panics that cost something.                                          *)
LEMMA PanicLoses ==
    ASSUME NEW lv, Inductive(lv), NoneFull(store), BothCountable, Tally \in Int,
           SplitPanics \/ LeftBorrowPanics \/ RightBorrowPanics \/ InnerBorrowPanics
    PROVE  \E d, c \in Int : Loses(d, c)
<1>1. len \in Int /\ torn' = torn + 1 /\ MinKeys \in Nat
  BY CallFacts, HalfFacts
     DEF SplitPanics, LeftBorrowPanics, RightBorrowPanics, InnerBorrowPanics, Torn
<1>2. MinKeys <= LostByOne /\ 2 <= LostByOne /\ LostByOne \in Nat
  BY <1>1 DEF LostByOne
<1>3. CASE SplitPanics
  <2>1. PICK q \in 0 .. MinKeys : Gains(0 - q)
    BY <1>3, SplitCutStored
  <2>2. PICK d \in Int : d = 0 - q
    BY <1>1, <2>1
  <2>3. d <= 0 /\ 0 <= d + LostByOne
    BY <1>1, <1>2, <2>1, <2>2
  <2>4. Gains(d)
    BY <2>1, <2>2, Zenon
  <2>5. Tally' = Tally + 0
    BY <1>3 DEF SplitPanics, Overflows, AtLeaf, Unwound, Tally, Behind
  <2>6. Loses(d, 0)
    BY <1>1, <2>3, <2>4, <2>5 DEF Loses
  <2> QED
    BY <2>6
<1>4. ASSUME LeftBorrowPanics \/ RightBorrowPanics \/ InnerBorrowPanics
      PROVE  Tally' = Tally + 1
  <2>1. pc = "rebalance" /\ pc' = "idle" /\ len' = len
    BY <1>4 DEF LeftBorrowPanics, RightBorrowPanics, InnerBorrowPanics, BorrowsFrom, Unwound
  <2> QED
    BY <1>1, <2>1 DEF Tally, Behind
<1>5. CASE LeftBorrowPanics
  <2>1. PICK d \in Int : d = -1
    OBVIOUS
  <2>2. Gains(d)
    BY <1>5, <2>1, LeftCutStored
  <2>3. d <= 1 /\ 1 <= d + LostByOne
    BY <1>2, <2>1
  <2>4. Loses(d, 1)
    BY <1>1, <1>4, <1>5, <2>2, <2>3 DEF Loses
  <2> QED
    BY <2>4
<1>6. CASE RightBorrowPanics \/ InnerBorrowPanics
  <2>1. RightBorrowPanics => Gains(0)
    BY RightCutStored
  <2>2. InnerBorrowPanics => store' = store
    BY DEF InnerBorrowPanics, Unwound
  <2>3. Gains(0)
    BY <1>6, <2>1, <2>2, SameStored
  <2>4. 0 <= 1 /\ 1 <= 0 + LostByOne
    BY <1>2
  <2>5. Loses(0, 1)
    BY <1>1, <1>4, <1>6, <2>3, <2>4 DEF Loses
  <2> QED
    BY <2>5
<1> QED
  BY <1>3, <1>5, <1>6

(* The count covers the entries from step to step.                          *)
LEMMA CoveredStep ==
    ASSUME NEW lv, Inductive(lv), NoneFull(store), BothCountable, Covered,
           [UnwindNext]_unwindVars
    PROVE  Covered'
<1>1. Tally \in Int
  BY DEF Covered
<1>2. CASE store' = store /\ Tally' = Tally /\ torn' = torn
  <2>1. Moves(0)
    BY <1>1, <1>2, WalkMoves
  <2> QED
    BY <2>1, MovesCovered
<1>3. CASE Step /\ torn' = torn
  <2>1. PICK d \in Int : Moves(d)
    BY <1>1, <1>3, StepMoves
  <2> QED
    BY <2>1, MovesCovered
<1>4. CASE SplitPanics \/ LeftBorrowPanics \/ RightBorrowPanics \/ InnerBorrowPanics
  <2>1. PICK d, c \in Int : Loses(d, c)
    BY <1>1, <1>4, PanicLoses
  <2> QED
    BY <2>1, LosesCovered
<1>5. CASE Clear /\ torn' = 0
  <2>1. store' = ResetStore /\ len' = 0 /\ pc' = "idle"
    BY <1>5 DEF Clear
  <2>2. StoredIn(store') = 0 /\ Tally' = 0
    BY <2>1, ResetStored DEF Tally, Behind
  <2>3. torn' * LostByOne = 0
    BY <1>5, HalfFacts DEF LostByOne
  <2> QED
    BY <1>5, <2>2, <2>3 DEF Covered, LostByOne, MinKeys
<1>6. GetCall \/ InsertCall \/ RemoveCall \/ Unrepaired \/ SearchPanics \/ UNCHANGED unwindVars
      => store' = store /\ Tally' = Tally
  BY DEF GetCall, InsertCall, RemoveCall, Call, Unrepaired, SearchPanics, Unwound, unwindVars,
         vars, tree, Tally, Behind
<1> QED
  BY <1>2, <1>3, <1>4, <1>5, <1>6 DEF UnwindNext, SearchPanics, unwindVars

(* What can be counted is counted by the runs as by this module.            *)
LEMMA CoveredIsCover ==
    ASSUME Covered
    PROVE  LenCovers
<1>1. Stored = StoredIn(store)
  BY DEF Stored, StoredIn, RowsIn, LeafIds, Leaves, Inner, KeyCount, Node
<1>2. Tally = len + (IF pc = "absorb" THEN 1 ELSE 0) - (IF pc = "rebalance" THEN 1 ELSE 0)
  BY DEF Tally, Behind
<1> QED
  BY <1>1, <1>2 DEF Covered, LenCovers

(* No panic makes len fall below the number of entries stored: "len -= 1"   *)
(* finds it positive in every removal, whatever panics there were           *)
(* (tree.rs:394-395). Nor does one leave it more than LostByOne too high.   *)
THEOREM LenCoversTheorem == UnwindSpec => []LenCovers
<1> DEFINE Finite == Countable(store)
<1>1. Survives => Finite
  BY TreeCountable DEF Survives, Structure
<1>2. UnwindInit => Covered
  <2> SUFFICES ASSUME UnwindInit PROVE Covered
    OBVIOUS
  <2>1. store = ResetStore /\ len = 0 /\ pc = "idle" /\ torn = 0
    BY DEF UnwindInit, Init
  <2>2. StoredIn(store) = 0 /\ Tally = 0
    BY <2>1, ResetStored DEF Tally, Behind
  <2>3. torn * LostByOne = 0
    BY <2>1, HalfFacts DEF LostByOne
  <2> QED
    BY <2>1, <2>2, <2>3 DEF Covered
<1>3. Survives /\ Finite /\ Finite' /\ Covered /\ [UnwindNext]_unwindVars => Covered'
  BY CoveredStep DEF Survives, Structure, BothCountable
<1>4. Covered => LenCovers
  BY CoveredIsCover
<1> QED
  BY <1>1, <1>2, <1>3, <1>4, SurvivesAlways, PTL DEF UnwindSpec
=============================================================================
