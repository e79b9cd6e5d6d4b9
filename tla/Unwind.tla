------------------------------- MODULE Unwind -------------------------------
(* The tree when the caller's Clone or Ord of a key panics. The panic       *)
(* unwinds through ops.rs and leaves the store as the writes so far made    *)
(* it, root and len as they were before the call (tree.rs:359-397). A       *)
(* caller that catches it goes on using the tree.                           *)
EXTENDS BPlusTree

CONSTANT PanicBound   \* bound: panics that damage the tree, between two clears

ASSUME PanicBoundAssumption == PanicBound \in Nat

VARIABLES torn,     \* how many panics have left the tree damaged
          astray    \* whether one of them left an entry beyond its separator

unwindVars == <<vars, torn, astray>>

UnwindInit == Init /\ torn = 0 /\ astray = FALSE

(* All frames are gone, nothing is returned; st is the store left behind.   *)
Unwound(st) ==
    /\ store' = st
    /\ pc' = "idle"
    /\ arg' = NoArg
    /\ path' = <<>>
    /\ cur' = root
    /\ split' = NoSplit
    /\ ret' = None
    /\ UNCHANGED <<root, len>>

Torn == torn < PanicBound /\ torn' = torn + 1

(* Mutant: the insertion is counted before the descent.                     *)
SearchPanicsCounted ==
    /\ pc = "descend"
    /\ KeysLen(Node(cur)) > 0
    /\ pc' = "idle"
    /\ arg' = NoArg
    /\ path' = <<>>
    /\ cur' = root
    /\ len' = len + (IF arg.op = "insert" THEN 1 ELSE 0)
    /\ UNCHANGED <<store, root, split, ret, torn, astray>>

(* A comparison panics in a search, on any call and at any node. All of a   *)
(* call's searches come before its first write.                             *)
SearchPanics ==
    /\ pc = "descend"
    /\ KeysLen(Node(cur)) > 0
    /\ Unwound(store)
    /\ UNCHANGED <<torn, astray>>

-----------------------------------------------------------------------------
(* Panics in K::clone.                                                      *)

Overflows == /\ AtLeaf("insert")
             /\ ~HasKey
             /\ KeysLen(Node(cur)) + 1 >= Order

LowerHalf == LET full == LeafWith(Node(cur), arg.key, arg.val)
                 mid == KeysLen(full) \div 2
             IN  Leaf(SubSeq(full.keys, 1, mid), SubSeq(full.vals, 1, mid))

(* Mutant: the right leaf is stored before the separator is cloned.         *)
SplitPanicsStored ==
    /\ Overflows
    /\ Room(store)
    /\ Unwound(Alloc(Write(store, cur, LowerHalf), EmptyLeaf))
    /\ Torn
    /\ UNCHANGED astray

(* Mutant: the separator is cloned before the upper half is split off.      *)
SplitPanicsWhole ==
    /\ Overflows
    /\ Unwound(Write(store, cur, LeafWith(Node(cur), arg.key, arg.val)))
    /\ Torn
    /\ UNCHANGED astray

(* keys[0].clone() in insert_leaf: the leaf keeps its lower half, the upper *)
(* half is dropped.                                                         *)
SplitPanics ==
    /\ Overflows
    /\ Unwound(Write(store, cur, LowerHalf))
    /\ Torn
    /\ UNCHANGED astray

(* cur is about to borrow from its left or its right sibling.               *)
BorrowsFrom(i) == /\ pc = "rebalance"
                  /\ path # <<>>
                  /\ UnderFull
                  /\ CanLend(i)
                  /\ i = ToRight => ~CanLend(ToLeft)

(* Mutant: the entry is put in place first, with the clone for the parent.  *)
LeftBorrowPanicsLate ==
    /\ BorrowsFrom(ToLeft)
    /\ IsLeaf(Node(cur))
    /\ LET l == Node(Siblings[ToLeft])
           c == Node(cur)
       IN  Unwound(Rewritten(Siblings[ToLeft], Leaf(Front(l.keys), Front(l.vals)),
                             Leaf(Cons(Last(l.keys), c.keys), Cons(Last(l.vals), c.vals)),
                             Node(Last(path).id)))
    /\ Torn
    /\ UNCHANGED astray

(* k.clone() in borrow_from_left: the entry taken off the left leaf is      *)
(* dropped.                                                                 *)
LeftBorrowPanics ==
    /\ BorrowsFrom(ToLeft)
    /\ IsLeaf(Node(cur))
    /\ LET l == Node(Siblings[ToLeft])
       IN  Unwound(Write(store, Siblings[ToLeft], Leaf(Front(l.keys), Front(l.vals))))
    /\ Torn
    /\ UNCHANGED astray

(* first().cloned() in borrow_from_right: the entry has moved over, but its *)
(* separator still sends its key to the right.                              *)
RightBorrowPanics ==
    /\ BorrowsFrom(ToRight)
    /\ IsLeaf(Node(cur))
    /\ LET r == Node(Siblings[ToRight])
           c == Node(cur)
       IN  Unwound(Rewritten(Siblings[ToRight], Leaf(Tail(r.keys), Tail(r.vals)),
                             Leaf(Append(c.keys, Head(r.keys)), Append(c.vals, Head(r.vals))),
                             Node(Last(path).id)))
    /\ Torn
    /\ astray' = TRUE

(* The separator is cloned before an internal node borrows: cur stays one   *)
(* key short.                                                               *)
InnerBorrowPanics ==
    /\ BorrowsFrom(ToLeft) \/ BorrowsFrom(ToRight)
    /\ ~IsLeaf(Node(cur))
    /\ Unwound(store)
    /\ Torn
    /\ UNCHANGED astray

-----------------------------------------------------------------------------

(* rebalance finds no sibling and does nothing: its parent was left with a  *)
(* single child by an earlier panic.                                        *)
Unrepaired ==
    /\ pc = "rebalance"
    /\ path # <<>>
    /\ UnderFull
    /\ Len(Siblings) = 1
    /\ Ascend
    /\ UNCHANGED <<tree, pc, arg, split, ret>>

(* bound: calls are made while every list of keys is strictly ascending. In *)
(* one that holds a key twice binary_search may find either, in one that is *)
(* not sorted it may answer anything.                                       *)
Followed == \A id \in Live(store) : Ascending(Node(id).keys)

UnwindNext ==
    \/ /\ \/ /\ Followed
             /\ GetCall \/ InsertCall \/ RemoveCall
          \/ Step
          \/ Unrepaired
       /\ UNCHANGED <<torn, astray>>
    \/ Clear /\ torn' = 0 /\ astray' = FALSE
    \/ SearchPanics
    \/ SplitPanics
    \/ LeftBorrowPanics \/ RightBorrowPanics \/ InnerBorrowPanics

UnwindSpec == UnwindInit /\ [][UnwindNext]_unwindVars
-----------------------------------------------------------------------------

(* Whatever panics where, the nodes still form one tree of uniform depth,   *)
(* with lists in step and none over-full: no id is leaked or linked twice,  *)
(* and no later call goes through a stale frame, merges siblings of two     *)
(* kinds or comes to a split of a node it does not expect (ops.rs:109-141,  *)
(* 319-357, 370-428, 460).                                                  *)
StructureSurvives ==
    /\ NoLeakNoAlias
    /\ SameDepth
    /\ FramesHold
    /\ Aligned
    /\ \A id \in Live(store) : KeysLen(Node(id)) < Order

(* A panic in a comparison changes nothing, for every search comes before   *)
(* the first write (ops.rs:77-112, 223-233), and clear repairs whatever a   *)
(* clone has broken (tree.rs:233-236): a tree that no clone has panicked in *)
(* since has all its invariants.                                            *)
CleanTree == torn = 0 => Occupancy /\ Routing /\ LenExact

Stored == Cardinality({e \in Leaves \X (1 .. Order) : e[2] <= KeysLen(Node(e[1]))})

(* The entries a panic can lose and len go on counting: the upper half of a *)
(* split without the new entry, or the entry removed and the one taken off  *)
(* the left leaf.                                                           *)
LostByOne == IF MinKeys > 2 THEN MinKeys ELSE 2

(* len never falls below the number of entries stored, so that "len -= 1"   *)
(* finds it positive in every removal after a panic (tree.rs:394-395), and  *)
(* exceeds it by no more than the panics lost.                              *)
LenCovers ==
    LET counted == len + (IF pc = "absorb" THEN 1 ELSE 0)
                       - (IF pc = "rebalance" THEN 1 ELSE 0)
    IN  Stored <= counted /\ counted <= Stored + torn * LostByOne

(* A lost entry is the worst the other panics do: unless a borrow from the  *)
(* right was cut short (ops.rs:386), every stored key is still found, also  *)
(* through the short nodes and single children later calls leave            *)
(* (node.rs:38-40).                                                         *)
RoutingSurvives == ~astray => Routing
=============================================================================
