----------------------------- MODULE BPlusTree -----------------------------
(* get, insert, remove and clear of BPlusTree (src/src/tree.rs, ops.rs).    *)
(* The recursion of the code is a stack of frames: a call descends to a     *)
(* leaf, one frame per internal node, and works its way back up. One step   *)
(* is the work one function does between its calls of the others.           *)
EXTENDS SlabStore

CONSTANTS Order,   \* most children of an internal node, one above the most keys
          Entry,   \* the entries callers insert
          None     \* Option::None

ASSUME OrderAssumption == Order \in Nat /\ Order >= 3     \* MIN_ORDER
ASSUME EntryAssumption == Entry \subseteq Key \X Val
ASSUME NoneAssumption == None \notin Val \cup Key

VARIABLES store,   \* the backend
          root,    \* id of the root node
          len,     \* number of entries
          pc,      \* what the running call does: "idle" when there is none
          arg,     \* the running call: operation, key and value
          path,    \* its frames: internal nodes passed, child taken in each
          cur,     \* the node it has reached
          split,   \* the split of cur its parent has yet to absorb
          ret      \* what the last call returned, or the running one will

tree == <<store, root, len>>
call == <<pc, arg, path, cur, split, ret>>
vars == <<store, root, len, pc, arg, path, cur, split, ret>>

NoArg == [op |-> "none", key |-> None, val |-> None]
NoSplit == [sep |-> None, right |-> None]

(* Mutant: one key fewer than the merge needs.                              *)
MinKeysShort == ((Order + 1) \div 2) - 2

MinKeys == ((Order + 1) \div 2) - 1

Node(id) == Fetch(store, id)

Init == /\ store = ResetStore
        /\ root = AllocId(EmptyStore)
        /\ len = 0
        /\ pc = "idle"
        /\ arg = NoArg
        /\ path = <<>>
        /\ cur = root
        /\ split = NoSplit
        /\ ret = None

-----------------------------------------------------------------------------
(* Calls, the way down, and the return to the caller.                       *)

Call(op, k, v) ==
    /\ pc = "idle"
    /\ pc' = "descend"
    /\ arg' = [op |-> op, key |-> k, val |-> v]
    /\ UNCHANGED <<tree, path, cur, split, ret>>

GetCall == \E k \in Key : Call("get", k, None)

InsertCall == \E e \in Entry : Call("insert", e[1], e[2])

RemoveCall == \E k \in Key : Call("remove", k, None)

(* Mutant: the loop of a lookup never moves on to the child.                *)
LookupStays ==
    /\ pc = "descend"
    /\ ~IsLeaf(Node(cur))
    /\ LET i == ChildIndex(Node(cur), arg.key)
       IN  \/ arg.op = "get" /\ UNCHANGED <<path, cur>>
           \/ /\ arg.op # "get"
              /\ path' = Append(path, [id |-> cur, idx |-> i])
              /\ cur' = Node(cur).children[i]
    /\ UNCHANGED <<tree, pc, arg, split, ret>>

Descend ==
    /\ pc = "descend"
    /\ ~IsLeaf(Node(cur))
    /\ LET i == ChildIndex(Node(cur), arg.key)
       IN  /\ path' = Append(path, [id |-> cur, idx |-> i])
           /\ cur' = Node(cur).children[i]
    /\ UNCHANGED <<tree, pc, arg, split, ret>>

(* The frames return one after the other without another change.            *)
Return(r, newRoot) ==
    /\ pc' = "idle"
    /\ arg' = NoArg
    /\ path' = <<>>
    /\ root' = newRoot
    /\ cur' = newRoot
    /\ split' = NoSplit
    /\ ret' = r

(* Mutant: the frame is dropped, the node stays.                            *)
AscendStays == cur' = cur /\ path' = Front(path)

(* Mutant: the node is left, its frame stays.                               *)
AscendKeepsFrame == cur' = Last(path).id /\ path' = path

Ascend ==
    /\ cur' = Last(path).id
    /\ path' = Front(path)

(* The call op has come to the leaf of its key.                             *)
AtLeaf(op) == pc = "descend" /\ arg.op = op /\ IsLeaf(Node(cur))

HasKey == Found(Node(cur).keys, arg.key)

GetAnswer ==
    /\ AtLeaf("get")
    /\ Return(IF HasKey THEN LeafValue(Node(cur), arg.key) ELSE None, root)
    /\ UNCHANGED <<store, len>>

-----------------------------------------------------------------------------
(* insert_leaf: replace, store, or store and split.                         *)

InsertReplace ==
    /\ AtLeaf("insert")
    /\ HasKey
    /\ LET leaf == Node(cur)
           i == Position(leaf.keys, arg.key)
       IN  /\ store' = Write(store, cur,
                             Leaf(leaf.keys, ReplaceAt(leaf.vals, i, arg.val)))
           /\ Return(leaf.vals[i], root)
    /\ UNCHANGED len

InsertFits ==
    /\ AtLeaf("insert")
    /\ ~HasKey
    /\ KeysLen(Node(cur)) + 1 < Order
    /\ store' = Write(store, cur, LeafWith(Node(cur), arg.key, arg.val))
    /\ Return(None, root)
    /\ len' = len + 1

(* The upper half of the n keys of a full leaf moves to a new leaf, whose   *)
(* first key is copied up.                                                  *)
InsertSplit ==
    /\ AtLeaf("insert")
    /\ ~HasKey
    /\ KeysLen(Node(cur)) + 1 >= Order
    /\ Room(store)
    /\ LET full == LeafWith(Node(cur), arg.key, arg.val)
           n == KeysLen(full)
           mid == n \div 2
           lower == Leaf(SubSeq(full.keys, 1, mid), SubSeq(full.vals, 1, mid))
           upper == Leaf(SubSeq(full.keys, mid + 1, n), SubSeq(full.vals, mid + 1, n))
       IN  /\ store' = Alloc(Write(store, cur, lower), upper)
           /\ split' = [sep |-> Head(upper.keys), right |-> AllocId(store)]
    /\ pc' = "absorb"
    /\ ret' = None
    /\ UNCHANGED <<root, len, arg, path, cur>>

(* The parent with the separator and the right half of a split linked in.   *)
Absorbed ==
    LET frame == Last(path)
        parent == Node(frame.id)
    IN  Internal(InsertAt(parent.keys, frame.idx, split.sep),
                 InsertAt(parent.children, frame.idx + 1, split.right))

AbsorbFits ==
    /\ pc = "absorb"
    /\ path # <<>>
    /\ KeysLen(Absorbed) < Order
    /\ store' = Write(store, Last(path).id, Absorbed)
    /\ Return(None, root)
    /\ len' = len + 1

(* An internal node splits around its median, which moves up.               *)
AbsorbSplit ==
    /\ pc = "absorb"
    /\ path # <<>>
    /\ KeysLen(Absorbed) >= Order
    /\ Room(store)
    /\ LET full == Absorbed
           n == KeysLen(full)
           mid == n \div 2
           lower == Internal(SubSeq(full.keys, 1, mid),
                             SubSeq(full.children, 1, mid + 1))
           upper == Internal(SubSeq(full.keys, mid + 2, n),
                             SubSeq(full.children, mid + 2, n + 1))
       IN  /\ store' = Alloc(Write(store, Last(path).id, lower), upper)
           /\ split' = [sep |-> full.keys[mid + 1], right |-> AllocId(store)]
    /\ Ascend
    /\ UNCHANGED <<root, len, pc, arg, ret>>

(* Mutant: any split is answered with a new root.                           *)
GrowRootEarly ==
    /\ pc = "absorb"
    /\ Room(store)
    /\ store' = Alloc(store, Internal(<<split.sep>>, <<root, split.right>>))
    /\ Return(None, AllocId(store))
    /\ len' = len + 1

(* The root split: a new root is put above the two halves.                  *)
GrowRoot ==
    /\ pc = "absorb"
    /\ path = <<>>
    /\ Room(store)
    /\ store' = Alloc(store, Internal(<<split.sep>>, <<root, split.right>>))
    /\ Return(None, AllocId(store))
    /\ len' = len + 1

-----------------------------------------------------------------------------
(* remove_from: take the entry out, then restore occupancy on the way up.   *)

(* Mutant: an entry that was not there is counted out.                      *)
RemoveAbsentCounts ==
    /\ AtLeaf("remove")
    /\ ~HasKey
    /\ Return(None, root)
    /\ len' = len - 1
    /\ UNCHANGED store

RemoveAbsent ==
    /\ AtLeaf("remove")
    /\ ~HasKey
    /\ Return(None, root)
    /\ UNCHANGED <<store, len>>

RemoveEntry ==
    /\ AtLeaf("remove")
    /\ HasKey
    /\ store' = Write(store, cur, LeafWithout(Node(cur), arg.key))
    /\ ret' = LeafValue(Node(cur), arg.key)
    /\ pc' = "rebalance"
    /\ UNCHANGED <<root, len, arg, path, cur, split>>

UnderFull == KeysLen(Node(cur)) < MinKeys

(* cur holds enough keys: its parent has nothing to repair.                 *)
Sufficient ==
    /\ pc = "rebalance"
    /\ path # <<>>
    /\ ~UnderFull
    /\ Ascend
    /\ UNCHANGED <<tree, pc, arg, split, ret>>

Siblings == Node(Last(path).id).children
ToLeft == Last(path).idx - 1
ToRight == Last(path).idx + 1

(* Mutant: a sibling lends when it has none to spare.                       *)
CanLendLast(i) == i \in 1 .. Len(Siblings) /\ KeysLen(Node(Siblings[i])) >= MinKeys

CanLend(i) == i \in 1 .. Len(Siblings) /\ KeysLen(Node(Siblings[i])) > MinKeys

(* The parent with another key at separator i.                              *)
NewSeparator(i, k) ==
    LET parent == Node(Last(path).id)
    IN  Internal(ReplaceAt(parent.keys, i, k), parent.children)

(* The store with the nodes of cur, of its sibling and of its parent new.   *)
Rewritten(sibling, s, c, p) ==
    Write(Write(Write(store, sibling, s), cur, c), Last(path).id, p)

(* The last entry of the left leaf moves over and becomes the separator; of *)
(* an internal node the last child moves, the separators rotate.            *)
BorrowFromLeft ==
    LET i == ToLeft
        l == Node(Siblings[i])
        c == Node(cur)
        sep == Node(Last(path).id).keys[i]
    IN  Rewritten(Siblings[i],
          IF IsLeaf(c) THEN Leaf(Front(l.keys), Front(l.vals))
                       ELSE Internal(Front(l.keys), Front(l.children)),
          IF IsLeaf(c) THEN Leaf(Cons(Last(l.keys), c.keys), Cons(Last(l.vals), c.vals))
                       ELSE Internal(Cons(sep, c.keys), Cons(Last(l.children), c.children)),
          NewSeparator(i, Last(l.keys)))

(* Mutant: of an internal node the first child is copied.                   *)
BorrowFromRightCopies ==
    LET i == Last(path).idx
        r == Node(Siblings[i + 1])
        c == Node(cur)
        sep == Node(Last(path).id).keys[i]
    IN  Rewritten(Siblings[i + 1],
          IF IsLeaf(c) THEN Leaf(Tail(r.keys), Tail(r.vals)) ELSE Internal(Tail(r.keys), r.children),
          IF IsLeaf(c) THEN Leaf(Append(c.keys, Head(r.keys)), Append(c.vals, Head(r.vals)))
                       ELSE Internal(Append(c.keys, sep), Append(c.children, Head(r.children))),
          NewSeparator(i, IF IsLeaf(c) THEN Head(Tail(r.keys)) ELSE Head(r.keys)))

(* The first entry of the right leaf moves over, and its next key becomes   *)
(* the separator; of an internal node the first child moves.                *)
BorrowFromRight ==
    LET i == Last(path).idx
        r == Node(Siblings[i + 1])
        c == Node(cur)
        sep == Node(Last(path).id).keys[i]
    IN  Rewritten(Siblings[i + 1],
          IF IsLeaf(c) THEN Leaf(Tail(r.keys), Tail(r.vals))
                       ELSE Internal(Tail(r.keys), Tail(r.children)),
          IF IsLeaf(c) THEN Leaf(Append(c.keys, Head(r.keys)), Append(c.vals, Head(r.vals)))
                       ELSE Internal(Append(c.keys, sep), Append(c.children, Head(r.children))),
          NewSeparator(i, IF IsLeaf(c) THEN Head(Tail(r.keys)) ELSE Head(r.keys)))

(* Mutant: the entries of the right leaf come first.                        *)
MergeSwapped(i) ==
    LET parent == Node(Last(path).id)
        l == Node(Siblings[i])
        r == Node(Siblings[i + 1])
        merged == IF IsLeaf(l)
                  THEN Leaf(r.keys \o l.keys, r.vals \o l.vals)
                  ELSE Internal(Append(l.keys, parent.keys[i]) \o r.keys,
                                l.children \o r.children)
    IN  Write(Reclaim(Write(store, Last(path).id,
                            Internal(RemoveAt(parent.keys, i),
                                     RemoveAt(parent.children, i + 1))),
                      Siblings[i + 1]),
              Siblings[i], merged)

(* Child i + 1 of the parent goes into child i, with the separator between  *)
(* them if they are internal; its id is reclaimed.                          *)
Merge(i) ==
    LET parent == Node(Last(path).id)
        l == Node(Siblings[i])
        r == Node(Siblings[i + 1])
        merged == IF IsLeaf(l)
                  THEN Leaf(l.keys \o r.keys, l.vals \o r.vals)
                  ELSE Internal(Append(l.keys, parent.keys[i]) \o r.keys,
                                l.children \o r.children)
    IN  Write(Reclaim(Write(store, Last(path).id,
                            Internal(RemoveAt(parent.keys, i),
                                     RemoveAt(parent.children, i + 1))),
                      Siblings[i + 1]),
              Siblings[i], merged)

(* cur is under-full: borrow from the left, else from the right, else merge *)
(* with the left, else with the right. A child is never alone here.         *)
Rebalance ==
    /\ pc = "rebalance"
    /\ path # <<>>
    /\ UnderFull
    /\ \/ /\ CanLend(ToLeft)
          /\ store' = BorrowFromLeft
       \/ /\ ~CanLend(ToLeft)
          /\ CanLend(ToRight)
          /\ store' = BorrowFromRight
       \/ /\ ~CanLend(ToLeft)
          /\ ~CanLend(ToRight)
          /\ ToLeft >= 1
          /\ store' = Merge(ToLeft)
       \/ /\ ~CanLend(ToRight)
          /\ ToLeft < 1
          /\ ToRight <= Len(Siblings)
          /\ store' = Merge(Last(path).idx)
    /\ Ascend
    /\ UNCHANGED <<root, len, pc, arg, split, ret>>

(* Mutant: a root with a single child stays.                                *)
FinishRemoveUncollapsed ==
    /\ pc = "rebalance"
    /\ path = <<>>
    /\ Return(ret, root)
    /\ len' = len - 1
    /\ UNCHANGED store

(* collapse_root, then the caller counts the entry out.                     *)
FinishRemove ==
    /\ pc = "rebalance"
    /\ path = <<>>
    /\ IF ~IsLeaf(Node(root)) /\ Len(Node(root).children) = 1
       THEN store' = Reclaim(store, root) /\ Return(ret, Node(root).children[1])
       ELSE store' = store /\ Return(ret, root)
    /\ len' = len - 1

-----------------------------------------------------------------------------

Clear ==
    /\ pc = "idle"
    /\ store' = ResetStore
    /\ root' = AllocId(EmptyStore)
    /\ cur' = AllocId(EmptyStore)
    /\ len' = 0
    /\ UNCHANGED <<pc, arg, path, split, ret>>

Step == \/ Descend
        \/ GetAnswer
        \/ InsertReplace \/ InsertFits \/ InsertSplit
        \/ AbsorbFits \/ AbsorbSplit \/ GrowRoot
        \/ RemoveAbsent \/ RemoveEntry
        \/ Sufficient \/ Rebalance \/ FinishRemove

Next == GetCall \/ InsertCall \/ RemoveCall \/ Step \/ Clear

(* A call runs on the thread of its caller, which is scheduled.             *)
Spec == Init /\ [][Next]_vars

FairSpec == Spec /\ WF_vars(Step)
-----------------------------------------------------------------------------

Inner(id) == ~IsLeaf(Node(id))

Leaves == {id \in Live(store) : ~Inner(id)}

Children(id) == Node(id).children

(* A split's right half that no parent links yet.                           *)
Pending == IF split = NoSplit THEN {} ELSE {split.right}

(* Types of the backend, of the handle and of the running call: which       *)
(* operations work their way back up, and when a split is pending.          *)
TypeOK ==
    /\ store \in StoreType
    /\ root \in NodeId
    /\ len \in Int
    /\ pc \in {"idle", "descend", "absorb", "rebalance"}
    /\ \/ pc = "idle" /\ arg = NoArg
       \/ pc \in {"descend", "rebalance"}
          /\ arg \in [op : {"get", "remove"}, key : Key, val : {None}]
       \/ pc \in {"descend", "absorb"}
          /\ arg \in [op : {"insert"}, key : Key, val : Val]
    /\ pc = "rebalance" => arg.op = "remove" /\ ret \in Val
    /\ path \in Seq([id : NodeId, idx : Nat \ {0}])
    /\ cur \in NodeId
    /\ IF pc = "absorb" THEN split \in [sep : Key, right : NodeId] ELSE split = NoSplit
    /\ ret \in Val \cup {None}

(* The lists of a node keep in step: a value for each key of a leaf, one    *)
(* more child than keys in an internal node.                                *)
Aligned ==
    \A id \in Live(store) :
        IF Inner(id) THEN Len(Children(id)) = KeysLen(Node(id)) + 1
                     ELSE Len(Node(id).vals) = KeysLen(Node(id))

(* The slab and the tree agree at every step of every call: each node in    *)
(* use is linked from one child slot (the root and a pending right half     *)
(* from none), and no link leads to a reclaimed slot. So no node leaks, and *)
(* none is shared (ops.rs:143-196, 251-263, 435-463; store.rs:72-89).       *)
NoLeakNoAlias ==
    LET tops == {root} \cup Pending
        inner == {id \in Live(store) : Inner(id)}
    IN  /\ tops \subseteq Live(store)
        /\ root \notin Pending
        /\ \A p \in inner : /\ IsInjective(Children(p))
                            /\ Range(Children(p)) \subseteq Live(store) \ tops
        /\ \A p, q \in inner : p # q => Range(Children(p)) \cap Range(Children(q)) = {}
        /\ \A id \in Live(store) \ tops : \E p \in inner : id \in Range(Children(p))

(* On the way back up each frame still has in its slot the node of the      *)
(* frame below it, whatever was split, rotated or merged there: child and   *)
(* idx, read before the recursive call, are not stale after it              *)
(* (ops.rs:77-91, 223-245).                                                 *)
FramesHold ==
    /\ IF path = <<>> THEN cur = root ELSE path[1].id = root
    /\ pc = "idle" => path = <<>>
    /\ cur \in Live(store)
    /\ \A j \in 1 .. Len(path) :
          LET f == path[j]
          IN  /\ f.id \in Live(store)
              /\ Inner(f.id)
              /\ f.idx \in 1 .. Len(Children(f.id))
              /\ Children(f.id)[f.idx] = (IF j = Len(path) THEN cur ELSE path[j + 1].id)

(* level gives each node its height above the leaves: the same for all      *)
(* children of a node and for both halves of a split, one less at each      *)
(* frame of a call.                                                         *)
Leveled(level) ==
    /\ \A id \in Live(store) : IF Inner(id) THEN level[id] > 0 ELSE level[id] = 0
    /\ \A p \in Live(store) : Inner(p) =>
          \A c \in Range(Children(p)) : level[c] + 1 = level[p]
    /\ \A id \in Pending : level[id] = level[cur]
    /\ \A j \in 1 .. Len(path) : level[path[j].id] + j = level[root] + 1
    /\ level[cur] + Len(path) = level[root]

(* The height of each node, counted along its first children.               *)
Level ==
    LET level[id \in Live(store)] ==
            IF Inner(id) THEN level[Children(id)[1]] + 1 ELSE 0
    IN  level

(* Every leaf is at the same depth (tree.rs:372-373), also while a split is *)
(* being absorbed or a removal rebalanced, so siblings are always of the    *)
(* same kind (ops.rs:460).                                                  *)
SameDepth == Leveled(Level)

(* The nodes a lookup visits.                                               *)
Height == Level[root] + 1

(* The fewest entries of a tree of h levels above its leaves whose root is  *)
(* half full as well.                                                       *)
Fewest[h \in Nat] ==
    LET half == (Order - 1) \div 2
    IN  IF h = 0 THEN half ELSE (half + 1) * Fewest[h - 1]

(* The tree is no taller than its entries need, after any history of calls: *)
(* with h levels above the leaves it holds at least the entries of a root   *)
(* with two children and all other nodes half full, so that a lookup costs  *)
(* a number of node visits logarithmic in len (tree.rs:191-196, lib.rs:9).  *)
(* A level that removals emptied is given up at once.                       *)
ShallowTree ==
    LET h == Height - 1
    IN  pc = "idle" /\ h > 0 => len >= 2 * Fewest[h - 1]

(* No node ever holds order keys or more, not even the product of a merge,  *)
(* and a node other than the root holds at least min_keys (tree.rs:399-404),*)
(* except the one a removal is about to repair, which is one key short. An  *)
(* internal root has two children unless its collapse is due.               *)
Occupancy ==
    \A id \in Live(store) :
        LET owed == IF pc = "rebalance" /\ id = cur THEN 1 ELSE 0
        IN  /\ KeysLen(Node(id)) < Order
            /\ id # root => KeysLen(Node(id)) >= ((Order - 1) \div 2) - owed
            /\ id = root /\ Inner(id) => KeysLen(Node(id)) >= 1 - owed

(* The keys of the entries in the subtree of each node.                     *)
KeysUnder ==
    LET under[id \in Live(store)] ==
            IF Inner(id) THEN UNION {under[c] : c \in Range(Children(id))}
                         ELSE Range(Node(id).keys)
    IN  under

Ascending(s) == \A i, j \in DOMAIN s : i < j => s[i] < s[j]

Separates(k, l, r) == /\ \A x \in KeysUnder[l] : x < k
                      /\ \A x \in KeysUnder[r] : k <= x

(* "Every key in the subtree under children[i] is < keys[i], and every key  *)
(* under children[i + 1] is >= keys[i]" (node.rs:38-40), with the lists of  *)
(* each node in step and its keys strictly ascending, after every step of   *)
(* splits, rotations and merges; the same for a split not yet absorbed.     *)
Routing ==
    /\ Aligned
    /\ \A id \in Live(store) :
          LET n == Node(id)
          IN  /\ Ascending(n.keys)
              /\ Inner(id) => \A i \in DOMAIN n.keys :
                                  Separates(n.keys[i], n.children[i], n.children[i + 1])
    /\ split # NoSplit => Separates(split.sep, cur, split.right)

(* len counts the entries exactly (tree.rs:359-397): it lags by one between *)
(* the change of a leaf and the return of the call, and "len -= 1" never    *)
(* finds it at zero.                                                        *)
LenExact ==
    /\ len >= 0
    /\ len + (IF pc = "absorb" THEN 1 ELSE 0) - (IF pc = "rebalance" THEN 1 ELSE 0)
          = Cardinality({e \in Leaves \X (1 .. Order) : e[2] <= KeysLen(Node(e[1]))})

(* The map the leaves hold.                                                 *)
Contents ==
    [k \in Key |-> IF \E id \in Leaves : k \in Range(Node(id).keys)
                   THEN LET id == CHOOSE l \in Leaves : k \in Range(Node(l).keys)
                        IN  LeafValue(Node(id), k)
                   ELSE None]

Phase == CASE pc = "idle" -> "idle"
           [] pc = "descend" -> "pending"
           [] pc \in {"absorb", "rebalance"} -> "applied"

Map == INSTANCE OrderedMap
         WITH map <- Contents, size <- len, phase <- Phase, request <- arg, answer <- ret

(* The tree is a map (tree.rs:279-397): get, insert and remove answer the   *)
(* value the key had, reach it through the separators, take effect once, at *)
(* the leaf, and no split, rotation, merge or collapse changes the map.     *)
ImplementsMap == Map!Spec

(* The steps a call can still take: the frames to go down and, once at its  *)
(* leaf, those to come back up.                                             *)
Effort ==
    CASE pc = "idle" -> 0
      [] pc = "descend" -> 2 * Level[cur] + Len(path) + 2
      [] pc \in {"absorb", "rebalance"} -> Len(path) + 1

(* A call takes at most two steps for each node on the way to a leaf: the   *)
(* way down meets each level once, each split, rotation or merge is         *)
(* followed by the frame above, and no step is repeated (ops.rs:77-91,      *)
(* 223-245).                                                                *)
CallsEnd ==
    [][/\ pc = "idle" => Effort' <= 2 * Height
       /\ pc # "idle" => Effort' < Effort]_vars

(* A step that only restructures is a stutter of the map, so every call     *)
(* must also come to its end: no path through the tree is endless, no       *)
(* repair on the way up is left without a branch to take.                   *)
CallsReturn == pc # "idle" ~> pc = "idle"
=============================================================================
