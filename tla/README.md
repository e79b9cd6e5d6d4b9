# Verification of index-db

index-db is an ordered map for Rust, a B+tree whose nodes live in a slab and refer to each other by
id (`src/src`, about 1600 lines without tests). This directory holds TLA+ modules of its parts, TLC
configurations that check them on small instances, and proofs, checked by the TLA+ proof system, of
facts that hold for every instance.

Contents: 1 the system, 2 the modules, 3 the runs, 4 the fairness, 5 the proofs, 6 what is not
covered, 7 the disagreements found, 8 the plan.

## 1 The system

| Part | Code | State | Operations |
|---|---|---|---|
| nodes | `node.rs` | a leaf's keys and values; an internal node's separators and child ids | `get`, `remove`, `child_index` |
| node store | `store.rs` | a slab of nodes, a stack of reclaimed ids | `alloc`, `reclaim`, `get`, `get_mut`, `reset` |
| tree operations | `ops.rs:29-463` | none that lasts: recursion over node ids | `get`, `insert`, `remove` |
| bulk loading | `ops.rs:465-547`, `tree.rs:98-151` | the level being packed | `from_sorted`, `bulk_load`, `even_chunks` |
| handle | `tree.rs` | root id, store, order, number of entries | `insert`, `remove`, `get`, `clear`, and readers |
| cursors, iterators | `iter.rs` | two cursors: a path, a leaf, an index each | `iter`, `range`, `next`, `next_back` |

**How they interact.** A caller calls the handle. The handle calls one of the operations with its
store and root, and stores the root it gets back. The operations call themselves down the tree and
do their work on the way back up, reading and writing each node through the store. Iterators read
the store through a shared borrow; Rust's borrow rules exclude every change while one is open. There
are no messages, locks or threads in the crate. The only calls back into the caller's code are those of
the keys' `Ord`, in every search, and `Clone`, in splits, in rotations and in bulk loading; a panic there
unwinds through a half-finished operation.

**What is hard here.** Not interleavings: there is one writer. It is the length of histories. A node
is split, lends an entry, is merged away and its id given out again; separators outlive the keys they
were copied from; a call holds child ids and slots across a recursive call that rewrites the nodes
below; the count of entries is kept apart from the tree; the two ends of an iterator advance
independently through leaves. A panic of the caller's code cuts a call short between two of its writes,
and a caller that catches it goes on with the tree. What goes wrong in one call shows many calls later, as a key that a scan
yields and `get` does not find.

**What makes each part correct.**

- Store: an id in use is never handed out again; every id resolves to the node last written through
  it; a reclaimed slot is reused, and never has two owners.
- Tree operations: all leaves at one depth; every node in use reachable by one link and no link to a
  reclaimed slot; node sizes within the bounds of the order; every key below the separators that lead
  to it; the frames of the recursion never stale; every call ends.
- Handle: the tree is a map, each call takes effect once, `len` is exact.
- Bulk loading: a loaded tree has all the properties of a tree built by insertion, at every size, and
  keeps them under later calls; nothing is lost, the last duplicate wins.
- Iterators: exactly the entries within the bounds, in order, each once, from either end.

`PROJECT.json` lists the places where each of these could go wrong ("hazards").

## 2 The modules

| Module | Models | Extends |
|---|---|---|
| `TreeNode` | `node.rs`: the nodes and the searches within one | |
| `SlabStore` | `store.rs`: `InMemoryStore` as operations on a value | `TreeNode` |
| `NodeStore` | the trait `NodeStore`: what a backend promises (abstract) | |
| `InMemoryStore` | the slab driven by any client that only uses ids it holds; implements `NodeStore` | `SlabStore` |
| `BPlusTree` | `ops.rs` and `tree.rs`: get, insert, remove, clear | `SlabStore` |
| `OrderedMap` | what the handle promises: a map and a count (abstract) | |
| `BulkLoad` | `from_sorted`, `bulk_load`, `even_chunks`, and calls on the loaded tree | `BPlusTree` |
| `Unwind` | the panics of the caller's `Ord` and `Clone`, in every call, and the calls made after them | `BPlusTree` |
| `Cursors` | `iter.rs`, on every tree the calls build; implements `SortedScan` | `BPlusTree` |
| `SortedScan` | what `iter` and `range` promise: the entries within bounds, in order (abstract) | |
| `MC...` | values of the constants for TLC, and views; `MCUnwindScan` puts `Unwind` and `Cursors` together | |
| `...Proofs` | theorems (section 5) | |

**State and code.** `store`, `root` and `len` are the fields of `BPlusTree`; `Order` is its `order`.
Ids count from 1 in the modules and from 0 in the code. The recursion of `insert_into` and
`remove_from` is a stack: `path` has a frame (node, child slot taken) per activation, `cur` is the node
of the innermost call, `split` the `Insert::Split` it has returned, `ret` the value on its way to the
caller, `pc` whether the call goes down or back up. One action is what one function does between its
calls of the others:

| Action | Code |
|---|---|
| `Descend` | one turn of `get`, `insert_into` or `remove_from` at an internal node |
| `InsertReplace`, `InsertFits`, `InsertSplit` | the three outcomes of `insert_leaf` |
| `AbsorbFits`, `AbsorbSplit` | `absorb_split` without and with a split of the parent |
| `GrowRoot` | the new root in `insert` |
| `RemoveAbsent`, `RemoveEntry` | `remove_from` at the leaf |
| `Sufficient`, `Rebalance` | the return to the parent: nothing to repair, or `rebalance` with `borrow_from_left`, `borrow_from_right` or `merge` |
| `FinishRemove` | `collapse_root` and `len -= 1` |
| `GetAnswer`, `Clear` | the end of `get`; `clear` |
| `Height` (no action) | `height` |

Frames that return without another change (`insert_into` after `Done`, say) return in one step with
the action before them. The branch of `rebalance` for a child without siblings is not an action of
`BPlusTree`: no node is ever without one (`SiblingTheorem`, and `tree_order3` would report a deadlock).
After a panic a node can be, so `Unwind` has it (`Unrepaired`).

**Panics.** Unwinding drops the frames of the recursion and does not reach the assignments of `root` and
`len` in `tree.rs:359-366` and `389-396`; the store keeps the writes made so far. `Unwound(st)` is that
end of a call. `Unwind` has an action for each place where the caller's code runs:

| Action | Where | What the writes so far leave |
|---|---|---|
| `SearchPanics` | a comparison, at any node of any call | nothing: every search precedes the first write |
| `SplitPanics` | `ops.rs:123`, the separator of a split leaf | the lower half; the upper half is dropped |
| `LeftBorrowPanics` | `ops.rs:330`, a leaf borrows from its left | the left leaf without its last entry, which is dropped |
| `RightBorrowPanics` | `ops.rs:386`, a leaf borrows from its right | the entry moved over, its separator unchanged |
| `InnerBorrowPanics` | `ops.rs:339`, `397`, an internal node borrows | nothing: the node stays one key short |

All other actions are those of `BPlusTree`, so calls made after a panic work on what it left. `torn`
counts the panics that left damage since the last `clear`; `astray` says whether one of them was a
`RightBorrowPanics`. Both are only read by the bound and by the properties. Calls start only while every
list of keys is strictly ascending (`Followed`): where a list holds a key twice, `binary_search` may find
either, and where it is not sorted, its contract says nothing.

In `BulkLoad` one action is one turn of a loop of `bulk_load`: `LoadLeaf`, `LoadInternal`, and
`RaiseLevel` between levels; or one insertion (`InsertNext`, then the steps of `BPlusTree`). The sizes
`even_chunks` returns are kept as running totals (`Taken`), which is where each chunk begins; that
they add up is a theorem. In `Cursors` a cursor is its `path`, `leaf` and `idx`, and each method is an
operator: the loops up to the deepest frame that can turn, and down an edge, are one step, because
nothing can change meanwhile. Cursors compare leaves by address in the code and by id in the model,
which is the same while the tree is borrowed.

**Abstractions.** Keys are integers (any total order would do: only comparisons are used).
`binary_search` is modelled by its contract on a sorted list, and sortedness is part of `Routing`.
Ownership (`mem::replace`, `mem::take`, moves in and out of slots) is not modelled: a slot holds its
node until it is written. Vector capacities and the inlining attributes are left out.

**Abstract specifications.** `InMemoryStore` implements `NodeStore` with the arena of nodes in use as
the mapping. `BPlusTree` implements `OrderedMap` with the leaves' entries as the map: a call takes
effect in one step, at its leaf; its other steps, with all splits, rotations and merges, are stutters,
except that the count follows at the return. `Cursors` implements `SortedScan` with the same map, and the keys between the two cursors as
those whose entries are due.

## 3 The runs

| Run | Instance | Shows |
|---|---|---|
| `store` | slab of 4, all sequences of operations | types; the free list is sound; the trait is implemented |
| `store_wrap` | 2 ids, slab of 3 | the disagreement of section 7 |
| `tree_order3` | 7 keys, order 3, all sequences of calls | types, no leak and no sharing, one depth, frames, occupancy, routing, count, a height logarithmic in the count |
| `tree_order4` | the same at order 4 | where the halves of a split differ: no leak and no sharing, occupancy, routing, count |
| `tree_map` | 6 keys, one with two values, order 3, fair steps | the tree implements the ordered map, and every call returns, after at most two steps for each level |
| `load_use` | every ascending choice of 7 keys, and disordered and duplicate entries, order 3 | a loaded tree is sound and exact, and stays so under every sequence of calls; insertion one by one ends |
| `load_deep` | loads of 0 to 60 entries, order 4 | the same for deep loads, node by node; the load ends, in linear time |
| `load_churn` | lopsided loads of 16 keys, order 5, calls on them | repair of short nodes that still hold keys, at three levels |
| `unwind` | 6 keys, order 3, panics anywhere | the structure survives every panic; without one of `Clone` everything does; what a panic can cost |
| `unwind_routing`, `unwind_scan` | 6 keys, order 3 | disagreements of section 7 |
| `scans` | 6 keys, order 3, all pairs of bounds | iterators are valid, can always move, and implement the sorted scan |

**Bounds, and why they suffice.** `Order = 3` is `MIN_ORDER`, where a leaf has 1 or 2 entries and an
internal node 2 or 3 children, so seven keys already give trees of three levels, and every
branch of every operation is taken, on leaves and on internal nodes: left and right borrowing, merging
with either sibling, cascades of merges up to the collapse of the root, cascades of splits up to its
growth. `Order = 4` makes `n / 2` and `div_ceil` round differently. In `load_deep` 60 entries at order
4 make up to four levels of nodes with remainders on each. At orders 3 and 4 a node that is one key short
holds none, so a rotation or a merge appends to an empty list and could do it at the wrong end unseen;
order 5 is the least where it holds one. Trees of three levels need many keys there: the inputs of
`load_churn` are 16 keys with a duplicate at the end, or the last 13 ascending and then the first 3 descending,
which `from_sorted` inserts one after the other. That leaves three levels of least occupancy, with the right
internal node able to lend to the left one or the left one to the right one. Calls then remove keys and put
them back, at most `Missing` = 2 of them out at a time, so that internal nodes borrow from both sides and merge.

`PanicBound` = 1:
with 6 keys at order 3 one panic happens at every place, on leaves and internal nodes, and all sequences of
calls follow it; with 2 the same properties hold (4.7 million states, too long to keep as a run).
`IdSpace` (32 or 64) is more ids than any of these
trees needs, so `Room`, the guard for the id wrap, is never false; the wrap itself is `store_wrap`.

There is no bound on the number of calls: keys are finite, so trees are.

**Views.** The tree runs use `VIEW View`: two states are one when the trees have the same shape and
contents, the same number of nodes in use and on the free list, the same call in progress at the
same place. This drops the ids and the order of the free list. It is sound because the code treats ids
as opaque (it copies and compares none) and the free list only decides which id a new node
gets, so states equal in the view have steps to states equal in the view, and every property
checked is invariant under renaming ids. It also drops `ret` between calls, when no step reads it.
`ScanView` also drops the bounds after the two cursors are found, for no step reads them then;
`LoadView` uses ids only while a load is in progress.

`UnwindView` adds the panics since the last `clear`.

**Deadlock** is checked in every run but `load_deep`, which ends when the tree is loaded.

**Mutants.** Each checked property is paired in `PROJECT.json` with a plausible bug (an operator
next to the definition it replaces) under which TLC finds it violated: a key equal to a separator
sent left, a reclaimed id not put on the free list, a split position or `min_keys` off by one, a frame
not advanced with its leaf, a short last chunk, and so on.

## 4 Fairness

`FairSpec`, used by `tree_map`, has weak fairness on `Step`, the steps of a running call: a call is a synchronous function
on its caller's thread, which has nothing to wait for. No fairness is put on the calls themselves. With it,
`CallsReturn` says that no descent and no repair loops or gets stuck. `LoadSpec` has weak fairness
on the steps of a load that has begun, for the same reason and with the same exception: nothing makes a
caller ask for one, and `LoadReturns` is about the loads that were asked for. Nothing else needs fairness: the other properties are
safety.

## 5 The proofs

All are checked to the last leaf, for every order of at least 3, every set of integer keys, every set
of values, every number of ids, every choice of inputs in `BulkLoadProofs` and every number of panics in
`UnwindProofs`. The assumptions are the named `ASSUME`s on the constants
(`KeyAssumption`, `OrderAssumption`, ...); TLC evaluates each of them in a run.

| Module | Theorems |
|---|---|
| `InMemoryStoreProofs` | `StoreTypeTheorem`; `FreeListTheorem`: the free list is sound. `BackendTheorem`: the slab implements `NodeStore` |
| `TreeStructureProofs` | `StructureTheorem`: the nodes always form a tree. `TypeTheorem`, `NoLeakTheorem`, `FramesTheorem`, `SameDepthTheorem`: the invariants of the runs. `OccupancyTheorem`: no node is over-full or, but for the root and the one being repaired, too small. `SiblingTheorem`: a node to be repaired has a sibling |
| `TreeOrderProofs` | `SortedTheorem`: the nodes divide the keys among them by the separators |
| `TreeMapProofs` | `RoutingTheorem`: every key is where the separators lead. `MapTheorem`: the tree implements `OrderedMap`. `LenExactTheorem`: `len` counts the stored entries. `ShallowTreeTheorem`: the height is logarithmic in `len`. `CallsEndTheorem`: no call runs on |
| `UnwindProofs` | `UnwindTheorem`: the structure and the upper bounds survive every panic. `RoutingSurvivesTheorem`: so do the separators, but for one place. `CleanTreeTheorem`: panics of `Ord` damage nothing. `LenCoversTheorem`: `len` never falls below the entries stored |
| `BulkLoadProofs` | `EvenChunksTheorem`: what `even_chunks` returns. `ChunksLegal`: hence every node of a bulk load is of legal size. `LoadsTheorem`: what each phase of a load keeps. `LoadedTreeTheorem`, `LoadedOccupancyTheorem`, `LoadedRoutingTheorem`: a loaded tree is as sound as one built by insertion, and stays so. `LevelsOrderedTheorem`: the levels are packed in key order. `LoadExactTheorem`: nothing is lost, the last duplicate wins. `LoadLinearTheorem`: a load ends, in linear time if the entries ascend |
| `CursorsProofs` | `CursorsValidTheorem`: both ends of an iterator stay on entries they can find their way back from. `StepsMoveTheorem`: each can move while they differ. `ScanTheorem`: iterators implement `SortedScan` |
| `StoreTreeProofs` | lemmas on the lists of a node, on the store, and on trees of nodes in a store |

Each proof module extends the one above it in the chain `StoreTreeProofs`, `TreeStructureProofs`,
`TreeOrderProofs`, `TreeMapProofs`; `UnwindProofs`, `BulkLoadProofs` and `CursorsProofs` rest on the whole of it.

**The store.** The invariant is `FreeListSound` with types and `Len(slab) <= IdSpace`: the free list is
injective and within the slab. From it each operation on the slab maps to the same operation on the
arena.

**The tree.** None of the structural invariants is inductive alone. `SameDepth` is stated with a height
counted along first children; after a rotation the height of every node would have to be counted anew,
and in a cycle or a shared subtree it means nothing. So the inductive invariant asserts that there
*is* an assignment of levels (`Inductive(lv)`): every node in use has a level, 0 exactly for
leaves, one less than its parent's for a child (`TreeOK`); every node is linked from exactly one slot
but for the tops, which are the root and a split's right half that no parent has absorbed yet; this
right half is as high as `cur`; the frames follow the links from the root to `cur`, one level per frame
(`Framed`); with `TypeOK`. Each action keeps an assignment or extends it by the level of a new node.

The proof goes in three layers. `StoreTreeProofs` says first what cutting, lending and merging do to the lists
of a node, and then what a step does to a tree in a store, whatever the call is: a node
relinked, split, exchanged with a sibling, merged, grown above, collapsed. `TreeStructureProofs` has one
lemma per action, which applies one of these and shows that the frames survive it. Then `NoLeakNoAlias`
and `FramesHold` are parts of the invariant, and `SameDepth` follows by showing that the height counted
along first children equals any assignment of levels (`LevelIsHeight`).

That siblings are of the same kind, on which `merge` relies (`ops.rs:460`), is a consequence: they have
one level.

**Sizes.** On top of `Inductive(lv)` only the nodes taking part in a step matter, so this needs no induction
over the tree. The invariant is `Filled`: `NoneFull`, the upper bound, and `Sized`, the lower bounds with the
key that `cur` may owe while a removal is on its way up, and with one strengthening: a split `cur` is half
full even if it is the root, for `GrowRoot` makes it an ordinary node. The second half of `TreeStructureProofs` has one lemma per
action again. A split of a node of `order` keys leaves `order / 2` and at least `order - order / 2 - 1`; a merge joins
a node of less than `min_keys` with one of at most `min_keys` and at most one separator; with
`2 * min_keys < order` both are legal.

**Order.** `Routing` speaks of all keys under each child, a recursion over the tree, so it is not proved step
by step. The invariant, `Sorted`, is local: there are bounds `lo` and `hi` for every node such that its own keys
ascend between them and the bounds of each child are the separators beside it, or its
parent's where there is none (`Placed`). An empty set stands for no bound; the root has none. A lower
bound may be met and an upper one not, as a search goes right on a separator. One node is out of step with its parent: the lower half of a
split that no parent has absorbed yet has its keys below the new separator, while the slot it sits in still reaches as far
as before. So a node has a third bound, `out`, of its slot; it differs from `hi` at that node
only, and the right half begins where `hi` ends (`Ordered`). The key of a
call on its way down lies within the bounds of `cur`. A step changes the bounds of at most three nodes and
leaves the slots of all others (`Rebound`).
`RoutingTheorem` follows without induction: the union of the keys of a node and of those below its children is what
`KeysUnder` is (`KeysUnderDef`, by the closure `Below`), and of the nodes with a key
outside their bounds one of least level has a child with one.

**The map.** `MapHeld` says that `Contents` is the function of the key-value pairs in the leaves (`Pairs`). It follows from
`Sorted`: no key is in two leaves, for their bounds do not meet (`OneOwner`), and a search ends at the leaf whose
bounds hold its key (`OneLeaf`), so what it finds there is what the whole tree has. Pairs are what the
steps are followed by: a split, rotation, merge or collapse moves pairs between leaves and keeps the set (the lemmas
named `...Pairs`), three actions put one in or take one out (`Puts`, `Drops`), and `clear` drops all.

**The count.** `Counted` relates `len` to the number of keys the map holds: equal, but one behind while a
split or a repair works its way up (`Behind`), as `tree.rs:366` and `396` count after the recursion.
`LenExact` counts slots of leaves instead; `SlotIsKey`, `KeyHasSlot` and `OneSlot` are the
bijection between the two.

**The height.** No induction over the tree is needed to count its nodes: `Layer(lv, k)` are those of level `k`, and the pairs of a node
of level `k + 1` and one of its child slots map injectively into `Layer(lv, k)` (`LayerBelow`), for children are linked once. Every node
below the root has at least `half + 1` children, the root two, and a leaf at least `half` entries, so the product of `Fewest` comes
out layer by layer (`LayersWide`). `Fewest` is a recursive function over the numbers; that one exists
with its two equations is shown by functions up to each bound, which all agree (`UpToAgree`).

**The end of a call.** `Effort` is what a running call has left: two steps for each level still below it and one
for each frame. With `Level` equal to the levels of the invariant (`LevelIsHeight`) and `Framed` relating them
to the length of the path, each kind of step lowers it: a descent, the turn at the leaf, a repair, which
drops a frame, and the return. So a call on a tree of height `Height` takes at most `2 * Height` steps.

**The refinement.** `MapTheorem` has one lemma per kind of step: a call begins (`CallMaps`), takes effect
and returns in the same step (`DirectMaps`), takes effect and has to work its way up (`IndirectMaps`), returns (`ReturnMaps`), clears, or
stutters. Each step of the tree is that step of `OrderedMap`, from `Sorted`, `MapHeld` and `Counted`.

**Panics.** `Survives` is `Structure` with `NoneFull`, and it does not use the lower bounds, which a panic breaks:
every step of `BPlusTree` keeps it by the lemmas above, which were stated with the two bounds apart for this
reason. For the steps of `Unwind` it follows from the lemmas on trees in a store (a leaf replaced,
two leaves exchanged), because an unwound call leaves a tree below the old root and no frames. `Straight` adds that
the tree is `Sorted` until a `RightBorrowPanics`: a split cut short leaves the first keys of a leaf, a left
borrow cut short a leaf without its last key, and both still lie within the leaf's bounds. `Clean`,
`CleanMap` and `CleanCount` add sizes, map and count until any write is cut short.

After one, `len` can only be compared with what is stored. In a tree that a borrow from the right has led astray a key may be stored twice,
so the lemmas on pairs do not apply, and entries are counted by place, a leaf and an index (`StoredIn`), which needs the
structure alone. Every change of the store touches at most two leaves, and what the two hold before and after makes the
difference (`TwoChanged`); the lemmas named `...Stored` say what each action gains (`Gains`). The invariant is
`Covered`: `len`, with the entry the running call has still to count (`Tally`), is at least the entries stored, and at most
`torn * LostByOne` more. A call moves both alike (`Moves`); a panic drops the upper half of a split, or
one entry beside the one removed, uncounted (`Loses`).

**Bulk loading.** With `n` chunks, `total = n * base + rest`, the first `i` chunks take
`i * base + min(i, rest)` items. That chunks are at most `max` and, when there are two or more, at
least half of it, follows from `(n - 1) * max < total <= n * max`. `ChunksLegal` applies it to leaves
(chunks of at most `order - 1` entries) and internal nodes (of at most `order` children).

The invariant of a load is `Loads`, one disjunct per phase. While leaves are packed (`LeavesBuilt`) the store is a `Forest`: many
tops, the levels, bounds and sizes of the tree, where every node's lower bound is the least key loaded below it, and the pairs are exactly
those of the chunks taken so far; chunk `i` reaches from its first key up to the first key of the next (`PackedSoFar`). While a level is
packed (`LevelsBuilt`) the tops are the parents made so far and the nodes not yet taken, at one
height each. When one node is left it is the root, and the bounds of a forest become those of a tree by
dropping the least key as a bound (`Opened`): then the tree is `Filled` and `Sorted`, and all that was proved of
calls holds of it. Entries out of order are inserted one by one, which are calls of `BPlusTree`. For `LoadExactTheorem`,
`Inserted` says that the map is the one of the entries that have taken effect, all
that were taken but for one still on its way down; for packed entries it follows from the pairs, each key being given once. For
`LevelsOrderedTheorem`, the bounds of neighbours adjoin, and the lower bound of a node is met by a key (`LeastUnder`).

`PackingLeft` bounds the turns of the loops a load has left. Packing a node takes one off. Going up a level
from `n` items in `c` chunks exchanges `2n - c` for `2c`, which is less because `3c < 2n` for chunks of at most
`order >= 3` and two items or more (`FewChunks`); leaves may be packed in twos, which the constant 2 makes up for.
So a load of `n` ascending entries takes at most `2n + 2` turns, as `docs/API.md:694` says.

**Iterators.** A tree that stands is one no call is at work on (`Standing`). In it a cursor is at the end of a route: frames that
follow the links from the root to a leaf (`Route`, `Above`), and on an entry of that leaf (`Sits`). That the loops down an edge of the
tree, or towards a key, end at a leaf and leave a route (`WayLeads`) is shown by taking a lowest node where they do
not. The bounds of the leaf tell where it stands among all keys. The lower bound of the leaf a
forward step comes down to is the upper bound of the leaf it left: all frames below the one that turns were
at their last child, so the upper bound of the leaf is the separator right of the turn, and from there down the left edge
keeps it (`ForwardTurn`). So no key lies between the two entries (`Adjacent`). Where no frame can turn, the leaf has no upper
bound, and no key comes after it (`ForwardEnd`). `LowerBound` cuts the keys at a place in the leaf of
its key (`LowerCut`), and what it starts at is the first entry of the whole tree that the bound admits (`Starts`), stepping over to
the next leaf if need be (`CutForward`). Everything holds in the same way backwards.

The invariant, `ScanInv`, is that while an iterator is open no call is under way, and its two ends sit on entries, the front one at or before the
back one (`Held`). A step of one end takes one key, the least or the greatest, off those
between the ends (`FrontTaken`, `BackTaken`), also when the ends meet, which makes it the step `SortedScan` has.

**Recursion.** Three definitions are recursive functions over the nodes: `KeysUnder` and `Level` of the properties,
and `Way`. What they compute for every tree would take induction with an operator parameter, which the installed provers
cannot instantiate. The proofs get around it in the same way each time: of the nodes where the claim fails, one of least
level is taken, and a child of it contradicts it. `Fewest` is a function over the numbers, with the least number
instead of a lowest node.

**Only model-checked.**

- `CallsReturn` and `LoadReturns`: the proof system has no rules for fairness and none for `ENABLED`. Their safety half is
  proved: what is left to do shrinks with every step (`CallsEndTheorem`, `LoadLinearTheorem`), and a node to be repaired has
  a sibling to be repaired with (`SiblingTheorem`). That some step is always enabled is left to TLC,
  as liveness and as the absence of deadlock.

## 6 What is not covered

- **Panics beyond those of `Unwind`.** A panic of a key's `Drop`, or of `Clone` in a bulk load, where the tree
  under construction is dropped with it. Calls on a tree in which a panic has led to a list of keys that is unsorted or holds a key
  twice (`Followed`): this takes a panic in `RightBorrowPanics` and an insertion after it. At the default order of 64
  a leaf has to lose many entries before it is empty, which takes many panics; order 3 shows what one does there.
  `panic = "abort"` in `Cargo.toml` is a profile of the crate's own builds; a program that uses the
  crate unwinds by default.
- **Iteration over a damaged tree** beyond its first cursor: a cursor that steps into a leaf a panic has emptied
  indexes past the end of its keys (`iter.rs:36`).
- **Concurrent readers.** `get`, `iter` and `range` take `&self`, nothing inside is interior-mutable:
  readers do not interact. `Cursors` has one iterator at a time, and no `get` while it is open.
- **Page-backed and latch-coupled backends** are in the roadmap, not in the code.
- `len`, `is_empty`, `contains_key` and the `Debug` and `Default` impls only read or delegate.
- **A custom `Ord` that is not a total order.** Keys are assumed to be totally ordered.
- Memory: vector growth, allocation failure, drop order.
- Benchmarks, examples, CI.

## 7 Disagreements between comments and the code

**A fresh id.** `store.rs:30` says of `alloc`: "Store `node` and return a fresh id for it." A new slot is numbered
`self.slab.len() as u32` (`store.rs:77`), which wraps: once the slab has 2^32 slots and no id is free, the
next id is 0, which is in use, and the node just stored cannot be reached. `store_wrap` shows it with an id space
of 2. The proofs hold without an assumption on the size of trees because an action that needs an
id has the guard `Room`; they say nothing of what happens past the wrap.

**A key beyond its separator.** `node.rs:38-40` says that every key in the subtree under `children[i]` is less than
`keys[i]`. If the `Clone` of the new separator panics in `borrow_from_right` (`ops.rs:386`), the entry has moved to the left leaf
and the separator still sends its key to the right: scans yield the key and `get` does not find it.
`unwind_routing` shows it. It is the only panic with this effect: `RoutingSurvives` holds in `unwind`.

**No first entry.** `iter.rs:52` says of the first cursor: "`None` if the tree is empty". `first_cursor` goes to the leftmost leaf
and gives up if that leaf is empty (`iter.rs:64`). After a panic the leftmost leaf of a tree
with entries can be empty, and `iter` then yields none of them. `unwind_scan` shows it. Only a panic in a borrow leads there: one in a split
leaves the lower half.

## 8 Plan

Every property of the passing runs is proved, but for the two liveness properties. What is left, in this order:

1. That a running call always has a step to take, with the guards of `Step` written out as a state
   predicate: with `CallsEnd` it leaves only fairness to TLC.
2. The cost of an iterator's step: the loops of `step_forward` and `step_backward` climb and come down at most one
   frame per level.
