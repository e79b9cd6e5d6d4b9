------------------------------ MODULE BulkLoad ------------------------------
(* from_sorted (src/src/tree.rs) and bulk_load (ops.rs): ascending entries  *)
(* become a tree built level by level, any others are inserted one by one.  *)
(* The tree is then used like any other. One step is one turn of a loop.    *)
EXTENDS BPlusTree

CONSTANT Input   \* the sequences of entries callers load

ASSUME InputAssumption == Input \subseteq Seq(Entry)

VARIABLES phase,   \* "new", "leaves", "levels", "inserts", then "ready"
          input,   \* the entries given to from_sorted
          level,   \* what is to be packed: entries, or nodes with their least keys
          above    \* the nodes packed from it so far

load == <<phase, input, level, above>>
loadVars == <<vars, load>>

Ascends(es) == \A i \in 1 .. Len(es) - 1 : es[i][1] < es[i + 1][1]

-----------------------------------------------------------------------------
(* even_chunks: total items in the fewest chunks of at most max.            *)

Chunks(total, max) == (total + max - 1) \div max

(* Mutant: all chunks but the last one are full.                            *)
GreedyTaken(total, max, i) == IF i * max < total THEN i * max ELSE total

(* Mutant: what does not divide evenly is forgotten.                        *)
TakenEven(total, max, i) == i * (total \div Chunks(total, max))

(* How many items the first i chunks take: each total div chunks of them,   *)
(* the first (total mod chunks) of the chunks one more.                     *)
Taken(total, max, i) ==
    LET chunks == Chunks(total, max)
        base == total \div chunks
        remainder == total % chunks
    IN  i * base + (IF i < remainder THEN i ELSE remainder)

Chunk(items, max, i) ==
    SubSeq(items, Taken(Len(items), max, i - 1) + 1, Taken(Len(items), max, i))

-----------------------------------------------------------------------------

LoadInit == /\ Init
            /\ phase = "new"
            /\ input = <<>>
            /\ level = <<>>
            /\ above = <<>>

(* Mutant: equal neighbours pass for ascending.                             *)
FromSortedWeak(es) ==
    /\ phase = "new"
    /\ input' = es
    /\ level' = es
    /\ IF \A i \in 1 .. Len(es) - 1 : es[i][1] <= es[i + 1][1]
       THEN phase' = "leaves" /\ store' = EmptyStore
       ELSE phase' = "inserts" /\ UNCHANGED store
    /\ UNCHANGED <<root, len, call, above>>

(* The windows(2) test chooses the way; insertion starts from a new tree.   *)
FromSorted(es) ==
    /\ phase = "new"
    /\ input' = es
    /\ level' = es
    /\ IF Ascends(es) THEN phase' = "leaves" /\ store' = EmptyStore
                      ELSE phase' = "inserts" /\ UNCHANGED store
    /\ UNCHANGED <<root, len, call, above>>

(* The tree is handed to the caller, who keeps nothing else of the load.    *)
Ready == /\ phase' = "ready"
         /\ input' = <<>>
         /\ level' = <<>>
         /\ above' = <<>>

LoadNothing ==
    /\ phase = "leaves"
    /\ input = <<>>
    /\ store' = Alloc(store, EmptyLeaf)
    /\ root' = AllocId(store)
    /\ cur' = AllocId(store)
    /\ len' = 0
    /\ Ready
    /\ UNCHANGED <<pc, arg, path, split, ret>>

(* Pack the next chunk of level in the node given.                          *)
Pack(node, min) ==
    /\ Room(store)
    /\ store' = Alloc(store, node)
    /\ above' = Append(above, [id |-> AllocId(store), min |-> min])
    /\ UNCHANGED <<root, len, call, phase, input, level>>

NextChunk(max) == Chunk(level, max, Len(above) + 1)

LoadLeaf ==
    /\ phase = "leaves"
    /\ Len(above) < Chunks(Len(level), Order - 1)
    /\ LET c == NextChunk(Order - 1)
           keys == [j \in DOMAIN c |-> c[j][1]]
       IN  Pack(Leaf(keys, [j \in DOMAIN c |-> c[j][2]]), keys[1])

(* Mutant: the first child gives its least key, but is not linked.          *)
PackedSkipsFirst(c) == Internal([j \in 1 .. Len(c) - 1 |-> c[j + 1].min],
                                [j \in 1 .. Len(c) - 1 |-> c[j + 1].id])

(* Mutant: each child but the last gives the separator.                     *)
PackedLeftMins(c) == Internal([j \in 1 .. Len(c) - 1 |-> c[j].min],
                              [j \in DOMAIN c |-> c[j].id])

(* The least key of each child but the first is the separator on its left.  *)
Packed(c) == Internal([j \in 1 .. Len(c) - 1 |-> c[j + 1].min],
                      [j \in DOMAIN c |-> c[j].id])

(* Mutant: a parent is known by the least key of its last child.            *)
LoadInternalLastMin ==
    /\ phase = "levels"
    /\ Len(level) > 1
    /\ Len(above) < Chunks(Len(level), Order)
    /\ Pack(Packed(NextChunk(Order)), Last(NextChunk(Order)).min)

(* The first child's least key becomes the node's.                          *)
LoadInternal ==
    /\ phase = "levels"
    /\ Len(level) > 1
    /\ Len(above) < Chunks(Len(level), Order)
    /\ Pack(Packed(NextChunk(Order)), Head(NextChunk(Order)).min)

Raise(max) ==
    /\ Len(above) = Chunks(Len(level), max)
    /\ phase' = "levels"
    /\ level' = above
    /\ above' = <<>>
    /\ UNCHANGED <<vars, input>>

(* Mutant: the loop packs the same level again and again.                   *)
RaiseSameLevel ==
    \/ phase = "leaves" /\ input # <<>> /\ Raise(Order - 1)
    \/ /\ phase = "levels"
       /\ Len(level) > 1
       /\ Len(above) = Chunks(Len(level), Order)
       /\ above' = <<>>
       /\ UNCHANGED <<vars, phase, input, level>>

RaiseLevel ==
    \/ phase = "leaves" /\ input # <<>> /\ Raise(Order - 1)
    \/ phase = "levels" /\ Len(level) > 1 /\ Raise(Order)

LoadDone ==
    /\ phase = "levels"
    /\ Len(level) = 1
    /\ root' = level[1].id
    /\ cur' = level[1].id
    /\ len' = Len(input)
    /\ Ready
    /\ UNCHANGED <<store, pc, arg, path, split, ret>>

InsertNext ==
    /\ phase = "inserts"
    /\ level # <<>>
    /\ Call("insert", Head(level)[1], Head(level)[2])
    /\ level' = Tail(level)
    /\ UNCHANGED <<phase, input, above>>

InsertsDone ==
    /\ phase = "inserts"
    /\ level = <<>>
    /\ pc = "idle"
    /\ Ready
    /\ UNCHANGED vars

Load == \/ \E es \in Input : FromSorted(es)
        \/ LoadNothing \/ LoadLeaf \/ LoadInternal \/ RaiseLevel \/ LoadDone
        \/ InsertNext \/ InsertsDone
        \/ phase = "inserts" /\ Step /\ UNCHANGED load

Use == phase = "ready" /\ Next /\ UNCHANGED load

(* Fairness is for the steps of a load that has begun: nothing makes a      *)
(* caller ask for one.                                                      *)
LoadSpec == LoadInit /\ [][Load]_loadVars /\ WF_loadVars(phase # "new" /\ Load)

LoadUseSpec == LoadInit /\ [][Load \/ Use]_loadVars
-----------------------------------------------------------------------------

(* The tree exists, as a value of its own.                                  *)
Built == phase \in {"inserts", "ready"}

(* What a load returns is a tree like those insertion builds, and stays one *)
(* under later calls: one depth, nothing leaked or shared, and live frames, *)
(* though no insertion ever made its shape (ops.rs:465-469).                *)
LoadedTree == Built => SameDepth /\ NoLeakNoAlias /\ FramesHold

(* "every node lands within the legal occupancy range" (ops.rs:468-469),    *)
(* whatever the number of entries and on every level.                       *)
LoadedOccupancy == Built => Occupancy

(* Every key is found from the root, and len is right (ops.rs:480-530).     *)
LoadedRouting == Built => Routing /\ LenExact

(* While levels are packed, each node waiting for a parent is paired with   *)
(* the least key below it, and its keys end before its right neighbour's    *)
(* begin, so that least keys are right for separators (ops.rs:503-525).     *)
LevelsOrdered ==
    LET Ordered(nodes) ==
            \A i \in DOMAIN nodes :
                /\ nodes[i].min \in KeysUnder[nodes[i].id]
                /\ \A k \in KeysUnder[nodes[i].id] :
                      nodes[i].min <= k /\ (i < Len(nodes) => k < nodes[i + 1].min)
    IN  Ordered(above) /\ (phase = "levels" => Ordered(level))

(* The map of a sequence of entries: a later duplicate overwrites.          *)
MapOf(es) ==
    [k \in Key |-> LET at == {i \in DOMAIN es : es[i][1] = k}
                   IN  IF at = {} THEN None
                       ELSE es[CHOOSE i \in at : \A j \in at : j <= i][2]]

(* "a later duplicate key overwrites an earlier one" (tree.rs:106-108), and *)
(* nothing given to from_sorted is lost on either way.                      *)
LoadExact ==
    [][phase # "ready" /\ phase' = "ready" =>
          Contents' = MapOf(input)]_loadVars

(* The most turns of a loop it can still take to pack what is left.         *)
PackingLeft ==
    CASE phase = "leaves" -> 2 * Len(level) - Len(above) + 2
      [] phase = "levels" -> 2 * Len(level) - Len(above)
      [] phase \in {"new", "inserts", "ready"} -> 0

(* A bulk load takes time linear in its entries (docs/API.md:694): at most  *)
(* 2n + 2 turns, for every turn leaves less to pack, and the level below    *)
(* pays for the one above it. Insertion one by one ends as well: entry by   *)
(* entry, and step by step of each call.                                    *)
LoadLinear ==
    [][/\ phase = "new" => PackingLeft' <= 2 * Len(input') + 2
       /\ phase \in {"leaves", "levels"} => PackingLeft' \in 0 .. PackingLeft - 1
       /\ phase = "inserts" /\ phase' = "inserts" =>
             \/ Len(level') < Len(level)
             \/ level' = level /\ Effort' < Effort]_loadVars

(* A load that has begun returns: the levels shrink until a single root     *)
(* remains, or each entry is inserted in its turn (ops.rs:498, tree.rs:145).*)
LoadReturns == phase # "new" ~> phase = "ready"
=============================================================================
