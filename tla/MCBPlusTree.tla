---------------------------- MODULE MCBPlusTree ----------------------------
(* Instances of the tree: keys 1..N, each with a value of its own (one key  *)
(* with two), and an id space that is never exhausted.                            *)
EXTENDS BPlusTree

CONSTANT N

MCKey == 1 .. N

MCVal == 11 .. 10 + N

OneValueEach == {<<k, k + 10>> : k \in MCKey}

(* Key 3 comes with two values, so that an insert may change a value.       *)
OneKeyTwice == OneValueEach \cup {<<3, 11>>}

(* The tree without its ids. The code treats ids as opaque, and the order   *)
(* of the free list only decides which id a new node is given, so states    *)
(* that differ in nothing else behave alike: one of them is explored.       *)
Shape ==
    LET shape[id \in NodeId] ==
            IF Inner(id)
            THEN Internal(Node(id).keys,
                          [i \in DOMAIN Node(id).children |-> shape[Node(id).children[i]]])
            ELSE Node(id)
    IN  shape

View == <<Shape[root], Cardinality(Live(store)), Len(store.free), len, pc, arg,
          [i \in DOMAIN path |-> path[i].idx],
          IF split = NoSplit THEN split ELSE [split EXCEPT !.right = Shape[@]],
          IF pc = "idle" THEN None ELSE ret>>
=============================================================================
