----------------------------- MODULE TreeNode -----------------------------
(* The nodes of the B+tree (src/src/node.rs): leaves with entries, internal *)
(* nodes with separators and child ids, and the searches within one node.   *)
(* Positions and ids count from 1; the code counts from 0.                  *)
EXTENDS Integers, SequencesExt

CONSTANTS Key,   \* the keys a caller may use, ordered as integers are (K: Ord)
          Val    \* the values a caller may store

ASSUME KeyAssumption == Key \subseteq Int

Leaf(keys, vals) == [kind |-> "leaf", keys |-> keys, vals |-> vals]

Internal(keys, children) == [kind |-> "internal", keys |-> keys, children |-> children]

EmptyLeaf == Leaf(<<>>, <<>>)

IsLeaf(node) == node.kind = "leaf"

KeysLen(node) == Len(node.keys)

(* What binary_search returns on a sorted list: the position of k, or the   *)
(* one it would have to be inserted at.                                     *)
Position(keys, k) ==
    CHOOSE i \in 1 .. Len(keys) + 1 : /\ i > 1 => keys[i - 1] < k
                                      /\ i <= Len(keys) => k <= keys[i]

Found(keys, k) == LET i == Position(keys, k) IN i <= Len(keys) /\ keys[i] = k

(* Mutant: a key equal to a separator is sent to its left.                  *)
ChildIndexLeft(node, k) == Position(node.keys, k)

(* The child whose key range owns k: a separator is the lower bound of the  *)
(* subtree on its right.                                                    *)
ChildIndex(node, k) ==
    Position(node.keys, k) + (IF Found(node.keys, k) THEN 1 ELSE 0)

(* Mutant: key and value change places.                                     *)
LeafWithSwapped(leaf, k, v) ==
    LET i == Position(leaf.keys, k)
    IN  Leaf(InsertAt(leaf.keys, i, v), InsertAt(leaf.vals, i, k))

LeafWith(leaf, k, v) ==
    LET i == Position(leaf.keys, k)
    IN  Leaf(InsertAt(leaf.keys, i, k), InsertAt(leaf.vals, i, v))

LeafWithout(leaf, k) ==
    LET i == Position(leaf.keys, k)
    IN  Leaf(RemoveAt(leaf.keys, i), RemoveAt(leaf.vals, i))

LeafValue(leaf, k) == leaf.vals[Position(leaf.keys, k)]

-----------------------------------------------------------------------------

NodeOf(Ids) == [kind : {"leaf"}, keys : Seq(Key), vals : Seq(Val)]
               \cup [kind : {"internal"}, keys : Seq(Key), children : Seq(Ids)]
=============================================================================
