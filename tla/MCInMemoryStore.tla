-------------------------- MODULE MCInMemoryStore --------------------------
(* The slab store with ids 1..4 and three distinguishable nodes.            *)
EXTENDS InMemoryStore

MCKey == {1, 2}

MCContent == {EmptyLeaf, Leaf(<<1>>, <<1>>), Internal(<<2>>, <<1, 2>>)}
=============================================================================
