----------------------------- MODULE MCCursors -----------------------------
(* Instances of the iterators, on trees with keys 1..N.                     *)
EXTENDS MCBPlusTree, Cursors

(* Ids do not matter (see View), nor do the bounds once a span is found.    *)
At(c) == IF c = NoCursor THEN c
         ELSE <<[i \in DOMAIN c.path |-> c.path[i].idx], c.idx, Node(c.leaf)>>

ScanView == <<View, open, At(span.front), At(span.back), yielded>>
=============================================================================
