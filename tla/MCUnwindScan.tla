---------------------------- MODULE MCUnwindScan ----------------------------
(* The tree with panics, as a cursor finds it: no iterator is open while    *)
(* calls are made, so the iterator's own state stays as it is.              *)
EXTENDS MCUnwind, Cursors

UnwindScanInit == UnwindInit /\ ScanInit

UnwindScanSpec == UnwindScanInit /\ [][UnwindNext /\ UNCHANGED scan]_<<unwindVars, scan>>

(* The entries of the tree, from its leftmost leaf to its rightmost one.    *)
Entries ==
    LET under[id \in Live(store)] ==
            IF Inner(id) THEN FlattenSeq([i \in DOMAIN Children(id) |-> under[Children(id)[i]]])
            ELSE [i \in DOMAIN Node(id).keys |-> <<Node(id).keys[i], Node(id).vals[i]>>]
    IN  under[root]

(* "A cursor at the first (smallest) entry, or None if the tree is empty"   *)
(* (iter.rs:52): iteration of a tree with entries has a place to start.     *)
FirstUnlessEmpty == pc = "idle" /\ FirstCursor = NoCursor => Entries = <<>>
=============================================================================
