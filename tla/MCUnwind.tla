------------------------------ MODULE MCUnwind ------------------------------
(* Instances of the tree with panics.                                       *)
EXTENDS MCBPlusTree, Unwind

(* The panics since the last clear are part of what a state is (see View).  *)
UnwindView == <<View, torn, astray>>
=============================================================================
