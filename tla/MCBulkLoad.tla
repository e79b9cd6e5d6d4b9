----------------------------- MODULE MCBulkLoad -----------------------------
(* Instances of bulk loading: entries with keys 1..N, in order or not.      *)
EXTENDS MCBPlusTree, BulkLoad

InOrder == [k \in MCKey |-> <<k, k + 10>>]

(* Ascending entries, as many as there are keys or fewer.                   *)
FirstEntries == {SubSeq(InOrder, 1, n) : n \in 0 .. N}

(* Every ascending choice of the keys.                                      *)
Selections == {SelectSeq(InOrder, LAMBDA e : e[1] \in s) : s \in SUBSET MCKey}

(* Short sequences in any order, with duplicate keys, and a long one.       *)
Disordered == UNION {[1 .. n -> {<<1, 11>>, <<2, 12>>, <<3, 13>>, <<3, 11>>}] : n \in 2 .. 3}
              \cup {Reverse(InOrder)}

AnyInput == Selections \cup Disordered

(* Inserted one after the other, at the end or before the first key, these  *)
(* make three levels of least occupancy: the right internal node can lend   *)
(* to the left one, or the left one to the right one.                       *)
Lopsided == {Append(InOrder, InOrder[1]),
             SubSeq(InOrder, 4, N) \o Reverse(SubSeq(InOrder, 1, 3))}

(* bound: callers have no more than this many entries out at a time.        *)
Missing == 2

(* The calls that take entries out and put them back; those that find       *)
(* nothing to change are left to the other runs.                            *)
Churn ==
    /\ phase = "ready"
    /\ \/ Step
       \/ RemoveCall /\ len > N - Missing /\ arg'.key \in KeysUnder[root]
       \/ InsertCall /\ arg'.key \notin KeysUnder[root]
    /\ UNCHANGED load

ChurnSpec == LoadInit /\ [][Load \/ Churn]_loadVars

(* Ids do not matter once a tree is built (see View).                       *)
LoadView == IF Built THEN <<View, load>> ELSE <<store, load>>
=============================================================================
