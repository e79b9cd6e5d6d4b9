---------------------------- MODULE SortedScan ----------------------------
(* What iter and range promise: the entries of the map whose keys lie       *)
(* within the bounds, in ascending order of keys, each yielded once, from   *)
(* either end; then None for as long as the caller asks.                    *)
EXTENDS Integers

CONSTANTS Key, Val, None

VARIABLES map,      \* the value of each key, or None
          open,     \* whether an iterator borrows the map
          asked,    \* the bounds its caller asked for
          due,      \* the keys of the entries it has yet to yield
          yielded   \* the answer to the last call of next or next_back

vars == <<map, open, asked, due, yielded>>

(* Bounds on keys, as in a..b, a..=b and the other range expressions.       *)
Unbounded == [kind |-> "unbounded"]
Bound == {Unbounded} \cup [kind : {"included", "excluded"}, key : Key]

Above(k, b) == \/ b.kind = "unbounded"
               \/ b.kind = "included" /\ k >= b.key
               \/ b.kind = "excluded" /\ k > b.key

Below(k, b) == \/ b.kind = "unbounded"
               \/ b.kind = "included" /\ k <= b.key
               \/ b.kind = "excluded" /\ k < b.key

Within(lower, upper) == {k \in Key : map[k] # None /\ Above(k, lower) /\ Below(k, upper)}

Init == /\ map = [k \in Key |-> None]
        /\ open = FALSE
        /\ asked = <<Unbounded, Unbounded>>
        /\ due = {}
        /\ yielded = None

(* The map changes only while no iterator borrows it.                       *)
Change == /\ ~open
          /\ map' \in [Key -> Val \cup {None}]
          /\ UNCHANGED <<open, asked, due, yielded>>

Open(lower, upper) ==
    /\ ~open
    /\ open' = TRUE
    /\ asked' = <<lower, upper>>
    /\ due' = Within(lower, upper)
    /\ UNCHANGED <<map, yielded>>

(* An answer of next or next_back: k's entry is yielded.                    *)
Yield(k) == yielded' = <<k, map[k]>> /\ due' = due \ {k}

Exhausted == due = {} /\ yielded' = None /\ UNCHANGED due

TakeFirst ==
    /\ open
    /\ \/ Exhausted
       \/ \E k \in due : (\A j \in due : k <= j) /\ Yield(k)
    /\ UNCHANGED <<map, open, asked>>

TakeLast ==
    /\ open
    /\ \/ Exhausted
       \/ \E k \in due : (\A j \in due : j <= k) /\ Yield(k)
    /\ UNCHANGED <<map, open, asked>>

Drop == /\ open
        /\ open' = FALSE
        /\ asked' = <<Unbounded, Unbounded>>
        /\ due' = {}
        /\ yielded' = None
        /\ UNCHANGED map

Next == \/ Change
        \/ \E lower, upper \in Bound : Open(lower, upper)
        \/ TakeFirst
        \/ TakeLast
        \/ Drop

Spec == Init /\ [][Next]_vars
=============================================================================
