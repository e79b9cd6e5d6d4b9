---------------------------- MODULE OrderedMap ----------------------------
(* What BPlusTree promises its callers: a map from keys to values with the  *)
(* number of its entries. A call is made, takes effect in one step, and     *)
(* returns; the entry count is brought up to date no later than the return. *)
EXTENDS Naturals, FiniteSets

CONSTANTS Key, Val, Entry, None

VARIABLES map,      \* the value of each key, None when it has no entry
          size,     \* the number of entries, as a caller would be told it
          phase,    \* "idle", "pending" or "applied"
          request,  \* the call being served
          answer    \* the result of the last call to take effect

vars == <<map, size, phase, request, answer>>

NoRequest == [op |-> "none", key |-> None, val |-> None]

Entries(m) == {k \in Key : m[k] # None}

Init == /\ map = [k \in Key |-> None]
        /\ size = 0
        /\ phase = "idle"
        /\ request = NoRequest
        /\ answer = None

Request == [op : {"get", "remove"}, key : Key, val : {None}]
           \cup {[op |-> "insert", key |-> e[1], val |-> e[2]] : e \in Entry}

Call(r) ==
    /\ phase = "idle"
    /\ phase' = "pending"
    /\ request' = r
    /\ UNCHANGED <<map, size, answer>>

(* get answers the value of the key; insert answers the value it displaced; *)
(* remove answers the value it took out.                                    *)
Effect ==
    /\ answer' = map[request.key]
    /\ map' = CASE request.op = "get" -> map
                [] request.op = "insert" -> [map EXCEPT ![request.key] = request.val]
                [] request.op = "remove" -> [map EXCEPT ![request.key] = None]

Done ==
    /\ phase' = "idle"
    /\ request' = NoRequest
    /\ size' = Cardinality(Entries(map'))

Apply ==
    /\ phase = "pending"
    /\ Effect
    /\ \/ Done
       \/ phase' = "applied" /\ UNCHANGED <<size, request>>

Return ==
    /\ phase = "applied"
    /\ Done
    /\ UNCHANGED <<map, answer>>

Clear ==
    /\ phase = "idle"
    /\ map' = [k \in Key |-> None]
    /\ size' = 0
    /\ UNCHANGED <<phase, request, answer>>

Next == (\E r \in Request : Call(r)) \/ Apply \/ Return \/ Clear

Spec == Init /\ [][Next]_vars
=============================================================================
