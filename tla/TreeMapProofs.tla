--------------------------- MODULE TreeMapProofs ---------------------------
(* What the order of the nodes gives: the separators are right, the leaves  *)
(* hold a map, and every step of the tree is a step of that map.            *)
EXTENDS TreeOrderProofs, FiniteSetTheorems

-----------------------------------------------------------------------------
(* The keys under a node. KeysUnder is defined along the children; a set of *)
(* nodes without such a recursion shows that the function exists.           *)
Closed(S) == /\ S \subseteq Live(store)
             /\ \A p \in S : Kids(store, p) \subseteq S

Below(id) == {x \in Live(store) : \A S : Closed(S) /\ id \in S => x \in S}

(* The nodes below a node are itself and those below its children.          *)
LEMMA BelowNode ==
    ASSUME NEW tops, NEW lv, TreeOK(store, tops, lv), NEW id \in Live(store)
    PROVE  \A x : x \in Below(id) <=> x = id \/ \E c \in Kids(store, id) : x \in Below(c)
<1>2. Kids(store, id) \subseteq Live(store)
  BY TreeFacts
<1>3. id \in Below(id)
  BY DEF Below
<1>4. ASSUME NEW c \in Kids(store, id), NEW x \in Below(c)
      PROVE  x \in Below(id)
  BY <1>2, <1>4 DEF Below, Closed
<1>5. ASSUME NEW x \in Below(id), x # id
      PROVE  \E c \in Kids(store, id) : x \in Below(c)
  <2> DEFINE S == {id} \cup {y \in Live(store) : \E c \in Kids(store, id) : y \in Below(c)}
  <2>1. ASSUME NEW p \in S, NEW q \in Kids(store, p)
        PROVE  q \in S
    <3>1. p \in Live(store) /\ q \in Live(store)
      BY <2>1, TreeFacts
    <3>2. CASE p = id
      <4>1. q \in Below(q)
        BY <3>1 DEF Below
      <4> QED
        BY <2>1, <3>1, <3>2, <4>1
    <3>3. CASE p # id
      <4>1. PICK c \in Kids(store, id) : p \in Below(c)
        BY <2>1, <3>3
      <4>2. q \in Below(c)
        BY <2>1, <3>1, <4>1 DEF Below, Closed
      <4> QED
        BY <3>1, <4>2
    <3> QED
      BY <3>2, <3>3
  <2>2. Closed(S) /\ id \in S
    BY <2>1 DEF Closed
  <2>3. x \in S
    BY <1>5, <2>2 DEF Below
  <2> QED
    BY <1>5, <2>3
<1> QED
  BY <1>3, <1>4, <1>5

(* The keys under a node are those under its children, in a tree and also   *)
(* in the several trees a bulk load is building.                            *)
LEMMA KeysUnderDef ==
    ASSUME NEW tops, NEW lv, TreeOK(store, tops, lv)
    PROVE  \A id \in Live(store) :
               KeysUnder[id] = IF Inner(id)
                               THEN UNION {KeysUnder[c] : c \in Range(Children(id))}
                               ELSE Range(Node(id).keys)
<1> DEFINE L == Live(store)
           up(f, id) == IF Inner(id) THEN UNION {f[c] : c \in Range(Children(id))}
                                     ELSE Range(Node(id).keys)
           g == [id \in L |-> UNION {Range(Node(x).keys) : x \in {y \in Below(id) : ~Inner(y)}}]
<1>2. ASSUME NEW id \in L PROVE g[id] = up(g, id)
  <2>1. /\ Kids(store, id) \subseteq L
        /\ Inner(id) => Kids(store, id) = Range(Children(id))
        /\ ~Inner(id) => Kids(store, id) = {}
    BY TreeFacts DEF Kids, NodeKids, Inner, Children, Node
  <2>2. \A x : x \in Below(id) <=> x = id \/ \E c \in Kids(store, id) : x \in Below(c)
    BY BelowNode
  <2>3. \A c \in L : \A k : k \in g[c] <=>
            \E x : x \in Below(c) /\ ~Inner(x) /\ k \in Range(Node(x).keys)
    OBVIOUS
  <2> HIDE DEF g
  <2>4. CASE Inner(id)
    <3>1. ASSUME NEW k
          PROVE  k \in g[id] <=> \E c \in Range(Children(id)) : k \in g[c]
      <4>1. k \in g[id] <=> \E x : x \in Below(id) /\ ~Inner(x) /\ k \in Range(Node(x).keys)
        BY <2>3
      <4>2. \A c \in Kids(store, id) : k \in g[c] <=>
                \E x : x \in Below(c) /\ ~Inner(x) /\ k \in Range(Node(x).keys)
        BY <2>1, <2>3
      <4> QED
        BY <2>1, <2>2, <2>4, <4>1, <4>2
    <3> QED
      BY <2>4, <3>1
  <2>5. CASE ~Inner(id)
    <3>1. \A x : x \in Below(id) <=> x = id
      BY <2>1, <2>2, <2>5
    <3>2. \A k : k \in g[id] <=> k \in Range(Node(id).keys)
      BY <2>3, <2>5, <3>1
    <3> QED
      BY <2>5, <3>2
  <2> QED
    BY <2>4, <2>5
<1> HIDE DEF g
<1>3. g = [id \in L |-> up(g, id)]
  <2>1. g = [id \in L |-> g[id]]
    BY DEF g
  <2> QED
    BY <1>2, <2>1
<1>4. KeysUnder = CHOOSE f : f = [id \in L |-> up(f, id)]
  BY DEF KeysUnder
<1>5. KeysUnder = [id \in L |-> up(KeysUnder, id)]
  <2> HIDE DEF up
  <2> DEFINE Solves(f) == f = [id \in L |-> up(f, id)]
  <2>1. KeysUnder = CHOOSE f : Solves(f)
    BY <1>4
  <2>2. Solves(g)
    BY <1>3
  <2> HIDE DEF Solves
  <2>3. Solves(KeysUnder)
    BY <2>1, <2>2
  <2> QED
    BY <2>3 DEF Solves
<1> QED
  BY <1>5

(* The slot of a node is no smaller than what the node owns: it also owns   *)
(* what a pending right half took.                                          *)
LEMMA SlotHolds ==
    ASSUME NEW lv, Inductive(lv), NEW lo, NEW hi, NEW out, Ordered(lo, hi, out),
           NEW id \in Live(store), NEW k \in Key, InRange(k, lo[id], hi[id])
    PROVE  InRange(k, lo[id], out[id])
<1>1. CASE pc = "absorb" /\ id = cur
  <2>1. split.sep \in Key
    BY <1>1, CallFacts
  <2>2. /\ hi[cur] = {split.sep} /\ Between(split.sep, lo[cur], out[cur])
        /\ out[cur] \in SUBSET Key
    BY <1>1 DEF Ordered, Placed
  <2>3. \A b \in out[cur] : k < b
    <3>1. k < split.sep
      BY <1>1, <2>2 DEF InRange
    <3> DEFINE s == split.sep
    <3>2. ASSUME NEW b \in out[cur] PROVE s < b /\ b \in Int
      BY <2>2, KeyAssumption DEF Between
    <3>3. k < s /\ k \in Int /\ s \in Int
      BY <2>1, <3>1, KeyAssumption
    <3> HIDE DEF s
    <3>4. ASSUME NEW b \in out[cur] PROVE k < b
      <4>1. s < b /\ b \in Int
        BY <3>2
      <4> QED
        BY <3>3, <4>1
    <3> QED
      BY <3>4
  <2> QED
    BY <1>1, <2>3 DEF InRange
<1>2. CASE ~(pc = "absorb" /\ id = cur)
  <2>1. out[id] = hi[id]
    BY <1>2 DEF Ordered, Placed
  <2> QED
    BY <2>1
<1> QED
  BY <1>1, <1>2

(* The keys under a node lie in the range it owns.                          *)
LEMMA KeysWithin ==
    ASSUME NEW tops, NEW lv, TreeOK(store, tops, lv),
           NEW lo, NEW hi, NEW out, Placed(store, lo, hi, out),
           \A id \in Live(store), k \in Key :
               InRange(k, lo[id], hi[id]) => InRange(k, lo[id], out[id])
    PROVE  \A id \in Live(store) : \A k \in KeysUnder[id] : k \in Key /\ InRange(k, lo[id], hi[id])
<1> DEFINE L == Live(store)
           Fine(id) == \A k \in KeysUnder[id] : k \in Key /\ InRange(k, lo[id], hi[id])
           T == {n \in Nat : \E id \in L : lv[id] = n /\ ~Fine(id)}
<1>2. \A id \in L : lv[id] \in Nat
  BY TreeFacts
<1> HIDE DEF Fine
<1> SUFFICES ASSUME ~(\A id \in L : Fine(id)) PROVE FALSE
  BY DEF Fine
<1>3. T \in SUBSET Nat /\ T # {}
  BY <1>2
<1>4. PICK n \in T : \A m \in T : n <= m
  BY <1>3, LeastNat
<1>5. PICK id \in L : lv[id] = n /\ ~Fine(id)
  BY <1>4
<1>6. CASE ~Inner(id)
  <2>1. KeysUnder[id] = Range(Node(id).keys)
    BY <1>6, KeysUnderDef
  <2>2. KeysPlaced(Node(id).keys, lo[id], hi[id]) /\ Node(id).keys \in Seq(Key)
    BY TreeFacts, NodeCases DEF Placed, NodePlaced, Node, AnyNode
  <2>3. \A k \in Range(Node(id).keys) : \E j \in 1 .. Len(Node(id).keys) : k = Node(id).keys[j]
    BY <2>2, KeysAreOrdered DEF Range
  <2>4. \A j \in 1 .. Len(Node(id).keys) : Node(id).keys[j] \in Key
    BY <2>2, KeysAreOrdered
  <2>5. Fine(id)
    BY <2>1, <2>2, <2>3, <2>4 DEF Fine, KeysPlaced
  <2> QED
    BY <1>5, <2>5
<1>7. CASE Inner(id)
  <2> DEFINE p == Fetch(store, id)
  <2>1. Parented(p, lo[id], hi[id], lo, out)
    BY <1>7, StoreParent DEF Inner, Node
  <2>2. /\ \A c \in NodeKids(p) : c \in L /\ lv[c] + 1 = lv[id]
        /\ Range(Children(id)) = NodeKids(p)
    BY <1>7, TreeFacts DEF Kids, NodeKids, Inner, Children, Node
  <2>3. KeysUnder[id] = UNION {KeysUnder[c] : c \in NodeKids(p)}
    BY <1>7, <2>2, KeysUnderDef
  <2> HIDE DEF p
  <2>4. ASSUME NEW c \in NodeKids(p) PROVE Fine(c)
    <3> DEFINE m == lv[c]
    <3>1. m \in Nat /\ m + 1 = n /\ n \in Nat
      BY <1>2, <1>4, <1>5, <2>2
    <3> HIDE DEF m
    <3>2. ~(n <= m)
      BY <3>1
    <3>3. m \notin T
      BY <1>4, <3>2
    <3> QED
      BY <2>2, <3>1, <3>3 DEF m
  <2>5. ASSUME NEW k \in KeysUnder[id] PROVE k \in Key /\ InRange(k, lo[id], hi[id])
    <3>1. PICK c \in NodeKids(p) : k \in KeysUnder[c]
      BY <2>3, <2>5
    <3>2. k \in Key /\ InRange(k, lo[c], hi[c])
      BY <2>4, <3>1 DEF Fine
    <3>3. InRange(k, lo[c], out[c])
      BY <2>2, <3>1, <3>2
    <3>4. PICK i \in 1 .. Len(p.keys) + 1 : c = p.children[i]
      BY <2>1, <3>1, ParentFacts
    <3>5. lo[c] = LowOf(p.keys, lo[id], i) /\ out[c] = HighOf(p.keys, hi[id], i)
      BY <2>1, <3>4, ParentFacts
    <3> QED
      BY <2>1, <3>2, <3>3, <3>4, <3>5, SlotInside
  <2>6. Fine(id)
    BY <2>5 DEF Fine
  <2> QED
    BY <1>5, <2>6
<1> QED
  BY <1>6, <1>7

(* So the keys under a node lie within its own bounds.                      *)
LEMMA KeysInside ==
    ASSUME NEW lv, Inductive(lv), NEW lo, NEW hi, NEW out, Ordered(lo, hi, out)
    PROVE  \A id \in Live(store) : \A k \in KeysUnder[id] : k \in Key /\ InRange(k, lo[id], hi[id])
<1> DEFINE tops == {root} \cup Pending
<1>1. TreeOK(store, tops, lv) /\ Placed(store, lo, hi, out)
  BY DEF Inductive, Ordered
<1> HIDE DEF tops
<1> QED
  BY <1>1, SlotHolds, KeysWithin

(* So every key lies on the side of each separator the search expects.      *)
LEMMA OrderedIsRouting ==
    ASSUME NEW lv, Inductive(lv), NEW lo, NEW hi, NEW out, Ordered(lo, hi, out)
    PROVE  Routing
<1>1. TreeOK(store, {root} \cup Pending, lv) /\ Placed(store, lo, hi, out)
  BY DEF Inductive, Ordered
<1>2. \A id \in Live(store) : \A k \in KeysUnder[id] : k \in Key /\ InRange(k, lo[id], hi[id])
  BY KeysInside
<1>3. \A id \in Live(store) : \A k \in KeysUnder[id] : InRange(k, lo[id], out[id])
  BY <1>2, SlotHolds
<1>4. Aligned
  <2>1. \A id \in Live(store) : ShapeOK(Fetch(store, id))
    BY <1>1, TreeFacts
  <2> QED
    BY <2>1 DEF Aligned, ShapeOK, Inner, Children, Node
<1>5. ASSUME NEW id \in Live(store) PROVE Ascending(Node(id).keys)
  BY <1>1 DEF Placed, NodePlaced, KeysPlaced, Node
<1>6. ASSUME NEW id \in Live(store), Inner(id), NEW i \in DOMAIN Node(id).keys
      PROVE  Separates(Node(id).keys[i], Node(id).children[i], Node(id).children[i + 1])
  <2> DEFINE p == Fetch(store, id)
             n == Len(p.keys)
             a == p.children[i]
             b == p.children[i + 1]
  <2>1. Parented(p, lo[id], hi[id], lo, out)
    BY <1>1, <1>6, StoreParent DEF Inner, Node
  <2>2. n \in Nat /\ i \in 1 .. n
    BY <1>6, <2>1, ParentFacts DEF Node
  <2> HIDE DEF n
  <2>3. i \in 1 .. n + 1 /\ i + 1 \in 1 .. n + 1 /\ i # n + 1 /\ i + 1 # 1 /\ (i + 1) - 1 = i
    BY <2>2
  <2>4. /\ out[a] = HighOf(p.keys, hi[id], i) /\ lo[b] = LowOf(p.keys, lo[id], i + 1)
        /\ a \in NodeKids(p) /\ b \in NodeKids(p)
    BY <2>1, <2>3, ParentFacts DEF n
  <2>5. out[a] = {p.keys[i]} /\ lo[b] = {p.keys[i]}
    BY <2>3, <2>4 DEF HighOf, LowOf, n
  <2>6. a \in Live(store) /\ b \in Live(store)
    BY <1>1, <2>4, TreeFacts DEF Kids
  <2> HIDE DEF a, b, p
  <2>7. (\A x \in KeysUnder[a] : x < p.keys[i]) /\ (\A x \in KeysUnder[b] : p.keys[i] <= x)
    BY <1>2, <1>3, <2>5, <2>6 DEF InRange
  <2> QED
    BY <2>7 DEF Separates, a, b, p, Node
<1>7. ASSUME split # NoSplit PROVE Separates(split.sep, cur, split.right)
  <2>1. pc = "absorb" /\ cur \in Live(store)
    BY <1>7, CallFacts
  <2>2. split.right \in Live(store) /\ lo[split.right] = {split.sep} /\ hi[cur] = {split.sep}
    BY <2>1, CallFacts DEF Ordered
  <2> QED
    BY <1>2, <2>1, <2>2 DEF Separates, InRange
<1> QED
  BY <1>4, <1>5, <1>6, <1>7 DEF Routing

(* Every key lies on the side of each separator the search expects, in      *)
(* every tree that any calls can build, also in the middle of a call        *)
(* (node.rs:38-40, ops.rs:45-463): a binary search never misses a key that  *)
(* is there.                                                                *)
THEOREM RoutingTheorem == Spec => []Routing
<1>1. Sorted => Routing
  BY OrderedIsRouting DEF Sorted
<1> QED
  BY <1>1, SortedTheorem, PTL

-----------------------------------------------------------------------------
(* One leaf for each key.                                                   *)

(* No node is higher than the root: above it there would have to be nodes   *)
(* without end, and the slab is finite.                                     *)
LEMMA RootIsHighest ==
    ASSUME NEW lv, Inductive(lv)
    PROVE  \A x \in Live(store) : lv[x] <= lv[root]
<1> DEFINE L == Live(store)
           Up(x) == {y \in L : lv[y] >= lv[x]}
           T == {n \in Nat : \E x \in L : lv[x] > lv[root] /\ Cardinality(Up(x)) = n}
<1>1. TreeOK(store, {root} \cup Pending, lv) /\ root \in L
  BY CallFacts DEF Inductive
<1>2. \A x \in L : lv[x] \in Nat
  BY <1>1, TreeFacts
<1>3. IsFiniteSet(L)
  <2>1. Len(store.slab) \in Nat
    BY <1>1, LenProperties DEF TreeOK, StoreType
  <2>2. IsFiniteSet(1 .. Len(store.slab))
    BY <2>1, FS_Interval
  <2>3. L \in SUBSET (1 .. Len(store.slab))
    BY DEF Live
  <2> QED
    BY <2>2, <2>3, FS_Subset
<1>4. \A x \in L : IsFiniteSet(Up(x)) /\ Cardinality(Up(x)) \in Nat
  <2>1. \A x \in L : Up(x) \in SUBSET L
    OBVIOUS
  <2> HIDE DEF Up
  <2> QED
    BY <1>3, <2>1, FS_Subset, FS_CardinalityType
<1>5. \A y \in Pending : lv[y] <= lv[root]
  <2>1. lv[cur] + Len(path) = lv[root] /\ cur \in L /\ Len(path) \in Nat
    BY <1>1, CallFacts, LenProperties DEF Inductive, Framed
  <2>2. lv[cur] <= lv[root]
    BY <1>1, <1>2, <2>1
  <2> QED
    BY <2>2 DEF Inductive
<1> SUFFICES ASSUME ~(\A x \in L : lv[x] <= lv[root]) PROVE FALSE
  OBVIOUS
<1>6. T \in SUBSET Nat /\ T # {}
  <2>1. PICK x \in L : ~(lv[x] <= lv[root])
    OBVIOUS
  <2>2. lv[x] > lv[root]
    BY <1>1, <1>2, <2>1
  <2> QED
    BY <1>4, <2>2
<1>7. PICK n \in T : \A m \in T : n <= m
  BY <1>6, LeastNat
<1>8. PICK x \in L : lv[x] > lv[root] /\ Cardinality(Up(x)) = n
  BY <1>7
<1>9. PICK p \in L : x \in Kids(store, p)
  <2>1. x \notin {root} \cup Pending
    <3>1. lv[x] \in Nat /\ lv[root] \in Nat /\ ~(lv[x] <= lv[root])
      BY <1>1, <1>2, <1>8
    <3> QED
      BY <1>1, <1>2, <1>5, <3>1
  <2>2. x \in Links(store, L)
    BY <1>1, <2>1 DEF TreeOK, Linked
  <2> QED
    BY <2>2 DEF Links
<1>10. lv[p] = lv[x] + 1
  BY <1>1, <1>2, <1>9, TreeFacts
<1>11. lv[p] > lv[root] /\ Up(p) \subseteq Up(x) /\ x \in Up(x) /\ x \notin Up(p)
  BY <1>1, <1>2, <1>8, <1>10
<1>12. Cardinality(Up(p)) < Cardinality(Up(x))
  <2> DEFINE A == Up(p)
             B == Up(x)
  <2>1. IsFiniteSet(B) /\ A \in SUBSET B /\ A # B /\ Cardinality(A) \in Nat /\ Cardinality(B) \in Nat
    BY <1>4, <1>11
  <2> HIDE DEF A, B
  <2>2. Cardinality(A) <= Cardinality(B) /\ Cardinality(A) # Cardinality(B)
    BY <2>1, FS_Subset
  <2>3. Cardinality(A) < Cardinality(B)
    BY <2>1, <2>2
  <2> QED
    BY <2>3 DEF A, B
<1>13. Cardinality(Up(p)) \in T
  BY <1>4, <1>11
<1> HIDE DEF Up, T
<1> QED
  BY <1>4, <1>7, <1>8, <1>12, <1>13

(* The slot a node is in holds what the node owns; a pending right half is  *)
(* in the slot of its left half.                                            *)
LEMMA SlotOwner ==
    ASSUME NEW lv, Inductive(lv), NEW lo, NEW hi, NEW out, Ordered(lo, hi, out),
           NEW k \in Key, NEW x \in Live(store), InRange(k, lo[x], hi[x])
    PROVE  \E s \in Live(store) :
               /\ s \notin Pending /\ lv[s] = lv[x]
               /\ InRange(k, lo[s], out[s])
               /\ IF x \in Pending
                  THEN s = cur /\ pc = "absorb" /\ split.sep <= k
                  ELSE s = x
<1>1. TreeOK(store, {root} \cup Pending, lv) /\ root \notin Pending
  BY DEF Inductive
<1>2. CASE x \notin Pending
  BY <1>2, SlotHolds
<1>3. CASE x \in Pending
  <2>1. pc = "absorb"
    BY <1>3, CallFacts
  <2>2. x = split.right /\ lv[x] = lv[cur] /\ cur \in Live(store) /\ split.sep \in Key
    BY <1>3, <2>1, CallFacts
  <2>3. /\ Placed(store, lo, hi, out)
        /\ out = [hi EXCEPT ![cur] = hi[split.right]]
        /\ lo[split.right] = {split.sep} /\ Between(split.sep, lo[cur], out[cur])
    BY <2>1 DEF Ordered
  <2>4. split.sep <= k
    BY <2>2, <2>3 DEF InRange
  <2>5. out[cur] = hi[x] /\ lo[cur] \in SUBSET Key
    BY <2>2, <2>3 DEF Placed
  <2>6. \A b \in lo[cur] : b <= k
    <3> DEFINE s == split.sep
    <3>1. s \in Int /\ k \in Int /\ s <= k
      BY <2>2, <2>4, KeyAssumption
    <3>2. \A b \in lo[cur] : b \in Int /\ b < s
      BY <2>3, <2>5, KeyAssumption DEF Between
    <3> HIDE DEF s
    <3>3. ASSUME NEW b \in lo[cur] PROVE b <= k
      <4>1. b \in Int /\ b < s
        BY <3>2
      <4> QED
        BY <3>1, <4>1
    <3> QED
      BY <3>3
  <2>7. InRange(k, lo[cur], out[cur])
    BY <2>5, <2>6 DEF InRange
  <2>8. cur \notin Pending
    <3>1. cur = root \/ (path # <<>> /\ cur \in Kids(store, Last(path).id) /\ Last(path).id \in Live(store))
      <4>1. CASE path = <<>>
        BY <4>1 DEF Inductive, Framed
      <4>2. CASE path # <<>>
        BY <2>1, <4>2, AbsorbedPlaced
      <4> QED
        BY <4>1, <4>2
    <3> QED
      BY <1>1, <3>1, TreeFacts
  <2> QED
    BY <1>3, <2>1, <2>2, <2>4, <2>7, <2>8
<1> QED
  BY <1>2, <1>3

(* A key is in the slot of one child only.                                  *)
LEMMA SlotsDisjoint ==
    ASSUME NEW p, NEW l, NEW h, NEW lo, NEW out, Parented(p, l, h, lo, out),
           NEW k \in Key, NEW i \in 1 .. Len(p.keys) + 1, NEW j \in 1 .. Len(p.keys) + 1,
           InRange(k, lo[p.children[i]], out[p.children[i]]),
           InRange(k, lo[p.children[j]], out[p.children[j]])
    PROVE  i = j
<1> DEFINE n == Len(p.keys)
           keys == p.keys
<1>1. /\ n \in Nat /\ k \in Int
      /\ \A x \in 1 .. n : keys[x] \in Int
      /\ \A x, y \in 1 .. n : x < y => keys[x] < keys[y]
      /\ \A x \in 1 .. n + 1 : /\ lo[p.children[x]] = LowOf(keys, l, x)
                               /\ out[p.children[x]] = HighOf(keys, h, x)
  BY ParentFacts, KeyAssumption
<1> HIDE DEF n, keys
<1>2. ASSUME NEW x \in 1 .. n + 1, NEW y \in 1 .. n + 1, x < y,
             InRange(k, lo[p.children[x]], out[p.children[x]]),
             InRange(k, lo[p.children[y]], out[p.children[y]])
      PROVE  FALSE
  <2>1. x \in 1 .. n /\ y - 1 \in 1 .. n /\ x <= y - 1 /\ x # n + 1 /\ y # 1
    BY <1>1, <1>2
  <2>2. out[p.children[x]] = {keys[x]} /\ lo[p.children[y]] = {keys[y - 1]}
    BY <1>1, <2>1 DEF HighOf, LowOf, n, keys
  <2>3. k < keys[x] /\ keys[y - 1] <= k
    BY <1>2, <2>2 DEF InRange
  <2>4. keys[x] \in Int /\ keys[y - 1] \in Int
    BY <1>1, <2>1
  <2>5. x = y - 1 \/ x < y - 1
    BY <1>1, <2>1
  <2>6. keys[x] = keys[y - 1] \/ keys[x] < keys[y - 1]
    BY <1>1, <2>1, <2>5
  <2>7. k \in Int
    BY <1>1
  <2> QED
    BY <2>3, <2>4, <2>6, <2>7
<1>3. i < j \/ j < i \/ i = j
  BY <1>1 DEF n
<1> QED
  BY <1>2, <1>3 DEF n

(* Two nodes of one level never own the same key: going up, they would meet *)
(* in one parent, where the key is in one slot.                             *)
LEMMA OneOwner ==
    ASSUME NEW lv, Inductive(lv), NEW lo, NEW hi, NEW out, Ordered(lo, hi, out), NEW k \in Key
    PROVE  \A x, y \in Live(store) : /\ lv[x] = lv[y]
                                     /\ InRange(k, lo[x], hi[x]) /\ InRange(k, lo[y], hi[y])
                                     => x = y
<1> DEFINE L == Live(store)
           Clash(x, y) == /\ x # y /\ lv[x] = lv[y]
                          /\ InRange(k, lo[x], hi[x]) /\ InRange(k, lo[y], hi[y])
           T == {d \in Nat : \E x, y \in L : lv[x] + d = lv[root] /\ Clash(x, y)}
<1>1. /\ TreeOK(store, {root} \cup Pending, lv) /\ root \in L /\ root \notin Pending
      /\ Placed(store, lo, hi, out)
  BY CallFacts DEF Inductive, Ordered
<1>2. \A x \in L : lv[x] \in Nat /\ lv[x] <= lv[root]
  BY <1>1, TreeFacts, RootIsHighest
<1> SUFFICES ASSUME NEW u \in L, NEW w \in L, Clash(u, w) PROVE FALSE
  OBVIOUS
<1>3. T \in SUBSET Nat /\ T # {}
  <2>1. lv[root] - lv[u] \in Nat /\ lv[u] + (lv[root] - lv[u]) = lv[root]
    BY <1>1, <1>2
  <2> QED
    BY <2>1
<1> HIDE DEF Clash
<1>4. PICK d \in T : \A m \in T : d <= m
  BY <1>3, LeastNat
<1>5. PICK x \in L, y \in L : lv[x] + d = lv[root] /\ Clash(x, y)
  BY <1>4
<1>6. /\ x # y /\ lv[x] = lv[y]
      /\ InRange(k, lo[x], hi[x]) /\ InRange(k, lo[y], hi[y])
  BY <1>5 DEF Clash
<1>7. PICK s \in L : /\ s \notin Pending /\ lv[s] = lv[x] /\ InRange(k, lo[s], out[s])
                     /\ IF x \in Pending THEN s = cur /\ pc = "absorb" /\ split.sep <= k
                                         ELSE s = x
  BY <1>6, SlotOwner
<1>8. PICK t \in L : /\ t \notin Pending /\ lv[t] = lv[y] /\ InRange(k, lo[t], out[t])
                     /\ IF y \in Pending THEN t = cur /\ pc = "absorb" /\ split.sep <= k
                                         ELSE t = y
  BY <1>6, SlotOwner
<1>9. s = t
  <2>1. CASE s = root \/ t = root
    <3>1. \A z \in L : lv[z] = lv[root] /\ z \notin Pending => z = root
      <4>1. SUFFICES ASSUME NEW z \in L, lv[z] = lv[root], z \notin Pending, z # root PROVE FALSE
        OBVIOUS
      <4>2. PICK p \in L : z \in Kids(store, p)
        BY <1>1, <4>1 DEF TreeOK, Linked, Links
      <4>3. lv[p] = lv[root] + 1
        BY <1>1, <1>2, <4>1, <4>2, TreeFacts
      <4> QED
        BY <1>1, <1>2, <4>3
    <3> QED
      BY <1>6, <1>7, <1>8, <2>1, <3>1
  <2>2. CASE s # root /\ t # root
    <3>1. PICK p \in L : s \in Kids(store, p)
      BY <1>1, <1>7, <2>2 DEF TreeOK, Linked, Links
    <3>2. PICK q \in L : t \in Kids(store, q)
      BY <1>1, <1>8, <2>2 DEF TreeOK, Linked, Links
    <3>3. lv[p] = lv[x] + 1 /\ lv[q] = lv[x] + 1
      BY <1>1, <1>2, <1>6, <1>7, <1>8, <3>1, <3>2, TreeFacts
    <3>4. /\ Parented(Fetch(store, p), lo[p], hi[p], lo, out)
          /\ Parented(Fetch(store, q), lo[q], hi[q], lo, out)
      BY <1>1, <3>1, <3>2, StoreParent DEF Kids, NodeKids
    <3>5. PICK i \in 1 .. Len(Fetch(store, p).keys) + 1 : s = Fetch(store, p).children[i]
      BY <3>1, <3>4, ParentFacts DEF Kids
    <3>6. PICK j \in 1 .. Len(Fetch(store, q).keys) + 1 : t = Fetch(store, q).children[j]
      BY <3>2, <3>4, ParentFacts DEF Kids
    <3>7. InRange(k, lo[p], hi[p])
      <4>1. /\ lo[s] = LowOf(Fetch(store, p).keys, lo[p], i)
            /\ out[s] = HighOf(Fetch(store, p).keys, hi[p], i)
        BY <3>4, <3>5, ParentFacts
      <4> QED
        BY <1>7, <3>4, <3>5, <4>1, SlotInside
    <3>8. InRange(k, lo[q], hi[q])
      <4>1. /\ lo[t] = LowOf(Fetch(store, q).keys, lo[q], j)
            /\ out[t] = HighOf(Fetch(store, q).keys, hi[q], j)
        BY <3>4, <3>6, ParentFacts
      <4> QED
        BY <1>8, <3>4, <3>6, <4>1, SlotInside
    <3>9. p = q
      <4>1. SUFFICES ASSUME p # q PROVE FALSE
        OBVIOUS
      <4>2. Clash(p, q)
        BY <3>3, <3>7, <3>8, <4>1 DEF Clash
      <4>3. d \in Nat /\ d - 1 \in Nat /\ lv[p] + (d - 1) = lv[root]
        BY <1>1, <1>2, <1>4, <1>5, <3>3
      <4>4. d - 1 \in T
        BY <4>2, <4>3
      <4>5. ~(d <= d - 1)
        BY <4>3
      <4> QED
        BY <1>4, <4>4, <4>5
    <3> QED
      BY <1>7, <1>8, <3>4, <3>5, <3>6, <3>9, SlotsDisjoint
  <2> QED
    BY <2>1, <2>2
<1>10. (x \in Pending /\ y \notin Pending /\ y = cur) \/ (y \in Pending /\ x \notin Pending /\ x = cur)
  <2>1. \A z \in Pending : z = split.right
    BY DEF Pending
  <2> QED
    BY <1>6, <1>7, <1>8, <1>9, <2>1
<1>11. pc = "absorb" /\ split.sep <= k /\ InRange(k, lo[cur], hi[cur])
  BY <1>6, <1>7, <1>8, <1>10
<1>12. hi[cur] = {split.sep} /\ split.sep \in Key
  BY <1>11, CallFacts DEF Ordered
<1>13. k < split.sep
  BY <1>11, <1>12 DEF InRange
<1>14. split.sep \in Int /\ k \in Int
  BY <1>12, KeyAssumption
<1> QED
  BY <1>11, <1>13, <1>14

(* A position of a leaf is the one the search finds its key at.             *)
LEMMA KeyIsFound ==
    ASSUME NEW keys \in Seq(Key), Ascending(keys), NEW j \in 1 .. Len(keys)
    PROVE  Found(keys, keys[j]) /\ Position(keys, keys[j]) = j
<1> DEFINE k == keys[j]
           i == Position(keys, k)
           n == Len(keys)
<1>1. /\ n \in Nat /\ \A x \in 1 .. n : keys[x] \in Key /\ keys[x] \in Int
      /\ \A x, y \in 1 .. n : x < y => keys[x] < keys[y]
  BY KeysAreOrdered
<1>2. k \in Key
  BY <1>1
<1>3. /\ i \in 1 .. n + 1
      /\ i > 1 => keys[i - 1] < k
      /\ i <= n => k <= keys[i]
  BY <1>2, PositionProperties
<1> HIDE DEF i, n
<1>4. j \in 1 .. n
  BY DEF n
<1>5. ~(j < i)
  <2>1. SUFFICES ASSUME j < i PROVE FALSE
    OBVIOUS
  <2>2. i > 1 /\ i - 1 \in 1 .. n /\ (j = i - 1 \/ j < i - 1)
    BY <1>1, <1>3, <1>4, <2>1
  <2>3. keys[j] = keys[i - 1] \/ keys[j] < keys[i - 1]
    BY <1>1, <1>4, <2>2
  <2>4. keys[i - 1] < keys[j] /\ keys[i - 1] \in Int /\ keys[j] \in Int
    BY <1>1, <1>3, <1>4, <2>2
  <2> QED
    BY <2>3, <2>4
<1>6. ~(i < j)
  <2>1. SUFFICES ASSUME i < j PROVE FALSE
    OBVIOUS
  <2>2. i \in 1 .. n /\ i <= n
    BY <1>1, <1>3, <1>4, <2>1
  <2>3. keys[i] < keys[j] /\ keys[j] <= keys[i] /\ keys[i] \in Int /\ keys[j] \in Int
    BY <1>1, <1>3, <1>4, <2>1, <2>2
  <2> QED
    BY <2>3
<1>7. i = j
  BY <1>1, <1>3, <1>4, <1>5, <1>6
<1> QED
  BY <1>4, <1>7 DEF Found, i, n

(* A key is in one leaf only, and a call that came down to a leaf is where  *)
(* its key is if it is anywhere.                                            *)
LEMMA LeafRange ==
    ASSUME NEW lv, Inductive(lv), NEW lo, NEW hi, NEW out, Ordered(lo, hi, out),
           NEW x \in Leaves, NEW k \in Range(Node(x).keys)
    PROVE  x \in Live(store) /\ k \in Key /\ InRange(k, lo[x], hi[x]) /\ lv[x] = 0
<1>1. x \in Live(store) /\ IsLeaf(Fetch(store, x))
  BY DEF Leaves, Inner, Node
<1>2. TreeOK(store, {root} \cup Pending, lv) /\ Placed(store, lo, hi, out)
  BY DEF Inductive, Ordered
<1>3. KeysPlaced(Fetch(store, x).keys, lo[x], hi[x]) /\ Fetch(store, x).keys \in Seq(Key) /\ lv[x] = 0
  BY <1>1, <1>2, TreeFacts, NodeCases DEF Placed, NodePlaced, AnyNode
<1>4. PICK j \in 1 .. Len(Fetch(store, x).keys) : k = Fetch(store, x).keys[j]
  BY <1>3, KeysAreOrdered DEF Range, Node
<1> QED
  BY <1>1, <1>3, <1>4, KeysAreOrdered DEF KeysPlaced

(* A key in a leaf is in the leaf whose bounds hold it.                     *)
LEMMA OneLeaf ==
    ASSUME NEW lv, Inductive(lv), NEW lo, NEW hi, NEW out, Ordered(lo, hi, out)
    PROVE  /\ \A x, y \in Leaves : \A k \in Range(Node(x).keys) \cap Range(Node(y).keys) : x = y
           /\ pc = "descend" /\ cur \in Leaves =>
                 \A x \in Leaves : arg.key \in Range(Node(x).keys) => x = cur
<1>1. ASSUME NEW x \in Leaves, NEW y \in Leaves,
             NEW k \in Range(Node(x).keys) \cap Range(Node(y).keys)
      PROVE  x = y
  <2>1. x \in Live(store) /\ k \in Key /\ InRange(k, lo[x], hi[x]) /\ lv[x] = 0
    BY LeafRange
  <2>2. y \in Live(store) /\ InRange(k, lo[y], hi[y]) /\ lv[y] = 0
    BY LeafRange
  <2> QED
    BY <2>1, <2>2, OneOwner
<1>2. ASSUME pc = "descend", cur \in Leaves, NEW x \in Leaves, arg.key \in Range(Node(x).keys)
      PROVE  x = cur
  <2>1. x \in Live(store) /\ arg.key \in Key /\ InRange(arg.key, lo[x], hi[x]) /\ lv[x] = 0
    BY <1>2, LeafRange
  <2>2. cur \in Live(store) /\ IsLeaf(Node(cur))
    BY <1>2 DEF Leaves, Inner
  <2>3. lv[cur] = 0
    BY <2>2, CallFacts
  <2>4. InRange(arg.key, lo[cur], hi[cur])
    BY <1>2 DEF Ordered
  <2> QED
    BY <2>1, <2>2, <2>3, <2>4, OneOwner
<1> QED
  BY <1>1, <1>2

-----------------------------------------------------------------------------
(* The entries of a leaf, as pairs, and what the lists of entries become.   *)
Pairing(keys, vals) == {<<keys[j], vals[j]>> : j \in 1 .. Len(keys)}

Lists(keys, vals) == keys \in Seq(Key) /\ vals \in Seq(Val) /\ Len(keys) = Len(vals)

(* The entries P without the one of key k.                                  *)
Without(P, k) == {e \in P : e[1] # k}

(* A key has one pair in the lists of a leaf.                               *)
LEMMA PairingWithout ==
    ASSUME NEW keys, NEW vals, Lists(keys, vals), Ascending(keys), NEW i \in 1 .. Len(keys)
    PROVE  Without(Pairing(keys, vals), keys[i]) = Pairing(keys, vals) \ {<<keys[i], vals[i]>>}
<1>1. \A j \in 1 .. Len(keys) : keys[j] = keys[i] => j = i
  BY KeyIsFound DEF Lists
<1>2. ASSUME NEW e \in Pairing(keys, vals) PROVE e # <<keys[i], vals[i]>> <=> e[1] # keys[i]
  <2>1. PICK j \in 1 .. Len(keys) : e = <<keys[j], vals[j]>>
    BY <1>2 DEF Pairing
  <2> QED
    BY <1>1, <2>1
<1> QED
  BY <1>2 DEF Without

(* A pair put in between two others,                                        *)
LEMMA PairingInsert ==
    ASSUME NEW keys, NEW vals, Lists(keys, vals), NEW i \in 1 .. Len(keys) + 1,
           NEW k \in Key, NEW v \in Val
    PROVE  Pairing(InsertAt(keys, i, k), InsertAt(vals, i, v)) = Pairing(keys, vals) \cup {<<k, v>>}
<1> DEFINE n == Len(keys)
           s == InsertAt(keys, i, k)
           t == InsertAt(vals, i, v)
<1>1. n \in Nat /\ i \in 1 .. Len(vals) + 1 /\ keys \in Seq(Key) /\ vals \in Seq(Val)
  BY LenProperties DEF Lists
<1>2. /\ Len(s) = n + 1
      /\ \A j \in 1 .. n + 1 : s[j] = IF j < i THEN keys[j] ELSE IF j = i THEN k ELSE keys[j - 1]
  BY <1>1, InsertAtElements, SMTT(30)
<1>3. \A j \in 1 .. n + 1 : t[j] = IF j < i THEN vals[j] ELSE IF j = i THEN v ELSE vals[j - 1]
  BY <1>1, InsertAtElements DEF Lists
<1> HIDE DEF s, t
<1>4. ASSUME NEW j \in 1 .. n + 1
      PROVE  <<s[j], t[j]>> \in Pairing(keys, vals) \cup {<<k, v>>}
  <2>1. CASE j < i
    <3>1. j \in 1 .. n
      BY <1>1, <2>1
    <3> QED
      BY <1>2, <1>3, <2>1, <3>1 DEF Pairing
  <2>2. CASE j = i
    BY <1>2, <1>3, <2>2
  <2>3. CASE ~(j < i) /\ j # i
    <3>1. j - 1 \in 1 .. n
      BY <1>1, <2>3
    <3> QED
      BY <1>2, <1>3, <2>3, <3>1 DEF Pairing
  <2> QED
    BY <2>1, <2>2, <2>3
<1>5. ASSUME NEW j \in 1 .. n
      PROVE  \E x \in 1 .. n + 1 : keys[j] = s[x] /\ vals[j] = t[x]
  <2>1. CASE j < i
    <3>1. j \in 1 .. n + 1
      BY <1>1
    <3> QED
      BY <1>2, <1>3, <2>1, <3>1
  <2>2. CASE ~(j < i)
    <3>1. j + 1 \in 1 .. n + 1 /\ ~(j + 1 < i) /\ j + 1 # i /\ (j + 1) - 1 = j
      BY <1>1, <2>2
    <3> QED
      BY <1>2, <1>3, <3>1
  <2> QED
    BY <2>1, <2>2
<1>6. \E x \in 1 .. n + 1 : k = s[x] /\ v = t[x]
  <2>1. i \in 1 .. n + 1 /\ ~(i < i)
    BY <1>1
  <2> QED
    BY <1>2, <1>3, <2>1
<1>7. ASSUME NEW e \in Pairing(s, t) PROVE e \in Pairing(keys, vals) \cup {<<k, v>>}
  <2>1. PICK j \in 1 .. n + 1 : e = <<s[j], t[j]>>
    BY <1>2, <1>7 DEF Pairing
  <2> QED
    BY <1>4, <2>1
<1>8. ASSUME NEW e \in Pairing(keys, vals) PROVE e \in Pairing(s, t)
  <2>1. PICK j \in 1 .. n : e = <<keys[j], vals[j]>>
    BY <1>8 DEF Pairing
  <2>2. PICK x \in 1 .. n + 1 : keys[j] = s[x] /\ vals[j] = t[x]
    BY <1>5
  <2> QED
    BY <1>2, <2>1, <2>2 DEF Pairing
<1>9. <<k, v>> \in Pairing(s, t)
  BY <1>2, <1>6 DEF Pairing
<1> QED
  BY <1>7, <1>8, <1>9 DEF s, t

(* and one taken out.                                                       *)
LEMMA PairingRemove ==
    ASSUME NEW keys, NEW vals, Lists(keys, vals), Ascending(keys), NEW i \in 1 .. Len(keys)
    PROVE  Pairing(RemoveAt(keys, i), RemoveAt(vals, i)) = Without(Pairing(keys, vals), keys[i])
<1> DEFINE n == Len(keys)
           s == RemoveAt(keys, i)
           t == RemoveAt(vals, i)
<1>1. n \in Nat /\ i \in 1 .. n /\ i \in 1 .. Len(vals) /\ keys \in Seq(Key) /\ vals \in Seq(Val)
  BY LenProperties DEF Lists
<1>2. /\ Len(s) = n - 1
      /\ \A j \in 1 .. n - 1 : s[j] = IF j < i THEN keys[j] ELSE keys[j + 1]
  BY <1>1, RemoveAtElements
<1>3. \A j \in 1 .. n - 1 : t[j] = IF j < i THEN vals[j] ELSE vals[j + 1]
  BY <1>1, RemoveAtElements DEF Lists
<1>4. \A x, y \in 1 .. n : keys[x] = keys[y] => x = y
  <2>1. /\ \A x \in 1 .. n : keys[x] \in Int
        /\ \A x, y \in 1 .. n : x < y => keys[x] < keys[y]
    BY <1>1, KeysAreOrdered
  <2>2. \A x, y \in 1 .. n : x < y \/ y < x \/ x = y
    BY <1>1
  <2> HIDE DEF n
  <2>3. ASSUME NEW x \in 1 .. n, NEW y \in 1 .. n, keys[x] = keys[y], x < y PROVE FALSE
    <3>1. keys[x] < keys[y] /\ keys[x] \in Int
      BY <2>1, <2>3
    <3> QED
      BY <2>3, <3>1
  <2> QED
    BY <2>2, <2>3
<1> HIDE DEF s, t
<1>5. ASSUME NEW j \in 1 .. n - 1
      PROVE  \E x \in 1 .. n : x # i /\ s[j] = keys[x] /\ t[j] = vals[x]
  <2>1. CASE j < i
    <3>1. j \in 1 .. n /\ j # i
      BY <1>1, <2>1
    <3> QED
      BY <1>2, <1>3, <2>1, <3>1
  <2>2. CASE ~(j < i)
    <3>1. j + 1 \in 1 .. n /\ j + 1 # i
      BY <1>1, <2>2
    <3> QED
      BY <1>2, <1>3, <2>2, <3>1
  <2> QED
    BY <2>1, <2>2
<1>6. ASSUME NEW x \in 1 .. n, x # i
      PROVE  \E j \in 1 .. n - 1 : keys[x] = s[j] /\ vals[x] = t[j]
  <2>1. CASE x < i
    <3>1. x \in 1 .. n - 1
      BY <1>1, <2>1
    <3> QED
      BY <1>2, <1>3, <2>1, <3>1
  <2>2. CASE ~(x < i)
    <3>1. x - 1 \in 1 .. n - 1 /\ ~(x - 1 < i) /\ (x - 1) + 1 = x
      BY <1>1, <1>6, <2>2
    <3> QED
      BY <1>2, <1>3, <3>1
  <2> QED
    BY <2>1, <2>2
<1>7. \A x \in 1 .. n : <<keys[x], vals[x]>> = <<keys[i], vals[i]>> => x = i
  BY <1>1, <1>4
<1>8. ASSUME NEW e \in Pairing(s, t) PROVE e \in Pairing(keys, vals) \ {<<keys[i], vals[i]>>}
  <2>1. PICK j \in 1 .. n - 1 : e = <<s[j], t[j]>>
    BY <1>2, <1>8 DEF Pairing
  <2>2. PICK x \in 1 .. n : x # i /\ s[j] = keys[x] /\ t[j] = vals[x]
    BY <1>5
  <2> QED
    BY <1>7, <2>1, <2>2 DEF Pairing
<1>9. ASSUME NEW e \in Pairing(keys, vals) \ {<<keys[i], vals[i]>>} PROVE e \in Pairing(s, t)
  <2>1. PICK x \in 1 .. n : e = <<keys[x], vals[x]>> /\ x # i
    BY <1>9 DEF Pairing
  <2>2. PICK j \in 1 .. n - 1 : keys[x] = s[j] /\ vals[x] = t[j]
    BY <1>6, <2>1
  <2> QED
    BY <1>2, <2>1, <2>2 DEF Pairing
<1>10. Pairing(s, t) = Pairing(keys, vals) \ {<<keys[i], vals[i]>>}
  BY <1>8, <1>9
<1> QED
  BY <1>10, PairingWithout DEF s, t

(* Overwriting a value overwrites one pair.                                 *)
LEMMA PairingReplace ==
    ASSUME NEW keys, NEW vals, Lists(keys, vals), Ascending(keys),
           NEW i \in 1 .. Len(keys), NEW v \in Val
    PROVE  Pairing(keys, ReplaceAt(vals, i, v))
               = Without(Pairing(keys, vals), keys[i]) \cup {<<keys[i], v>>}
<1> DEFINE n == Len(keys)
           t == ReplaceAt(vals, i, v)
<1>1. n \in Nat /\ i \in 1 .. Len(vals) /\ keys \in Seq(Key) /\ vals \in Seq(Val)
  BY LenProperties DEF Lists
<1>2. \A j \in 1 .. n : t[j] = IF j = i THEN v ELSE vals[j]
  <2> HIDE DEF n
  <2>1. vals \in Seq(Val) /\ i \in 1 .. Len(vals) /\ v \in Val /\ n = Len(vals)
    BY <1>1 DEF n, Lists
  <2>2. \A j \in 1 .. Len(vals) :
            ReplaceAt(vals, i, v)[j] = IF j = i THEN v ELSE vals[j]
    BY <2>1, LenProperties DEF ReplaceAt
  <2> QED
    BY <2>1, <2>2
<1>3. \A j \in 1 .. n : keys[j] = keys[i] => j = i
  BY KeyIsFound DEF Lists
<1> HIDE DEF t
<1>4. ASSUME NEW e \in Pairing(keys, t)
      PROVE  e \in (Pairing(keys, vals) \ {<<keys[i], vals[i]>>}) \cup {<<keys[i], v>>}
  <2>1. PICK j \in 1 .. n : e = <<keys[j], t[j]>>
    BY <1>4 DEF Pairing
  <2>2. CASE j = i
    BY <1>2, <2>1, <2>2
  <2>3. CASE j # i
    <3>1. e = <<keys[j], vals[j]>> /\ keys[j] # keys[i]
      BY <1>2, <1>3, <2>1, <2>3
    <3> QED
      BY <3>1 DEF Pairing
  <2> QED
    BY <2>2, <2>3
<1>5. ASSUME NEW e \in Pairing(keys, vals), e # <<keys[i], vals[i]>> PROVE e \in Pairing(keys, t)
  <2>1. PICK j \in 1 .. n : e = <<keys[j], vals[j]>>
    BY <1>5 DEF Pairing
  <2>2. j # i /\ t[j] = vals[j]
    BY <1>2, <1>5, <2>1
  <2> QED
    BY <2>1, <2>2 DEF Pairing
<1>6. <<keys[i], v>> \in Pairing(keys, t)
  <2>1. t[i] = v
    BY <1>2
  <2> QED
    BY <2>1 DEF Pairing
<1>7. Pairing(keys, t) = (Pairing(keys, vals) \ {<<keys[i], vals[i]>>}) \cup {<<keys[i], v>>}
  BY <1>4, <1>5, <1>6
<1> QED
  BY <1>7, PairingWithout DEF t

(* Cutting the lists of a leaf in two shares its pairs out.                 *)
LEMMA PairingHalves ==
    ASSUME NEW keys, NEW vals, Lists(keys, vals), NEW m \in 0 .. Len(keys)
    PROVE  Pairing(SubSeq(keys, 1, m), SubSeq(vals, 1, m))
               \cup Pairing(SubSeq(keys, m + 1, Len(keys)), SubSeq(vals, m + 1, Len(keys)))
               = Pairing(keys, vals)
<1> DEFINE n == Len(keys)
           s == SubSeq(keys, 1, m)
           t == SubSeq(vals, 1, m)
           u == SubSeq(keys, m + 1, Len(keys))
           w == SubSeq(vals, m + 1, Len(keys))
<1>1. n \in Nat /\ m \in 0 .. Len(vals) /\ keys \in Seq(Key) /\ vals \in Seq(Val) /\ n = Len(vals)
  BY LenProperties DEF Lists
<1>2. /\ Len(s) = m /\ Len(u) = n - m
      /\ \A i \in 1 .. m : s[i] = keys[i]
      /\ \A i \in 1 .. n - m : u[i] = keys[i + m]
  BY <1>1, HalvesProperties
<1>3. /\ \A i \in 1 .. m : t[i] = vals[i]
      /\ \A i \in 1 .. n - m : w[i] = vals[i + m]
  BY <1>1, HalvesProperties
<1> HIDE DEF s, t, u, w
<1>4. ASSUME NEW e \in Pairing(s, t) \cup Pairing(u, w) PROVE e \in Pairing(keys, vals)
  <2>1. CASE e \in Pairing(s, t)
    <3>1. PICK j \in 1 .. m : e = <<s[j], t[j]>>
      BY <1>2, <2>1 DEF Pairing
    <3>2. j \in 1 .. n
      BY <1>1
    <3> QED
      BY <1>2, <1>3, <3>1, <3>2 DEF Pairing
  <2>2. CASE e \in Pairing(u, w)
    <3>1. PICK j \in 1 .. n - m : e = <<u[j], w[j]>>
      BY <1>2, <2>2 DEF Pairing
    <3>2. j + m \in 1 .. n
      BY <1>1
    <3>3. e = <<keys[j + m], vals[j + m]>>
      BY <1>2, <1>3, <3>1
    <3> QED
      BY <3>2, <3>3 DEF Pairing
  <2> QED
    BY <1>4, <2>1, <2>2
<1>5. ASSUME NEW e \in Pairing(keys, vals) PROVE e \in Pairing(s, t) \cup Pairing(u, w)
  <2>1. PICK j \in 1 .. n : e = <<keys[j], vals[j]>>
    BY <1>5 DEF Pairing
  <2>2. CASE j <= m
    <3>1. j \in 1 .. m
      BY <1>1, <2>2
    <3>2. e = <<s[j], t[j]>>
      BY <1>2, <1>3, <2>1, <3>1
    <3> QED
      BY <1>2, <3>1, <3>2 DEF Pairing
  <2>3. CASE ~(j <= m)
    <3>1. j - m \in 1 .. n - m /\ (j - m) + m = j
      BY <1>1, <2>3
    <3>2. e = <<u[j - m], w[j - m]>>
      BY <1>2, <1>3, <2>1, <3>1
    <3> QED
      BY <1>2, <3>1, <3>2 DEF Pairing
  <2> QED
    BY <2>2, <2>3
<1> QED
  BY <1>4, <1>5 DEF s, t, u, w

(* Joining lists joins their pairs.                                         *)
LEMMA PairingJoin ==
    ASSUME NEW s, NEW t, Lists(s, t), NEW u, NEW w, Lists(u, w)
    PROVE  Pairing(s \o u, t \o w) = Pairing(s, t) \cup Pairing(u, w)
<1> DEFINE m == Len(s)
           n == Len(u)
           k == s \o u
           v == t \o w
<1>1. /\ m \in Nat /\ n \in Nat /\ m = Len(t) /\ n = Len(w)
      /\ s \in Seq(Key) /\ u \in Seq(Key) /\ t \in Seq(Val) /\ w \in Seq(Val)
  BY LenProperties DEF Lists
<1>2. /\ Len(k) = m + n
      /\ \A i \in 1 .. m : k[i] = s[i]
      /\ \A i \in 1 .. n : k[m + i] = u[i]
  <2>1. s \in Seq(Key) /\ u \in Seq(Key)
    BY <1>1
  <2> QED
    BY <2>1, JoinProperties
<1>3. /\ \A i \in 1 .. m : v[i] = t[i]
      /\ \A i \in 1 .. n : v[m + i] = w[i]
  <2>1. t \in Seq(Val) /\ w \in Seq(Val)
    BY <1>1
  <2>2. /\ \A i \in 1 .. Len(t) : v[i] = t[i]
        /\ \A i \in 1 .. Len(w) : v[Len(t) + i] = w[i]
    BY <2>1, JoinProperties
  <2> QED
    BY <1>1, <2>2
<1> HIDE DEF k, v
<1>4. ASSUME NEW e \in Pairing(k, v) PROVE e \in Pairing(s, t) \cup Pairing(u, w)
  <2>1. PICK j \in 1 .. m + n : e = <<k[j], v[j]>>
    BY <1>2, <1>4 DEF Pairing
  <2>2. CASE j <= m
    <3>1. j \in 1 .. m
      BY <1>1, <2>2
    <3> QED
      BY <1>2, <1>3, <2>1, <3>1 DEF Pairing
  <2>3. CASE ~(j <= m)
    <3>1. j - m \in 1 .. n /\ m + (j - m) = j
      BY <1>1, <2>3
    <3>2. e = <<u[j - m], w[j - m]>>
      BY <1>2, <1>3, <2>1, <3>1
    <3> QED
      BY <3>1, <3>2 DEF Pairing
  <2> QED
    BY <2>2, <2>3
<1>5. ASSUME NEW j \in 1 .. m PROVE <<s[j], t[j]>> \in Pairing(k, v)
  <2>1. j \in 1 .. m + n
    BY <1>1
  <2> QED
    BY <1>2, <1>3, <2>1 DEF Pairing
<1>6. ASSUME NEW j \in 1 .. n PROVE <<u[j], w[j]>> \in Pairing(k, v)
  <2>1. m + j \in 1 .. m + n /\ <<u[j], w[j]>> = <<k[m + j], v[m + j]>>
    BY <1>1, <1>2, <1>3
  <2> QED
    BY <1>2, <2>1 DEF Pairing
<1> QED
  BY <1>4, <1>5, <1>6 DEF Pairing, k, v

(* The pairs of lists without their last elements, or without their first,  *)
(* and of lists with an element more at either end.                         *)
LEMMA PairingFront ==
    ASSUME NEW keys, NEW vals, Lists(keys, vals), keys # <<>>
    PROVE  /\ Lists(Front(keys), Front(vals))
           /\ Last(keys) \in Key /\ Last(vals) \in Val
           /\ Pairing(keys, vals) = Pairing(Front(keys), Front(vals)) \cup {<<Last(keys), Last(vals)>>}
<1> DEFINE n == Len(keys)
           s == Front(keys)
           t == Front(vals)
<1>1. keys \in Seq(Key) /\ vals \in Seq(Val)
  BY DEF Lists
<1>2. vals # <<>> /\ n = Len(vals)
  BY EmptySeq DEF Lists
<1>3. /\ n \in Nat \ {0} /\ Len(s) = n - 1 /\ Last(keys) \in Key /\ s \in Seq(Key)
      /\ \A i \in 1 .. n - 1 : s[i] = keys[i]
  BY <1>1, PopProperties
<1>4. /\ Len(t) = Len(vals) - 1 /\ Last(vals) \in Val /\ t \in Seq(Val)
      /\ \A i \in 1 .. Len(vals) - 1 : t[i] = vals[i]
  BY <1>1, <1>2, PopProperties
<1>5. Last(keys) = keys[n] /\ Last(vals) = vals[n]
  BY <1>2 DEF Last
<1>6. \A i \in 1 .. n - 1 : t[i] = vals[i]
  BY <1>2, <1>4
<1>7. Lists(s, t)
  BY <1>2, <1>3, <1>4 DEF Lists
<1> HIDE DEF s, t
<1>8. ASSUME NEW e \in Pairing(keys, vals) PROVE e \in Pairing(s, t) \cup {<<keys[n], vals[n]>>}
  <2>1. PICK j \in 1 .. n : e = <<keys[j], vals[j]>>
    BY <1>8 DEF Pairing
  <2>2. CASE j = n
    BY <2>1, <2>2
  <2>3. CASE j # n
    <3>1. j \in 1 .. n - 1
      BY <1>3, <2>3
    <3> QED
      BY <1>3, <1>6, <2>1, <3>1 DEF Pairing
  <2> QED
    BY <2>2, <2>3
<1>9. ASSUME NEW e \in Pairing(s, t) PROVE e \in Pairing(keys, vals)
  <2>1. PICK j \in 1 .. n - 1 : e = <<s[j], t[j]>>
    BY <1>3, <1>9 DEF Pairing
  <2>2. j \in 1 .. n
    BY <1>3
  <2> QED
    BY <1>3, <1>6, <2>1, <2>2 DEF Pairing
<1>10. <<keys[n], vals[n]>> \in Pairing(keys, vals)
  <2>1. n \in 1 .. n
    BY <1>3
  <2> QED
    BY <2>1 DEF Pairing
<1> QED
  BY <1>3, <1>4, <1>5, <1>7, <1>8, <1>9, <1>10 DEF s, t

(* The pairs but the first,                                                 *)
LEMMA PairingTail ==
    ASSUME NEW keys, NEW vals, Lists(keys, vals), keys # <<>>
    PROVE  /\ Lists(Tail(keys), Tail(vals))
           /\ Head(keys) \in Key /\ Head(vals) \in Val
           /\ Pairing(keys, vals) = Pairing(Tail(keys), Tail(vals)) \cup {<<Head(keys), Head(vals)>>}
<1> DEFINE n == Len(keys)
           s == Tail(keys)
           t == Tail(vals)
<1>1. keys \in Seq(Key) /\ vals \in Seq(Val)
  BY DEF Lists
<1>2. vals # <<>> /\ n = Len(vals)
  BY EmptySeq DEF Lists
<1>3. /\ n \in Nat \ {0} /\ Len(s) = n - 1 /\ s \in Seq(Key)
      /\ \A i \in 1 .. n - 1 : s[i] = keys[i + 1]
  BY <1>1, TailElements, EmptySeq, LenProperties
<1>4. /\ Len(t) = Len(vals) - 1 /\ t \in Seq(Val)
      /\ \A i \in 1 .. Len(vals) - 1 : t[i] = vals[i + 1]
  BY <1>1, <1>2, TailElements
<1>5. Head(keys) = keys[1] /\ Head(vals) = vals[1] /\ Head(keys) \in Key /\ Head(vals) \in Val
  BY <1>1, <1>2, TailProperties
<1>6. \A i \in 1 .. n - 1 : t[i] = vals[i + 1]
  BY <1>2, <1>4
<1>7. Lists(s, t)
  BY <1>2, <1>3, <1>4 DEF Lists
<1> HIDE DEF s, t
<1>8. ASSUME NEW e \in Pairing(keys, vals) PROVE e \in Pairing(s, t) \cup {<<keys[1], vals[1]>>}
  <2>1. PICK j \in 1 .. n : e = <<keys[j], vals[j]>>
    BY <1>8 DEF Pairing
  <2>2. CASE j = 1
    BY <2>1, <2>2
  <2>3. CASE j # 1
    <3>1. j - 1 \in 1 .. n - 1 /\ (j - 1) + 1 = j
      BY <1>3, <2>3
    <3>2. e = <<s[j - 1], t[j - 1]>>
      BY <1>3, <1>6, <2>1, <3>1
    <3> QED
      BY <1>3, <3>1, <3>2 DEF Pairing
  <2> QED
    BY <2>2, <2>3
<1>9. ASSUME NEW e \in Pairing(s, t) PROVE e \in Pairing(keys, vals)
  <2>1. PICK j \in 1 .. n - 1 : e = <<s[j], t[j]>>
    BY <1>3, <1>9 DEF Pairing
  <2>2. j + 1 \in 1 .. n
    BY <1>3
  <2>3. e = <<keys[j + 1], vals[j + 1]>>
    BY <1>3, <1>6, <2>1
  <2> QED
    BY <2>2, <2>3 DEF Pairing
<1>10. <<keys[1], vals[1]>> \in Pairing(keys, vals)
  <2>1. 1 \in 1 .. n
    BY <1>3
  <2> QED
    BY <2>1 DEF Pairing
<1> QED
  BY <1>3, <1>4, <1>5, <1>7, <1>8, <1>9, <1>10 DEF s, t

(* with one in front,                                                       *)
LEMMA PairingCons ==
    ASSUME NEW keys, NEW vals, Lists(keys, vals), NEW k \in Key, NEW v \in Val
    PROVE  Pairing(Cons(k, keys), Cons(v, vals)) = Pairing(keys, vals) \cup {<<k, v>>}
<1> DEFINE n == Len(keys)
           s == Cons(k, keys)
           t == Cons(v, vals)
<1>1. keys \in Seq(Key) /\ vals \in Seq(Val) /\ k \in Key /\ v \in Val
  BY DEF Lists
<1>2. n = Len(vals) /\ n \in Nat
  BY LenProperties DEF Lists
<1>3. /\ Len(s) = n + 1
      /\ \A j \in 1 .. n + 1 : s[j] = IF j = 1 THEN k ELSE keys[j - 1]
  BY <1>1, ConsElements
<1>4. \A j \in 1 .. Len(vals) + 1 : t[j] = IF j = 1 THEN v ELSE vals[j - 1]
  BY <1>1, ConsElements
<1>5. \A j \in 1 .. n + 1 : t[j] = IF j = 1 THEN v ELSE vals[j - 1]
  BY <1>2, <1>4
<1> HIDE DEF s, t
<1>6. ASSUME NEW e \in Pairing(s, t) PROVE e \in Pairing(keys, vals) \cup {<<k, v>>}
  <2>1. PICK j \in 1 .. n + 1 : e = <<s[j], t[j]>>
    BY <1>3, <1>6 DEF Pairing
  <2>2. CASE j = 1
    BY <1>3, <1>5, <2>1, <2>2
  <2>3. CASE j # 1
    <3>1. j - 1 \in 1 .. n
      BY <1>2, <2>3
    <3>2. e = <<keys[j - 1], vals[j - 1]>>
      BY <1>3, <1>5, <2>1, <2>3
    <3> QED
      BY <3>1, <3>2 DEF Pairing
  <2> QED
    BY <2>2, <2>3
<1>7. ASSUME NEW e \in Pairing(keys, vals) PROVE e \in Pairing(s, t)
  <2>1. PICK j \in 1 .. n : e = <<keys[j], vals[j]>>
    BY <1>7 DEF Pairing
  <2>2. j + 1 \in 1 .. n + 1 /\ j + 1 # 1 /\ (j + 1) - 1 = j
    BY <1>2
  <2>3. e = <<s[j + 1], t[j + 1]>>
    BY <1>3, <1>5, <2>1, <2>2
  <2> QED
    BY <1>3, <2>2, <2>3 DEF Pairing
<1>8. <<k, v>> \in Pairing(s, t)
  <2>1. 1 \in 1 .. n + 1
    BY <1>2
  <2>2. <<k, v>> = <<s[1], t[1]>>
    BY <1>3, <1>5, <2>1
  <2> QED
    BY <1>3, <2>1, <2>2 DEF Pairing
<1> QED
  BY <1>6, <1>7, <1>8 DEF s, t

(* and with one behind.                                                     *)
LEMMA PairingAppend ==
    ASSUME NEW keys, NEW vals, Lists(keys, vals), NEW k \in Key, NEW v \in Val
    PROVE  Pairing(Append(keys, k), Append(vals, v)) = Pairing(keys, vals) \cup {<<k, v>>}
<1> DEFINE n == Len(keys)
           s == Append(keys, k)
           t == Append(vals, v)
<1>1. keys \in Seq(Key) /\ vals \in Seq(Val) /\ k \in Key /\ v \in Val
  BY DEF Lists
<1>2. n = Len(vals) /\ n \in Nat
  BY LenProperties DEF Lists
<1>3. /\ Len(s) = n + 1
      /\ \A j \in 1 .. n + 1 : s[j] = IF j <= n THEN keys[j] ELSE k
  BY <1>1, AppendElements
<1>4. \A j \in 1 .. Len(vals) + 1 : t[j] = IF j <= Len(vals) THEN vals[j] ELSE v
  BY <1>1, AppendElements
<1>5. \A j \in 1 .. n + 1 : t[j] = IF j <= n THEN vals[j] ELSE v
  BY <1>2, <1>4
<1> HIDE DEF s, t
<1>6. ASSUME NEW e \in Pairing(s, t) PROVE e \in Pairing(keys, vals) \cup {<<k, v>>}
  <2>1. PICK j \in 1 .. n + 1 : e = <<s[j], t[j]>>
    BY <1>3, <1>6 DEF Pairing
  <2>2. CASE ~(j <= n)
    BY <1>3, <1>5, <2>1, <2>2
  <2>3. CASE j <= n
    <3>1. j \in 1 .. n
      BY <1>2, <2>3
    <3>2. e = <<keys[j], vals[j]>>
      BY <1>3, <1>5, <2>1, <2>3
    <3> QED
      BY <3>1, <3>2 DEF Pairing
  <2> QED
    BY <2>2, <2>3
<1>7. ASSUME NEW e \in Pairing(keys, vals) PROVE e \in Pairing(s, t)
  <2>1. PICK j \in 1 .. n : e = <<keys[j], vals[j]>>
    BY <1>7 DEF Pairing
  <2>2. j \in 1 .. n + 1 /\ j <= n
    BY <1>2
  <2>3. e = <<s[j], t[j]>>
    BY <1>3, <1>5, <2>1, <2>2
  <2> QED
    BY <1>3, <2>2, <2>3 DEF Pairing
<1>8. <<k, v>> \in Pairing(s, t)
  <2>1. n + 1 \in 1 .. n + 1 /\ ~(n + 1 <= n)
    BY <1>2
  <2>2. <<k, v>> = <<s[n + 1], t[n + 1]>>
    BY <1>3, <1>5, <2>1
  <2> QED
    BY <1>3, <2>1, <2>2 DEF Pairing
<1> QED
  BY <1>6, <1>7, <1>8 DEF s, t

-----------------------------------------------------------------------------
(* The entries of a node, of some nodes of a store, and of all its nodes.   *)
NodePairs(node) == IF IsLeaf(node) THEN Pairing(node.keys, node.vals) ELSE {}

PairsIn(st, S) == UNION {NodePairs(Fetch(st, id)) : id \in S}

Pairs(st) == PairsIn(st, Live(st))

(* The pairs in one node,                                                   *)
LEMMA PairsOfOne ==
    ASSUME NEW st, NEW id
    PROVE  PairsIn(st, {id}) = NodePairs(Fetch(st, id))
BY DEF PairsIn

(* and in two sets of nodes.                                                *)
LEMMA PairsOfBoth ==
    ASSUME NEW st, NEW S, NEW T, NEW U, U = S \cup T
    PROVE  PairsIn(st, U) = PairsIn(st, S) \cup PairsIn(st, T)
<1>1. ASSUME NEW e \in PairsIn(st, U) PROVE e \in PairsIn(st, S) \cup PairsIn(st, T)
  BY <1>1 DEF PairsIn
<1>2. ASSUME NEW e \in PairsIn(st, S) \cup PairsIn(st, T) PROVE e \in PairsIn(st, U)
  BY <1>2 DEF PairsIn
<1> QED
  BY <1>1, <1>2

(* The entries of the nodes of D, and of the other nodes.                   *)
At(st, D) == PairsIn(st, Live(st) \cap D)

Apart(st, D) == PairsIn(st, Live(st) \ D)

(* A step that leaves the nodes outside D alone leaves their entries.       *)
Keeps(st, new, D) == Untouched(st, new, D) /\ Live(st) \ D \subseteq Live(new)

(* A change within D leaves the pairs outside D.                            *)
LEMMA PairsOutside ==
    ASSUME NEW st, NEW new, NEW D, Keeps(st, new, D)
    PROVE  /\ Pairs(st) = Apart(st, D) \cup At(st, D)
           /\ Pairs(new) = Apart(st, D) \cup At(new, D)
<1>1. Live(st) \ D = Live(new) \ D
  BY DEF Keeps, Untouched
<1>2. PairsIn(st, Live(st) \ D) = PairsIn(new, Live(new) \ D)
  <2>1. \A id \in Live(st) \ D : Fetch(new, id) = Fetch(st, id)
    BY <1>1 DEF Keeps, Untouched
  <2> QED
    BY <1>1, <2>1 DEF PairsIn
<1>3. Live(st) = (Live(st) \ D) \cup (Live(st) \cap D)
  OBVIOUS
<1>4. Live(new) = (Live(new) \ D) \cup (Live(new) \cap D)
  OBVIOUS
<1> QED
  BY <1>2, <1>3, <1>4, PairsOfBoth DEF Pairs, At, Apart

(* A key is found where its pair is.                                        *)
LEMMA PairingOwner ==
    ASSUME NEW keys, NEW vals, Lists(keys, vals), Ascending(keys), NEW k \in Key
    PROVE  LET i == Position(keys, k)
           IN  /\ Found(keys, k) => /\ i \in 1 .. Len(keys)
                                    /\ keys[i] = k /\ vals[i] \in Val
                                    /\ <<k, vals[i]>> \in Pairing(keys, vals)
               /\ ~Found(keys, k) => Without(Pairing(keys, vals), k) = Pairing(keys, vals)
<1> DEFINE i == Position(keys, k)
<1>1. keys \in Seq(Key) /\ vals \in Seq(Val) /\ Len(vals) = Len(keys)
  BY DEF Lists
<1>2. ASSUME Found(keys, k)
      PROVE  /\ i \in 1 .. Len(keys) /\ keys[i] = k /\ vals[i] \in Val
             /\ <<k, vals[i]>> \in Pairing(keys, vals)
  <2>1. i \in 1 .. Len(keys) /\ keys[i] = k
    BY <1>1, <1>2, FoundProperties
  <2>2. vals[i] \in Val
    BY <1>1, <2>1
  <2> QED
    BY <2>1, <2>2 DEF Pairing
<1>3. ASSUME ~Found(keys, k)
      PROVE  Without(Pairing(keys, vals), k) = Pairing(keys, vals)
  <2>1. \A j \in 1 .. Len(keys) : keys[j] # k
    BY <1>1, <1>3, KeyIsFound
  <2> QED
    BY <2>1 DEF Without, Pairing
<1> QED
  BY <1>2, <1>3

(* At its leaf a call finds every entry of its key.                         *)
LEMMA LeafShare ==
    ASSUME NEW lv, Inductive(lv), NEW lo, NEW hi, NEW out, Ordered(lo, hi, out),
           pc = "descend", IsLeaf(Node(cur))
    PROVE  LET R == Apart(store, {cur})
               z == Pairing(Node(cur).keys, Node(cur).vals)
           IN  /\ Pairs(store) = R \cup z
               /\ Without(R, arg.key) = R
               /\ Lists(Node(cur).keys, Node(cur).vals)
               /\ Ascending(Node(cur).keys)
               /\ arg.key \in Key /\ cur \in Live(store)
<1> DEFINE R == Apart(store, {cur})
           z == Pairing(Node(cur).keys, Node(cur).vals)
<1>1. /\ Node(cur) \in AnyNode /\ ShapeOK(Node(cur)) /\ cur \in Live(store)
      /\ KeysPlaced(Node(cur).keys, lo[cur], hi[cur])
      /\ arg.key \in Key
  BY LeafBounds
<1>2. Lists(Node(cur).keys, Node(cur).vals)
  BY <1>1, LeafCases DEF AnyNode, Lists
<1>3. Ascending(Node(cur).keys)
  BY <1>1 DEF KeysPlaced
<1>4. Pairs(store) = R \cup z
  <2>1. Live(store) = (Live(store) \ {cur}) \cup {cur}
    BY <1>1
  <2>2. PairsIn(store, {cur}) = z
    BY PairsOfOne DEF NodePairs, Node
  <2> QED
    BY <2>1, <2>2, PairsOfBoth DEF Pairs, Apart
<1>5. cur \in Leaves
  BY <1>1 DEF Leaves, Inner
<1>6. ASSUME NEW e \in R PROVE e[1] # arg.key
  <2>1. PICK id \in Live(store) \ {cur} : e \in NodePairs(Fetch(store, id))
    BY <1>6 DEF PairsIn, Apart
  <2>2. IsLeaf(Fetch(store, id)) /\ e \in Pairing(Fetch(store, id).keys, Fetch(store, id).vals)
    BY <2>1 DEF NodePairs
  <2>3. id \in Leaves
    BY <2>2 DEF Leaves, Inner, Node
  <2>4. TreeOK(store, {root} \cup Pending, lv)
    BY DEF Inductive
  <2>5. Fetch(store, id).keys \in Seq(Key)
    BY <2>1, <2>4, TreeFacts, NodeCases DEF AnyNode
  <2>6. e[1] \in Range(Node(id).keys)
    <3>1. PICK j \in 1 .. Len(Fetch(store, id).keys) :
              e = <<Fetch(store, id).keys[j], Fetch(store, id).vals[j]>>
      BY <2>2 DEF Pairing
    <3>2. DOMAIN Fetch(store, id).keys = 1 .. Len(Fetch(store, id).keys)
      BY <2>5, LenProperties
    <3> QED
      BY <3>1, <3>2 DEF Range, Node
  <2> QED
    BY <1>5, <2>1, <2>3, <2>6, OneLeaf
<1>7. Without(R, arg.key) = R
  BY <1>6 DEF Without
<1> QED
  BY <1>1, <1>2, <1>3, <1>4, <1>7

(* What the leaf says of the key is what the tree says.                     *)
LEMMA LeafAnswer ==
    ASSUME NEW lv, Inductive(lv), NEW lo, NEW hi, NEW out, Ordered(lo, hi, out),
           pc = "descend", IsLeaf(Node(cur))
    PROVE  /\ HasKey => LeafValue(Node(cur), arg.key) \in Val
                        /\ <<arg.key, LeafValue(Node(cur), arg.key)>> \in Pairs(store)
           /\ ~HasKey => Without(Pairs(store), arg.key) = Pairs(store)
<1> DEFINE R == Apart(store, {cur})
           z == Pairing(Node(cur).keys, Node(cur).vals)
<1>1. /\ Pairs(store) = R \cup z
      /\ Without(R, arg.key) = R
      /\ Lists(Node(cur).keys, Node(cur).vals)
      /\ Ascending(Node(cur).keys)
      /\ arg.key \in Key
  BY LeafShare
<1>2. HasKey => LeafValue(Node(cur), arg.key) \in Val /\ <<arg.key, LeafValue(Node(cur), arg.key)>> \in z
  BY <1>1, PairingOwner DEF HasKey, LeafValue
<1>3. ~HasKey => Without(z, arg.key) = z
  BY <1>1, PairingOwner DEF HasKey
<1> QED
  BY <1>1, <1>2, <1>3 DEF Without

(* A step that writes the leaf of the call alone.                           *)
LEMMA LeafPairs ==
    ASSUME NEW lv, Inductive(lv), cur \in Live(store), IsLeaf(Node(cur)),
           NEW node \in AnyNode, IsLeaf(node), store' = Write(store, cur, node)
    PROVE  Pairs(store') = Apart(store, {cur}) \cup Pairing(node.keys, node.vals)
<1>1. store \in StoreType
  BY CallFacts
<1>2. Live(store') = Live(store) /\ Untouched(store, store', {cur}) /\ Fetch(store', cur) = node
  BY <1>1, WriteUntouched
<1>3. Keeps(store, store', {cur}) /\ Live(store') \cap {cur} = {cur}
  BY <1>2 DEF Keeps
<1>4. Pairs(store') = Apart(store, {cur}) \cup At(store', {cur})
  BY <1>3, PairsOutside
<1>5. At(store', {cur}) = Pairing(node.keys, node.vals)
  BY <1>2, <1>3, PairsOfOne DEF NodePairs, At
<1> QED
  BY <1>4, <1>5

(* One node replaced: its pairs for the others.                             *)
LEMMA ReplacePairs ==
    ASSUME NEW lv, Inductive(lv), NEW lo, NEW hi, NEW out, Ordered(lo, hi, out), InsertReplace
    PROVE  /\ Pairs(store') = Without(Pairs(store), arg.key) \cup {<<arg.key, arg.val>>}
           /\ ret' = LeafValue(Node(cur), arg.key) /\ HasKey
<1> DEFINE R == Apart(store, {cur})
           leaf == Node(cur)
           z == Pairing(leaf.keys, leaf.vals)
           i == Position(leaf.keys, arg.key)
           w == ReplaceAt(leaf.vals, i, arg.val)
           node == Leaf(leaf.keys, w)
<1>1. /\ pc = "descend" /\ arg.op = "insert" /\ IsLeaf(Node(cur)) /\ HasKey
      /\ store' = Write(store, cur, node) /\ ret' = leaf.vals[i]
  BY DEF InsertReplace, AtLeaf, Return
<1>2. arg.val \in Val
  BY <1>1 DEF Inductive, TypeOK
<1>3. /\ Pairs(store) = R \cup z
      /\ Without(R, arg.key) = R
      /\ Lists(leaf.keys, leaf.vals) /\ Ascending(leaf.keys)
      /\ arg.key \in Key /\ cur \in Live(store)
  BY <1>1, LeafShare
<1>4. Found(leaf.keys, arg.key)
  BY <1>1 DEF HasKey
<1> HIDE DEF leaf
<1>4a. i \in 1 .. Len(leaf.keys) /\ leaf.keys[i] = arg.key
  BY <1>3, <1>4, PairingOwner
<1> HIDE DEF i
<1>5. Pairing(leaf.keys, w) = Without(z, arg.key) \cup {<<arg.key, arg.val>>}
  BY <1>2, <1>3, <1>4a, PairingReplace
<1>6. w \in Seq(Val) /\ leaf.keys \in Seq(Key)
  <2>1. leaf.vals \in Seq(Val) /\ i \in 1 .. Len(leaf.vals)
    BY <1>3, <1>4a DEF Lists
  <2> QED
    BY <1>2, <1>3, <2>1, ReplaceAtElements DEF Lists
<1> HIDE DEF w
<1>7. node \in AnyNode /\ IsLeaf(node) /\ node.keys = leaf.keys /\ node.vals = w
  BY <1>6, LeafIsNode DEF AnyNode
<1> HIDE DEF node
<1>8. Pairs(store') = R \cup Pairing(leaf.keys, w)
  BY <1>1, <1>3, <1>7, LeafPairs
<1>9. Pairs(store') = Without(Pairs(store), arg.key) \cup {<<arg.key, arg.val>>}
  BY <1>3, <1>5, <1>8 DEF Without
<1> QED
  BY <1>1, <1>9 DEF LeafValue, i, leaf

(* The pairs of a leaf with an entry more,                                  *)
LEMMA LeafWithPairs ==
    ASSUME NEW leaf \in AnyNode, IsLeaf(leaf), ShapeOK(leaf), NEW k \in Key, NEW v \in Val
    PROVE  LET full == LeafWith(leaf, k, v)
           IN  /\ full \in AnyNode /\ IsLeaf(full) /\ ShapeOK(full)
               /\ Lists(full.keys, full.vals)
               /\ Pairing(full.keys, full.vals) = Pairing(leaf.keys, leaf.vals) \cup {<<k, v>>}
<1> DEFINE i == Position(leaf.keys, k)
           s == InsertAt(leaf.keys, i, k)
           t == InsertAt(leaf.vals, i, v)
           full == LeafWith(leaf, k, v)
<1>1. Lists(leaf.keys, leaf.vals) /\ leaf.keys \in Seq(Key)
  BY LeafCases DEF AnyNode, Lists
<1>2. i \in 1 .. Len(leaf.keys) + 1
  BY <1>1, PositionProperties
<1>3. full \in AnyNode /\ IsLeaf(full) /\ ShapeOK(full)
  BY LeafWithProperties DEF ShapeOK, AnyNode
<1>4. Lists(full.keys, full.vals)
  BY <1>3, LeafCases DEF AnyNode, Lists
<1>5. full.keys = s /\ full.vals = t
  BY DEF LeafWith, Leaf
<1> HIDE DEF full, i
<1>6. Pairing(s, t) = Pairing(leaf.keys, leaf.vals) \cup {<<k, v>>}
  BY <1>1, <1>2, PairingInsert
<1> QED
  BY <1>3, <1>4, <1>5, <1>6 DEF full

(* and with an entry less.                                                  *)
LEMMA LeafWithoutPairs ==
    ASSUME NEW leaf \in AnyNode, IsLeaf(leaf), ShapeOK(leaf), Ascending(leaf.keys),
           NEW k \in Key, Found(leaf.keys, k)
    PROVE  LET rest == LeafWithout(leaf, k)
           IN  /\ rest \in AnyNode /\ IsLeaf(rest)
               /\ Pairing(rest.keys, rest.vals) = Without(Pairing(leaf.keys, leaf.vals), k)
<1> DEFINE i == Position(leaf.keys, k)
           s == RemoveAt(leaf.keys, i)
           t == RemoveAt(leaf.vals, i)
           rest == LeafWithout(leaf, k)
<1>1. Lists(leaf.keys, leaf.vals) /\ leaf.keys \in Seq(Key)
  BY LeafCases DEF AnyNode, Lists
<1>2. i \in 1 .. Len(leaf.keys) /\ leaf.keys[i] = k
  BY <1>1, FoundProperties
<1>3. rest \in AnyNode /\ IsLeaf(rest)
  BY LeafWithoutProperties DEF ShapeOK, AnyNode
<1>4. rest.keys = s /\ rest.vals = t
  BY DEF LeafWithout, Leaf
<1> HIDE DEF rest, i
<1>5. Pairing(s, t) = Without(Pairing(leaf.keys, leaf.vals), k)
  BY <1>1, <1>2, PairingRemove
<1> QED
  BY <1>3, <1>4, <1>5 DEF rest

(* A new key adds its entry.                                                *)
LEMMA FitsPairs ==
    ASSUME NEW lv, Inductive(lv), NEW lo, NEW hi, NEW out, Ordered(lo, hi, out), InsertFits
    PROVE  Pairs(store') = Pairs(store) \cup {<<arg.key, arg.val>>}
<1> DEFINE full == LeafWith(Node(cur), arg.key, arg.val)
<1>1. /\ pc = "descend" /\ arg.op = "insert" /\ IsLeaf(Node(cur))
      /\ store' = Write(store, cur, full)
  BY DEF InsertFits, AtLeaf
<1>2. /\ Node(cur) \in AnyNode /\ ShapeOK(Node(cur)) /\ cur \in Live(store) /\ arg.key \in Key
  BY <1>1, LeafBounds
<1>3. arg.val \in Val
  BY <1>1 DEF Inductive, TypeOK
<1>4. /\ full \in AnyNode /\ IsLeaf(full)
      /\ Pairing(full.keys, full.vals) = Pairing(Node(cur).keys, Node(cur).vals) \cup {<<arg.key, arg.val>>}
  BY <1>1, <1>2, <1>3, LeafWithPairs
<1> HIDE DEF full
<1>5. Pairs(store') = Apart(store, {cur}) \cup Pairing(full.keys, full.vals)
  BY <1>1, <1>2, <1>4, LeafPairs
<1>6. Pairs(store) = Apart(store, {cur}) \cup Pairing(Node(cur).keys, Node(cur).vals)
  BY <1>1, LeafShare
<1> QED
  BY <1>4, <1>5, <1>6

(* A removal takes the entry of its key away.                               *)
LEMMA RemovePairs ==
    ASSUME NEW lv, Inductive(lv), NEW lo, NEW hi, NEW out, Ordered(lo, hi, out), RemoveEntry
    PROVE  /\ Pairs(store') = Without(Pairs(store), arg.key)
           /\ ret' = LeafValue(Node(cur), arg.key) /\ HasKey
<1> DEFINE rest == LeafWithout(Node(cur), arg.key)
           R == Apart(store, {cur})
           z == Pairing(Node(cur).keys, Node(cur).vals)
<1>1. /\ pc = "descend" /\ IsLeaf(Node(cur)) /\ HasKey
      /\ store' = Write(store, cur, rest) /\ ret' = LeafValue(Node(cur), arg.key)
  BY DEF RemoveEntry, AtLeaf
<1>2. Node(cur) \in AnyNode /\ ShapeOK(Node(cur))
  BY <1>1, LeafBounds
<1>3. /\ Pairs(store) = R \cup z
      /\ Without(R, arg.key) = R
      /\ Ascending(Node(cur).keys)
      /\ arg.key \in Key /\ cur \in Live(store)
  BY <1>1, LeafShare
<1>4. Found(Node(cur).keys, arg.key)
  BY <1>1 DEF HasKey
<1>5. /\ rest \in AnyNode /\ IsLeaf(rest)
      /\ Pairing(rest.keys, rest.vals) = Without(z, arg.key)
  BY <1>1, <1>2, <1>3, <1>4, LeafWithoutPairs
<1> HIDE DEF rest
<1>6. Pairs(store') = R \cup Pairing(rest.keys, rest.vals)
  BY <1>1, <1>3, <1>5, LeafPairs
<1>7. Pairs(store') = Without(Pairs(store), arg.key)
  BY <1>3, <1>5, <1>6 DEF Without
<1> QED
  BY <1>1, <1>7

(* A split shares the entries of the node out to the two halves.            *)
LEMMA SplitPairs ==
    ASSUME NEW lv, Inductive(lv), Room(store), NEW id \in Live(store),
           NEW lower \in AnyNode, NEW upper \in AnyNode,
           store' = Alloc(Write(store, id, lower), upper)
    PROVE  /\ Pairs(store) = Apart(store, {id}) \cup NodePairs(Fetch(store, id))
           /\ Pairs(store') = Apart(store, {id}) \cup (NodePairs(lower) \cup NodePairs(upper))
<1> DEFINE r == AllocId(store)
           D == {id, r}
<1>1. store \in StoreType /\ StoreOK(store)
  BY CallFacts
<1>2. /\ r \notin Live(store) /\ r # id
      /\ Live(store') = Live(store) \cup {r}
      /\ Untouched(store, store', {id, r})
      /\ Fetch(store', id) = lower /\ Fetch(store', r) = upper
  BY <1>1, SplitStore
<1> HIDE DEF r
<1>3. /\ Keeps(store, store', D)
      /\ Live(store') \cap D = {id} \cup {r} /\ Live(store) \cap D = {id}
      /\ Live(store) \ D = Live(store) \ {id}
  BY <1>2 DEF Keeps
<1> HIDE DEF D
<1>4. /\ Pairs(store) = Apart(store, D) \cup At(store, D)
      /\ Pairs(store') = Apart(store, D) \cup At(store', D)
  BY <1>3, PairsOutside
<1>5. At(store, D) = NodePairs(Fetch(store, id))
  BY <1>3, PairsOfOne DEF At
<1>6. At(store', D) = NodePairs(lower) \cup NodePairs(upper)
  <2> DEFINE S == {id}
             T == {r}
             U == Live(store') \cap D
  <2>1. U = S \cup T
    BY <1>3
  <2>2. PairsIn(store', S) = NodePairs(lower) /\ PairsIn(store', T) = NodePairs(upper)
    BY <1>2, PairsOfOne
  <2> HIDE DEF S, T, U
  <2>3. PairsIn(store', U) = PairsIn(store', S) \cup PairsIn(store', T)
    BY <2>1, PairsOfBoth
  <2> QED
    BY <2>2, <2>3 DEF At, U
<1>7. Apart(store, D) = Apart(store, {id})
  BY <1>3 DEF Apart
<1> QED
  BY <1>4, <1>5, <1>6, <1>7

(* A split leaf and its new right half hold the old pairs and the new one.  *)
LEMMA InsertSplitPairs ==
    ASSUME NEW lv, Inductive(lv), NEW lo, NEW hi, NEW out, Ordered(lo, hi, out), InsertSplit
    PROVE  Pairs(store') = Pairs(store) \cup {<<arg.key, arg.val>>}
<1> DEFINE full == LeafWith(Node(cur), arg.key, arg.val)
           n == KeysLen(full)
           mid == n \div 2
           lower == Leaf(SubSeq(full.keys, 1, mid), SubSeq(full.vals, 1, mid))
           upper == Leaf(SubSeq(full.keys, mid + 1, n), SubSeq(full.vals, mid + 1, n))
<1>1. /\ pc = "descend" /\ arg.op = "insert" /\ IsLeaf(Node(cur))
      /\ KeysLen(Node(cur)) + 1 >= Order
      /\ Room(store)
      /\ store' = Alloc(Write(store, cur, lower), upper)
  BY DEF InsertSplit, AtLeaf
<1>2. /\ Node(cur) \in AnyNode /\ ShapeOK(Node(cur)) /\ cur \in Live(store) /\ arg.key \in Key
  BY <1>1, LeafBounds
<1>3. arg.val \in Val
  BY <1>1 DEF Inductive, TypeOK
<1>4. /\ full \in AnyNode /\ IsLeaf(full) /\ ShapeOK(full)
      /\ n = KeysLen(Node(cur)) + 1
  BY <1>1, <1>2, <1>3, LeafWithProperties DEF ShapeOK, AnyNode
<1>5. /\ Lists(full.keys, full.vals)
      /\ Pairing(full.keys, full.vals) = Pairing(Node(cur).keys, Node(cur).vals) \cup {<<arg.key, arg.val>>}
  BY <1>1, <1>2, <1>3, LeafWithPairs
<1>6. n \in Nat /\ n >= 2
  BY <1>1, <1>2, <1>4, NodeCases, OrderAssumption DEF AnyNode
<1> HIDE DEF full
<1>7. mid \in 1 .. n - 1
  <2> HIDE DEF n
  <2> QED
    BY <1>6, HalfProperties
<1>8. n = KeysLen(full) /\ n = Len(full.keys)
  BY DEF KeysLen
<1> HIDE DEF n, mid
<1>9. lower \in AnyNode /\ upper \in AnyNode /\ IsLeaf(lower) /\ IsLeaf(upper)
  BY <1>4, <1>7, <1>8, CutLeaf DEF AnyNode
<1>10. /\ NodePairs(lower) = Pairing(SubSeq(full.keys, 1, mid), SubSeq(full.vals, 1, mid))
       /\ NodePairs(upper) = Pairing(SubSeq(full.keys, mid + 1, n), SubSeq(full.vals, mid + 1, n))
  BY <1>9 DEF NodePairs, Leaf
<1> HIDE DEF lower, upper
<1>11. NodePairs(lower) \cup NodePairs(upper) = Pairing(full.keys, full.vals)
  <2>1. mid \in 0 .. Len(full.keys)
    BY <1>6, <1>7, <1>8
  <2> QED
    BY <1>5, <1>8, <1>10, <2>1, PairingHalves
<1>12. /\ Pairs(store) = Apart(store, {cur}) \cup NodePairs(Fetch(store, cur))
       /\ Pairs(store') = Apart(store, {cur}) \cup (NodePairs(lower) \cup NodePairs(upper))
  BY <1>1, <1>2, <1>9, SplitPairs
<1>13. NodePairs(Fetch(store, cur)) = Pairing(Node(cur).keys, Node(cur).vals)
  BY <1>1 DEF NodePairs, Node
<1> QED
  BY <1>5, <1>11, <1>12, <1>13

-----------------------------------------------------------------------------
(* The repairs move entries between nodes, and lose or copy none.           *)
LEMMA SamePairs ==
    ASSUME NEW st, NEW new, NEW D, Keeps(st, new, D), At(st, D) = At(new, D)
    PROVE  Pairs(new) = Pairs(st)
<1>1. /\ Pairs(st) = Apart(st, D) \cup At(st, D)
      /\ Pairs(new) = Apart(st, D) \cup At(new, D)
  BY PairsOutside
<1> QED
  BY <1>1

(* The pairs in two nodes.                                                  *)
LEMMA PairsOfTwo ==
    ASSUME NEW st, NEW a, NEW b
    PROVE  PairsIn(st, {a, b}) = NodePairs(Fetch(st, a)) \cup NodePairs(Fetch(st, b))
<1> DEFINE D == {a, b}
           S == {a}
           T == {b}
<1>1. D = S \cup T
  OBVIOUS
<1>2. PairsIn(st, S) = NodePairs(Fetch(st, a)) /\ PairsIn(st, T) = NodePairs(Fetch(st, b))
  BY PairsOfOne
<1> HIDE DEF D, S, T
<1>3. PairsIn(st, D) = PairsIn(st, S) \cup PairsIn(st, T)
  BY <1>1, PairsOfBoth
<1> QED
  BY <1>2, <1>3 DEF D

(* Lending the last entry moves a pair,                                     *)
LEMMA LendLastPairs ==
    ASSUME NEW l \in NodeOf(NodeId), NEW c \in NodeOf(NodeId), NEW sep,
           NEW ln, NEW cn, LentLast(l, c, sep, ln, cn)
    PROVE  NodePairs(ln) \cup NodePairs(cn) = NodePairs(l) \cup NodePairs(c)
<1>1. CASE ~IsLeaf(c)
  <2>1. ~IsLeaf(ln) /\ ~IsLeaf(cn) /\ ~IsLeaf(l)
    BY <1>1 DEF LentLast, IsLeaf, Internal
  <2> QED
    BY <1>1, <2>1 DEF NodePairs
<1>2. CASE IsLeaf(c)
  <2>1. /\ IsLeaf(l) /\ ShapeOK(l) /\ ShapeOK(c) /\ KeysLen(l) > 0
        /\ ln = Leaf(Front(l.keys), Front(l.vals))
        /\ cn = Leaf(Cons(Last(l.keys), c.keys), Cons(Last(l.vals), c.vals))
    BY <1>2 DEF LentLast
  <2>2. Lists(l.keys, l.vals) /\ Lists(c.keys, c.vals)
    BY <1>2, <2>1, LeafCases DEF Lists
  <2>3. l.keys # <<>>
    BY <2>1, EmptySeq DEF KeysLen
  <2>4. /\ NodePairs(ln) = Pairing(Front(l.keys), Front(l.vals))
        /\ NodePairs(cn) = Pairing(Cons(Last(l.keys), c.keys), Cons(Last(l.vals), c.vals))
        /\ NodePairs(l) = Pairing(l.keys, l.vals)
        /\ NodePairs(c) = Pairing(c.keys, c.vals)
    BY <1>2, <2>1 DEF NodePairs, Leaf, IsLeaf
  <2>5. /\ Last(l.keys) \in Key /\ Last(l.vals) \in Val
        /\ Pairing(l.keys, l.vals)
               = Pairing(Front(l.keys), Front(l.vals)) \cup {<<Last(l.keys), Last(l.vals)>>}
    BY <2>2, <2>3, PairingFront
  <2>6. Pairing(Cons(Last(l.keys), c.keys), Cons(Last(l.vals), c.vals))
            = Pairing(c.keys, c.vals) \cup {<<Last(l.keys), Last(l.vals)>>}
    BY <2>2, <2>5, PairingCons
  <2> QED
    BY <2>4, <2>5, <2>6
<1> QED
  BY <1>1, <1>2

(* as does lending the first,                                               *)
LEMMA LendFirstPairs ==
    ASSUME NEW r \in NodeOf(NodeId), NEW c \in NodeOf(NodeId), NEW sep,
           NEW rn, NEW cn, LentFirst(r, c, sep, rn, cn)
    PROVE  NodePairs(rn) \cup NodePairs(cn) = NodePairs(r) \cup NodePairs(c)
<1>1. CASE ~IsLeaf(c)
  <2>1. ~IsLeaf(rn) /\ ~IsLeaf(cn) /\ ~IsLeaf(r)
    BY <1>1 DEF LentFirst, IsLeaf, Internal
  <2> QED
    BY <1>1, <2>1 DEF NodePairs
<1>2. CASE IsLeaf(c)
  <2>1. /\ IsLeaf(r) /\ ShapeOK(r) /\ ShapeOK(c) /\ KeysLen(r) > 1
        /\ rn = Leaf(Tail(r.keys), Tail(r.vals))
        /\ cn = Leaf(Append(c.keys, Head(r.keys)), Append(c.vals, Head(r.vals)))
    BY <1>2 DEF LentFirst
  <2>2. Lists(r.keys, r.vals) /\ Lists(c.keys, c.vals)
    BY <1>2, <2>1, LeafCases DEF Lists
  <2>3. r.keys # <<>>
    BY <2>1, EmptySeq DEF KeysLen
  <2>4. /\ NodePairs(rn) = Pairing(Tail(r.keys), Tail(r.vals))
        /\ NodePairs(cn) = Pairing(Append(c.keys, Head(r.keys)), Append(c.vals, Head(r.vals)))
        /\ NodePairs(r) = Pairing(r.keys, r.vals)
        /\ NodePairs(c) = Pairing(c.keys, c.vals)
    BY <1>2, <2>1 DEF NodePairs, Leaf, IsLeaf
  <2>5. /\ Head(r.keys) \in Key /\ Head(r.vals) \in Val
        /\ Pairing(r.keys, r.vals)
               = Pairing(Tail(r.keys), Tail(r.vals)) \cup {<<Head(r.keys), Head(r.vals)>>}
    BY <2>2, <2>3, PairingTail
  <2>6. Pairing(Append(c.keys, Head(r.keys)), Append(c.vals, Head(r.vals)))
            = Pairing(c.keys, c.vals) \cup {<<Head(r.keys), Head(r.vals)>>}
    BY <2>2, <2>5, PairingAppend
  <2> QED
    BY <2>4, <2>5, <2>6
<1> QED
  BY <1>1, <1>2

(* and a merge moves all.                                                   *)
LEMMA MergePairs ==
    ASSUME NEW l \in NodeOf(NodeId), NEW r \in NodeOf(NodeId), ShapeOK(l), ShapeOK(r),
           IsLeaf(l) <=> IsLeaf(r), NEW sep,
           NEW mn, mn = IF IsLeaf(l)
                        THEN Leaf(l.keys \o r.keys, l.vals \o r.vals)
                        ELSE Internal(Append(l.keys, sep) \o r.keys, l.children \o r.children)
    PROVE  NodePairs(mn) = NodePairs(l) \cup NodePairs(r)
<1>1. CASE ~IsLeaf(l)
  <2>1. ~IsLeaf(mn) /\ ~IsLeaf(r)
    BY <1>1 DEF IsLeaf, Internal
  <2> QED
    BY <1>1, <2>1 DEF NodePairs
<1>2. CASE IsLeaf(l)
  <2>1. Lists(l.keys, l.vals) /\ Lists(r.keys, r.vals)
    BY <1>2, LeafCases DEF Lists
  <2>2. /\ NodePairs(mn) = Pairing(l.keys \o r.keys, l.vals \o r.vals)
        /\ NodePairs(l) = Pairing(l.keys, l.vals)
        /\ NodePairs(r) = Pairing(r.keys, r.vals)
    BY <1>2 DEF NodePairs, Leaf, IsLeaf
  <2> QED
    BY <2>1, <2>2, PairingJoin
<1> QED
  BY <1>1, <1>2

(* Nodes without pairs of their own: a parent that takes a new child,       *)
LEMMA AbsorbFitsPairs ==
    ASSUME NEW lv, Inductive(lv), AbsorbFits
    PROVE  Pairs(store') = Pairs(store)
<1> DEFINE f == Last(path).id
           D == {f}
<1>1. f \in Live(store) /\ ~IsLeaf(Node(f)) /\ Absorbed \in AnyNode /\ ~IsLeaf(Absorbed)
  BY AbsorbFacts DEF AbsorbFits
<1>2. store' = Write(store, f, Absorbed) /\ store \in StoreType
  BY CallFacts DEF AbsorbFits
<1>3. Live(store') = Live(store) /\ Untouched(store, store', {f}) /\ Fetch(store', f) = Absorbed
  BY <1>1, <1>2, WriteUntouched
<1>4. Live(store) \cap D = {f} /\ Live(store') \cap D = {f}
  BY <1>1, <1>3
<1>5. At(store, D) = {} /\ At(store', D) = {}
  BY <1>1, <1>3, <1>4, PairsOfOne DEF At, NodePairs, Node
<1>6. Keeps(store, store', D)
  BY <1>3 DEF Keeps
<1> HIDE DEF D
<1> QED
  BY <1>5, <1>6, SamePairs

(* a parent split,                                                          *)
LEMMA AbsorbSplitPairs ==
    ASSUME NEW lv, Inductive(lv), AbsorbSplit
    PROVE  Pairs(store') = Pairs(store)
<1> DEFINE f == Last(path).id
           full == Absorbed
           n == KeysLen(full)
           mid == n \div 2
           lower == Internal(SubSeq(full.keys, 1, mid),
                             SubSeq(full.children, 1, mid + 1))
           upper == Internal(SubSeq(full.keys, mid + 2, n),
                             SubSeq(full.children, mid + 2, n + 1))
<1>1. /\ pc = "absorb" /\ path # <<>> /\ n >= Order /\ Room(store)
      /\ store' = Alloc(Write(store, f, lower), upper)
  BY DEF AbsorbSplit, Ascend
<1>2. /\ f \in Live(store) /\ ~IsLeaf(Node(f))
      /\ full \in AnyNode /\ ShapeOK(full) /\ ~IsLeaf(full)
  BY <1>1, AbsorbFacts
<1> HIDE DEF f, full
<1>3. n \in Nat /\ n >= 2
  BY <1>1, <1>2, NodeCases, OrderAssumption DEF AnyNode
<1>4. mid \in 1 .. n - 1
  <2> HIDE DEF n
  <2> QED
    BY <1>3, HalfProperties
<1>5. n = KeysLen(full)
  OBVIOUS
<1> HIDE DEF n, mid
<1>6. CutAround(full, n, mid, lower, upper)
  BY <1>2, <1>4, <1>5 DEF CutAround
<1> HIDE DEF lower, upper
<1>7. lower \in AnyNode /\ upper \in AnyNode /\ ~IsLeaf(lower) /\ ~IsLeaf(upper)
  BY <1>2, <1>6, CutInternal DEF AnyNode
<1>8. /\ Pairs(store) = Apart(store, {f}) \cup NodePairs(Fetch(store, f))
      /\ Pairs(store') = Apart(store, {f}) \cup (NodePairs(lower) \cup NodePairs(upper))
  BY <1>1, <1>2, <1>7, SplitPairs
<1> QED
  BY <1>2, <1>7, <1>8 DEF NodePairs, Node

(* and a new root.                                                          *)
LEMMA GrowRootPairs ==
    ASSUME NEW lv, Inductive(lv), GrowRoot
    PROVE  Pairs(store') = Pairs(store)
<1> DEFINE r == AllocId(store)
           node == Internal(<<split.sep>>, <<root, split.right>>)
           D == {r}
<1>1. pc = "absorb" /\ Room(store) /\ store' = Alloc(store, node)
  BY DEF GrowRoot
<1>2. /\ store \in StoreType /\ StoreOK(store) /\ root \in NodeId
      /\ split.sep \in Key /\ split.right \in NodeId
  BY <1>1, CallFacts
<1>3. node \in AnyNode /\ ~IsLeaf(node)
  <2>1. <<split.sep>> \in Seq(Key) /\ <<root, split.right>> \in Seq(NodeId)
    BY <1>2
  <2> QED
    BY <2>1, InternalIsNode DEF AnyNode
<1> HIDE DEF node
<1>4. /\ r \notin Live(store)
      /\ Live(store') = Live(store) \cup {r}
      /\ Untouched(store, store', {r})
      /\ Fetch(store', r) = node
  BY <1>1, <1>2, <1>3, GrownStore
<1> HIDE DEF r
<1>5. Live(store) \cap D = {} /\ Live(store') \cap D = {r} /\ Keeps(store, store', D)
  BY <1>4 DEF Keeps
<1>6. At(store, D) = {} /\ At(store', D) = {}
  <2>1. At(store, D) = {}
    BY <1>5 DEF At, PairsIn
  <2>2. At(store', D) = NodePairs(node)
    BY <1>4, <1>5, PairsOfOne DEF At
  <2> QED
    BY <1>3, <2>1, <2>2 DEF NodePairs
<1> HIDE DEF D
<1> QED
  BY <1>5, <1>6, SamePairs

(* The pairs in three nodes.                                                *)
LEMMA PairsOfThree ==
    ASSUME NEW st, NEW a, NEW b, NEW f
    PROVE  PairsIn(st, {a, b, f}) = NodePairs(Fetch(st, a)) \cup NodePairs(Fetch(st, b))
                                        \cup NodePairs(Fetch(st, f))
<1> DEFINE D == {a, b, f}
           S == {a, b}
           T == {f}
<1>1. D = S \cup T
  OBVIOUS
<1>2. PairsIn(st, S) = NodePairs(Fetch(st, a)) \cup NodePairs(Fetch(st, b))
  BY PairsOfTwo
<1>3. PairsIn(st, T) = NodePairs(Fetch(st, f))
  BY PairsOfOne
<1> HIDE DEF D, S, T
<1>4. PairsIn(st, D) = PairsIn(st, S) \cup PairsIn(st, T)
  BY <1>1, PairsOfBoth
<1> QED
  BY <1>2, <1>3, <1>4 DEF D

(* Two siblings trade entries under a parent, which has none.               *)
LEMMA RotationPairs ==
    ASSUME NEW st, NEW a, NEW b, NEW f, NEW an, NEW bn, NEW pn, NEW new, NEW D,
           RotatesIn(st, a, b, f, an, bn, pn, new, D),
           ~IsLeaf(Fetch(st, f)), ~IsLeaf(pn),
           NodePairs(an) \cup NodePairs(bn)
               = NodePairs(Fetch(st, a)) \cup NodePairs(Fetch(st, b))
    PROVE  Pairs(new) = Pairs(st)
<1>1. /\ Live(new) = Live(st)
      /\ Untouched(st, new, D)
      /\ Fetch(new, a) = an /\ Fetch(new, b) = bn /\ Fetch(new, f) = pn
  BY RotatedStore
<1>2. a \in Live(st) /\ b \in Live(st) /\ f \in Live(st) /\ D = {a, b, f}
  BY DEF RotatesIn
<1>3. Live(st) \cap D = D /\ Live(new) \cap D = D
  BY <1>1, <1>2
<1>4. PairsIn(st, {a, b, f}) = NodePairs(Fetch(st, a)) \cup NodePairs(Fetch(st, b)) \cup NodePairs(Fetch(st, f))
  BY PairsOfThree
<1>5. PairsIn(new, {a, b, f}) = NodePairs(an) \cup NodePairs(bn) \cup NodePairs(pn)
  BY <1>1, PairsOfThree
<1>6. At(st, D) = At(new, D)
  BY <1>2, <1>3, <1>4, <1>5 DEF At, NodePairs
<1>7. Keeps(st, new, D)
  BY <1>1 DEF Keeps
<1> QED
  BY <1>6, <1>7, SamePairs

(* Borrowing keeps the pairs, from the left                                 *)
LEMMA BorrowFromLeftPairs ==
    ASSUME NEW lv, Inductive(lv), NEW lo, NEW hi, NEW out, Ordered(lo, hi, out),
           pc = "rebalance", path # <<>>, CanLend(ToLeft), store' = BorrowFromLeft
    PROVE  Pairs(store') = Pairs(store)
<1> DEFINE f == Last(path).id
           p == Fetch(store, f)
           i == ToLeft
           a == Siblings[i]
           b == Siblings[i + 1]
           l == Node(a)
           c == Node(b)
           sep == p.keys[i]
           k == Last(l.keys)
           ln == IF IsLeaf(c) THEN Leaf(Front(l.keys), Front(l.vals))
                              ELSE Internal(Front(l.keys), Front(l.children))
           cn == IF IsLeaf(c)
                 THEN Leaf(Cons(Last(l.keys), c.keys), Cons(Last(l.vals), c.vals))
                 ELSE Internal(Cons(sep, c.keys), Cons(Last(l.children), c.children))
           pn == NewSeparator(i, k)
           D == {a, b, f}
<1>1. /\ Last(path).idx \in 1 .. Len(Siblings) /\ Siblings[Last(path).idx] = cur
      /\ i = Last(path).idx - 1 /\ Len(Siblings) = Len(p.keys) + 1 /\ Len(p.keys) \in Nat
      /\ MinKeys \in Nat \ {0}
      /\ store \in StoreType /\ p \in AnyNode /\ ~IsLeaf(p) /\ ShapeOK(p)
  BY RepairFacts, CallFacts DEF AnyNode
<1>2. /\ i \in 1 .. Len(Siblings) /\ i + 1 \in 1 .. Len(Siblings) /\ b = cur
      /\ i \in 1 .. Len(p.keys) /\ KeysLen(l) > MinKeys
  BY <1>1 DEF CanLend
<1>3. store' = Write(Write(Write(store, a, ln), b, cn), f, pn)
  BY <1>2 DEF BorrowFromLeft, Rewritten, Node
<1>4. /\ f \in Live(store) /\ a \in Live(store) /\ b \in Live(store)
      /\ a # b /\ a # f /\ b # f
      /\ Neighbours(l, c, sep, lo[a], hi[b], lo, hi)
      /\ NodeKids(l) \cap NodeKids(c) = {}
  BY <1>2, SiblingBounds
<1>5. pn = Internal(ReplaceAt(p.keys, i, k), p.children)
  BY DEF NewSeparator, Node
<1>6. /\ l \in NodeOf(NodeId) /\ c \in NodeOf(NodeId) /\ sep \in Key
      /\ ShapeOK(l) /\ ShapeOK(c) /\ (IsLeaf(l) <=> IsLeaf(c))
  BY <1>4 DEF Neighbours, AnyNode
<1>7. l = Fetch(store, a) /\ c = Fetch(store, b)
  BY DEF Node
<1> HIDE DEF i, a, b, c, l, f, p, sep
<1>8. KeysLen(l) > 1 /\ KeysLen(l) > 0
  <2>1. KeysLen(l) \in Nat
    BY <1>6, NodeCases
  <2> QED
    BY <1>1, <1>2, <2>1
<1>9. LentLast(l, c, sep, ln, cn)
  BY <1>4, <1>6, <1>8 DEF LentLast
<1> HIDE DEF ln, cn
<1>10. /\ ln \in NodeOf(NodeId) /\ cn \in NodeOf(NodeId) /\ k \in Key
  BY <1>6, <1>9, LendLast
<1>11. NodePairs(ln) \cup NodePairs(cn) = NodePairs(Fetch(store, a)) \cup NodePairs(Fetch(store, b))
  BY <1>6, <1>7, <1>9, LendLastPairs
<1> HIDE DEF k
<1>12. pn \in AnyNode /\ ~IsLeaf(pn)
  BY <1>1, <1>2, <1>5, <1>10, ReplaceSeparator DEF AnyNode
<1> HIDE DEF pn
<1>13. RotatesIn(store, a, b, f, ln, cn, pn, store', D)
  BY <1>1, <1>3, <1>4, <1>10, <1>12 DEF RotatesIn, AnyNode
<1>14. ~IsLeaf(Fetch(store, f))
  BY <1>1 DEF p
<1> HIDE DEF D
<1> QED
  BY <1>11, <1>12, <1>13, <1>14, RotationPairs

(* and from the right,                                                      *)
LEMMA BorrowFromRightPairs ==
    ASSUME NEW lv, Inductive(lv), NEW lo, NEW hi, NEW out, Ordered(lo, hi, out),
           pc = "rebalance", path # <<>>, CanLend(ToRight), store' = BorrowFromRight
    PROVE  Pairs(store') = Pairs(store)
<1> DEFINE f == Last(path).id
           p == Fetch(store, f)
           i == Last(path).idx
           a == Siblings[i]
           b == Siblings[i + 1]
           c == Node(a)
           r == Node(b)
           sep == p.keys[i]
           k == IF IsLeaf(c) THEN Head(Tail(r.keys)) ELSE Head(r.keys)
           rn == IF IsLeaf(c) THEN Leaf(Tail(r.keys), Tail(r.vals))
                              ELSE Internal(Tail(r.keys), Tail(r.children))
           cn == IF IsLeaf(c)
                 THEN Leaf(Append(c.keys, Head(r.keys)), Append(c.vals, Head(r.vals)))
                 ELSE Internal(Append(c.keys, sep), Append(c.children, Head(r.children)))
           pn == NewSeparator(i, k)
           D == {b, a, f}
<1>1. /\ i \in 1 .. Len(Siblings) /\ Siblings[i] = cur
      /\ ToRight = i + 1 /\ Len(Siblings) = Len(p.keys) + 1 /\ Len(p.keys) \in Nat
      /\ MinKeys \in Nat \ {0}
      /\ store \in StoreType /\ p \in AnyNode /\ ~IsLeaf(p) /\ ShapeOK(p)
  BY RepairFacts, CallFacts DEF AnyNode
<1>2. /\ i \in 1 .. Len(Siblings) /\ i + 1 \in 1 .. Len(Siblings) /\ a = cur
      /\ i \in 1 .. Len(p.keys) /\ KeysLen(r) > MinKeys
  BY <1>1 DEF CanLend
<1>3. store' = Write(Write(Write(store, b, rn), a, cn), f, pn)
  BY <1>2 DEF BorrowFromRight, Rewritten, Node
<1>4. /\ f \in Live(store) /\ a \in Live(store) /\ b \in Live(store)
      /\ b # a /\ a # f /\ b # f
      /\ Neighbours(c, r, sep, lo[a], hi[b], lo, hi)
      /\ NodeKids(r) \cap NodeKids(c) = {}
  BY <1>2, SiblingBounds
<1>5. pn = Internal(ReplaceAt(p.keys, i, k), p.children)
  BY DEF NewSeparator, Node
<1>6. /\ r \in NodeOf(NodeId) /\ c \in NodeOf(NodeId) /\ sep \in Key
      /\ ShapeOK(r) /\ ShapeOK(c) /\ (IsLeaf(r) <=> IsLeaf(c))
  BY <1>4 DEF Neighbours, AnyNode
<1>7. r = Fetch(store, b) /\ c = Fetch(store, a)
  BY DEF Node
<1> HIDE DEF i, a, b, c, r, f, p, sep
<1>8. KeysLen(r) > 1
  <2>1. KeysLen(r) \in Nat
    BY <1>6, NodeCases
  <2> QED
    BY <1>1, <1>2, <2>1
<1>9. LentFirst(r, c, sep, rn, cn)
  BY <1>4, <1>6, <1>8 DEF LentFirst
<1> HIDE DEF rn, cn
<1>10. /\ rn \in NodeOf(NodeId) /\ cn \in NodeOf(NodeId) /\ k \in Key
  BY <1>6, <1>9, LendFirst
<1>11. NodePairs(rn) \cup NodePairs(cn) = NodePairs(Fetch(store, b)) \cup NodePairs(Fetch(store, a))
  BY <1>6, <1>7, <1>9, LendFirstPairs
<1> HIDE DEF k
<1>12. pn \in AnyNode /\ ~IsLeaf(pn)
  BY <1>1, <1>2, <1>5, <1>10, ReplaceSeparator DEF AnyNode
<1> HIDE DEF pn
<1>13. RotatesIn(store, b, a, f, rn, cn, pn, store', D)
  BY <1>1, <1>3, <1>4, <1>10, <1>12 DEF RotatesIn, AnyNode
<1>14. ~IsLeaf(Fetch(store, f))
  BY <1>1 DEF p
<1> HIDE DEF D
<1> QED
  BY <1>11, <1>12, <1>13, <1>14, RotationPairs

(* The entries of a node that is given up are in its left sibling.          *)
LEMMA MergedPairs ==
    ASSUME NEW st, NEW a, NEW b, NEW f, NEW an, NEW pn, NEW new, NEW D,
           MergesInto(st, a, b, f, an, pn, new, D),
           ~IsLeaf(Fetch(st, f)), ~IsLeaf(pn),
           NodePairs(an) = NodePairs(Fetch(st, a)) \cup NodePairs(Fetch(st, b))
    PROVE  Pairs(new) = Pairs(st)
<1> DEFINE E == {a, b, f}
<1>1. /\ Live(new) = Live(st) \ {b}
      /\ Untouched(st, new, D)
      /\ Fetch(new, a) = an /\ Fetch(new, f) = pn
  BY MergedStore
<1>2. /\ a \in Live(st) /\ b \in Live(st) /\ f \in Live(st)
      /\ a # b /\ b # f /\ D = {a, f}
  BY DEF MergesInto
<1>3. Live(st) \cap E = {a, b, f} /\ Live(new) \cap E = {a, f}
  BY <1>1, <1>2
<1>4. PairsIn(st, {a, b, f}) = NodePairs(Fetch(st, a)) \cup NodePairs(Fetch(st, b)) \cup NodePairs(Fetch(st, f))
  BY PairsOfThree
<1>5. PairsIn(new, {a, f}) = NodePairs(an) \cup NodePairs(pn)
  BY <1>1, PairsOfTwo
<1>6. At(st, E) = At(new, E)
  BY <1>3, <1>4, <1>5 DEF At, NodePairs
<1>7. Keeps(st, new, E)
  BY <1>1, <1>2 DEF Keeps, Untouched
<1> HIDE DEF E
<1> QED
  BY <1>6, <1>7, SamePairs

(* and merging does.                                                        *)
LEMMA MergeStorePairs ==
    ASSUME NEW lv, Inductive(lv), NEW lo, NEW hi, NEW out, Ordered(lo, hi, out),
           pc = "rebalance", path # <<>>,
           NEW i \in 1 .. Len(Siblings), i + 1 \in 1 .. Len(Siblings),
           store' = Merge(i)
    PROVE  Pairs(store') = Pairs(store)
<1> DEFINE f == Last(path).id
           p == Fetch(store, f)
           a == Siblings[i]
           b == Siblings[i + 1]
           l == Node(a)
           r == Node(b)
           sep == p.keys[i]
           mn == IF IsLeaf(l)
                 THEN Leaf(l.keys \o r.keys, l.vals \o r.vals)
                 ELSE Internal(Append(l.keys, sep) \o r.keys, l.children \o r.children)
           pn == Internal(RemoveAt(p.keys, i), RemoveAt(p.children, i + 1))
           D == {a, f}
<1>1. /\ f \in Live(store) /\ a \in Live(store) /\ b \in Live(store)
      /\ a # b /\ a # f /\ b # f
      /\ Parented(p, lo[f], hi[f], lo, hi)
      /\ i \in 1 .. Len(p.keys)
      /\ Siblings = p.children
      /\ Neighbours(l, r, sep, lo[a], hi[b], lo, hi)
      /\ NodeKids(l) \cap NodeKids(r) = {}
  BY SiblingBounds
<1>2. store \in StoreType /\ StoreOK(store)
  BY CallFacts
<1>3. store' = Write(Reclaim(Write(store, f, pn), b), a, mn)
  BY <1>1 DEF Merge, Node, Siblings
<1>4. /\ l \in NodeOf(NodeId) /\ r \in NodeOf(NodeId)
      /\ ShapeOK(l) /\ ShapeOK(r) /\ (IsLeaf(l) <=> IsLeaf(r)) /\ sep \in Key
  BY <1>1 DEF Neighbours, AnyNode
<1>5. l = Fetch(store, a) /\ r = Fetch(store, b)
  BY DEF Node
<1>6. p \in NodeOf(NodeId) /\ ~IsLeaf(p) /\ ShapeOK(p)
  BY <1>1 DEF Parented, AnyNode
<1> HIDE DEF a, b, l, r, f, p, sep
<1>7. mn \in AnyNode
  BY <1>1, <1>4, MergeLists DEF AnyNode
<1>8. NodePairs(mn) = NodePairs(l) \cup NodePairs(r)
  BY <1>4, MergePairs
<1>9. pn \in AnyNode /\ ~IsLeaf(pn)
  BY <1>1, <1>6, UnlinkChild DEF AnyNode
<1> HIDE DEF mn, pn
<1>10. MergesInto(store, a, b, f, mn, pn, store', D)
  BY <1>1, <1>2, <1>3, <1>7, <1>9 DEF MergesInto
<1> HIDE DEF D
<1>11. NodePairs(mn) = NodePairs(Fetch(store, a)) \cup NodePairs(Fetch(store, b))
  BY <1>5, <1>8
<1>12. ~IsLeaf(Fetch(store, f))
  BY <1>6 DEF p
<1> QED
  BY <1>9, <1>10, <1>11, <1>12, MergedPairs

(* So all of rebalance does,                                                *)
LEMMA RebalancePairs ==
    ASSUME NEW lv, Inductive(lv), NEW lo, NEW hi, NEW out, Ordered(lo, hi, out), Rebalance
    PROVE  Pairs(store') = Pairs(store)
<1>1. pc = "rebalance" /\ path # <<>>
  BY DEF Rebalance
<1>2. /\ Last(path).idx \in 1 .. Len(Siblings)
      /\ ToLeft = Last(path).idx - 1 /\ ToRight = Last(path).idx + 1
      /\ Len(Siblings) \in Nat
  BY <1>1, RepairFacts
<1>3. CASE CanLend(ToLeft) /\ store' = BorrowFromLeft
  BY <1>1, <1>3, BorrowFromLeftPairs
<1>4. CASE CanLend(ToRight) /\ store' = BorrowFromRight
  BY <1>1, <1>4, BorrowFromRightPairs
<1>5. CASE ToLeft >= 1 /\ store' = Merge(ToLeft)
  <2> DEFINE i == ToLeft
  <2>1. i \in 1 .. Len(Siblings) /\ i + 1 \in 1 .. Len(Siblings) /\ store' = Merge(i)
    BY <1>2, <1>5
  <2> HIDE DEF i
  <2> QED
    BY <1>1, <2>1, MergeStorePairs
<1>6. CASE ToRight <= Len(Siblings) /\ store' = Merge(Last(path).idx)
  <2> DEFINE i == Last(path).idx
  <2>1. i \in 1 .. Len(Siblings) /\ i + 1 \in 1 .. Len(Siblings) /\ store' = Merge(i)
    BY <1>2, <1>6
  <2> HIDE DEF i
  <2> QED
    BY <1>1, <2>1, MergeStorePairs
<1> QED
  BY <1>3, <1>4, <1>5, <1>6 DEF Rebalance

(* and the collapse of the root.                                            *)
LEMMA FinishRemovePairs ==
    ASSUME NEW lv, Inductive(lv), FinishRemove
    PROVE  Pairs(store') = Pairs(store)
<1>1. pc = "rebalance" /\ path = <<>>
  BY DEF FinishRemove
<1>2. store \in StoreType /\ StoreOK(store) /\ root \in Live(store)
  BY CallFacts
<1>3. CASE store' = store
  BY <1>3
<1>4. CASE ~IsLeaf(Node(root)) /\ store' = Reclaim(store, root)
  <2> DEFINE D == {root}
  <2>1. /\ Live(store') = Live(store) \ {root}
        /\ \A j \in Live(store) \ {root} : Fetch(store', j) = Fetch(store, j)
    BY <1>2, <1>4, ReclaimProperties, EmptyLeafIsNode
  <2>2. Live(store) \cap D = {root} /\ Live(store') \cap D = {} /\ Keeps(store, store', D)
    BY <1>2, <2>1 DEF Keeps, Untouched
  <2>3. At(store, D) = {}
    BY <1>4, <2>2, PairsOfOne DEF At, NodePairs, Node
  <2>4. At(store', D) = {}
    BY <2>2 DEF At, PairsIn
  <2> HIDE DEF D
  <2> QED
    BY <2>2, <2>3, <2>4, SamePairs
<1> QED
  BY <1>3, <1>4 DEF FinishRemove

(* A tree just cleared has none.                                            *)
LEMMA ResetPairs == Pairs(ResetStore) = {}
<1>1. Live(ResetStore) = {1} /\ Fetch(ResetStore, 1) = EmptyLeaf
  BY ResetProperties, EmptyLeafIsNode
<1>2. NodePairs(EmptyLeaf) = {}
  <2>1. EmptyLeaf.keys = <<>> /\ Len(<<>>) = 0 /\ 1 .. 0 = {}
    BY DEF EmptyLeaf, Leaf
  <2> QED
    BY <2>1 DEF NodePairs, Pairing
<1> QED
  BY <1>1, <1>2, PairsOfOne DEF Pairs

-----------------------------------------------------------------------------
(* The map of the tree is the entries of its leaves: a key has the value of *)
(* the one pair it is in.                                                   *)
Holds(m, P) ==
    /\ m \in [Key -> Val \cup {None}]
    /\ \A k \in Key, v \in Val : m[k] = v <=> <<k, v>> \in P

MapHeld == Holds(Contents, Pairs(store))

(* A pair in an ordered tree is in one leaf, at one place.                  *)
LEMMA PairIsInLeaf ==
    ASSUME NEW lv, Inductive(lv), NEW e
    PROVE  e \in Pairs(store) <=>
              \E x \in Leaves : \E j \in 1 .. Len(Node(x).keys) :
                  /\ e = <<Node(x).keys[j], Node(x).vals[j]>>
                  /\ Node(x).keys[j] \in Range(Node(x).keys)
<1>1. TreeOK(store, {root} \cup Pending, lv)
  BY DEF Inductive
<1>2. ASSUME NEW x \in Live(store), NEW j \in 1 .. Len(Node(x).keys)
      PROVE  Node(x).keys[j] \in Range(Node(x).keys)
  <2>1. Node(x).keys \in Seq(Key)
    BY <1>1, TreeFacts, NodeCases DEF AnyNode, Node
  <2> HIDE DEF Node
  <2>2. DOMAIN Node(x).keys = 1 .. Len(Node(x).keys)
    BY <2>1, LenProperties
  <2> QED
    BY <2>2 DEF Range
<1>3. ASSUME e \in Pairs(store)
      PROVE  \E x \in Leaves : \E j \in 1 .. Len(Node(x).keys) :
                  /\ e = <<Node(x).keys[j], Node(x).vals[j]>>
                  /\ Node(x).keys[j] \in Range(Node(x).keys)
  <2>1. PICK x \in Live(store) : e \in NodePairs(Fetch(store, x))
    BY <1>3 DEF Pairs, PairsIn
  <2>2. IsLeaf(Node(x)) /\ e \in Pairing(Node(x).keys, Node(x).vals)
    BY <2>1 DEF NodePairs, Node
  <2>3. PICK j \in 1 .. Len(Node(x).keys) : e = <<Node(x).keys[j], Node(x).vals[j]>>
    BY <2>2 DEF Pairing
  <2>4. x \in Leaves
    BY <2>2 DEF Leaves, Inner
  <2> QED
    BY <1>2, <2>3, <2>4
<1>4. ASSUME NEW x \in Leaves, NEW j \in 1 .. Len(Node(x).keys),
             e = <<Node(x).keys[j], Node(x).vals[j]>>
      PROVE  e \in Pairs(store)
  <2>1. x \in Live(store) /\ IsLeaf(Node(x))
    BY DEF Leaves, Inner
  <2>2. e \in NodePairs(Fetch(store, x))
    BY <1>4, <2>1 DEF NodePairs, Pairing, Node
  <2> QED
    BY <2>1, <2>2 DEF Pairs, PairsIn
<1> QED
  BY <1>3, <1>4

(* The pair of a key of a leaf.                                             *)
LEMMA PairOfKey ==
    ASSUME NEW lv, Inductive(lv), NEW lo, NEW hi, NEW out, Ordered(lo, hi, out),
           NEW x \in Leaves, NEW j \in 1 .. Len(Node(x).keys)
    PROVE  LET k == Node(x).keys[j]
           IN  k \in Key /\ Node(x).vals[j] \in Val /\ LeafValue(Node(x), k) = Node(x).vals[j]
<1>1. x \in Live(store) /\ IsLeaf(Node(x))
  BY DEF Leaves, Inner
<1>2. TreeOK(store, {root} \cup Pending, lv) /\ Placed(store, lo, hi, out)
  BY DEF Inductive, Ordered
<1>3. Node(x) \in AnyNode /\ ShapeOK(Node(x))
  BY <1>1, <1>2, TreeFacts DEF Node
<1>4. Ascending(Node(x).keys)
  BY <1>1, <1>2 DEF Placed, NodePlaced, KeysPlaced, Node
<1>5. Lists(Node(x).keys, Node(x).vals)
  BY <1>1, <1>3, LeafCases DEF AnyNode, Lists
<1>6. Position(Node(x).keys, Node(x).keys[j]) = j
  BY <1>4, <1>5, KeyIsFound DEF Lists
<1>7. Node(x).keys[j] \in Key
  BY <1>5 DEF Lists
<1>8. Node(x).vals[j] \in Val
  BY <1>5 DEF Lists
<1> QED
  BY <1>6, <1>7, <1>8 DEF LeafValue

(* An ordered tree holds the map of its pairs.                              *)
LEMMA ContentsArePairs ==
    ASSUME NEW lv, Inductive(lv), NEW lo, NEW hi, NEW out, Ordered(lo, hi, out)
    PROVE  MapHeld
<1> DEFINE Has(k, x) == k \in Range(Node(x).keys)
           Owner(k) == CHOOSE l \in Leaves : Has(k, l)
<1>1. Contents = [k \in Key |-> IF \E x \in Leaves : Has(k, x)
                                THEN LeafValue(Node(Owner(k)), k) ELSE None]
  BY DEF Contents
<1>2. ASSUME NEW k \in Key, NEW x \in Leaves, Has(k, x)
      PROVE  \E j \in 1 .. Len(Node(x).keys) : k = Node(x).keys[j]
  <2>1. TreeOK(store, {root} \cup Pending, lv) /\ x \in Live(store)
    BY DEF Inductive, Leaves
  <2>2. Node(x).keys \in Seq(Key)
    BY <2>1, TreeFacts, NodeCases DEF AnyNode, Node
  <2>3. DOMAIN Node(x).keys = 1 .. Len(Node(x).keys)
    BY <2>2, LenProperties
  <2> QED
    BY <1>2, <2>3 DEF Range
<1>3. ASSUME NEW k \in Key, ~\E x \in Leaves : Has(k, x)
      PROVE  /\ Contents[k] \in Val \cup {None}
             /\ \A v \in Val : Contents[k] = v <=> <<k, v>> \in Pairs(store)
  <2>1. Contents[k] = None
    BY <1>1, <1>3
  <2>2. ASSUME NEW v \in Val PROVE <<k, v>> \notin Pairs(store)
    BY <1>3, PairIsInLeaf
  <2> QED
    BY <2>1, <2>2, NoneAssumption
<1>4. ASSUME NEW k \in Key, \E x \in Leaves : Has(k, x)
      PROVE  /\ Contents[k] \in Val \cup {None}
             /\ \A v \in Val : Contents[k] = v <=> <<k, v>> \in Pairs(store)
  <2> DEFINE x == Owner(k)
  <2>1. Contents[k] = LeafValue(Node(x), k)
    BY <1>1, <1>4
  <2>2. x \in Leaves /\ Has(k, x)
    BY <1>4
  <2> HIDE DEF x
  <2>3. PICK j \in 1 .. Len(Node(x).keys) : k = Node(x).keys[j]
    BY <1>2, <2>2
  <2>4. Contents[k] = Node(x).vals[j] /\ Node(x).vals[j] \in Val
    BY <2>1, <2>2, <2>3, PairOfKey
  <2>5. <<k, Contents[k]>> \in Pairs(store)
    BY <1>4, <2>2, <2>3, <2>4, PairIsInLeaf
  <2>6. ASSUME NEW v \in Val, <<k, v>> \in Pairs(store) PROVE Contents[k] = v
    <3>0. PICK y \in Leaves : \E m \in 1 .. Len(Node(y).keys) :
              /\ <<k, v>> = <<Node(y).keys[m], Node(y).vals[m]>>
              /\ Node(y).keys[m] \in Range(Node(y).keys)
      BY <2>6, PairIsInLeaf
    <3>1. PICK m \in 1 .. Len(Node(y).keys) :
              /\ <<k, v>> = <<Node(y).keys[m], Node(y).vals[m]>>
              /\ Node(y).keys[m] \in Range(Node(y).keys)
      BY <3>0
    <3>2. k = Node(y).keys[m] /\ v = Node(y).vals[m]
      BY <3>1
    <3>3. k \in Range(Node(x).keys) \cap Range(Node(y).keys)
      BY <2>2, <3>1, <3>2
    <3>4. x = y
      BY <2>2, <3>1, <3>3, OneLeaf
    <3>5. LeafValue(Node(y), Node(y).keys[m]) = Node(y).vals[m]
      BY <3>1, PairOfKey
    <3> QED
      BY <2>1, <3>2, <3>4, <3>5
  <2> QED
    BY <2>4, <2>5, <2>6
<1>5. Contents \in [Key -> Val \cup {None}]
  BY <1>1, <1>3, <1>4
<1> QED
  BY <1>3, <1>4, <1>5 DEF MapHeld, Holds

(* The map that entries determine, and what it becomes with them.           *)
LEMMA SameMap ==
    ASSUME NEW m, NEW d, NEW P, Holds(m, P), Holds(d, P)
    PROVE  d = m
<1>1. m \in [Key -> Val \cup {None}] /\ d \in [Key -> Val \cup {None}]
  BY DEF Holds
<1>2. ASSUME NEW k \in Key PROVE d[k] = m[k]
  <2>1. m[k] \in Val \cup {None} /\ d[k] \in Val \cup {None}
    BY <1>1
  <2>2. CASE m[k] \in Val
    BY <2>2 DEF Holds
  <2>3. CASE d[k] \in Val
    BY <2>3 DEF Holds
  <2> QED
    BY <2>1, <2>2, <2>3
<1> QED
  BY <1>1, <1>2

(* A pair put in the map,                                                   *)
LEMMA PutMap ==
    ASSUME NEW m, NEW d, NEW P, NEW k \in Key, NEW v \in Val,
           Holds(m, P), Holds(d, Without(P, k) \cup {<<k, v>>})
    PROVE  d = [m EXCEPT ![k] = v]
<1> DEFINE Q == Without(P, k) \cup {<<k, v>>}
           w == [m EXCEPT ![k] = v]
<1>1. m \in [Key -> Val \cup {None}]
  BY DEF Holds
<1>2. w \in [Key -> Val \cup {None}]
  BY <1>1
<1>3. ASSUME NEW x \in Key, NEW y \in Val PROVE w[x] = y <=> <<x, y>> \in Q
  <2>1. CASE x = k
    <3>1. w[x] = v
      BY <1>1, <2>1
    <3>2. <<x, y>> \in Q <=> y = v
      BY <2>1 DEF Without
    <3> QED
      BY <3>1, <3>2
  <2>2. CASE x # k
    <3>1. w[x] = m[x]
      BY <1>1, <2>2
    <3>2. <<x, y>> \in Q <=> <<x, y>> \in P
      BY <2>2 DEF Without
    <3> QED
      BY <3>1, <3>2 DEF Holds
  <2> QED
    BY <2>1, <2>2
<1> HIDE DEF w, Q
<1>4. Holds(w, Q) /\ Holds(d, Q)
  BY <1>2, <1>3 DEF Holds, Q
<1>5. d = w
  BY <1>4, SameMap
<1> QED
  BY <1>5 DEF w

(* a key dropped from it.                                                   *)
LEMMA DropMap ==
    ASSUME NEW m, NEW d, NEW P, NEW k \in Key,
           Holds(m, P), Holds(d, Without(P, k))
    PROVE  d = [m EXCEPT ![k] = None]
<1> DEFINE Q == Without(P, k)
           w == [m EXCEPT ![k] = None]
<1>1. m \in [Key -> Val \cup {None}]
  BY DEF Holds
<1>2. w \in [Key -> Val \cup {None}]
  BY <1>1
<1>3. ASSUME NEW x \in Key, NEW y \in Val PROVE w[x] = y <=> <<x, y>> \in Q
  <2>1. CASE x = k
    <3>1. w[x] = None /\ y # None
      BY <1>1, <2>1, NoneAssumption
    <3>2. <<x, y>> \notin Q
      BY <2>1 DEF Without
    <3> QED
      BY <3>1, <3>2
  <2>2. CASE x # k
    <3>1. w[x] = m[x]
      BY <1>1, <2>2
    <3>2. <<x, y>> \in Q <=> <<x, y>> \in P
      BY <2>2 DEF Without
    <3> QED
      BY <3>1, <3>2 DEF Holds
  <2> QED
    BY <2>1, <2>2
<1> HIDE DEF w, Q
<1>4. Holds(w, Q) /\ Holds(d, Q)
  BY <1>2, <1>3 DEF Holds, Q
<1>5. d = w
  BY <1>4, SameMap
<1> QED
  BY <1>5 DEF w

(* A key without a pair has no value, and giving it none changes nothing.   *)
LEMMA AbsentKey ==
    ASSUME NEW m, NEW P, NEW k \in Key, Holds(m, P), Without(P, k) = P
    PROVE  m[k] = None /\ m = [m EXCEPT ![k] = None]
<1>1. m \in [Key -> Val \cup {None}]
  BY DEF Holds
<1>2. ASSUME m[k] \in Val PROVE FALSE
  <2> DEFINE v == m[k]
  <2>1. <<k, v>> \in P
    BY <1>2 DEF Holds
  <2>2. <<k, v>> \in Without(P, k)
    BY <2>1
  <2> QED
    BY <2>2 DEF Without
<1>3. m[k] = None
  BY <1>1, <1>2
<1> QED
  BY <1>1, <1>3

-----------------------------------------------------------------------------
(* What each action does to the map.                                        *)
Stays == Contents' = Contents

Puts == Contents' = [Contents EXCEPT ![arg.key] = arg.val]

Drops == Contents' = [Contents EXCEPT ![arg.key] = None]

(* A step that keeps the pairs keeps the map.                               *)
LEMMA PairsStay ==
    ASSUME MapHeld, MapHeld', Pairs(store') = Pairs(store)
    PROVE  Stays
<1>1. Holds(Contents, Pairs(store)) /\ Holds(Contents', Pairs(store))
  BY DEF MapHeld
<1> HIDE DEF Contents
<1> QED
  BY <1>1, SameMap DEF Stays

(* What each step that is not a repair does to the map: overwrite,          *)
LEMMA ReplaceEffect ==
    ASSUME Sorted, MapHeld, MapHeld', InsertReplace
    PROVE  Puts /\ ret' = Contents[arg.key] /\ Contents[arg.key] # None /\ arg.key \in Key /\ arg.val \in Val
<1>1. PICK lv, lo, hi, out : Inductive(lv) /\ Ordered(lo, hi, out)
  BY DEF Sorted
<1>2. pc = "descend" /\ IsLeaf(Node(cur)) /\ arg.op = "insert"
  BY DEF InsertReplace, AtLeaf
<1>3. arg.key \in Key /\ arg.val \in Val
  BY <1>1, <1>2 DEF Inductive, TypeOK
<1>4. /\ Pairs(store') = Without(Pairs(store), arg.key) \cup {<<arg.key, arg.val>>}
      /\ ret' = LeafValue(Node(cur), arg.key) /\ HasKey
  BY <1>1, ReplacePairs
<1>5. /\ LeafValue(Node(cur), arg.key) \in Val
      /\ <<arg.key, LeafValue(Node(cur), arg.key)>> \in Pairs(store)
  BY <1>1, <1>2, <1>4, LeafAnswer
<1>6. /\ Holds(Contents, Pairs(store))
      /\ Holds(Contents', Without(Pairs(store), arg.key) \cup {<<arg.key, arg.val>>})
  BY <1>4 DEF MapHeld
<1> HIDE DEF Contents
<1>7. Puts
  BY <1>3, <1>6, PutMap DEF Puts
<1>8. Contents[arg.key] = LeafValue(Node(cur), arg.key)
  BY <1>3, <1>5, <1>6 DEF Holds
<1> QED
  BY <1>3, <1>4, <1>5, <1>7, <1>8, NoneAssumption

(* answer,                                                                  *)
LEMMA GetEffect ==
    ASSUME Sorted, MapHeld, MapHeld', GetAnswer
    PROVE  Stays /\ ret' = Contents[arg.key]
<1>1. PICK lv, lo, hi, out : Inductive(lv) /\ Ordered(lo, hi, out)
  BY DEF Sorted
<1>2. /\ pc = "descend" /\ IsLeaf(Node(cur)) /\ store' = store
      /\ ret' = IF HasKey THEN LeafValue(Node(cur), arg.key) ELSE None
  BY DEF GetAnswer, AtLeaf, Return
<1>3. arg.key \in Key
  BY <1>1, <1>2, LeafBounds
<1>4. Stays
  BY <1>2, PairsStay
<1>5. CASE HasKey
  <2>1. /\ LeafValue(Node(cur), arg.key) \in Val
        /\ <<arg.key, LeafValue(Node(cur), arg.key)>> \in Pairs(store)
    BY <1>1, <1>2, <1>5, LeafAnswer
  <2> QED
    BY <1>2, <1>3, <1>4, <1>5, <2>1 DEF MapHeld, Holds
<1>6. CASE ~HasKey
  <2>1. Without(Pairs(store), arg.key) = Pairs(store)
    BY <1>1, <1>2, <1>6, LeafAnswer
  <2>2. Contents[arg.key] = None
    BY <1>3, <2>1, AbsentKey DEF MapHeld
  <2> QED
    BY <1>2, <1>4, <1>6, <2>2
<1> QED
  BY <1>5, <1>6

(* put a new key,                                                           *)
LEMMA NewKeyEffect ==
    ASSUME Sorted, MapHeld, MapHeld', InsertFits \/ InsertSplit
    PROVE  /\ Puts /\ ret' = Contents[arg.key] /\ Contents[arg.key] = None
           /\ arg.key \in Key /\ arg.val \in Val
<1>1. PICK lv, lo, hi, out : Inductive(lv) /\ Ordered(lo, hi, out)
  BY DEF Sorted
<1>2. pc = "descend" /\ IsLeaf(Node(cur)) /\ arg.op = "insert" /\ ~HasKey /\ ret' = None
  BY DEF InsertFits, InsertSplit, AtLeaf, Return
<1>3. arg.key \in Key /\ arg.val \in Val
  BY <1>1, <1>2 DEF Inductive, TypeOK
<1>4. Pairs(store') = Pairs(store) \cup {<<arg.key, arg.val>>}
  BY <1>1, FitsPairs, InsertSplitPairs
<1>5. Without(Pairs(store), arg.key) = Pairs(store)
  BY <1>1, <1>2, LeafAnswer
<1>6. /\ Holds(Contents, Pairs(store))
      /\ Holds(Contents', Without(Pairs(store), arg.key) \cup {<<arg.key, arg.val>>})
  BY <1>4, <1>5 DEF MapHeld
<1> HIDE DEF Contents
<1>7. Puts
  BY <1>3, <1>6, PutMap DEF Puts
<1>8. Contents[arg.key] = None
  BY <1>3, <1>5, <1>6, AbsentKey
<1> QED
  BY <1>2, <1>3, <1>7, <1>8

(* drop a key,                                                              *)
LEMMA RemoveEffect ==
    ASSUME Sorted, MapHeld, MapHeld', RemoveEntry
    PROVE  Drops /\ ret' = Contents[arg.key] /\ Contents[arg.key] # None /\ arg.key \in Key
<1>1. PICK lv, lo, hi, out : Inductive(lv) /\ Ordered(lo, hi, out)
  BY DEF Sorted
<1>2. pc = "descend" /\ IsLeaf(Node(cur))
  BY DEF RemoveEntry, AtLeaf
<1>3. arg.key \in Key
  BY <1>1, <1>2, LeafBounds
<1>4. /\ Pairs(store') = Without(Pairs(store), arg.key)
      /\ ret' = LeafValue(Node(cur), arg.key) /\ HasKey
  BY <1>1, RemovePairs
<1>5. /\ LeafValue(Node(cur), arg.key) \in Val
      /\ <<arg.key, LeafValue(Node(cur), arg.key)>> \in Pairs(store)
  BY <1>1, <1>2, <1>4, LeafAnswer
<1>6. Holds(Contents, Pairs(store)) /\ Holds(Contents', Without(Pairs(store), arg.key))
  BY <1>4 DEF MapHeld
<1> HIDE DEF Contents
<1>7. Drops
  BY <1>3, <1>6, DropMap DEF Drops
<1>8. Contents[arg.key] = LeafValue(Node(cur), arg.key)
  BY <1>3, <1>5, <1>6 DEF Holds
<1> QED
  BY <1>3, <1>4, <1>5, <1>7, <1>8, NoneAssumption

(* or find none to drop.                                                    *)
LEMMA AbsentEffect ==
    ASSUME Sorted, MapHeld, MapHeld', RemoveAbsent
    PROVE  Stays /\ Drops /\ ret' = Contents[arg.key]
<1>1. PICK lv, lo, hi, out : Inductive(lv) /\ Ordered(lo, hi, out)
  BY DEF Sorted
<1>2. pc = "descend" /\ IsLeaf(Node(cur)) /\ ~HasKey /\ ret' = None /\ store' = store
  BY DEF RemoveAbsent, AtLeaf, Return
<1>3. arg.key \in Key
  BY <1>1, <1>2, LeafBounds
<1>4. Without(Pairs(store), arg.key) = Pairs(store)
  BY <1>1, <1>2, LeafAnswer
<1>5. Stays
  BY <1>2, PairsStay
<1>6. Holds(Contents, Pairs(store))
  BY DEF MapHeld
<1> HIDE DEF Contents
<1>7. Contents[arg.key] = None /\ Contents = [Contents EXCEPT ![arg.key] = None]
  BY <1>3, <1>4, <1>6, AbsentKey
<1> QED
  BY <1>2, <1>5, <1>7 DEF Stays, Drops

Repairs == \/ GetCall \/ InsertCall \/ RemoveCall \/ Descend
           \/ AbsorbFits \/ AbsorbSplit \/ GrowRoot
           \/ Sufficient \/ Rebalance \/ FinishRemove

(* A repair, or the way down, does nothing to the map.                      *)
LEMMA RepairEffect ==
    ASSUME Sorted, MapHeld, MapHeld', Repairs
    PROVE  Stays
<1>1. PICK lv, lo, hi, out : Inductive(lv) /\ Ordered(lo, hi, out)
  BY DEF Sorted
<1>2. CASE GetCall \/ InsertCall \/ RemoveCall \/ Descend \/ Sufficient
  <2>1. store' = store
    BY <1>2 DEF GetCall, InsertCall, RemoveCall, Call, Descend, Sufficient, tree
  <2> QED
    BY <2>1, PairsStay
<1>3. CASE AbsorbFits
  BY <1>1, <1>3, AbsorbFitsPairs, PairsStay
<1>4. CASE AbsorbSplit
  BY <1>1, <1>4, AbsorbSplitPairs, PairsStay
<1>5. CASE GrowRoot
  BY <1>1, <1>5, GrowRootPairs, PairsStay
<1>6. CASE Rebalance
  BY <1>1, <1>6, RebalancePairs, PairsStay
<1>7. CASE FinishRemove
  BY <1>1, <1>7, FinishRemovePairs, PairsStay
<1> QED
  BY <1>2, <1>3, <1>4, <1>5, <1>6, <1>7 DEF Repairs

(* An empty set of pairs is the map of no key.                              *)
LEMMA EmptyMap ==
    ASSUME NEW m, Holds(m, {})
    PROVE  m = [k \in Key |-> None]
BY DEF Holds

(* clear drops all.                                                         *)
LEMMA ClearEffect ==
    ASSUME MapHeld', store' = ResetStore
    PROVE  Contents' = [k \in Key |-> None]
<1>1. Holds(Contents', {})
  BY ResetPairs DEF MapHeld
<1> HIDE DEF Contents
<1> QED
  BY <1>1, EmptyMap

(* MapHeld holds at every step of every call.                               *)
LEMMA MapHeldAlways == Spec => []MapHeld
<1>1. Sorted => MapHeld
  BY ContentsArePairs DEF Sorted
<1> QED
  BY <1>1, SortedTheorem, PTL

-----------------------------------------------------------------------------
(* The entry count. InsertSplit and RemoveEntry change the map before the   *)
(* caller counts, so len is one behind while they work their way back up.   *)
Behind == (IF pc = "absorb" THEN 1 ELSE 0) - (IF pc = "rebalance" THEN 1 ELSE 0)

Keyed(m) == Map!Entries(m)

Counts(m, n) == IsFiniteSet(Keyed(m)) /\ n = Cardinality(Keyed(m))

Counted ==
    /\ len \in Nat
    /\ Counts(Contents, len + Behind)
    /\ pc = "absorb" => ret = None

MapType == [Key -> Val \cup {None}]

(* A map held is a map.                                                     *)
LEMMA MapTyped ==
    ASSUME MapHeld
    PROVE  Contents \in MapType
BY DEF MapHeld, Holds, MapType

(* Counts of the map of no key,                                             *)
LEMMA CountNone == Counts([k \in Key |-> None], 0)
<1>1. Keyed([k \in Key |-> None]) = {}
  BY DEF Keyed, Map!Entries
<1> QED
  BY <1>1, FS_EmptySet DEF Counts

(* of a map whose keys stay,                                                *)
LEMMA CountSame ==
    ASSUME NEW m \in MapType, NEW k \in Key, NEW v \in Val, m[k] # None,
           NEW n, Counts(m, n)
    PROVE  Counts([m EXCEPT ![k] = v], n)
<1>1. Keyed([m EXCEPT ![k] = v]) = Keyed(m)
  BY NoneAssumption DEF Keyed, Map!Entries, MapType
<1> QED
  BY <1>1 DEF Counts

(* get one more,                                                            *)
LEMMA CountMore ==
    ASSUME NEW m \in MapType, NEW k \in Key, NEW v \in Val, m[k] = None,
           NEW n, Counts(m, n)
    PROVE  Counts([m EXCEPT ![k] = v], n + 1)
<1>1. Keyed([m EXCEPT ![k] = v]) = Keyed(m) \cup {k}
  BY NoneAssumption DEF Keyed, Map!Entries, MapType
<1>2. k \notin Keyed(m)
  BY DEF Keyed, Map!Entries
<1> QED
  BY <1>1, <1>2, FS_AddElement DEF Counts

(* or one less.                                                             *)
LEMMA CountLess ==
    ASSUME NEW m \in MapType, NEW k \in Key, m[k] # None, NEW n, Counts(m, n)
    PROVE  Counts([m EXCEPT ![k] = None], n - 1)
<1>1. Keyed([m EXCEPT ![k] = None]) = Keyed(m) \ {k}
  BY NoneAssumption DEF Keyed, Map!Entries, MapType
<1>2. k \in Keyed(m)
  BY DEF Keyed, Map!Entries
<1> QED
  BY <1>1, <1>2, FS_RemoveElement DEF Counts

(* The map held is finite and counted.                                      *)
LEMMA CountedNow ==
    ASSUME NEW n, Counts(Contents, n), len \in Nat, n = len + Behind,
           pc = "absorb" => ret = None
    PROVE  Counted
BY DEF Counted

(* A new tree counts none,                                                  *)
LEMMA InitCounted ==
    ASSUME MapHeld, Init
    PROVE  Counted
<1>1. store = ResetStore /\ len = 0 /\ pc = "idle"
  BY DEF Init
<1>2. Holds(Contents, {})
  BY <1>1, ResetPairs DEF MapHeld
<1> HIDE DEF Contents
<1>3. Contents = [k \in Key |-> None]
  BY <1>2, EmptyMap
<1>4. Counts(Contents, 0)
  BY <1>3, CountNone
<1>5. len + Behind = 0
  BY <1>1 DEF Behind
<1> QED
  BY <1>1, <1>4, <1>5 DEF Counted

(* and so does one just cleared.                                            *)
LEMMA ClearCounted ==
    ASSUME MapHeld', Clear
    PROVE  Counted'
<1>1. Contents' = [k \in Key |-> None]
  BY ClearEffect DEF Clear
<1>2. \A m : Contents' = m /\ Counts(m, len' + Behind') /\ len' \in Nat /\ pc' # "absorb"
             => Counted'
  BY DEF Counted
<1> HIDE DEF Contents
<1>3. len' = 0 /\ len' + Behind' = 0 /\ pc' # "absorb"
  BY DEF Clear, Behind
<1> QED
  BY <1>1, <1>2, <1>3, CountNone

(* The count and the phase of a call, before and after each action.         *)
LEMMA CountedStep ==
    ASSUME Sorted, MapHeld, MapHeld', Counted, [Next]_vars
    PROVE  Counted'
<1>1. Contents \in MapType /\ Counts(Contents, len + Behind) /\ len \in Nat
  BY MapTyped DEF Counted
<1>2. \A m, n : /\ Contents' = m /\ Counts(m, n) /\ len' \in Nat /\ n = len' + Behind'
                /\ (pc' = "absorb" => ret' = None)
                => Counted'
  BY DEF Counted
<1> HIDE DEF Contents
<1>3. CASE Stays /\ len' = len /\ Behind' = Behind /\ (pc' = "absorb" => ret' = None)
  BY <1>1, <1>2, <1>3 DEF Stays
<1>4. CASE GetCall \/ InsertCall \/ RemoveCall \/ Descend
  <2>1. Stays
    BY <1>4, RepairEffect DEF Repairs
  <2>2. len' = len /\ Behind' = Behind /\ pc' # "absorb"
    BY <1>4 DEF GetCall, InsertCall, RemoveCall, Call, Descend, tree, Behind
  <2> QED
    BY <1>3, <2>1, <2>2
<1>5. CASE GetAnswer \/ RemoveAbsent
  <2>1. Stays
    BY <1>5, GetEffect, AbsentEffect
  <2>2. len' = len /\ Behind' = Behind /\ pc' # "absorb"
    BY <1>5 DEF GetAnswer, RemoveAbsent, AtLeaf, Return, Behind
  <2> QED
    BY <1>3, <2>1, <2>2
<1>6. CASE AbsorbSplit \/ Sufficient \/ Rebalance
  <2>1. Stays
    BY <1>6, RepairEffect DEF Repairs
  <2>2. len' = len /\ Behind' = Behind /\ (pc' = "absorb" => ret' = None)
    BY <1>6 DEF AbsorbSplit, Sufficient, Rebalance, tree, Behind, Counted
  <2> QED
    BY <1>3, <2>1, <2>2
<1>7. CASE InsertReplace
  <2>1. Puts /\ Contents[arg.key] # None /\ arg.key \in Key /\ arg.val \in Val
    BY <1>7, ReplaceEffect
  <2>2. Counts([Contents EXCEPT ![arg.key] = arg.val], len + Behind)
    BY <1>1, <2>1, CountSame
  <2>3. len' = len /\ Behind' = Behind /\ pc' # "absorb"
    BY <1>7 DEF InsertReplace, AtLeaf, Return, Behind
  <2> QED
    BY <1>1, <1>2, <2>1, <2>2, <2>3 DEF Puts
<1>8. CASE InsertFits \/ InsertSplit
  <2>1. Puts /\ Contents[arg.key] = None /\ arg.key \in Key /\ arg.val \in Val
    BY <1>8, NewKeyEffect
  <2>2. Counts([Contents EXCEPT ![arg.key] = arg.val], len + Behind + 1)
    BY <1>1, <2>1, CountMore
  <2>3. len + Behind + 1 = len' + Behind' /\ len' \in Nat /\ (pc' = "absorb" => ret' = None)
    BY <1>1, <1>8 DEF InsertFits, InsertSplit, AtLeaf, Return, Behind
  <2> QED
    BY <1>2, <2>1, <2>2, <2>3 DEF Puts
<1>9. CASE RemoveEntry
  <2>1. Drops /\ Contents[arg.key] # None /\ arg.key \in Key
    BY <1>9, RemoveEffect
  <2>2. Counts([Contents EXCEPT ![arg.key] = None], (len + Behind) - 1)
    BY <1>1, <2>1, CountLess
  <2>3. (len + Behind) - 1 = len' + Behind' /\ len' \in Nat /\ pc' # "absorb"
    BY <1>1, <1>9 DEF RemoveEntry, AtLeaf, Behind
  <2> QED
    BY <1>2, <2>1, <2>2, <2>3 DEF Drops
<1>10. CASE AbsorbFits \/ GrowRoot
  <2>1. Stays
    BY <1>10, RepairEffect DEF Repairs
  <2>2. len + Behind = len' + Behind' /\ len' \in Nat /\ pc' # "absorb"
    BY <1>1, <1>10 DEF AbsorbFits, GrowRoot, Return, Behind
  <2> QED
    BY <1>1, <1>2, <2>1, <2>2 DEF Stays
<1>11. CASE FinishRemove
  <2>1. Stays
    BY <1>11, RepairEffect DEF Repairs
  <2>2. len + Behind = len' + Behind' /\ len' = len + Behind /\ pc' # "absorb"
    BY <1>1, <1>11 DEF FinishRemove, Return, Behind
  <2>3. len + Behind \in Nat
    BY <1>1, FS_CardinalityType DEF Counts
  <2> QED
    BY <1>1, <1>2, <2>1, <2>2, <2>3 DEF Stays
<1>12. CASE Clear
  BY <1>12, ClearCounted
<1>13. CASE UNCHANGED vars
  <2>1. Stays
    BY <1>13, PairsStay DEF vars
  <2>2. len' = len /\ Behind' = Behind /\ (pc' = "absorb" => ret' = None)
    BY <1>13 DEF vars, Behind, Counted
  <2> QED
    BY <1>3, <2>1, <2>2
<1> QED
  BY <1>4, <1>5, <1>6, <1>7, <1>8, <1>9, <1>10, <1>11, <1>12, <1>13 DEF Next, Step

(* len counts the map in every state of every history.                      *)
LEMMA CountedAlways == Spec => []Counted
<1>1. Init /\ MapHeld => Counted
  BY InitCounted
<1>2. Sorted /\ MapHeld /\ MapHeld' /\ Counted /\ [Next]_vars => Counted'
  BY CountedStep
<1> QED
  BY <1>1, <1>2, SortedTheorem, MapHeldAlways, PTL DEF Spec

-----------------------------------------------------------------------------
(* The tree implements the map, action by action.                           *)
LEMMA InitMaps ==
    ASSUME MapHeld, Init
    PROVE  Map!Init
<1>1. store = ResetStore /\ len = 0 /\ pc = "idle" /\ arg = NoArg /\ ret = None
  BY DEF Init
<1>2. Holds(Contents, {})
  BY <1>1, ResetPairs DEF MapHeld
<1> HIDE DEF Contents
<1>3. Contents = [k \in Key |-> None]
  BY <1>2, EmptyMap
<1>4. Phase = "idle"
  BY <1>1 DEF Phase
<1> QED
  BY <1>1, <1>3, <1>4 DEF Map!Init, Map!NoRequest, NoArg

(* The instance counts as this module does.                                 *)
LEMMA SameCardinality ==
    ASSUME NEW S
    PROVE  Map!Cardinality(S) = Cardinality(S)
BY DEF Map!Cardinality, Cardinality

(* The count is right whenever no call is under way.                        *)
LEMMA IdleCount ==
    ASSUME Counted', pc' = "idle"
    PROVE  len' = Map!Cardinality(Map!Entries(Contents'))
<1> HIDE DEF Contents
<1>1. len' + Behind' = Cardinality(Map!Entries(Contents')) /\ len' \in Nat
  BY DEF Counted, Counts, Keyed
<1>2. Behind' = 0
  BY DEF Behind
<1>3. len' = Cardinality(Map!Entries(Contents'))
  BY <1>1, <1>2
<1> QED
  BY <1>3, SameCardinality

(* A call begins: a call of the map begins.                                 *)
LEMMA CallMaps ==
    ASSUME Sorted, MapHeld, MapHeld', GetCall \/ InsertCall \/ RemoveCall
    PROVE  \E r \in Map!Request : Map!Call(r)
<1>1. Stays
  BY RepairEffect DEF Repairs
<1> HIDE DEF Contents
<1>2. PICK r \in Map!Request : arg' = r
  <2>1. CASE GetCall
    <3>1. PICK k \in Key : Call("get", k, None)
      BY <2>1 DEF GetCall
    <3> QED
      BY <3>1 DEF Call, Map!Request
  <2>2. CASE RemoveCall
    <3>1. PICK k \in Key : Call("remove", k, None)
      BY <2>2 DEF RemoveCall
    <3> QED
      BY <3>1 DEF Call, Map!Request
  <2>3. CASE InsertCall
    <3>1. PICK e \in Entry : Call("insert", e[1], e[2])
      BY <2>3 DEF InsertCall
    <3> QED
      BY <3>1 DEF Call, Map!Request
  <2> QED
    BY <2>1, <2>2, <2>3
<1>3. pc = "idle" /\ pc' = "descend" /\ len' = len /\ ret' = ret
  BY DEF GetCall, InsertCall, RemoveCall, Call, tree
<1>4. Phase = "idle" /\ Phase' = "pending"
  BY <1>3 DEF Phase
<1> QED
  BY <1>1, <1>2, <1>3, <1>4 DEF Stays, Map!Call

(* A call that needs no repair takes effect and returns in one step.        *)
LEMMA DirectMaps ==
    ASSUME Sorted, MapHeld, MapHeld', Counted',
           GetAnswer \/ InsertReplace \/ InsertFits \/ RemoveAbsent
    PROVE  Map!Apply
<1>1. /\ pc = "descend" /\ pc' = "idle" /\ arg' = NoArg
  BY DEF GetAnswer, InsertReplace, InsertFits, RemoveAbsent, AtLeaf, Return
<1>2. Phase = "pending" /\ Phase' = "idle"
  BY <1>1 DEF Phase
<1>3. len' = Map!Cardinality(Map!Entries(Contents'))
  BY <1>1, IdleCount
<1>4. ret' = Contents[arg.key]
  BY GetEffect, ReplaceEffect, NewKeyEffect, AbsentEffect
<1>5. Contents' = CASE arg.op = "get" -> Contents
                    [] arg.op = "insert" -> [Contents EXCEPT ![arg.key] = arg.val]
                    [] arg.op = "remove" -> [Contents EXCEPT ![arg.key] = None]
  <2>1. CASE GetAnswer
    <3>1. Stays /\ arg.op = "get"
      BY <2>1, GetEffect DEF GetAnswer, AtLeaf
    <3> HIDE DEF Contents
    <3> QED
      BY <3>1 DEF Stays
  <2>2. CASE InsertReplace \/ InsertFits
    <3>1. Puts /\ arg.op = "insert"
      BY <2>2, ReplaceEffect, NewKeyEffect DEF InsertReplace, InsertFits, AtLeaf
    <3> HIDE DEF Contents
    <3> QED
      BY <3>1 DEF Puts
  <2>3. CASE RemoveAbsent
    <3>1. Drops /\ arg.op = "remove"
      BY <2>3, AbsentEffect DEF RemoveAbsent, AtLeaf
    <3> HIDE DEF Contents
    <3> QED
      BY <3>1 DEF Drops
  <2> QED
    BY <2>1, <2>2, <2>3
<1> HIDE DEF Contents
<1> QED
  BY <1>1, <1>2, <1>3, <1>4, <1>5 DEF Map!Apply, Map!Effect, Map!Done, Map!NoRequest, NoArg

(* A call that leaves a node to repair takes effect, and returns later.     *)
LEMMA IndirectMaps ==
    ASSUME Sorted, MapHeld, MapHeld', InsertSplit \/ RemoveEntry
    PROVE  Map!Apply
<1>1. pc = "descend" /\ pc' \in {"absorb", "rebalance"} /\ arg' = arg /\ len' = len
  BY DEF InsertSplit, RemoveEntry, AtLeaf
<1>2. Phase = "pending" /\ Phase' = "applied"
  BY <1>1 DEF Phase
<1>3. ret' = Contents[arg.key]
  BY NewKeyEffect, RemoveEffect
<1>4. Contents' = CASE arg.op = "get" -> Contents
                    [] arg.op = "insert" -> [Contents EXCEPT ![arg.key] = arg.val]
                    [] arg.op = "remove" -> [Contents EXCEPT ![arg.key] = None]
  <2>1. CASE InsertSplit
    <3>1. Puts /\ arg.op = "insert"
      BY <2>1, NewKeyEffect DEF InsertSplit, AtLeaf
    <3> HIDE DEF Contents
    <3> QED
      BY <3>1 DEF Puts
  <2>2. CASE RemoveEntry
    <3>1. Drops /\ arg.op = "remove"
      BY <2>2, RemoveEffect DEF RemoveEntry, AtLeaf
    <3> HIDE DEF Contents
    <3> QED
      BY <3>1 DEF Drops
  <2> QED
    BY <2>1, <2>2
<1> HIDE DEF Contents
<1> QED
  BY <1>1, <1>2, <1>3, <1>4 DEF Map!Apply, Map!Effect

(* A repaired tree returns what the map was to answer.                      *)
LEMMA ReturnMaps ==
    ASSUME Sorted, MapHeld, MapHeld', Counted, Counted',
           AbsorbFits \/ GrowRoot \/ FinishRemove
    PROVE  Map!Return
<1>1. pc \in {"absorb", "rebalance"} /\ pc' = "idle" /\ arg' = NoArg /\ ret' = ret
  <2>1. pc = "absorb" => ret = None
    BY DEF Counted
  <2> QED
    BY <2>1 DEF AbsorbFits, GrowRoot, FinishRemove, Return
<1>2. Phase = "applied" /\ Phase' = "idle"
  BY <1>1 DEF Phase
<1>3. len' = Map!Cardinality(Map!Entries(Contents'))
  BY <1>1, IdleCount
<1>4. Stays
  BY RepairEffect DEF Repairs
<1> HIDE DEF Contents
<1> QED
  BY <1>1, <1>2, <1>3, <1>4 DEF Map!Return, Map!Done, Map!NoRequest, NoArg, Stays

(* clear clears the map.                                                    *)
LEMMA ClearMaps ==
    ASSUME MapHeld', Clear
    PROVE  Map!Clear
<1>1. Contents' = [k \in Key |-> None]
  BY ClearEffect DEF Clear
<1>2. pc = "idle" /\ pc' = "idle" /\ len' = 0 /\ arg' = arg /\ ret' = ret
  BY DEF Clear
<1>3. Phase = "idle" /\ Phase' = "idle"
  BY <1>2 DEF Phase
<1> HIDE DEF Contents
<1> QED
  BY <1>1, <1>2, <1>3 DEF Map!Clear

(* Descending and restructuring are stutters of the map.                    *)
LEMMA StutterMaps ==
    ASSUME Sorted, MapHeld, MapHeld',
           Descend \/ AbsorbSplit \/ Sufficient \/ Rebalance \/ UNCHANGED vars
    PROVE  UNCHANGED Map!vars
<1>1. Stays
  BY RepairEffect, PairsStay DEF Repairs, vars
<1>2. pc' = pc /\ arg' = arg /\ ret' = ret /\ len' = len
  BY DEF Descend, AbsorbSplit, Sufficient, Rebalance, vars, tree
<1>3. Phase' = Phase
  BY <1>2 DEF Phase
<1> HIDE DEF Contents
<1> QED
  BY <1>1, <1>2, <1>3 DEF Map!vars, Stays

(* Every step of the tree is one of the map.                                *)
LEMMA StepMaps ==
    ASSUME Sorted, MapHeld, MapHeld', Counted, Counted', [Next]_vars
    PROVE  [Map!Next]_(Map!vars)
<1>1. CASE GetCall \/ InsertCall \/ RemoveCall
  BY <1>1, CallMaps DEF Map!Next
<1>2. CASE GetAnswer \/ InsertReplace \/ InsertFits \/ RemoveAbsent
  BY <1>2, DirectMaps DEF Map!Next
<1>3. CASE InsertSplit \/ RemoveEntry
  BY <1>3, IndirectMaps DEF Map!Next
<1>4. CASE AbsorbFits \/ GrowRoot \/ FinishRemove
  BY <1>4, ReturnMaps DEF Map!Next
<1>5. CASE Clear
  BY <1>5, ClearMaps DEF Map!Next
<1>6. CASE Descend \/ AbsorbSplit \/ Sufficient \/ Rebalance \/ UNCHANGED vars
  BY <1>6, StutterMaps
<1> QED
  BY <1>1, <1>2, <1>3, <1>4, <1>5, <1>6 DEF Next, Step

(* The tree is an ordered map: get, insert, remove and clear on nodes, with *)
(* their splits, rotations, merges and collapses, answer and count as the   *)
(* map does (tree.rs:279-397).                                              *)
THEOREM MapTheorem == Spec => ImplementsMap
<1>1. Init /\ MapHeld => Map!Init
  BY InitMaps
<1>2. Sorted /\ MapHeld /\ MapHeld' /\ Counted /\ Counted' /\ [Next]_vars => [Map!Next]_(Map!vars)
  BY StepMaps
<1> QED
  BY <1>1, <1>2, SortedTheorem, MapHeldAlways, CountedAlways, PTL DEF Spec, ImplementsMap, Map!Spec

-----------------------------------------------------------------------------
(* A set in one-to-one correspondence with a finite one.                    *)
LEMMA Matched ==
    ASSUME NEW S, NEW K, IsFiniteSet(K), NEW f \in [S -> K],
           \A k \in K : \E e \in S : f[e] = k,
           \A d, e \in S : f[d] = f[e] => d = e
    PROVE  Cardinality(S) = Cardinality(K)
<1> DEFINE Of(k) == CHOOSE e \in S : f[e] = k
<1>1. ASSUME NEW k \in K PROVE Of(k) \in S /\ f[Of(k)] = k
  OBVIOUS
<1>2. PICK g : g = [k \in K |-> Of(k)]
  OBVIOUS
<1> HIDE DEF Of
<1>3. g \in [K -> S]
  BY <1>1, <1>2
<1>4. \A a, b \in K : g[a] = g[b] => a = b
  BY <1>1, <1>2
<1>5. \A e \in S : \E k \in K : g[k] = e
  <2> TAKE e \in S
  <2>1. f[e] \in K /\ f[Of(f[e])] = f[e] /\ Of(f[e]) \in S
    BY <1>1
  <2> QED
    BY <1>2, <2>1
<1>6. g \in Bijection(K, S)
  BY <1>3, <1>4, <1>5 DEF Bijection, Injection, Surjection, IsInjective
<1> QED
  BY <1>6, FS_Bijection DEF ExistsBijection

(* The slots of the leaves that hold a key.                                 *)
Slots == {e \in Leaves \X (1 .. Order) : e[2] <= KeysLen(Node(e[1]))}

(* Each slot of a leaf holds a key of the map,                              *)
LEMMA SlotIsKey ==
    ASSUME NEW lv, Inductive(lv), NEW lo, NEW hi, NEW out, Ordered(lo, hi, out), MapHeld,
           NEW x \in Leaves, NEW j \in 1 .. Len(Node(x).keys)
    PROVE  Node(x).keys[j] \in Keyed(Contents)
<1> DEFINE k == Node(x).keys[j]
           v == Node(x).vals[j]
<1>1. k \in Key /\ v \in Val
  BY PairOfKey
<1>2. k \in Range(Node(x).keys)
  <2>1. TreeOK(store, {root} \cup Pending, lv) /\ x \in Live(store)
    BY DEF Inductive, Leaves
  <2>2. Node(x).keys \in Seq(Key)
    BY <2>1, TreeFacts, NodeCases DEF AnyNode, Node
  <2>3. DOMAIN Node(x).keys = 1 .. Len(Node(x).keys)
    BY <2>2, LenProperties
  <2> QED
    BY <2>3 DEF Range
<1>3. <<k, v>> \in Pairs(store)
  BY <1>2, PairIsInLeaf
<1> HIDE DEF Contents, k, v
<1>4. Contents[k] = v
  BY <1>1, <1>3 DEF MapHeld, Holds
<1>5. k \in Keyed(Contents)
  BY <1>1, <1>4, NoneAssumption DEF Keyed, Map!Entries
<1> QED
  BY <1>5 DEF k

(* each key of the map has a slot,                                          *)
LEMMA KeyHasSlot ==
    ASSUME NEW lv, Inductive(lv), MapHeld, NEW k \in Keyed(Contents)
    PROVE  \E x \in Leaves : \E j \in 1 .. Len(Node(x).keys) : Node(x).keys[j] = k
<1>1. Contents \in MapType
  BY MapTyped
<1> HIDE DEF Contents
<1>2. k \in Key /\ Contents[k] \in Val
  BY <1>1 DEF Keyed, Map!Entries, MapType
<1>3. <<k, Contents[k]>> \in Pairs(store)
  BY <1>2 DEF MapHeld, Holds
<1> QED
  BY <1>3, PairIsInLeaf

(* and no two slots hold the same key.                                      *)
LEMMA OneSlot ==
    ASSUME NEW lv, Inductive(lv), NEW lo, NEW hi, NEW out, Ordered(lo, hi, out),
           NEW x \in Leaves, NEW j \in 1 .. Len(Node(x).keys),
           NEW y \in Leaves, NEW i \in 1 .. Len(Node(y).keys),
           Node(x).keys[j] = Node(y).keys[i]
    PROVE  x = y /\ j = i
<1>1. TreeOK(store, {root} \cup Pending, lv) /\ Placed(store, lo, hi, out)
  BY DEF Inductive, Ordered
<1>2. ASSUME NEW z \in Leaves
      PROVE  /\ Node(z).keys \in Seq(Key) /\ Ascending(Node(z).keys)
             /\ DOMAIN Node(z).keys = 1 .. Len(Node(z).keys)
  <2>1. z \in Live(store)
    BY DEF Leaves
  <2>2. Ascending(Node(z).keys)
    BY <1>1, <2>1 DEF Placed, NodePlaced, KeysPlaced, Node
  <2>3. Node(z).keys \in Seq(Key)
    BY <1>1, <2>1, TreeFacts, NodeCases DEF AnyNode, Node
  <2> QED
    BY <2>2, <2>3, LenProperties
<1>3. Node(x).keys[j] \in Range(Node(x).keys) /\ Node(y).keys[i] \in Range(Node(y).keys)
  BY <1>2 DEF Range
<1>4. x = y
  BY <1>3, OneLeaf
<1>5. Node(x).keys \in Seq(Key) /\ Ascending(Node(x).keys)
  BY <1>2
<1>6. Position(Node(x).keys, Node(x).keys[j]) = j
  BY <1>5, KeyIsFound
<1>7. Position(Node(x).keys, Node(x).keys[i]) = i
  BY <1>4, <1>5, KeyIsFound
<1> QED
  BY <1>4, <1>6, <1>7

(* So there are as many slots as keys,                                      *)
LEMMA SlotsAreCounted ==
    ASSUME NEW lv, Inductive(lv), NEW lo, NEW hi, NEW out, Ordered(lo, hi, out),
           MapHeld, Counted, NoneFull(store)
    PROVE  Cardinality(Slots) = Cardinality(Keyed(Contents))
<1> DEFINE K == Keyed(Contents)
           KeyIn(e) == Node(e[1]).keys[e[2]]
<1>1. ASSUME NEW x \in Leaves
      PROVE  /\ KeysLen(Node(x)) = Len(Node(x).keys)
             /\ Len(Node(x).keys) \in Nat /\ Len(Node(x).keys) < Order
  <2>1. TreeOK(store, {root} \cup Pending, lv) /\ x \in Live(store)
    BY DEF Inductive, Leaves
  <2>2. Node(x).keys \in Seq(Key)
    BY <2>1, TreeFacts, NodeCases DEF AnyNode, Node
  <2>3. KeysLen(Node(x)) = Len(Node(x).keys) /\ KeyCount(store, x) < Order
    BY <2>1 DEF NoneFull, KeysLen
  <2>4. KeyCount(store, x) = Len(Node(x).keys)
    BY DEF KeyCount, Node, KeysLen
  <2> QED
    BY <2>2, <2>3, <2>4, LenProperties
<1>2. ASSUME NEW e \in Slots
      PROVE  e[1] \in Leaves /\ e[2] \in 1 .. Len(Node(e[1]).keys) /\ e = <<e[1], e[2]>>
  <2>1. e \in Leaves \X (1 .. Order) /\ e[2] <= KeysLen(Node(e[1]))
    BY DEF Slots
  <2>2. e[1] \in Leaves /\ e[2] \in 1 .. Order /\ e = <<e[1], e[2]>>
    BY <2>1
  <2>3. KeysLen(Node(e[1])) = Len(Node(e[1]).keys) /\ Len(Node(e[1]).keys) \in Nat
    BY <1>1, <2>2
  <2>4. e[2] \in Nat /\ e[2] >= 1 /\ e[2] <= Len(Node(e[1]).keys)
    BY <2>1, <2>2, <2>3, OrderAssumption
  <2> QED
    BY <2>2, <2>3, <2>4
<1>3. ASSUME NEW x \in Leaves, NEW j \in 1 .. Len(Node(x).keys)
      PROVE  <<x, j>> \in Slots
  <2>1. j \in 1 .. Order /\ j <= KeysLen(Node(x))
    BY <1>1, OrderAssumption
  <2> QED
    BY <2>1 DEF Slots
<1>4. PICK f : f = [e \in Slots |-> KeyIn(e)]
  OBVIOUS
<1>5. \A e \in Slots : KeyIn(e) \in K
  BY <1>2, SlotIsKey
<1>6. f \in [Slots -> K]
  BY <1>4, <1>5
<1>7. ASSUME NEW k \in K PROVE \E e \in Slots : f[e] = k
  <2>0. PICK x \in Leaves : \E j \in 1 .. Len(Node(x).keys) : Node(x).keys[j] = k
    BY KeyHasSlot
  <2>1. PICK j \in 1 .. Len(Node(x).keys) : Node(x).keys[j] = k
    BY <2>0
  <2>2. <<x, j>> \in Slots /\ KeyIn(<<x, j>>) = k
    BY <1>3, <2>1
  <2> QED
    BY <1>4, <2>2
<1>8. ASSUME NEW d \in Slots, NEW e \in Slots, f[d] = f[e] PROVE d = e
  <2>1. KeyIn(d) = KeyIn(e)
    BY <1>4, <1>8
  <2>2. d[1] = e[1] /\ d[2] = e[2]
    BY <1>2, <2>1, OneSlot
  <2> QED
    BY <1>2, <2>2
<1>9. IsFiniteSet(K)
  BY DEF Counted, Counts
<1> HIDE DEF K
<1>10. Cardinality(Slots) = Cardinality(K)
  BY <1>6, <1>7, <1>8, <1>9, Matched
<1> QED
  BY <1>10 DEF K

(* and len, which counts keys, counts slots.                                *)
LEMMA CountedIsExact ==
    ASSUME Filled, Sorted, MapHeld, Counted
    PROVE  LenExact
<1>1. PICK lv, lo, hi, out : Inductive(lv) /\ Ordered(lo, hi, out)
  BY DEF Sorted
<1>2. Cardinality(Slots) = Cardinality(Keyed(Contents))
  BY <1>1, SlotsAreCounted DEF Filled
<1>3. len \in Nat /\ len + Behind = Cardinality(Keyed(Contents))
  BY DEF Counted, Counts
<1>4. len + Behind = Cardinality(Slots)
  BY <1>2, <1>3
<1>5. Behind = (IF pc = "absorb" THEN 1 ELSE 0) - (IF pc = "rebalance" THEN 1 ELSE 0)
  BY DEF Behind
<1>6. /\ len >= 0
      /\ len + (IF pc = "absorb" THEN 1 ELSE 0) - (IF pc = "rebalance" THEN 1 ELSE 0)
            = Cardinality(Slots)
  BY <1>3, <1>4, <1>5
<1> QED
  BY <1>6 DEF LenExact, Slots

(* len is the number of entries in the leaves, counted slot by slot, one    *)
(* behind while a call works its way back up, and never negative            *)
(* (tree.rs:359-397).                                                       *)
THEOREM LenExactTheorem == Spec => []LenExact
<1>1. Filled /\ Sorted /\ MapHeld /\ Counted => LenExact
  BY CountedIsExact
<1> QED
  BY <1>1, FilledAlways, SortedTheorem, MapHeldAlways, CountedAlways, PTL

-----------------------------------------------------------------------------
(* The height. Fewest is a recursive function, and that there is one with   *)
(* its two equations is shown first: one up to each bound, by the least     *)
(* bound without one, all of which agree.                                   *)
UpTo(n, f) == /\ f \in [0 .. n -> Nat]
              /\ f[0] = Half
              /\ \A i \in 1 .. n : f[i] = (Half + 1) * f[i - 1]

LEMMA OneValueMore ==
    ASSUME NEW n \in Nat, NEW f, UpTo(n, f)
    PROVE  UpTo(n + 1, [i \in 0 .. n + 1 |-> IF i = n + 1 THEN (Half + 1) * f[n] ELSE f[i]])
<1> DEFINE g == [i \in 0 .. n + 1 |-> IF i = n + 1 THEN (Half + 1) * f[n] ELSE f[i]]
<1>1. PICK q \in Nat : q = Half
  BY HalfFacts
<1>2. f \in [0 .. n -> Nat] /\ f[0] = q /\ \A i \in 1 .. n : f[i] = (q + 1) * f[i - 1]
  BY <1>1 DEF UpTo
<1>3. f[n] \in Nat /\ (q + 1) * f[n] \in Nat
  BY <1>1, <1>2
<1>4. g = [i \in 0 .. n + 1 |-> IF i = n + 1 THEN (q + 1) * f[n] ELSE f[i]]
  BY <1>1
<1> HIDE DEF g
<1>5. g \in [0 .. n + 1 -> Nat] /\ g[0] = q
  BY <1>2, <1>3, <1>4
<1>6. ASSUME NEW i \in 1 .. n + 1 PROVE g[i] = (q + 1) * g[i - 1]
  <2>1. i - 1 \in 0 .. n /\ g[i - 1] = f[i - 1]
    BY <1>4
  <2>2. CASE i = n + 1
    <3>1. i - 1 = n /\ g[i] = (q + 1) * f[n]
      BY <1>4, <2>2
    <3> QED
      BY <2>1, <3>1
  <2>3. CASE i # n + 1
    <3>1. i \in 1 .. n /\ g[i] = f[i]
      BY <1>4, <2>3
    <3> QED
      BY <1>2, <2>1, <3>1
  <2> QED
    BY <2>2, <2>3
<1> QED
  BY <1>1, <1>5, <1>6 DEF UpTo, g

LEMMA EachUpTo == \A n \in Nat : \E f : UpTo(n, f)
<1> SUFFICES ASSUME ~(\A n \in Nat : \E f : UpTo(n, f)) PROVE FALSE
  OBVIOUS
<1> DEFINE T == {n \in Nat : ~\E f : UpTo(n, f)}
<1>1. T \in SUBSET Nat /\ T # {}
  OBVIOUS
<1>2. PICK n \in T : \A m \in T : n <= m
  BY <1>1, LeastNat
<1>3. CASE n = 0
  <2>1. UpTo(0, [i \in 0 .. 0 |-> Half])
    BY HalfFacts DEF UpTo
  <2> QED
    BY <1>2, <1>3, <2>1
<1>4. CASE n # 0
  <2>1. PICK m \in Nat : n = m + 1
    BY <1>2, <1>4
  <2>2. m \notin T
    BY <1>2, <2>1
  <2>3. PICK f : UpTo(m, f)
    BY <2>2
  <2>4. \E g : UpTo(m + 1, g)
    BY <2>3, OneValueMore
  <2> QED
    BY <1>2, <2>1, <2>4
<1> QED
  BY <1>3, <1>4

LEMMA UpToAgree ==
    ASSUME NEW n \in Nat, NEW m \in Nat, NEW f, NEW g, UpTo(n, f), UpTo(m, g)
    PROVE  \A i \in Nat : i <= n /\ i <= m => f[i] = g[i]
<1> DEFINE T == {i \in Nat : i <= n /\ i <= m /\ f[i] # g[i]}
<1> SUFFICES ASSUME T # {} PROVE FALSE
  OBVIOUS
<1>1. T \in SUBSET Nat
  OBVIOUS
<1>2. PICK i \in T : \A j \in T : i <= j
  BY <1>1, LeastNat
<1>3. i # 0
  BY <1>2 DEF UpTo
<1>4. PICK j \in Nat : i = j + 1
  BY <1>2, <1>3
<1>5. f[j] = g[j]
  BY <1>2, <1>4
<1>6. i \in 1 .. n /\ i \in 1 .. m /\ i - 1 = j
  BY <1>2, <1>4
<1>7. f[i] = (Half + 1) * f[j] /\ g[i] = (Half + 1) * g[j]
  BY <1>6 DEF UpTo
<1> QED
  BY <1>2, <1>5, <1>7

LEMMA FewestDef ==
    /\ \A h \in Nat : Fewest[h] \in Nat
    /\ Fewest[0] = Half
    /\ \A h \in Nat : Fewest[h + 1] = (Half + 1) * Fewest[h]
<1> DEFINE up(f, h) == IF h = 0 THEN Half ELSE (Half + 1) * f[h - 1]
           one(n) == CHOOSE f : UpTo(n, f)
           all == [n \in Nat |-> one(n)[n]]
<1>1. \A n \in Nat : UpTo(n, one(n))
  BY EachUpTo
<1> HIDE DEF one
<1>2. \A n \in Nat : all[n] \in Nat
  BY <1>1 DEF UpTo
<1>3. ASSUME NEW n \in Nat PROVE all[n] = up(all, n)
  <2>1. CASE n = 0
    BY <1>1, <2>1 DEF UpTo
  <2>2. CASE n # 0
    <3>1. PICK m \in Nat : n = m + 1 /\ m = n - 1
      BY <2>2
    <3>2. UpTo(n, one(n)) /\ UpTo(m, one(m))
      BY <1>1
    <3>3. one(n)[m] = one(m)[m]
      BY <3>1, <3>2, UpToAgree
    <3>4. n \in 1 .. n
      BY <3>1
    <3>5. one(n)[n] = (Half + 1) * one(n)[m]
      BY <3>1, <3>2, <3>4 DEF UpTo
    <3> QED
      BY <2>2, <3>1, <3>3, <3>5
  <2> QED
    BY <2>1, <2>2
<1>4. all = [n \in Nat |-> up(all, n)]
  BY <1>3
<1> HIDE DEF all
<1>5. Fewest = CHOOSE f : f = [n \in Nat |-> up(f, n)]
  BY DEF Fewest, Half
<1>6. Fewest = [n \in Nat |-> up(Fewest, n)]
  BY <1>4, <1>5
<1>7. \A n \in Nat : Fewest[n] = up(Fewest, n)
  BY <1>6
<1>8. Fewest[0] = Half
  BY <1>7
<1>9. ASSUME NEW h \in Nat PROVE Fewest[h + 1] = (Half + 1) * Fewest[h]
  <2>1. h + 1 \in Nat /\ h + 1 # 0 /\ (h + 1) - 1 = h
    OBVIOUS
  <2> QED
    BY <1>7, <2>1
<1>10. \A h \in Nat : Fewest[h] \in Nat
  <2> SUFFICES ASSUME ~(\A h \in Nat : Fewest[h] \in Nat) PROVE FALSE
    OBVIOUS
  <2> DEFINE T == {h \in Nat : Fewest[h] \notin Nat}
  <2>1. T \in SUBSET Nat /\ T # {}
    OBVIOUS
  <2>2. PICK h \in T : \A m \in T : h <= m
    BY <2>1, LeastNat
  <2>3. h # 0
    BY <1>8, <2>2, HalfFacts
  <2>4. PICK m \in Nat : h = m + 1
    BY <2>2, <2>3
  <2>5. Fewest[m] \in Nat
    BY <2>2, <2>4
  <2>6. (Half + 1) * Fewest[m] \in Nat
    BY <2>5, HalfFacts
  <2> QED
    BY <1>9, <2>2, <2>4, <2>6
<1> QED
  BY <1>8, <1>9, <1>10

(* The nodes of one level.                                                  *)
Layer(lv, k) == {x \in Live(store) : lv[x] = k}

LEMMA LiveFinite ==
    ASSUME NEW lv, Inductive(lv)
    PROVE  IsFiniteSet(Live(store))
<1> DEFINE n == Len(store.slab)
<1>1. n \in Nat
  BY CallFacts, LenProperties DEF StoreType
<1>2. IsFiniteSet(1 .. n)
  BY <1>1, FS_Interval
<1>3. Live(store) \subseteq 1 .. n
  BY DEF Live
<1> QED
  BY <1>2, <1>3, FS_Subset

LEMMA LayerFinite ==
    ASSUME NEW lv, Inductive(lv), NEW k
    PROVE  IsFiniteSet(Layer(lv, k)) /\ Cardinality(Layer(lv, k)) \in Nat
<1>1. IsFiniteSet(Live(store))
  BY LiveFinite
<1>2. Layer(lv, k) \subseteq Live(store)
  BY DEF Layer
<1>3. IsFiniteSet(Layer(lv, k))
  BY <1>1, <1>2, FS_Subset
<1> QED
  BY <1>3, FS_CardinalityType

(* A node above the leaves links its children in the layer below, each once. *)
LEMMA ChildInLayer ==
    ASSUME NEW lv, Inductive(lv), NEW k \in Nat, NEW x \in Layer(lv, k + 1)
    PROVE  LET c == Fetch(store, x).children
               n == KeyCount(store, x) + 1
           IN  /\ n \in Nat
               /\ \A i \in 1 .. n : c[i] \in Layer(lv, k) /\ c[i] \in Kids(store, x)
               /\ \A i, j \in 1 .. n : c[i] = c[j] => i = j
<1> DEFINE node == Fetch(store, x)
           c == node.children
           n == KeyCount(store, x) + 1
<1>1. x \in Live(store) /\ lv[x] = k + 1 /\ TreeOK(store, {root} \cup Pending, lv)
  BY DEF Layer, Inductive
<1>2. /\ node \in AnyNode /\ ShapeOK(node) /\ ~IsLeaf(node)
      /\ Kids(store, x) \subseteq Live(store)
      /\ \A y \in Kids(store, x) : lv[y] + 1 = k + 1 /\ lv[y] \in Nat
  BY <1>1, TreeFacts
<1>3. /\ c \in Seq(NodeId) /\ Len(c) = n /\ n \in Nat
      /\ IsInjective(c) /\ Kids(store, x) = Range(c)
  BY <1>2, InternalCases DEF AnyNode, KeyCount, Kids
<1>4. DOMAIN c = 1 .. n
  BY <1>3, LenProperties
<1> HIDE DEF c, n
<1>5. \A i \in 1 .. n : c[i] \in Kids(store, x)
  BY <1>3, <1>4 DEF Range
<1>6. \A i, j \in 1 .. n : c[i] = c[j] => i = j
  BY <1>3, <1>4 DEF IsInjective
<1>7. \A y \in Kids(store, x) : y \in Layer(lv, k)
  BY <1>2 DEF Layer
<1> QED
  BY <1>3, <1>5, <1>6, <1>7 DEF c, n

(* Where every node has m children the layer below is m times as wide.      *)
LEMMA LayerBelow ==
    ASSUME NEW lv, Inductive(lv), NEW k \in Nat, NEW m \in Nat,
           \A x \in Layer(lv, k + 1) : KeyCount(store, x) + 1 >= m
    PROVE  Cardinality(Layer(lv, k)) >= Cardinality(Layer(lv, k + 1)) * m
<1> DEFINE S == Layer(lv, k + 1)
           T == Layer(lv, k)
           I == 1 .. m
           child == [e \in S \X I |-> Fetch(store, e[1]).children[e[2]]]
<1>1. ASSUME NEW x \in S, NEW i \in I
      PROVE  /\ Fetch(store, x).children[i] \in T
             /\ Fetch(store, x).children[i] \in Kids(store, x)
             /\ \A j \in I : Fetch(store, x).children[i] = Fetch(store, x).children[j] => i = j
  <2>1. PICK n : n = KeyCount(store, x) + 1
    OBVIOUS
  <2>2. /\ n \in Nat
        /\ \A j \in 1 .. n : /\ Fetch(store, x).children[j] \in T
                             /\ Fetch(store, x).children[j] \in Kids(store, x)
        /\ \A j, l \in 1 .. n :
              Fetch(store, x).children[j] = Fetch(store, x).children[l] => j = l
    BY <2>1, ChildInLayer
  <2>3. n >= m
    BY <2>1
  <2>4. I \subseteq 1 .. n
    BY <2>2, <2>3
  <2> QED
    BY <2>2, <2>4
<1>2. \A x, y \in S : x # y => Kids(store, x) \cap Kids(store, y) = {}
  BY DEF Layer, Inductive, TreeOK, Linked
<1> HIDE DEF S, T, I
<1>3. child \in [S \X I -> T]
  BY <1>1
<1>4. ASSUME NEW d \in S \X I, NEW e \in S \X I, child[d] = child[e] PROVE d = e
  <2>1. /\ d = <<d[1], d[2]>> /\ e = <<e[1], e[2]>>
        /\ d[1] \in S /\ e[1] \in S /\ d[2] \in I /\ e[2] \in I
    OBVIOUS
  <2>2. Fetch(store, d[1]).children[d[2]] = Fetch(store, e[1]).children[e[2]]
    BY <1>4
  <2>3. d[1] = e[1]
    BY <1>1, <1>2, <2>1, <2>2
  <2>4. d[2] = e[2]
    BY <1>1, <2>1, <2>2, <2>3
  <2> QED
    BY <2>1, <2>3, <2>4
<1>5. child \in Injection(S \X I, T)
  BY <1>3, <1>4 DEF Injection, IsInjective
<1> HIDE DEF child
<1>6. IsFiniteSet(S) /\ IsFiniteSet(T)
  BY LayerFinite DEF S, T
<1>7. IsFiniteSet(I) /\ Cardinality(I) = m
  <2>1. IsFiniteSet(I) /\ Cardinality(I) = IF 1 > m THEN 0 ELSE m - 1 + 1
    BY FS_Interval DEF I
  <2> QED
    BY <2>1
<1>8. Cardinality(S \X I) = Cardinality(S) * Cardinality(I)
  BY <1>6, <1>7, FS_Product
<1>9. Cardinality(S \X I) <= Cardinality(T)
  BY <1>5, <1>6, FS_Injection
<1>10. Cardinality(S) \in Nat /\ Cardinality(T) \in Nat
  BY <1>6, FS_CardinalityType
<1>11. Cardinality(S) * m <= Cardinality(T)
  BY <1>7, <1>8, <1>9
<1>12. PICK p, t \in Int : p = Cardinality(S) * m /\ t = Cardinality(T)
  BY <1>10
<1> QED
  BY <1>11, <1>12 DEF S, T

(* Multiplied by the same.                                                  *)
LEMMA TimesKeepsOrder ==
    ASSUME NEW a \in Nat, NEW b \in Nat, NEW m \in Nat, a >= b
    PROVE  a * m >= b * m
<1>1. PICK d \in Nat : a = b + d
  <2>1. a - b \in Nat /\ a = b + (a - b)
    OBVIOUS
  <2> QED
    BY <2>1
<1>2. PICK p \in Nat, q \in Nat : p = b * m /\ q = d * m
  OBVIOUS
<1>3. (b + d) * m = p + q
  BY <1>2
<1> QED
  BY <1>1, <1>2, <1>3

(* Below the root each layer holds at least twice the nodes, weighed with   *)
(* the least number of entries of a leaf, that a tree half full has.        *)
LEMMA LayersWide ==
    ASSUME NEW lv, Inductive(lv), Sized, pc = "idle", NEW top \in Nat, lv[root] = top + 1
    PROVE  \A j \in Nat, k \in Nat : j + k = top =>
              Cardinality(Layer(lv, k)) * Half >= 2 * Fewest[j]
<1> DEFINE Wide(j, k) == Cardinality(Layer(lv, k)) * Half >= 2 * Fewest[j]
           T == {j \in Nat : \E k \in Nat : j + k = top /\ ~Wide(j, k)}
<1>1. /\ 0 \notin Live(store) /\ root \in Live(store)
      /\ \A x \in Live(store) : KeyCount(store, x) \in Nat
      /\ Half \in Nat /\ Half >= 1
  BY StateFacts, HalfFacts
<1>2. ASSUME NEW x \in Live(store)
      PROVE  /\ x # root => KeyCount(store, x) >= Half
             /\ x = root /\ ~IsLeaf(Fetch(store, x)) => KeyCount(store, x) >= 1
  <2>1. EnoughAt(store, root, 0, x)
    BY DEF Sized, Enough, Owing
  <2> QED
    BY <1>1, <2>1 DEF EnoughAt
<1>3. Cardinality(Layer(lv, top)) >= 2
  <2>1. ~IsLeaf(Fetch(store, root))
    BY <1>1 DEF Inductive, TreeOK, GradedAt
  <2>2. root \in Layer(lv, top + 1)
    BY <1>1 DEF Layer
  <2>3. PICK n : n = KeyCount(store, root) + 1
    OBVIOUS
  <2>4. n \in Nat /\ n >= 2
    BY <1>1, <1>2, <2>1, <2>3
  <2> DEFINE c == Fetch(store, root).children
             two == [i \in 1 .. 2 |-> c[i]]
  <2>5. /\ \A i \in 1 .. n : c[i] \in Layer(lv, top)
        /\ \A i, j \in 1 .. n : c[i] = c[j] => i = j
    BY <2>2, <2>3, ChildInLayer
  <2> HIDE DEF c
  <2>6. 1 .. 2 \subseteq 1 .. n
    BY <2>4
  <2>7. two \in Injection(1 .. 2, Layer(lv, top))
    BY <2>5, <2>6 DEF Injection, IsInjective
  <2>8. Cardinality(1 .. 2) <= Cardinality(Layer(lv, top))
    <3> HIDE DEF two
    <3> QED
      BY <2>7, LayerFinite, FS_Injection
  <2>9. Cardinality(1 .. 2) = 2
    <3>1. PICK t \in Int : t = 2
      OBVIOUS
    <3>2. Cardinality(1 .. t) = IF 1 > t THEN 0 ELSE t - 1 + 1
      BY FS_Interval
    <3> QED
      BY <3>1, <3>2
  <2> QED
    BY <2>8, <2>9, LayerFinite
<1>4. Wide(0, top)
  <2>1. PICK a \in Nat : a = Cardinality(Layer(lv, top))
    BY LayerFinite
  <2>2. PICK h \in Nat : h = Half
    BY <1>1
  <2>3. a * h >= 2 * h
    BY <1>3, <2>1, TimesKeepsOrder
  <2> QED
    BY <2>1, <2>2, <2>3, FewestDef
<1>5. ASSUME NEW j \in Nat, NEW k \in Nat, (j + 1) + k = top, Wide(j, k + 1)
      PROVE  Wide(j + 1, k)
  <2>1. PICK a, b, f \in Nat : /\ a = Cardinality(Layer(lv, k))
                               /\ b = Cardinality(Layer(lv, k + 1))
                               /\ f = Fewest[j]
    BY LayerFinite, FewestDef
  <2>2. PICK h \in Nat : h = Half
    BY <1>1
  <2>3. \A x \in Layer(lv, k + 1) : KeyCount(store, x) + 1 >= h + 1
    <3>1. \A x \in Layer(lv, k + 1) : x \in Live(store) /\ x # root
      BY <1>5 DEF Layer
    <3> QED
      BY <1>1, <1>2, <2>2, <3>1
  <2>4. h + 1 \in Nat
    OBVIOUS
  <2>5. a >= b * (h + 1)
    BY <2>1, <2>3, <2>4, LayerBelow
  <2>6. b * h >= 2 * f
    BY <1>5, <2>1, <2>2
  <2>7. PICK c, g \in Nat : c = b * (h + 1) /\ g = (h + 1) * f
    BY <2>4
  <2>8. a * h >= c * h
    BY <2>5, <2>7, TimesKeepsOrder
  <2>9. PICK p, q \in Nat : p = b * h /\ q = 2 * f
    OBVIOUS
  <2>10. p * (h + 1) >= q * (h + 1)
    BY <2>4, <2>6, <2>9, TimesKeepsOrder
  <2>11. p * (h + 1) = c * h
    BY <2>7, <2>9
  <2>12. q * (h + 1) = 2 * g
    BY <2>7, <2>9
  <2>13. a * h >= 2 * g
    BY <2>8, <2>10, <2>11, <2>12
  <2>14. Fewest[j + 1] = g
    BY <2>1, <2>2, <2>7, FewestDef
  <2> QED
    BY <2>1, <2>2, <2>13, <2>14
<1> SUFFICES ASSUME T # {} PROVE FALSE
  OBVIOUS
<1> HIDE DEF Wide
<1>6. PICK j \in T : \A i \in T : j <= i
  <2>1. T \in SUBSET Nat
    OBVIOUS
  <2> QED
    BY <2>1, LeastNat
<1>7. PICK k \in Nat : j + k = top /\ ~Wide(j, k)
  BY <1>6
<1>8. j # 0
  <2> SUFFICES ASSUME j = 0 PROVE FALSE
    OBVIOUS
  <2>1. k = top
    BY <1>7
  <2> QED
    BY <1>4, <1>7, <2>1
<1>9. PICK i \in Nat : j = i + 1
  BY <1>6, <1>8
<1>10. i \notin T
  BY <1>6, <1>9
<1>11. i + (k + 1) = top /\ k + 1 \in Nat
  BY <1>7, <1>9
<1>12. Wide(i, k + 1)
  BY <1>10, <1>11
<1>13. (i + 1) + k = top
  BY <1>7, <1>9
<1> QED
  BY <1>5, <1>7, <1>9, <1>12, <1>13

(* At the bottom these are leaves, and each holds its entries.              *)
LEMMA FilledIsShallow ==
    ASSUME Filled, LenExact
    PROVE  ShallowTree
<1> SUFFICES ASSUME pc = "idle", Height - 1 > 0
             PROVE  len >= 2 * Fewest[(Height - 1) - 1]
  BY DEF ShallowTree
<1>1. PICK lv : Inductive(lv)
  BY DEF Filled, Structure
<1>2. root \in Live(store) /\ lv[root] \in Nat /\ Level[root] = lv[root]
  BY <1>1, CallFacts, LevelIsHeight
<1>3. PICK top \in Nat : lv[root] = top + 1 /\ (Height - 1) - 1 = top
  <2>1. PICK h \in Nat : h = lv[root]
    BY <1>2
  <2>2. Height - 1 = h /\ h > 0
    BY <1>2, <2>1 DEF Height
  <2>3. h - 1 \in Nat /\ h = (h - 1) + 1
    BY <2>2
  <2> QED
    BY <2>1, <2>2, <2>3
<1>4. Sized
  BY DEF Filled
<1>5. Cardinality(Layer(lv, 0)) * Half >= 2 * Fewest[top]
  <2>1. top + 0 = top
    OBVIOUS
  <2> QED
    BY <1>1, <1>3, <1>4, <2>1, LayersWide
<1> DEFINE S == Layer(lv, 0)
           R == S \X (1 .. Half)
<1>6. R \subseteq Slots
  <2> SUFFICES ASSUME NEW x \in S, NEW i \in 1 .. Half PROVE <<x, i>> \in Slots
    OBVIOUS
  <2>1. x \in Live(store) /\ lv[x] = 0 /\ x # root
    BY <1>3 DEF Layer
  <2>2. IsLeaf(Fetch(store, x))
    BY <1>1, <2>1 DEF Inductive, TreeOK, GradedAt
  <2>3. 0 \notin Live(store) /\ KeyCount(store, x) \in Nat
    BY <1>1, <2>1, StateFacts
  <2>4. EnoughAt(store, root, 0, x)
    BY <1>4, <2>1 DEF Sized, Enough, Owing
  <2>5. KeyCount(store, x) >= Half
    BY <2>1, <2>3, <2>4, HalfFacts DEF EnoughAt
  <2>6. i \in 1 .. Order /\ i <= KeyCount(store, x)
    BY <2>3, <2>5, HalfFacts
  <2> QED
    BY <2>1, <2>2, <2>6 DEF Slots, Leaves, Inner, Node, KeyCount
<1>7. IsFiniteSet(S) /\ Cardinality(S) \in Nat
  BY <1>1, LayerFinite
<1> HIDE DEF S
<1>8. IsFiniteSet(R) /\ Cardinality(R) = Cardinality(S) * Half
  <2>1. IsFiniteSet(1 .. Half) /\ Cardinality(1 .. Half) = Half
    <3>1. PICK h \in Nat : h = Half /\ h >= 1
      BY HalfFacts
    <3>2. IsFiniteSet(1 .. h) /\ Cardinality(1 .. h) = IF 1 > h THEN 0 ELSE h - 1 + 1
      BY FS_Interval
    <3> QED
      BY <3>1, <3>2
  <2> QED
    BY <1>7, <2>1, FS_Product
<1> HIDE DEF R
<1>9. IsFiniteSet(Slots)
  <2>1. IsFiniteSet(Leaves)
    <3>1. Leaves \subseteq Layer(lv, 0)
      BY <1>1 DEF Leaves, Inner, Node, Layer, Inductive, TreeOK, GradedAt
    <3> QED
      BY <1>7, <3>1, FS_Subset DEF S
  <2>2. IsFiniteSet(1 .. Order)
    BY OrderAssumption, FS_Interval
  <2>3. IsFiniteSet(Leaves \X (1 .. Order))
    BY <2>1, <2>2, FS_Product
  <2>4. Slots \subseteq Leaves \X (1 .. Order)
    BY DEF Slots
  <2> QED
    BY <2>3, <2>4, FS_Subset
<1>10. Cardinality(R) <= Cardinality(Slots) /\ Cardinality(Slots) \in Nat
  BY <1>6, <1>9, FS_Subset, FS_CardinalityType
<1>11. len = Cardinality(Slots)
  BY <1>1, <1>10, CallFacts DEF LenExact, Slots
<1>12. PICK f \in Nat : f = Fewest[top]
  BY FewestDef
<1>13. PICK a \in Nat, h \in Nat : a = Cardinality(S) /\ h = Half
  BY <1>7, HalfFacts
<1>14. a * h >= 2 * f
  BY <1>5, <1>12, <1>13 DEF S
<1>15. a * h <= len /\ len \in Nat
  BY <1>8, <1>10, <1>11, <1>13
<1>16. PICK p \in Nat : p = a * h
  BY <1>13
<1>17. len >= 2 * f
  BY <1>14, <1>15, <1>16
<1> QED
  BY <1>3, <1>12, <1>17

(* A lookup visits a number of nodes logarithmic in len: a tree with h      *)
(* levels above its leaves holds at least the entries of a root with two    *)
(* children below which all is half full, after any history of insertions,  *)
(* removals and clears (tree.rs:191-196, lib.rs:9).                         *)
THEOREM ShallowTreeTheorem == Spec => []ShallowTree
<1>1. Filled /\ LenExact => ShallowTree
  BY FilledIsShallow
<1> QED
  BY <1>1, FilledAlways, LenExactTheorem, PTL

-----------------------------------------------------------------------------
(* Calls come to their end.                                                 *)

Shrinks == Effort' < Effort

(* What is left to do, from the height of the node a call has come to.      *)
LEMMA EffortIs ==
    ASSUME NEW lv, Inductive(lv)
    PROVE  /\ lv[cur] \in Nat /\ lv[root] \in Nat /\ Len(path) \in Nat
           /\ lv[cur] + Len(path) = lv[root]
           /\ pc = "idle" => Effort = 0 /\ Len(path) = 0
           /\ pc = "descend" => Effort = 2 * lv[cur] + Len(path) + 2
           /\ pc \in {"absorb", "rebalance"} => Effort = Len(path) + 1
           /\ Height = lv[root] + 1
<1>1. /\ lv \in [Live(store) -> Nat] /\ root \in Live(store) /\ cur \in Live(store)
      /\ path \in Seq(Frame) /\ Framed(store, root, path, cur, lv)
  BY CallFacts
<1>2. /\ lv[cur] \in Nat /\ lv[root] \in Nat /\ Len(path) \in Nat
      /\ lv[cur] + Len(path) = lv[root]
  BY <1>1, LenProperties DEF Framed
<1>3. Level[cur] = lv[cur] /\ Level[root] = lv[root]
  BY <1>1, LevelIsHeight
<1>4. pc = "idle" => path = <<>>
  BY DEF Inductive
<1> HIDE DEF Level
<1> QED
  BY <1>2, <1>3, <1>4 DEF Effort, Height

(* The answer of a call.                                                    *)
LEMMA ReturnShrinks ==
    ASSUME NEW lv, Inductive(lv), pc # "idle", pc' = "idle"
    PROVE  Shrinks
<1>1. pc \in {"descend", "absorb", "rebalance"}
  BY DEF Inductive, TypeOK
<1>2. Effort' = 0
  BY DEF Effort
<1> HIDE DEF Effort
<1>3. /\ lv[cur] \in Nat /\ Len(path) \in Nat
      /\ pc = "descend" => Effort = 2 * lv[cur] + Len(path) + 2
      /\ pc \in {"absorb", "rebalance"} => Effort = Len(path) + 1
  BY EffortIs
<1> QED
  BY <1>1, <1>2, <1>3 DEF Shrinks

(* The way down is one level shorter, the way back one frame longer.        *)
LEMMA DescendShrinks ==
    ASSUME NEW lv, Inductive(lv), Descend
    PROVE  Shrinks
<1>1. /\ pc = "descend" /\ pc' = "descend" /\ root' = root /\ store' = store
      /\ path' = Append(path, [id |-> cur, idx |-> ChildIndex(Node(cur), arg.key)])
  BY DEF Descend, tree
<1>2. Inductive(lv)'
  BY DescendKeeps
<1>3. path \in Seq(Frame)
  BY CallFacts
<1>4. Len(path') = Len(path) + 1
  BY <1>1, <1>3, AppendProperties
<1>5. /\ lv[cur] \in Nat /\ lv[root] \in Nat /\ Len(path) \in Nat
      /\ lv[cur] + Len(path) = lv[root]
      /\ Effort = 2 * lv[cur] + Len(path) + 2
  BY <1>1, EffortIs
<1>6. Live(store') = Live(store) /\ Level' = Level
  BY <1>1 DEF Level, Inner, Children, Node, Live
<1>7. cur' \in Live(store) /\ lv[cur'] + Len(path') = lv[root]
  BY <1>1, <1>2, <1>6 DEF Inductive, Framed
<1>8. lv[cur'] \in Nat /\ Level[cur'] = lv[cur']
  BY <1>7, CallFacts, LevelIsHeight
<1>9. Effort' = 2 * lv[cur'] + Len(path') + 2
  <2> HIDE DEF Level
  <2> QED
    BY <1>1, <1>6, <1>8 DEF Effort
<1> HIDE DEF Effort
<1>10. PICK l \in Nat, m \in Nat, n \in Nat : l = lv[cur] /\ m = lv[cur'] /\ n = Len(path)
  BY <1>5, <1>8
<1>11. l + n = m + (n + 1) /\ Effort = 2 * l + n + 2 /\ Effort' = 2 * m + (n + 1) + 2
  BY <1>4, <1>5, <1>7, <1>9, <1>10
<1> QED
  BY <1>11 DEF Shrinks

(* At its leaf, a call that changes more than the leaf turns around.        *)
LEMMA TurnShrinks ==
    ASSUME NEW lv, Inductive(lv), InsertSplit \/ RemoveEntry
    PROVE  Shrinks
<1>1. pc = "descend" /\ pc' \in {"absorb", "rebalance"} /\ path' = path
  BY DEF InsertSplit, RemoveEntry, AtLeaf
<1>2. /\ lv[cur] \in Nat /\ Len(path) \in Nat
      /\ Effort = 2 * lv[cur] + Len(path) + 2
  BY <1>1, EffortIs
<1>3. Effort' = Len(path) + 1
  BY <1>1 DEF Effort
<1> HIDE DEF Effort
<1> QED
  BY <1>2, <1>3 DEF Shrinks

(* Each repair is followed by the frame above.                              *)
LEMMA RepairShrinks ==
    ASSUME NEW lv, Inductive(lv), AbsorbSplit \/ Sufficient \/ Rebalance
    PROVE  Shrinks
<1>1. /\ pc \in {"absorb", "rebalance"} /\ pc' = pc
      /\ path # <<>> /\ path' = Front(path)
  BY DEF AbsorbSplit, Sufficient, Rebalance, Ascend
<1>2. path \in Seq(Frame)
  BY CallFacts
<1>3. Len(path) \in Nat \ {0} /\ Len(path') = Len(path) - 1
  BY <1>1, <1>2, PopProperties
<1>4. Effort = Len(path) + 1 /\ Effort' = Len(path') + 1
  BY <1>1 DEF Effort
<1> HIDE DEF Effort
<1> QED
  BY <1>3, <1>4 DEF Shrinks

(* All steps of a call.                                                     *)
LEMMA StepShrinks ==
    ASSUME NEW lv, Inductive(lv), Step
    PROVE  Shrinks
<1>1. CASE Descend
  BY <1>1, DescendShrinks
<1>2. CASE InsertSplit \/ RemoveEntry
  BY <1>2, TurnShrinks
<1>3. CASE AbsorbSplit \/ Sufficient \/ Rebalance
  BY <1>3, RepairShrinks
<1>4. CASE \/ GetAnswer \/ InsertReplace \/ InsertFits \/ AbsorbFits \/ GrowRoot
           \/ RemoveAbsent \/ FinishRemove
  <2>1. pc # "idle" /\ pc' = "idle"
    BY <1>4 DEF GetAnswer, InsertReplace, InsertFits, AbsorbFits, GrowRoot,
                RemoveAbsent, FinishRemove, AtLeaf, Return
  <2> QED
    BY <2>1, ReturnShrinks
<1> QED
  BY <1>1, <1>2, <1>3, <1>4 DEF Step

(* A call starts at the root.                                               *)
LEMMA CallEffort ==
    ASSUME NEW lv, Inductive(lv), GetCall \/ InsertCall \/ RemoveCall
    PROVE  Effort' <= 2 * Height
<1>1. /\ pc = "idle" /\ pc' = "descend"
      /\ store' = store /\ cur' = cur /\ path' = path
  BY DEF GetCall, InsertCall, RemoveCall, Call, tree
<1>2. /\ lv[root] \in Nat /\ lv[cur] + Len(path) = lv[root]
      /\ Len(path) = 0 /\ Height = lv[root] + 1 /\ lv[cur] \in Nat
  BY <1>1, EffortIs
<1>3. Level[cur] = lv[cur]
  BY CallFacts, LevelIsHeight
<1>4. Level' = Level
  BY <1>1 DEF Level, Inner, Children, Node
<1> HIDE DEF Level
<1>5. Effort' = 2 * Level[cur] + Len(path) + 2
  BY <1>1, <1>4 DEF Effort
<1> HIDE DEF Effort, Height
<1> QED
  BY <1>2, <1>3, <1>5

(* No call runs on: one of h levels above the leaves takes at most 2(h + 1) *)
(* steps, since what is left to do shrinks with every descent, split,       *)
(* rotation and merge (ops.rs:77-91, 223-245).                              *)
THEOREM CallsEndTheorem == Spec => CallsEnd
<1>1. ASSUME Structure, [Next]_vars
      PROVE  [/\ pc = "idle" => Effort' <= 2 * Height
              /\ pc # "idle" => Effort' < Effort]_vars
  <2>1. PICK lv : Inductive(lv)
    BY <1>1 DEF Structure
  <2>2. CASE GetCall \/ InsertCall \/ RemoveCall
    <3>1. pc = "idle"
      BY <2>2 DEF GetCall, InsertCall, RemoveCall, Call
    <3>2. Effort' <= 2 * Height
      BY <2>1, <2>2, CallEffort
    <3> QED
      BY <3>1, <3>2
  <2>3. CASE Step
    <3>1. Shrinks
      BY <2>1, <2>3, StepShrinks
    <3>2. pc # "idle"
      BY <2>3 DEF Step, Descend, GetAnswer, InsertReplace, InsertFits, InsertSplit,
                  AbsorbFits, AbsorbSplit, GrowRoot, RemoveAbsent, RemoveEntry,
                  Sufficient, Rebalance, FinishRemove, AtLeaf
    <3> QED
      BY <3>1, <3>2 DEF Shrinks
  <2>4. CASE Clear
    <3>1. pc = "idle" /\ pc' = "idle"
      BY <2>4 DEF Clear
    <3>2. Effort' = 0
      BY <3>1 DEF Effort
    <3>3. lv[root] \in Nat /\ Height = lv[root] + 1
      BY <2>1, EffortIs
    <3> HIDE DEF Effort, Height
    <3> QED
      BY <3>1, <3>2, <3>3
  <2>5. CASE UNCHANGED vars
    BY <2>5
  <2> QED
    BY <1>1, <2>2, <2>3, <2>4, <2>5 DEF Next
<1> QED
  BY <1>1, StructureTheorem, PTL DEF Spec, CallsEnd
=============================================================================
