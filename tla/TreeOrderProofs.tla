-------------------------- MODULE TreeOrderProofs --------------------------
(* For every order, key and value set and id space: the keys of each node   *)
(* ascend within bounds of its own, and the bounds of its children are the  *)
(* separators beside them, after every step of every call.                  *)
EXTENDS TreeStructureProofs

-----------------------------------------------------------------------------

(* The keys at or above the bound in l and below the one in h; an empty set *)
(* stands for no bound.                                                     *)
InRange(k, l, h) == (\A b \in l : b <= k) /\ (\A b \in h : k < b)

(* Above the bound in l, not on it.                                         *)
Between(k, l, h) == (\A b \in l : b < k) /\ (\A b \in h : k < b)

KeysPlaced(keys, l, h) ==
    /\ Ascending(keys)
    /\ \A j \in 1 .. Len(keys) : InRange(keys[j], l, h)

(* The range of keys that child i of a node owns, when the node owns those  *)
(* between l and h.                                                         *)
LowOf(keys, l, i) == IF i = 1 THEN l ELSE {keys[i - 1]}
HighOf(keys, h, i) == IF i = Len(keys) + 1 THEN h ELSE {keys[i]}

KidsPlaced(node, l, h, lo, out) ==
    /\ \A j \in 1 .. Len(node.keys) : Between(node.keys[j], l, h)
    /\ \A i \in 1 .. Len(node.children) :
          /\ lo[node.children[i]] = LowOf(node.keys, l, i)
          /\ out[node.children[i]] = HighOf(node.keys, h, i)

NodePlaced(node, l, h, lo, out) ==
    /\ KeysPlaced(node.keys, l, h)
    /\ ~IsLeaf(node) => KidsPlaced(node, l, h, lo, out)

-----------------------------------------------------------------------------
(* One list of keys.                                                        *)

(* What ascending means for a list of keys.                                 *)
LEMMA KeysAreOrdered ==
    ASSUME NEW keys \in Seq(Key)
    PROVE  /\ Len(keys) \in Nat
           /\ DOMAIN keys = 1 .. Len(keys)
           /\ \A j \in 1 .. Len(keys) : keys[j] \in Key /\ keys[j] \in Int
           /\ Ascending(keys) <=> \A i, j \in 1 .. Len(keys) : i < j => keys[i] < keys[j]
<1>1. Len(keys) \in Nat /\ DOMAIN keys = 1 .. Len(keys)
  BY LenProperties
<1>2. \A j \in 1 .. Len(keys) : keys[j] \in Key /\ keys[j] \in Int
  BY ElementOfSeq, KeyAssumption
<1> QED
  BY <1>1, <1>2 DEF Ascending

(* A key goes in between its neighbours.                                    *)
LEMMA InsertPlaced ==
    ASSUME NEW keys \in Seq(Key), NEW l \in SUBSET Key, NEW h \in SUBSET Key,
           KeysPlaced(keys, l, h), NEW i \in 1 .. Len(keys) + 1, NEW k \in Key,
           InRange(k, l, h), i > 1 => keys[i - 1] < k, i <= Len(keys) => k < keys[i]
    PROVE  KeysPlaced(InsertAt(keys, i, k), l, h)
<1> DEFINE t == InsertAt(keys, i, k)
           n == Len(keys)
<1>1. /\ t \in Seq(Key) /\ Len(t) = n + 1
      /\ \A j \in 1 .. n + 1 : t[j] = IF j < i THEN keys[j] ELSE IF j = i THEN k ELSE keys[j - 1]
  BY InsertAtElements
<1>2. /\ n \in Nat /\ i \in 1 .. n + 1 /\ k \in Int
      /\ \A j \in 1 .. n : keys[j] \in Int /\ InRange(keys[j], l, h)
      /\ \A a, b \in 1 .. n : a < b => keys[a] < keys[b]
      /\ i > 1 => keys[i - 1] < k
      /\ i <= n => k < keys[i]
  BY KeysAreOrdered, KeyAssumption DEF KeysPlaced
<1> HIDE DEF t, n
<1>3. ASSUME NEW a \in 1 .. n + 1, NEW b \in 1 .. n + 1, a < b PROVE t[a] < t[b]
  <2>1. \A j \in 1 .. n : j < i => keys[j] < k
    <3> TAKE j \in 1 .. n
    <3> HAVE j < i
    <3>1. i - 1 \in 1 .. n /\ i > 1 /\ (j = i - 1 \/ j < i - 1)
      BY <1>2
    <3> QED
      BY <1>2, <3>1
  <2>2. \A j \in 1 .. n : j >= i => k < keys[j]
    <3> TAKE j \in 1 .. n
    <3> HAVE j >= i
    <3>1. i \in 1 .. n /\ i <= n /\ (j = i \/ i < j)
      BY <1>2
    <3> QED
      BY <1>2, <3>1
  <2>3. \A c \in 1 .. n + 1 : \/ c < i /\ c \in 1 .. n /\ t[c] = keys[c]
                              \/ c = i /\ t[c] = k
                              \/ c > i /\ c - 1 >= i /\ c - 1 \in 1 .. n /\ t[c] = keys[c - 1]
    BY <1>1, <1>2
  <2>4. CASE a < i /\ b > i
    <3>1. keys[a] < k /\ k < keys[b - 1] /\ t[a] = keys[a] /\ t[b] = keys[b - 1]
          /\ a \in 1 .. n /\ b - 1 \in 1 .. n
      BY <1>2, <2>1, <2>2, <2>3, <2>4
    <3> QED
      BY <1>2, <3>1
  <2>5. CASE a = i \/ b = i
    BY <1>2, <1>3, <2>1, <2>2, <2>3, <2>5
  <2>6. CASE a > i
    <3>1. a - 1 \in 1 .. n /\ b - 1 \in 1 .. n /\ a - 1 < b - 1
          /\ t[a] = keys[a - 1] /\ t[b] = keys[b - 1]
      BY <1>2, <1>3, <2>3, <2>6
    <3> QED
      BY <1>2, <3>1
  <2>7. CASE b < i
    BY <1>2, <1>3, <2>3, <2>7
  <2> QED
    BY <1>2, <1>3, <2>4, <2>5, <2>6, <2>7
<1>4. ASSUME NEW a \in 1 .. n + 1 PROVE InRange(t[a], l, h)
  BY <1>1, <1>2
<1> QED
  BY <1>1, <1>3, <1>4, KeysAreOrdered DEF KeysPlaced, t

(* A key goes out.                                                          *)
LEMMA RemovePlaced ==
    ASSUME NEW keys \in Seq(Key), NEW l \in SUBSET Key, NEW h \in SUBSET Key,
           KeysPlaced(keys, l, h), NEW i \in 1 .. Len(keys)
    PROVE  KeysPlaced(RemoveAt(keys, i), l, h)
<1> DEFINE t == RemoveAt(keys, i)
           n == Len(keys)
<1>1. /\ t \in Seq(Key) /\ Len(t) = n - 1
      /\ \A j \in 1 .. n - 1 : t[j] = IF j < i THEN keys[j] ELSE keys[j + 1]
  BY RemoveAtElements
<1>2. /\ n \in Nat /\ i \in 1 .. n
      /\ \A j \in 1 .. n : keys[j] \in Int /\ InRange(keys[j], l, h)
      /\ \A a, b \in 1 .. n : a < b => keys[a] < keys[b]
  BY KeysAreOrdered DEF KeysPlaced
<1> HIDE DEF t, n
<1>3. ASSUME NEW a \in 1 .. n - 1, NEW b \in 1 .. n - 1, a < b PROVE t[a] < t[b]
  BY <1>1, <1>2, <1>3
<1>4. ASSUME NEW a \in 1 .. n - 1 PROVE InRange(t[a], l, h)
  BY <1>1, <1>2
<1> QED
  BY <1>1, <1>3, <1>4, KeysAreOrdered DEF KeysPlaced, t

(* A stretch of a list, with a bound below its first and above its last.    *)
LEMMA CutPlaced ==
    ASSUME NEW keys \in Seq(Key), Ascending(keys),
           NEW a \in Nat, NEW b \in Nat, 1 <= a, b <= Len(keys), a <= b + 1,
           NEW l \in SUBSET Key, NEW h \in SUBSET Key,
           \A j \in a .. b : InRange(keys[j], l, h)
    PROVE  KeysPlaced(SubSeq(keys, a, b), l, h)
<1> DEFINE t == SubSeq(keys, a, b)
           m == b + 1 - a
<1>1. /\ t \in Seq(Key) /\ Len(t) = m
      /\ \A j \in 1 .. m : t[j] = keys[j + a - 1]
  BY CutProperties
<1>2. /\ Len(keys) \in Nat /\ m \in Nat
      /\ \A x, y \in 1 .. Len(keys) : x < y => keys[x] < keys[y]
      /\ \A j \in 1 .. m : j + a - 1 \in a .. b /\ j + a - 1 \in 1 .. Len(keys)
  BY KeysAreOrdered
<1> HIDE DEF t
<1>3. ASSUME NEW x \in 1 .. m, NEW y \in 1 .. m, x < y PROVE t[x] < t[y]
  <2>1. x + a - 1 < y + a - 1
    BY <1>3
  <2> QED
    BY <1>1, <1>2, <2>1
<1>4. ASSUME NEW x \in 1 .. m PROVE InRange(t[x], l, h)
  BY <1>1, <1>2
<1> QED
  BY <1>1, <1>3, <1>4, KeysAreOrdered DEF KeysPlaced, t
-----------------------------------------------------------------------------
(* One node.                                                                *)

(* A leaf takes a new entry whose key is in its range.                      *)
LEMMA LeafWithPlaced ==
    ASSUME NEW leaf \in AnyNode, IsLeaf(leaf), NEW l \in SUBSET Key, NEW h \in SUBSET Key,
           KeysPlaced(leaf.keys, l, h), NEW k \in Key, NEW v, InRange(k, l, h),
           ~Found(leaf.keys, k)
    PROVE  KeysPlaced(LeafWith(leaf, k, v).keys, l, h)
<1> DEFINE i == Position(leaf.keys, k)
           keys == leaf.keys
<1>1. keys \in Seq(Key)
  BY NodeCases DEF AnyNode
<1>2. /\ i \in 1 .. Len(keys) + 1
      /\ i > 1 => keys[i - 1] < k
      /\ i <= Len(keys) => k <= keys[i] /\ keys[i] # k
  BY <1>1, PositionProperties DEF Found
<1>3. /\ Len(keys) \in Nat /\ k \in Int
      /\ \A j \in 1 .. Len(keys) : keys[j] \in Int
  BY <1>1, KeysAreOrdered, KeyAssumption
<1>4. LeafWith(leaf, k, v).keys = InsertAt(keys, i, k)
  BY DEF LeafWith, Leaf
<1>5. i <= Len(keys) => k < keys[i]
  <2> SUFFICES ASSUME i <= Len(keys) PROVE k < keys[i]
    OBVIOUS
  <2>1. i \in 1 .. Len(keys)
    BY <1>2, <1>3
  <2> QED
    BY <1>2, <1>3, <2>1
<1> HIDE DEF i, keys
<1>6. KeysPlaced(keys, l, h)
  BY DEF keys
<1> QED
  BY <1>1, <1>2, <1>4, <1>5, <1>6, InsertPlaced

(* A leaf gives up an entry.                                                *)
LEMMA LeafWithoutPlaced ==
    ASSUME NEW leaf \in AnyNode, IsLeaf(leaf), NEW l \in SUBSET Key, NEW h \in SUBSET Key,
           KeysPlaced(leaf.keys, l, h), NEW k \in Key, Found(leaf.keys, k)
    PROVE  KeysPlaced(LeafWithout(leaf, k).keys, l, h)
<1>1. leaf.keys \in Seq(Key)
  BY NodeCases DEF AnyNode
<1>2. Position(leaf.keys, k) \in 1 .. Len(leaf.keys)
  BY <1>1, FoundProperties
<1>3. LeafWithout(leaf, k).keys = RemoveAt(leaf.keys, Position(leaf.keys, k))
  BY DEF LeafWithout, Leaf
<1> QED
  BY <1>1, <1>2, <1>3, RemovePlaced

(* A list cut in two at a key of it: the key bounds both halves.            *)
LEMMA HalvesPlaced ==
    ASSUME NEW keys \in Seq(Key), NEW l \in SUBSET Key, NEW h \in SUBSET Key,
           KeysPlaced(keys, l, h), NEW mid \in 1 .. Len(keys) - 1
    PROVE  LET sep == keys[mid + 1]
           IN  /\ sep \in Key /\ Between(sep, l, h)
               /\ KeysPlaced(SubSeq(keys, 1, mid), l, {sep})
               /\ KeysPlaced(SubSeq(keys, mid + 1, Len(keys)), {sep}, h)
               /\ KeysPlaced(SubSeq(keys, mid + 2, Len(keys)), {sep}, h)
               /\ \A j \in mid + 2 .. Len(keys) : sep < keys[j]
<1> DEFINE sep == keys[mid + 1]
           n == Len(keys)
<1>1. /\ n \in Nat /\ mid \in Nat /\ mid + 1 \in 1 .. n /\ 1 \in 1 .. n /\ 1 < mid + 1
      /\ \A j \in 1 .. n : keys[j] \in Key /\ keys[j] \in Int /\ InRange(keys[j], l, h)
      /\ \A x, y \in 1 .. n : x < y => keys[x] < keys[y]
      /\ Ascending(keys)
  BY KeysAreOrdered DEF KeysPlaced
<1>2. \A b \in l \cup h : b \in Int
  BY KeyAssumption
<1>3. sep \in Key /\ sep \in Int /\ keys[1] < sep /\ keys[1] \in Int
  BY <1>1
<1>4. Between(sep, l, h)
  <2>1. \A b \in l : b <= keys[1]
    BY <1>1 DEF InRange
  <2>2. \A b \in h : sep < b
    BY <1>1 DEF InRange
  <2> QED
    BY <1>2, <1>3, <2>1, <2>2 DEF Between
<1> HIDE DEF sep
<1>5. \A j \in 1 .. mid : InRange(keys[j], l, {sep})
  BY <1>1 DEF InRange, sep
<1>6. \A j \in mid + 1 .. n : sep <= keys[j]
  <2> TAKE j \in mid + 1 .. n
  <2>1. j \in 1 .. n /\ (j = mid + 1 \/ mid + 1 < j)
    BY <1>1
  <2> QED
    BY <1>1, <1>3, <2>1 DEF sep
<1>7. \A j \in mid + 1 .. n : InRange(keys[j], {sep}, h)
  BY <1>1, <1>6 DEF InRange
<1>8. \A j \in mid + 2 .. n : j \in mid + 1 .. n /\ sep < keys[j]
  BY <1>1 DEF sep
<1>9. {sep} \in SUBSET Key
  BY <1>3
<1>10. KeysPlaced(SubSeq(keys, 1, mid), l, {sep})
  <2>1. 1 \in Nat /\ 1 <= 1 /\ mid <= n /\ 1 <= mid + 1
    BY <1>1
  <2> QED
    BY <1>1, <1>5, <1>9, <2>1, CutPlaced
<1>11. KeysPlaced(SubSeq(keys, mid + 1, n), {sep}, h)
  <2>1. mid + 1 \in Nat /\ 1 <= mid + 1 /\ mid + 1 <= n + 1 /\ n <= n
    BY <1>1
  <2> QED
    BY <1>1, <1>7, <1>9, <2>1, CutPlaced
<1>12. KeysPlaced(SubSeq(keys, mid + 2, n), {sep}, h)
  <2>1. mid + 2 \in Nat /\ 1 <= mid + 2 /\ mid + 2 <= n + 1 /\ n <= n
    BY <1>1
  <2>2. \A j \in mid + 2 .. n : InRange(keys[j], {sep}, h)
    BY <1>7, <1>8
  <2> QED
    BY <1>1, <1>9, <2>1, <2>2, CutPlaced
<1> QED
  BY <1>3, <1>4, <1>8, <1>10, <1>11, <1>12 DEF sep, n

(* The separators of a node that splits: those above the median bound the   *)
(* children of the upper half, those below it the children of the lower.    *)
LEMMA CutInnerPlaced ==
    ASSUME NEW full \in AnyNode, NEW n, NEW mid, NEW lower, NEW upper,
           CutAround(full, n, mid, lower, upper),
           NEW l \in SUBSET Key, NEW h \in SUBSET Key, NEW lo, NEW out,
           NodePlaced(full, l, h, lo, out)
    PROVE  LET sep == full.keys[mid + 1]
           IN  /\ sep \in Key /\ Between(sep, l, h)
               /\ NodePlaced(lower, l, {sep}, lo, out)
               /\ NodePlaced(upper, {sep}, h, lo, out)
<1> DEFINE sep == full.keys[mid + 1]
           keys == full.keys
           kids == full.children
           lk == SubSeq(keys, 1, mid)
           uk == SubSeq(keys, mid + 2, n)
           lc == SubSeq(kids, 1, mid + 1)
           uc == SubSeq(kids, mid + 2, n + 1)
<1>1. /\ ~IsLeaf(full) /\ ShapeOK(full) /\ full \in NodeOf(NodeId)
      /\ n = KeysLen(full) /\ mid \in 1 .. n - 1
      /\ lower = Internal(lk, lc) /\ upper = Internal(uk, uc)
  BY DEF CutAround, AnyNode
<1>2. /\ keys \in Seq(Key) /\ kids \in Seq(NodeId)
      /\ n = Len(keys) /\ n \in Nat /\ Len(kids) = n + 1
  BY <1>1, InternalCases
<1>3. KeysPlaced(keys, l, h) /\ KidsPlaced(full, l, h, lo, out)
  BY <1>1 DEF NodePlaced
<1>4. /\ sep \in Key /\ Between(sep, l, h)
      /\ KeysPlaced(lk, l, {sep})
      /\ KeysPlaced(uk, {sep}, h)
      /\ \A j \in mid + 2 .. n : sep < keys[j]
  BY <1>1, <1>2, <1>3, HalvesPlaced
<1>5. /\ mid \in Nat /\ mid + 2 <= n + 1 /\ 1 <= mid
      /\ \A j \in 1 .. n : keys[j] \in Int
      /\ \A x, y \in 1 .. n : x < y => keys[x] < keys[y]
  BY <1>1, <1>2, <1>3, KeysAreOrdered DEF KeysPlaced
<1>0. n \in Nat /\ mid \in Nat /\ 1 <= mid /\ mid + 1 <= n
  BY <1>1, <1>2
<1>6. /\ Len(lk) = mid /\ \A i \in 1 .. mid : lk[i] = keys[i]
      /\ Len(uk) = n - mid - 1 /\ \A i \in 1 .. n - mid - 1 : uk[i] = keys[i + (mid + 1)]
      /\ Len(lc) = mid + 1 /\ \A i \in 1 .. mid + 1 : lc[i] = kids[i]
      /\ Len(uc) = n - mid /\ \A i \in 1 .. n - mid : uc[i] = kids[i + (mid + 1)]
  <2>1. mid \in 0 .. Len(keys) /\ mid + 1 \in 0 .. Len(keys) /\ mid + 1 \in 0 .. Len(kids)
        /\ mid + 1 + 1 = mid + 2 /\ Len(keys) = n /\ Len(kids) = n + 1
    BY <1>0, <1>2
  <2>2. Len(lk) = mid /\ \A i \in 1 .. mid : lk[i] = keys[i]
    BY <1>2, <2>1, HalvesProperties
  <2>3. Len(uk) = n - (mid + 1) /\ \A i \in 1 .. n - (mid + 1) : uk[i] = keys[i + (mid + 1)]
    BY <1>2, <2>1, HalvesProperties
  <2>4. Len(lc) = mid + 1 /\ \A i \in 1 .. mid + 1 : lc[i] = kids[i]
    BY <1>2, <2>1, HalvesProperties
  <2>5. Len(uc) = n + 1 - (mid + 1) /\ \A i \in 1 .. n + 1 - (mid + 1) : uc[i] = kids[i + (mid + 1)]
    <3> DEFINE tail == SubSeq(kids, mid + 1 + 1, Len(kids))
    <3>1. Len(tail) = Len(kids) - (mid + 1)
          /\ \A i \in 1 .. Len(kids) - (mid + 1) : tail[i] = kids[i + (mid + 1)]
      BY <1>2, <2>1, HalvesProperties
    <3>2. tail = uc
      BY <2>1
    <3> HIDE DEF tail, uc
    <3> QED
      BY <2>1, <3>1, <3>2
  <2>6. n - (mid + 1) = n - mid - 1 /\ n + 1 - (mid + 1) = n - mid
    BY <1>0
  <2> QED
    BY <2>2, <2>3, <2>4, <2>5, <2>6
<1>7. /\ \A j \in 1 .. n : Between(keys[j], l, h)
      /\ \A i \in 1 .. n + 1 : /\ lo[kids[i]] = LowOf(keys, l, i)
                               /\ out[kids[i]] = HighOf(keys, h, i)
  BY <1>2, <1>3 DEF KidsPlaced
<1> HIDE DEF lk, uk, lc, uc
<1>8. KidsPlaced(lower, l, {sep}, lo, out)
  <2>1. lower.keys = lk /\ lower.children = lc
    BY <1>1 DEF Internal
  <2>2. \A j \in 1 .. mid : Between(lk[j], l, {sep})
    <3> TAKE j \in 1 .. mid
    <3>1. j \in 1 .. n /\ mid + 1 \in 1 .. n /\ j < mid + 1
      BY <1>0
    <3> QED
      BY <1>5, <1>6, <1>7, <3>1 DEF Between
  <2>3. ASSUME NEW i \in 1 .. mid + 1
        PROVE  lo[lc[i]] = LowOf(lk, l, i) /\ out[lc[i]] = HighOf(lk, {sep}, i)
    <3>1. /\ lo[kids[i]] = LowOf(keys, l, i) /\ out[kids[i]] = HighOf(keys, h, i)
          /\ lc[i] = kids[i]
          /\ i # 1 => i - 1 \in 1 .. mid
          /\ i # mid + 1 => i \in 1 .. mid
          /\ i # n + 1
      BY <1>2, <1>5, <1>6, <1>7
    <3>2. LowOf(lk, l, i) = LowOf(keys, l, i)
      BY <1>6, <3>1 DEF LowOf
    <3>3. HighOf(lk, {sep}, i) = HighOf(keys, h, i)
      BY <1>2, <1>6, <3>1 DEF HighOf
    <3> QED
      BY <3>1, <3>2, <3>3
  <2> QED
    BY <1>6, <2>1, <2>2, <2>3 DEF KidsPlaced
<1>9. KidsPlaced(upper, {sep}, h, lo, out)
  <2>1. upper.keys = uk /\ upper.children = uc
    BY <1>1 DEF Internal
  <2>2. \A j \in 1 .. n - mid - 1 : Between(uk[j], {sep}, h)
    <3> TAKE j \in 1 .. n - mid - 1
    <3>1. j + (mid + 1) \in mid + 2 .. n /\ j + (mid + 1) \in 1 .. n
      BY <1>0
    <3> QED
      BY <1>4, <1>6, <1>7, <3>1 DEF Between
  <2>3. ASSUME NEW i \in 1 .. n - mid
        PROVE  lo[uc[i]] = LowOf(uk, {sep}, i) /\ out[uc[i]] = HighOf(uk, h, i)
    <3> DEFINE m == i + (mid + 1)
    <3>1. /\ m \in 1 .. n + 1 /\ m # 1 /\ m - 1 = (i - 1) + (mid + 1)
          /\ i = 1 => m - 1 = mid + 1
          /\ i # 1 => i - 1 \in 1 .. n - mid - 1
          /\ i = n - mid <=> m = n + 1
          /\ i # n - mid => i \in 1 .. n - mid - 1
          /\ n - mid - 1 + 1 = n - mid
      BY <1>0
    <3>2. lo[uc[i]] = LowOf(keys, l, m) /\ out[uc[i]] = HighOf(keys, h, m)
      BY <1>6, <1>7, <3>1
    <3>3. LowOf(uk, {sep}, i) = LowOf(keys, l, m)
      BY <1>6, <3>1 DEF LowOf
    <3>4. HighOf(uk, h, i) = HighOf(keys, h, m)
      BY <1>2, <1>6, <3>1 DEF HighOf
    <3> QED
      BY <3>2, <3>3, <3>4
  <2> QED
    BY <1>6, <2>1, <2>2, <2>3 DEF KidsPlaced
<1>10. lower.keys = lk /\ upper.keys = uk
  BY <1>1 DEF Internal
<1> QED
  BY <1>4, <1>8, <1>9, <1>10 DEF NodePlaced, sep

(* What a node with its children says of them.                              *)
Parented(p, l, h, lo, out) ==
    /\ p \in AnyNode /\ ~IsLeaf(p) /\ ShapeOK(p)
    /\ l \in SUBSET Key /\ h \in SUBSET Key
    /\ NodePlaced(p, l, h, lo, out)

(* A parent's bounds, keys and slots.                                       *)
LEMMA ParentFacts ==
    ASSUME NEW p, NEW l, NEW h, NEW lo, NEW out, Parented(p, l, h, lo, out)
    PROVE  LET keys == p.keys
               kids == p.children
               n == Len(p.keys)
           IN  /\ keys \in Seq(Key) /\ kids \in Seq(NodeId) /\ n \in Nat
               /\ Len(kids) = n + 1 /\ IsInjective(kids)
               /\ DOMAIN keys = 1 .. n /\ DOMAIN kids = 1 .. n + 1
               /\ KeysPlaced(keys, l, h)
               /\ \A j \in 1 .. n : keys[j] \in Key /\ keys[j] \in Int /\ Between(keys[j], l, h)
               /\ \A i, j \in 1 .. n : i < j => keys[i] < keys[j]
               /\ \A i, j \in 1 .. n + 1 : kids[i] = kids[j] => i = j
               /\ \A i \in 1 .. n + 1 : /\ kids[i] \in NodeKids(p)
                                       /\ lo[kids[i]] = LowOf(keys, l, i)
                                       /\ out[kids[i]] = HighOf(keys, h, i)
               /\ \A c \in NodeKids(p) : \E i \in 1 .. n + 1 : c = kids[i]
               /\ \A b \in l \cup h : b \in Int
<1>1. /\ p \in NodeOf(NodeId) /\ ~IsLeaf(p) /\ ShapeOK(p)
      /\ KeysPlaced(p.keys, l, h) /\ KidsPlaced(p, l, h, lo, out)
  BY DEF Parented, AnyNode, NodePlaced
<1>2. /\ p.keys \in Seq(Key) /\ p.children \in Seq(NodeId)
      /\ Len(p.keys) \in Nat /\ Len(p.children) = Len(p.keys) + 1
      /\ IsInjective(p.children)
      /\ NodeKids(p) = Range(p.children)
  BY <1>1, InternalCases
<1>3. DOMAIN p.children = 1 .. Len(p.keys) + 1
  BY <1>2, LenProperties
<1>4. /\ DOMAIN p.keys = 1 .. Len(p.keys)
      /\ \A j \in 1 .. Len(p.keys) : p.keys[j] \in Key /\ p.keys[j] \in Int
      /\ \A i, j \in 1 .. Len(p.keys) : i < j => p.keys[i] < p.keys[j]
  BY <1>1, <1>2, KeysAreOrdered DEF KeysPlaced
<1>5. /\ \A j \in 1 .. Len(p.keys) : Between(p.keys[j], l, h)
      /\ \A i \in 1 .. Len(p.keys) + 1 : /\ lo[p.children[i]] = LowOf(p.keys, l, i)
                                         /\ out[p.children[i]] = HighOf(p.keys, h, i)
  BY <1>1, <1>2 DEF KidsPlaced
<1>6. /\ \A i \in 1 .. Len(p.keys) + 1 : p.children[i] \in NodeKids(p)
      /\ \A c \in NodeKids(p) : \E i \in 1 .. Len(p.keys) + 1 : c = p.children[i]
  BY <1>2, <1>3 DEF Range
<1>7. \A i, j \in 1 .. Len(p.keys) + 1 : p.children[i] = p.children[j] => i = j
  BY <1>2, <1>3 DEF IsInjective
<1>8. \A b \in l \cup h : b \in Int
  BY KeyAssumption DEF Parented
<1> QED
  BY <1>1, <1>2, <1>3, <1>4, <1>5, <1>6, <1>7, <1>8

(* The slot of each child lies between its separators.                      *)
LEMMA ParentSlots ==
    ASSUME NEW p, NEW l, NEW h, NEW lo, NEW out, Parented(p, l, h, lo, out)
    PROVE  /\ p.children \in Seq(NodeId) /\ Len(p.children) = Len(p.keys) + 1
           /\ \A i \in 1 .. Len(p.keys) + 1 :
                 lo[p.children[i]] = LowOf(p.keys, l, i) /\ out[p.children[i]] = HighOf(p.keys, h, i)
           /\ \A j \in 1 .. Len(p.keys) : Between(p.keys[j], l, h)
BY ParentFacts

(* The range of a child lies within that of its parent.                     *)
LEMMA SlotInside ==
    ASSUME NEW p, NEW l, NEW h, NEW lo, NEW out, Parented(p, l, h, lo, out),
           NEW i \in 1 .. Len(p.keys) + 1, NEW k \in Key
    PROVE  /\ InRange(k, LowOf(p.keys, l, i), HighOf(p.keys, h, i)) => InRange(k, l, h)
           /\ Between(k, LowOf(p.keys, l, i), HighOf(p.keys, h, i)) =>
                 /\ Between(k, l, h) /\ InRange(k, l, h)
                 /\ i > 1 => p.keys[i - 1] < k
                 /\ i <= Len(p.keys) => k < p.keys[i]
<1> DEFINE keys == p.keys
           n == Len(keys)
<1>1. /\ n \in Nat /\ k \in Int /\ i \in 1 .. n + 1
      /\ \A j \in 1 .. n : keys[j] \in Int /\ Between(keys[j], l, h)
      /\ \A b \in l \cup h : b \in Int
  BY ParentFacts, KeyAssumption
<1> HIDE DEF keys
<1>2. \A b \in l : i > 1 => i - 1 \in 1 .. n /\ b < keys[i - 1]
  BY <1>1 DEF Between
<1>3. \A b \in h : i <= n => i \in 1 .. n /\ keys[i] < b
  BY <1>1 DEF Between
<1>4. i > 1 => LowOf(keys, l, i) = {keys[i - 1]} /\ keys[i - 1] \in Int
  BY <1>1 DEF LowOf
<1>5. ~(i > 1) => LowOf(keys, l, i) = l
  BY <1>1 DEF LowOf
<1>6. i <= n => HighOf(keys, h, i) = {keys[i]} /\ keys[i] \in Int
  BY <1>1 DEF HighOf
<1>7. ~(i <= n) => HighOf(keys, h, i) = h
  BY <1>1 DEF HighOf
<1>8. ASSUME InRange(k, LowOf(keys, l, i), HighOf(keys, h, i))
      PROVE  InRange(k, l, h)
  <2>1. ASSUME NEW b \in l PROVE b <= k
    <3>1. CASE i > 1
      <4>1. keys[i - 1] <= k
        BY <1>4, <1>8, <3>1 DEF InRange
      <4> QED
        BY <1>1, <1>2, <1>4, <3>1, <4>1
    <3>2. CASE ~(i > 1)
      BY <1>5, <1>8, <3>2 DEF InRange
    <3> QED
      BY <3>1, <3>2
  <2>2. ASSUME NEW b \in h PROVE k < b
    <3>1. CASE i <= n
      <4>1. k < keys[i]
        BY <1>6, <1>8, <3>1 DEF InRange
      <4> QED
        BY <1>1, <1>3, <1>6, <3>1, <4>1
    <3>2. CASE ~(i <= n)
      BY <1>7, <1>8, <3>2 DEF InRange
    <3> QED
      BY <3>1, <3>2
  <2> QED
    BY <2>1, <2>2 DEF InRange
<1>9. ASSUME Between(k, LowOf(keys, l, i), HighOf(keys, h, i))
      PROVE  /\ Between(k, l, h) /\ InRange(k, l, h)
             /\ i > 1 => keys[i - 1] < k
             /\ i <= n => k < keys[i]
  <2>1. i > 1 => keys[i - 1] < k
    BY <1>4, <1>9 DEF Between
  <2>2. i <= n => k < keys[i]
    BY <1>6, <1>9 DEF Between
  <2>3. ASSUME NEW b \in l PROVE b < k
    <3>1. CASE i > 1
      BY <1>1, <1>2, <1>4, <2>1, <3>1
    <3>2. CASE ~(i > 1)
      BY <1>5, <1>9, <3>2 DEF Between
    <3> QED
      BY <3>1, <3>2
  <2>4. ASSUME NEW b \in h PROVE k < b
    <3>1. CASE i <= n
      BY <1>1, <1>3, <1>6, <2>2, <3>1
    <3>2. CASE ~(i <= n)
      BY <1>7, <1>9, <3>2 DEF Between
    <3> QED
      BY <3>1, <3>2
  <2>5. \A b \in l : b <= k
    BY <1>1, <2>3
  <2> QED
    BY <2>1, <2>2, <2>3, <2>4, <2>5 DEF Between, InRange
<1> QED
  BY <1>8, <1>9 DEF keys

(* A child linked in beside child i, whose range is cut at k: the new child *)
(* owns the upper part.                                                     *)
LinksNew(p, l, h, lo, out, i, k, a, c, pn, newLo, newOut) ==
    /\ Parented(p, l, h, lo, out)
    /\ i \in 1 .. Len(p.children) /\ a = p.children[i]
    /\ k \in Key /\ Between(k, lo[a], out[a])
    /\ c \in NodeId /\ c \notin NodeKids(p)
    /\ pn = Internal(InsertAt(p.keys, i, k), InsertAt(p.children, i + 1, c))
    /\ newLo[a] = lo[a] /\ newOut[a] = {k}
    /\ newLo[c] = {k} /\ newOut[c] = out[a]
    /\ \A x \in NodeKids(p) : x # a => newLo[x] = lo[x] /\ newOut[x] = out[x]

(* A split's right half gets the slot after its left half.                  *)
LEMMA LinkPlaced ==
    ASSUME NEW p, NEW l, NEW h, NEW lo, NEW out, NEW i, NEW k, NEW a, NEW c,
           NEW pn, NEW newLo, NEW newOut,
           LinksNew(p, l, h, lo, out, i, k, a, c, pn, newLo, newOut)
    PROVE  NodePlaced(pn, l, h, newLo, newOut)
<1> SUFFICES ASSUME Parented(p, l, h, lo, out),
                    i \in 1 .. Len(p.children), k \in Key,
                    c \in NodeId, c \notin NodeKids(p),
                    a = p.children[i], Between(k, lo[a], out[a]),
                    pn = Internal(InsertAt(p.keys, i, k), InsertAt(p.children, i + 1, c)),
                    newLo[c] = {k}, newOut[c] = out[a], newLo[a] = lo[a], newOut[a] = {k},
                    \A x \in NodeKids(p) : x # a => newLo[x] = lo[x] /\ newOut[x] = out[x]
             PROVE  NodePlaced(pn, l, h, newLo, newOut)
  BY DEF LinksNew
<1> DEFINE keys == p.keys
           kids == p.children
           n == Len(keys)
           nk == InsertAt(keys, i, k)
           nc == InsertAt(kids, i + 1, c)
<1>1. /\ keys \in Seq(Key) /\ kids \in Seq(NodeId) /\ n \in Nat
      /\ Len(kids) = n + 1
      /\ \A j \in 1 .. n : keys[j] \in Int /\ Between(keys[j], l, h)
      /\ \A x, y \in 1 .. n + 1 : kids[x] = kids[y] => x = y
      /\ \A x \in 1 .. n + 1 : /\ kids[x] \in NodeKids(p)
                              /\ lo[kids[x]] = LowOf(keys, l, x)
                              /\ out[kids[x]] = HighOf(keys, h, x)
      /\ KeysPlaced(keys, l, h)
  BY ParentFacts
<1>2. l \in SUBSET Key /\ h \in SUBSET Key
  BY DEF Parented
<1>3. i \in 1 .. n + 1 /\ i + 1 \in 1 .. Len(kids) + 1 /\ i \in Nat /\ n \in Nat
  BY <1>1
<1>4. /\ Between(k, l, h) /\ InRange(k, l, h)
      /\ i > 1 => keys[i - 1] < k
      /\ i <= n => k < keys[i]
  <2>1. Between(k, LowOf(keys, l, i), HighOf(keys, h, i))
    BY <1>1, <1>3
  <2> QED
    BY <1>3, <2>1, SlotInside
<1>8. pn.keys = nk /\ pn.children = nc
  BY DEF Internal
<1>9. a = kids[i] /\ n + 2 = n + 1 + 1
  BY <1>1 DEF kids
<1> HIDE DEF keys, kids
<1>5. KeysPlaced(nk, l, h)
  BY <1>1, <1>2, <1>3, <1>4, InsertPlaced
<1>6. /\ Len(nk) = n + 1
      /\ \A j \in 1 .. n + 1 : nk[j] = IF j < i THEN keys[j] ELSE IF j = i THEN k ELSE keys[j - 1]
  <2>1. keys \in Seq(Key) /\ k \in Key /\ i \in 1 .. Len(keys) + 1
    BY <1>1, <1>3
  <2> QED
    BY ONLY <2>1, InsertAtElements DEF n, nk
<1>7. /\ Len(nc) = n + 2
      /\ \A j \in 1 .. n + 2 : nc[j] = IF j < i + 1 THEN kids[j]
                                      ELSE IF j = i + 1 THEN c ELSE kids[j - 1]
  <2>1. /\ Len(nc) = Len(kids) + 1
        /\ \A j \in 1 .. Len(kids) + 1 : nc[j] = IF j < i + 1 THEN kids[j]
                                              ELSE IF j = i + 1 THEN c ELSE kids[j - 1]
    <3>1. kids \in Seq(NodeId) /\ c \in NodeId
      BY <1>1
    <3> QED
      BY <1>3, <3>1, InsertAtElements, SMTT(30)
  <2>2. Len(kids) + 1 = n + 2
    BY <1>1
  <2> QED
    BY <2>1, <2>2
<1> HIDE DEF nk, nc
<1>10. ASSUME NEW j \in 1 .. n + 1 PROVE Between(nk[j], l, h)
  <2>1. \/ j < i /\ j \in 1 .. n /\ nk[j] = keys[j]
        \/ nk[j] = k
        \/ j - 1 \in 1 .. n /\ nk[j] = keys[j - 1]
    BY <1>1, <1>3, <1>6
  <2> QED
    BY <1>1, <1>4, <2>1
<1>11. ASSUME NEW j \in 1 .. n + 2
       PROVE  newLo[nc[j]] = LowOf(nk, l, j) /\ newOut[nc[j]] = HighOf(nk, h, j)
  <2>1. CASE j < i
    <3>1. /\ j \in 1 .. n + 1 /\ j < i + 1 /\ j # i /\ j \in 1 .. n /\ j # n + 2 /\ j # n + 1
          /\ j # 1 => j - 1 \in 1 .. n /\ j - 1 \in 1 .. n + 1 /\ j - 1 < i
      BY <1>3, <2>1
    <3>2. nc[j] = kids[j] /\ kids[j] # a
      BY <1>1, <1>3, <1>7, <1>9, <3>1
    <3>3. newLo[nc[j]] = LowOf(keys, l, j) /\ newOut[nc[j]] = HighOf(keys, h, j)
      BY <1>1, <3>1, <3>2
    <3>4. LowOf(nk, l, j) = LowOf(keys, l, j)
      BY <1>6, <3>1 DEF LowOf
    <3>5. HighOf(nk, h, j) = HighOf(keys, h, j)
      BY <1>6, <1>9, <2>1, <3>1 DEF HighOf
    <3> QED
      BY <3>3, <3>4, <3>5
  <2>2. CASE j = i
    <3>1. /\ j \in 1 .. n + 1 /\ j < i + 1 /\ j # n + 2
          /\ j # 1 => j - 1 \in 1 .. n /\ j - 1 \in 1 .. n + 1 /\ j - 1 < i
      BY <1>3, <2>2
    <3>2. nc[j] = a
      BY <1>7, <1>9, <2>2, <3>1
    <3>3. newLo[nc[j]] = LowOf(keys, l, j) /\ newOut[nc[j]] = {k}
      BY <1>1, <1>9, <2>2, <3>1, <3>2
    <3>4. LowOf(nk, l, j) = LowOf(keys, l, j)
      BY <1>6, <3>1 DEF LowOf
    <3>5. HighOf(nk, h, j) = {k}
      BY <1>6, <1>9, <2>2, <3>1 DEF HighOf
    <3> QED
      BY <3>3, <3>4, <3>5
  <2>3. CASE j = i + 1
    <3>1. /\ j # 1 /\ j - 1 = i /\ ~(j < i + 1) /\ ~(i < i)
          /\ j = n + 2 <=> i = n + 1
          /\ j # n + 2 => j \in 1 .. n + 1 /\ ~(j < i) /\ j # i /\ i \in 1 .. n
      BY <1>3, <2>3
    <3>2. nc[j] = c
      BY <1>7, <2>3, <3>1
    <3>3. newLo[nc[j]] = {k} /\ newOut[nc[j]] = HighOf(keys, h, i)
      BY <1>1, <1>3, <1>9, <3>2
    <3>4. LowOf(nk, l, j) = {k}
      BY <1>3, <1>6, <3>1 DEF LowOf
    <3>5. HighOf(nk, h, j) = HighOf(keys, h, i)
      BY <1>6, <1>9, <3>1 DEF HighOf
    <3> QED
      BY <3>3, <3>4, <3>5
  <2>4. CASE j > i + 1
    <3>1. /\ j - 1 \in 1 .. n + 1 /\ ~(j < i + 1) /\ j # i + 1 /\ j - 1 # i
          /\ j # 1 /\ j - 1 # 1 /\ ~(j - 1 < i)
          /\ (j - 1) - 1 \in 1 .. n
          /\ j = n + 2 <=> j - 1 = n + 1
          /\ j # n + 2 => j \in 1 .. n + 1 /\ ~(j < i) /\ j # i /\ j - 1 \in 1 .. n
      BY <1>3, <2>4
    <3>2. nc[j] = kids[j - 1] /\ kids[j - 1] # a
      BY <1>1, <1>3, <1>7, <1>9, <3>1
    <3>3. newLo[nc[j]] = LowOf(keys, l, j - 1) /\ newOut[nc[j]] = HighOf(keys, h, j - 1)
      BY <1>1, <3>1, <3>2
    <3>4. LowOf(nk, l, j) = LowOf(keys, l, j - 1)
      BY <1>6, <3>1 DEF LowOf
    <3>5. HighOf(nk, h, j) = HighOf(keys, h, j - 1)
      BY <1>6, <1>9, <3>1 DEF HighOf
    <3> QED
      BY <3>3, <3>4, <3>5
  <2> QED
    BY <1>3, <2>1, <2>2, <2>3, <2>4
<1>12. KidsPlaced(pn, l, h, newLo, newOut)
  BY <1>6, <1>7, <1>8, <1>10, <1>11 DEF KidsPlaced
<1> QED
  BY <1>5, <1>8, <1>12 DEF NodePlaced

(* Another separator between child i and the next: it moves the border      *)
(* between the two and nothing else.                                        *)
MovesSeparator(p, l, h, lo, out, i, k, a, b, pn, newLo, newOut) ==
    /\ Parented(p, l, h, lo, out)
    /\ i \in 1 .. Len(p.keys) /\ a = p.children[i] /\ b = p.children[i + 1]
    /\ k \in Key /\ Between(k, LowOf(p.keys, l, i), HighOf(p.keys, h, i + 1))
    /\ pn = Internal(ReplaceAt(p.keys, i, k), p.children)
    /\ newLo[a] = lo[a] /\ newOut[a] = {k}
    /\ newLo[b] = {k} /\ newOut[b] = out[b]
    /\ \A x \in NodeKids(p) : x \notin {a, b} => newLo[x] = lo[x] /\ newOut[x] = out[x]

(* A separator moves: two neighbouring slots change.                        *)
LEMMA SeparatorPlaced ==
    ASSUME NEW p, NEW l, NEW h, NEW lo, NEW out, NEW i, NEW k, NEW a, NEW b,
           NEW pn, NEW newLo, NEW newOut,
           MovesSeparator(p, l, h, lo, out, i, k, a, b, pn, newLo, newOut)
    PROVE  NodePlaced(pn, l, h, newLo, newOut)
<1> SUFFICES ASSUME Parented(p, l, h, lo, out), i \in 1 .. Len(p.keys), k \in Key,
                    Between(k, LowOf(p.keys, l, i), HighOf(p.keys, h, i + 1)),
                    pn = Internal(ReplaceAt(p.keys, i, k), p.children),
                    a = p.children[i], b = p.children[i + 1],
                    newLo[a] = lo[a], newOut[a] = {k}, newLo[b] = {k}, newOut[b] = out[b],
                    \A x \in NodeKids(p) : x \notin {a, b} => newLo[x] = lo[x] /\ newOut[x] = out[x]
             PROVE  NodePlaced(pn, l, h, newLo, newOut)
  BY DEF MovesSeparator
<1> DEFINE keys == p.keys
           kids == p.children
           n == Len(keys)
           nk == ReplaceAt(keys, i, k)
<1>1. /\ keys \in Seq(Key) /\ n \in Nat
      /\ Len(kids) = n + 1
      /\ \A j \in 1 .. n : keys[j] \in Int /\ Between(keys[j], l, h) /\ InRange(keys[j], l, h)
      /\ \A x, y \in 1 .. n : x < y => keys[x] < keys[y]
      /\ \A x, y \in 1 .. n + 1 : kids[x] = kids[y] => x = y
      /\ \A x \in 1 .. n + 1 : /\ kids[x] \in NodeKids(p)
                              /\ lo[kids[x]] = LowOf(keys, l, x)
                              /\ out[kids[x]] = HighOf(keys, h, x)
  BY ParentFacts DEF KeysPlaced
<1>2. l \in SUBSET Key /\ h \in SUBSET Key /\ k \in Int
  BY KeyAssumption DEF Parented
<1>3. i \in 1 .. n /\ i \in Nat /\ n \in Nat /\ i \in 1 .. n + 1 /\ i + 1 \in 1 .. n + 1
      /\ ~(i + 1 = 1) /\ i + 1 - 1 = i /\ i # n + 1 /\ (i + 1 <= n => i + 1 # n + 1)
  BY <1>1
<1>4. /\ pn.keys = nk /\ pn.children = kids
      /\ a = kids[i] /\ b = kids[i + 1]
  BY DEF Internal
<1>0. Between(k, LowOf(keys, l, i), HighOf(keys, h, i + 1))
  OBVIOUS
<1> HIDE DEF keys, kids
<1>5. ASSUME i > 1 PROVE keys[i - 1] < k
  <2>1. LowOf(keys, l, i) = {keys[i - 1]}
    BY <1>5 DEF LowOf
  <2> QED
    BY <1>0, <2>1 DEF Between
<1>6. ASSUME i < n PROVE k < keys[i + 1]
  <2>1. HighOf(keys, h, i + 1) = {keys[i + 1]}
    BY <1>3, <1>6 DEF HighOf
  <2> QED
    BY <1>0, <2>1 DEF Between
<1>7. /\ nk \in Seq(Key) /\ Len(nk) = n
      /\ \A j \in 1 .. n : nk[j] = IF j = i THEN k ELSE keys[j]
  BY <1>1, <1>3, ReplaceAtElements
<1> HIDE DEF nk, n
<1>8. Between(k, l, h) /\ InRange(k, l, h)
  <2>1. ASSUME NEW x \in l PROVE x < k
    <3>1. CASE i > 1
      <4>1. i - 1 \in 1 .. n
        BY <1>3, <3>1
      <4>2. x < keys[i - 1] /\ keys[i - 1] \in Int /\ x \in Int
        BY <1>1, <1>2, <4>1, KeyAssumption DEF Between
      <4> QED
        BY <1>2, <1>5, <3>1, <4>2
    <3>2. CASE ~(i > 1)
      <4>1. LowOf(keys, l, i) = l
        BY <1>3, <3>2 DEF LowOf
      <4> QED
        BY <4>1 DEF Between, keys
    <3> QED
      BY <3>1, <3>2
  <2>2. ASSUME NEW x \in h PROVE k < x
    <3>1. CASE i < n
      <4>1. i + 1 \in 1 .. n
        BY <1>3, <3>1
      <4>2. keys[i + 1] < x /\ keys[i + 1] \in Int /\ x \in Int
        BY <1>1, <1>2, <4>1, KeyAssumption DEF Between
      <4> QED
        BY <1>2, <1>6, <3>1, <4>2
    <3>2. CASE ~(i < n)
      <4>1. HighOf(keys, h, i + 1) = h
        BY <1>3, <3>2 DEF HighOf, n
      <4> QED
        BY <4>1 DEF Between, keys
    <3> QED
      BY <3>1, <3>2
  <2>3. \A x \in l : x <= k
    BY <1>2, <2>1, KeyAssumption
  <2> QED
    BY <2>1, <2>2, <2>3 DEF Between, InRange
<1>9. ASSUME NEW x \in 1 .. n, NEW y \in 1 .. n, x < y PROVE nk[x] < nk[y]
  <2>1. CASE x = i
    <3>1. i < n /\ i + 1 \in 1 .. n /\ (y = i + 1 \/ i + 1 < y) /\ y # i
      BY <1>3, <1>9, <2>1
    <3>2. k < keys[i + 1] /\ keys[i + 1] \in Int /\ keys[y] \in Int
          /\ (y = i + 1 \/ keys[i + 1] < keys[y])
      BY <1>1, <1>6, <3>1
    <3> QED
      BY <1>2, <1>7, <2>1, <3>1, <3>2
  <2>2. CASE y = i
    <3>1. i > 1 /\ i - 1 \in 1 .. n /\ (x = i - 1 \/ x < i - 1) /\ x # i
      BY <1>3, <1>9, <2>2
    <3>2. keys[i - 1] < k /\ keys[i - 1] \in Int /\ keys[x] \in Int
          /\ (x = i - 1 \/ keys[x] < keys[i - 1])
      BY <1>1, <1>5, <3>1
    <3> QED
      BY <1>2, <1>7, <2>2, <3>1, <3>2
  <2>3. CASE x # i /\ y # i
    BY <1>1, <1>7, <1>9, <2>3
  <2> QED
    BY <2>1, <2>2, <2>3
<1>10. KeysPlaced(nk, l, h)
  <2>1. \A j \in 1 .. n : InRange(nk[j], l, h)
    BY <1>1, <1>7, <1>8
  <2> QED
    BY <1>7, <1>9, <2>1, KeysAreOrdered DEF KeysPlaced
<1>11. \A j \in 1 .. n : Between(nk[j], l, h)
  BY <1>1, <1>7, <1>8
<1>12. ASSUME NEW j \in 1 .. n + 1
       PROVE  newLo[kids[j]] = LowOf(nk, l, j) /\ newOut[kids[j]] = HighOf(nk, h, j)
  <2>1. j # 1 => j - 1 \in 1 .. n
    BY <1>3
  <2>2. j # n + 1 => j \in 1 .. n
    BY <1>3
  <2>3. CASE j = i
    <3>1. LowOf(nk, l, j) = LowOf(keys, l, j)
      <4>1. j # 1 => j - 1 # i
        BY <1>3, <2>3
      <4> QED
        BY <1>7, <2>1, <4>1 DEF LowOf
    <3>2. HighOf(nk, h, j) = {k}
      BY <1>3, <1>7, <2>3 DEF HighOf
    <3> QED
      BY <1>1, <1>4, <2>3, <3>1, <3>2
  <2>4. CASE j = i + 1
    <3>1. LowOf(nk, l, j) = {k}
      BY <1>3, <1>7, <2>4 DEF LowOf
    <3>2. HighOf(nk, h, j) = HighOf(keys, h, j)
      <4>1. j # i
        BY <1>3, <2>4
      <4> QED
        BY <1>7, <2>2, <4>1 DEF HighOf, n
    <3> QED
      BY <1>1, <1>4, <2>4, <3>1, <3>2
  <2>5. CASE j # i /\ j # i + 1
    <3>1. j # 1 => j - 1 # i
      BY <1>3, <2>5
    <3>2. LowOf(nk, l, j) = LowOf(keys, l, j)
      BY <1>7, <2>1, <3>1 DEF LowOf
    <3>3. HighOf(nk, h, j) = HighOf(keys, h, j)
      BY <1>7, <2>2, <2>5 DEF HighOf, n
    <3>4. kids[j] \notin {a, b} /\ kids[j] \in NodeKids(p)
      BY <1>1, <1>3, <1>4, <2>5
    <3> QED
      BY <1>1, <3>2, <3>3, <3>4
  <2> QED
    BY <2>3, <2>4, <2>5
<1>13. KidsPlaced(pn, l, h, newLo, newOut)
  BY <1>1, <1>4, <1>7, <1>11, <1>12 DEF KidsPlaced
<1> QED
  BY <1>4, <1>10, <1>13 DEF NodePlaced

(* Child i + 1 unlinked, with the separator before it: child i takes over   *)
(* its range.                                                               *)
UnlinksNext(p, l, h, lo, out, i, a, b, pn, newLo, newOut) ==
    /\ Parented(p, l, h, lo, out)
    /\ i \in 1 .. Len(p.keys) /\ a = p.children[i] /\ b = p.children[i + 1]
    /\ pn = Internal(RemoveAt(p.keys, i), RemoveAt(p.children, i + 1))
    /\ newLo[a] = lo[a] /\ newOut[a] = out[b]
    /\ \A x \in NodeKids(p) : x \notin {a, b} => newLo[x] = lo[x] /\ newOut[x] = out[x]

(* Two neighbouring slots become one.                                       *)
LEMMA UnlinkPlaced ==
    ASSUME NEW p, NEW l, NEW h, NEW lo, NEW out, NEW i, NEW a, NEW b,
           NEW pn, NEW newLo, NEW newOut,
           UnlinksNext(p, l, h, lo, out, i, a, b, pn, newLo, newOut)
    PROVE  NodePlaced(pn, l, h, newLo, newOut)
<1> SUFFICES ASSUME Parented(p, l, h, lo, out), i \in 1 .. Len(p.keys),
                    pn = Internal(RemoveAt(p.keys, i), RemoveAt(p.children, i + 1)),
                    a = p.children[i], b = p.children[i + 1],
                    newLo[a] = lo[a], newOut[a] = out[b],
                    \A x \in NodeKids(p) : x \notin {a, b} => newLo[x] = lo[x] /\ newOut[x] = out[x]
             PROVE  NodePlaced(pn, l, h, newLo, newOut)
  BY DEF UnlinksNext
<1> DEFINE keys == p.keys
           kids == p.children
           n == Len(keys)
           nk == RemoveAt(keys, i)
           nc == RemoveAt(kids, i + 1)
<1>1. /\ keys \in Seq(Key) /\ kids \in Seq(NodeId) /\ n \in Nat
      /\ Len(kids) = n + 1
      /\ \A j \in 1 .. n : Between(keys[j], l, h)
      /\ KeysPlaced(keys, l, h)
      /\ \A x, y \in 1 .. n + 1 : kids[x] = kids[y] => x = y
      /\ \A x \in 1 .. n + 1 : /\ kids[x] \in NodeKids(p)
                              /\ lo[kids[x]] = LowOf(keys, l, x)
                              /\ out[kids[x]] = HighOf(keys, h, x)
  BY ParentFacts
<1>2. l \in SUBSET Key /\ h \in SUBSET Key
  BY DEF Parented
<1>3. i \in 1 .. n /\ i \in Nat /\ n \in Nat /\ i \in 1 .. n + 1 /\ i + 1 \in 1 .. n + 1
      /\ i + 1 \in 1 .. Len(kids)
  BY <1>1
<1>4. /\ pn.keys = nk /\ pn.children = nc
      /\ a = kids[i] /\ b = kids[i + 1]
  BY DEF Internal
<1> HIDE DEF keys, kids
<1>5. KeysPlaced(nk, l, h)
  BY <1>1, <1>2, <1>3, RemovePlaced
<1>6. /\ Len(nk) = n - 1
      /\ \A j \in 1 .. n - 1 : nk[j] = IF j < i THEN keys[j] ELSE keys[j + 1]
  BY <1>1, <1>3, RemoveAtElements
<1>7. /\ Len(nc) = n
      /\ \A j \in 1 .. n : nc[j] = IF j < i + 1 THEN kids[j] ELSE kids[j + 1]
  <2>1. /\ Len(nc) = Len(kids) - 1
        /\ \A j \in 1 .. Len(kids) - 1 : nc[j] = IF j < i + 1 THEN kids[j] ELSE kids[j + 1]
    <3>1. kids \in Seq(NodeId)
      BY <1>1
    <3> QED
      BY <1>3, <3>1, RemoveAtElements
  <2>2. Len(kids) - 1 = n
    BY <1>1
  <2> QED
    BY <2>1, <2>2
<1> HIDE DEF nk, nc, n
<1>8. \A j \in 1 .. n - 1 : Between(nk[j], l, h)
  <2> TAKE j \in 1 .. n - 1
  <2>1. j \in 1 .. n /\ j + 1 \in 1 .. n
    BY <1>3
  <2> QED
    BY <1>1, <1>6, <2>1
<1>9. ASSUME NEW j \in 1 .. n
      PROVE  newLo[nc[j]] = LowOf(nk, l, j) /\ newOut[nc[j]] = HighOf(nk, h, j)
  <2>1. n - 1 + 1 = n /\ Len(nk) + 1 = n /\ n = Len(keys)
    BY <1>3, <1>6 DEF n
  <2>2. CASE j < i
    <3>1. /\ j \in 1 .. n + 1 /\ j < i + 1 /\ j # i /\ j # i + 1 /\ j # n /\ j # n + 1
          /\ j \in 1 .. n - 1
          /\ j # 1 => j - 1 \in 1 .. n - 1 /\ j - 1 < i
      BY <1>3, <2>2
    <3>2. nc[j] = kids[j] /\ kids[j] \notin {a, b} /\ kids[j] \in NodeKids(p)
      BY <1>1, <1>3, <1>4, <1>7, <3>1
    <3>3. LowOf(nk, l, j) = LowOf(keys, l, j)
      BY <1>6, <3>1 DEF LowOf
    <3>4. HighOf(nk, h, j) = HighOf(keys, h, j)
      BY <1>6, <2>1, <2>2, <3>1 DEF HighOf
    <3> QED
      BY <1>1, <3>1, <3>2, <3>3, <3>4
  <2>3. CASE j = i
    <3>1. /\ j \in 1 .. n + 1 /\ j < i + 1 /\ ~(j < i)
          /\ j # 1 => j - 1 \in 1 .. n - 1 /\ j - 1 < i
          /\ j # n => j \in 1 .. n - 1
          /\ j = n <=> i + 1 = n + 1
      BY <1>3, <2>3
    <3>2. nc[j] = a
      BY <1>4, <1>7, <2>3, <3>1
    <3>3. LowOf(nk, l, j) = LowOf(keys, l, j)
      BY <1>6, <3>1 DEF LowOf
    <3>4. HighOf(nk, h, j) = HighOf(keys, h, i + 1)
      BY <1>6, <2>1, <2>3, <3>1 DEF HighOf
    <3> QED
      BY <1>1, <1>3, <1>4, <2>3, <3>2, <3>3, <3>4
  <2>4. CASE j > i
    <3>1. /\ j + 1 \in 1 .. n + 1 /\ ~(j < i + 1) /\ ~(j < i)
          /\ j + 1 # i /\ j + 1 # i + 1 /\ j # 1 /\ j + 1 # 1
          /\ j - 1 \in 1 .. n - 1 /\ ~(j - 1 < i) /\ (j - 1) + 1 = j /\ (j + 1) - 1 = j
          /\ j # n => j \in 1 .. n - 1
          /\ j = n <=> j + 1 = n + 1
      BY <1>3, <2>4
    <3>2. nc[j] = kids[j + 1] /\ kids[j + 1] \notin {a, b} /\ kids[j + 1] \in NodeKids(p)
      BY <1>1, <1>3, <1>4, <1>7, <3>1
    <3>3. LowOf(nk, l, j) = LowOf(keys, l, j + 1)
      BY <1>6, <3>1 DEF LowOf
    <3>4. HighOf(nk, h, j) = HighOf(keys, h, j + 1)
      BY <1>6, <2>1, <3>1 DEF HighOf
    <3> QED
      BY <1>1, <3>1, <3>2, <3>3, <3>4
  <2> QED
    BY <1>3, <2>2, <2>3, <2>4
<1>10. KidsPlaced(pn, l, h, newLo, newOut)
  BY <1>4, <1>6, <1>7, <1>8, <1>9 DEF KidsPlaced
<1> QED
  BY <1>4, <1>5, <1>10 DEF NodePlaced

(* Lists put together in ascending order.                                   *)
LEMMA JoinPlaced ==
    ASSUME NEW s \in Seq(Key), NEW t \in Seq(Key), NEW l \in SUBSET Key, NEW h \in SUBSET Key,
           KeysPlaced(s, l, h), KeysPlaced(t, l, h),
           \A x \in 1 .. Len(s), y \in 1 .. Len(t) : s[x] < t[y]
    PROVE  KeysPlaced(s \o t, l, h)
<1> DEFINE u == s \o t
           m == Len(s)
           n == Len(t)
<1>1. /\ u \in Seq(Key) /\ Len(u) = m + n
      /\ \A j \in 1 .. m + n : u[j] = IF j <= m THEN s[j] ELSE t[j - m]
  BY ConcatProperties
<1>2. /\ m \in Nat /\ n \in Nat
      /\ \A j \in 1 .. m : s[j] \in Int /\ InRange(s[j], l, h)
      /\ \A j \in 1 .. n : t[j] \in Int /\ InRange(t[j], l, h)
      /\ \A a, b \in 1 .. m : a < b => s[a] < s[b]
      /\ \A a, b \in 1 .. n : a < b => t[a] < t[b]
  BY KeysAreOrdered DEF KeysPlaced
<1>3. \A x \in 1 .. m, y \in 1 .. n : s[x] < t[y]
  OBVIOUS
<1> HIDE DEF u, m, n
<1>4. \A j \in 1 .. m + n : \/ j <= m /\ j \in 1 .. m /\ u[j] = s[j]
                            \/ ~(j <= m) /\ j - m \in 1 .. n /\ u[j] = t[j - m]
  BY <1>1, <1>2
<1>5. ASSUME NEW a \in 1 .. m + n, NEW b \in 1 .. m + n, a < b PROVE u[a] < u[b]
  <2>1. CASE b <= m
    <3>1. a <= m
      BY <1>2, <1>5, <2>1
    <3> QED
      BY <1>2, <1>4, <1>5, <2>1, <3>1
  <2>2. CASE a <= m /\ ~(b <= m)
    BY <1>3, <1>4, <2>2
  <2>3. CASE ~(a <= m)
    <3>1. ~(b <= m) /\ a - m < b - m
      BY <1>2, <1>5, <2>3
    <3> QED
      BY <1>2, <1>4, <2>3, <3>1
  <2> QED
    BY <2>1, <2>2, <2>3
<1>6. \A j \in 1 .. m + n : InRange(u[j], l, h)
  BY <1>2, <1>4
<1> QED
  BY <1>1, <1>5, <1>6, KeysAreOrdered DEF KeysPlaced, u

(* A child comes in at the front,                                           *)
LEMMA ConsPlaced ==
    ASSUME NEW s \in Seq(Key), NEW k \in Key, NEW l \in SUBSET Key, NEW h \in SUBSET Key,
           KeysPlaced(s, l, h), InRange(k, l, h), \A y \in 1 .. Len(s) : k < s[y]
    PROVE  KeysPlaced(Cons(k, s), l, h)
<1> DEFINE u == Cons(k, s)
           n == Len(s)
<1>1. /\ u \in Seq(Key) /\ Len(u) = n + 1
      /\ \A j \in 1 .. n + 1 : u[j] = IF j = 1 THEN k ELSE s[j - 1]
  BY ConsElements
<1>2. /\ n \in Nat
      /\ \A j \in 1 .. n : s[j] \in Int /\ InRange(s[j], l, h) /\ k < s[j]
      /\ \A a, b \in 1 .. n : a < b => s[a] < s[b]
  BY KeysAreOrdered DEF KeysPlaced
<1> HIDE DEF u, n
<1>3. \A j \in 1 .. n + 1 : \/ j = 1 /\ u[j] = k
                            \/ j # 1 /\ j - 1 \in 1 .. n /\ u[j] = s[j - 1]
  BY <1>1, <1>2
<1>4. ASSUME NEW a \in 1 .. n + 1, NEW b \in 1 .. n + 1, a < b PROVE u[a] < u[b]
  <2>1. b # 1 /\ (a # 1 => a - 1 < b - 1)
    BY <1>2, <1>4
  <2> QED
    BY <1>2, <1>3, <2>1
<1>5. \A j \in 1 .. n + 1 : InRange(u[j], l, h)
  BY <1>2, <1>3
<1> QED
  BY <1>1, <1>4, <1>5, KeysAreOrdered DEF KeysPlaced, u

(* or at the end.                                                           *)
LEMMA AppendPlaced ==
    ASSUME NEW s \in Seq(Key), NEW k \in Key, NEW l \in SUBSET Key, NEW h \in SUBSET Key,
           KeysPlaced(s, l, h), InRange(k, l, h), \A y \in 1 .. Len(s) : s[y] < k
    PROVE  KeysPlaced(Append(s, k), l, h)
<1> DEFINE u == Append(s, k)
           n == Len(s)
<1>1. /\ u \in Seq(Key) /\ Len(u) = n + 1
      /\ \A j \in 1 .. n + 1 : u[j] = IF j <= n THEN s[j] ELSE k
  BY AppendElements
<1>2. /\ n \in Nat
      /\ \A j \in 1 .. n : s[j] \in Int /\ InRange(s[j], l, h) /\ s[j] < k
      /\ \A a, b \in 1 .. n : a < b => s[a] < s[b]
  BY KeysAreOrdered DEF KeysPlaced
<1> HIDE DEF u, n
<1>3. \A j \in 1 .. n + 1 : \/ ~(j <= n) /\ u[j] = k
                            \/ j <= n /\ j \in 1 .. n /\ u[j] = s[j]
  BY <1>1, <1>2
<1>4. ASSUME NEW a \in 1 .. n + 1, NEW b \in 1 .. n + 1, a < b PROVE u[a] < u[b]
  <2>1. a <= n
    BY <1>2, <1>4
  <2> QED
    BY <1>2, <1>3, <1>4, <2>1
<1>5. \A j \in 1 .. n + 1 : InRange(u[j], l, h)
  BY <1>2, <1>3
<1> QED
  BY <1>1, <1>4, <1>5, KeysAreOrdered DEF KeysPlaced, u

(* A range may be widened.                                                  *)
LEMMA WidenPlaced ==
    ASSUME NEW s \in Seq(Key), NEW l \in SUBSET Key, NEW h \in SUBSET Key, NEW m \in Key
    PROVE  /\ KeysPlaced(s, l, {m}) /\ (\A b \in h : m < b) => KeysPlaced(s, l, h)
           /\ KeysPlaced(s, {m}, h) /\ (\A b \in l : b < m) => KeysPlaced(s, l, h)
<1>1. /\ \A j \in 1 .. Len(s) : s[j] \in Int
      /\ m \in Int /\ \A b \in l \cup h : b \in Int
  BY KeysAreOrdered, KeyAssumption
<1>2. ASSUME KeysPlaced(s, l, {m}), \A b \in h : m < b, NEW j \in 1 .. Len(s)
      PROVE  InRange(s[j], l, h)
  <2>1. InRange(s[j], l, {m})
    BY <1>2 DEF KeysPlaced
  <2> QED
    BY <1>1, <1>2, <2>1 DEF InRange
<1>3. ASSUME KeysPlaced(s, {m}, h), \A b \in l : b < m, NEW j \in 1 .. Len(s)
      PROVE  InRange(s[j], l, h)
  <2>1. InRange(s[j], {m}, h)
    BY <1>3 DEF KeysPlaced
  <2> QED
    BY <1>1, <1>3, <2>1 DEF InRange
<1> QED
  BY <1>2, <1>3 DEF KeysPlaced

(* Two neighbours under a parent: sep is the border between their ranges.   *)
Neighbours(l, r, sep, ll, rh, lo, out) ==
    /\ l \in AnyNode /\ r \in AnyNode /\ ShapeOK(l) /\ ShapeOK(r)
    /\ IsLeaf(l) <=> IsLeaf(r)
    /\ sep \in Key /\ ll \in SUBSET Key /\ rh \in SUBSET Key
    /\ Between(sep, ll, rh)
    /\ NodePlaced(l, ll, {sep}, lo, out)
    /\ NodePlaced(r, {sep}, rh, lo, out)

(* Two neighbours below one parent meet at their separator.                 *)
LEMMA NeighbourFacts ==
    ASSUME NEW l, NEW r, NEW sep, NEW ll, NEW rh, NEW lo, NEW out,
           Neighbours(l, r, sep, ll, rh, lo, out)
    PROVE  /\ l.keys \in Seq(Key) /\ r.keys \in Seq(Key)
           /\ Len(l.keys) \in Nat /\ Len(r.keys) \in Nat
           /\ KeysLen(l) = Len(l.keys) /\ KeysLen(r) = Len(r.keys)
           /\ sep \in Key /\ sep \in Int /\ {sep} \in SUBSET Key
           /\ ll \in SUBSET Key /\ rh \in SUBSET Key
           /\ \A b \in ll : b \in Int /\ b < sep
           /\ \A b \in rh : b \in Int /\ sep < b
           /\ KeysPlaced(l.keys, ll, {sep}) /\ KeysPlaced(r.keys, {sep}, rh)
           /\ \A j \in 1 .. Len(l.keys) : /\ l.keys[j] \in Key /\ l.keys[j] \in Int
                                          /\ l.keys[j] < sep /\ InRange(l.keys[j], ll, {sep})
           /\ \A j \in 1 .. Len(r.keys) : /\ r.keys[j] \in Key /\ r.keys[j] \in Int
                                          /\ sep <= r.keys[j] /\ InRange(r.keys[j], {sep}, rh)
           /\ \A x, y \in 1 .. Len(l.keys) : x < y => l.keys[x] < l.keys[y]
           /\ \A x, y \in 1 .. Len(r.keys) : x < y => r.keys[x] < r.keys[y]
           /\ ~IsLeaf(l) => /\ Parented(l, ll, {sep}, lo, out)
                            /\ Parented(r, {sep}, rh, lo, out)
                            /\ ~IsLeaf(r)
                            /\ \A j \in 1 .. Len(r.keys) : sep < r.keys[j]
<1>1. /\ l \in NodeOf(NodeId) /\ r \in NodeOf(NodeId)
      /\ sep \in Key /\ ll \in SUBSET Key /\ rh \in SUBSET Key
      /\ KeysPlaced(l.keys, ll, {sep}) /\ KeysPlaced(r.keys, {sep}, rh)
      /\ Between(sep, ll, rh)
  BY DEF Neighbours, AnyNode, NodePlaced
<1>2. /\ l.keys \in Seq(Key) /\ r.keys \in Seq(Key)
      /\ KeysLen(l) = Len(l.keys) /\ KeysLen(r) = Len(r.keys)
  BY <1>1, NodeCases DEF KeysLen
<1>3. /\ sep \in Int /\ {sep} \in SUBSET Key
      /\ \A b \in ll : b \in Int /\ b < sep
      /\ \A b \in rh : b \in Int /\ sep < b
  BY <1>1, KeyAssumption DEF Between
<1>4. /\ Len(l.keys) \in Nat
      /\ \A j \in 1 .. Len(l.keys) : /\ l.keys[j] \in Key /\ l.keys[j] \in Int
                                     /\ l.keys[j] < sep /\ InRange(l.keys[j], ll, {sep})
      /\ \A x, y \in 1 .. Len(l.keys) : x < y => l.keys[x] < l.keys[y]
  BY <1>1, <1>2, KeysAreOrdered DEF KeysPlaced, InRange
<1>5. /\ Len(r.keys) \in Nat
      /\ \A j \in 1 .. Len(r.keys) : /\ r.keys[j] \in Key /\ r.keys[j] \in Int
                                     /\ sep <= r.keys[j] /\ InRange(r.keys[j], {sep}, rh)
      /\ \A x, y \in 1 .. Len(r.keys) : x < y => r.keys[x] < r.keys[y]
  BY <1>1, <1>2, KeysAreOrdered DEF KeysPlaced, InRange
<1>6. ASSUME ~IsLeaf(l)
      PROVE  /\ Parented(l, ll, {sep}, lo, out)
             /\ Parented(r, {sep}, rh, lo, out)
             /\ ~IsLeaf(r)
             /\ \A j \in 1 .. Len(r.keys) : sep < r.keys[j]
  <2>1. Parented(l, ll, {sep}, lo, out) /\ Parented(r, {sep}, rh, lo, out) /\ ~IsLeaf(r)
    BY <1>3, <1>6 DEF Neighbours, Parented
  <2>2. \A j \in 1 .. Len(r.keys) : Between(r.keys[j], {sep}, rh)
    BY <2>1, ParentFacts
  <2> QED
    BY <2>1, <2>2 DEF Between
<1> QED
  BY <1>1, <1>2, <1>3, <1>4, <1>5, <1>6, Zenon

(* One node takes in its right neighbour.                                   *)
LEMMA MergePlaced ==
    ASSUME NEW l, NEW r, NEW sep, NEW ll, NEW rh, NEW lo, NEW out,
           Neighbours(l, r, sep, ll, rh, lo, out),
           NEW mn, mn = IF IsLeaf(l)
                        THEN Leaf(l.keys \o r.keys, l.vals \o r.vals)
                        ELSE Internal(Append(l.keys, sep) \o r.keys, l.children \o r.children)
    PROVE  NodePlaced(mn, ll, rh, lo, out)
<1> DEFINE lk == l.keys
           rk == r.keys
           m == Len(lk)
           n == Len(rk)
<1>1. /\ lk \in Seq(Key) /\ rk \in Seq(Key) /\ m \in Nat /\ n \in Nat
      /\ sep \in Key /\ sep \in Int /\ ll \in SUBSET Key /\ rh \in SUBSET Key
      /\ \A b \in ll : b < sep
      /\ \A b \in rh : sep < b
      /\ KeysPlaced(lk, ll, {sep}) /\ KeysPlaced(rk, {sep}, rh)
      /\ \A j \in 1 .. m : lk[j] \in Int /\ lk[j] < sep
      /\ \A j \in 1 .. n : rk[j] \in Int /\ sep <= rk[j]
      /\ ~IsLeaf(l) => \A j \in 1 .. n : sep < rk[j]
  BY NeighbourFacts
<1>2. KeysPlaced(lk, ll, rh) /\ KeysPlaced(rk, ll, rh)
  BY <1>1, WidenPlaced
<1>3. CASE IsLeaf(l)
  <2>1. mn.keys = lk \o rk /\ IsLeaf(mn)
    BY <1>3 DEF Leaf, IsLeaf
  <2>2. \A x \in 1 .. m, y \in 1 .. n : lk[x] < rk[y]
    BY <1>1
  <2> HIDE DEF lk, rk
  <2>3. KeysPlaced(lk \o rk, ll, rh)
    BY <1>1, <1>2, <2>2, JoinPlaced
  <2> QED
    BY <2>1, <2>3 DEF NodePlaced
<1>4. CASE ~IsLeaf(l)
  <2> DEFINE ak == Append(lk, sep)
             nk == ak \o rk
             lc == l.children
             rc == r.children
             nc == lc \o rc
  <2>1. mn.keys = nk /\ mn.children = nc /\ ~IsLeaf(mn)
    BY <1>4 DEF Internal, IsLeaf
  <2>2. Parented(l, ll, {sep}, lo, out) /\ Parented(r, {sep}, rh, lo, out)
    BY <1>4, NeighbourFacts
  <2>3. /\ lc \in Seq(NodeId) /\ rc \in Seq(NodeId)
        /\ Len(lc) = m + 1 /\ Len(rc) = n + 1
        /\ \A i \in 1 .. m + 1 : lo[lc[i]] = LowOf(lk, ll, i) /\ out[lc[i]] = HighOf(lk, {sep}, i)
        /\ \A i \in 1 .. n + 1 : lo[rc[i]] = LowOf(rk, {sep}, i) /\ out[rc[i]] = HighOf(rk, rh, i)
        /\ \A j \in 1 .. m : Between(lk[j], ll, {sep})
        /\ \A j \in 1 .. n : Between(rk[j], {sep}, rh)
    <3>1. /\ lc \in Seq(NodeId) /\ Len(lc) = m + 1
          /\ \A i \in 1 .. m + 1 : lo[lc[i]] = LowOf(lk, ll, i) /\ out[lc[i]] = HighOf(lk, {sep}, i)
          /\ \A j \in 1 .. m : Between(lk[j], ll, {sep})
      <4>1. Parented(l, ll, {sep}, lo, out)
        BY <2>2
      <4> QED
        BY <4>1, ParentSlots, Zenon
    <3>2. /\ rc \in Seq(NodeId) /\ Len(rc) = n + 1
          /\ \A i \in 1 .. n + 1 : lo[rc[i]] = LowOf(rk, {sep}, i) /\ out[rc[i]] = HighOf(rk, rh, i)
          /\ \A j \in 1 .. n : Between(rk[j], {sep}, rh)
      <4>1. Parented(r, {sep}, rh, lo, out)
        BY <2>2
      <4> QED
        BY <4>1, ParentSlots, Zenon
    <3> QED
      BY <3>1, <3>2
  <2> HIDE DEF lk, rk, lc, rc
  <2>4. /\ ak \in Seq(Key) /\ Len(ak) = m + 1
        /\ \A j \in 1 .. m + 1 : ak[j] = IF j <= m THEN lk[j] ELSE sep
    BY <1>1, AppendElements
  <2>5. InRange(sep, ll, rh)
    BY <1>1, KeyAssumption DEF InRange
  <2>6. KeysPlaced(ak, ll, rh)
    BY <1>1, <1>2, <2>5, AppendPlaced
  <2> HIDE DEF ak
  <2>7. \A x \in 1 .. m + 1, y \in 1 .. n : ak[x] < rk[y]
    <3> TAKE x \in 1 .. m + 1, y \in 1 .. n
    <3>1. \/ x \in 1 .. m /\ ak[x] = lk[x]
          \/ ak[x] = sep
      BY <1>1, <2>4
    <3> QED
      BY <1>1, <1>4, <3>1
  <2>8. KeysPlaced(nk, ll, rh)
    BY <1>1, <1>2, <2>4, <2>6, <2>7, JoinPlaced
  <2>9. /\ Len(nk) = m + 1 + n
        /\ \A j \in 1 .. m + 1 + n : nk[j] = IF j <= m + 1 THEN ak[j] ELSE rk[j - (m + 1)]
    <3>1. ak \in Seq(Key) /\ rk \in Seq(Key)
      BY <1>1, <2>4
    <3>2. /\ Len(nk) = Len(ak) + Len(rk)
          /\ \A j \in 1 .. Len(ak) + Len(rk) : nk[j] = IF j <= Len(ak) THEN ak[j] ELSE rk[j - Len(ak)]
      BY <3>1, ConcatProperties
    <3> QED
      BY <2>4, <3>2
  <2>10. /\ Len(nc) = (m + 1) + (n + 1)
         /\ \A j \in 1 .. (m + 1) + (n + 1) : nc[j] = IF j <= m + 1 THEN lc[j] ELSE rc[j - (m + 1)]
    <3>1. lc \in Seq(NodeId) /\ rc \in Seq(NodeId)
      BY <2>3
    <3>2. /\ Len(nc) = Len(lc) + Len(rc)
          /\ \A j \in 1 .. Len(lc) + Len(rc) : nc[j] = IF j <= Len(lc) THEN lc[j] ELSE rc[j - Len(lc)]
      BY <3>1, ConcatProperties
    <3> QED
      BY <2>3, <3>2
  <2> HIDE DEF nk, nc, m, n
  <2>11. m \in Nat /\ n \in Nat
    BY <1>1
  <2>12. \A j \in 1 .. m + 1 + n : \/ j \in 1 .. m /\ nk[j] = lk[j]
                                   \/ j = m + 1 /\ nk[j] = sep
                                   \/ j > m + 1 /\ j - (m + 1) \in 1 .. n /\ nk[j] = rk[j - (m + 1)]
    <3> TAKE j \in 1 .. m + 1 + n
    <3>1. \/ j \in 1 .. m /\ j <= m /\ j <= m + 1 /\ j \in 1 .. m + 1
          \/ j = m + 1 /\ ~(j <= m) /\ j <= m + 1 /\ j \in 1 .. m + 1
          \/ j > m + 1 /\ j - (m + 1) \in 1 .. n /\ ~(j <= m + 1)
      BY <2>11
    <3> QED
      BY <2>4, <2>9, <3>1
  <2>13. ASSUME NEW j \in 1 .. m + 1 + n PROVE Between(nk[j], ll, rh)
    <3>1. CASE j \in 1 .. m /\ nk[j] = lk[j]
      BY <1>1, <2>3, <3>1, KeyAssumption DEF Between
    <3>2. CASE nk[j] = sep
      BY <1>1, <3>2 DEF Between
    <3>3. CASE j - (m + 1) \in 1 .. n /\ nk[j] = rk[j - (m + 1)]
      BY <1>1, <2>3, <3>3, KeyAssumption DEF Between
    <3> QED
      BY <2>12, <3>1, <3>2, <3>3
  <2>14. ASSUME NEW j \in 1 .. (m + 1) + (n + 1)
         PROVE  lo[nc[j]] = LowOf(nk, ll, j) /\ out[nc[j]] = HighOf(nk, rh, j)
    <3>1. CASE j <= m + 1
      <4>1. /\ j \in 1 .. m + 1 /\ j # m + 1 + n + 1 /\ j \in 1 .. m + 1 + n
            /\ j # 1 => j - 1 \in 1 .. m /\ j - 1 \in 1 .. m + 1 + n /\ j - 1 # m + 1 /\ ~(j - 1 > m + 1)
            /\ j # m + 1 => j \in 1 .. m
            /\ ~(j > m + 1)
        BY <2>11, <3>1
      <4>2. nc[j] = lc[j]
        BY <2>10, <3>1
      <4>3. LowOf(nk, ll, j) = LowOf(lk, ll, j)
        BY <2>12, <4>1 DEF LowOf
      <4>4. HighOf(nk, rh, j) = HighOf(lk, {sep}, j)
        BY <2>9, <2>12, <4>1 DEF HighOf, m
      <4> QED
        BY <2>3, <4>1, <4>2, <4>3, <4>4
    <3>2. CASE ~(j <= m + 1)
      <4> DEFINE x == j - (m + 1)
      <4>1. /\ x \in 1 .. n + 1 /\ j # 1 /\ j - 1 \in 1 .. m + 1 + n
            /\ x = 1 <=> j - 1 = m + 1
            /\ ~(j - 1 \in 1 .. m)
            /\ (j - 1) - (m + 1) = x - 1
            /\ j = m + 1 + n + 1 <=> x = n + 1
            /\ x # n + 1 => j \in 1 .. m + 1 + n
            /\ ~(j \in 1 .. m) /\ j # m + 1
        BY <2>11, <3>2
      <4>2. nc[j] = rc[x]
        BY <2>10, <3>2
      <4> HIDE DEF x
      <4>3. LowOf(nk, ll, j) = LowOf(rk, {sep}, x)
        BY <2>12, <4>1 DEF LowOf
      <4>4. HighOf(nk, rh, j) = HighOf(rk, rh, x)
        BY <2>9, <2>12, <4>1 DEF HighOf, n, x
      <4> QED
        BY <2>3, <4>1, <4>2, <4>3, <4>4
    <3> QED
      BY <3>1, <3>2
  <2>15. m + 1 + n = Len(nk) /\ (m + 1) + (n + 1) = Len(nc)
    BY <2>9, <2>10
  <2>16. KidsPlaced(mn, ll, rh, lo, out)
    BY <2>1, <2>13, <2>14, <2>15 DEF KidsPlaced
  <2> QED
    BY <2>1, <2>8, <2>16 DEF NodePlaced
<1> QED
  BY <1>3, <1>4

(* The left neighbour lends its last key, which becomes the border.         *)
LEMMA LendLastPlaced ==
    ASSUME NEW l, NEW c, NEW sep, NEW ll, NEW ch, NEW lo, NEW out,
           Neighbours(l, c, sep, ll, ch, lo, out),
           NEW ln, NEW cn, LentLast(l, c, sep, ln, cn), KeysLen(l) > 1
    PROVE  LET k == Last(l.keys)
           IN  /\ k \in Key /\ Between(k, ll, ch)
               /\ NodePlaced(ln, ll, {k}, lo, out)
               /\ NodePlaced(cn, {k}, ch, lo, out)
<1> DEFINE lk == l.keys
           ck == c.keys
           m == Len(lk)
           n == Len(ck)
           k == Last(lk)
<1>1. /\ lk \in Seq(Key) /\ ck \in Seq(Key) /\ m \in Nat /\ n \in Nat /\ m > 1
      /\ sep \in Key /\ sep \in Int /\ ll \in SUBSET Key /\ ch \in SUBSET Key
      /\ \A b \in ll : b \in Int /\ b < sep
      /\ \A b \in ch : b \in Int /\ sep < b
      /\ KeysPlaced(lk, ll, {sep}) /\ KeysPlaced(ck, {sep}, ch)
      /\ \A j \in 1 .. m : /\ lk[j] \in Key /\ lk[j] \in Int /\ lk[j] < sep
                           /\ InRange(lk[j], ll, {sep})
      /\ \A j \in 1 .. n : ck[j] \in Int /\ sep <= ck[j]
      /\ \A x, y \in 1 .. m : x < y => lk[x] < lk[y]
      /\ ~IsLeaf(l) => /\ Parented(l, ll, {sep}, lo, out)
                       /\ Parented(c, {sep}, ch, lo, out)
                       /\ \A j \in 1 .. n : sep < ck[j]
  BY NeighbourFacts
<1>2. k = lk[m] /\ m \in 1 .. m /\ m - 1 \in Nat /\ m \in Nat /\ n \in Nat
  BY <1>1 DEF Last
<1>3. IsLeaf(l) <=> IsLeaf(c)
  BY DEF Neighbours
<1>4. /\ ln.keys = Front(lk)
      /\ IsLeaf(c) => cn.keys = Cons(k, ck) /\ IsLeaf(ln) /\ IsLeaf(cn)
      /\ ~IsLeaf(c) => /\ cn.keys = Cons(sep, ck)
                       /\ ln.children = Front(l.children)
                       /\ cn.children = Cons(Last(l.children), c.children)
                       /\ ~IsLeaf(ln) /\ ~IsLeaf(cn)
  BY DEF LentLast, Leaf, Internal, IsLeaf
<1> HIDE DEF lk, ck, m, n, k
<1>5. k \in Key /\ k \in Int /\ k < sep /\ {k} \in SUBSET Key
  BY <1>1, <1>2
<1>6. Between(k, ll, ch)
  <2>1. 1 \in 1 .. m /\ 1 < m
    BY <1>1
  <2>2. lk[1] < k /\ lk[1] \in Int /\ \A b \in ll : b <= lk[1]
    BY <1>1, <1>2, <2>1 DEF InRange
  <2>3. \A b \in ll : b < k
    BY <1>1, <1>5, <2>2
  <2>4. \A b \in ch : k < b
    BY <1>1, <1>5
  <2> QED
    BY <2>3, <2>4 DEF Between
<1>7. /\ Front(lk) \in Seq(Key) /\ Len(Front(lk)) = m - 1
      /\ \A i \in 1 .. m - 1 : Front(lk)[i] = lk[i]
  <2>1. lk # <<>>
    BY <1>1, EmptySeq DEF m
  <2> QED
    BY <1>1, <2>1, PopProperties DEF m
<1>8. KeysPlaced(Front(lk), ll, {k})
  <2>1. \A j \in 1 .. m - 1 : j \in 1 .. m /\ j < m
    BY <1>2
  <2>2. \A j \in 1 .. m - 1 : InRange(lk[j], ll, {k})
    BY <1>1, <1>2, <2>1 DEF InRange
  <2>3. /\ Ascending(lk) /\ 1 \in Nat /\ m - 1 \in Nat /\ 1 <= 1
        /\ m - 1 <= Len(lk) /\ 1 <= m - 1 + 1
    BY <1>1, <1>2 DEF KeysPlaced, m
  <2>4. KeysPlaced(SubSeq(lk, 1, m - 1), ll, {k})
    BY <1>1, <1>5, <2>2, <2>3, CutPlaced
  <2> QED
    BY <2>4 DEF Front, m
<1>9. KeysPlaced(ck, {k}, ch)
  BY <1>1, <1>5, WidenPlaced
<1>10. CASE IsLeaf(c)
  <2>1. InRange(k, {k}, ch)
    BY <1>1, <1>5 DEF InRange
  <2>2. \A y \in 1 .. Len(ck) : k < ck[y]
    BY <1>1, <1>5 DEF n
  <2>3. KeysPlaced(Cons(k, ck), {k}, ch)
    BY <1>1, <1>5, <1>9, <2>1, <2>2, ConsPlaced
  <2> QED
    BY <1>4, <1>5, <1>6, <1>8, <1>10, <2>3 DEF NodePlaced, k, lk
<1>11. CASE ~IsLeaf(c)
  <2> DEFINE lc == l.children
             cc == c.children
             nk == Cons(sep, ck)
             nc == Cons(Last(lc), cc)
             fk == Front(lk)
             fc == Front(lc)
  <2>1. /\ lc \in Seq(NodeId) /\ Len(lc) = m + 1
        /\ \A i \in 1 .. m + 1 : lo[lc[i]] = LowOf(lk, ll, i) /\ out[lc[i]] = HighOf(lk, {sep}, i)
        /\ \A j \in 1 .. m : Between(lk[j], ll, {sep})
    <3>1. Parented(l, ll, {sep}, lo, out)
      BY <1>1, <1>3, <1>11
    <3> QED
      BY <3>1, ParentSlots, Zenon DEF m, lk
  <2>2. /\ cc \in Seq(NodeId) /\ Len(cc) = n + 1
        /\ \A i \in 1 .. n + 1 : lo[cc[i]] = LowOf(ck, {sep}, i) /\ out[cc[i]] = HighOf(ck, ch, i)
        /\ \A j \in 1 .. n : Between(ck[j], {sep}, ch)
    <3>1. Parented(c, {sep}, ch, lo, out)
      BY <1>1, <1>3, <1>11
    <3> QED
      BY <3>1, ParentSlots, Zenon DEF n, ck
  <2> HIDE DEF lc, cc
  <2>3. Last(lc) = lc[m + 1] /\ Last(lc) \in NodeId /\ lc # <<>>
    <3>1. m + 1 \in 1 .. m + 1
      BY <1>2
    <3>2. lc # <<>>
      BY <1>2, <2>1, EmptySeq
    <3> QED
      BY <2>1, <3>1, <3>2, ElementOfSeq DEF Last
  <2>4. /\ Len(fc) = m /\ \A i \in 1 .. m : fc[i] = lc[i]
    <3>1. /\ Len(fc) = Len(lc) - 1 /\ \A i \in 1 .. Len(lc) - 1 : fc[i] = lc[i]
      BY <2>1, <2>3, PopProperties
    <3>2. Len(lc) - 1 = m
      BY <1>2, <2>1
    <3> QED
      BY <3>1, <3>2
  <2>5. /\ nk \in Seq(Key) /\ Len(nk) = n + 1
        /\ \A j \in 1 .. n + 1 : nk[j] = IF j = 1 THEN sep ELSE ck[j - 1]
    BY <1>1, ConsElements DEF n
  <2>6. /\ Len(nc) = n + 2
        /\ \A j \in 1 .. n + 2 : nc[j] = IF j = 1 THEN lc[m + 1] ELSE cc[j - 1]
    <3>1. /\ Len(nc) = Len(cc) + 1
          /\ \A j \in 1 .. Len(cc) + 1 : nc[j] = IF j = 1 THEN Last(lc) ELSE cc[j - 1]
      <4>1. cc \in Seq(NodeId) /\ Last(lc) \in NodeId
        BY <2>2, <2>3
      <4> QED
        BY <4>1, ConsElements
    <3>2. Len(cc) + 1 = n + 2
      BY <1>2, <2>2
    <3> QED
      BY <2>3, <3>1, <3>2
  <2>7. InRange(sep, {k}, ch)
    BY <1>1, <1>5 DEF InRange
  <2>8. \A y \in 1 .. Len(ck) : sep < ck[y]
    BY <1>1, <1>3, <1>11 DEF n
  <2>9. KeysPlaced(nk, {k}, ch)
    BY <1>1, <1>5, <1>9, <2>7, <2>8, ConsPlaced
  <2>10. /\ ln.keys = fk /\ ln.children = fc /\ cn.keys = nk /\ cn.children = nc
         /\ ~IsLeaf(ln) /\ ~IsLeaf(cn)
    BY <1>4, <1>11 DEF lc, cc
  <2>11. Len(fk) = m - 1 /\ \A i \in 1 .. m - 1 : fk[i] = lk[i]
    BY <1>7
  <2> HIDE DEF nk, nc, fk, fc
  <2>12. KidsPlaced(ln, ll, {k}, lo, out)
    <3>1. ASSUME NEW j \in 1 .. m - 1 PROVE Between(fk[j], ll, {k})
      <4>1. j \in 1 .. m /\ j < m
        BY <1>2
      <4> QED
        BY <1>1, <1>2, <2>1, <2>11, <4>1 DEF Between
    <3>2. ASSUME NEW i \in 1 .. m
          PROVE  lo[fc[i]] = LowOf(fk, ll, i) /\ out[fc[i]] = HighOf(fk, {k}, i)
      <4>1. /\ i \in 1 .. m + 1 /\ i # m + 1
            /\ i # 1 => i - 1 \in 1 .. m - 1
            /\ i # m => i \in 1 .. m - 1
            /\ m - 1 + 1 = m
        BY <1>2
      <4>2. LowOf(fk, ll, i) = LowOf(lk, ll, i)
        BY <2>11, <4>1 DEF LowOf
      <4>3. HighOf(fk, {k}, i) = HighOf(lk, {sep}, i)
        BY <1>2, <2>11, <4>1 DEF HighOf, m
      <4> QED
        BY <2>1, <2>4, <4>1, <4>2, <4>3
    <3> QED
      BY <2>4, <2>10, <2>11, <3>1, <3>2 DEF KidsPlaced
  <2>13. KidsPlaced(cn, {k}, ch, lo, out)
    <3>1. ASSUME NEW j \in 1 .. n + 1 PROVE Between(nk[j], {k}, ch)
      <4>1. CASE j = 1
        BY <1>1, <1>5, <2>5, <4>1 DEF Between
      <4>2. CASE j # 1
        <5>1. j - 1 \in 1 .. n
          BY <1>2, <4>2
        <5>2. nk[j] = ck[j - 1] /\ ck[j - 1] \in Int /\ sep < ck[j - 1]
              /\ Between(ck[j - 1], {sep}, ch)
          BY <1>1, <1>3, <1>11, <2>2, <2>5, <4>2, <5>1
        <5> QED
          BY <1>1, <1>5, <5>2 DEF Between
      <4> QED
        BY <4>1, <4>2
    <3>2. ASSUME NEW i \in 1 .. n + 2
          PROVE  lo[nc[i]] = LowOf(nk, {k}, i) /\ out[nc[i]] = HighOf(nk, ch, i)
      <4>0. /\ n + 2 = n + 1 + 1 /\ 1 \in 1 .. n + 1 /\ 1 # n + 2
            /\ m + 1 \in 1 .. m + 1 /\ m + 1 # 1 /\ m + 1 - 1 = m
            /\ 1 \in 1 .. n + 2
        BY <1>1, <1>2
      <4>1. CASE i = 1
        <5>1. lo[lc[m + 1]] = {k} /\ out[lc[m + 1]] = {sep}
          <6>1. /\ lo[lc[m + 1]] = LowOf(lk, ll, m + 1)
                /\ out[lc[m + 1]] = HighOf(lk, {sep}, m + 1)
            BY <2>1, <4>0
          <6>2. LowOf(lk, ll, m + 1) = {k}
            BY <1>2, <4>0 DEF LowOf
          <6>3. HighOf(lk, {sep}, m + 1) = {sep}
            BY DEF HighOf, m
          <6> QED
            BY <6>1, <6>2, <6>3
        <5>2. LowOf(nk, {k}, i) = {k} /\ HighOf(nk, ch, i) = {sep}
          BY <2>5, <4>0, <4>1 DEF LowOf, HighOf
        <5> QED
          BY <2>6, <4>0, <4>1, <5>1, <5>2
      <4>2. CASE i # 1
        <5>1. /\ i - 1 \in 1 .. n + 1
              /\ i - 1 # 1 => i - 1 - 1 \in 1 .. n
              /\ i = n + 2 <=> i - 1 = n + 1
              /\ i # n + 2 => i \in 1 .. n + 1
          BY <1>2, <4>2
        <5>2. LowOf(nk, {k}, i) = LowOf(ck, {sep}, i - 1)
          BY <2>5, <4>2, <5>1 DEF LowOf
        <5>3. HighOf(nk, ch, i) = HighOf(ck, ch, i - 1)
          BY <2>5, <4>0, <4>2, <5>1 DEF HighOf, n
        <5> QED
          BY <2>2, <2>6, <4>2, <5>1, <5>2, <5>3
      <4> QED
        BY <4>1, <4>2
    <3> QED
      BY <2>5, <2>6, <2>10, <3>1, <3>2 DEF KidsPlaced
  <2> QED
    BY <1>5, <1>6, <1>8, <2>9, <2>10, <2>12, <2>13 DEF NodePlaced, k, lk, fk
<1> QED
  BY <1>10, <1>11

(* The right one lends its first key: the bound moves up to the next one.   *)
LEMMA LendFirstPlaced ==
    ASSUME NEW c, NEW r, NEW sep, NEW cl, NEW rh, NEW lo, NEW out,
           Neighbours(c, r, sep, cl, rh, lo, out),
           NEW rn, NEW cn, LentFirst(r, c, sep, rn, cn)
    PROVE  LET k == IF IsLeaf(c) THEN Head(Tail(r.keys)) ELSE Head(r.keys)
           IN  /\ k \in Key /\ Between(k, cl, rh)
               /\ NodePlaced(cn, cl, {k}, lo, out)
               /\ NodePlaced(rn, {k}, rh, lo, out)
<1> DEFINE rk == r.keys
           ck == c.keys
           tk == Tail(rk)
           m == Len(rk)
           n == Len(ck)
           k == IF IsLeaf(c) THEN Head(tk) ELSE Head(rk)
<1>1. /\ rk \in Seq(Key) /\ ck \in Seq(Key) /\ m \in Nat /\ n \in Nat
      /\ sep \in Key /\ sep \in Int /\ cl \in SUBSET Key /\ rh \in SUBSET Key
      /\ \A b \in cl : b \in Int /\ b < sep
      /\ \A b \in rh : b \in Int /\ sep < b
      /\ KeysPlaced(ck, cl, {sep}) /\ KeysPlaced(rk, {sep}, rh)
      /\ \A j \in 1 .. m : /\ rk[j] \in Key /\ rk[j] \in Int /\ sep <= rk[j]
                           /\ InRange(rk[j], {sep}, rh)
      /\ \A j \in 1 .. n : ck[j] \in Int /\ ck[j] < sep
      /\ \A x, y \in 1 .. m : x < y => rk[x] < rk[y]
      /\ KeysLen(r) = m
      /\ ~IsLeaf(c) => /\ Parented(c, cl, {sep}, lo, out)
                       /\ Parented(r, {sep}, rh, lo, out)
                       /\ \A j \in 1 .. m : sep < rk[j]
  BY NeighbourFacts
<1>2. m > 1
  BY <1>1 DEF LentFirst
<1>3. 1 \in 1 .. m /\ 2 \in 1 .. m /\ m - 1 \in Nat /\ 1 \in 1 .. m - 1 /\ 1 + 1 = 2
  BY <1>1, <1>2
<1>4. IsLeaf(c) <=> IsLeaf(r)
  BY DEF Neighbours
<1>5. /\ rn.keys = tk
      /\ IsLeaf(c) => cn.keys = Append(ck, Head(rk)) /\ IsLeaf(rn) /\ IsLeaf(cn)
      /\ ~IsLeaf(c) => /\ cn.keys = Append(ck, sep)
                       /\ rn.children = Tail(r.children)
                       /\ cn.children = Append(c.children, Head(r.children))
                       /\ ~IsLeaf(rn) /\ ~IsLeaf(cn)
  BY DEF LentFirst, Leaf, Internal, IsLeaf
<1> HIDE DEF rk, ck, m, n
<1>6. rk # <<>>
  BY <1>1, <1>2, EmptySeq DEF m
<1>7. /\ tk \in Seq(Key) /\ Len(tk) = m - 1
      /\ \A j \in 1 .. m - 1 : tk[j] = rk[j + 1]
  BY <1>1, <1>6, TailElements DEF m
<1>8. Head(rk) = rk[1] /\ Head(tk) = rk[2]
  <2>1. tk[1] = rk[2]
    BY <1>3, <1>7
  <2>2. tk # <<>>
    <3>1. Len(tk) # 0
      BY <1>1, <1>2, <1>7
    <3> QED
      BY <3>1, EmptySeq
  <2>3. Head(tk) = tk[1]
    BY <1>7, <2>2
  <2>4. rk \in Seq(Key)
    BY <1>1
  <2>5. Head(rk) = rk[1]
    BY <1>6, <2>4
  <2> QED
    BY <2>1, <2>3, <2>5
<1>9. /\ k \in Key /\ k \in Int /\ {k} \in SUBSET Key
      /\ sep < k /\ (\A b \in rh : k < b)
      /\ k = IF IsLeaf(c) THEN rk[2] ELSE rk[1]
  <2>1. rk[1] < rk[2] /\ rk[1] \in Int /\ rk[2] \in Int /\ rk[1] \in Key /\ rk[2] \in Key
        /\ sep <= rk[1]
    BY <1>1, <1>3
  <2>2. \A b \in rh : rk[1] < b /\ rk[2] < b
    BY <1>1, <1>3 DEF InRange
  <2>3. k = IF IsLeaf(c) THEN rk[2] ELSE rk[1]
    BY <1>8, Zenon
  <2> HIDE DEF k
  <2>4. k = rk[1] \/ k = rk[2]
    BY <2>3
  <2>5. k \in Key /\ k \in Int /\ rk[1] <= k /\ \A b \in rh : k < b
    BY <2>1, <2>2, <2>4
  <2>6. sep < k
    <3>1. CASE IsLeaf(c)
      <4>1. k = rk[2] /\ sep \in Int
        BY <1>1, <2>3, <3>1
      <4> QED
        BY <2>1, <4>1
    <3>2. CASE ~IsLeaf(c)
      BY <1>1, <1>3, <2>3, <3>2
    <3> QED
      BY <3>1, <3>2
  <2> QED
    BY <2>3, <2>5, <2>6
<1> HIDE DEF tk, k
<1>10. Between(k, cl, rh)
  BY <1>1, <1>9 DEF Between
<1>11. KeysPlaced(tk, {k}, rh)
  <2>1. \A x, y \in 1 .. m - 1 : x < y => tk[x] < tk[y]
    <3>1. ASSUME NEW x \in 1 .. m - 1, NEW y \in 1 .. m - 1, x < y PROVE tk[x] < tk[y]
      <4>1. x + 1 \in 1 .. m /\ y + 1 \in 1 .. m /\ x + 1 < y + 1
        BY <1>1, <3>1
      <4> QED
        BY <1>1, <1>7, <4>1
    <3> QED
      BY <3>1
  <2>2. \A j \in 1 .. m - 1 : InRange(tk[j], {k}, rh)
    <3>1. ASSUME NEW j \in 1 .. m - 1 PROVE InRange(tk[j], {k}, rh)
      <4>1. j + 1 \in 1 .. m /\ 1 < j + 1 /\ (j + 1 = 2 \/ 2 < j + 1)
        BY <1>1
      <4>2. rk[1] < rk[j + 1] /\ (rk[2] = rk[j + 1] \/ rk[2] < rk[j + 1])
            /\ rk[1] \in Int /\ rk[2] \in Int /\ rk[j + 1] \in Int
        BY <1>1, <1>3, <4>1
      <4>3. \A b \in rh : rk[j + 1] < b
        BY <1>1, <4>1 DEF InRange
      <4>4. k = rk[1] \/ k = rk[2]
        BY <1>9
      <4>5. k <= rk[j + 1] /\ tk[j] = rk[j + 1]
        BY <1>7, <4>2, <4>4
      <4> QED
        BY <4>3, <4>5 DEF InRange
    <3> QED
      BY <3>1
  <2> QED
    BY <1>7, <2>1, <2>2, KeysAreOrdered DEF KeysPlaced
<1>12. KeysPlaced(ck, cl, {k})
  BY <1>1, <1>9, WidenPlaced
<1>13. CASE IsLeaf(c)
  <2>1. InRange(rk[1], cl, {k}) /\ rk[1] \in Key
    BY <1>1, <1>3, <1>9, <1>13 DEF InRange
  <2>2. \A y \in 1 .. Len(ck) : ck[y] < rk[1]
    BY <1>1, <1>3 DEF n
  <2>3. KeysPlaced(Append(ck, rk[1]), cl, {k})
    BY <1>1, <1>9, <1>12, <2>1, <2>2, AppendPlaced
  <2> QED
    BY <1>5, <1>8, <1>9, <1>10, <1>11, <1>13, <2>3 DEF NodePlaced, k, tk, rk
<1>14. CASE ~IsLeaf(c)
  <2> DEFINE rc == r.children
             cc == c.children
             nk == Append(ck, sep)
             nc == Append(cc, Head(rc))
             tc == Tail(rc)
  <2>1. /\ rc \in Seq(NodeId) /\ Len(rc) = m + 1
        /\ \A i \in 1 .. m + 1 : lo[rc[i]] = LowOf(rk, {sep}, i) /\ out[rc[i]] = HighOf(rk, rh, i)
        /\ \A j \in 1 .. m : Between(rk[j], {sep}, rh)
    <3>1. Parented(r, {sep}, rh, lo, out)
      BY <1>1, <1>14
    <3> QED
      BY <3>1, ParentSlots, Zenon DEF m, rk
  <2>2. /\ cc \in Seq(NodeId) /\ Len(cc) = n + 1
        /\ \A i \in 1 .. n + 1 : lo[cc[i]] = LowOf(ck, cl, i) /\ out[cc[i]] = HighOf(ck, {sep}, i)
        /\ \A j \in 1 .. n : Between(ck[j], cl, {sep})
    <3>1. Parented(c, cl, {sep}, lo, out)
      BY <1>1, <1>14
    <3> QED
      BY <3>1, ParentSlots, Zenon DEF n, ck
  <2> HIDE DEF rc, cc
  <2>3. Head(rc) = rc[1] /\ rc[1] \in NodeId /\ rc # <<>>
    <3>1. 1 \in 1 .. m + 1 /\ m + 1 # 0
      BY <1>1
    <3>2. rc # <<>>
      BY <2>1, <3>1, EmptySeq
    <3> QED
      BY <2>1, <3>1, <3>2, ElementOfSeq
  <2>4. /\ Len(tc) = m /\ \A i \in 1 .. m : tc[i] = rc[i + 1]
    <3>1. /\ Len(tc) = Len(rc) - 1 /\ \A i \in 1 .. Len(rc) - 1 : tc[i] = rc[i + 1]
      <4>1. rc \in Seq(NodeId) /\ rc # <<>>
        BY <2>1, <2>3
      <4> QED
        BY <4>1, TailElements
    <3>2. Len(rc) - 1 = m
      BY <1>1, <2>1
    <3> QED
      BY <3>1, <3>2
  <2>5. /\ nk \in Seq(Key) /\ Len(nk) = n + 1
        /\ \A j \in 1 .. n + 1 : nk[j] = IF j <= n THEN ck[j] ELSE sep
    BY <1>1, AppendElements DEF n
  <2>6. /\ Len(nc) = n + 2
        /\ \A j \in 1 .. n + 2 : nc[j] = IF j <= n + 1 THEN cc[j] ELSE rc[1]
    <3>1. /\ Len(nc) = Len(cc) + 1
          /\ \A j \in 1 .. Len(cc) + 1 : nc[j] = IF j <= Len(cc) THEN cc[j] ELSE Head(rc)
      <4>1. cc \in Seq(NodeId) /\ Head(rc) \in NodeId
        BY <2>2, <2>3
      <4> QED
        BY <4>1, AppendElements
    <3>2. Len(cc) + 1 = n + 2
      BY <1>1, <2>2
    <3> QED
      BY <2>2, <2>3, <3>1, <3>2
  <2>7. InRange(sep, cl, {k})
    BY <1>1, <1>9 DEF InRange
  <2>8. \A y \in 1 .. Len(ck) : ck[y] < sep
    BY <1>1 DEF n
  <2>9. KeysPlaced(nk, cl, {k})
    BY <1>1, <1>9, <1>12, <2>7, <2>8, AppendPlaced
  <2>10. /\ rn.keys = tk /\ rn.children = tc /\ cn.keys = nk /\ cn.children = nc
         /\ ~IsLeaf(rn) /\ ~IsLeaf(cn)
    BY <1>5, <1>14 DEF rc, cc
  <2>11. k = rk[1]
    BY <1>9, <1>14
  <2> HIDE DEF nk, nc, tc
  <2>12. KidsPlaced(rn, {k}, rh, lo, out)
    <3>1. ASSUME NEW j \in 1 .. m - 1 PROVE Between(tk[j], {k}, rh)
      <4>1. j + 1 \in 1 .. m /\ 1 < j + 1
        BY <1>1
      <4>2. rk[1] < rk[j + 1]
        BY <1>1, <1>3, <4>1
      <4> QED
        BY <1>7, <2>1, <2>11, <4>1, <4>2 DEF Between
    <3>2. ASSUME NEW i \in 1 .. m
          PROVE  lo[tc[i]] = LowOf(tk, {k}, i) /\ out[tc[i]] = HighOf(tk, rh, i)
      <4>1. /\ i + 1 \in 1 .. m + 1 /\ i + 1 # 1 /\ i + 1 - 1 = i
            /\ i # 1 => i - 1 \in 1 .. m - 1 /\ i - 1 + 1 = i
            /\ i # m => i \in 1 .. m - 1
            /\ i + 1 = m + 1 <=> i = m
            /\ m - 1 + 1 = m
        BY <1>1
      <4>2. LowOf(tk, {k}, i) = {rk[i]}
        BY <1>7, <2>11, <4>1 DEF LowOf
      <4>3. LowOf(rk, {sep}, i + 1) = {rk[i]}
        BY <4>1 DEF LowOf
      <4>4. HighOf(tk, rh, i) = HighOf(rk, rh, i + 1)
        BY <1>7, <4>1 DEF HighOf, m
      <4> QED
        BY <2>1, <2>4, <4>1, <4>2, <4>3, <4>4
    <3> QED
      BY <1>7, <2>4, <2>10, <3>1, <3>2 DEF KidsPlaced
  <2>13. KidsPlaced(cn, cl, {k}, lo, out)
    <3>1. ASSUME NEW j \in 1 .. n + 1 PROVE Between(nk[j], cl, {k})
      <4>1. CASE j = n + 1
        <5>1. nk[j] = sep
          BY <1>1, <2>5, <4>1
        <5> QED
          BY <1>1, <1>9, <5>1 DEF Between
      <4>2. CASE j # n + 1
        <5>1. j \in 1 .. n /\ j <= n
          BY <1>1, <4>2
        <5>2. nk[j] = ck[j] /\ ck[j] \in Int /\ ck[j] < sep /\ Between(ck[j], cl, {sep})
          BY <1>1, <2>2, <2>5, <5>1
        <5> QED
          BY <1>1, <1>9, <5>2 DEF Between
      <4> QED
        BY <4>1, <4>2
    <3>2. ASSUME NEW i \in 1 .. n + 2
          PROVE  lo[nc[i]] = LowOf(nk, cl, i) /\ out[nc[i]] = HighOf(nk, {k}, i)
      <4>0. /\ n + 2 = n + 1 + 1 /\ n + 2 - 1 = n + 1 /\ n + 1 \in 1 .. n + 1
            /\ n + 2 # 1 /\ ~(n + 2 <= n + 1) /\ ~(n + 1 <= n) /\ 1 # m + 1
        BY <1>1, <1>2
      <4>1. CASE i = n + 2
        <5>1. lo[rc[1]] = {sep} /\ out[rc[1]] = {k}
          <6>1. lo[rc[1]] = LowOf(rk, {sep}, 1) /\ out[rc[1]] = HighOf(rk, rh, 1)
            <7>1. 1 \in 1 .. m + 1
              BY <1>1
            <7> QED
              BY <2>1, <7>1
          <6> QED
            BY <2>11, <4>0, <6>1 DEF LowOf, HighOf, m
        <5>2. LowOf(nk, cl, i) = {sep} /\ HighOf(nk, {k}, i) = {k}
          BY <2>5, <4>0, <4>1 DEF LowOf, HighOf
        <5> QED
          BY <2>6, <4>0, <4>1, <5>1, <5>2
      <4>2. CASE i # n + 2
        <5>1. /\ i \in 1 .. n + 1 /\ i <= n + 1
              /\ i # 1 => i - 1 \in 1 .. n + 1 /\ i - 1 <= n
              /\ i # n + 1 => i <= n
              /\ i = n + 1 => ~(i <= n)
          BY <1>1, <4>2
        <5>2. LowOf(nk, cl, i) = LowOf(ck, cl, i)
          BY <2>5, <4>2, <5>1 DEF LowOf
        <5>3. HighOf(nk, {k}, i) = HighOf(ck, {sep}, i)
          BY <2>5, <4>0, <4>2, <5>1 DEF HighOf, n
        <5> QED
          BY <2>2, <2>6, <4>2, <5>1, <5>2, <5>3
      <4> QED
        BY <4>1, <4>2
    <3> QED
      BY <2>5, <2>6, <2>10, <3>1, <3>2 DEF KidsPlaced
  <2> QED
    BY <1>9, <1>10, <1>11, <1>14, <2>9, <2>10, <2>12, <2>13 DEF NodePlaced, k, tk, rk
<1> QED
  BY <1>13, <1>14

-----------------------------------------------------------------------------
(* The whole store: lo[id] and hi[id] bound the keys of node id, lo[id] and *)
(* out[id] the slot it has in its parent. The two differ only for the lower *)
(* half of a split that its parent has yet to absorb.                       *)
Placed(st, lo, hi, out) ==
    /\ lo \in [Live(st) -> SUBSET Key]
    /\ hi \in [Live(st) -> SUBSET Key]
    /\ out \in [Live(st) -> SUBSET Key]
    /\ \A id \in Live(st) : NodePlaced(Fetch(st, id), lo[id], hi[id], lo, out)

(* A node depends on the slots of its own children only.                    *)
LEMMA SameSlots ==
    ASSUME NEW node \in AnyNode, NEW l, NEW h, NEW lo, NEW out,
           NodePlaced(node, l, h, lo, out), NEW newLo, NEW newOut,
           \A c \in NodeKids(node) : newLo[c] = lo[c] /\ newOut[c] = out[c]
    PROVE  NodePlaced(node, l, h, newLo, newOut)
<1>1. CASE IsLeaf(node)
  BY <1>1 DEF NodePlaced
<1>2. CASE ~IsLeaf(node)
  <2>1. KidsPlaced(node, l, h, lo, out) /\ KeysPlaced(node.keys, l, h)
    BY <1>2 DEF NodePlaced
  <2>2. node.children \in Seq(NodeId)
    BY <1>2, NodeCases DEF AnyNode
  <2>3. \A i \in 1 .. Len(node.children) : node.children[i] \in NodeKids(node)
    <3>1. DOMAIN node.children = 1 .. Len(node.children)
      BY <2>2, LenProperties
    <3> QED
      BY <1>2, <3>1 DEF NodeKids, Range
  <2>4. KidsPlaced(node, l, h, newLo, newOut)
    BY <2>1, <2>3 DEF KidsPlaced
  <2> QED
    BY <2>1, <2>4 DEF NodePlaced
<1> QED
  BY <1>1, <1>2

(* Nodes outside D stay, and so do the slots of their children: only those  *)
(* in C, children of nodes in D or of no node, get other slots.             *)
Rebinds(st, tops, lv, lo, hi, out, new, newLo, newHi, newOut, D, C) ==
    /\ TreeOK(st, tops, lv)
    /\ Placed(st, lo, hi, out)
    /\ Untouched(st, new, D)
    /\ newLo \in [Live(new) -> SUBSET Key]
    /\ newHi \in [Live(new) -> SUBSET Key]
    /\ newOut \in [Live(new) -> SUBSET Key]
    /\ \A id \in Live(new) \ D : newLo[id] = lo[id] /\ newHi[id] = hi[id]
    /\ C \subseteq tops \cup Links(st, D \cap Live(st))
    /\ \A c \in Live(st) \ C : newLo[c] = lo[c] /\ newOut[c] = out[c]
    /\ \A id \in D \cap Live(new) :
          NodePlaced(Fetch(new, id), newLo[id], newHi[id], newLo, newOut)

(* The nodes of a store stay placed if those that changed, or whose bounds  *)
(* or slots did, are.                                                       *)
LEMMA Rebound ==
    ASSUME NEW st, NEW tops, NEW lv, NEW lo, NEW hi, NEW out,
           NEW new, NEW newLo, NEW newHi, NEW newOut, NEW D, NEW C,
           Rebinds(st, tops, lv, lo, hi, out, new, newLo, newHi, newOut, D, C)
    PROVE  Placed(new, newLo, newHi, newOut)
<1> USE DEF Rebinds
<1>1. ASSUME NEW id \in Live(new) \ D
      PROVE  NodePlaced(Fetch(new, id), newLo[id], newHi[id], newLo, newOut)
  <2>1. id \in Live(st) /\ Fetch(new, id) = Fetch(st, id)
    BY DEF Untouched
  <2>2. Fetch(st, id) \in AnyNode /\ Kids(st, id) \subseteq Live(st) \ tops
    BY <2>1, TreeFacts
  <2>3. \A d \in D \cap Live(st) : Kids(st, d) \cap Kids(st, id) = {}
    BY <2>1 DEF TreeOK, Linked
  <2>4. \A c \in Kids(st, id) : c \in Live(st) \ C
    BY <2>2, <2>3 DEF Links
  <2>5. NodePlaced(Fetch(st, id), lo[id], hi[id], lo, out)
    BY <2>1 DEF Placed
  <2>6. NodePlaced(Fetch(st, id), lo[id], hi[id], newLo, newOut)
    BY <2>2, <2>4, <2>5, SameSlots DEF Kids
  <2> QED
    BY <2>1, <2>6
<1> QED
  BY <1>1 DEF Placed

-----------------------------------------------------------------------------
(* What the writes of a step do to the store.                               *)

(* What a split does to the store,                                          *)
LEMMA SplitStore ==
    ASSUME NEW st \in StoreType, StoreOK(st), Room(st), NEW id \in Live(st),
           NEW lower \in AnyNode, NEW upper \in AnyNode,
           NEW new, new = Alloc(Write(st, id, lower), upper), NEW r, r = AllocId(st)
    PROVE  /\ r \notin Live(st) /\ r # id
           /\ Live(new) = Live(st) \cup {r}
           /\ Untouched(st, new, {id, r})
           /\ Fetch(new, id) = lower /\ Fetch(new, r) = upper
<1> DEFINE mid == Write(st, id, lower)
<1>1. /\ mid \in StoreType /\ StoreOK(mid) /\ Live(mid) = Live(st) /\ Room(mid)
      /\ AllocId(mid) = AllocId(st)
      /\ \A j \in Live(st) : Fetch(mid, j) = IF j = id THEN lower ELSE Fetch(st, j)
  BY WriteProperties
<1>2. new = Alloc(mid, upper)
  OBVIOUS
<1> HIDE DEF mid
<1>3. /\ AllocId(mid) \in NodeId \ Live(mid)
      /\ Live(new) = Live(mid) \cup {AllocId(mid)}
      /\ Fetch(new, AllocId(mid)) = upper
      /\ \A j \in Live(mid) : Fetch(new, j) = Fetch(mid, j)
  BY <1>1, <1>2, AllocProperties
<1> QED
  BY <1>1, <1>3 DEF Untouched

(* what growing the root does,                                              *)
LEMMA GrownStore ==
    ASSUME NEW st \in StoreType, StoreOK(st), Room(st), NEW node \in AnyNode,
           NEW new, new = Alloc(st, node), NEW r, r = AllocId(st)
    PROVE  /\ r \notin Live(st)
           /\ Live(new) = Live(st) \cup {r}
           /\ Untouched(st, new, {r})
           /\ Fetch(new, r) = node
  BY AllocProperties DEF Untouched

(* A rotation: the two siblings a and b and their parent f are written.     *)
RotatesIn(st, a, b, f, an, bn, pn, new, D) ==
    /\ st \in StoreType
    /\ a \in Live(st) /\ b \in Live(st) /\ f \in Live(st)
    /\ a # b /\ a # f /\ b # f
    /\ an \in AnyNode /\ bn \in AnyNode /\ pn \in AnyNode
    /\ new = Write(Write(Write(st, a, an), b, bn), f, pn)
    /\ D = {a, b, f}

(* a rotation,                                                              *)
LEMMA RotatedStore ==
    ASSUME NEW st, NEW a, NEW b, NEW f, NEW an, NEW bn, NEW pn, NEW new, NEW D,
           RotatesIn(st, a, b, f, an, bn, pn, new, D)
    PROVE  /\ Live(new) = Live(st)
           /\ Untouched(st, new, D)
           /\ Fetch(new, a) = an /\ Fetch(new, b) = bn /\ Fetch(new, f) = pn
<1> DEFINE one == Write(st, a, an)
           two == Write(one, b, bn)
<1> SUFFICES ASSUME /\ st \in StoreType
                    /\ a \in Live(st) /\ b \in Live(st) /\ f \in Live(st)
                    /\ a # b /\ a # f /\ b # f
                    /\ an \in AnyNode /\ bn \in AnyNode /\ pn \in AnyNode,
                    new = Write(Write(Write(st, a, an), b, bn), f, pn), D = {a, b, f}
             PROVE  /\ Live(new) = Live(st)
                    /\ Untouched(st, new, D)
                    /\ Fetch(new, a) = an /\ Fetch(new, b) = bn /\ Fetch(new, f) = pn
  BY DEF RotatesIn
<1>1. /\ one \in StoreType /\ Live(one) = Live(st)
      /\ \A x \in Live(st) : Fetch(one, x) = IF x = a THEN an ELSE Fetch(st, x)
  BY WriteProperties
<1>2. new = Write(two, f, pn)
  OBVIOUS
<1> HIDE DEF one
<1>3. /\ two \in StoreType /\ Live(two) = Live(st)
      /\ \A x \in Live(st) : Fetch(two, x) = IF x = b THEN bn ELSE Fetch(one, x)
  BY <1>1, WriteProperties
<1> HIDE DEF two
<1>4. /\ Live(new) = Live(st)
      /\ \A x \in Live(st) : Fetch(new, x) = IF x = f THEN pn ELSE Fetch(two, x)
  BY <1>2, <1>3, WriteProperties
<1> QED
  BY <1>1, <1>3, <1>4 DEF Untouched

(* A merge: node b is given up, node a and its parent f are written.        *)
MergesInto(st, a, b, f, an, pn, new, D) ==
    /\ st \in StoreType /\ StoreOK(st)
    /\ a \in Live(st) /\ b \in Live(st) /\ f \in Live(st)
    /\ a # b /\ a # f /\ b # f /\ an \in AnyNode /\ pn \in AnyNode
    /\ new = Write(Reclaim(Write(st, f, pn), b), a, an)
    /\ D = {a, f}

(* and a merge.                                                             *)
LEMMA MergedStore ==
    ASSUME NEW st, NEW a, NEW b, NEW f, NEW an, NEW pn, NEW new, NEW D,
           MergesInto(st, a, b, f, an, pn, new, D)
    PROVE  /\ Live(new) = Live(st) \ {b}
           /\ Untouched(st, new, D)
           /\ Fetch(new, a) = an /\ Fetch(new, f) = pn
<1> DEFINE one == Write(st, f, pn)
           two == Reclaim(one, b)
<1> SUFFICES ASSUME /\ st \in StoreType /\ StoreOK(st)
                    /\ a \in Live(st) /\ b \in Live(st) /\ f \in Live(st)
                    /\ a # b /\ a # f /\ b # f /\ an \in AnyNode /\ pn \in AnyNode,
                    new = Write(Reclaim(Write(st, f, pn), b), a, an), D = {a, f}
             PROVE  /\ Live(new) = Live(st) \ {b}
                    /\ Untouched(st, new, D)
                    /\ Fetch(new, a) = an /\ Fetch(new, f) = pn
  BY DEF MergesInto
<1>1. /\ one \in StoreType /\ StoreOK(one) /\ Live(one) = Live(st)
      /\ \A x \in Live(st) : Fetch(one, x) = IF x = f THEN pn ELSE Fetch(st, x)
  BY WriteProperties
<1>2. new = Write(two, a, an)
  OBVIOUS
<1> HIDE DEF one
<1>3. /\ two \in StoreType /\ Live(two) = Live(st) \ {b}
      /\ \A x \in Live(st) \ {b} : Fetch(two, x) = Fetch(one, x)
  BY <1>1, ReclaimProperties, EmptyLeafIsNode
<1> HIDE DEF two
<1>4. /\ Live(new) = Live(st) \ {b}
      /\ \A x \in Live(st) \ {b} : Fetch(new, x) = IF x = a THEN an ELSE Fetch(two, x)
  BY <1>2, <1>3, WriteProperties
<1> QED
  BY <1>1, <1>3, <1>4 DEF Untouched

-----------------------------------------------------------------------------
(* The inductive invariant: the nodes are placed, the root owns all keys,   *)
(* the key of a call on its way down belongs to the node the call is at,    *)
(* and a pending right half owns what its left half gave up.                *)
Ordered(lo, hi, out) ==
    /\ Placed(store, lo, hi, out)
    /\ lo[root] = {} /\ out[root] = {}
    /\ pc = "descend" => InRange(arg.key, lo[cur], hi[cur])
    /\ IF pc = "absorb"
       THEN /\ out = [hi EXCEPT ![cur] = hi[split.right]]
            /\ lo[split.right] = {split.sep} /\ hi[cur] = {split.sep}
            /\ Between(split.sep, lo[cur], out[cur])
       ELSE out = hi

(* No split is pending when a call returns.                                 *)
LEMMA OrderedReturns ==
    ASSUME NEW lo, NEW hi, Placed(store', lo, hi, hi), pc' \in {"idle", "rebalance"},
           lo[root'] = {}, hi[root'] = {}
    PROVE  Ordered(lo, hi, hi)'
  BY DEF Ordered

(* One empty leaf owns every key.                                           *)
LEMMA ResetPlaced ==
    ASSUME NEW lo, lo = [j \in Live(ResetStore) |-> {}]
    PROVE  /\ Placed(ResetStore, lo, lo, lo)
           /\ lo[AllocId(EmptyStore)] = {}
<1>1. /\ AllocId(EmptyStore) = 1 /\ Live(ResetStore) = {1}
      /\ Fetch(ResetStore, 1) = EmptyLeaf
  BY ResetProperties, EmptyLeafIsNode
<1>2. IsLeaf(EmptyLeaf) /\ EmptyLeaf.keys = <<>>
  BY DEF EmptyLeaf, Leaf, IsLeaf
<1>3. KeysPlaced(<<>>, {}, {})
  <2>1. <<>> \in Seq(Key) /\ Len(<<>>) = 0
    BY EmptySeq
  <2>2. \A j \in 1 .. 0 : FALSE
    OBVIOUS
  <2> QED
    BY <2>1, <2>2, KeysAreOrdered DEF KeysPlaced
<1> QED
  BY <1>1, <1>2, <1>3 DEF Placed, NodePlaced

(* The child a key is sent to owns the key.                                 *)
LEMMA ChildOwns ==
    ASSUME NEW p, NEW l, NEW h, NEW lo, NEW out, Parented(p, l, h, lo, out),
           NEW k \in Key, InRange(k, l, h)
    PROVE  LET i == ChildIndex(p, k)
           IN  /\ i \in 1 .. Len(p.children)
               /\ InRange(k, lo[p.children[i]], out[p.children[i]])
<1> DEFINE keys == p.keys
           n == Len(keys)
           j == Position(keys, k)
           i == ChildIndex(p, k)
<1>1. /\ keys \in Seq(Key) /\ n \in Nat /\ k \in Int
      /\ \A x \in 1 .. n : keys[x] \in Int
      /\ \A x, y \in 1 .. n : x < y => keys[x] < keys[y]
      /\ Len(p.children) = n + 1
      /\ \A x \in 1 .. n + 1 : /\ lo[p.children[x]] = LowOf(keys, l, x)
                               /\ out[p.children[x]] = HighOf(keys, h, x)
  BY ParentFacts, KeyAssumption
<1>2. /\ j \in 1 .. n + 1
      /\ j > 1 => keys[j - 1] < k
      /\ j <= n => k <= keys[j]
  BY <1>1, PositionProperties
<1>3. i = j + (IF j <= n /\ keys[j] = k THEN 1 ELSE 0)
  BY DEF ChildIndex, Found
<1> HIDE DEF keys, n, j, i
<1>4. i \in 1 .. n + 1
  BY <1>1, <1>2, <1>3
<1>5. /\ i > 1 => i - 1 \in 1 .. n /\ keys[i - 1] <= k
      /\ i <= n => i \in 1 .. n /\ k < keys[i]
  <2>1. CASE j <= n /\ keys[j] = k
    <3>1. i = j + 1 /\ j \in 1 .. n /\ i - 1 = j
      BY <1>1, <1>2, <1>3, <2>1
    <3>2. i <= n => i \in 1 .. n /\ j < i
      BY <1>1, <3>1
    <3> QED
      BY <1>1, <2>1, <3>1, <3>2
  <2>2. CASE ~(j <= n /\ keys[j] = k)
    <3>1. i = j
      BY <1>2, <1>3, <2>2
    <3>2. (i > 1 => i - 1 \in 1 .. n) /\ (i <= n => i \in 1 .. n)
      BY <1>1, <1>2, <3>1
    <3> QED
      BY <1>1, <1>2, <2>2, <3>1, <3>2
  <2> QED
    BY <2>1, <2>2
<1>6. \A b \in LowOf(keys, l, i) : b <= k
  <2>1. i = 1 \/ (i # 1 /\ i > 1)
    BY <1>1, <1>4
  <2> QED
    BY <1>5, <2>1 DEF LowOf, InRange
<1>7. \A b \in HighOf(keys, h, i) : k < b
  <2>1. i = n + 1 \/ (i # n + 1 /\ i <= n)
    BY <1>1, <1>4
  <2> QED
    BY <1>5, <2>1 DEF HighOf, InRange, n
<1> QED
  BY <1>1, <1>4, <1>6, <1>7 DEF InRange, i, keys

(* An internal node of the store and the slots of its children.             *)
LEMMA StoreParent ==
    ASSUME NEW tops, NEW lv, TreeOK(store, tops, lv),
           NEW lo, NEW hi, NEW out, Placed(store, lo, hi, out),
           NEW id \in Live(store), ~IsLeaf(Fetch(store, id))
    PROVE  Parented(Fetch(store, id), lo[id], hi[id], lo, out)
<1>2. Fetch(store, id) \in AnyNode /\ ShapeOK(Fetch(store, id))
  BY TreeFacts
<1> QED
  BY <1>2 DEF Placed, Parented

(* A search goes down to the child whose slot holds its key.                *)
LEMMA DescendOrdered ==
    ASSUME NEW lv, Inductive(lv), NEW lo, NEW hi, NEW out, Ordered(lo, hi, out), Descend
    PROVE  Ordered(lo, hi, out)'
<1> DEFINE p == Node(cur)
           i == ChildIndex(p, arg.key)
<1>1. /\ pc = "descend" /\ ~IsLeaf(p) /\ cur' = p.children[i]
      /\ store' = store /\ root' = root /\ pc' = pc /\ arg' = arg /\ split' = split
  BY DEF Descend, tree
<1>2. cur \in Live(store) /\ arg.key \in Key
  BY <1>1, CallFacts
<1>3. Placed(store, lo, hi, out) /\ InRange(arg.key, lo[cur], hi[cur]) /\ out = hi
      /\ lo[root] = {} /\ out[root] = {}
  BY <1>1 DEF Ordered
<1>4. Parented(p, lo[cur], hi[cur], lo, out)
  <2>1. TreeOK(store, {root} \cup Pending, lv)
    BY DEF Inductive
  <2> QED
    BY <1>1, <1>2, <1>3, <2>1, StoreParent DEF Node
<1> HIDE DEF p
<1>5. InRange(arg.key, lo[p.children[i]], out[p.children[i]])
  BY <1>2, <1>3, <1>4, ChildOwns
<1> QED
  BY <1>1, <1>3, <1>5 DEF Ordered

(* A leaf is written anew, with keys it may hold.                           *)
LEMMA LeafRewritten ==
    ASSUME NEW lv, Inductive(lv), NEW lo, NEW hi, NEW out, Ordered(lo, hi, out),
           pc # "absorb", NEW id \in Live(store), NEW node \in AnyNode, IsLeaf(node),
           KeysPlaced(node.keys, lo[id], hi[id]),
           store' = Write(store, id, node), root' = root, pc' \in {"idle", "rebalance"}
    PROVE  Ordered(lo, hi, hi)'
<1>1. TreeOK(store, {root} \cup Pending, lv) /\ store \in StoreType
  BY CallFacts DEF Inductive
<1>2. Placed(store, lo, hi, hi) /\ lo[root] = {} /\ hi[root] = {}
  BY DEF Ordered
<1>3. /\ Live(store') = Live(store) /\ Untouched(store, store', {id})
      /\ Fetch(store', id) = node
  BY <1>1, WriteUntouched
<1>4. NodePlaced(node, lo[id], hi[id], lo, hi)
  BY DEF NodePlaced
<1>5. /\ lo \in [Live(store') -> SUBSET Key] /\ hi \in [Live(store') -> SUBSET Key]
  BY <1>2, <1>3 DEF Placed
<1>6. Rebinds(store, {root} \cup Pending, lv, lo, hi, hi, store', lo, hi, hi, {id}, {})
  BY <1>1, <1>2, <1>3, <1>4, <1>5 DEF Rebinds
<1>7. Placed(store', lo, hi, hi)
  BY <1>6, Rebound
<1> QED
  BY <1>2, <1>7, OrderedReturns

(* A leaf is rewritten and the call returns.                                *)
LEMMA LeafOrdered ==
    ASSUME NEW lv, Inductive(lv), NEW lo, NEW hi, NEW out, Ordered(lo, hi, out),
           pc = "descend", NEW node \in AnyNode, IsLeaf(node),
           KeysPlaced(node.keys, lo[cur], hi[cur]),
           store' = Write(store, cur, node), root' = root, pc' \in {"idle", "rebalance"}
    PROVE  Ordered(lo, hi, hi)'
<1>1. cur \in Live(store)
  BY CallFacts
<1> QED
  BY <1>1, LeafRewritten

(* The key of the call is within the bounds of the leaf it came to.         *)
LEMMA LeafBounds ==
    ASSUME NEW lv, Inductive(lv), NEW lo, NEW hi, NEW out, Ordered(lo, hi, out),
           pc = "descend", IsLeaf(Node(cur))
    PROVE  /\ Node(cur) \in AnyNode /\ ShapeOK(Node(cur)) /\ cur \in Live(store)
           /\ lo[cur] \in SUBSET Key /\ hi[cur] \in SUBSET Key
           /\ KeysPlaced(Node(cur).keys, lo[cur], hi[cur])
           /\ arg.key \in Key /\ InRange(arg.key, lo[cur], hi[cur])
<1>1. Node(cur) \in AnyNode /\ ShapeOK(Node(cur)) /\ cur \in Live(store) /\ arg.key \in Key
  BY CallFacts
<1> QED
  BY <1>1 DEF Ordered, Placed, NodePlaced, Node

(* Each action of a call keeps the order.                                   *)
LEMMA InsertReplaceOrdered ==
    ASSUME NEW lv, Inductive(lv), NEW lo, NEW hi, NEW out, Ordered(lo, hi, out), InsertReplace
    PROVE  Ordered(lo, hi, hi)'
<1> DEFINE leaf == Node(cur)
           vals == ReplaceAt(leaf.vals, Position(leaf.keys, arg.key), arg.val)
           node == Leaf(leaf.keys, vals)
<1>1. /\ pc = "descend" /\ arg.op = "insert" /\ IsLeaf(leaf) /\ HasKey
      /\ store' = Write(store, cur, node) /\ root' = root /\ pc' = "idle"
  BY DEF InsertReplace, AtLeaf, Return
<1>2. /\ leaf.keys \in Seq(Key) /\ leaf.vals \in Seq(Val) /\ arg.val \in Val
      /\ Len(leaf.vals) = Len(leaf.keys)
      /\ Position(leaf.keys, arg.key) \in 1 .. Len(leaf.keys)
  BY <1>1, LeafFacts
<1>3. KeysPlaced(leaf.keys, lo[cur], hi[cur])
  BY <1>1, LeafBounds
<1> HIDE DEF leaf
<1>4. vals \in Seq(Val)
  BY <1>2, ExceptSeq DEF ReplaceAt
<1>5. node \in AnyNode /\ IsLeaf(node) /\ node.keys = leaf.keys
  <2> HIDE DEF vals
  <2> QED
    BY <1>2, <1>4, LeafIsNode DEF AnyNode
<1> HIDE DEF node
<1>6. KeysPlaced(node.keys, lo[cur], hi[cur])
  BY <1>3, <1>5
<1> QED
  BY <1>1, <1>5, <1>6, LeafOrdered

LEMMA InsertFitsOrdered ==
    ASSUME NEW lv, Inductive(lv), NEW lo, NEW hi, NEW out, Ordered(lo, hi, out), InsertFits
    PROVE  Ordered(lo, hi, hi)'
<1> DEFINE node == LeafWith(Node(cur), arg.key, arg.val)
<1>1. /\ pc = "descend" /\ arg.op = "insert" /\ IsLeaf(Node(cur)) /\ ~HasKey
      /\ store' = Write(store, cur, node) /\ root' = root /\ pc' = "idle"
  BY DEF InsertFits, AtLeaf, Return
<1>2. arg.val \in Val
  BY <1>1, LeafFacts
<1>3. KeysPlaced(node.keys, lo[cur], hi[cur])
  BY <1>1, LeafBounds, LeafWithPlaced DEF HasKey
<1>4. node \in AnyNode /\ IsLeaf(node)
  BY <1>1, <1>2, LeafBounds, LeafWithProperties DEF ShapeOK, AnyNode
<1> HIDE DEF node
<1> QED
  BY <1>1, <1>3, <1>4, LeafOrdered

LEMMA RemoveEntryOrdered ==
    ASSUME NEW lv, Inductive(lv), NEW lo, NEW hi, NEW out, Ordered(lo, hi, out), RemoveEntry
    PROVE  Ordered(lo, hi, hi)'
<1> DEFINE node == LeafWithout(Node(cur), arg.key)
<1>1. /\ pc = "descend" /\ IsLeaf(Node(cur)) /\ HasKey
      /\ store' = Write(store, cur, node) /\ root' = root /\ pc' = "rebalance"
  BY DEF RemoveEntry, AtLeaf
<1>2. KeysPlaced(node.keys, lo[cur], hi[cur])
  BY <1>1, LeafBounds, LeafWithoutPlaced DEF HasKey
<1>3. node \in AnyNode /\ IsLeaf(node)
  BY <1>1, LeafBounds, LeafWithoutProperties DEF ShapeOK, AnyNode, HasKey
<1> HIDE DEF node
<1> QED
  BY <1>1, <1>2, <1>3, LeafOrdered

(* A node on the way up is split at sep; only slots of its own children, or *)
(* of nodes without a parent, were not yet up to date.                      *)
LEMMA SplitOrdered ==
    ASSUME NEW lv, Inductive(lv), NEW lo, NEW hi, NEW out, Placed(store, lo, hi, out),
           NEW id \in Live(store), NEW lower \in AnyNode, NEW upper \in AnyNode,
           NEW sep \in Key, Between(sep, lo[id], hi[id]),
           NodeKids(lower) \cup NodeKids(upper) \subseteq Live(store),
           NodePlaced(lower, lo[id], {sep}, lo, hi),
           NodePlaced(upper, {sep}, hi[id], lo, hi),
           \A c \in Live(store) : out[c] # hi[c] => c \in {root} \cup Pending \cup Kids(store, id),
           lo[root] = {}, hi[root] = {}, Room(store),
           store' = Alloc(Write(store, id, lower), upper),
           split' = [sep |-> sep, right |-> AllocId(store)],
           root' = root, cur' = id, pc' = "absorb"
    PROVE  \E newLo, newHi, newOut : Ordered(newLo, newHi, newOut)'
<1> DEFINE r == AllocId(store)
           tops == {root} \cup Pending
           D == {id, r}
           C == {c \in Live(store) : out[c] # hi[c]}
<1>1. /\ TreeOK(store, tops, lv) /\ store \in StoreType /\ StoreOK(store)
      /\ root \in Live(store)
  BY CallFacts DEF Inductive
<1>2. /\ r \notin Live(store) /\ r # id
      /\ Live(store') = Live(store) \cup {r}
      /\ Untouched(store, store', D)
      /\ Fetch(store', id) = lower /\ Fetch(store', r) = upper
  BY <1>1, SplitStore
<1>3. /\ lo \in [Live(store) -> SUBSET Key] /\ hi \in [Live(store) -> SUBSET Key]
  BY DEF Placed
<1>4. {sep} \in SUBSET Key /\ lo[id] \in SUBSET Key /\ hi[id] \in SUBSET Key
  BY <1>3
<1>5. PICK newLo : newLo = [x \in Live(store') |-> IF x = r THEN {sep} ELSE lo[x]]
  OBVIOUS
<1>6. PICK newHi : newHi = [x \in Live(store') |-> IF x = r THEN hi[id]
                                                   ELSE IF x = id THEN {sep} ELSE hi[x]]
  OBVIOUS
<1>7. PICK newOut : newOut = [newHi EXCEPT ![id] = newHi[r]]
  OBVIOUS
<1> HIDE DEF r
<1>8. /\ newLo \in [Live(store') -> SUBSET Key]
      /\ newHi \in [Live(store') -> SUBSET Key]
      /\ newOut \in [Live(store') -> SUBSET Key]
  BY <1>2, <1>3, <1>4, <1>5, <1>6, <1>7
<1>9. /\ newLo[r] = {sep} /\ newHi[r] = hi[id] /\ newHi[id] = {sep}
      /\ newOut[id] = hi[id]
      /\ \A x \in Live(store) : newLo[x] = lo[x] /\ newOut[x] = hi[x]
      /\ \A x \in Live(store) : x # id => newHi[x] = hi[x]
  BY <1>2, <1>5, <1>6, <1>7
<1>10. /\ NodePlaced(lower, lo[id], {sep}, newLo, newOut)
       /\ NodePlaced(upper, {sep}, hi[id], newLo, newOut)
  BY <1>9, SameSlots
<1>11. C \subseteq tops \cup Links(store, D \cap Live(store))
  BY DEF Links
<1>12. \A x \in Live(store') \ D : newLo[x] = lo[x] /\ newHi[x] = hi[x]
  BY <1>2, <1>9
<1>13. \A c \in Live(store) \ C : newLo[c] = lo[c] /\ newOut[c] = out[c]
  BY <1>9
<1>14. \A x \in D \cap Live(store') :
           NodePlaced(Fetch(store', x), newLo[x], newHi[x], newLo, newOut)
  BY <1>2, <1>9, <1>10
<1> HIDE DEF C, D, tops
<1>15. Rebinds(store, tops, lv, lo, hi, out, store', newLo, newHi, newOut, D, C)
  BY <1>1, <1>2, <1>8, <1>11, <1>12, <1>13, <1>14 DEF Rebinds
<1>16. Placed(store', newLo, newHi, newOut)
  BY <1>15, Rebound
<1>17. split'.right = r /\ split'.sep = sep
  BY DEF r
<1>18. Ordered(newLo, newHi, newOut)'
  BY <1>1, <1>7, <1>9, <1>16, <1>17 DEF Ordered
<1> QED
  BY <1>18

LEMMA InsertSplitOrdered ==
    ASSUME NEW lv, Inductive(lv), NEW lo, NEW hi, NEW out, Ordered(lo, hi, out), InsertSplit
    PROVE  \E newLo, newHi, newOut : Ordered(newLo, newHi, newOut)'
<1> DEFINE full == LeafWith(Node(cur), arg.key, arg.val)
           n == KeysLen(full)
           mid == n \div 2
           lower == Leaf(SubSeq(full.keys, 1, mid), SubSeq(full.vals, 1, mid))
           upper == Leaf(SubSeq(full.keys, mid + 1, n), SubSeq(full.vals, mid + 1, n))
           sep == Head(upper.keys)
<1>1. /\ pc = "descend" /\ arg.op = "insert" /\ IsLeaf(Node(cur)) /\ ~HasKey
      /\ KeysLen(Node(cur)) + 1 >= Order
      /\ Room(store)
      /\ store' = Alloc(Write(store, cur, lower), upper)
      /\ split' = [sep |-> sep, right |-> AllocId(store)]
      /\ pc' = "absorb" /\ root' = root /\ cur' = cur
  BY DEF InsertSplit, AtLeaf
<1>2. /\ cur \in Live(store) /\ arg.val \in Val
      /\ Node(cur) \in AnyNode /\ ShapeOK(Node(cur))
      /\ lo[cur] \in SUBSET Key /\ hi[cur] \in SUBSET Key
      /\ KeysPlaced(Node(cur).keys, lo[cur], hi[cur])
      /\ arg.key \in Key /\ InRange(arg.key, lo[cur], hi[cur])
  BY <1>1, LeafBounds, LeafFacts
<1>3. KeysPlaced(full.keys, lo[cur], hi[cur])
  BY <1>1, <1>2, LeafWithPlaced DEF HasKey
<1>4. /\ full \in AnyNode /\ IsLeaf(full) /\ ShapeOK(full)
      /\ n = KeysLen(Node(cur)) + 1
  BY <1>1, <1>2, LeafWithProperties DEF ShapeOK, AnyNode
<1>5. n \in Nat /\ n >= 2
  BY <1>1, <1>2, <1>4, NodeCases, OrderAssumption DEF AnyNode
<1> HIDE DEF full
<1>6. mid \in 1 .. n - 1
  <2> HIDE DEF n
  <2> QED
    BY <1>5, HalfProperties
<1>7. n = Len(full.keys) /\ full.keys \in Seq(Key)
  BY <1>4, NodeCases DEF KeysLen, AnyNode
<1> HIDE DEF n, mid
<1>8. /\ lower \in AnyNode /\ upper \in AnyNode
      /\ IsLeaf(lower) /\ IsLeaf(upper)
      /\ NodeKids(lower) = {} /\ NodeKids(upper) = {}
  <2>1. n = KeysLen(full)
    BY <1>7 DEF KeysLen
  <2> QED
    BY <1>4, <1>6, <2>1, CutLeaf DEF AnyNode
<1>9. lower.keys = SubSeq(full.keys, 1, mid) /\ upper.keys = SubSeq(full.keys, mid + 1, n)
  BY DEF Leaf
<1>10. sep = full.keys[mid + 1]
  <2>1. mid + 1 \in Nat /\ n \in Nat /\ 1 <= mid + 1 /\ n <= Len(full.keys)
        /\ mid + 1 <= n + 1 /\ n + 1 - (mid + 1) >= 1
    <3>1. n <= Len(full.keys)
      BY <1>5, <1>7
    <3> QED
      BY <1>5, <1>6, <3>1
  <2> DEFINE t == SubSeq(full.keys, mid + 1, n)
  <2>2. /\ t \in Seq(Key) /\ Len(t) = n + 1 - (mid + 1)
        /\ \A x \in 1 .. n + 1 - (mid + 1) : t[x] = full.keys[x + (mid + 1) - 1]
    BY <1>7, <2>1, CutProperties
  <2>3. t # <<>> /\ 1 \in 1 .. n + 1 - (mid + 1) /\ 1 + (mid + 1) - 1 = mid + 1
    <3> HIDE DEF t
    <3>1. Len(t) # 0
      BY <1>5, <1>6, <2>1, <2>2
    <3>2. t # <<>>
      BY <3>1, EmptySeq
    <3> QED
      BY <1>5, <1>6, <2>1, <3>2
  <2>4. sep = Head(t)
    BY <1>9
  <2> HIDE DEF t, sep
  <2>5. Head(t) = t[1]
    BY <2>2, <2>3
  <2> QED
    BY <2>2, <2>3, <2>4, <2>5
<1>11. /\ sep \in Key /\ Between(sep, lo[cur], hi[cur])
       /\ KeysPlaced(lower.keys, lo[cur], {sep})
       /\ KeysPlaced(upper.keys, {sep}, hi[cur])
  <2> HIDE DEF lower, upper, sep
  <2> QED
    BY <1>2, <1>3, <1>6, <1>7, <1>9, <1>10, HalvesPlaced
<1> HIDE DEF lower, upper, sep
<1>12. /\ NodePlaced(lower, lo[cur], {sep}, lo, hi)
       /\ NodePlaced(upper, {sep}, hi[cur], lo, hi)
  BY <1>8, <1>11 DEF NodePlaced
<1>13. Placed(store, lo, hi, hi) /\ lo[root] = {} /\ hi[root] = {}
  BY <1>1 DEF Ordered
<1> QED
  BY <1>1, <1>2, <1>8, <1>11, <1>12, <1>13, SplitOrdered

(* The parent of a split with the separator linked in: every slot is up to  *)
(* date again.                                                              *)
LEMMA AbsorbedPlaced ==
    ASSUME NEW lv, Inductive(lv), NEW lo, NEW hi, NEW out, Ordered(lo, hi, out),
           pc = "absorb", path # <<>>
    PROVE  LET f == Last(path).id
           IN  /\ f \in Live(store)
               /\ lo[f] \in SUBSET Key /\ hi[f] \in SUBSET Key
               /\ NodePlaced(Absorbed, lo[f], hi[f], lo, hi)
               /\ cur \in Kids(store, f)
               /\ \A c \in Live(store) : out[c] # hi[c] => c = cur
               /\ Placed(store, lo, hi, out)
               /\ lo[root] = {} /\ hi[root] = {}
<1> DEFINE f == Last(path).id
           i == Last(path).idx
           p == Node(f)
           r == split.right
           sep == split.sep
<1>1. /\ path \in Seq(Frame) /\ lv \in [Live(store) -> Nat]
      /\ Framed(store, root, path, cur, lv)
      /\ sep \in Key /\ r \in NodeId /\ Pending = {r}
      /\ root \in Live(store) /\ cur \in Live(store)
  BY CallFacts
<1>2. /\ f \in Live(store) /\ ~IsLeaf(p)
      /\ i \in 1 .. Len(p.children) /\ cur = p.children[i]
  BY <1>1, LastFrame DEF Node
<1>3. Absorbed = Internal(InsertAt(p.keys, i, sep), InsertAt(p.children, i + 1, r))
  BY DEF Absorbed
<1> HIDE DEF i, f
<1>4. /\ Placed(store, lo, hi, out)
      /\ out = [hi EXCEPT ![cur] = hi[r]]
      /\ lo[r] = {sep} /\ hi[cur] = {sep}
      /\ Between(sep, lo[cur], out[cur])
      /\ lo[root] = {} /\ out[root] = {}
  BY DEF Ordered
<1>5. lo \in [Live(store) -> SUBSET Key] /\ hi \in [Live(store) -> SUBSET Key]
  BY <1>4 DEF Placed
<1>6. out[cur] = hi[r] /\ \A c \in Live(store) : c # cur => out[c] = hi[c]
  BY <1>1, <1>4, <1>5
<1>7. /\ Kids(store, f) \subseteq Live(store) \ ({root} \cup Pending)
      /\ NodeKids(p) = Kids(store, f)
  <2>1. TreeOK(store, {root} \cup Pending, lv)
    BY DEF Inductive
  <2> QED
    BY <1>2, <2>1, TreeFacts DEF Kids, Node
<1>8. Parented(p, lo[f], hi[f], lo, out)
  <2>1. TreeOK(store, {root} \cup Pending, lv)
    BY DEF Inductive
  <2> QED
    BY <1>2, <1>4, <2>1, StoreParent DEF Node
<1>9. cur \in Kids(store, f)
  <2>1. p.children \in Seq(NodeId)
    BY <1>8, ParentSlots
  <2>2. i \in DOMAIN p.children
    BY <1>2, <2>1, LenProperties
  <2> QED
    BY <1>2, <1>7, <2>2 DEF NodeKids, Range
<1> HIDE DEF p, r, sep
<1>10. NodePlaced(Absorbed, lo[f], hi[f], lo, hi)
  <2>1. r \notin NodeKids(p)
    BY <1>1, <1>7
  <2>2. /\ hi[r] = out[cur] /\ lo[cur] = lo[cur]
        /\ \A x \in NodeKids(p) : x # cur => lo[x] = lo[x] /\ hi[x] = out[x]
    BY <1>6, <1>7
  <2>3. LinksNew(p, lo[f], hi[f], lo, out, i, sep, cur, r, Absorbed, lo, hi)
    BY <1>1, <1>2, <1>3, <1>4, <1>8, <2>1, <2>2 DEF LinksNew
  <2> QED
    BY <2>3, LinkPlaced
<1>11. hi[root] = {}
  <2>1. root # cur
    BY <1>7, <1>9
  <2> QED
    BY <1>1, <1>4, <1>6, <2>1
<1> QED
  BY <1>2, <1>4, <1>5, <1>6, <1>9, <1>10, <1>11 DEF f

LEMMA AbsorbFitsOrdered ==
    ASSUME NEW lv, Inductive(lv), NEW lo, NEW hi, NEW out, Ordered(lo, hi, out), AbsorbFits
    PROVE  Ordered(lo, hi, hi)'
<1> DEFINE f == Last(path).id
           tops == {root} \cup Pending
<1>1. /\ pc = "absorb" /\ path # <<>>
      /\ store' = Write(store, f, Absorbed) /\ root' = root /\ pc' = "idle"
  BY DEF AbsorbFits, Return
<1>2. /\ f \in Live(store) /\ Absorbed \in AnyNode
      /\ NodePlaced(Absorbed, lo[f], hi[f], lo, hi)
      /\ cur \in Kids(store, f)
      /\ \A c \in Live(store) : out[c] # hi[c] => c = cur
      /\ Placed(store, lo, hi, out)
      /\ lo[root] = {} /\ hi[root] = {}
  BY <1>1, AbsorbFacts, AbsorbedPlaced
<1>3. TreeOK(store, tops, lv) /\ store \in StoreType
  BY CallFacts DEF Inductive
<1> HIDE DEF f, tops
<1>4. /\ Live(store') = Live(store) /\ Untouched(store, store', {f})
      /\ Fetch(store', f) = Absorbed
  BY <1>1, <1>2, <1>3, WriteUntouched
<1>5. lo \in [Live(store') -> SUBSET Key] /\ hi \in [Live(store') -> SUBSET Key]
  BY <1>2, <1>4 DEF Placed
<1>6. {cur} \subseteq tops \cup Links(store, {f} \cap Live(store))
  BY <1>2 DEF Links
<1>7. Rebinds(store, tops, lv, lo, hi, out, store', lo, hi, hi, {f}, {cur})
  BY <1>2, <1>3, <1>4, <1>5, <1>6 DEF Rebinds
<1>8. Placed(store', lo, hi, hi)
  BY <1>7, Rebound
<1> QED
  BY <1>1, <1>2, <1>8, OrderedReturns

LEMMA AbsorbSplitOrdered ==
    ASSUME NEW lv, Inductive(lv), NEW lo, NEW hi, NEW out, Ordered(lo, hi, out), AbsorbSplit
    PROVE  \E newLo, newHi, newOut : Ordered(newLo, newHi, newOut)'
<1> DEFINE f == Last(path).id
           full == Absorbed
           n == KeysLen(full)
           mid == n \div 2
           lower == Internal(SubSeq(full.keys, 1, mid),
                             SubSeq(full.children, 1, mid + 1))
           upper == Internal(SubSeq(full.keys, mid + 2, n),
                             SubSeq(full.children, mid + 2, n + 1))
           sep == full.keys[mid + 1]
<1>1. /\ pc = "absorb" /\ path # <<>> /\ n >= Order /\ Room(store)
      /\ store' = Alloc(Write(store, f, lower), upper)
      /\ split' = [sep |-> sep, right |-> AllocId(store)]
      /\ cur' = f /\ root' = root /\ pc' = "absorb"
  BY DEF AbsorbSplit, Ascend
<1>2. /\ f \in Live(store)
      /\ full \in AnyNode /\ ShapeOK(full) /\ ~IsLeaf(full)
      /\ NodeKids(full) = Kids(store, f) \cup Pending
  BY <1>1, AbsorbFacts
<1>3. /\ NodePlaced(full, lo[f], hi[f], lo, hi)
      /\ lo[f] \in SUBSET Key /\ hi[f] \in SUBSET Key
      /\ cur \in Kids(store, f)
      /\ \A c \in Live(store) : out[c] # hi[c] => c = cur
      /\ Placed(store, lo, hi, out)
      /\ lo[root] = {} /\ hi[root] = {}
  BY <1>1, AbsorbedPlaced
<1> HIDE DEF f, full
<1>4. n \in Nat /\ n >= 2
  BY <1>1, <1>2, NodeCases, OrderAssumption DEF AnyNode
<1>5. mid \in 1 .. n - 1
  <2> HIDE DEF n
  <2> QED
    BY <1>4, HalfProperties
<1>6. n = KeysLen(full)
  OBVIOUS
<1> HIDE DEF n, mid
<1>7. CutAround(full, n, mid, lower, upper)
  BY <1>2, <1>5, <1>6 DEF CutAround
<1> HIDE DEF lower, upper
<1>8. /\ lower \in AnyNode /\ upper \in AnyNode
      /\ NodeKids(lower) \cup NodeKids(upper) = NodeKids(full)
  BY <1>2, <1>7, CutInternal DEF AnyNode
<1>9. /\ sep \in Key /\ Between(sep, lo[f], hi[f])
      /\ NodePlaced(lower, lo[f], {sep}, lo, hi)
      /\ NodePlaced(upper, {sep}, hi[f], lo, hi)
  BY <1>2, <1>3, <1>7, CutInnerPlaced
<1> HIDE DEF sep
<1>10. NodeKids(lower) \cup NodeKids(upper) \subseteq Live(store)
  <2>1. TreeOK(store, {root} \cup Pending, lv)
    BY DEF Inductive
  <2>2. /\ Kids(store, f) \subseteq Live(store) /\ {root} \cup Pending \subseteq Live(store)
    BY <1>2, <2>1, TreeFacts
  <2> QED
    BY <1>2, <1>8, <2>2
<1>11. \A c \in Live(store) : out[c] # hi[c] => c \in {root} \cup Pending \cup Kids(store, f)
  BY <1>3
<1> QED
  BY <1>1, <1>2, <1>3, <1>8, <1>9, <1>10, <1>11, SplitOrdered

LEMMA GrowRootOrdered ==
    ASSUME NEW lv, Inductive(lv), NEW lo, NEW hi, NEW out, Ordered(lo, hi, out), GrowRoot
    PROVE  \E newLo, newHi, newOut : Ordered(newLo, newHi, newOut)'
<1> DEFINE s == split.sep
           c == split.right
           keys == <<s>>
           children == <<root, c>>
           node == Internal(keys, children)
           r == AllocId(store)
           tops == {root} \cup Pending
<1>1. /\ pc = "absorb" /\ path = <<>> /\ Room(store)
      /\ store' = Alloc(store, node) /\ root' = r /\ pc' = "idle"
  BY DEF GrowRoot, Return
<1>2. /\ s \in Key /\ c \in NodeId /\ root \in NodeId
      /\ root # c /\ Pending = {c} /\ c \in Live(store)
      /\ root \in Live(store) /\ cur = root
      /\ store \in StoreType /\ StoreOK(store) /\ TreeOK(store, tops, lv)
  BY <1>1, CallFacts DEF Inductive, Framed
<1>3. /\ Placed(store, lo, hi, out)
      /\ out = [hi EXCEPT ![cur] = hi[c]]
      /\ lo[c] = {s} /\ hi[root] = {s}
      /\ lo[root] = {} /\ out[root] = {}
  BY <1>1, <1>2 DEF Ordered
<1>4. /\ lo \in [Live(store) -> SUBSET Key] /\ hi \in [Live(store) -> SUBSET Key]
      /\ hi[c] = {}
      /\ \A x \in Live(store) : x # root => out[x] = hi[x]
  BY <1>2, <1>3 DEF Placed
<1> HIDE DEF s, c
<1>5. /\ keys \in Seq(Key) /\ children \in Seq(NodeId)
      /\ Len(keys) = 1 /\ Len(children) = 2 /\ keys[1] = s
      /\ children[1] = root /\ children[2] = c
  BY <1>2
<1> HIDE DEF keys, children
<1>6. node \in AnyNode /\ ~IsLeaf(node) /\ node.keys = keys /\ node.children = children
  BY <1>5, InternalIsNode DEF AnyNode
<1> HIDE DEF node
<1>7. /\ r \notin Live(store)
      /\ Live(store') = Live(store) \cup {r}
      /\ Untouched(store, store', {r})
      /\ Fetch(store', r) = node
  BY <1>1, <1>2, <1>6, GrownStore
<1>8. PICK newLo : newLo = [x \in Live(store') |-> IF x = r THEN {} ELSE lo[x]]
  OBVIOUS
<1>9. PICK newHi : newHi = [x \in Live(store') |-> IF x = r THEN {} ELSE hi[x]]
  OBVIOUS
<1> HIDE DEF r
<1>10. /\ newLo \in [Live(store') -> SUBSET Key] /\ newHi \in [Live(store') -> SUBSET Key]
       /\ newLo[r] = {} /\ newHi[r] = {}
       /\ \A x \in Live(store) : newLo[x] = lo[x] /\ newHi[x] = hi[x]
  BY <1>4, <1>7, <1>8, <1>9
<1>11. NodePlaced(node, {}, {}, newLo, newHi)
  <2>1. KeysPlaced(keys, {}, {})
    <3>1. \A i, j \in 1 .. 1 : ~(i < j)
      OBVIOUS
    <3> QED
      BY <1>5, <3>1, KeysAreOrdered DEF KeysPlaced, InRange
  <2>2. KidsPlaced(node, {}, {}, newLo, newHi)
    <3>1. ASSUME NEW i \in 1 .. 2
          PROVE  /\ newLo[children[i]] = LowOf(keys, {}, i)
                 /\ newHi[children[i]] = HighOf(keys, {}, i)
      <4>1. CASE i = 1
        <5>1. LowOf(keys, {}, i) = {} /\ HighOf(keys, {}, i) = {s}
          BY <1>5, <4>1 DEF LowOf, HighOf
        <5> QED
          BY <1>2, <1>3, <1>5, <1>10, <4>1, <5>1
      <4>2. CASE i = 2
        <5>1. i - 1 = 1 /\ i = 1 + 1
          BY <4>2
        <5>2. LowOf(keys, {}, i) = {s} /\ HighOf(keys, {}, i) = {}
          BY <1>5, <4>2, <5>1 DEF LowOf, HighOf
        <5>3. newLo[c] = {s} /\ newHi[c] = {}
          BY <1>2, <1>3, <1>4, <1>10
        <5> QED
          BY <1>5, <4>2, <5>2, <5>3
      <4> QED
        BY <4>1, <4>2
    <3>2. \A j \in 1 .. 1 : Between(keys[j], {}, {})
      BY DEF Between
    <3> QED
      BY <1>5, <1>6, <3>1, <3>2 DEF KidsPlaced
  <2> QED
    BY <1>6, <2>1, <2>2 DEF NodePlaced
<1>12. \A x \in Live(store) \ {root} : newLo[x] = lo[x] /\ newHi[x] = out[x]
  BY <1>4, <1>10
<1>13. {root} \subseteq tops \cup Links(store, {r} \cap Live(store))
  OBVIOUS
<1> HIDE DEF tops
<1>14. Rebinds(store, tops, lv, lo, hi, out, store', newLo, newHi, newHi, {r}, {root})
  BY <1>2, <1>3, <1>7, <1>10, <1>11, <1>12, <1>13 DEF Rebinds
<1>15. Placed(store', newLo, newHi, newHi)
  BY <1>14, Rebound
<1>16. Ordered(newLo, newHi, newHi)'
  BY <1>1, <1>10, <1>15, OrderedReturns DEF r
<1> QED
  BY <1>16

-----------------------------------------------------------------------------
(* Two neighbours under the parent of the call, before it repairs.          *)
LEMMA SiblingBounds ==
    ASSUME NEW lv, Inductive(lv), NEW lo, NEW hi, NEW out, Ordered(lo, hi, out),
           pc = "rebalance", path # <<>>,
           NEW i \in 1 .. Len(Siblings), i + 1 \in 1 .. Len(Siblings)
    PROVE  LET f == Last(path).id
               p == Fetch(store, f)
               a == Siblings[i]
               b == Siblings[i + 1]
           IN  /\ Placed(store, lo, hi, hi) /\ lo[root] = {} /\ hi[root] = {}
               /\ f \in Live(store) /\ a \in Live(store) /\ b \in Live(store)
               /\ a # b /\ a # f /\ b # f /\ a # root /\ b # root
               /\ {a, b} \subseteq Kids(store, f)
               /\ Parented(p, lo[f], hi[f], lo, hi)
               /\ i \in 1 .. Len(p.keys)
               /\ Siblings = p.children
               /\ Neighbours(Node(a), Node(b), p.keys[i], lo[a], hi[b], lo, hi)
               /\ NodeKids(Node(a)) \cap NodeKids(Node(b)) = {}
               /\ lo[a] = LowOf(p.keys, lo[f], i)
               /\ hi[b] = HighOf(p.keys, hi[f], i + 1)
               /\ \A c \in NodeKids(Node(a)) \cup NodeKids(Node(b)) : c \in Live(store) \ {a, b}
<1> DEFINE f == Last(path).id
           p == Fetch(store, f)
           keys == p.keys
           n == Len(keys)
           a == Siblings[i]
           b == Siblings[i + 1]
<1>1. /\ TreeOK(store, {root}, lv)
      /\ f \in Live(store) /\ ~IsLeaf(p)
      /\ Siblings = p.children /\ Len(Siblings) = n + 1 /\ n \in Nat
  BY RepairFacts
<1>2. Placed(store, lo, hi, hi) /\ lo[root] = {} /\ hi[root] = {}
  BY DEF Ordered
<1>3. Parented(p, lo[f], hi[f], lo, hi)
  BY <1>1, <1>2, StoreParent
<1>4. i \in 1 .. n /\ i \in 1 .. n + 1 /\ i + 1 \in 1 .. n + 1 /\ i + 1 # 1 /\ i # n + 1
      /\ i + 1 - 1 = i /\ i # i + 1
  BY <1>1
<1>5. /\ a \in Kids(store, f) /\ b \in Kids(store, f) /\ a # b
      /\ a \in Live(store) /\ b \in Live(store)
      /\ Node(a) \in AnyNode /\ Node(b) \in AnyNode
      /\ ShapeOK(Node(a)) /\ ShapeOK(Node(b))
      /\ IsLeaf(Node(a)) <=> IsLeaf(Node(b))
      /\ NodeKids(Node(a)) = Kids(store, a) /\ NodeKids(Node(b)) = Kids(store, b)
      /\ NodeKids(Node(a)) \cap NodeKids(Node(b)) = {}
  BY <1>4, SiblingFacts DEF AnyNode
<1>6. /\ f \notin Kids(store, f) /\ Kids(store, f) \subseteq Live(store) \ {root}
  BY <1>1, TreeFacts
<1>7. /\ Kids(store, a) \subseteq Live(store) /\ Kids(store, b) \subseteq Live(store)
      /\ Kids(store, a) \cap Kids(store, f) = {} /\ Kids(store, b) \cap Kids(store, f) = {}
  BY <1>1, <1>5, <1>6 DEF TreeOK, Linked
<1>8. /\ keys[i] \in Key /\ keys[i] \in Int /\ Between(keys[i], lo[f], hi[f])
      /\ \A x, y \in 1 .. n : x < y => keys[x] < keys[y]
      /\ lo[p.children[i]] = LowOf(keys, lo[f], i)
      /\ hi[p.children[i]] = HighOf(keys, hi[f], i)
      /\ lo[p.children[i + 1]] = LowOf(keys, lo[f], i + 1)
      /\ hi[p.children[i + 1]] = HighOf(keys, hi[f], i + 1)
  BY <1>3, <1>4, ParentFacts, SMTT(30)
<1>9. hi[a] = {keys[i]} /\ lo[b] = {keys[i]}
  BY <1>1, <1>4, <1>8 DEF LowOf, HighOf
<1>10. lo[a] = LowOf(keys, lo[f], i) /\ hi[b] = HighOf(keys, hi[f], i + 1)
  BY <1>1, <1>8
<1> HIDE DEF a, b, f, p, keys
<1>11. Between(keys[i], lo[a], hi[b])
  <2>1. \A x \in lo[a] : x < keys[i]
    <3>1. i = 1 \/ (i # 1 /\ i - 1 \in 1 .. n /\ i - 1 < i)
      BY <1>1, <1>4
    <3> QED
      BY <1>4, <1>8, <1>10, <3>1 DEF LowOf, Between
  <2>2. \A x \in hi[b] : keys[i] < x
    <3>1. i + 1 = n + 1 \/ (i + 1 # n + 1 /\ i + 1 \in 1 .. n /\ i < i + 1)
      BY <1>1, <1>4
    <3> QED
      BY <1>4, <1>8, <1>10, <3>1 DEF HighOf, Between, n
  <2> QED
    BY <2>1, <2>2 DEF Between
<1>12. NodePlaced(Node(a), lo[a], {keys[i]}, lo, hi) /\ NodePlaced(Node(b), {keys[i]}, hi[b], lo, hi)
  BY <1>2, <1>5, <1>9 DEF Placed, Node
<1>13. lo[a] \in SUBSET Key /\ hi[b] \in SUBSET Key
  BY <1>2, <1>5 DEF Placed
<1>14. Neighbours(Node(a), Node(b), keys[i], lo[a], hi[b], lo, hi)
  BY <1>5, <1>8, <1>11, <1>12, <1>13 DEF Neighbours
<1>15. \A c \in NodeKids(Node(a)) \cup NodeKids(Node(b)) : c \in Live(store) \ {a, b}
  BY <1>5, <1>7
<1>16. {a, b} \subseteq Kids(store, f) /\ a # f /\ b # f /\ a # root /\ b # root
  BY <1>5, <1>6
<1> QED
  BY <1>1, <1>2, <1>3, <1>4, <1>5, <1>10, <1>14, <1>15, <1>16 DEF a, b, f, p, keys, n

(* Entries or children move between two neighbours: the bound between them  *)
(* moves with the separator.                                                *)
LEMMA RotationOrdered ==
    ASSUME NEW lv, Inductive(lv), NEW lo, NEW hi, NEW out, Ordered(lo, hi, out),
           pc = "rebalance", path # <<>>, root' = root, pc' = pc,
           NEW i \in 1 .. Len(Siblings), i + 1 \in 1 .. Len(Siblings),
           NEW a, NEW b, a = Siblings[i], b = Siblings[i + 1],
           NEW an \in AnyNode, NEW bn \in AnyNode,
           NodeKids(an) \cup NodeKids(bn) = NodeKids(Node(a)) \cup NodeKids(Node(b)),
           NEW k \in Key, Between(k, lo[a], hi[b]),
           NodePlaced(an, lo[a], {k}, lo, hi), NodePlaced(bn, {k}, hi[b], lo, hi),
           Live(store') = Live(store), Untouched(store, store', {a, b, Last(path).id}),
           Fetch(store', a) = an, Fetch(store', b) = bn,
           Fetch(store', Last(path).id) = NewSeparator(i, k)
    PROVE  \E newLo, newHi, newOut : Ordered(newLo, newHi, newOut)'
<1> DEFINE f == Last(path).id
           p == Fetch(store, f)
           pn == NewSeparator(i, k)
           D == {a, b, f}
           C == {a, b}
<1>1. /\ Placed(store, lo, hi, hi) /\ lo[root] = {} /\ hi[root] = {}
      /\ f \in Live(store) /\ a \in Live(store) /\ b \in Live(store)
      /\ a # b /\ a # f /\ b # f /\ a # root /\ b # root
      /\ {a, b} \subseteq Kids(store, f)
      /\ Parented(p, lo[f], hi[f], lo, hi)
      /\ i \in 1 .. Len(p.keys)
      /\ Siblings = p.children
      /\ lo[a] = LowOf(p.keys, lo[f], i)
      /\ hi[b] = HighOf(p.keys, hi[f], i + 1)
      /\ \A c \in NodeKids(Node(a)) \cup NodeKids(Node(b)) : c \in Live(store) \ {a, b}
  BY SiblingBounds
<1>2. TreeOK(store, {root}, lv) /\ root \in Live(store)
  BY RepairFacts, CallFacts
<1>3. pn = Internal(ReplaceAt(p.keys, i, k), p.children)
  BY DEF NewSeparator, Node
<1>4. /\ Fetch(store', f) = pn /\ Untouched(store, store', D)
      /\ lo \in [Live(store) -> SUBSET Key] /\ hi \in [Live(store) -> SUBSET Key]
      /\ {k} \in SUBSET Key
  BY <1>1 DEF Placed
<1> HIDE DEF f, pn
<1>5. PICK newLo : newLo = [lo EXCEPT ![b] = {k}]
  OBVIOUS
<1>6. PICK newHi : newHi = [hi EXCEPT ![a] = {k}]
  OBVIOUS
<1>7. /\ newLo \in [Live(store') -> SUBSET Key] /\ newHi \in [Live(store') -> SUBSET Key]
      /\ newLo[b] = {k} /\ newHi[a] = {k}
      /\ newLo[a] = lo[a] /\ newHi[b] = hi[b]
      /\ newLo[f] = lo[f] /\ newHi[f] = hi[f]
      /\ newLo[root] = {} /\ newHi[root] = {}
      /\ \A x \in Live(store) \ {a, b} : newLo[x] = lo[x] /\ newHi[x] = hi[x]
  BY <1>1, <1>2, <1>4, <1>5, <1>6
<1>8. \A x \in NodeKids(an) \cup NodeKids(bn) : newLo[x] = lo[x] /\ newHi[x] = hi[x]
  BY <1>1, <1>7
<1>9. /\ NodePlaced(an, lo[a], {k}, newLo, newHi)
      /\ NodePlaced(bn, {k}, hi[b], newLo, newHi)
  BY <1>8, SameSlots
<1>10. NodePlaced(pn, lo[f], hi[f], newLo, newHi)
  <2>1. \A x \in NodeKids(p) : x \notin {a, b} => newLo[x] = lo[x] /\ newHi[x] = hi[x]
    <3>1. NodeKids(p) \subseteq Live(store)
      BY <1>1, <1>2, TreeFacts DEF Kids
    <3> QED
      BY <1>7, <3>1
  <2>2. Between(k, LowOf(p.keys, lo[f], i), HighOf(p.keys, hi[f], i + 1))
    BY <1>1
  <2>3. MovesSeparator(p, lo[f], hi[f], lo, hi, i, k, a, b, pn, newLo, newHi)
    BY <1>1, <1>3, <1>7, <2>1, <2>2 DEF MovesSeparator
  <2> QED
    BY <2>3, SeparatorPlaced
<1>11. C \subseteq {root} \cup Links(store, D \cap Live(store))
  BY <1>1 DEF Links
<1>12. \A x \in D \cap Live(store') :
           NodePlaced(Fetch(store', x), newLo[x], newHi[x], newLo, newHi)
  BY <1>4, <1>7, <1>9, <1>10
<1>13. Rebinds(store, {root}, lv, lo, hi, hi, store', newLo, newHi, newHi, D, C)
  BY <1>1, <1>2, <1>4, <1>7, <1>11, <1>12 DEF Rebinds
<1>14. Placed(store', newLo, newHi, newHi)
  BY <1>13, Rebound
<1>15. Ordered(newLo, newHi, newHi)'
  BY <1>7, <1>14, OrderedReturns
<1> QED
  BY <1>15

LEMMA MergeOrdered ==
    ASSUME NEW lv, Inductive(lv), NEW lo, NEW hi, NEW out, Ordered(lo, hi, out),
           pc = "rebalance", path # <<>>, root' = root, pc' = pc,
           NEW i \in 1 .. Len(Siblings), i + 1 \in 1 .. Len(Siblings),
           store' = Merge(i)
    PROVE  \E newLo, newHi, newOut : Ordered(newLo, newHi, newOut)'
<1> DEFINE f == Last(path).id
           p == Fetch(store, f)
           a == Siblings[i]
           b == Siblings[i + 1]
           l == Node(a)
           r == Node(b)
           sep == p.keys[i]
           mn == IF IsLeaf(l)
                 THEN Leaf(l.keys \o r.keys, l.vals \o r.vals)
                 ELSE Internal(Append(l.keys, sep) \o r.keys, l.children \o r.children)
           pn == Internal(RemoveAt(p.keys, i), RemoveAt(p.children, i + 1))
           D == {a, f}
           C == {a, b}
<1>1. /\ Placed(store, lo, hi, hi) /\ lo[root] = {} /\ hi[root] = {}
      /\ f \in Live(store) /\ a \in Live(store) /\ b \in Live(store)
      /\ a # b /\ a # f /\ b # f /\ a # root /\ b # root
      /\ {a, b} \subseteq Kids(store, f)
      /\ Parented(p, lo[f], hi[f], lo, hi)
      /\ i \in 1 .. Len(p.keys)
      /\ Siblings = p.children
      /\ Neighbours(l, r, sep, lo[a], hi[b], lo, hi)
      /\ NodeKids(l) \cap NodeKids(r) = {}
      /\ \A c \in NodeKids(l) \cup NodeKids(r) : c \in Live(store) \ {a, b}
  BY SiblingBounds
<1>2. TreeOK(store, {root}, lv) /\ root \in Live(store) /\ store \in StoreType /\ StoreOK(store)
  BY RepairFacts, CallFacts
<1>3. store' = Write(Reclaim(Write(store, f, pn), b), a, mn)
  BY <1>1 DEF Merge, Node, Siblings
<1>4. /\ l \in NodeOf(NodeId) /\ r \in NodeOf(NodeId)
      /\ ShapeOK(l) /\ ShapeOK(r) /\ (IsLeaf(l) <=> IsLeaf(r)) /\ sep \in Key
  BY <1>1 DEF Neighbours, AnyNode
<1>5. a = p.children[i] /\ b = p.children[i + 1]
  BY <1>1
<1>6. p \in NodeOf(NodeId) /\ ~IsLeaf(p) /\ ShapeOK(p)
  BY <1>1 DEF Parented, AnyNode
<1> HIDE DEF a, b, l, r, f, p, sep
<1>7. mn \in AnyNode /\ NodeKids(mn) = NodeKids(l) \cup NodeKids(r)
  BY <1>1, <1>4, MergeLists DEF AnyNode
<1>8. NodePlaced(mn, lo[a], hi[b], lo, hi)
  BY <1>1, MergePlaced
<1>9. pn \in AnyNode
  BY <1>1, <1>6, UnlinkChild DEF AnyNode
<1>10. pn = Internal(RemoveAt(p.keys, i), RemoveAt(p.children, i + 1))
  OBVIOUS
<1> HIDE DEF mn, pn
<1>11. /\ Live(store') = Live(store) \ {b}
       /\ Untouched(store, store', D)
       /\ Fetch(store', a) = mn /\ Fetch(store', f) = pn
  <2>1. MergesInto(store, a, b, f, mn, pn, store', D)
    BY <1>1, <1>2, <1>3, <1>7, <1>9 DEF MergesInto
  <2> HIDE DEF D
  <2> QED
    BY <2>1, MergedStore
<1>12. lo \in [Live(store) -> SUBSET Key] /\ hi \in [Live(store) -> SUBSET Key]
  BY <1>1 DEF Placed
<1>13. PICK newLo : newLo = [x \in Live(store') |-> lo[x]]
  OBVIOUS
<1>14. PICK newHi : newHi = [x \in Live(store') |-> IF x = a THEN hi[b] ELSE hi[x]]
  OBVIOUS
<1>15. /\ newLo \in [Live(store') -> SUBSET Key] /\ newHi \in [Live(store') -> SUBSET Key]
       /\ newHi[a] = hi[b] /\ newLo[a] = lo[a]
       /\ newLo[f] = lo[f] /\ newHi[f] = hi[f]
       /\ newLo[root] = {} /\ newHi[root] = {}
       /\ \A x \in Live(store) \ {a, b} : newLo[x] = lo[x] /\ newHi[x] = hi[x]
  BY <1>1, <1>2, <1>11, <1>12, <1>13, <1>14
<1>16. NodePlaced(mn, lo[a], hi[b], newLo, newHi)
  <2>1. \A x \in NodeKids(mn) : newLo[x] = lo[x] /\ newHi[x] = hi[x]
    BY <1>1, <1>7, <1>15
  <2> QED
    BY <1>7, <1>8, <2>1, SameSlots
<1>17. NodePlaced(pn, lo[f], hi[f], newLo, newHi)
  <2>1. \A x \in NodeKids(p) : x \notin {a, b} => newLo[x] = lo[x] /\ newHi[x] = hi[x]
    <3>1. NodeKids(p) \subseteq Live(store)
      BY <1>1, <1>2, TreeFacts DEF Kids, p
    <3> QED
      BY <1>15, <3>1
  <2>2. UnlinksNext(p, lo[f], hi[f], lo, hi, i, a, b, pn, newLo, newHi)
    BY <1>1, <1>5, <1>10, <1>15, <2>1 DEF UnlinksNext
  <2> QED
    BY <2>2, UnlinkPlaced
<1>18. C \subseteq {root} \cup Links(store, D \cap Live(store))
  BY <1>1 DEF Links
<1>19. \A x \in D \cap Live(store') :
           NodePlaced(Fetch(store', x), newLo[x], newHi[x], newLo, newHi)
  BY <1>11, <1>15, <1>16, <1>17
<1>20. \A x \in Live(store') \ D : newLo[x] = lo[x] /\ newHi[x] = hi[x]
  BY <1>11, <1>15
<1>21. Rebinds(store, {root}, lv, lo, hi, hi, store', newLo, newHi, newHi, D, C)
  BY <1>1, <1>2, <1>11, <1>15, <1>18, <1>19, <1>20 DEF Rebinds
<1>22. Placed(store', newLo, newHi, newHi)
  BY <1>21, Rebound
<1>23. Ordered(newLo, newHi, newHi)'
  BY <1>15, <1>22, OrderedReturns
<1> QED
  BY <1>23

(* The two rotations: the new separator is the first key of what the right  *)
(* sibling holds, or the one the left sibling gave up.                      *)
LEMMA BorrowFromLeftOrdered ==
    ASSUME NEW lv, Inductive(lv), NEW lo, NEW hi, NEW out, Ordered(lo, hi, out),
           pc = "rebalance", path # <<>>, root' = root, pc' = pc,
           CanLend(ToLeft), store' = BorrowFromLeft
    PROVE  \E newLo, newHi, newOut : Ordered(newLo, newHi, newOut)'
<1> DEFINE f == Last(path).id
           p == Fetch(store, f)
           i == ToLeft
           a == Siblings[i]
           b == Siblings[i + 1]
           l == Node(a)
           c == Node(b)
           sep == p.keys[i]
           k == Last(l.keys)
           ln == IF IsLeaf(c) THEN Leaf(Front(l.keys), Front(l.vals))
                              ELSE Internal(Front(l.keys), Front(l.children))
           cn == IF IsLeaf(c)
                 THEN Leaf(Cons(Last(l.keys), c.keys), Cons(Last(l.vals), c.vals))
                 ELSE Internal(Cons(sep, c.keys), Cons(Last(l.children), c.children))
           pn == NewSeparator(i, k)
           D == {a, b, f}
<1>1. /\ Last(path).idx \in 1 .. Len(Siblings) /\ Siblings[Last(path).idx] = cur
      /\ i = Last(path).idx - 1 /\ Len(Siblings) = Len(p.keys) + 1 /\ Len(p.keys) \in Nat
      /\ MinKeys \in Nat \ {0}
      /\ store \in StoreType /\ p \in AnyNode /\ ~IsLeaf(p) /\ ShapeOK(p)
  BY RepairFacts, CallFacts DEF AnyNode
<1>2. /\ i \in 1 .. Len(Siblings) /\ i + 1 \in 1 .. Len(Siblings) /\ b = cur
      /\ i \in 1 .. Len(p.keys) /\ KeysLen(l) > MinKeys
  BY <1>1 DEF CanLend
<1>3. store' = Write(Write(Write(store, a, ln), b, cn), f, pn)
  BY <1>2 DEF BorrowFromLeft, Rewritten, Node
<1>4. /\ f \in Live(store) /\ a \in Live(store) /\ b \in Live(store)
      /\ a # b /\ a # f /\ b # f
      /\ Neighbours(l, c, sep, lo[a], hi[b], lo, hi)
      /\ NodeKids(l) \cap NodeKids(c) = {}
  BY <1>2, SiblingBounds
<1>5. pn = Internal(ReplaceAt(p.keys, i, k), p.children)
  BY DEF NewSeparator, Node
<1>6. /\ l \in NodeOf(NodeId) /\ c \in NodeOf(NodeId) /\ sep \in Key
      /\ ShapeOK(l) /\ ShapeOK(c) /\ (IsLeaf(l) <=> IsLeaf(c))
  BY <1>4 DEF Neighbours, AnyNode
<1> HIDE DEF i, a, b, c, l, f, p, sep
<1>7. KeysLen(l) > 1 /\ KeysLen(l) > 0
  <2>1. KeysLen(l) \in Nat
    BY <1>6, NodeCases
  <2> QED
    BY <1>1, <1>2, <2>1
<1>8. LentLast(l, c, sep, ln, cn)
  BY <1>4, <1>6, <1>7 DEF LentLast
<1> HIDE DEF ln, cn, k
<1>9. /\ ln \in NodeOf(NodeId) /\ cn \in NodeOf(NodeId)
      /\ NodeKids(ln) \cup NodeKids(cn) = NodeKids(l) \cup NodeKids(c)
  BY <1>6, <1>8, LendLast
<1>10. /\ k \in Key /\ Between(k, lo[a], hi[b])
       /\ NodePlaced(ln, lo[a], {k}, lo, hi) /\ NodePlaced(cn, {k}, hi[b], lo, hi)
  BY <1>4, <1>7, <1>8, LendLastPlaced DEF k
<1>11. pn \in AnyNode
  BY <1>1, <1>2, <1>5, <1>10, ReplaceSeparator DEF AnyNode
<1> HIDE DEF pn
<1>12. RotatesIn(store, a, b, f, ln, cn, pn, store', D)
  BY <1>1, <1>3, <1>4, <1>9, <1>11 DEF RotatesIn, AnyNode
<1> HIDE DEF D
<1>13. /\ Live(store') = Live(store) /\ Untouched(store, store', D)
       /\ Fetch(store', a) = ln /\ Fetch(store', b) = cn /\ Fetch(store', f) = pn
  BY <1>12, RotatedStore
<1>14. ln \in AnyNode /\ cn \in AnyNode
  BY <1>9 DEF AnyNode
<1>15. i \in 1 .. Len(Siblings) /\ i + 1 \in 1 .. Len(Siblings)
  BY <1>2
<1>16. a = Siblings[i] /\ b = Siblings[i + 1]
  BY DEF a, b
<1>17. Untouched(store, store', {a, b, Last(path).id}) /\ Fetch(store', Last(path).id) = NewSeparator(i, k)
  BY <1>13 DEF D, f, pn
<1>18. NodeKids(ln) \cup NodeKids(cn) = NodeKids(Node(a)) \cup NodeKids(Node(b))
  BY <1>9 DEF l, c
<1> QED
  BY <1>10, <1>13, <1>14, <1>15, <1>16, <1>17, <1>18, RotationOrdered

LEMMA BorrowFromRightOrdered ==
    ASSUME NEW lv, Inductive(lv), NEW lo, NEW hi, NEW out, Ordered(lo, hi, out),
           pc = "rebalance", path # <<>>, root' = root, pc' = pc,
           CanLend(ToRight), store' = BorrowFromRight
    PROVE  \E newLo, newHi, newOut : Ordered(newLo, newHi, newOut)'
<1> DEFINE f == Last(path).id
           p == Fetch(store, f)
           i == Last(path).idx
           a == Siblings[i]
           b == Siblings[i + 1]
           c == Node(a)
           r == Node(b)
           sep == p.keys[i]
           k == IF IsLeaf(c) THEN Head(Tail(r.keys)) ELSE Head(r.keys)
           rn == IF IsLeaf(c) THEN Leaf(Tail(r.keys), Tail(r.vals))
                              ELSE Internal(Tail(r.keys), Tail(r.children))
           cn == IF IsLeaf(c)
                 THEN Leaf(Append(c.keys, Head(r.keys)), Append(c.vals, Head(r.vals)))
                 ELSE Internal(Append(c.keys, sep), Append(c.children, Head(r.children)))
           pn == NewSeparator(i, k)
           D == {b, a, f}
<1>1. /\ i \in 1 .. Len(Siblings) /\ Siblings[i] = cur
      /\ ToRight = i + 1 /\ Len(Siblings) = Len(p.keys) + 1 /\ Len(p.keys) \in Nat
      /\ MinKeys \in Nat \ {0}
      /\ store \in StoreType /\ p \in AnyNode /\ ~IsLeaf(p) /\ ShapeOK(p)
  BY RepairFacts, CallFacts DEF AnyNode
<1>2. /\ i \in 1 .. Len(Siblings) /\ i + 1 \in 1 .. Len(Siblings) /\ a = cur
      /\ i \in 1 .. Len(p.keys) /\ KeysLen(r) > MinKeys
  BY <1>1 DEF CanLend
<1>3. store' = Write(Write(Write(store, b, rn), a, cn), f, pn)
  BY <1>2 DEF BorrowFromRight, Rewritten, Node
<1>4. /\ f \in Live(store) /\ a \in Live(store) /\ b \in Live(store)
      /\ b # a /\ a # f /\ b # f
      /\ Neighbours(c, r, sep, lo[a], hi[b], lo, hi)
      /\ NodeKids(r) \cap NodeKids(c) = {}
  BY <1>2, SiblingBounds
<1>5. pn = Internal(ReplaceAt(p.keys, i, k), p.children)
  BY DEF NewSeparator, Node
<1>6. /\ r \in NodeOf(NodeId) /\ c \in NodeOf(NodeId) /\ sep \in Key
      /\ ShapeOK(r) /\ ShapeOK(c) /\ (IsLeaf(r) <=> IsLeaf(c))
  BY <1>4 DEF Neighbours, AnyNode
<1> HIDE DEF i, a, b, c, r, f, p, sep
<1>7. KeysLen(r) > 1
  <2>1. KeysLen(r) \in Nat
    BY <1>6, NodeCases
  <2> QED
    BY <1>1, <1>2, <2>1
<1>8. LentFirst(r, c, sep, rn, cn)
  BY <1>4, <1>6, <1>7 DEF LentFirst
<1> HIDE DEF rn, cn, k
<1>9. /\ rn \in NodeOf(NodeId) /\ cn \in NodeOf(NodeId)
      /\ NodeKids(rn) \cup NodeKids(cn) = NodeKids(r) \cup NodeKids(c)
  BY <1>6, <1>8, LendFirst
<1>10. /\ k \in Key /\ Between(k, lo[a], hi[b])
       /\ NodePlaced(cn, lo[a], {k}, lo, hi) /\ NodePlaced(rn, {k}, hi[b], lo, hi)
  BY <1>4, <1>8, LendFirstPlaced DEF k
<1>11. pn \in AnyNode
  BY <1>1, <1>2, <1>5, <1>10, ReplaceSeparator DEF AnyNode
<1> HIDE DEF pn
<1>12. RotatesIn(store, b, a, f, rn, cn, pn, store', D)
  BY <1>1, <1>3, <1>4, <1>9, <1>11 DEF RotatesIn, AnyNode
<1> HIDE DEF D
<1>13. /\ Live(store') = Live(store) /\ Untouched(store, store', D)
       /\ Fetch(store', b) = rn /\ Fetch(store', a) = cn /\ Fetch(store', f) = pn
  BY <1>12, RotatedStore
<1>14. rn \in AnyNode /\ cn \in AnyNode
  BY <1>9 DEF AnyNode
<1>15. i \in 1 .. Len(Siblings) /\ i + 1 \in 1 .. Len(Siblings)
  BY <1>2
<1>16. a = Siblings[i] /\ b = Siblings[i + 1]
  BY DEF a, b
<1>17. Untouched(store, store', {a, b, Last(path).id}) /\ Fetch(store', Last(path).id) = NewSeparator(i, k)
  <2>1. D = {a, b, Last(path).id}
    BY DEF D, f
  <2> QED
    BY <1>13, <2>1 DEF f, pn
<1>18. NodeKids(cn) \cup NodeKids(rn) = NodeKids(Node(a)) \cup NodeKids(Node(b))
  BY <1>9 DEF r, c
<1> QED
  BY <1>10, <1>13, <1>14, <1>15, <1>16, <1>17, <1>18, RotationOrdered

LEMMA RebalanceOrdered ==
    ASSUME NEW lv, Inductive(lv), NEW lo, NEW hi, NEW out, Ordered(lo, hi, out), Rebalance
    PROVE  \E newLo, newHi, newOut : Ordered(newLo, newHi, newOut)'
<1>1. pc = "rebalance" /\ path # <<>> /\ root' = root /\ pc' = pc
  BY DEF Rebalance
<1>2. /\ Last(path).idx \in 1 .. Len(Siblings)
      /\ ToLeft = Last(path).idx - 1 /\ ToRight = Last(path).idx + 1
      /\ Len(Siblings) \in Nat
  BY <1>1, RepairFacts
<1>3. CASE CanLend(ToLeft) /\ store' = BorrowFromLeft
  BY <1>1, <1>3, BorrowFromLeftOrdered
<1>4. CASE CanLend(ToRight) /\ store' = BorrowFromRight
  BY <1>1, <1>4, BorrowFromRightOrdered
<1>5. CASE ToLeft >= 1 /\ store' = Merge(ToLeft)
  <2> DEFINE i == ToLeft
  <2>1. i \in 1 .. Len(Siblings) /\ i + 1 \in 1 .. Len(Siblings) /\ store' = Merge(i)
    BY <1>2, <1>5
  <2> HIDE DEF i
  <2> QED
    BY <1>1, <2>1, MergeOrdered
<1>6. CASE ToRight <= Len(Siblings) /\ store' = Merge(Last(path).idx)
  <2> DEFINE i == Last(path).idx
  <2>1. i \in 1 .. Len(Siblings) /\ i + 1 \in 1 .. Len(Siblings) /\ store' = Merge(i)
    BY <1>2, <1>6
  <2> HIDE DEF i
  <2> QED
    BY <1>1, <2>1, MergeOrdered
<1> QED
  BY <1>3, <1>4, <1>5, <1>6 DEF Rebalance

(* The root is left as it is, or its only child takes its place, which owns *)
(* all keys as the root did.                                                *)
LEMMA FinishRemoveOrdered ==
    ASSUME NEW lv, Inductive(lv), NEW lo, NEW hi, NEW out, Ordered(lo, hi, out), FinishRemove
    PROVE  \E newLo, newHi, newOut : Ordered(newLo, newHi, newOut)'
<1>1. pc = "rebalance" /\ path = <<>> /\ pc' = "idle"
  BY DEF FinishRemove, Return
<1>2. /\ TreeOK(store, {root}, lv) /\ root \in Live(store)
      /\ store \in StoreType /\ StoreOK(store)
  BY <1>1, CallFacts DEF Inductive
<1>3. Placed(store, lo, hi, hi) /\ lo[root] = {} /\ hi[root] = {}
  BY <1>1 DEF Ordered
<1>4. CASE store' = store /\ Return(ret, root)
  <2>1. root' = root
    BY <1>4 DEF Return
  <2>2. Ordered(lo, hi, hi)'
    BY <1>1, <1>3, <1>4, <2>1, OrderedReturns
  <2> QED
    BY <2>2
<1>5. CASE /\ ~IsLeaf(Node(root)) /\ Len(Node(root).children) = 1
           /\ store' = Reclaim(store, root) /\ Return(ret, Node(root).children[1])
  <2> DEFINE p == Fetch(store, root)
             child == p.children[1]
             D == {}
             C == {}
  <2>1. root' = child /\ ~IsLeaf(p) /\ Len(p.children) = 1 /\ store' = Reclaim(store, root)
    BY <1>5 DEF Return, Node
  <2>2. Parented(p, lo[root], hi[root], lo, hi)
    BY <1>2, <1>3, <2>1, StoreParent
  <2>3. Len(p.keys) = 0 /\ Len(p.keys) + 1 = 1
    <3>1. Len(p.children) = Len(p.keys) + 1 /\ p.keys \in Seq(Key)
      BY <2>2, ParentFacts
    <3>2. Len(p.keys) \in Nat
      BY <3>1, LenProperties
    <3> DEFINE n == Len(p.keys)
    <3>3. n \in Nat /\ n + 1 = 1
      BY <2>1, <3>1, <3>2
    <3> HIDE DEF n
    <3>4. n = 0
      BY <3>3
    <3> QED
      BY <3>3, <3>4 DEF n
  <2>4. child \in NodeKids(p) /\ lo[child] = {} /\ hi[child] = {}
    <3>1. 1 \in 1 .. Len(p.keys) + 1
      BY <2>3
    <3>2. /\ lo[child] = LowOf(p.keys, lo[root], 1) /\ hi[child] = HighOf(p.keys, hi[root], 1)
          /\ child \in NodeKids(p)
      BY <2>2, <3>1, ParentFacts
    <3> QED
      BY <1>3, <2>3, <3>2 DEF LowOf, HighOf
  <2>5. child \in Live(store) /\ child # root
    <3>1. Kids(store, root) \subseteq Live(store) \ {root}
      BY <1>2, TreeFacts
    <3> QED
      BY <2>4, <3>1 DEF Kids
  <2> HIDE DEF child, p
  <2>6. /\ Live(store') = Live(store) \ {root}
        /\ \A j \in Live(store) \ {root} : Fetch(store', j) = Fetch(store, j)
    BY <1>2, <2>1, ReclaimProperties, EmptyLeafIsNode
  <2>7. PICK newLo : newLo = [x \in Live(store') |-> lo[x]]
    OBVIOUS
  <2>8. PICK newHi : newHi = [x \in Live(store') |-> hi[x]]
    OBVIOUS
  <2>9. lo \in [Live(store) -> SUBSET Key] /\ hi \in [Live(store) -> SUBSET Key]
    BY <1>3 DEF Placed
  <2>10. /\ newLo \in [Live(store') -> SUBSET Key] /\ newHi \in [Live(store') -> SUBSET Key]
         /\ \A x \in Live(store) \ {root} : newLo[x] = lo[x] /\ newHi[x] = hi[x]
         /\ newLo[child] = {} /\ newHi[child] = {}
    BY <2>4, <2>5, <2>6, <2>7, <2>8, <2>9
  <2>11. Placed(store', newLo, newHi, newHi)
    <3>1. ASSUME NEW id \in Live(store')
          PROVE  NodePlaced(Fetch(store', id), newLo[id], newHi[id], newLo, newHi)
      <4>1. id \in Live(store) /\ id # root /\ Fetch(store', id) = Fetch(store, id)
            /\ newLo[id] = lo[id] /\ newHi[id] = hi[id]
        BY <2>6, <2>10
      <4>2. NodePlaced(Fetch(store, id), lo[id], hi[id], lo, hi)
        BY <1>3, <4>1 DEF Placed
      <4>3. Fetch(store, id) \in AnyNode
        BY <1>2, <4>1, TreeFacts
      <4>4. NodeKids(Fetch(store, id)) \subseteq Live(store) \ {root}
        BY <1>2, <4>1, TreeFacts DEF Kids
      <4>5. \A c \in NodeKids(Fetch(store, id)) : newLo[c] = lo[c] /\ newHi[c] = hi[c]
        BY <2>10, <4>4
      <4> QED
        BY <4>1, <4>2, <4>3, <4>5, SameSlots
    <3> QED
      BY <2>10, <3>1 DEF Placed
  <2>12. Ordered(newLo, newHi, newHi)'
    BY <1>1, <2>1, <2>10, <2>11, OrderedReturns
  <2> QED
    BY <2>12
<1> QED
  BY <1>4, <1>5 DEF FinishRemove

(* A step that moves no node and starts no way down.                        *)
LEMMA StillOrdered ==
    ASSUME NEW lo, NEW hi, NEW out, Ordered(lo, hi, out), pc # "absorb",
           store' = store, root' = root, pc' \in {"idle", "rebalance"}
    PROVE  Ordered(lo, hi, hi)'
<1>1. Placed(store', lo, hi, hi) /\ lo[root'] = {} /\ hi[root'] = {}
  BY DEF Ordered
<1> QED
  BY <1>1, OrderedReturns

(* A call starts at the root, which owns every key.                         *)
LEMMA CallOrdered ==
    ASSUME NEW lv, Inductive(lv), NEW lo, NEW hi, NEW out, Ordered(lo, hi, out),
           GetCall \/ InsertCall \/ RemoveCall
    PROVE  Ordered(lo, hi, out)'
<1>1. /\ pc = "idle" /\ pc' = "descend"
      /\ UNCHANGED <<store, root, cur, split>>
  BY DEF GetCall, InsertCall, RemoveCall, Call, tree
<1>2. cur = root
  BY <1>1 DEF Inductive, Framed
<1>3. Placed(store, lo, hi, out) /\ lo[root] = {} /\ out[root] = {} /\ out = hi
  BY <1>1 DEF Ordered
<1>4. InRange(arg'.key, lo[cur], hi[cur])
  BY <1>2, <1>3 DEF InRange
<1> QED
  BY <1>1, <1>3, <1>4 DEF Ordered

(* An empty leaf lies within any bounds.                                    *)
LEMMA ResetRanges == \E lo : Placed(ResetStore, lo, lo, lo) /\ lo[AllocId(EmptyStore)] = {}
<1> DEFINE g == [j \in Live(ResetStore) |-> {}]
<1>1. g = [j \in Live(ResetStore) |-> {}]
  OBVIOUS
<1> HIDE DEF g
<1>2. Placed(ResetStore, g, g, g) /\ g[AllocId(EmptyStore)] = {}
  BY <1>1, ResetPlaced
<1> QED
  BY <1>2

(* A new tree is ordered, for it has no keys.                               *)
LEMMA ResetOrdered ==
    ASSUME store' = ResetStore, root' = AllocId(EmptyStore), pc' = "idle"
    PROVE  \E newLo, newHi, newOut : Ordered(newLo, newHi, newOut)'
<1>1. PICK lo : Placed(ResetStore, lo, lo, lo) /\ lo[AllocId(EmptyStore)] = {}
  BY ResetRanges
<1>2. Placed(store', lo, lo, lo) /\ lo[root'] = {}
  BY <1>1
<1>3. Ordered(lo, lo, lo)'
  BY <1>2, OrderedReturns
<1> QED
  BY <1>3

(* Every step of every call keeps the order.                                *)
LEMMA OrderedNext ==
    ASSUME NEW lv, Inductive(lv), NEW lo, NEW hi, NEW out, Ordered(lo, hi, out), [Next]_vars
    PROVE  \E newLo, newHi, newOut : Ordered(newLo, newHi, newOut)'
<1>1. CASE GetCall \/ InsertCall \/ RemoveCall
  BY <1>1, CallOrdered
<1>2. CASE Descend
  BY <1>2, DescendOrdered
<1>3. CASE GetAnswer \/ RemoveAbsent \/ Sufficient
  <2>1. /\ store' = store /\ root' = root
        /\ pc # "absorb" /\ pc' \in {"idle", "rebalance"}
    BY <1>3 DEF GetAnswer, RemoveAbsent, Sufficient, AtLeaf, Return, tree
  <2>2. Ordered(lo, hi, hi)'
    BY <2>1, StillOrdered
  <2> QED
    BY <2>2
<1>4. CASE InsertReplace
  BY <1>4, InsertReplaceOrdered
<1>5. CASE InsertFits
  BY <1>5, InsertFitsOrdered
<1>6. CASE InsertSplit
  BY <1>6, InsertSplitOrdered
<1>7. CASE AbsorbFits
  BY <1>7, AbsorbFitsOrdered
<1>8. CASE AbsorbSplit
  BY <1>8, AbsorbSplitOrdered
<1>9. CASE GrowRoot
  BY <1>9, GrowRootOrdered
<1>10. CASE RemoveEntry
  BY <1>10, RemoveEntryOrdered
<1>11. CASE Rebalance
  BY <1>11, RebalanceOrdered
<1>12. CASE FinishRemove
  BY <1>12, FinishRemoveOrdered
<1>13. CASE Clear
  BY <1>13, ResetOrdered DEF Clear
<1>14. CASE UNCHANGED vars
  <2>1. Ordered(lo, hi, out)'
    BY <1>14 DEF vars, Ordered
  <2> QED
    BY <2>1
<1> QED
  BY <1>1, <1>2, <1>3, <1>4, <1>5, <1>6, <1>7, <1>8, <1>9, <1>10, <1>11, <1>12, <1>13,
     <1>14 DEF Next, Step

(* The tree is sound and its nodes own the ranges their keys lie in.        *)
Sorted == \E lv, lo, hi, out : Inductive(lv) /\ Ordered(lo, hi, out)

(* The tree is sorted at first,                                             *)
LEMMA InitSorted ==
    ASSUME Init
    PROVE  Sorted
<1>1. PICK lo : Placed(ResetStore, lo, lo, lo) /\ lo[AllocId(EmptyStore)] = {}
  BY ResetRanges
<1>2. store = ResetStore /\ root = AllocId(EmptyStore) /\ pc = "idle"
  BY DEF Init
<1>3. Placed(store, lo, lo, lo) /\ lo[root] = {}
  BY <1>1, <1>2
<1>4. Ordered(lo, lo, lo)
  BY <1>2, <1>3 DEF Ordered
<1> QED
  BY <1>4, InitKeeps DEF Sorted

(* and after every step.                                                    *)
LEMMA SortedNext ==
    ASSUME Sorted, [Next]_vars
    PROVE  Sorted'
<1>1. PICK lv, lo, hi, out : Inductive(lv) /\ Ordered(lo, hi, out)
  BY DEF Sorted
<1>2. \E newLv : Inductive(newLv)'
  BY <1>1, NextKeeps
<1>3. \E newLo, newHi, newOut : Ordered(newLo, newHi, newOut)'
  BY <1>1, OrderedNext
<1> QED
  BY <1>2, <1>3 DEF Sorted

(* Every step of every call keeps it so (ops.rs:45-463, tree.rs:344-397).   *)
THEOREM SortedTheorem == Spec => []Sorted
<1>1. Init => Sorted
  BY InitSorted
<1>2. Sorted /\ [Next]_vars => Sorted'
  BY SortedNext
<1> QED
  BY <1>1, <1>2, PTL DEF Spec
=============================================================================
