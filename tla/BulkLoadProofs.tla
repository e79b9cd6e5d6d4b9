--------------------------- MODULE BulkLoadProofs ---------------------------
(* For every sequence of entries, every order, key and value set and id     *)
(* space: what from_sorted and bulk_load (src/src/ops.rs, tree.rs) return   *)
(* is a sound tree that holds exactly the entries given, and so it stays.   *)
EXTENDS BulkLoad, TreeMapProofs

-----------------------------------------------------------------------------
(* even_chunks for every number of items and every chunk size, and what it  *)
(* means for the occupancy of the nodes. Euclidean division first.          *)
LEMMA Division ==
    ASSUME NEW a \in Nat, NEW b \in Nat \ {0}
    PROVE  /\ a \div b \in Nat
           /\ a % b \in 0 .. b - 1
           /\ a = b * (a \div b) + (a % b)
BY Z3

(* A product is monotone in each factor.                                    *)
LEMMA Monotone ==
    ASSUME NEW a \in Nat, NEW b \in Nat, NEW c \in Nat, a <= b
    PROVE  a * c <= b * c /\ c * a <= c * b
BY Z3

(* The number of chunks is the least whose chunks of max hold all items.    *)
LEMMA ChunksLeast ==
    ASSUME NEW total \in Nat \ {0}, NEW max \in Nat \ {0}
    PROVE  /\ Chunks(total, max) \in Nat \ {0}
           /\ total <= Chunks(total, max) * max
           /\ (Chunks(total, max) - 1) * max < total
<1> DEFINE n == Chunks(total, max)
           r == (total + max - 1) % max
<1>1. /\ n \in Nat /\ r \in 0 .. max - 1
      /\ total + max - 1 = max * n + r
  <2>1. PICK a \in Nat : a = total + max - 1
    OBVIOUS
  <2>2. n = a \div max /\ r = a % max
    BY <2>1 DEF Chunks
  <2> HIDE DEF n, r
  <2> QED
    BY <2>1, <2>2, Division
<1> HIDE DEF n, r
<1>2. n # 0
  BY <1>1
<1>3. total <= n * max /\ (n - 1) * max < total
  <2> DEFINE p == max * n
  <2>1. p \in Nat /\ n * max = p /\ (n - 1) * max = p - max
    BY <1>1, Z3
  <2> HIDE DEF p
  <2>2. total + max - 1 = p + r
    BY <1>1 DEF p
  <2> QED
    BY <1>1, <2>1, <2>2
<1> QED
  BY <1>1, <1>2, <1>3 DEF n

(* Nothing is cut into no chunks.                                           *)
LEMMA NoChunks ==
    ASSUME NEW max \in Nat \ {0}
    PROVE  Chunks(0, max) = 0
<1>1. PICK a \in Nat, q \in Int : a = max - 1 /\ q = a \div max
  OBVIOUS
<1>2. /\ q \in Nat /\ a % max \in 0 .. max - 1
      /\ a = max * q + (a % max)
  BY <1>1, Division
<1>3. q = 0
  <2>1. SUFFICES ASSUME q >= 1 PROVE FALSE
    BY <1>2
  <2>2. max * 1 <= max * q
    BY <1>2, <2>1, Monotone
  <2>3. max * q \in Nat /\ a % max \in Nat
    <3>1. max * q \in Nat
      BY <1>2, Z3
    <3> QED
      BY <1>2, <3>1
  <2>4. PICK p \in Nat, r \in Nat : p = max * q /\ r = a % max
    BY <2>3
  <2>5. max <= p /\ a = p + r /\ a = max - 1
    BY <1>1, <1>2, <2>2, <2>4
  <2> QED
    BY <2>5
<1>4. Chunks(0, max) = q
  <2>1. Chunks(0, max) = (0 + max - 1) \div max
    BY DEF Chunks
  <2>2. 0 + max - 1 = a
    BY <1>1
  <2> QED
    BY <1>1, <2>1, <2>2
<1> QED
  BY <1>3, <1>4

(* What the first i chunks take, with the division written out.             *)
LEMMA TakenDivided ==
    ASSUME NEW total \in Nat \ {0}, NEW max \in Nat \ {0}
    PROVE  \E base \in Nat, rest \in Nat :
              /\ rest < Chunks(total, max)
              /\ total = Chunks(total, max) * base + rest
              /\ \A i \in Nat : Taken(total, max, i)
                                   = i * base + (IF i < rest THEN i ELSE rest)
<1> DEFINE n == Chunks(total, max)
           base == total \div n
           rest == total % n
<1>1. n \in Nat \ {0}
  BY ChunksLeast
<1>2. base \in Nat /\ rest \in 0 .. n - 1 /\ total = n * base + rest
  <2> HIDE DEF n
  <2> QED
    BY <1>1, Division
<1>3. \A i \in Nat : Taken(total, max, i) = i * base + (IF i < rest THEN i ELSE rest)
  BY DEF Taken
<1> HIDE DEF base, rest, n
<1>4. rest \in Nat /\ rest < n
  BY <1>1, <1>2
<1> QED
  BY <1>2, <1>3, <1>4 DEF n

(* The sizes of the chunks differ by one at most: base, or one more.        *)
LEMMA ChunkSize ==
    ASSUME NEW i \in Nat \ {0}, NEW base \in Nat, NEW rest \in Nat
    PROVE  (i * base + (IF i < rest THEN i ELSE rest))
           - ((i - 1) * base + (IF i - 1 < rest THEN i - 1 ELSE rest))
           = base + (IF i <= rest THEN 1 ELSE 0)
<1>1. PICK p \in Nat : p = i * base /\ (i - 1) * base = p - base
  BY Z3
<1> QED
  BY <1>1

(* A chunk is at least half full when there are two of them or more.        *)
LEMMA HalfFull ==
    ASSUME NEW total \in Nat, NEW max \in Nat \ {0}, NEW n \in Nat,
           NEW base \in Nat, NEW rest \in Nat,
           n >= 2, rest < n, total = n * base + rest, (n - 1) * max < total
    PROVE  2 * base >= max
<1> SUFFICES ASSUME 2 * base <= max - 1
             PROVE  FALSE
  OBVIOUS
<1> DEFINE p == n * max
           q == n * base
<1>1. p \in Nat /\ q \in Nat
  BY Z3
<1>2. (n - 1) * max = p - max
  BY Z3
<1>3. 2 * q <= p - n
  <2>1. n * (2 * base) <= n * (max - 1)
    <3>1. 2 * base \in Nat /\ max - 1 \in Nat
      OBVIOUS
    <3> QED
      BY <3>1, Z3
  <2>2. n * (2 * base) = 2 * q /\ n * (max - 1) = p - n
    BY Z3
  <2> QED
    BY <2>1, <2>2
<1>4. 0 <= p - n - 2 * max + 2
  <2>1. 0 <= (n - 2) * (max - 1)
    <3>1. PICK x \in Nat, y \in Nat : x = n - 2 /\ y = max - 1
      OBVIOUS
    <3> QED
      BY <3>1, Z3
  <2>2. (n - 2) * (max - 1) = p - n - 2 * max + 2
    BY Z3
  <2> QED
    BY <2>1, <2>2
<1>5. total = q + rest
  OBVIOUS
<1> HIDE DEF p, q
<1> QED
  BY <1>1, <1>2, <1>3, <1>4, <1>5

(* Chunks hold at most max items when the n of them could hold all.         *)
LEMMA NotAbove ==
    ASSUME NEW total \in Nat, NEW max \in Nat, NEW n \in Nat,
           NEW base \in Nat, NEW rest \in Nat,
           rest < n, total = n * base + rest, total <= n * max
    PROVE  base + (IF rest > 0 THEN 1 ELSE 0) <= max
<1> DEFINE p == n * max
           q == n * base
<1>1. p \in Nat /\ q \in Nat /\ total = q + rest /\ total <= p
  BY Z3
<1>2. CASE base < max
  BY <1>2
<1>3. CASE base = max
  <2>1. rest = 0
    BY <1>1, <1>3
  <2> QED
    BY <1>3, <2>1
<1>4. CASE base > max
  <2>1. n * (max + 1) <= n * base
    <3>1. PICK m \in Nat : m = max + 1
      OBVIOUS
    <3>2. n * m <= n * base
      BY <1>4, <3>1, Monotone
    <3> QED
      BY <3>1, <3>2
  <2>2. n * (max + 1) = p + n
    BY Z3
  <2> HIDE DEF p, q
  <2>3. p + n <= q
    BY <2>1, <2>2 DEF q
  <2> QED
    BY <1>1, <2>3
<1> QED
  BY <1>2, <1>3, <1>4

(* How many items chunk i takes.                                            *)
Size(total, max, i) == Taken(total, max, i) - Taken(total, max, i - 1)

(* even_chunks (ops.rs:532-547): the chunks take all items, none is empty   *)
(* or above max, and of two or more none is less than half full.            *)
THEOREM EvenChunksTheorem ==
    ASSUME NEW total \in Nat \ {0}, NEW max \in Nat \ {0}
    PROVE  /\ Chunks(total, max) \in Nat \ {0}
           /\ Taken(total, max, 0) = 0
           /\ Taken(total, max, Chunks(total, max)) = total
           /\ \A i \in 1 .. Chunks(total, max) :
                 /\ Size(total, max, i) \in 1 .. max
                 /\ total > max => 2 * Size(total, max, i) >= max
<1> DEFINE n == Chunks(total, max)
<1>1. n \in Nat \ {0} /\ total <= n * max /\ (n - 1) * max < total
  BY ChunksLeast
<1>2. PICK base \in Nat, rest \in Nat :
          /\ rest < n
          /\ total = n * base + rest
          /\ \A i \in Nat : Taken(total, max, i)
                               = i * base + (IF i < rest THEN i ELSE rest)
  BY TakenDivided
<1> HIDE DEF n
<1>3. Taken(total, max, 0) = 0
  <2>1. Taken(total, max, 0) = 0 * base + (IF 0 < rest THEN 0 ELSE rest)
    BY <1>2
  <2>2. 0 * base = 0
    OBVIOUS
  <2> QED
    BY <2>1, <2>2
<1>4. Taken(total, max, n) = total
  <2>1. Taken(total, max, n) = n * base + (IF n < rest THEN n ELSE rest)
    BY <1>1, <1>2
  <2>2. ~(n < rest)
    BY <1>1, <1>2
  <2> QED
    BY <1>2, <2>1, <2>2
<1>5. base >= 1
  <2> SUFFICES ASSUME base = 0
               PROVE  FALSE
    OBVIOUS
  <2>1. total = rest
    BY <1>1, <1>2
  <2>2. n - 1 <= (n - 1) * max
    BY <1>1, Z3
  <2> DEFINE p == (n - 1) * max
  <2>3. n - 1 <= p /\ p < total /\ p \in Int
    BY <1>1, <2>2, Z3
  <2> HIDE DEF p
  <2> QED
    BY <1>1, <1>2, <2>1, <2>3
<1>6. base + (IF rest > 0 THEN 1 ELSE 0) <= max
  BY <1>1, <1>2, NotAbove
<1>7. total > max => 2 * base >= max
  <2> SUFFICES ASSUME total > max
               PROVE  2 * base >= max
    OBVIOUS
  <2>1. n # 1
    BY <1>1
  <2> QED
    BY <1>1, <1>2, <2>1, HalfFull
<1>8. ASSUME NEW i \in 1 .. n
      PROVE  /\ Size(total, max, i) \in 1 .. max
             /\ total > max => 2 * Size(total, max, i) >= max
  <2> DEFINE size == Size(total, max, i)
  <2>1. i \in Nat \ {0} /\ i - 1 \in Nat
    BY <1>1
  <2>2. size = (i * base + (IF i < rest THEN i ELSE rest))
               - ((i - 1) * base + (IF i - 1 < rest THEN i - 1 ELSE rest))
    BY <1>2, <2>1 DEF Size
  <2>3. size = base + (IF i <= rest THEN 1 ELSE 0)
    BY <2>1, <2>2, ChunkSize
  <2> HIDE DEF size
  <2>4. size >= base /\ size <= base + (IF rest > 0 THEN 1 ELSE 0) /\ size \in Nat
    BY <2>1, <2>3
  <2>5. size \in 1 .. max /\ (total > max => 2 * size >= max)
    BY <1>5, <1>6, <1>7, <2>4
  <2> QED
    BY <2>5 DEF size
<1> QED
  BY <1>1, <1>3, <1>4, <1>8 DEF n

(* "every node lands within the legal occupancy range" (ops.rs:468-469): a  *)
(* leaf gets a chunk of at most order - 1 entries, an internal node one of  *)
(* at most order children; unless one chunk takes all, and so is the root,  *)
(* neither is below min_keys, at any order and on every level.              *)
THEOREM ChunksLegal ==
    ASSUME NEW total \in Nat \ {0}
    PROVE  /\ \A i \in 1 .. Chunks(total, Order - 1) :
                 /\ Size(total, Order - 1, i) < Order
                 /\ total > Order - 1 => Size(total, Order - 1, i) >= MinKeys
           /\ \A i \in 1 .. Chunks(total, Order) :
                 /\ Size(total, Order, i) - 1 < Order
                 /\ total > Order => Size(total, Order, i) - 1 >= MinKeys
<1>1. Order \in Nat \ {0} /\ Order - 1 \in Nat \ {0} /\ Order >= 3
  BY OrderAssumption
<1>2. PICK max \in Nat \ {0} : max = Order - 1
  BY <1>1
<1>3. ASSUME NEW i \in 1 .. Chunks(total, max)
      PROVE  Size(total, max, i) < Order /\ (total > max => Size(total, max, i) >= MinKeys)
  <2>1. /\ Size(total, max, i) \in 1 .. max
        /\ total > max => 2 * Size(total, max, i) >= max
    BY EvenChunksTheorem
  <2> QED
    BY <1>1, <1>2, <2>1 DEF MinKeys
<1>4. ASSUME NEW i \in 1 .. Chunks(total, Order)
      PROVE  /\ Size(total, Order, i) - 1 < Order
             /\ total > Order => Size(total, Order, i) - 1 >= MinKeys
  <2>1. /\ Size(total, Order, i) \in 1 .. Order
        /\ total > Order => 2 * Size(total, Order, i) >= Order
    BY <1>1, EvenChunksTheorem
  <2> QED
    BY <1>1, <2>1 DEF MinKeys
<1> QED
  BY <1>2, <1>3, <1>4

-----------------------------------------------------------------------------
(* A chunk as a stretch of the level: from First(total, max, i) on, up to   *)
(* what the first i chunks take.                                            *)
First(total, max, i) == Taken(total, max, i - 1) + 1

(* Level of n nodes or entries, chunks of at most max, chunk i.             *)
Stretch(n, max, i, a, b) ==
    /\ n \in Nat \ {0} /\ max \in Nat \ {0}
    /\ i \in 1 .. Chunks(n, max)
    /\ a = First(n, max, i)
    /\ b = Taken(n, max, i)

(* How many items the first i chunks take.                                  *)
LEMMA TakenType ==
    ASSUME NEW n \in Nat \ {0}, NEW max \in Nat \ {0}, NEW i \in 0 .. Chunks(n, max)
    PROVE  Taken(n, max, i) \in 0 .. n
<1> DEFINE c == Chunks(n, max)
<1>1. PICK base \in Nat, rest \in Nat :
          /\ rest < c
          /\ n = c * base + rest
          /\ \A j \in Nat : Taken(n, max, j) = j * base + (IF j < rest THEN j ELSE rest)
  BY TakenDivided
<1>2. c \in Nat /\ i \in Nat /\ i <= c
  BY ChunksLeast
<1> HIDE DEF c
<1>3. i * base <= c * base
  BY <1>2, Monotone
<1>4. PICK p \in Nat, q \in Nat : p = i * base /\ q = c * base
  BY <1>2, Z3
<1>5. Taken(n, max, i) = p + (IF i < rest THEN i ELSE rest)
  BY <1>1, <1>2, <1>4
<1>6. p <= q /\ n = q + rest
  BY <1>1, <1>3, <1>4
<1>7. \E m \in 0 .. rest : Taken(n, max, i) = p + m
  BY <1>2, <1>5
<1> QED
  BY <1>6, <1>7

(* Later chunks take more.                                                  *)
LEMMA TakenMonotone ==
    ASSUME NEW n \in Nat \ {0}, NEW max \in Nat \ {0}, NEW i \in Nat, NEW j \in Nat, i <= j
    PROVE  Taken(n, max, i) <= Taken(n, max, j)
<1>1. PICK base \in Nat, rest \in Nat :
          /\ rest < Chunks(n, max)
          /\ n = Chunks(n, max) * base + rest
          /\ \A x \in Nat : Taken(n, max, x) = x * base + (IF x < rest THEN x ELSE rest)
  BY TakenDivided
<1>2. i * base <= j * base
  BY Monotone
<1>3. PICK p \in Nat, q \in Nat : p = i * base /\ q = j * base
  BY Z3
<1>4. /\ Taken(n, max, i) = p + (IF i < rest THEN i ELSE rest)
      /\ Taken(n, max, j) = q + (IF j < rest THEN j ELSE rest)
  BY <1>1, <1>3
<1> QED
  BY <1>2, <1>3, <1>4

(* Where a chunk begins and ends, and that it is not too large.             *)
LEMMA StretchBounds ==
    ASSUME NEW n, NEW max, NEW i, NEW a, NEW b, Stretch(n, max, i, a, b)
    PROVE  /\ a \in 1 .. n /\ b \in 1 .. n /\ a <= b
           /\ (b + 1) - a <= max
           /\ n > max => 2 * ((b + 1) - a) >= max
           /\ i = 1 => a = 1
           /\ i = Chunks(n, max) => b = n
           /\ i < Chunks(n, max) => b < n
           /\ i + 1 \in 1 .. Chunks(n, max) => First(n, max, i + 1) = b + 1
<1> DEFINE c == Chunks(n, max)
           t(j) == Taken(n, max, j)
<1>1. /\ n \in Nat \ {0} /\ max \in Nat \ {0} /\ i \in 1 .. c
      /\ a = t(i - 1) + 1 /\ b = t(i)
  BY DEF Stretch, First
<1>2. /\ c \in Nat \ {0} /\ t(0) = 0 /\ t(c) = n
      /\ \A j \in 1 .. c : /\ t(j) - t(j - 1) \in 1 .. max
                           /\ n > max => 2 * (t(j) - t(j - 1)) >= max
  BY <1>1, EvenChunksTheorem DEF Size
<1>3. \A j \in 0 .. c : t(j) \in 0 .. n
  BY <1>1, TakenType
<1> HIDE DEF c, t
<1>4. i - 1 \in 0 .. c /\ i \in 0 .. c /\ i \in Nat
  BY <1>1, <1>2
<1>5. PICK x \in 0 .. n, y \in 0 .. n : x = t(i - 1) /\ y = t(i)
  BY <1>3, <1>4
<1>6. y - x \in 1 .. max /\ (n > max => 2 * (y - x) >= max)
  BY <1>1, <1>2, <1>5
<1>7. a = x + 1 /\ b = y
  BY <1>1, <1>5
<1>8. i < c => y < n
  <2> SUFFICES ASSUME i < c PROVE y < n
    OBVIOUS
  <2>1. i + 1 \in 1 .. c /\ (i + 1) - 1 = i /\ i + 1 \in 0 .. c
    BY <1>2, <1>4
  <2>2. PICK z \in 0 .. n : z = t(i + 1)
    BY <1>3, <2>1
  <2>3. t(i + 1) - t((i + 1) - 1) \in 1 .. max
    BY <1>2, <2>1
  <2>4. z - y \in 1 .. max
    BY <1>5, <2>1, <2>2, <2>3
  <2> QED
    BY <1>1, <2>4
<1>9. i + 1 \in 1 .. c => First(n, max, i + 1) = b + 1
  <2>1. (i + 1) - 1 = i
    BY <1>4
  <2> QED
    BY <1>1, <2>1 DEF First, t
<1>10. (i = 1 => x = 0) /\ (i = c => y = n)
  BY <1>2, <1>5
<1>11. /\ a \in 1 .. n /\ b \in 1 .. n /\ a <= b
       /\ (b + 1) - a = y - x
  BY <1>1, <1>6, <1>7
<1> QED
  BY <1>6, <1>7, <1>8, <1>9, <1>10, <1>11 DEF c

(* One chunk takes all that fits in one.                                    *)
LEMMA OneChunk ==
    ASSUME NEW n \in Nat \ {0}, NEW max \in Nat \ {0}
    PROVE  Chunks(n, max) = 1 <=> n <= max
<1> DEFINE c == Chunks(n, max)
<1>1. c \in Nat \ {0} /\ n <= c * max /\ (c - 1) * max < n
  BY ChunksLeast
<1> HIDE DEF c
<1>2. c = 1 => n <= max
  BY <1>1
<1>3. ASSUME n <= max PROVE c = 1
  <2> SUFFICES ASSUME c - 1 >= 1 PROVE FALSE
    BY <1>1
  <2>1. PICK d \in Nat : d = c - 1
    BY <1>1
  <2>2. 1 * max <= d * max
    BY <2>1, Monotone
  <2> QED
    BY <1>1, <1>3, <2>1, <2>2
<1> QED
  BY <1>2, <1>3 DEF c

-----------------------------------------------------------------------------
(* The lists of a level, of which a chunk is a sublist.                     *)
Firsts(es) == [j \in 1 .. Len(es) |-> es[j][1]]
Seconds(es) == [j \in 1 .. Len(es) |-> es[j][2]]
Mins(nodes) == [j \in 1 .. Len(nodes) |-> nodes[j].min]
Ids(nodes) == [j \in 1 .. Len(nodes) |-> nodes[j].id]

(* A node packed and waiting for its parent.                                *)
Waiting == [id : NodeId, min : Key]

(* A function on 1 .. n is a list of length n.                              *)
LEMMA ListOf ==
    ASSUME NEW S, NEW n \in Nat, NEW s \in [1 .. n -> S]
    PROVE  s \in Seq(S) /\ Len(s) = n
<1>1. s \in Seq(S)
  BY SeqDef
<1>2. Len(s) \in Nat /\ DOMAIN s = 1 .. Len(s)
  BY <1>1, LenProperties
<1> DEFINE m == Len(s)
<1>3. m \in Nat /\ 1 .. m = 1 .. n
  BY <1>2
<1> HIDE DEF m
<1>4. ~(m < n) /\ ~(n < m)
  BY <1>3
<1> QED
  BY <1>1, <1>3, <1>4 DEF m

(* The keys and values of a list of entries.                                *)
LEMMA EntryLists ==
    ASSUME NEW es \in Seq(Entry)
    PROVE  /\ Firsts(es) \in Seq(Key) /\ Len(Firsts(es)) = Len(es)
           /\ Seconds(es) \in Seq(Val) /\ Len(Seconds(es)) = Len(es)
           /\ Len(es) \in Nat
           /\ \A j \in 1 .. Len(es) : /\ es[j] \in Entry
                                      /\ es[j][1] \in Key /\ es[j][2] \in Val
                                      /\ es[j] = <<es[j][1], es[j][2]>>
                                      /\ Firsts(es)[j] = es[j][1]
                                      /\ Seconds(es)[j] = es[j][2]
<1>1. Len(es) \in Nat /\ \A j \in 1 .. Len(es) : es[j] \in Entry
  BY LenProperties
<1>2. \A e \in Entry : e[1] \in Key /\ e[2] \in Val /\ e = <<e[1], e[2]>>
  BY EntryAssumption
<1> DEFINE n == Len(es)
           k == Firsts(es)
           v == Seconds(es)
<1>3. \A j \in 1 .. n : k[j] = es[j][1] /\ v[j] = es[j][2]
  BY DEF Firsts, Seconds
<1>4. k \in [1 .. n -> Key] /\ v \in [1 .. n -> Val]
  BY <1>1, <1>2 DEF Firsts, Seconds
<1> HIDE DEF n, k, v
<1>5. k \in Seq(Key) /\ Len(k) = n /\ v \in Seq(Val) /\ Len(v) = n
  BY <1>1, <1>4, ListOf DEF n
<1> QED
  BY <1>1, <1>2, <1>3, <1>5 DEF n, k, v

(* The least keys and ids of a list of waiting nodes.                       *)
LEMMA NodeLists ==
    ASSUME NEW nodes \in Seq(Waiting)
    PROVE  /\ Mins(nodes) \in Seq(Key) /\ Len(Mins(nodes)) = Len(nodes)
           /\ Ids(nodes) \in Seq(NodeId) /\ Len(Ids(nodes)) = Len(nodes)
           /\ Len(nodes) \in Nat
           /\ \A j \in 1 .. Len(nodes) : /\ nodes[j] \in Waiting
                                         /\ nodes[j].min \in Key /\ nodes[j].id \in NodeId
                                         /\ Mins(nodes)[j] = nodes[j].min
                                         /\ Ids(nodes)[j] = nodes[j].id
<1>1. Len(nodes) \in Nat /\ \A j \in 1 .. Len(nodes) : nodes[j] \in Waiting
  BY LenProperties
<1>2. \A e \in Waiting : e.min \in Key /\ e.id \in NodeId
  BY DEF Waiting
<1> DEFINE n == Len(nodes)
           k == Mins(nodes)
           v == Ids(nodes)
<1>3. \A j \in 1 .. n : k[j] = nodes[j].min /\ v[j] = nodes[j].id
  BY DEF Mins, Ids
<1>4. k \in [1 .. n -> Key] /\ v \in [1 .. n -> NodeId]
  BY <1>1, <1>2 DEF Mins, Ids
<1> HIDE DEF n, k, v
<1>5. k \in Seq(Key) /\ Len(k) = n /\ v \in Seq(NodeId) /\ Len(v) = n
  BY <1>1, <1>4, ListOf DEF n
<1> QED
  BY <1>1, <1>2, <1>3, <1>5 DEF n, k, v

(* A sublist, given element by element.                                     *)
LEMMA SameCut ==
    ASSUME NEW S, NEW s \in Seq(S), NEW a \in 1 .. Len(s), NEW b \in 1 .. Len(s), a <= b,
           NEW m, m = (b + 1) - a, NEW t \in [1 .. m -> S],
           \A j \in 1 .. m : t[j] = s[(j + a) - 1]
    PROVE  t = SubSeq(s, a, b)
<1>1. Len(s) \in Nat
  BY LenProperties
<1> DEFINE n == Len(s)
           u == SubSeq(s, a, b)
<1>2. /\ a \in Nat /\ b \in Nat /\ 1 <= a /\ b <= n /\ a <= b + 1 /\ m \in Nat
      /\ b + 1 - a = m
      /\ \A j \in Nat : j + a - 1 = (j + a) - 1
  BY <1>1
<1>3. u \in Seq(S) /\ Len(u) = b + 1 - a /\ \A i \in 1 .. b + 1 - a : u[i] = s[i + a - 1]
  BY <1>2, CutProperties
<1>4. t \in Seq(S) /\ Len(t) = m
  BY <1>2, ListOf
<1> HIDE DEF u, n
<1>5. u \in Seq(S) /\ Len(u) = m /\ \A j \in 1 .. m : u[j] = t[j]
  <2>1. \A i \in 1 .. m : u[i] = s[i + a - 1]
    BY <1>2, <1>3
  <2>2. \A i \in 1 .. m : i \in Nat
    OBVIOUS
  <2> QED
    BY <1>2, <1>3, <2>1, <2>2
<1>6. t = u
  BY <1>4, <1>5, SeqEqual
<1> QED
  BY <1>6 DEF u

(* What a stretch of a list holds.                                          *)
LEMMA CutElements ==
    ASSUME NEW S, NEW s \in Seq(S), NEW a \in 1 .. Len(s), NEW b \in 1 .. Len(s), a <= b,
           NEW m, m = (b + 1) - a, NEW c, c = SubSeq(s, a, b)
    PROVE  /\ c \in Seq(S) /\ Len(c) = m /\ DOMAIN c = 1 .. m
           /\ m \in Nat \ {0}
           /\ \A j \in 1 .. m : c[j] = s[(j + a) - 1] /\ (j + a) - 1 \in a .. b
           /\ c # <<>> /\ Head(c) = s[a]
<1>1. Len(s) \in Nat
  BY LenProperties
<1> DEFINE n == Len(s)
<1>2. /\ a \in Nat /\ b \in Nat /\ 1 <= a /\ b <= n /\ a <= b + 1 /\ m \in Nat \ {0}
      /\ b + 1 - a = m
  BY <1>1
<1>3. c \in Seq(S) /\ Len(c) = b + 1 - a /\ \A i \in 1 .. b + 1 - a : c[i] = s[i + a - 1]
  BY <1>2, CutProperties
<1> HIDE DEF n
<1>4. \A j \in 1 .. m : c[j] = s[(j + a) - 1] /\ (j + a) - 1 \in a .. b
  <2>1. ASSUME NEW j \in 1 .. m
        PROVE  c[j] = s[(j + a) - 1] /\ (j + a) - 1 \in a .. b
    <3>1. c[j] = s[j + a - 1]
      BY <1>2, <1>3
    <3>2. j + a - 1 = (j + a) - 1 /\ (j + a) - 1 \in a .. b
      BY <1>2
    <3> QED
      BY <3>1, <3>2
  <2> QED
    BY <2>1
<1>5. Len(c) = m /\ DOMAIN c = 1 .. m
  BY <1>2, <1>3, LenProperties
<1>6. c # <<>>
  BY <1>2, <1>5, EmptySeq
<1>7. Head(c) = s[a]
  <2>1. Head(c) = c[1]
    BY <1>3, <1>6, HeadTailProperties
  <2>2. 1 \in 1 .. m /\ (1 + a) - 1 = a
    BY <1>2
  <2> QED
    BY <1>4, <2>1, <2>2
<1> QED
  BY <1>2, <1>3, <1>4, <1>5, <1>6, <1>7

(* The length of a sublist, and its first element.                          *)
LEMMA CutFirst ==
    ASSUME NEW S, NEW s \in Seq(S), NEW a \in 1 .. Len(s), NEW b \in 1 .. Len(s), a <= b
    PROVE  /\ SubSeq(s, a, b) \in Seq(S)
           /\ Len(SubSeq(s, a, b)) = (b + 1) - a
           /\ (b + 1) - a \in Nat \ {0}
           /\ SubSeq(s, a, b)[1] = s[a]
<1> DEFINE c == SubSeq(s, a, b)
           m == (b + 1) - a
<1>1. c \in Seq(S) /\ Len(c) = m
  BY CutElements
<1>2. m \in Nat \ {0}
  BY LenProperties
<1>3. \A j \in 1 .. m : c[j] = s[(j + a) - 1]
  BY CutElements
<1>4. 1 \in 1 .. m /\ (1 + a) - 1 = a
  BY <1>2
<1> HIDE DEF c, m
<1>5. c[1] = s[a]
  BY <1>3, <1>4
<1> QED
  BY <1>1, <1>2, <1>5 DEF c, m

(* The leaf of a chunk of entries.                                          *)
LeafOf(c) == Leaf([j \in DOMAIN c |-> c[j][1]], [j \in DOMAIN c |-> c[j][2]])

(* The lists of a leaf packed from entries a to b.                          *)
LEMMA LeafLists ==
    ASSUME NEW es \in Seq(Entry), NEW a \in 1 .. Len(es), NEW b \in 1 .. Len(es), a <= b,
           NEW c, c = SubSeq(es, a, b)
    PROVE  LeafOf(c) = Leaf(SubSeq(Firsts(es), a, b), SubSeq(Seconds(es), a, b))
<1> DEFINE m == (b + 1) - a
           k == Firsts(es)
           v == Seconds(es)
           s == [j \in DOMAIN c |-> c[j][1]]
           t == [j \in DOMAIN c |-> c[j][2]]
<1>1. /\ k \in Seq(Key) /\ Len(k) = Len(es) /\ v \in Seq(Val) /\ Len(v) = Len(es)
      /\ \A j \in 1 .. Len(es) : /\ es[j][1] \in Key /\ es[j][2] \in Val
                                 /\ k[j] = es[j][1] /\ v[j] = es[j][2]
  BY EntryLists
<1>2. /\ DOMAIN c = 1 .. m
      /\ \A j \in 1 .. m : c[j] = es[(j + a) - 1] /\ (j + a) - 1 \in a .. b
  BY CutElements
<1>3. \A j \in a .. b : j \in 1 .. Len(es)
  <2>1. Len(es) \in Nat
    BY LenProperties
  <2> QED
    BY <2>1
<1> HIDE DEF k, v
<1>4. /\ s \in [1 .. m -> Key] /\ \A j \in 1 .. m : s[j] = k[(j + a) - 1]
      /\ t \in [1 .. m -> Val] /\ \A j \in 1 .. m : t[j] = v[(j + a) - 1]
  BY <1>1, <1>2, <1>3
<1> HIDE DEF s, t, m
<1>5. a \in 1 .. Len(k) /\ b \in 1 .. Len(k) /\ a \in 1 .. Len(v) /\ b \in 1 .. Len(v)
  BY <1>1
<1>6. s = SubSeq(k, a, b)
  BY <1>1, <1>4, <1>5, SameCut DEF m
<1>7. t = SubSeq(v, a, b)
  BY <1>1, <1>4, <1>5, SameCut DEF m
<1>8. LeafOf(c) = Leaf(s, t)
  BY DEF LeafOf, s, t
<1> QED
  BY <1>6, <1>7, <1>8 DEF k, v

(* The lists of an internal node packed from nodes a to b.                  *)
LEMMA PackedLists ==
    ASSUME NEW nodes \in Seq(Waiting), NEW a \in 1 .. Len(nodes), NEW b \in 1 .. Len(nodes),
           a < b, NEW c, c = SubSeq(nodes, a, b)
    PROVE  Packed(c) = Internal(SubSeq(Mins(nodes), a + 1, b), SubSeq(Ids(nodes), a, b))
<1> DEFINE m == (b + 1) - a
           d == (b + 1) - (a + 1)
           k == Mins(nodes)
           v == Ids(nodes)
           s == [j \in 1 .. Len(c) - 1 |-> c[j + 1].min]
           t == [j \in DOMAIN c |-> c[j].id]
<1>1. /\ k \in Seq(Key) /\ Len(k) = Len(nodes) /\ v \in Seq(NodeId) /\ Len(v) = Len(nodes)
      /\ Len(nodes) \in Nat
      /\ \A j \in 1 .. Len(nodes) : /\ nodes[j].min \in Key /\ nodes[j].id \in NodeId
                                    /\ k[j] = nodes[j].min /\ v[j] = nodes[j].id
  BY NodeLists
<1>2. a <= b
  BY <1>1
<1>3. /\ DOMAIN c = 1 .. m /\ Len(c) = m
      /\ \A j \in 1 .. m : c[j] = nodes[(j + a) - 1] /\ (j + a) - 1 \in a .. b
  BY <1>2, CutElements
<1>4. \A j \in a .. b : j \in 1 .. Len(nodes)
  BY <1>1
<1> HIDE DEF k, v
<1>5. t \in [1 .. m -> NodeId] /\ \A j \in 1 .. m : t[j] = v[(j + a) - 1]
  BY <1>1, <1>3, <1>4
<1>6. d = m - 1 /\ Len(c) - 1 = d
  BY <1>1, <1>3
<1>7. ASSUME NEW j \in 1 .. d
      PROVE  c[j + 1].min \in Key /\ c[j + 1].min = k[(j + (a + 1)) - 1]
  <2>1. j + 1 \in 1 .. m /\ ((j + 1) + a) - 1 = (j + (a + 1)) - 1
    BY <1>1, <1>6
  <2> HIDE DEF m
  <2>2. c[j + 1] = nodes[((j + 1) + a) - 1] /\ ((j + 1) + a) - 1 \in 1 .. Len(nodes)
    BY <1>3, <1>4, <2>1
  <2> QED
    BY <1>1, <2>1, <2>2
<1> HIDE DEF m, d
<1>8. s \in [1 .. d -> Key] /\ \A j \in 1 .. d : s[j] = k[(j + (a + 1)) - 1]
  BY <1>6, <1>7
<1> HIDE DEF s, t
<1>9. /\ a \in 1 .. Len(v) /\ b \in 1 .. Len(v)
      /\ a + 1 \in 1 .. Len(k) /\ b \in 1 .. Len(k) /\ a + 1 <= b
  BY <1>1
<1>10. t = SubSeq(v, a, b)
  BY <1>1, <1>2, <1>5, <1>9, SameCut DEF m
<1>11. s = SubSeq(k, a + 1, b)
  BY <1>1, <1>8, <1>9, SameCut DEF d
<1>12. Packed(c) = Internal(s, t)
  BY DEF Packed, s, t
<1> QED
  BY <1>10, <1>11, <1>12 DEF k, v

-----------------------------------------------------------------------------
(* Where the keys of a packed node may be. A node packed from the marks     *)
(* (least keys) a to b of its level gets those from marks[a] on, up to the  *)
(* next mark.                                                               *)
After(marks, b) == IF b < Len(marks) THEN {marks[b + 1]} ELSE {}

(* The mark after a chunk is where the next chunk begins.                   *)
LEMMA MarkFacts ==
    ASSUME NEW marks \in Seq(Key), Ascending(marks),
           NEW a \in 1 .. Len(marks), NEW b \in 1 .. Len(marks), a <= b
    PROVE  /\ {marks[a]} \in SUBSET Key /\ After(marks, b) \in SUBSET Key
           /\ \A j \in a .. b : InRange(marks[j], {marks[a]}, After(marks, b))
           /\ \A j \in a + 1 .. b : Between(marks[j], {marks[a]}, After(marks, b))
<1> DEFINE n == Len(marks)
<1>1. /\ n \in Nat
      /\ \A j \in 1 .. n : marks[j] \in Key /\ marks[j] \in Int
      /\ \A i, j \in 1 .. n : i < j => marks[i] < marks[j]
  BY KeysAreOrdered
<1> HIDE DEF n
<1>2. a \in 1 .. n /\ b \in 1 .. n
  BY DEF n
<1>3. After(marks, b) = IF b < n THEN {marks[b + 1]} ELSE {}
  BY DEF After, n
<1>4. \A j \in a .. b : j \in 1 .. n
  BY <1>1, <1>2
<1>5. \A j \in a .. b : marks[a] <= marks[j]
  <2>1. ASSUME NEW j \in a .. b PROVE marks[a] <= marks[j]
    <3>1. j = a \/ a < j
      BY <1>1, <1>2
    <3> QED
      BY <1>1, <1>2, <1>4, <3>1
  <2> QED
    BY <2>1
<1>6. \A j \in a + 1 .. b : j \in a .. b /\ marks[a] < marks[j]
  BY <1>1, <1>2
<1>7. \A j \in a .. b : \A x \in After(marks, b) : marks[j] < x
  <2>1. ASSUME NEW j \in a .. b, b < n PROVE marks[j] < marks[b + 1]
    <3>1. j < b + 1 /\ b + 1 \in 1 .. n /\ j \in 1 .. n
      BY <1>1, <1>2, <2>1
    <3> QED
      BY <1>1, <3>1
  <2> QED
    BY <1>3, <2>1
<1>8. {marks[a]} \in SUBSET Key /\ After(marks, b) \in SUBSET Key
  <2>1. b < n => b + 1 \in 1 .. n
    BY <1>1, <1>2
  <2> QED
    BY <1>1, <1>2, <1>3, <2>1
<1> QED
  BY <1>5, <1>6, <1>7, <1>8 DEF InRange, Between

(* A leaf packed from entries a to b.                                       *)
LeafPacked(es, a, b, leaf) ==
    /\ leaf \in AnyNode /\ IsLeaf(leaf) /\ ShapeOK(leaf) /\ NodeKids(leaf) = {}
    /\ KeysLen(leaf) = (b + 1) - a
    /\ \A lo, out : NodePlaced(leaf, {es[a][1]}, After(Firsts(es), b), lo, out)
    /\ leaf.keys[1] = es[a][1]
    /\ leaf.keys = SubSeq(Firsts(es), a, b)
    /\ leaf.vals = SubSeq(Seconds(es), a, b)

(* A chunk of ascending entries makes a leaf placed between its marks.      *)
LEMMA PackedLeaf ==
    ASSUME NEW es \in Seq(Entry), Ascending(Firsts(es)),
           NEW a \in 1 .. Len(es), NEW b \in 1 .. Len(es), a <= b,
           NEW leaf, leaf = LeafOf(SubSeq(es, a, b))
    PROVE  LeafPacked(es, a, b, leaf)
<1> DEFINE m == (b + 1) - a
           k == Firsts(es)
           v == Seconds(es)
           s == SubSeq(k, a, b)
           t == SubSeq(v, a, b)
           l == {es[a][1]}
           h == After(k, b)
<1>1. /\ k \in Seq(Key) /\ Len(k) = Len(es) /\ v \in Seq(Val) /\ Len(v) = Len(es)
      /\ Len(es) \in Nat
      /\ k[a] = es[a][1]
  BY EntryLists
<1>2. leaf = Leaf(s, t)
  BY LeafLists
<1>3. s \in Seq(Key) /\ Len(s) = m /\ m \in Nat \ {0} /\ s[1] = k[a]
  <2>1. a \in 1 .. Len(k) /\ b \in 1 .. Len(k) /\ k \in Seq(Key)
    BY <1>1
  <2> HIDE DEF k
  <2> QED
    BY <2>1, CutFirst
<1>4. t \in Seq(Val) /\ Len(t) = m
  <2>1. a \in 1 .. Len(v) /\ b \in 1 .. Len(v) /\ v \in Seq(Val) /\ m = (b + 1) - a
    BY <1>1
  <2> HIDE DEF v, m
  <2> QED
    BY <2>1, CutElements
<1>5. KeysPlaced(s, l, h)
  <2>1. /\ a \in 1 .. Len(k) /\ b \in 1 .. Len(k) /\ k \in Seq(Key) /\ Ascending(k)
        /\ l = {k[a]}
    BY <1>1
  <2> HIDE DEF k, l
  <2>2. l \in SUBSET Key /\ h \in SUBSET Key /\ \A j \in a .. b : InRange(k[j], l, h)
    BY <2>1, MarkFacts
  <2>3. a \in Nat /\ b \in Nat /\ 1 <= a /\ b <= Len(k) /\ a <= b + 1
    BY <1>1, <2>1
  <2> HIDE DEF h
  <2> QED
    BY <2>1, <2>2, <2>3, CutPlaced
<1> HIDE DEF s, t, k, v, l, h, m
<1>6. /\ Leaf(s, t) \in AnyNode /\ IsLeaf(Leaf(s, t)) /\ ShapeOK(Leaf(s, t))
      /\ NodeKids(Leaf(s, t)) = {}
      /\ Leaf(s, t).keys = s /\ Leaf(s, t).vals = t
  BY <1>3, <1>4, LeafShape, LeafIsNode DEF AnyNode
<1>7. KeysLen(leaf) = m
  BY <1>2, <1>3, <1>6 DEF KeysLen
<1>8. \A lo, out : NodePlaced(leaf, l, h, lo, out)
  BY <1>2, <1>5, <1>6 DEF NodePlaced
<1>9. /\ leaf \in AnyNode /\ IsLeaf(leaf) /\ ShapeOK(leaf) /\ NodeKids(leaf) = {}
      /\ leaf.keys = s /\ leaf.vals = t
      /\ s \in Seq(Key) /\ s[1] = es[a][1] /\ Len(s) >= 1
  <2>1. /\ leaf \in AnyNode /\ IsLeaf(leaf) /\ ShapeOK(leaf) /\ NodeKids(leaf) = {}
        /\ leaf.keys = s /\ leaf.vals = t
    BY <1>2, <1>6
  <2>2. s[1] = es[a][1]
    BY <1>1, <1>3
  <2>3. Len(s) >= 1
    BY <1>3
  <2> QED
    BY <1>3, <2>1, <2>2, <2>3
<1> QED
  BY <1>7, <1>8, <1>9 DEF s, t, l, h, k, v, m, LeafPacked

(* A complete level: each node has the keys from its least one up to the    *)
(* least one of its right neighbour.                                        *)
Row(nodes, lo, hi) ==
    /\ nodes \in Seq(Waiting)
    /\ Ascending(Mins(nodes))
    /\ IsInjective(Ids(nodes))
    /\ \A j \in 1 .. Len(nodes) : /\ lo[nodes[j].id] = {nodes[j].min}
                                  /\ hi[nodes[j].id] = After(Mins(nodes), j)

(* An internal node packed from nodes a to b.                               *)
LEMMA PackedNode ==
    ASSUME NEW nodes, NEW lo, NEW hi, Row(nodes, lo, hi),
           NEW a \in 1 .. Len(nodes), NEW b \in 1 .. Len(nodes), a < b,
           NEW node, node = Packed(SubSeq(nodes, a, b))
    PROVE  /\ node \in AnyNode /\ ~IsLeaf(node) /\ ShapeOK(node)
           /\ NodeKids(node) = {nodes[j].id : j \in a .. b}
           /\ KeysLen(node) = b - a
           /\ NodePlaced(node, {nodes[a].min}, After(Mins(nodes), b), lo, hi)
<1> DEFINE k == Mins(nodes)
           v == Ids(nodes)
           s == SubSeq(k, a + 1, b)
           t == SubSeq(v, a, b)
           l == {nodes[a].min}
           h == After(k, b)
           m == b - a
           n == Len(nodes)
<1>1. /\ k \in Seq(Key) /\ Len(k) = n /\ v \in Seq(NodeId) /\ Len(v) = n
      /\ n \in Nat
      /\ \A j \in 1 .. n : k[j] = nodes[j].min /\ v[j] = nodes[j].id
  BY NodeLists DEF Row
<1>2. node = Internal(s, t)
  BY PackedLists DEF Row
<1>3. Ascending(k) /\ IsInjective(v)
  BY DEF Row
<1>4. /\ m \in Nat \ {0} /\ (b + 1) - (a + 1) = m /\ (b + 1) - a = m + 1
      /\ a + 1 \in 1 .. n /\ a + 1 <= b /\ a <= b
  BY <1>1
<1>5. /\ s \in Seq(Key) /\ Len(s) = m
      /\ \A j \in 1 .. m : s[j] = k[(j + (a + 1)) - 1] /\ (j + (a + 1)) - 1 \in a + 1 .. b
  <2>1. a + 1 \in 1 .. Len(k) /\ b \in 1 .. Len(k) /\ k \in Seq(Key)
    BY <1>1, <1>4
  <2> HIDE DEF k
  <2> QED
    BY <1>4, <2>1, CutElements
<1>6. /\ t \in Seq(NodeId) /\ Len(t) = m + 1
      /\ \A j \in 1 .. m + 1 : t[j] = v[(j + a) - 1] /\ (j + a) - 1 \in a .. b
  <2>1. a \in 1 .. Len(v) /\ b \in 1 .. Len(v) /\ v \in Seq(NodeId)
    BY <1>1
  <2> HIDE DEF v
  <2> QED
    BY <1>4, <2>1, CutElements
<1>7. IsInjective(t) /\ Range(t) = {v[j] : j \in a .. b}
  <2>1. a \in Nat /\ b \in Nat /\ 1 <= a /\ b <= Len(v) /\ a <= b + 1
    BY <1>1
  <2> HIDE DEF v
  <2> QED
    BY <1>1, <1>3, <2>1, CutProperties
<1>8. /\ l \in SUBSET Key /\ h \in SUBSET Key /\ l = {k[a]}
      /\ \A j \in a .. b : InRange(k[j], l, h)
      /\ \A j \in a + 1 .. b : Between(k[j], l, h)
  <2>1. /\ a \in 1 .. Len(k) /\ b \in 1 .. Len(k) /\ k \in Seq(Key) /\ Ascending(k)
        /\ l = {k[a]} /\ a <= b
    BY <1>1, <1>3, <1>4
  <2> HIDE DEF k, l
  <2> QED
    BY <2>1, MarkFacts
<1>9. KeysPlaced(s, l, h)
  <2>1. a + 1 \in Nat /\ b \in Nat /\ 1 <= a + 1 /\ b <= Len(k) /\ a + 1 <= b + 1
    BY <1>1
  <2>2. \A j \in a + 1 .. b : InRange(k[j], l, h)
    <3>1. \A j \in a + 1 .. b : j \in a .. b
      BY <1>1
    <3> HIDE DEF k, l, h
    <3> QED
      BY <1>8, <3>1
  <2> HIDE DEF k, l, h
  <2> QED
    BY <1>1, <1>3, <1>8, <2>1, <2>2, CutPlaced
<1>10. \A j \in 1 .. n : lo[v[j]] = {k[j]} /\ hi[v[j]] = After(k, j)
  BY <1>1 DEF Row
<1> HIDE DEF k, v, s, t, l
<1>11. h = After(k, b) /\ \A j \in 1 .. n : After(k, j) = IF j < n THEN {k[j + 1]} ELSE {}
  BY <1>1 DEF After
<1> HIDE DEF h, m, n
<1>12. b \in 1 .. n /\ a \in 1 .. n
  BY DEF n
<1>13. ASSUME NEW i \in 1 .. m + 1
       PROVE  lo[t[i]] = LowOf(s, l, i) /\ hi[t[i]] = HighOf(s, h, i)
  <2> DEFINE x == (i + a) - 1
  <2>1. t[i] = v[x] /\ x \in a .. b
    BY <1>6
  <2>2. x \in 1 .. n
    BY <1>1, <1>12, <2>1
  <2>3. lo[t[i]] = {k[x]} /\ hi[t[i]] = After(k, x)
    BY <1>10, <2>1, <2>2
  <2>4. LowOf(s, l, i) = {k[x]}
    <3>1. CASE i = 1
      <4>1. x = a
        BY <1>12, <3>1
      <4> QED
        BY <1>8, <3>1, <4>1 DEF LowOf
    <3>2. CASE i # 1
      <4>1. i - 1 \in 1 .. m /\ ((i - 1) + (a + 1)) - 1 = x
        BY <1>1, <1>4, <1>12, <3>2
      <4>2. s[i - 1] = k[x]
        BY <1>5, <4>1
      <4> QED
        BY <3>2, <4>2 DEF LowOf
    <3> QED
      BY <3>1, <3>2
  <2>5. HighOf(s, h, i) = After(k, x)
    <3>1. CASE i = m + 1
      <4>1. x = b
        BY <1>4, <1>12, <3>1 DEF m
      <4> QED
        BY <1>5, <1>11, <3>1, <4>1 DEF HighOf
    <3>2. CASE i # m + 1
      <4>1. i \in 1 .. m /\ (i + (a + 1)) - 1 = x + 1 /\ x < b
        BY <1>1, <1>4, <1>12, <3>2 DEF m
      <4>2. x < n
        BY <1>1, <1>12, <2>2, <4>1
      <4>3. s[i] = k[x + 1] /\ i # Len(s) + 1
        BY <1>5, <3>2, <4>1
      <4> QED
        BY <1>11, <2>2, <4>2, <4>3 DEF HighOf
    <3> QED
      BY <3>1, <3>2
  <2> QED
    BY <2>3, <2>4, <2>5
<1>14. \A j \in 1 .. m : Between(s[j], l, h)
  BY <1>5, <1>8
<1>15. /\ Internal(s, t) \in AnyNode /\ ~IsLeaf(Internal(s, t)) /\ ShapeOK(Internal(s, t))
       /\ NodeKids(Internal(s, t)) = Range(t)
       /\ Internal(s, t).keys = s /\ Internal(s, t).children = t
  BY <1>5, <1>6, <1>7, InternalShape, InternalIsNode DEF AnyNode
<1>16. KidsPlaced(node, l, h, lo, hi)
  BY <1>2, <1>5, <1>6, <1>13, <1>14, <1>15 DEF KidsPlaced
<1>17. NodePlaced(node, l, h, lo, hi)
  BY <1>2, <1>9, <1>15, <1>16 DEF NodePlaced
<1>18. KeysLen(node) = m
  BY <1>2, <1>5, <1>15 DEF KeysLen
<1>19. NodeKids(node) = {nodes[j].id : j \in a .. b}
  <2>1. \A j \in a .. b : v[j] = nodes[j].id
    <3>1. \A j \in a .. b : j \in 1 .. n
      BY <1>1, <1>12
    <3> QED
      BY <1>1, <3>1
  <2> QED
    BY <1>2, <1>7, <1>15, <2>1
<1> QED
  BY <1>2, <1>15, <1>17, <1>18, <1>19 DEF m, l, h, k

-----------------------------------------------------------------------------
(* The forest a load has built so far: tops are the nodes without a parent, *)
(* m is the least key loaded. Every node has a least key, which bounds the  *)
(* keys below it and is one of them, and is at least half full unless it is *)
(* spared, as the only node of its level.                                   *)
Grown(node, l, spare, m) ==
    /\ KeysLen(node) \in 1 .. Order - 1
    /\ spare \/ KeysLen(node) >= Half
    /\ \E b \in Key : l = {b} /\ m <= b
    /\ IsLeaf(node) => l = {node.keys[1]}

Forest(st, tops, lv, lo, hi, spared, m) ==
    /\ TreeOK(st, tops, lv)
    /\ Placed(st, lo, hi, hi)
    /\ \A x \in Live(st) : Grown(Fetch(st, x), lo[x], x \in spared, m)

(* A node planted in a forest, with the nodes it links for children.        *)
LEMMA PlantForest ==
    ASSUME NEW st, NEW tops, NEW lv, NEW lo, NEW hi, NEW spared, NEW m,
           Forest(st, tops, lv, lo, hi, spared, m),
           NEW node, NEW n, NEW new, NEW r, NEW newTops,
           Plants(st, tops, lv, node, n, new, r, newTops),
           NEW l \in SUBSET Key, NEW h \in SUBSET Key,
           NodePlaced(node, l, h, lo, hi),
           NEW wide, spared \subseteq wide, Grown(node, l, r \in wide, m)
    PROVE  Forest(new, newTops, Extended(lv, r, n), Extended(lo, r, l), Extended(hi, r, h), wide, m)
<1> DEFINE newLo == Extended(lo, r, l)
           newHi == Extended(hi, r, h)
<1>1. TreeOK(st, tops, lv) /\ Placed(st, lo, hi, hi)
  BY DEF Forest
<1>2. /\ r \notin Live(st) /\ Live(new) = Live(st) \cup {r}
      /\ TreeOK(new, newTops, Extended(lv, r, n))
  BY PlantNode
<1>3. st \in StoreType /\ StoreOK(st) /\ tops \subseteq Live(st)
  BY <1>1 DEF TreeOK, Linked
<1>4. /\ Room(st) /\ node \in AnyNode /\ NodeKids(node) \subseteq tops
      /\ new = Alloc(st, node) /\ r = AllocId(st)
  BY DEF Plants
<1>5. Untouched(st, new, {r}) /\ Fetch(new, r) = node
  BY <1>3, <1>4, GrownStore
<1>6. lo \in [Live(st) -> SUBSET Key] /\ hi \in [Live(st) -> SUBSET Key]
  BY <1>1 DEF Placed
<1>7. /\ newLo \in [Live(new) -> SUBSET Key] /\ newHi \in [Live(new) -> SUBSET Key]
      /\ newLo[r] = l /\ newHi[r] = h
      /\ \A c \in Live(st) : newLo[c] = lo[c] /\ newHi[c] = hi[c]
  <2> DEFINE B == SUBSET Key
  <2>1. lo \in [Live(st) -> B] /\ hi \in [Live(st) -> B] /\ l \in B /\ h \in B
    BY <1>6
  <2> HIDE DEF B
  <2>2. /\ newLo \in [Live(st) \cup {r} -> B] /\ newLo[r] = l
        /\ \A c \in Live(st) : newLo[c] = lo[c]
    BY <1>2, <2>1 DEF Extended
  <2>3. /\ newHi \in [Live(st) \cup {r} -> B] /\ newHi[r] = h
        /\ \A c \in Live(st) : newHi[c] = hi[c]
    BY <1>2, <2>1 DEF Extended
  <2> HIDE DEF newLo, newHi
  <2>4. newLo \in [Live(new) -> B] /\ newHi \in [Live(new) -> B]
    BY <1>2, <2>2, <2>3
  <2> QED
    BY <2>2, <2>3, <2>4 DEF B
<1> HIDE DEF newLo, newHi
<1>8. NodePlaced(node, l, h, newLo, newHi)
  <2>1. \A c \in NodeKids(node) : newLo[c] = lo[c] /\ newHi[c] = hi[c]
    BY <1>3, <1>4, <1>7
  <2> QED
    BY <1>4, <2>1, SameSlots
<1>9. Placed(new, newLo, newHi, newHi)
  <2>1. \A id \in Live(new) \ {r} : newLo[id] = lo[id] /\ newHi[id] = hi[id]
    BY <1>2, <1>7
  <2>2. \A id \in {r} \cap Live(new) :
            NodePlaced(Fetch(new, id), newLo[id], newHi[id], newLo, newHi)
    BY <1>5, <1>7, <1>8
  <2>3. Rebinds(st, tops, lv, lo, hi, hi, new, newLo, newHi, newHi, {r}, {})
    BY <1>1, <1>5, <1>7, <2>1, <2>2 DEF Rebinds
  <2> QED
    BY <2>3, Rebound
<1>10. ASSUME NEW x \in Live(new)
       PROVE  Grown(Fetch(new, x), newLo[x], x \in wide, m)
  <2>1. CASE x = r
    BY <1>5, <1>7, <2>1
  <2>2. CASE x # r
    <3>1. x \in Live(st) /\ Fetch(new, x) = Fetch(st, x) /\ newLo[x] = lo[x]
      BY <1>2, <1>5, <1>7, <2>2 DEF Untouched
    <3>2. Grown(Fetch(st, x), lo[x], x \in spared, m)
      BY <3>1 DEF Forest
    <3> QED
      BY <3>1, <3>2 DEF Grown
  <2> QED
    BY <2>1, <2>2
<1> QED
  BY <1>2, <1>9, <1>10 DEF Forest, newLo, newHi

(* The nodes from place a to place b of a level.                            *)
Members(nodes, a, b) == {nodes[j].id : j \in a .. b}

(* What has been packed of a level with these marks: the node of chunk i    *)
(* has its keys from the first mark of the chunk on, up to the next chunk.  *)
PackedSoFar(nodes, marks, max, lo, hi) ==
    /\ nodes \in Seq(Waiting)
    /\ Len(nodes) <= Chunks(Len(marks), max)
    /\ \A i, j \in 1 .. Len(nodes) : nodes[i].id = nodes[j].id => i = j
    /\ \A i \in 1 .. Len(nodes) :
          /\ nodes[i].min = marks[First(Len(marks), max, i)]
          /\ lo[nodes[i].id] = {nodes[i].min}
          /\ hi[nodes[i].id] = After(marks, Taken(Len(marks), max, i))

(* One node more on a list.                                                 *)
LEMMA OneMore ==
    ASSUME NEW nodes \in Seq(Waiting), NEW w \in Waiting, NEW new, new = Append(nodes, w)
    PROVE  /\ Len(nodes) \in Nat /\ Len(new) = Len(nodes) + 1 /\ new \in Seq(Waiting)
           /\ \A j \in 1 .. Len(nodes) : new[j] = nodes[j]
           /\ new[Len(nodes) + 1] = w
<1> DEFINE n == Len(nodes)
<1>1. /\ n \in Nat /\ Len(new) = n + 1 /\ new \in Seq(Waiting)
      /\ \A j \in 1 .. n + 1 : new[j] = IF j <= n THEN nodes[j] ELSE w
  BY AppendElements, LenProperties
<1> HIDE DEF n
<1>2. /\ \A j \in 1 .. n : new[j] = nodes[j]
      /\ new[n + 1] = w
  BY <1>1
<1> QED
  BY <1>1, <1>2 DEF n

AddsOne(nodes, marks, max, lo, hi, i, a, b, S, r, newLo, newHi, w, new) ==
    /\ marks \in Seq(Key)
    /\ PackedSoFar(nodes, marks, max, lo, hi)
    /\ i = Len(nodes) + 1
    /\ Stretch(Len(marks), max, i, a, b)
    /\ Members(nodes, 1, Len(nodes)) \subseteq S
    /\ r \in NodeId /\ r \notin S
    /\ \A c \in S : newLo[c] = lo[c] /\ newHi[c] = hi[c]
    /\ newLo[r] = {marks[a]} /\ newHi[r] = After(marks, b)
    /\ w \in Waiting /\ w.id = r /\ w.min = marks[a]
    /\ new = Append(nodes, w)

(* Packing the next chunk extends what has been packed.                     *)
LEMMA PackedOneMore ==
    ASSUME NEW nodes, NEW marks, NEW max, NEW lo, NEW hi, NEW i, NEW a, NEW b, NEW S, NEW r,
           NEW newLo, NEW newHi, NEW w, NEW new,
           AddsOne(nodes, marks, max, lo, hi, i, a, b, S, r, newLo, newHi, w, new)
    PROVE  /\ PackedSoFar(new, marks, max, newLo, newHi)
           /\ Len(new) = i
           /\ Members(new, 1, i) = Members(nodes, 1, Len(nodes)) \cup {r}
<1> DEFINE n == Len(nodes)
           M == Members(nodes, 1, n)
<1>0. /\ marks \in Seq(Key) /\ PackedSoFar(nodes, marks, max, lo, hi)
      /\ i = Len(nodes) + 1 /\ Stretch(Len(marks), max, i, a, b)
      /\ Members(nodes, 1, Len(nodes)) \subseteq S
      /\ r \in NodeId /\ r \notin S
      /\ \A c \in S : newLo[c] = lo[c] /\ newHi[c] = hi[c]
      /\ newLo[r] = {marks[a]} /\ newHi[r] = After(marks, b)
      /\ w \in Waiting /\ w.id = r /\ w.min = marks[a]
      /\ new = Append(nodes, w)
  BY DEF AddsOne
<1>1. a \in 1 .. Len(marks) /\ i <= Chunks(Len(marks), max)
      /\ a = First(Len(marks), max, i) /\ b = Taken(Len(marks), max, i)
  <2>1. a \in 1 .. Len(marks)
    BY <1>0, StretchBounds
  <2>2. Chunks(Len(marks), max) \in Nat
    BY <1>0, ChunksLeast DEF Stretch
  <2> QED
    BY <1>0, <2>1, <2>2 DEF Stretch
<1>3. nodes \in Seq(Waiting)
  BY <1>0 DEF PackedSoFar
<1>4. /\ n \in Nat /\ Len(new) = n + 1 /\ new \in Seq(Waiting)
      /\ \A j \in 1 .. n : new[j] = nodes[j]
      /\ new[n + 1] = w
      /\ Members(new, 1, n + 1) = M \cup {w.id}
  <2>1. n \in Nat /\ Len(new) = n + 1 /\ new \in Seq(Waiting)
    BY <1>0, <1>3, OneMore
  <2>2. (\A j \in 1 .. n : new[j] = nodes[j]) /\ new[n + 1] = w
    BY <1>0, <1>3, OneMore
  <2> HIDE DEF n
  <2>3. Members(new, 1, n + 1) = M \cup {w.id}
    BY <2>1, <2>2 DEF Members
  <2> HIDE DEF M
  <2> QED
    BY <2>1, <2>2, <2>3
<1>5. /\ \A j, k \in 1 .. n : nodes[j].id = nodes[k].id => j = k
      /\ \A j \in 1 .. n :
            /\ nodes[j].id \in M
            /\ nodes[j].min = marks[First(Len(marks), max, j)]
            /\ lo[nodes[j].id] = {nodes[j].min}
            /\ hi[nodes[j].id] = After(marks, Taken(Len(marks), max, j))
  BY <1>0 DEF PackedSoFar, Members
<1>6. i = n + 1 /\ M \subseteq S
  BY <1>0
<1> HIDE DEF n, M
<1>7. \A j, k \in 1 .. n + 1 : new[j].id = new[k].id => j = k
  BY <1>0, <1>4, <1>5, <1>6
<1>8. ASSUME NEW j \in 1 .. n + 1
      PROVE  /\ new[j].min = marks[First(Len(marks), max, j)]
             /\ newLo[new[j].id] = {new[j].min}
             /\ newHi[new[j].id] = After(marks, Taken(Len(marks), max, j))
  <2>1. CASE j = n + 1
    BY <1>0, <1>1, <1>4, <1>6, <2>1
  <2>2. CASE j # n + 1
    <3>1. j \in 1 .. n
      BY <1>4, <2>2
    <3>2. new[j] = nodes[j] /\ nodes[j].id \in S
      BY <1>4, <1>5, <1>6, <3>1
    <3>3. newLo[nodes[j].id] = lo[nodes[j].id] /\ newHi[nodes[j].id] = hi[nodes[j].id]
      BY <1>0, <3>2
    <3>4. /\ nodes[j].min = marks[First(Len(marks), max, j)]
          /\ lo[nodes[j].id] = {nodes[j].min}
          /\ hi[nodes[j].id] = After(marks, Taken(Len(marks), max, j))
      BY <1>5, <3>1
    <3> QED
      BY <3>2, <3>3, <3>4
  <2> QED
    BY <2>1, <2>2
<1>9. Len(new) <= Chunks(Len(marks), max)
  BY <1>1, <1>4, <1>6
<1>10. PackedSoFar(new, marks, max, newLo, newHi)
  BY <1>4, <1>7, <1>8, <1>9 DEF PackedSoFar
<1> QED
  BY <1>0, <1>4, <1>6, <1>10 DEF n, M

(* All of a level packed, the nodes packed are a complete level themselves. *)
LEMMA PackedAll ==
    ASSUME NEW nodes, NEW marks \in Seq(Key), Ascending(marks), Len(marks) > 0,
           NEW max \in Nat \ {0}, NEW lo, NEW hi,
           PackedSoFar(nodes, marks, max, lo, hi), Len(nodes) = Chunks(Len(marks), max)
    PROVE  /\ Row(nodes, lo, hi) /\ nodes # <<>> /\ nodes[1].min = marks[1]
           /\ Taken(Len(marks), max, Len(nodes)) = Len(marks)
<1> DEFINE n == Len(nodes)
           m == Len(marks)
           k == Mins(nodes)
           v == Ids(nodes)
           f(i) == First(m, max, i)
           t(i) == Taken(m, max, i)
<1>1. /\ k \in Seq(Key) /\ Len(k) = n /\ v \in Seq(NodeId) /\ Len(v) = n
      /\ n \in Nat
      /\ \A j \in 1 .. n : k[j] = nodes[j].min /\ v[j] = nodes[j].id
  BY NodeLists DEF PackedSoFar
<1>2. m \in Nat \ {0} /\ (\A j \in 1 .. m : marks[j] \in Int)
      /\ \A i, j \in 1 .. m : i < j => marks[i] < marks[j]
  BY KeysAreOrdered
<1>3. n = Chunks(m, max) /\ n \in Nat \ {0}
  BY <1>2, ChunksLeast
<1>4. ASSUME NEW i \in 1 .. n
      PROVE  /\ f(i) \in 1 .. m /\ t(i) \in 1 .. m /\ f(i) <= t(i)
             /\ i = 1 => f(i) = 1
             /\ i = n => t(i) = m
             /\ i < n => t(i) < m /\ f(i + 1) = t(i) + 1
  <2>1. Stretch(m, max, i, f(i), t(i))
    BY <1>2, <1>3 DEF Stretch
  <2>2. i < n => i + 1 \in 1 .. n
    BY <1>3
  <2> HIDE DEF n, m
  <2> QED
    BY <1>3, <2>1, <2>2, StretchBounds
<1>5. \A i \in 1 .. n : /\ k[i] = marks[f(i)]
                        /\ lo[nodes[i].id] = {nodes[i].min}
                        /\ hi[nodes[i].id] = After(marks, t(i))
  BY <1>1 DEF PackedSoFar
<1>6. \A i, j \in 1 .. n : v[i] = v[j] => i = j
  BY <1>1 DEF PackedSoFar
<1> HIDE DEF k, v
<1>7. \A i \in 1 .. n : After(marks, t(i)) = After(k, i)
  <2>1. \A i \in 1 .. n : /\ After(marks, t(i)) = IF t(i) < m THEN {marks[t(i) + 1]} ELSE {}
                          /\ After(k, i) = IF i < n THEN {k[i + 1]} ELSE {}
    BY <1>1 DEF After
  <2> HIDE DEF n, m, f, t
  <2> SUFFICES ASSUME NEW i \in 1 .. n PROVE After(marks, t(i)) = After(k, i)
    OBVIOUS
  <2>2. CASE i = n
    <3>1. ~(t(i) < m) /\ ~(i < n)
      BY <1>2, <1>3, <1>4, <2>2
    <3> QED
      BY <2>1, <3>1
  <2>3. CASE i < n
    <3>1. t(i) < m /\ f(i + 1) = t(i) + 1 /\ i + 1 \in 1 .. n
      BY <1>3, <1>4, <2>3
    <3>2. k[i + 1] = marks[t(i) + 1]
      BY <1>5, <3>1
    <3> QED
      BY <2>1, <2>3, <3>1, <3>2
  <2> QED
    BY <1>3, <2>2, <2>3
<1>8. \A i \in 1 .. n : \A j \in 1 .. n : i < j => f(i) < f(j)
  <2> SUFFICES ASSUME NEW i \in 1 .. n, NEW j \in 1 .. n, i < j
               PROVE  f(i) < f(j)
    OBVIOUS
  <2>1. i \in Nat /\ j - 1 \in Nat /\ i <= j - 1 /\ j - 1 \in 1 .. n
    BY <1>3
  <2>2. t(i) <= t(j - 1)
    BY <1>2, <2>1, TakenMonotone
  <2>3. f(j) = t(j - 1) + 1
    BY DEF First
  <2> HIDE DEF n, m, f, t
  <2>4. f(i) \in 1 .. m /\ t(i) \in 1 .. m /\ f(i) <= t(i) /\ t(j - 1) \in 1 .. m
    BY <1>4, <2>1
  <2> QED
    BY <1>2, <2>2, <2>3, <2>4
<1> HIDE DEF n, m, f, t
<1>9. Ascending(k)
  <2>1. \A i, j \in 1 .. Len(k) : i < j => k[i] < k[j]
    <3> SUFFICES ASSUME NEW i \in 1 .. n, NEW j \in 1 .. n, i < j
                 PROVE  k[i] < k[j]
      BY <1>1
    <3>1. f(i) < f(j) /\ f(i) \in 1 .. m /\ f(j) \in 1 .. m
      BY <1>4, <1>8
    <3>2. marks[f(i)] < marks[f(j)]
      BY <1>2, <3>1
    <3> QED
      BY <1>5, <3>2
  <2> QED
    BY <1>1, <2>1, KeysAreOrdered
<1>10. IsInjective(v)
  <2>1. DOMAIN v = 1 .. n
    BY <1>1, LenProperties
  <2> QED
    BY <1>6, <2>1 DEF IsInjective
<1>11. nodes \in Seq(Waiting) /\ n = Len(nodes)
  BY DEF PackedSoFar, n
<1>12. Row(nodes, lo, hi)
  BY <1>5, <1>7, <1>9, <1>10, <1>11 DEF Row, k, v
<1>13. nodes # <<>>
  BY <1>3, <1>11, EmptySeq
<1>14. nodes[1].min = marks[1] /\ t(n) = m
  <2>1. 1 \in 1 .. n /\ n \in 1 .. n
    BY <1>3
  <2> QED
    BY <1>1, <1>4, <1>5, <2>1
<1> QED
  BY <1>11, <1>12, <1>13, <1>14 DEF m, t

(* The entries of a packed leaf.                                            *)
Stored(es, a, b) == {es[j] : j \in a .. b}

(* The pairs of a packed leaf are the entries of its chunk.                 *)
LEMMA StretchPairs ==
    ASSUME NEW es \in Seq(Entry), NEW a \in 1 .. Len(es), NEW b \in 1 .. Len(es), a <= b
    PROVE  Pairing(SubSeq(Firsts(es), a, b), SubSeq(Seconds(es), a, b)) = Stored(es, a, b)
<1> DEFINE k == Firsts(es)
           v == Seconds(es)
           s == SubSeq(k, a, b)
           t == SubSeq(v, a, b)
           m == (b + 1) - a
           n == Len(es)
<1>1. /\ k \in Seq(Key) /\ Len(k) = n /\ v \in Seq(Val) /\ Len(v) = n /\ n \in Nat
      /\ \A j \in 1 .. n : es[j] = <<k[j], v[j]>>
  BY EntryLists
<1> HIDE DEF k, v
<1>2. a \in 1 .. Len(k) /\ b \in 1 .. Len(k) /\ a \in 1 .. Len(v) /\ b \in 1 .. Len(v)
  BY <1>1
<1>3. Len(s) = m /\ \A j \in 1 .. m : s[j] = k[(j + a) - 1] /\ (j + a) - 1 \in a .. b
  BY <1>1, <1>2, CutElements
<1>4. \A j \in 1 .. m : t[j] = v[(j + a) - 1]
  BY <1>1, <1>2, CutElements
<1>5. a \in Nat /\ b \in Nat /\ \A j \in a .. b : j \in 1 .. n
  BY <1>1
<1> HIDE DEF s, t, n
<1>6. \A j \in 1 .. m : <<s[j], t[j]>> = es[(j + a) - 1] /\ (j + a) - 1 \in a .. b
  BY <1>1, <1>3, <1>4, <1>5
<1>7. \A x \in a .. b : \E j \in 1 .. m : (j + a) - 1 = x
  <2>1. ASSUME NEW x \in a .. b PROVE (x + 1) - a \in 1 .. m /\ (((x + 1) - a) + a) - 1 = x
    BY <1>5
  <2> QED
    BY <2>1
<1>8. Pairing(s, t) = {<<s[j], t[j]>> : j \in 1 .. m}
  BY <1>3 DEF Pairing
<1> HIDE DEF m
<1>9. {<<s[j], t[j]>> : j \in 1 .. m} = Stored(es, a, b)
  <2>1. ASSUME NEW j \in 1 .. m PROVE <<s[j], t[j]>> \in Stored(es, a, b)
    BY <1>6 DEF Stored
  <2>2. ASSUME NEW x \in a .. b PROVE es[x] \in {<<s[j], t[j]>> : j \in 1 .. m}
    <3>1. PICK j \in 1 .. m : (j + a) - 1 = x
      BY <1>7
    <3>2. es[x] = <<s[j], t[j]>>
      BY <1>6, <3>1
    <3> QED
      BY <3>2
  <2> QED
    BY <2>1, <2>2 DEF Stored
<1> QED
  BY <1>8, <1>9 DEF s, t, k, v

(* A node planted brings its entries.                                       *)
LEMMA PlantPairs ==
    ASSUME NEW st, NEW tops, NEW lv, NEW node, NEW n, NEW new, NEW r, NEW newTops,
           Plants(st, tops, lv, node, n, new, r, newTops)
    PROVE  Pairs(new) = Pairs(st) \cup NodePairs(node)
<1>1. /\ st \in StoreType /\ StoreOK(st) /\ Room(st) /\ node \in AnyNode
      /\ new = Alloc(st, node) /\ r = AllocId(st)
  BY DEF Plants, TreeOK
<1>2. /\ r \notin Live(st) /\ Live(new) = Live(st) \cup {r}
      /\ Untouched(st, new, {r}) /\ Fetch(new, r) = node
  BY <1>1, GrownStore
<1>3. Keeps(st, new, {r})
  BY <1>2 DEF Keeps
<1>4. Live(st) \cap {r} = {} /\ Live(new) \cap {r} = {r}
  BY <1>2
<1>5. At(st, {r}) = {}
  BY <1>4 DEF At, PairsIn
<1>6. At(new, {r}) = NodePairs(node)
  BY <1>2, <1>4, PairsOfOne DEF At
<1> HIDE DEF At
<1>7. Pairs(st) = Apart(st, {r}) \cup At(st, {r}) /\ Pairs(new) = Apart(st, {r}) \cup At(new, {r})
  BY <1>3, PairsOutside
<1> QED
  BY <1>5, <1>6, <1>7

(* One step of packing: chunk i of a level becomes a node of height n.      *)
Packs(tops, lv, lo, hi, spared, m, marks, max, i, a, b, node, n, wide) ==
    /\ Forest(store, tops, lv, lo, hi, spared, m)
    /\ PackedSoFar(above, marks, max, lo, hi)
    /\ Members(above, 1, Len(above)) \subseteq Live(store)
    /\ marks \in Seq(Key)
    /\ i = Len(above) + 1
    /\ Stretch(Len(marks), max, i, a, b)
    /\ node \in AnyNode /\ ShapeOK(node)
    /\ n \in Nat
    /\ IsLeaf(node) <=> n = 0
    /\ NodeKids(node) \subseteq tops
    /\ \A t \in NodeKids(node) : lv[t] + 1 = n
    /\ NodePlaced(node, {marks[a]}, After(marks, b), lo, hi)
    /\ spared \subseteq wide
    /\ Grown(node, {marks[a]}, AllocId(store) \in wide, m)
    /\ Pack(node, marks[a])

(* What the step does.                                                      *)
Grew(tops, lv, lo, hi, m, marks, max, i, node, n, wide, newLv, newLo, newHi) ==
    LET r == AllocId(store)
    IN  /\ r \in NodeId \ Live(store)
        /\ Live(store') = Live(store) \cup {r}
        /\ Pairs(store') = Pairs(store) \cup NodePairs(node)
        /\ Len(above') = i
        /\ Members(above', 1, Len(above')) = Members(above, 1, Len(above)) \cup {r}
        /\ Forest(store', (tops \ NodeKids(node)) \cup {r}, newLv, newLo, newHi, wide, m)
        /\ PackedSoFar(above', marks, max, newLo, newHi)
        /\ newLv[r] = n
        /\ \A c \in Live(store) : /\ newLv[c] = lv[c]
                                  /\ newLo[c] = lo[c] /\ newHi[c] = hi[c]

(* One more node, packed and planted: the forest and the list of its tops.  *)
LEMMA PackGrows ==
    ASSUME NEW tops, NEW lv, NEW lo, NEW hi, NEW spared, NEW m, NEW marks, NEW max,
           NEW i, NEW a, NEW b, NEW node, NEW n, NEW wide,
           Packs(tops, lv, lo, hi, spared, m, marks, max, i, a, b, node, n, wide)
    PROVE  \E newLv, newLo, newHi :
               Grew(tops, lv, lo, hi, m, marks, max, i, node, n, wide, newLv, newLo, newHi)
<1> DEFINE r == AllocId(store)
           newTops == (tops \ NodeKids(node)) \cup {r}
           l == {marks[a]}
           h == After(marks, b)
           newLv == Extended(lv, r, n)
           newLo == Extended(lo, r, l)
           newHi == Extended(hi, r, h)
           w == [id |-> r, min |-> marks[a]]
<1>1. /\ Room(store) /\ store' = Alloc(store, node) /\ above' = Append(above, w)
      /\ TreeOK(store, tops, lv) /\ Placed(store, lo, hi, hi)
  BY DEF Packs, Pack, Forest
<1>2. Plants(store, tops, lv, node, n, store', r, newTops)
  BY <1>1 DEF Packs, Plants
<1>3. store \in StoreType /\ StoreOK(store) /\ lv \in [Live(store) -> Nat]
  BY <1>1 DEF TreeOK
<1>4. /\ r \in NodeId \ Live(store) /\ Live(store') = Live(store) \cup {r}
  BY <1>1, <1>3, AllocProperties DEF Packs
<1>5. Pairs(store') = Pairs(store) \cup NodePairs(node)
  BY <1>2, PlantPairs
<1>6. a \in 1 .. Len(marks) /\ b \in 1 .. Len(marks) /\ marks \in Seq(Key)
  BY StretchBounds DEF Packs
<1>7. l \in SUBSET Key /\ h \in SUBSET Key
  <2>1. /\ Len(marks) \in Nat /\ marks[a] \in Key
        /\ \A j \in 1 .. Len(marks) : marks[j] \in Key
    BY <1>6, KeysAreOrdered
  <2> DEFINE x == Len(marks)
  <2>2. b < x => b + 1 \in 1 .. x
    BY <1>6, <2>1
  <2>3. h = IF b < x THEN {marks[b + 1]} ELSE {}
    BY DEF After
  <2> HIDE DEF h, x
  <2>4. h \in SUBSET Key
    BY <2>1, <2>2, <2>3 DEF x
  <2> QED
    BY <2>1, <2>4
<1>8. Forest(store', newTops, newLv, newLo, newHi, wide, m)
  <2>1. /\ Forest(store, tops, lv, lo, hi, spared, m) /\ NodePlaced(node, l, h, lo, hi)
        /\ spared \subseteq wide /\ Grown(node, l, r \in wide, m)
    BY DEF Packs
  <2> HIDE DEF l, h, newTops, r
  <2> QED
    BY <1>2, <1>7, <2>1, PlantForest
<1>9. /\ lo \in [Live(store) -> SUBSET Key] /\ hi \in [Live(store) -> SUBSET Key]
  BY <1>1 DEF Placed
<1>10. /\ newLv[r] = n /\ newLo[r] = l /\ newHi[r] = h
       /\ \A c \in Live(store) : newLv[c] = lv[c] /\ newLo[c] = lo[c] /\ newHi[c] = hi[c]
  BY <1>3, <1>4, <1>9 DEF Extended
<1>11. w \in Waiting /\ w.id = r /\ w.min = marks[a]
  <2>1. marks[a] \in Key
    BY <1>7
  <2> QED
    BY <1>4, <2>1 DEF Waiting
<1> HIDE DEF newLv, newLo, newHi, w, r, newTops
<1>12. /\ PackedSoFar(above', marks, max, newLo, newHi)
       /\ Len(above') = i
       /\ Members(above', 1, i) = Members(above, 1, Len(above)) \cup {r}
  <2>1. /\ PackedSoFar(above, marks, max, lo, hi) /\ i = Len(above) + 1
        /\ Stretch(Len(marks), max, i, a, b) /\ Members(above, 1, Len(above)) \subseteq Live(store)
    BY DEF Packs
  <2>2. newLo[r] = {marks[a]} /\ newHi[r] = After(marks, b)
    BY <1>10
  <2>3. /\ \A c \in Live(store) : newLo[c] = lo[c] /\ newHi[c] = hi[c]
        /\ r \in NodeId /\ r \notin Live(store)
    BY <1>4, <1>10
  <2> HIDE DEF l, h
  <2>4. AddsOne(above, marks, max, lo, hi, i, a, b, Live(store), r, newLo, newHi, w, above')
    BY <1>1, <1>6, <1>11, <2>1, <2>2, <2>3 DEF AddsOne
  <2> QED
    BY <2>4, PackedOneMore
<1>13. Grew(tops, lv, lo, hi, m, marks, max, i, node, n, wide, newLv, newLo, newHi)
  BY <1>4, <1>5, <1>8, <1>10, <1>12 DEF r, newTops, Grew
<1> QED
  BY <1>13

-----------------------------------------------------------------------------
(* While the leaves are packed: each is the top of a tree of its own.       *)
Given == input \in Seq(Entry) /\ input # <<>> /\ Ascending(Firsts(input))

(* The only node of a level may be below min_keys.                          *)
Alone(nodes, n, max) == IF Chunks(n, max) = 1 THEN Members(nodes, 1, Len(nodes)) ELSE {}

LeavesBuilt(lv, lo, hi) ==
    LET tops == Members(above, 1, Len(above))
    IN  /\ phase = "leaves" /\ Given /\ level = input
        /\ Forest(store, tops, lv, lo, hi,
                  Alone(above, Len(input), Order - 1), input[1][1])
        /\ PackedSoFar(above, Firsts(input), Order - 1, lo, hi)
        /\ \A t \in tops : lv[t] = 0
        /\ Pairs(store) = Stored(input, 1, Taken(Len(input), Order - 1, Len(above)))

(* An ascending list begins with its least element.                         *)
LEMMA FirstIsLeast ==
    ASSUME NEW keys \in Seq(Key), Ascending(keys), NEW a \in 1 .. Len(keys)
    PROVE  keys[1] <= keys[a] /\ keys[1] \in Key /\ keys[a] \in Key
<1>1. /\ Len(keys) \in Nat
      /\ \A j \in 1 .. Len(keys) : keys[j] \in Key /\ keys[j] \in Int
      /\ \A i, j \in 1 .. Len(keys) : i < j => keys[i] < keys[j]
  BY KeysAreOrdered
<1>2. 1 \in 1 .. Len(keys) /\ (a = 1 \/ 1 < a)
  BY <1>1
<1> QED
  BY <1>1, <1>2

(* The chunk a step packs.                                                  *)
LEMMA NextStretch ==
    ASSUME NEW S, level \in Seq(S), level # <<>>, NEW max \in Nat \ {0}, Len(above) \in Nat,
           Len(above) < Chunks(Len(level), max)
    PROVE  \E a, b : /\ Stretch(Len(level), max, Len(above) + 1, a, b)
                     /\ NextChunk(max) = SubSeq(level, a, b)
                     /\ a = Taken(Len(level), max, Len(above)) + 1
<1> DEFINE n == Len(level)
           i == Len(above) + 1
           a == First(n, max, i)
           b == Taken(n, max, i)
<1>1. n \in Nat \ {0}
  BY EmptySeq, LenProperties
<1>2. Chunks(n, max) \in Nat /\ i \in 1 .. Chunks(n, max) /\ i - 1 = Len(above)
  <2> DEFINE c == Chunks(n, max)
  <2>1. c \in Nat
    BY <1>1, ChunksLeast
  <2> HIDE DEF c
  <2>2. Len(above) < c
    BY DEF c
  <2> QED
    BY <2>1, <2>2 DEF c
<1>3. Stretch(n, max, i, a, b)
  BY <1>1, <1>2 DEF Stretch
<1>4. NextChunk(max) = SubSeq(level, a, b)
  BY DEF NextChunk, Chunk, First
<1>5. a = Taken(n, max, Len(above)) + 1
  BY <1>2 DEF First
<1> QED
  BY <1>3, <1>4, <1>5

(* One leaf more (ops.rs:483-494).                                          *)
LEMMA LoadLeafKeeps ==
    ASSUME NEW lv, NEW lo, NEW hi, LeavesBuilt(lv, lo, hi), LoadLeaf
    PROVE  \E newLv, newLo, newHi : LeavesBuilt(newLv, newLo, newHi)'
<1> DEFINE max == Order - 1
           n == Len(input)
           q == Len(above)
           i == q + 1
           tops == Members(above, 1, q)
           marks == Firsts(input)
           m == input[1][1]
           spared == Alone(above, n, max)
           r == AllocId(store)
           wide == IF Chunks(n, max) = 1 THEN tops \cup {r} ELSE {}
<1>1. /\ phase = "leaves" /\ Given /\ level = input
      /\ Forest(store, tops, lv, lo, hi, spared, m)
      /\ PackedSoFar(above, marks, max, lo, hi)
      /\ \A t \in tops : lv[t] = 0
      /\ Pairs(store) = Stored(input, 1, Taken(n, max, q))
  BY DEF LeavesBuilt
<1>2. /\ max \in Nat \ {0} /\ q \in Nat /\ input \in Seq(Entry) /\ input # <<>>
      /\ Order \in Nat /\ Order >= 3
  BY <1>1, OrderAssumption, LenProperties DEF Given, PackedSoFar
<1>3. /\ marks \in Seq(Key) /\ Len(marks) = n /\ n \in Nat
      /\ \A j \in 1 .. n : marks[j] = input[j][1]
  BY <1>2, EntryLists
<1>4. Len(above) < Chunks(Len(level), max)
  BY DEF LoadLeaf
<1>5. PICK a, b : /\ Stretch(n, max, i, a, b)
                  /\ NextChunk(max) = SubSeq(input, a, b)
                  /\ a = Taken(n, max, q) + 1
  BY <1>1, <1>2, <1>4, NextStretch
<1>6. /\ a \in 1 .. n /\ b \in 1 .. n /\ a <= b
      /\ (b + 1) - a <= max /\ (n > max => 2 * ((b + 1) - a) >= max)
  BY <1>5, StretchBounds
<1>7. PICK leaf : leaf = LeafOf(SubSeq(input, a, b))
  OBVIOUS
<1>8. /\ leaf \in AnyNode /\ IsLeaf(leaf) /\ ShapeOK(leaf) /\ NodeKids(leaf) = {}
      /\ KeysLen(leaf) = (b + 1) - a
      /\ NodePlaced(leaf, {input[a][1]}, After(marks, b), lo, hi)
      /\ leaf.keys[1] = input[a][1]
      /\ leaf.keys = SubSeq(Firsts(input), a, b)
      /\ leaf.vals = SubSeq(Seconds(input), a, b)
  <2>1. Ascending(Firsts(input))
    BY <1>1 DEF Given
  <2>2. /\ input \in Seq(Entry) /\ a \in 1 .. Len(input) /\ b \in 1 .. Len(input)
        /\ a <= b
    BY <1>2, <1>6
  <2> HIDE DEF max, n, tops, m, spared, wide, marks
  <2>3. LeafPacked(input, a, b, leaf)
    BY <1>7, <2>1, <2>2, PackedLeaf
  <2> QED
    BY <2>3 DEF LeafPacked, marks
<1>9. Pack(leaf, marks[a])
  <2> DEFINE c == NextChunk(max)
             keys == [j \in DOMAIN c |-> c[j][1]]
             vals == [j \in DOMAIN c |-> c[j][2]]
  <2>1. Pack(Leaf(keys, vals), keys[1])
    BY DEF LoadLeaf
  <2>2. Leaf(keys, vals) = leaf /\ keys = leaf.keys
    BY <1>5, <1>7 DEF LeafOf, Leaf
  <2> HIDE DEF keys, vals
  <2>3. keys[1] = marks[a]
    BY <1>3, <1>6, <1>8, <2>2
  <2> QED
    BY <2>1, <2>2, <2>3
<1>10. Grown(leaf, {marks[a]}, r \in wide, m)
  <2>1. m = marks[1] /\ m <= marks[a] /\ marks[a] \in Key
    <3>1. 1 \in 1 .. n
      BY <1>3, <1>6
    <3>2. Ascending(marks)
      BY <1>1 DEF Given
    <3> HIDE DEF marks
    <3> QED
      BY <1>3, <1>6, <3>1, <3>2, FirstIsLeast
  <2>2. KeysLen(leaf) \in 1 .. Order - 1
    BY <1>2, <1>3, <1>6, <1>8
  <2>3. r \in wide \/ KeysLen(leaf) >= Half
    <3>1. CASE Chunks(n, max) = 1
      BY <3>1
    <3>2. CASE Chunks(n, max) # 1
      <4>1. n > max
        <5>1. n \in Nat \ {0}
          BY <1>3, <1>6
        <5>2. ~(n <= max)
          BY <1>2, <3>2, <5>1, OneChunk
        <5> QED
          BY <1>2, <1>3, <5>2
      <4>2. 2 * KeysLen(leaf) >= max /\ KeysLen(leaf) \in Nat
        BY <1>6, <1>8, <2>2, <4>1
      <4> QED
        BY <1>2, <4>2, HalfFacts
    <3> QED
      BY <3>1, <3>2
  <2>4. {marks[a]} = {leaf.keys[1]}
    BY <1>3, <1>6, <1>8
  <2> HIDE DEF marks, wide, m
  <2> QED
    BY <2>1, <2>2, <2>3, <2>4 DEF Grown
<1>11. tops \subseteq Live(store)
  BY <1>1 DEF Forest, TreeOK, Linked
<1>12. spared \subseteq wide
  BY DEF Alone
<1>13. {input[a][1]} = {marks[a]}
  BY <1>3, <1>6
<1>14. Packs(tops, lv, lo, hi, spared, m, marks, max, i, a, b, leaf, 0, wide)
  <2> HIDE DEF tops, spared, m, marks, max, wide, n
  <2> QED
    BY <1>1, <1>3, <1>5, <1>8, <1>9, <1>10, <1>11, <1>12, <1>13 DEF Packs, tops
<1>15. PICK newLv, newLo, newHi :
           Grew(tops, lv, lo, hi, m, marks, max, i, leaf, 0, wide, newLv, newLo, newHi)
  <2> HIDE DEF tops, spared, m, marks, max, wide, n, i
  <2> QED
    BY <1>14, PackGrows
<1>16. /\ r \in NodeId \ Live(store)
       /\ Live(store') = Live(store) \cup {r}
       /\ Pairs(store') = Pairs(store) \cup NodePairs(leaf)
       /\ Len(above') = i
       /\ Members(above', 1, Len(above')) = tops \cup {r}
       /\ Forest(store', (tops \ NodeKids(leaf)) \cup {r}, newLv, newLo, newHi, wide, m)
       /\ PackedSoFar(above', marks, max, newLo, newHi)
       /\ newLv[r] = 0
       /\ \A c \in Live(store) : newLv[c] = lv[c]
  <2> HIDE DEF spared, m, marks, max, wide, n, i
  <2> QED
    BY <1>15 DEF Grew
<1>17. phase' = phase /\ input' = input /\ level' = level
  BY <1>9 DEF Pack
<1>18. Forest(store', tops \cup {r}, newLv, newLo, newHi, wide, m)
  <2>1. (tops \ NodeKids(leaf)) \cup {r} = tops \cup {r}
    BY <1>8
  <2> QED
    BY <1>16, <2>1
<1>19. Alone(above', n, max) = wide
  BY <1>16 DEF Alone
<1>20. \A t \in tops \cup {r} : newLv[t] = 0
  BY <1>1, <1>11, <1>16
<1>21. Pairs(store') = Stored(input, 1, Taken(n, max, i))
  <2>1. NodePairs(leaf) = Stored(input, a, b)
    BY <1>2, <1>6, <1>8, StretchPairs DEF NodePairs
  <2>2. b = Taken(n, max, i) /\ Taken(n, max, q) = a - 1
    <3>1. Taken(n, max, q) \in 0 .. n
      <4>1. q \in 0 .. Chunks(n, max) /\ n \in Nat \ {0}
        BY <1>2, <1>3, <1>5, <1>6, ChunksLeast, SMTT(30) DEF Stretch
      <4> QED
        BY <1>2, <4>1, TakenType
    <3> QED
      BY <1>3, <1>5, <3>1 DEF Stretch
  <2>3. 1 .. b = (1 .. a - 1) \cup (a .. b)
    BY <1>3, <1>6
  <2>4. Stored(input, 1, b) = Stored(input, 1, a - 1) \cup Stored(input, a, b)
    BY <2>3 DEF Stored
  <2> QED
    BY <1>1, <1>16, <2>1, <2>2, <2>4
<1>22. Given'
  BY <1>1, <1>17 DEF Given
<1>23. LeavesBuilt(newLv, newLo, newHi)'
  BY <1>1, <1>16, <1>17, <1>18, <1>19, <1>20, <1>21, <1>22 DEF LeavesBuilt
<1> QED
  BY <1>23

-----------------------------------------------------------------------------
(* While a level of nodes is packed: its nodes are complete, those not yet  *)
(* packed are tops, as are their parents, one higher.                       *)
Unlinked == Members(level, Taken(Len(level), Order, Len(above)) + 1, Len(level))

Small == IF Len(level) = 1 THEN Members(level, 1, 1) ELSE Alone(above, Len(level), Order)

(* All nodes of the level are at height h.                                  *)
Heights(lv, h) ==
    /\ h \in Nat
    /\ \A t \in Members(level, 1, Len(level)) : lv[t] = h
    /\ \A t \in Members(above, 1, Len(above)) : lv[t] = h + 1

LevelsBuilt(lv, lo, hi, h) ==
    /\ phase = "levels" /\ Given /\ level # <<>>
    /\ Row(level, lo, hi)
    /\ level[1].min = input[1][1]
    /\ Members(level, 1, Len(level)) \subseteq Live(store)
    /\ Forest(store, Members(above, 1, Len(above)) \cup Unlinked, lv, lo, hi, Small, input[1][1])
    /\ PackedSoFar(above, Mins(level), Order, lo, hi)
    /\ Heights(lv, h)
    /\ Pairs(store) = Stored(input, 1, Len(input))
    /\ Len(level) = 1 => above = <<>>

(* The stretch of a level whose nodes go under a new parent: two at least,  *)
(* so that it has a key, and not too few.                                   *)
LEMMA TwoAtLeast ==
    ASSUME NEW n \in Nat \ {0, 1}, NEW i, NEW a, NEW b, Stretch(n, Order, i, a, b)
    PROVE  /\ a \in 1 .. n /\ b \in 1 .. n /\ a < b
           /\ b - a \in 1 .. Order - 1
           /\ Chunks(n, Order) # 1 => b - a >= Half
<1>1. /\ a \in 1 .. n /\ b \in 1 .. n /\ a <= b
      /\ (b + 1) - a <= Order
      /\ n > Order => 2 * ((b + 1) - a) >= Order
      /\ i = 1 => a = 1
      /\ i = Chunks(n, Order) => b = n
  BY StretchBounds
<1>2. Order \in Nat /\ Order >= 3 /\ Half \in Nat /\ 2 * Half <= Order - 1
  BY HalfFacts
<1>3. Chunks(n, Order) = 1 <=> n <= Order
  BY <1>2, OneChunk
<1>4. i \in 1 .. Chunks(n, Order)
  BY DEF Stretch
<1>5. CASE n <= Order
  <2>1. i = 1
    BY <1>3, <1>4, <1>5
  <2>2. a = 1 /\ b = n
    BY <1>1, <1>3, <1>5, <2>1
  <2> QED
    BY <1>2, <1>3, <1>5, <2>2
<1>6. CASE ~(n <= Order)
  <2>1. n > Order
    BY <1>2, <1>6
  <2> QED
    BY <1>1, <1>2, <2>1
<1> QED
  BY <1>5, <1>6

(* The nodes of a level from a on, without those from a to b.               *)
LEMMA Remaining ==
    ASSUME NEW nodes \in Seq(Waiting), IsInjective(Ids(nodes)),
           NEW a \in 1 .. Len(nodes), NEW b \in 1 .. Len(nodes), a <= b
    PROVE  /\ Members(nodes, a, b) \subseteq Members(nodes, a, Len(nodes))
           /\ Members(nodes, a, Len(nodes)) \subseteq Members(nodes, 1, Len(nodes))
           /\ Members(nodes, a, Len(nodes)) \ Members(nodes, a, b)
                 = Members(nodes, b + 1, Len(nodes))
<1> DEFINE n == Len(nodes)
           v == Ids(nodes)
<1>1. n \in Nat /\ v \in Seq(NodeId) /\ Len(v) = n /\ \A j \in 1 .. n : v[j] = nodes[j].id
  BY NodeLists
<1>2. DOMAIN v = 1 .. n
  BY <1>1, LenProperties
<1>3. \A i, j \in 1 .. n : nodes[i].id = nodes[j].id => i = j
  BY <1>1, <1>2 DEF IsInjective
<1> HIDE DEF n, v
<1>4. a \in 1 .. n /\ b \in 1 .. n
  BY DEF n
<1>5. a .. n = (a .. b) \cup (b + 1 .. n) /\ a .. n \subseteq 1 .. n
  BY <1>1, <1>4
<1>6. \A i \in a .. b, j \in b + 1 .. n : i \in 1 .. n /\ j \in 1 .. n /\ i # j
  BY <1>1, <1>4
<1>7. \A i \in a .. b, j \in b + 1 .. n : nodes[i].id # nodes[j].id
  BY <1>3, <1>6
<1>8. /\ Members(nodes, a, n) = Members(nodes, a, b) \cup Members(nodes, b + 1, n)
      /\ Members(nodes, a, n) \subseteq Members(nodes, 1, n)
  BY <1>5 DEF Members
<1>9. Members(nodes, a, b) \cap Members(nodes, b + 1, n) = {}
  BY <1>7 DEF Members
<1> QED
  BY <1>8, <1>9 DEF n

(* One internal node more (ops.rs:502-525).                                 *)
LEMMA LoadInternalKeeps ==
    ASSUME NEW lv, NEW lo, NEW hi, NEW h, LevelsBuilt(lv, lo, hi, h), LoadInternal
    PROVE  \E newLv, newLo, newHi : LevelsBuilt(newLv, newLo, newHi, h)'
<1> DEFINE n == Len(level)
           q == Len(above)
           i == q + 1
           marks == Mins(level)
           m == input[1][1]
           packed == Members(above, 1, q)
           tops == packed \cup Unlinked
           r == AllocId(store)
           wide == IF Chunks(n, Order) = 1 THEN packed \cup {r} ELSE {}
<1>1. /\ phase = "levels" /\ Given /\ level # <<>> /\ Row(level, lo, hi) /\ level[1].min = m
      /\ Members(level, 1, n) \subseteq Live(store)
      /\ Forest(store, tops, lv, lo, hi, Small, m)
      /\ PackedSoFar(above, marks, Order, lo, hi)
      /\ Heights(lv, h)
      /\ Pairs(store) = Stored(input, 1, Len(input))
  BY DEF LevelsBuilt
<1>2. /\ level \in Seq(Waiting) /\ Ascending(marks) /\ IsInjective(Ids(level))
      /\ n \in Nat /\ n > 1 /\ q \in Nat /\ Order \in Nat \ {0}
      /\ Len(above) < Chunks(Len(level), Order)
  BY <1>1, OrderAssumption, LenProperties DEF Row, PackedSoFar, LoadInternal
<1>two. n \in Nat \ {0, 1} /\ n # 1
  <2>1. n \in Nat /\ n > 1
    BY <1>2
  <2> HIDE DEF n
  <2> QED
    BY <2>1
<1>3. /\ marks \in Seq(Key) /\ Len(marks) = n
      /\ \A j \in 1 .. n : /\ marks[j] = level[j].min /\ level[j].id \in NodeId
                           /\ level[j] \in Waiting
  BY <1>2, NodeLists
<1>4. PICK a, b : /\ Stretch(n, Order, i, a, b)
                  /\ NextChunk(Order) = SubSeq(level, a, b)
                  /\ a = Taken(n, Order, q) + 1
  BY <1>1, <1>2, NextStretch
<1>5. /\ a \in 1 .. n /\ b \in 1 .. n /\ a < b
      /\ b - a \in 1 .. Order - 1
      /\ Chunks(n, Order) # 1 => b - a >= Half
  <2> HIDE DEF n
  <2> QED
    BY <1>4, <1>two, TwoAtLeast
<1>6. PICK node : node = Packed(SubSeq(level, a, b))
  OBVIOUS
<1>7. /\ node \in AnyNode /\ ~IsLeaf(node) /\ ShapeOK(node)
      /\ NodeKids(node) = {level[j].id : j \in a .. b}
      /\ KeysLen(node) = b - a
      /\ NodePlaced(node, {level[a].min}, After(Mins(level), b), lo, hi)
  <2>1. Row(level, lo, hi) /\ a \in 1 .. Len(level) /\ b \in 1 .. Len(level) /\ a < b
    BY <1>1, <1>5
  <2> QED
    BY <1>6, <2>1, PackedNode
<1>8. NodeKids(node) = Members(level, a, b)
  BY <1>7 DEF Members
<1>9. Unlinked = Members(level, a, n)
  BY <1>4 DEF Unlinked
<1>10. /\ Members(level, a, b) \subseteq Members(level, a, n)
       /\ Members(level, a, n) \subseteq Members(level, 1, n)
       /\ Members(level, a, n) \ Members(level, a, b) = Members(level, b + 1, n)
  <2>1. a <= b
    BY <1>2, <1>5
  <2> QED
    BY <1>2, <1>5, <2>1, Remaining
<1>11. Pack(node, marks[a])
  <2> DEFINE c == SubSeq(level, a, b)
  <2>1. Pack(Packed(c), Head(c).min)
    BY <1>4 DEF LoadInternal
  <2>2. Head(c) = level[a]
    <3>1. a \in 1 .. Len(level) /\ b \in 1 .. Len(level) /\ a <= b
      BY <1>2, <1>5
    <3> QED
      BY <1>2, <3>1, CutElements
  <2> QED
    BY <1>3, <1>5, <1>6, <2>1, <2>2
<1>12. Grown(node, {marks[a]}, r \in wide, m)
  <2>1. m = marks[1] /\ m <= marks[a] /\ marks[a] \in Key
    <3>1. 1 \in 1 .. n
      BY <1>2
    <3> HIDE DEF marks
    <3> QED
      BY <1>1, <1>2, <1>3, <1>5, <3>1, FirstIsLeast
  <2>2. KeysLen(node) \in 1 .. Order - 1 /\ (r \in wide \/ KeysLen(node) >= Half)
    BY <1>5, <1>7
  <2> HIDE DEF marks, wide, m
  <2> QED
    BY <1>7, <2>1, <2>2 DEF Grown
<1>13. /\ tops \subseteq Live(store) /\ lv \in [Live(store) -> Nat]
       /\ r \notin Live(store)
  <2>1. TreeOK(store, tops, lv)
    BY <1>1 DEF Forest
  <2>2. Room(store)
    BY <1>11 DEF Pack
  <2>3. store \in StoreType /\ StoreOK(store)
    BY <2>1 DEF TreeOK
  <2>4. r \in NodeId \ Live(store)
    BY <1>7, <2>2, <2>3, AllocProperties
  <2>5. tops \subseteq Live(store) /\ lv \in [Live(store) -> Nat]
    BY <2>1 DEF TreeOK, Linked
  <2> QED
    BY <2>4, <2>5
<1>14. Small \subseteq wide
  BY <1>two DEF Small, Alone
<1>15. NodeKids(node) \subseteq tops
  BY <1>8, <1>9, <1>10
<1>16. /\ h + 1 \in Nat /\ h + 1 # 0
       /\ \A t \in NodeKids(node) : lv[t] + 1 = h + 1
       /\ \A t \in packed : lv[t] = h + 1
       /\ \A t \in Members(level, 1, n) : lv[t] = h
  BY <1>1, <1>8, <1>10 DEF Heights
<1>17. packed \subseteq Live(store)
  BY <1>13
<1>18. level[a].min = marks[a]
  BY <1>3, <1>5
<1>19. Packs(tops, lv, lo, hi, Small, m, marks, Order, i, a, b, node, h + 1, wide)
  <2>1. IsLeaf(node) <=> h + 1 = 0
    BY <1>7, <1>16
  <2>2. NodePlaced(node, {marks[a]}, After(marks, b), lo, hi)
    BY <1>7, <1>18
  <2> HIDE DEF tops, m, marks, wide, n
  <2> QED
    BY <1>1, <1>3, <1>4, <1>7, <1>11, <1>12, <1>14, <1>15, <1>16, <1>17, <2>1, <2>2
    DEF Packs
<1>20. PICK newLv, newLo, newHi :
           Grew(tops, lv, lo, hi, m, marks, Order, i, node, h + 1, wide, newLv, newLo, newHi)
  <2> HIDE DEF tops, m, marks, wide, n, i
  <2> QED
    BY <1>19, PackGrows
<1>21. /\ r \in NodeId \ Live(store)
       /\ Live(store') = Live(store) \cup {r}
       /\ Pairs(store') = Pairs(store) \cup NodePairs(node)
       /\ Len(above') = i
       /\ Members(above', 1, Len(above')) = packed \cup {r}
       /\ Forest(store', (tops \ NodeKids(node)) \cup {r}, newLv, newLo, newHi, wide, m)
       /\ PackedSoFar(above', marks, Order, newLo, newHi)
       /\ newLv[r] = h + 1
       /\ \A c \in Live(store) : newLv[c] = lv[c] /\ newLo[c] = lo[c] /\ newHi[c] = hi[c]
  <2> HIDE DEF tops, m, marks, wide, n, i
  <2> QED
    BY <1>20 DEF Grew
<1>22. phase' = phase /\ input' = input /\ level' = level
  BY <1>11 DEF Pack
<1>23. Unlinked' = Members(level, b + 1, n)
  BY <1>4, <1>21, <1>22 DEF Unlinked, Stretch
<1>24. (tops \ NodeKids(node)) \cup {r} = (packed \cup {r}) \cup Members(level, b + 1, n)
  <2>1. packed \cap Members(level, a, b) = {}
    <3>1. h # h + 1
      BY <1>1 DEF Heights
    <3> HIDE DEF packed
    <3> QED
      BY <1>10, <1>16, <3>1
  <2> HIDE DEF packed, n, r
  <2> QED
    BY <1>8, <1>9, <1>10, <2>1
<1>25. Alone(above', n, Order) = wide
  BY <1>21 DEF Alone
<1>26. Small' = wide
  BY <1>22, <1>25, <1>two DEF Small
<1>27. Row(level, newLo, newHi)
  <2>1. \A j \in 1 .. n : level[j].id \in Live(store)
    BY <1>1 DEF Members
  <2> QED
    BY <1>1, <1>21, <2>1 DEF Row
<1>28. /\ \A t \in Members(level, 1, n) : newLv[t] = h
       /\ \A t \in packed \cup {r} : newLv[t] = h + 1
  BY <1>1, <1>16, <1>17, <1>21
<1>29. Pairs(store') = Pairs(store)
  BY <1>7, <1>21 DEF NodePairs
<1>30. Heights(newLv, h)'
  BY <1>1, <1>21, <1>22, <1>28 DEF Heights
<1>31. Given'
  BY <1>1, <1>22 DEF Given
<1>32. Forest(store', Members(above', 1, Len(above')) \cup Unlinked', newLv, newLo, newHi, Small', m)
  BY <1>21, <1>23, <1>24, <1>26
<1>33. LevelsBuilt(newLv, newLo, newHi, h)'
  <2>1. Members(level, 1, n) \subseteq Live(store')
    BY <1>1, <1>21
  <2>2. Pairs(store') = Stored(input, 1, Len(input))
    BY <1>1, <1>29
  <2> HIDE DEF wide, r, packed, tops, i, q
  <2>3. PackedSoFar(above', marks, Order, newLo, newHi)
    BY <1>21
  <2>4. (Len(level) = 1 => above = <<>>)'
    BY <1>22, <1>two
  <2>5. /\ phase = "levels" /\ level # <<>> /\ level[1].min = m
    BY <1>1
  <2> QED
    BY <1>22, <1>27, <1>30, <1>31, <1>32, <2>1, <2>2, <2>3, <2>4, <2>5 DEF LevelsBuilt
<1> QED
  BY <1>33

(* A level complete is the next one to be packed.                           *)
Raises(lv, lo, hi, h, marks, max, spared, built) ==
    /\ Given /\ Raise(max)
    /\ marks \in Seq(Key) /\ Ascending(marks) /\ Len(marks) = Len(level) /\ Len(level) \in Nat \ {0}
    /\ marks[1] = input[1][1]
    /\ max \in Nat \ {0}
    /\ PackedSoFar(above, marks, max, lo, hi)
    /\ built = Members(above, 1, Len(above))
    /\ Forest(store, built, lv, lo, hi, spared, input[1][1])
    /\ spared = Alone(above, Len(level), max)
    /\ h \in Nat /\ \A t \in built : lv[t] = h
    /\ Pairs(store) = Stored(input, 1, Len(input))

(* When all chunks are packed their nodes are the level to pack next.       *)
LEMMA RaiseKeeps ==
    ASSUME NEW lv, NEW lo, NEW hi, NEW h, NEW marks, NEW max, NEW spared, NEW built,
           Raises(lv, lo, hi, h, marks, max, spared, built)
    PROVE  LevelsBuilt(lv, lo, hi, h)'
<1> DEFINE q == Len(above)
<1>1. /\ Given /\ Len(above) = Chunks(Len(level), max)
      /\ phase' = "levels" /\ level' = above /\ above' = <<>>
      /\ store' = store /\ input' = input
      /\ marks \in Seq(Key) /\ Ascending(marks) /\ Len(marks) = Len(level)
      /\ marks[1] = input[1][1] /\ max \in Nat \ {0}
      /\ PackedSoFar(above, marks, max, lo, hi)
      /\ built = Members(above, 1, q)
      /\ Forest(store, built, lv, lo, hi, spared, input[1][1])
      /\ spared = Alone(above, Len(level), max)
      /\ h \in Nat /\ \A t \in built : lv[t] = h
      /\ Pairs(store) = Stored(input, 1, Len(input))
  BY DEF Raises, Raise, vars
<1>2. Row(above, lo, hi) /\ above # <<>> /\ above[1].min = marks[1]
  <2>1. Len(marks) > 0 /\ Len(above) = Chunks(Len(marks), max)
    <3>1. Len(level) \in Nat \ {0}
      BY DEF Raises
    <3> QED
      BY <1>1, <3>1
  <2> QED
    BY <1>1, <2>1, PackedAll
<1>3. built \subseteq Live(store)
  BY <1>1 DEF Forest, TreeOK, Linked
<1>4. /\ q \in Nat \ {0} /\ Mins(above) \in Seq(Key) /\ Len(Mins(above)) = q
  BY <1>2, EmptySeq, LenProperties, NodeLists DEF Row
<1>5. Order \in Nat \ {0} /\ Chunks(q, Order) \in Nat /\ Taken(q, Order, 0) = 0
  BY <1>4, OrderAssumption, ChunksLeast, EvenChunksTheorem
<1>6. Len(<<>>) = 0 /\ <<>> \in Seq(Waiting) /\ Members(<<>>, 1, 0) = {}
  BY EmptySeq DEF Members
<1>7. PackedSoFar(<<>>, Mins(above), Order, lo, hi)
  BY <1>4, <1>5, <1>6 DEF PackedSoFar
<1>8. Unlinked' = Members(above, 1, q)
  BY <1>1, <1>5, <1>6 DEF Unlinked
<1>9. Members(above', 1, Len(above')) = {}
  BY <1>1, <1>6
<1>10. Members(above', 1, Len(above')) \cup Unlinked' = built
  BY <1>1, <1>8, <1>9
<1>11. Small' = spared
  <2>1. Chunks(Len(level), max) = q
    BY <1>1
  <2>2. CASE q = 1
    <3>1. Small' = Members(above, 1, 1)
      BY <1>1, <2>2 DEF Small
    <3>2. spared = Members(above, 1, 1)
      BY <1>1, <2>1, <2>2 DEF Alone
    <3> QED
      BY <3>1, <3>2
  <2>3. CASE q # 1
    <3>1. Small' = Alone(above', q, Order)
      BY <1>1, <2>3 DEF Small
    <3>2. Alone(above', q, Order) = {}
      BY <1>9 DEF Alone
    <3>3. spared = {}
      BY <1>1, <2>1, <2>3 DEF Alone
    <3> QED
      BY <3>1, <3>2, <3>3
  <2> QED
    BY <2>2, <2>3
<1>12. Heights(lv, h)'
  BY <1>1, <1>9 DEF Heights
<1>13. Given'
  BY <1>1 DEF Given
<1>14. /\ Forest(store', Members(above', 1, Len(above')) \cup Unlinked', lv, lo, hi, Small', input[1][1])
       /\ PackedSoFar(above', Mins(level'), Order, lo, hi)
       /\ Members(level', 1, Len(level')) \subseteq Live(store')
       /\ Row(level', lo, hi) /\ level' # <<>> /\ level'[1].min = input[1][1]
       /\ Pairs(store') = Stored(input, 1, Len(input))
       /\ above' = <<>> /\ phase' = "levels" /\ input' = input
  <2>1. Forest(store', Members(above', 1, Len(above')) \cup Unlinked', lv, lo, hi, Small', input[1][1])
    BY <1>1, <1>10, <1>11
  <2>2. PackedSoFar(above', Mins(level'), Order, lo, hi)
    BY <1>1, <1>7
  <2>3. Members(level', 1, Len(level')) \subseteq Live(store')
    BY <1>1, <1>3
  <2>4. Row(level', lo, hi) /\ level' # <<>> /\ level'[1].min = input[1][1]
    BY <1>1, <1>2
  <2>5. /\ Pairs(store') = Stored(input, 1, Len(input))
        /\ above' = <<>> /\ phase' = "levels" /\ input' = input
    BY <1>1
  <2> QED
    BY <2>1, <2>2, <2>3, <2>4, <2>5
<1> QED
  BY <1>12, <1>13, <1>14 DEF LevelsBuilt

(* From the leaves to the first level above them.                           *)
LEMMA RaiseLeaves ==
    ASSUME NEW lv, NEW lo, NEW hi, LeavesBuilt(lv, lo, hi), Raise(Order - 1)
    PROVE  LevelsBuilt(lv, lo, hi, 0)'
<1> DEFINE marks == Firsts(input)
           built == Members(above, 1, Len(above))
           n == Len(input)
<1>1. /\ Given /\ level = input
      /\ Forest(store, built, lv, lo, hi, Alone(above, n, Order - 1), input[1][1])
      /\ PackedSoFar(above, marks, Order - 1, lo, hi)
      /\ \A t \in built : lv[t] = 0
      /\ Pairs(store) = Stored(input, 1, Taken(n, Order - 1, Len(above)))
  BY DEF LeavesBuilt
<1>2. /\ marks \in Seq(Key) /\ Ascending(marks) /\ Len(marks) = n /\ n \in Nat \ {0}
      /\ \A j \in 1 .. n : marks[j] = input[j][1]
  BY <1>1, EntryLists, EmptySeq DEF Given
<1>3. marks[1] = input[1][1]
  <2>1. 1 \in 1 .. n
    BY <1>2
  <2> QED
    BY <1>2, <2>1
<1>4. Order - 1 \in Nat \ {0}
  BY OrderAssumption
<1>5. Len(above) = Chunks(n, Order - 1)
  BY <1>1 DEF Raise
<1>6. Taken(n, Order - 1, Len(above)) = n
  BY <1>2, <1>4, <1>5, EvenChunksTheorem
<1>7. Raises(lv, lo, hi, 0, marks, Order - 1, Alone(above, n, Order - 1), built)
  <2> HIDE DEF marks, built
  <2> QED
    BY <1>1, <1>2, <1>3, <1>4, <1>6 DEF Raises, built
<1> QED
  BY <1>7, RaiseKeeps

(* From one level of internal nodes to the next.                            *)
LEMMA RaiseNodes ==
    ASSUME NEW lv, NEW lo, NEW hi, NEW h, LevelsBuilt(lv, lo, hi, h), Len(level) > 1, Raise(Order)
    PROVE  LevelsBuilt(lv, lo, hi, h + 1)'
<1> DEFINE marks == Mins(level)
           built == Members(above, 1, Len(above))
           n == Len(level)
<1>1. /\ Given /\ Row(level, lo, hi) /\ level[1].min = input[1][1]
      /\ Forest(store, built \cup Unlinked, lv, lo, hi, Small, input[1][1])
      /\ PackedSoFar(above, marks, Order, lo, hi)
      /\ h \in Nat /\ \A t \in built : lv[t] = h + 1
      /\ Pairs(store) = Stored(input, 1, Len(input))
  BY DEF LevelsBuilt, Heights
<1>2. /\ marks \in Seq(Key) /\ Ascending(marks) /\ Len(marks) = n /\ n \in Nat
      /\ \A j \in 1 .. n : marks[j] = level[j].min
  BY <1>1, NodeLists DEF Row
<1>3. n \in Nat \ {0} /\ n # 1 /\ 1 \in 1 .. n
  <2>1. n \in Nat /\ n > 1
    BY <1>2
  <2> HIDE DEF n
  <2> QED
    BY <2>1
<1>4. marks[1] = input[1][1]
  BY <1>1, <1>2, <1>3
<1>5. Order \in Nat \ {0}
  BY OrderAssumption
<1>6. Taken(n, Order, Len(above)) = n
  BY <1>3, <1>5, EvenChunksTheorem DEF Raise
<1>7. Unlinked = {}
  <2>1. Unlinked = Members(level, n + 1, n)
    BY <1>6 DEF Unlinked
  <2> HIDE DEF n
  <2>2. n + 1 .. n = {}
    BY <1>3
  <2> QED
    BY <2>1, <2>2 DEF Members
<1>8. Small = Alone(above, n, Order)
  BY <1>3 DEF Small
<1>9. Forest(store, built, lv, lo, hi, Alone(above, n, Order), input[1][1])
  <2>1. built \cup Unlinked = built
    BY <1>7
  <2> QED
    BY <1>1, <1>8, <2>1
<1>10. Raises(lv, lo, hi, h + 1, marks, Order, Alone(above, n, Order), built)
  <2> HIDE DEF marks, built
  <2> QED
    BY <1>1, <1>2, <1>3, <1>4, <1>5, <1>9 DEF Raises, built
<1> QED
  BY <1>10, RaiseKeeps

-----------------------------------------------------------------------------
(* The windows(2) test compares neighbours only; the order of all entries   *)
(* follows.                                                                 *)
LEMMA AscendsAll ==
    ASSUME NEW es \in Seq(Entry), Ascends(es)
    PROVE  Ascending(Firsts(es))
<1> DEFINE k == Firsts(es)
           n == Len(es)
           T == {j \in 1 .. n : \E i \in 1 .. n : i < j /\ ~(k[i] < k[j])}
<1>1. /\ k \in Seq(Key) /\ Len(k) = n /\ n \in Nat
      /\ \A j \in 1 .. n : k[j] = es[j][1]
  BY EntryLists
<1>2. /\ \A j \in 1 .. n : k[j] \in Int
      /\ Ascending(k) <=> \A i, j \in 1 .. n : i < j => k[i] < k[j]
  BY <1>1, KeysAreOrdered
<1> HIDE DEF k
<1>3. \A i \in 1 .. n - 1 : k[i] < k[i + 1]
  <2> SUFFICES ASSUME NEW i \in 1 .. n - 1 PROVE k[i] < k[i + 1]
    OBVIOUS
  <2>1. i \in 1 .. n /\ i + 1 \in 1 .. n
    BY <1>1
  <2>2. es[i][1] < es[i + 1][1]
    BY DEF Ascends
  <2> QED
    BY <1>1, <2>1, <2>2
<1> HIDE DEF n
<1>4. CASE T = {}
  <2>1. \A i, j \in 1 .. n : i < j => k[i] < k[j]
    BY <1>4
  <2> QED
    BY <1>2, <2>1 DEF k
<1>5. CASE T # {}
  <2>1. PICK j \in T : \A y \in T : j <= y
    <3>1. T \in SUBSET Nat
      BY <1>1
    <3> HIDE DEF T
    <3> QED
      BY <1>5, <3>1, LeastNat
  <2>2. PICK i \in 1 .. n : i < j /\ ~(k[i] < k[j])
    BY <2>1
  <2>3. j \in 1 .. n
    BY <2>1
  <2>4. j - 1 \in 1 .. n - 1 /\ j - 1 \in 1 .. n /\ (j - 1) + 1 = j
    BY <1>1, <2>2, <2>3
  <2>5. k[j - 1] < k[j]
    BY <1>3, <2>4
  <2>6. j - 1 \notin T
    BY <1>1, <2>1, <2>3
  <2>7. i = j - 1 \/ i < j - 1
    BY <1>1, <2>2, <2>3
  <2>8. i < j - 1 => k[i] < k[j - 1]
    BY <2>4, <2>6
  <2>9. k[i] \in Int /\ k[j] \in Int /\ k[j - 1] \in Int
    BY <1>2, <2>3, <2>4
  <2>10. k[i] <= k[j - 1]
    BY <2>7, <2>8, <2>9
  <2>11. k[i] < k[j]
    BY <2>5, <2>9, <2>10
  <2> QED
    BY <2>2, <2>11
<1> QED
  BY <1>4, <1>5

(* A new store is an empty forest.                                          *)
LEMMA EmptyForest ==
    ASSUME NEW spared, NEW m
    PROVE  LET f == [x \in {} |-> {}]
           IN  Live(EmptyStore) = {} /\ Forest(EmptyStore, {}, f, f, f, spared, m)
<1> DEFINE f == [x \in {} |-> {}]
<1>1. Live(EmptyStore) = {}
  BY EmptySeq DEF Live, EmptyStore
<1>2. EmptyStore \in StoreType /\ StoreOK(EmptyStore)
  <2>1. Range(<<>>) = {} /\ IsInjective(<<>>) /\ Len(<<>>) = 0
    BY EmptySeq DEF Range, IsInjective
  <2>2. EmptyStore.free = <<>> /\ EmptyStore.slab = <<>>
    BY DEF EmptyStore
  <2>3. StoreOK(EmptyStore)
    BY <2>1, <2>2, IdSpaceAssumption DEF StoreOK
  <2>4. EmptyStore \in StoreType
    BY DEF StoreType, EmptyStore
  <2> QED
    BY <2>3, <2>4
<1>3. f \in [{} -> Nat] /\ f \in [{} -> SUBSET Key]
  OBVIOUS
<1>4. TreeOK(EmptyStore, {}, f)
  BY <1>1, <1>2, <1>3 DEF TreeOK, Linked
<1>5. Placed(EmptyStore, f, f, f)
  BY <1>1, <1>3 DEF Placed
<1> QED
  BY <1>1, <1>4, <1>5 DEF Forest

(* No call runs while levels are packed.                                    *)
Resting == pc = "idle" /\ arg = NoArg /\ path = <<>> /\ split = NoSplit /\ ret = None

(* from_sorted on ascending entries begins with no leaf packed.             *)
LEMMA FromSortedBuilds ==
    ASSUME NEW es \in Seq(Entry), es # <<>>, Ascends(es), above = <<>>, FromSorted(es)
    PROVE  \E lv, lo, hi : LeavesBuilt(lv, lo, hi)'
<1> DEFINE f == [x \in {} |-> {}]
           max == Order - 1
           n == Len(es)
<1>1. /\ input' = es /\ level' = es /\ phase' = "leaves" /\ store' = EmptyStore
      /\ above' = <<>>
  BY DEF FromSorted
<1>2. Given'
  BY <1>1, AscendsAll DEF Given
<1>3. Len(<<>>) = 0 /\ <<>> \in Seq(Waiting) /\ Members(<<>>, 1, 0) = {}
  BY EmptySeq DEF Members
<1>4. /\ n \in Nat \ {0} /\ max \in Nat \ {0} /\ Len(Firsts(es)) = n
      /\ Chunks(n, max) \in Nat /\ Taken(n, max, 0) = 0
  <2>1. n \in Nat \ {0} /\ max \in Nat \ {0} /\ Len(Firsts(es)) = n
    BY EmptySeq, LenProperties, EntryLists, OrderAssumption
  <2> HIDE DEF n, max
  <2> QED
    BY <2>1, ChunksLeast, EvenChunksTheorem
<1>5. Live(EmptyStore) = {} /\ Forest(EmptyStore, {}, f, f, f, Alone(<<>>, n, max), es[1][1])
  BY EmptyForest
<1>6. PackedSoFar(<<>>, Firsts(es), max, f, f)
  BY <1>3, <1>4 DEF PackedSoFar
<1>7. Pairs(EmptyStore) = {}
  BY <1>5 DEF Pairs, PairsIn
<1>8. Stored(es, 1, 0) = {}
  BY DEF Stored
<1>9. Pairs(store') = Stored(es, 1, Taken(n, max, 0))
  BY <1>1, <1>4, <1>7, <1>8
<1>10. LeavesBuilt(f, f, f)'
  <2> HIDE DEF f, n
  <2> QED
    BY <1>1, <1>2, <1>3, <1>5, <1>6, <1>9 DEF LeavesBuilt, n
<1> QED
  BY <1>10

-----------------------------------------------------------------------------
(* The last node is the root: its keys may be as low as one likes, and so   *)
(* may those of its first child, and of the first child of that.            *)
Opened(lo, m) == [x \in DOMAIN lo |-> IF lo[x] = {m} THEN {} ELSE lo[x]]

(* The nodes of a forest stay placed when the least key bounds none of      *)
(* them.                                                                    *)
LEMMA OpenedPlaced ==
    ASSUME NEW st, NEW tops, NEW lv, NEW lo, NEW hi, NEW spared, NEW m,
           Forest(st, tops, lv, lo, hi, spared, m)
    PROVE  Placed(st, Opened(lo, m), hi, hi)
<1> DEFINE new == Opened(lo, m)
<1>1. /\ TreeOK(st, tops, lv) /\ Placed(st, lo, hi, hi)
      /\ \A x \in Live(st) : \E b \in Key : lo[x] = {b} /\ m <= b
  BY DEF Forest, Grown
<1>2. /\ lo \in [Live(st) -> SUBSET Key] /\ hi \in [Live(st) -> SUBSET Key]
      /\ \A x \in Live(st) : NodePlaced(Fetch(st, x), lo[x], hi[x], lo, hi)
  BY <1>1 DEF Placed
<1>3. new \in [Live(st) -> SUBSET Key]
  <2> DEFINE B == SUBSET Key
  <2>1. lo \in [Live(st) -> B] /\ {} \in B
    BY <1>2
  <2> HIDE DEF B
  <2>2. new \in [Live(st) -> B]
    BY <2>1 DEF Opened
  <2> QED
    BY <2>2 DEF B
<1>4. \A x \in Live(st) : new[x] = IF lo[x] = {m} THEN {} ELSE lo[x]
  BY <1>2 DEF Opened
<1> HIDE DEF new
<1>5. ASSUME NEW x \in Live(st)
      PROVE  NodePlaced(Fetch(st, x), new[x], hi[x], new, hi)
  <2> DEFINE node == Fetch(st, x)
             l == lo[x]
             h == hi[x]
  <2>1. NodePlaced(node, l, h, lo, hi) /\ l \in SUBSET Key
    BY <1>2
  <2>2. PICK b \in Key : l = {b} /\ m <= b
    BY <1>1
  <2>3. new[x] = {} \/ new[x] = l
    BY <1>4
  <2>4. KeysPlaced(node.keys, new[x], h)
    BY <2>1, <2>3 DEF NodePlaced, KeysPlaced, InRange
  <2>5. ASSUME ~IsLeaf(node)
        PROVE  KidsPlaced(node, new[x], h, new, hi)
    <3>1. KidsPlaced(node, l, h, lo, hi)
      BY <2>1, <2>5 DEF NodePlaced
    <3>2. node \in AnyNode /\ ShapeOK(node) /\ Kids(st, x) \subseteq Live(st)
      BY <1>1, TreeFacts
    <3>3. /\ node.keys \in Seq(Key) /\ node.children \in Seq(NodeId)
          /\ Len(node.children) = Len(node.keys) + 1 /\ Len(node.keys) \in Nat
          /\ NodeKids(node) = Range(node.children)
      BY <2>5, <3>2, InternalCases DEF AnyNode
    <3>4. \A i \in 1 .. Len(node.children) : node.children[i] \in Live(st)
      <4>1. DOMAIN node.children = 1 .. Len(node.children)
        BY <3>3, LenProperties
      <4> QED
        BY <3>2, <3>3, <4>1 DEF Kids, Range
    <3>5. \A j \in 1 .. Len(node.keys) : Between(node.keys[j], new[x], h)
      BY <2>3, <3>1 DEF KidsPlaced, Between
    <3>6. ASSUME NEW i \in 1 .. Len(node.children)
          PROVE  new[node.children[i]] = LowOf(node.keys, new[x], i)
      <4>1. lo[node.children[i]] = LowOf(node.keys, l, i)
        BY <3>1 DEF KidsPlaced
      <4>2. new[node.children[i]] = IF LowOf(node.keys, l, i) = {m} THEN {} ELSE LowOf(node.keys, l, i)
        BY <1>4, <3>4, <4>1
      <4>3. CASE i = 1
        BY <1>4, <4>2, <4>3 DEF LowOf
      <4>4. CASE i # 1
        <5>1. i - 1 \in 1 .. Len(node.keys)
          BY <3>3, <4>4
        <5>2. b < node.keys[i - 1]
          BY <2>2, <3>1, <5>1 DEF KidsPlaced, Between
        <5>3. m # node.keys[i - 1]
          <6>1. b \in Int /\ node.keys[i - 1] \in Int
            BY <3>3, <5>1, KeyAssumption, KeysAreOrdered
          <6> QED
            BY <2>2, <5>2, <6>1
        <5>4. LowOf(node.keys, l, i) = {node.keys[i - 1]} /\ LowOf(node.keys, new[x], i) = {node.keys[i - 1]}
          BY <4>4 DEF LowOf
        <5> QED
          BY <4>2, <5>3, <5>4
      <4> QED
        BY <4>3, <4>4
    <3>7. \A i \in 1 .. Len(node.children) : hi[node.children[i]] = HighOf(node.keys, h, i)
      BY <3>1 DEF KidsPlaced
    <3> QED
      BY <3>5, <3>6, <3>7 DEF KidsPlaced
  <2> QED
    BY <2>4, <2>5 DEF NodePlaced
<1> QED
  BY <1>2, <1>3, <1>5 DEF Placed, new

(* The handle gets a tree as sound as any that insertion builds.            *)
LEMMA LoadDoneBuilds ==
    ASSUME NEW lv, NEW lo, NEW hi, NEW h, LevelsBuilt(lv, lo, hi, h), Resting, LoadDone
    PROVE  /\ Filled' /\ Sorted'
           /\ Pairs(store') = Stored(input, 1, Len(input))
           /\ Given /\ len' = Len(input) /\ pc' = "idle"
<1> DEFINE r == level[1].id
           m == input[1][1]
<1> PICK new : new = Opened(lo, m)
  OBVIOUS
<1>1. /\ Given /\ Row(level, lo, hi) /\ level[1].min = m
      /\ Forest(store, Members(above, 1, Len(above)) \cup Unlinked, lv, lo, hi, Small, m)
      /\ Pairs(store) = Stored(input, 1, Len(input))
      /\ Len(level) = 1 => above = <<>>
  BY DEF LevelsBuilt
<1>2. /\ Len(level) = 1 /\ root' = r /\ cur' = r /\ len' = Len(input)
      /\ store' = store /\ UNCHANGED <<pc, arg, path, split, ret>>
  BY DEF LoadDone
<1>3. above = <<>> /\ Len(above) = 0
  BY <1>1, <1>2, EmptySeq
<1>4. Members(level, 1, 1) = {r}
  BY DEF Members
<1>5. Unlinked = {r}
  <2>1. Taken(1, Order, 0) = 0
    BY OrderAssumption, EvenChunksTheorem
  <2> QED
    BY <1>2, <1>3, <1>4, <2>1 DEF Unlinked
<1>6. Members(above, 1, Len(above)) = {}
  BY <1>3 DEF Members
<1>7. Small = {r}
  BY <1>2, <1>4 DEF Small
<1>8. Forest(store, {r}, lv, lo, hi, {r}, m)
  <2>1. Members(above, 1, Len(above)) \cup Unlinked = {r}
    BY <1>5, <1>6
  <2> QED
    BY <1>1, <1>7, <2>1
<1>9. TreeOK(store, {r}, lv) /\ r \in Live(store)
  BY <1>8 DEF Forest, TreeOK, Linked
<1>10. Len(input) \in Nat
  BY <1>1, LenProperties DEF Given
<1>11. Inductive(lv)'
  <2>1. Return(ret, r)
    BY <1>2 DEF Return, Resting
  <2>2. ret \in Val \cup {None} /\ len' \in Int
    BY <1>2, <1>10 DEF Resting
  <2>3. TreeOK(store', {r}, lv)
    BY <1>2, <1>9
  <2> HIDE DEF r
  <2> QED
    BY <2>1, <2>2, <2>3, ReturnKeeps
<1>12. Ordered(new, hi, hi)'
  <2>1. Placed(store', new, hi, hi)
    <3>1. Placed(store, Opened(lo, m), hi, hi)
      BY <1>8, OpenedPlaced
    <3> QED
      BY <1>2, <3>1
  <2>2. lo[r] = {m} /\ hi[r] = {}
    <3>1. 1 \in 1 .. Len(level) /\ level \in Seq(Waiting)
      BY <1>1, <1>2 DEF Row
    <3>2. lo[r] = {m} /\ hi[r] = After(Mins(level), 1)
      BY <1>1, <3>1 DEF Row
    <3>3. Len(Mins(level)) = 1
      BY <1>2, <3>1, NodeLists
    <3> QED
      BY <3>2, <3>3 DEF After
  <2>3. new[r] = {}
    <3>1. DOMAIN lo = Live(store)
      BY <1>8 DEF Forest, Placed
    <3> QED
      BY <1>9, <2>2, <3>1 DEF Opened
  <2>4. pc' \in {"idle", "rebalance"} /\ root' = r
    BY <1>2 DEF Resting
  <2>5. new[root'] = {} /\ hi[root'] = {}
    BY <2>2, <2>3, <2>4
  <2> HIDE DEF r
  <2> QED
    BY <2>1, <2>4, <2>5, OrderedReturns
<1>13. Sorted'
  BY <1>11, <1>12 DEF Sorted
<1>14. \A x \in Live(store) : /\ KeyCount(store, x) \in 1 .. Order - 1
                              /\ x # r => KeyCount(store, x) >= Half
  BY <1>8 DEF Forest, Grown, KeyCount
<1>15. NoneFull(store')
  BY <1>2, <1>14, OrderAssumption DEF NoneFull
<1>16. Sized'
  <2>1. pc' = "idle"
    BY <1>2 DEF Resting
  <2>2. Owing' = 0
    BY <2>1 DEF Owing
  <2>3. 0 \notin Live(store)
    BY <1>9, LiveProperties DEF TreeOK, NodeId
  <2>4. Enough(store', r, 0)
    <3>1. Half \in Nat \ {0}
      BY HalfFacts
    <3>2. ASSUME NEW x \in Live(store)
          PROVE  EnoughAt(store, r, 0, x)
      <4>1. x # 0 /\ KeyCount(store, x) \in Nat
        BY <1>14, <2>3
      <4>2. x # r => KeyCount(store, x) >= Half
        BY <1>14
      <4>3. KeyCount(store, x) > 0
        BY <1>14
      <4> HIDE DEF r
      <4> QED
        BY <3>1, <4>1, <4>2, <4>3 DEF EnoughAt
    <3> QED
      BY <1>2, <3>2 DEF Enough
  <2> HIDE DEF r
  <2> QED
    BY <1>2, <2>1, <2>2, <2>4 DEF Sized
<1>17. Filled'
  BY <1>11, <1>15, <1>16 DEF Filled, Structure
<1> QED
  BY <1>1, <1>2, <1>13, <1>17 DEF Resting

-----------------------------------------------------------------------------
(* The loads, phase by phase: the new tree, nothing to pack, leaves, levels *)
(* above them, insertions one by one, and the tree that was handed over.    *)
Started == phase = "new" /\ Init /\ input = <<>> /\ level = <<>> /\ above = <<>>

Emptied == /\ phase = "leaves" /\ Resting /\ store = EmptyStore
           /\ input = <<>> /\ level = <<>> /\ above = <<>>

Packing == Resting /\ \E lv, lo, hi : LeavesBuilt(lv, lo, hi)

Raising == Resting /\ \E lv, lo, hi, h : LevelsBuilt(lv, lo, hi, h)

Inserting == /\ phase = "inserts" /\ Filled /\ Sorted
             /\ input \in Seq(Entry) /\ level \in Seq(Entry) /\ above = <<>>

Usable == phase = "ready" /\ Filled /\ Sorted /\ above = <<>>

Loads == Started \/ Emptied \/ Packing \/ Raising \/ Inserting \/ Usable

(* No step of a load begins in one phase and acts in another.               *)
LEMMA PhaseOfLoads ==
    /\ Started => phase = "new"
    /\ Emptied => phase = "leaves"
    /\ Packing => phase = "leaves"
    /\ Raising => phase = "levels"
    /\ Inserting => phase = "inserts"
    /\ Usable => phase = "ready"
BY DEF Started, Emptied, Packing, Raising, Inserting, Usable, LeavesBuilt, LevelsBuilt

(* from_sorted begins: it packs ascending entries and inserts any others.   *)
LEMMA StartedNext ==
    ASSUME Started, NEW es \in Input, FromSorted(es)
    PROVE  Loads'
<1>1. es \in Seq(Entry)
  BY InputAssumption
<1>2. Init /\ above = <<>>
  BY DEF Started
<1>3. /\ input' = es /\ level' = es /\ above' = <<>>
      /\ root' = root /\ len' = len /\ call' = call
  BY <1>2 DEF FromSorted
<1>4. CASE Ascends(es)
  <2>1. phase' = "leaves" /\ store' = EmptyStore
    BY <1>4 DEF FromSorted
  <2>2. Resting'
    BY <1>2, <1>3 DEF Resting, Init, call
  <2>3. CASE es = <<>>
    <3>1. Emptied'
      BY <1>3, <2>1, <2>2, <2>3 DEF Emptied
    <3> QED
      BY <3>1 DEF Loads
  <2>4. CASE es # <<>>
    <3>1. \E lv, lo, hi : LeavesBuilt(lv, lo, hi)'
      BY <1>1, <1>2, <1>4, <2>4, FromSortedBuilds
    <3>2. Packing'
      BY <2>2, <3>1 DEF Packing
    <3> QED
      BY <3>2 DEF Loads
  <2> QED
    BY <2>3, <2>4
<1>5. CASE ~Ascends(es)
  <2>1. phase' = "inserts" /\ store' = store
    BY <1>5 DEF FromSorted
  <2>2. [Next]_vars
    BY <1>3, <2>1 DEF vars, call
  <2>3. Filled' /\ Sorted'
    BY <1>2, <2>2, FilledInit, FilledNext, InitSorted, SortedNext
  <2>4. Inserting'
    BY <1>1, <1>3, <2>1, <2>3 DEF Inserting
  <2> QED
    BY <2>4 DEF Loads
<1> QED
  BY <1>4, <1>5

(* No entries: the tree is a new one, as after clear.                       *)
LEMMA LoadNothingBuilds ==
    ASSUME Emptied, LoadNothing
    PROVE  Clear /\ Filled' /\ Sorted' /\ Usable'
<1>1. Resting /\ store = EmptyStore
  BY DEF Emptied
<1>2. /\ store' = ResetStore /\ root' = AllocId(EmptyStore) /\ cur' = root'
      /\ len' = 0 /\ phase' = "ready" /\ above' = <<>>
      /\ UNCHANGED <<pc, arg, path, split, ret>>
  BY <1>1 DEF LoadNothing, Ready, ResetStore
<1>3. Clear
  BY <1>1, <1>2 DEF Clear, Resting
<1>4. pc' = "idle"
  BY <1>1, <1>2 DEF Resting
<1>5. Structure'
  <2> DEFINE lv == [j \in Live(ResetStore) |-> 0]
             r == AllocId(EmptyStore)
  <2>1. TreeOK(store', {r}, lv)
    BY <1>2, ResetTree
  <2>2. Return(ret, r) /\ ret \in Val \cup {None} /\ len' \in Int
    BY <1>1, <1>2 DEF Return, Resting
  <2> HIDE DEF lv, r
  <2>3. PICK high : TreeOK(store', {r}, high)
    BY <2>1
  <2>4. Inductive(high)'
    BY <2>2, <2>3, ReturnKeeps
  <2> QED
    BY <2>4 DEF Structure
<1>6. Filled'
  BY <1>3, <1>5, ClearSizes DEF Filled
<1>7. Sorted'
  <2>1. PICK lo, hi, out : Ordered(lo, hi, out)'
    BY <1>2, <1>4, ResetOrdered
  <2>2. PICK lv : Inductive(lv)'
    BY <1>5 DEF Structure
  <2> QED
    BY <2>1, <2>2 DEF Sorted
<1> QED
  BY <1>2, <1>3, <1>6, <1>7 DEF Usable

(* The loads while leaves are packed.                                       *)
LEMMA PackedMeanwhile ==
    ASSUME Packing, LoadLeaf \/ RaiseLevel
    PROVE  Loads'
<1>1. PICK lv, lo, hi : LeavesBuilt(lv, lo, hi)
  BY DEF Packing
<1>2. phase = "leaves" /\ Resting
  BY PhaseOfLoads DEF Packing
<1>3. CASE LoadLeaf
  <2>1. \E newLv, newLo, newHi : LeavesBuilt(newLv, newLo, newHi)'
    BY <1>1, <1>3, LoadLeafKeeps
  <2>2. call' = call
    BY <1>3 DEF LoadLeaf, Pack
  <2>3. Resting'
    BY <1>2, <2>2 DEF Resting, call
  <2>4. Packing'
    BY <2>1, <2>3 DEF Packing
  <2> QED
    BY <2>4 DEF Loads
<1>4. CASE RaiseLevel
  <2>1. Raise(Order - 1)
    BY <1>2, <1>4 DEF RaiseLevel
  <2>2. LevelsBuilt(lv, lo, hi, 0)'
    BY <1>1, <2>1, RaiseLeaves
  <2>3. Resting'
    BY <1>2, <2>1 DEF Raise, Resting, vars, call
  <2>4. Raising'
    BY <2>2, <2>3 DEF Raising
  <2> QED
    BY <2>4 DEF Loads
<1> QED
  BY <1>3, <1>4

(* The loads while levels are packed.                                       *)
LEMMA RaisedMeanwhile ==
    ASSUME Raising, LoadInternal \/ RaiseLevel \/ LoadDone
    PROVE  Loads'
<1>1. PICK lv, lo, hi, h : LevelsBuilt(lv, lo, hi, h)
  BY DEF Raising
<1>2. phase = "levels" /\ Resting
  BY PhaseOfLoads DEF Raising
<1>3. CASE LoadInternal
  <2>1. \E newLv, newLo, newHi : LevelsBuilt(newLv, newLo, newHi, h)'
    BY <1>1, <1>3, LoadInternalKeeps
  <2>2. call' = call
    BY <1>3 DEF LoadInternal, Pack
  <2>3. Resting'
    BY <1>2, <2>2 DEF Resting, call
  <2>4. Raising'
    BY <2>1, <2>3 DEF Raising
  <2> QED
    BY <2>4 DEF Loads
<1>4. CASE RaiseLevel
  <2>1. Raise(Order) /\ Len(level) > 1
    BY <1>2, <1>4 DEF RaiseLevel
  <2>2. LevelsBuilt(lv, lo, hi, h + 1)'
    BY <1>1, <2>1, RaiseNodes
  <2>3. Resting'
    BY <1>2, <2>1 DEF Raise, Resting, vars, call
  <2>4. Raising'
    BY <2>2, <2>3 DEF Raising
  <2> QED
    BY <2>4 DEF Loads
<1>5. CASE LoadDone
  <2>1. Filled' /\ Sorted'
    BY <1>1, <1>2, <1>5, LoadDoneBuilds
  <2>2. phase' = "ready" /\ above' = <<>>
    BY <1>5 DEF LoadDone, Ready
  <2>3. Usable'
    BY <2>1, <2>2 DEF Usable
  <2> QED
    BY <2>3 DEF Loads
<1> QED
  BY <1>3, <1>4, <1>5

(* Insertions of a load are calls like any others.                          *)
LEMMA InsertsAreCalls ==
    ASSUME Inserting, InsertNext \/ (Step /\ UNCHANGED load) \/ InsertsDone
    PROVE  [Next]_vars
<1>1. CASE InsertNext
  <2>1. level \in Seq(Entry) /\ level # <<>>
    BY <1>1 DEF InsertNext, Inserting
  <2>2. Head(level) \in Entry
    BY <2>1
  <2>3. InsertCall
    BY <1>1, <2>2 DEF InsertNext, InsertCall
  <2> QED
    BY <2>3 DEF Next
<1>2. CASE Step /\ UNCHANGED load
  BY <1>2 DEF Next
<1>3. CASE InsertsDone
  BY <1>3 DEF InsertsDone
<1> QED
  BY <1>1, <1>2, <1>3

(* The loads while entries are inserted.                                    *)
LEMMA InsertedMeanwhile ==
    ASSUME Inserting, InsertNext \/ (Step /\ UNCHANGED load) \/ InsertsDone
    PROVE  Loads'
<1>1. Filled' /\ Sorted'
  BY InsertsAreCalls, FilledNext, SortedNext DEF Inserting
<1>2. CASE InsertNext \/ (Step /\ UNCHANGED load)
  <2>1. phase' = "inserts" /\ above' = <<>> /\ input' \in Seq(Entry)
    BY <1>2 DEF InsertNext, Inserting, load
  <2>2. level' \in Seq(Entry)
    <3>1. CASE InsertNext
      <4>1. level \in Seq(Entry) /\ level # <<>> /\ level' = Tail(level)
        BY <3>1 DEF InsertNext, Inserting
      <4> QED
        BY <4>1
    <3>2. CASE UNCHANGED load
      BY <3>2 DEF load, Inserting
    <3> QED
      BY <1>2, <3>1, <3>2
  <2>3. Inserting'
    BY <1>1, <2>1, <2>2 DEF Inserting
  <2> QED
    BY <2>3 DEF Loads
<1>3. CASE InsertsDone
  <2>1. phase' = "ready" /\ above' = <<>>
    BY <1>3 DEF InsertsDone, Ready
  <2>2. Usable'
    BY <1>1, <2>1 DEF Usable
  <2> QED
    BY <2>2 DEF Loads
<1> QED
  BY <1>2, <1>3

(* The calls on a loaded tree.                                              *)
LEMMA UsedMeanwhile ==
    ASSUME Usable, Use
    PROVE  Usable'
<1>1. Next /\ UNCHANGED load
  BY DEF Use
<1>2. Filled' /\ Sorted'
  BY <1>1, FilledNext, SortedNext DEF Usable
<1> QED
  BY <1>1, <1>2 DEF Usable, load

(* Nothing a load has promised depends on anything but its variables.       *)
LEMMA LoadsUnchanged ==
    ASSUME Loads, UNCHANGED loadVars
    PROVE  Loads'
<1>0. /\ phase' = phase /\ input' = input /\ level' = level /\ above' = above
      /\ store' = store /\ root' = root /\ len' = len /\ call' = call /\ UNCHANGED vars
  BY DEF loadVars, vars, load, call
<1>1. Resting => Resting'
  BY <1>0 DEF Resting, call
<1>2. Filled /\ Sorted => Filled' /\ Sorted'
  BY <1>0, FilledNext, SortedNext
<1>3. Init => Init'
  BY <1>0 DEF Init, call
<1>4. CASE Started
  <2>1. Started'
    BY <1>0, <1>3, <1>4 DEF Started
  <2> QED
    BY <2>1 DEF Loads
<1>5. CASE Emptied
  <2>1. Emptied'
    BY <1>0, <1>1, <1>5 DEF Emptied
  <2> QED
    BY <2>1 DEF Loads
<1>6. CASE Packing
  <2>1. PICK lv, lo, hi : LeavesBuilt(lv, lo, hi)
    BY <1>6 DEF Packing
  <2>2. LeavesBuilt(lv, lo, hi)'
    BY <1>0, <2>1 DEF LeavesBuilt, Given
  <2>3. Packing'
    BY <1>1, <1>6, <2>2 DEF Packing
  <2> QED
    BY <2>3 DEF Loads
<1>7. CASE Raising
  <2>1. PICK lv, lo, hi, h : LevelsBuilt(lv, lo, hi, h)
    BY <1>7 DEF Raising
  <2>2. LevelsBuilt(lv, lo, hi, h)'
    BY <1>0, <2>1 DEF LevelsBuilt, Given, Unlinked, Small, Heights
  <2>3. Raising'
    BY <1>1, <1>7, <2>2 DEF Raising
  <2> QED
    BY <2>3 DEF Loads
<1>8. CASE Inserting
  <2>1. Inserting'
    BY <1>0, <1>2, <1>8 DEF Inserting
  <2> QED
    BY <2>1 DEF Loads
<1>9. CASE Usable
  <2>1. Usable'
    BY <1>0, <1>2, <1>9 DEF Usable
  <2> QED
    BY <2>1 DEF Loads
<1> QED
  BY <1>4, <1>5, <1>6, <1>7, <1>8, <1>9 DEF Loads

(* Every step of a load, in the phase it belongs to.                        *)
LEMMA LoadsNext ==
    ASSUME Loads, [Load \/ Use]_loadVars
    PROVE  Loads'
<1>1. CASE \E es \in Input : FromSorted(es)
  <2>1. PICK es \in Input : FromSorted(es)
    BY <1>1
  <2>2. Started
    BY <2>1, PhaseOfLoads DEF Loads, FromSorted
  <2> QED
    BY <2>1, <2>2, StartedNext
<1>2. CASE LoadNothing
  <2>1. phase = "leaves" /\ input = <<>>
    BY <1>2 DEF LoadNothing
  <2>2. Emptied
    <3>1. ~Packing
      BY <2>1 DEF Packing, LeavesBuilt, Given
    <3> QED
      BY <2>1, <3>1, PhaseOfLoads DEF Loads
  <2>3. Usable'
    BY <1>2, <2>2, LoadNothingBuilds
  <2> QED
    BY <2>3 DEF Loads
<1>3. CASE LoadLeaf
  <2>1. phase = "leaves" /\ Len(above) < Chunks(Len(level), Order - 1)
    BY <1>3 DEF LoadLeaf
  <2>2. ~Emptied
    <3>1. SUFFICES ASSUME Emptied PROVE FALSE
      OBVIOUS
    <3>2. Len(level) = 0 /\ Len(above) = 0
      BY <3>1, EmptySeq DEF Emptied
    <3>3. Chunks(0, Order - 1) = 0
      BY OrderAssumption, NoChunks
    <3> QED
      BY <2>1, <3>2, <3>3
  <2>3. Packing
    BY <2>1, <2>2, PhaseOfLoads DEF Loads
  <2> QED
    BY <1>3, <2>3, PackedMeanwhile
<1>4. CASE LoadInternal \/ LoadDone
  <2>1. phase = "levels"
    BY <1>4 DEF LoadInternal, LoadDone
  <2>2. Raising
    BY <2>1, PhaseOfLoads DEF Loads
  <2> QED
    BY <1>4, <2>2, RaisedMeanwhile
<1>5. CASE RaiseLevel
  <2>1. CASE phase = "leaves" /\ input # <<>>
    <3>1. Packing
      BY <2>1, PhaseOfLoads DEF Loads, Emptied
    <3> QED
      BY <1>5, <3>1, PackedMeanwhile
  <2>2. CASE phase = "levels"
    <3>1. Raising
      BY <2>2, PhaseOfLoads DEF Loads
    <3> QED
      BY <1>5, <3>1, RaisedMeanwhile
  <2> QED
    BY <1>5, <2>1, <2>2 DEF RaiseLevel
<1>6. CASE InsertNext \/ InsertsDone \/ (phase = "inserts" /\ Step /\ UNCHANGED load)
  <2>1. phase = "inserts"
    BY <1>6 DEF InsertNext, InsertsDone
  <2>2. Inserting
    BY <2>1, PhaseOfLoads DEF Loads
  <2> QED
    BY <1>6, <2>2, InsertedMeanwhile
<1>7. CASE Use
  <2>1. Usable
    BY <1>7, PhaseOfLoads DEF Loads, Use
  <2>2. Usable'
    BY <1>7, <2>1, UsedMeanwhile
  <2> QED
    BY <2>2 DEF Loads
<1>8. CASE UNCHANGED loadVars
  BY <1>8, LoadsUnchanged
<1> QED
  BY <1>1, <1>2, <1>3, <1>4, <1>5, <1>6, <1>7, <1>8 DEF Load

(* Whatever is loaded, each phase keeps its promise to the next one.        *)
THEOREM LoadsTheorem == LoadUseSpec => []Loads
<1>1. LoadInit => Loads
  BY DEF LoadInit, Loads, Started
<1>2. Loads /\ [Load \/ Use]_loadVars => Loads'
  BY LoadsNext
<1> QED
  BY <1>1, <1>2, PTL DEF LoadUseSpec

(* While entries are inserted, and after, the tree is one of insertion's.   *)
LEMMA LoadedBuilds ==
    ASSUME Loads, Built
    PROVE  Filled /\ Sorted
<1>1. Inserting \/ Usable
  BY PhaseOfLoads DEF Loads, Built
<1> QED
  BY <1>1 DEF Inserting, Usable

(* What a load returns keeps the shape, the frames and the one depth of the *)
(* trees insertion builds (ops.rs:465-527), and so do later calls.          *)
THEOREM LoadedTreeTheorem == LoadUseSpec => []LoadedTree
<1>1. Loads => LoadedTree
  <2>1. SUFFICES ASSUME Loads, Built PROVE SameDepth /\ NoLeakNoAlias /\ FramesHold
    BY DEF LoadedTree
  <2>2. PICK lv : Inductive(lv)
    BY <2>1, LoadedBuilds DEF Filled, Structure
  <2> QED
    BY <2>2, LevelsAreSound, LinksAreSound, FramesAreSound
<1> QED
  BY <1>1, LoadsTheorem, PTL

(* Every node of it is within the legal occupancy range (ops.rs:468-469).   *)
THEOREM LoadedOccupancyTheorem == LoadUseSpec => []LoadedOccupancy
<1>1. Loads => LoadedOccupancy
  BY LoadedBuilds, FilledIsOccupancy DEF LoadedOccupancy
<1> QED
  BY <1>1, LoadsTheorem, PTL

(* A load that is not followed by calls is one that may be.                 *)
LEMMA LoadImplies == LoadSpec => LoadUseSpec
<1>1. [Load]_loadVars => [Load \/ Use]_loadVars
  OBVIOUS
<1> QED
  BY <1>1, PTL DEF LoadSpec, LoadUseSpec

-----------------------------------------------------------------------------
(* The map a load leaves behind. The first p entries as a map:              *)
Prefix(es, p) ==
    [k \in Key |-> LET at == {i \in 1 .. p : es[i][1] = k}
                   IN  IF at = {} THEN None
                       ELSE es[CHOOSE i \in at : \A j \in at : j <= i][2]]

(* A whole list is its longest prefix,                                      *)
LEMMA AllEntries ==
    ASSUME NEW es \in Seq(Entry)
    PROVE  MapOf(es) = Prefix(es, Len(es))
<1>1. DOMAIN es = 1 .. Len(es)
  BY LenProperties
<1> QED
  BY <1>1 DEF MapOf, Prefix

(* and an empty prefix maps nothing.                                        *)
LEMMA NoEntries ==
    ASSUME NEW es
    PROVE  Prefix(es, 0) = [k \in Key |-> None]
BY DEF Prefix

(* One entry more overwrites what its key had.                              *)
LEMMA OneEntryMore ==
    ASSUME NEW es \in Seq(Entry), NEW p \in 1 .. Len(es)
    PROVE  Prefix(es, p) = [Prefix(es, p - 1) EXCEPT ![es[p][1]] = es[p][2]]
<1> DEFINE Spots(k, q) == {i \in 1 .. q : es[i][1] = k}
           newest(S) == IF S = {} THEN None ELSE es[CHOOSE i \in S : \A j \in S : j <= i][2]
           value(k, q) == newest(Spots(k, q))
<1>1. \A q : Prefix(es, q) = [k \in Key |-> value(k, q)]
  BY DEF Prefix
<1>2. es[p][1] \in Key /\ p \in Nat /\ p >= 1
  BY EntryLists
<1>3. ASSUME NEW k \in Key, k # es[p][1] PROVE value(k, p) = value(k, p - 1)
  <2>1. \A i \in 1 .. p : i # p => i \in 1 .. p - 1
    BY <1>2
  <2>2. \A i \in 1 .. p - 1 : i \in 1 .. p
    BY <1>2
  <2>3. Spots(k, p) = Spots(k, p - 1)
    BY <1>3, <2>1, <2>2
  <2> HIDE DEF Spots, newest
  <2> QED
    BY <2>3
<1>4. value(es[p][1], p) = es[p][2]
  <2> DEFINE S == Spots(es[p][1], p)
  <2>1. p \in S /\ \A j \in S : j \in Nat /\ j <= p
    BY <1>2
  <2> HIDE DEF S
  <2>2. \A i \in S : (\A j \in S : j <= i) => i = p
    BY <1>2, <2>1
  <2>3. (CHOOSE i \in S : \A j \in S : j <= i) = p
    BY <2>1, <2>2
  <2> USE DEF S
  <2> QED
    BY <2>1, <2>3
<1> HIDE DEF value
<1>5. ASSUME NEW k \in Key
      PROVE  Prefix(es, p)[k] = [Prefix(es, p - 1) EXCEPT ![es[p][1]] = es[p][2]][k]
  <2>1. CASE k = es[p][1]
    BY <1>1, <1>4, <2>1
  <2>2. CASE k # es[p][1]
    BY <1>1, <1>3, <2>2
  <2> QED
    BY <2>1, <2>2
<1>6. DOMAIN Prefix(es, p) = Key /\ DOMAIN Prefix(es, p - 1) = Key
  BY <1>1
<1> QED
  BY <1>1, <1>5, <1>6

(* Ascending entries have each key once, so all of them are counted.        *)
LEMMA OnceEach ==
    ASSUME NEW es \in Seq(Entry), Ascending(Firsts(es)),
           NEW i \in 1 .. Len(es), NEW j \in 1 .. Len(es), es[i][1] = es[j][1]
    PROVE  i = j
<1>1. Firsts(es) \in Seq(Key) /\ Len(Firsts(es)) = Len(es)
  BY EntryLists
<1>2. Firsts(es)[i] = Firsts(es)[j]
  BY DEF Firsts
<1> QED
  BY <1>1, <1>2, KeyIsFound

(* The entries packed, as pairs, hold the map of the list.                  *)
LEMMA GivenMap ==
    ASSUME NEW es \in Seq(Entry), Ascending(Firsts(es)),
           NEW m, Holds(m, Stored(es, 1, Len(es)))
    PROVE  m = MapOf(es) /\ Counts(m, Len(es))
<1> DEFINE n == Len(es)
<1>1. /\ n \in Nat /\ DOMAIN es = 1 .. n
      /\ \A j \in 1 .. n : /\ es[j] = <<es[j][1], es[j][2]>>
                           /\ es[j][1] \in Key /\ es[j][2] \in Val
  BY EntryLists, LenProperties
<1>2. /\ m \in [Key -> Val \cup {None}]
      /\ \A k \in Key, v \in Val : m[k] = v <=> \E j \in 1 .. n : <<k, v>> = es[j]
  BY DEF Holds, Stored
<1>3. ASSUME NEW j \in 1 .. n PROVE m[es[j][1]] = es[j][2]
  BY <1>1, <1>2
<1>4. ASSUME NEW k \in Key, m[k] # None PROVE \E j \in 1 .. n : es[j][1] = k
  <2>1. m[k] \in Val
    BY <1>2, <1>4
  <2> PICK v \in Val : v = m[k]
    BY <2>1
  <2>2. PICK j \in 1 .. n : <<k, v>> = es[j]
    BY <1>2, ZenonT(30)
  <2> QED
    BY <2>2
<1>5. \A i, j \in 1 .. n : es[i][1] = es[j][1] => i = j
  BY OnceEach
<1> HIDE DEF n
<1>6. ASSUME NEW k \in Key PROVE m[k] = MapOf(es)[k]
  <2> DEFINE at == {i \in DOMAIN es : es[i][1] = k}
  <2>1. MapOf(es)[k] = IF at = {} THEN None ELSE es[CHOOSE i \in at : \A j \in at : j <= i][2]
    BY DEF MapOf
  <2>2. CASE at = {}
    BY <1>1, <1>4, <2>1, <2>2
  <2>3. CASE at # {}
    <3>1. PICK j \in 1 .. n : es[j][1] = k
      BY <1>1, <2>3
    <3>2. \A i \in at : i = j
      BY <1>1, <1>5, <3>1
    <3>3. j \in at /\ j <= j
      BY <1>1, <3>1
    <3> HIDE DEF at
    <3>4. (CHOOSE i \in at : \A x \in at : x <= i) = j
      BY <3>2, <3>3
    <3> QED
      BY <1>3, <2>1, <2>3, <3>1, <3>4
  <2> QED
    BY <2>2, <2>3
<1>7. m = MapOf(es)
  BY <1>2, <1>6 DEF MapOf
<1>8. Counts(m, n)
  <2> DEFINE S == 1 .. n
             K == Keyed(m)
             f == [j \in S |-> es[j][1]]
  <2>1. IsFiniteSet(S) /\ Cardinality(S) = n
    BY <1>1, FS_Interval
  <2>2. f \in [S -> K]
    <3>1. ASSUME NEW j \in S PROVE es[j][1] \in K
      BY <1>1, <1>3, NoneAssumption DEF Keyed, Map!Entries
    <3> QED
      BY <3>1
  <2>3. ASSUME NEW k \in K PROVE \E j \in S : f[j] = k
    <3>1. k \in Key /\ m[k] # None
      BY DEF Keyed, Map!Entries
    <3> QED
      BY <1>4, <3>1
  <2>4. \A i, j \in S : f[i] = f[j] => i = j
    BY <1>5
  <2> HIDE DEF S, K, f
  <2>5. IsFiniteSet(K)
    <3>1. f \in Surjection(S, K)
      BY <2>2, <2>3 DEF Surjection
    <3> QED
      BY <2>1, <3>1, FS_Surjection
  <2>6. Cardinality(S) = Cardinality(K)
    BY <2>2, <2>3, <2>4, <2>5, Matched
  <2> QED
    BY <2>1, <2>5, <2>6 DEF Counts, K
<1> QED
  BY <1>7, <1>8 DEF n

-----------------------------------------------------------------------------
(* The map and the count of a tree that exists.                             *)
LoadHeld == Built => MapHeld

LoadCounted == Built => Counted

(* The loaded leaves hold the map.                                          *)
LEMMA LoadHeldAlways == LoadUseSpec => []LoadHeld
<1>1. Loads => LoadHeld
  BY LoadedBuilds, ContentsArePairs DEF LoadHeld, Sorted
<1> QED
  BY <1>1, LoadsTheorem, PTL

(* Once the tree exists the steps are those of its calls.                   *)
LEMMA BuiltSteps ==
    ASSUME Loads, Built, [Load \/ Use]_loadVars
    PROVE  [Next]_vars
<1>1. CASE InsertNext \/ InsertsDone \/ (phase = "inserts" /\ Step /\ UNCHANGED load)
  <2>1. phase = "inserts"
    BY <1>1 DEF InsertNext, InsertsDone
  <2>2. Inserting
    BY <2>1, PhaseOfLoads DEF Loads
  <2> QED
    BY <1>1, <2>2, InsertsAreCalls
<1>2. CASE Use \/ UNCHANGED loadVars
  BY <1>2 DEF Use, loadVars
<1>3. CASE (\E es \in Input : FromSorted(es)) \/ LoadNothing \/ LoadLeaf \/ LoadInternal
           \/ RaiseLevel \/ LoadDone
  BY <1>3 DEF Built, FromSorted, LoadNothing, LoadLeaf, LoadInternal, RaiseLevel, LoadDone
<1> QED
  BY <1>1, <1>2, <1>3 DEF Load

(* How a tree comes to exist: by a new one to insert into, by none to load, *)
(* or by the last level.                                                    *)
LEMMA Beginnings ==
    ASSUME Loads, ~Built, Built', [Load \/ Use]_loadVars
    PROVE  \/ Started /\ phase' = "inserts" /\ UNCHANGED vars
              /\ \E es \in Input : input' = es /\ level' = es
           \/ Emptied /\ LoadNothing
           \/ Raising /\ LoadDone
<1>1. CASE \E es \in Input : FromSorted(es)
  <2>1. PICK es \in Input : FromSorted(es)
    BY <1>1
  <2>2. Started
    BY <2>1, PhaseOfLoads DEF Loads, FromSorted
  <2>3. phase' = "inserts" /\ input' = es /\ level' = es /\ UNCHANGED vars
    BY <2>1 DEF FromSorted, Built, vars, call
  <2> QED
    BY <2>2, <2>3
<1>2. CASE LoadNothing
  <2>1. phase = "leaves" /\ input = <<>>
    BY <1>2 DEF LoadNothing
  <2>2. ~Packing
    BY <2>1 DEF Packing, LeavesBuilt, Given
  <2> QED
    BY <1>2, <2>1, <2>2, PhaseOfLoads DEF Loads
<1>3. CASE LoadDone
  <2>1. Raising
    BY <1>3, PhaseOfLoads DEF Loads, LoadDone
  <2> QED
    BY <1>3, <2>1
<1>4. CASE LoadLeaf \/ LoadInternal \/ RaiseLevel
  BY <1>4 DEF LoadLeaf, LoadInternal, Pack, RaiseLevel, Raise, Built
<1>5. CASE InsertNext \/ InsertsDone \/ (phase = "inserts" /\ Step /\ UNCHANGED load) \/ Use
           \/ UNCHANGED loadVars
  BY <1>5 DEF InsertNext, InsertsDone, Use, Built, loadVars, load
<1> QED
  BY <1>1, <1>2, <1>3, <1>4, <1>5 DEF Load

(* A new tree maps and counts nothing,                                      *)
LEMMA NewTreeMap ==
    ASSUME Started, MapHeld', UNCHANGED vars
    PROVE  Counted' /\ Contents' = [k \in Key |-> None]
<1>1. Init
  BY DEF Started
<1>2. MapHeld
  BY <1>1, InitSorted, ContentsArePairs DEF Sorted
<1>3. Counted
  BY <1>1, <1>2, InitCounted
<1>4. Counted'
  BY <1>1, <1>2, <1>3, InitSorted, CountedStep
<1>5. store' = ResetStore
  BY <1>1 DEF Init, vars
<1> QED
  BY <1>4, <1>5, ClearEffect

(* nor does one loaded from no entries.                                     *)
LEMMA LoadNothingMap ==
    ASSUME Emptied, LoadNothing, MapHeld'
    PROVE  Counted' /\ Contents' = MapOf(input)
<1>1. Clear
  BY LoadNothingBuilds
<1>2. Counted'
  BY <1>1, ClearCounted
<1>3. Contents' = [k \in Key |-> None]
  BY <1>1, ClearEffect DEF Clear
<1>4. input = <<>> /\ <<>> \in Seq(Entry) /\ Len(<<>>) = 0
  BY EmptySeq DEF Emptied
<1>5. MapOf(<<>>) = [k \in Key |-> None]
  BY <1>4, AllEntries, NoEntries
<1> HIDE DEF Contents
<1> QED
  BY <1>2, <1>3, <1>4, <1>5

(* A packed tree holds and counts the entries given.                        *)
LEMMA LoadDoneMap ==
    ASSUME Raising, LoadDone, MapHeld'
    PROVE  Counted' /\ Contents' = MapOf(input)
<1>1. PICK lv, lo, hi, h : LevelsBuilt(lv, lo, hi, h)
  BY DEF Raising
<1>2. /\ Pairs(store') = Stored(input, 1, Len(input))
      /\ Given /\ len' = Len(input) /\ pc' = "idle"
  BY <1>1, LoadDoneBuilds DEF Raising
<1>3. /\ input \in Seq(Entry) /\ Ascending(Firsts(input))
      /\ Holds(Contents', Stored(input, 1, Len(input)))
  BY <1>2 DEF Given, MapHeld
<1>4. \A m, n : /\ Contents' = m /\ Counts(m, n) /\ len' \in Nat /\ n = len' + Behind'
                /\ pc' # "absorb"
                => Counted'
  BY DEF Counted
<1> HIDE DEF Contents
<1>5. Contents' = MapOf(input) /\ Counts(Contents', Len(input))
  BY <1>3, GivenMap
<1>6. Len(input) \in Nat
  BY <1>3, LenProperties
<1>7. Behind' = 0
  BY <1>2 DEF Behind
<1>8. len' \in Nat /\ Len(input) = len' + Behind' /\ pc' # "absorb"
  BY <1>2, <1>6, <1>7
<1> QED
  BY <1>4, <1>5, <1>8

(* Every step of a load keeps the count of the map it holds.                *)
LEMMA LoadCountedNext ==
    ASSUME Loads, LoadHeld, LoadHeld', LoadCounted, [Load \/ Use]_loadVars
    PROVE  LoadCounted'
<1>1. SUFFICES ASSUME Built' PROVE Counted'
  BY DEF LoadCounted
<1>2. MapHeld'
  BY <1>1 DEF LoadHeld
<1>3. CASE Built
  <2>1. Sorted /\ MapHeld /\ Counted /\ [Next]_vars
    BY <1>3, LoadedBuilds, BuiltSteps DEF LoadHeld, LoadCounted
  <2> QED
    BY <1>2, <2>1, CountedStep
<1>4. CASE ~Built
  <2>1. \/ Started /\ UNCHANGED vars
        \/ Emptied /\ LoadNothing
        \/ Raising /\ LoadDone
    BY <1>1, <1>4, Beginnings
  <2> QED
    BY <1>2, <2>1, NewTreeMap, LoadNothingMap, LoadDoneMap
<1> QED
  BY <1>3, <1>4

(* So len counts a loaded map.                                              *)
LEMMA LoadCountedAlways == LoadUseSpec => []LoadCounted
<1>1. LoadInit => LoadCounted
  BY DEF LoadInit, LoadCounted, Built
<1>2. Loads /\ LoadHeld /\ LoadHeld' /\ LoadCounted /\ [Load \/ Use]_loadVars => LoadCounted'
  BY LoadCountedNext
<1> QED
  BY <1>1, <1>2, LoadsTheorem, LoadHeldAlways, PTL DEF LoadUseSpec

(* In a loaded tree every key is found from the root, and its count is the  *)
(* number of its entries (ops.rs:480-530).                                  *)
THEOREM LoadedRoutingTheorem == LoadUseSpec => []LoadedRouting
<1>1. Loads /\ LoadHeld /\ LoadCounted => LoadedRouting
  <2>1. SUFFICES ASSUME Loads, LoadHeld, LoadCounted, Built PROVE Routing /\ LenExact
    BY DEF LoadedRouting
  <2>2. Filled /\ Sorted /\ MapHeld /\ Counted
    BY <2>1, LoadedBuilds DEF LoadHeld, LoadCounted
  <2>3. Routing
    BY <2>2, OrderedIsRouting DEF Sorted
  <2>4. LenExact
    BY <2>2, CountedIsExact
  <2> QED
    BY <2>3, <2>4
<1> QED
  BY <1>1, LoadsTheorem, LoadHeldAlways, LoadCountedAlways, PTL

-----------------------------------------------------------------------------
(* While entries are inserted one by one, the map is that of those that     *)
(* have taken effect: all that are out, but for one still on its way down.  *)
Out == Len(input) - Len(level)

Inserted ==
    phase = "inserts" =>
        /\ Out \in 0 .. Len(input)
        /\ \A j \in 1 .. Len(level) : level[j] = input[Out + j]
        /\ pc # "idle" => /\ Out >= 1 /\ arg.op = "insert"
                          /\ arg.key = input[Out][1] /\ arg.val = input[Out][2]
        /\ Contents = Prefix(input, IF pc = "descend" THEN Out - 1 ELSE Out)

(* No entry is out when the insertions begin.                               *)
LEMMA InsertsBegin ==
    ASSUME Started, phase' = "inserts", UNCHANGED vars, MapHeld',
           NEW es \in Input, input' = es, level' = es
    PROVE  Inserted'
<1>1. es \in Seq(Entry) /\ Len(es) \in Nat
  BY InputAssumption, EntryLists
<1>2. Out' = 0
  BY <1>1 DEF Out
<1>3. pc' = "idle"
  BY DEF Started, Init, vars
<1>4. Contents' = Prefix(input', 0)
  BY NewTreeMap, NoEntries
<1> HIDE DEF Contents
<1> QED
  BY <1>1, <1>2, <1>3, <1>4 DEF Inserted

(* The next entry is out.                                                   *)
LEMMA InsertNextInserted ==
    ASSUME Inserting, InsertNext, Inserted, MapHeld, MapHeld'
    PROVE  Inserted'
<1>1. /\ phase = "inserts" /\ level # <<>> /\ level' = Tail(level)
      /\ phase' = phase /\ input' = input
      /\ pc = "idle" /\ pc' = "descend"
      /\ arg' = [op |-> "insert", key |-> Head(level)[1], val |-> Head(level)[2]]
  BY DEF InsertNext, Call
<1>2. input \in Seq(Entry) /\ level \in Seq(Entry) /\ Sorted
  BY DEF Inserting
<1>3. Stays
  <2>1. Head(level) \in Entry
    BY <1>1, <1>2
  <2>2. InsertCall
    BY <2>1 DEF InsertNext, InsertCall
  <2> QED
    BY <1>2, <2>2, RepairEffect DEF Repairs
<1> HIDE DEF Contents
<1>4. /\ Out \in 0 .. Len(input) /\ Contents = Prefix(input, Out)
      /\ \A j \in 1 .. Len(level) : level[j] = input[Out + j]
  BY <1>1 DEF Inserted
<1>5. /\ Len(level) \in Nat /\ Len(level) >= 1 /\ Len(input) \in Nat
      /\ Head(level) = level[1] /\ Len(Tail(level)) = Len(level) - 1
      /\ \A j \in 1 .. Len(level) - 1 : Tail(level)[j] = level[j + 1]
  BY <1>1, <1>2, EmptySeq, LenProperties, HeadTailProperties
<1>6. Out' = Out + 1
  BY <1>1, <1>5 DEF Out
<1>7. Out' \in 1 .. Len(input)
  <2>1. Out + Len(level) = Len(input)
    BY <1>5 DEF Out
  <2>2. Out \in Nat
    BY <1>4, <1>5
  <2> QED
    BY <1>5, <1>6, <2>1, <2>2
<1>8. Head(level) = input[Out']
  <2>1. level[1] = input[Out + 1]
    BY <1>4, <1>5
  <2> QED
    BY <1>5, <1>6, <2>1
<1>9. ASSUME NEW j \in 1 .. Len(level') PROVE level'[j] = input'[Out' + j]
  <2>1. j \in 1 .. Len(level) - 1 /\ j + 1 \in 1 .. Len(level)
    BY <1>1, <1>5
  <2>2. level'[j] = level[j + 1]
    BY <1>1, <1>5, <2>1
  <2>3. level[j + 1] = input[Out + (j + 1)]
    BY <1>4, <2>1
  <2>4. Out + (j + 1) = Out' + j
    BY <1>4, <1>6
  <2> QED
    BY <1>1, <2>2, <2>3, <2>4
<1>10. Contents' = Prefix(input', Out' - 1)
  <2>1. Out' - 1 = Out
    BY <1>4, <1>6
  <2> QED
    BY <1>1, <1>3, <1>4, <2>1 DEF Stays
<1>11. Out' \in 0 .. Len(input') /\ Out' >= 1
  BY <1>1, <1>5, <1>7
<1>12. arg'.op = "insert" /\ arg'.key = input'[Out'][1] /\ arg'.val = input'[Out'][2]
  BY <1>1, <1>8
<1> QED
  BY <1>1, <1>9, <1>10, <1>11, <1>12 DEF Inserted

(* An insertion takes effect, or works its way back up.                     *)
LEMMA StepInserted ==
    ASSUME Inserting, Step, UNCHANGED load, Inserted, MapHeld, MapHeld'
    PROVE  Inserted'
<1>1. /\ phase = "inserts" /\ phase' = phase /\ input' = input /\ level' = level /\ Out' = Out
  BY DEF Inserting, load, Out
<1>2. input \in Seq(Entry) /\ Sorted
  BY DEF Inserting
<1>3. pc \in {"descend", "absorb", "rebalance"} /\ (pc = "rebalance" => arg.op # "insert")
  <2>1. PICK lv : Inductive(lv)
    BY <1>2 DEF Sorted
  <2>2. pc = "rebalance" => arg.op # "insert"
    BY <2>1 DEF Inductive, TypeOK
  <2>3. pc \in {"descend", "absorb", "rebalance"}
    BY DEF Step, Descend, GetAnswer, InsertReplace, InsertFits, InsertSplit, AtLeaf,
           AbsorbFits, AbsorbSplit, GrowRoot, RemoveAbsent, RemoveEntry,
           Sufficient, Rebalance, FinishRemove
  <2> QED
    BY <2>2, <2>3
<1> HIDE DEF Contents
<1>4. /\ Out \in 0 .. Len(input) /\ Out >= 1 /\ arg.op = "insert"
      /\ arg.key = input[Out][1] /\ arg.val = input[Out][2]
      /\ \A j \in 1 .. Len(level) : level[j] = input[Out + j]
      /\ pc = "descend" => Contents = Prefix(input, Out - 1)
      /\ pc # "descend" => Contents = Prefix(input, Out)
  BY <1>1, <1>3 DEF Inserted
<1>5. SUFFICES /\ pc' # "idle" => arg' = arg
               /\ pc' = "descend" => Contents' = Prefix(input, Out - 1)
               /\ pc' # "descend" => Contents' = Prefix(input, Out)
  BY <1>1, <1>4 DEF Inserted
<1>6. CASE Descend
  <2>1. Stays
    BY <1>2, <1>6, RepairEffect DEF Repairs
  <2>2. pc = "descend" /\ pc' = pc /\ arg' = arg
    BY <1>6 DEF Descend, tree
  <2> QED
    BY <1>4, <2>1, <2>2 DEF Stays
<1>7. CASE InsertReplace \/ InsertFits \/ InsertSplit
  <2>1. Puts
    BY <1>2, <1>7, ReplaceEffect, NewKeyEffect
  <2>2. pc = "descend" /\ pc' # "descend" /\ (pc' # "idle" => arg' = arg)
    BY <1>7 DEF InsertReplace, InsertFits, InsertSplit, AtLeaf, Return
  <2>3. Out \in 1 .. Len(input)
    BY <1>2, <1>4, LenProperties
  <2>4. Prefix(input, Out) = [Prefix(input, Out - 1) EXCEPT ![arg.key] = arg.val]
    BY <1>2, <1>4, <2>3, OneEntryMore
  <2> QED
    BY <1>4, <2>1, <2>2, <2>4 DEF Puts
<1>8. CASE AbsorbFits \/ AbsorbSplit \/ GrowRoot
  <2>1. Stays
    BY <1>2, <1>8, RepairEffect DEF Repairs
  <2>2. pc = "absorb" /\ pc' # "descend" /\ (pc' # "idle" => arg' = arg)
    BY <1>8 DEF AbsorbFits, AbsorbSplit, GrowRoot, Return
  <2> QED
    BY <1>4, <2>1, <2>2 DEF Stays
<1>9. CASE GetAnswer \/ RemoveAbsent \/ RemoveEntry
  BY <1>4, <1>9 DEF GetAnswer, RemoveAbsent, RemoveEntry, AtLeaf
<1>10. CASE Sufficient \/ Rebalance \/ FinishRemove
  BY <1>3, <1>4, <1>10 DEF Sufficient, Rebalance, FinishRemove
<1> QED
  BY <1>6, <1>7, <1>8, <1>9, <1>10 DEF Step

(* Every step of a load keeps it,                                           *)
LEMMA InsertedNext ==
    ASSUME Loads, LoadHeld, LoadHeld', Inserted, [Load \/ Use]_loadVars
    PROVE  Inserted'
<1>1. SUFFICES ASSUME phase' = "inserts" PROVE Inserted'
  BY DEF Inserted
<1>2. Built' /\ MapHeld'
  BY <1>1 DEF Built, LoadHeld
<1>3. CASE ~Built
  <2>1. /\ Started /\ UNCHANGED vars
        /\ \E es \in Input : input' = es /\ level' = es
    <3>1. ~LoadNothing /\ ~LoadDone
      BY <1>1 DEF LoadNothing, LoadDone, Ready
    <3> QED
      BY <1>2, <1>3, <3>1, Beginnings
  <2> QED
    BY <1>1, <1>2, <2>1, InsertsBegin
<1>4. CASE Built
  <2>1. MapHeld
    BY <1>4 DEF LoadHeld
  <2>2. phase = "inserts"
    <3>1. phase # "ready"
      BY <1>1 DEF Load, Use, FromSorted, LoadNothing, LoadLeaf, LoadInternal, Pack, RaiseLevel,
                  Raise, LoadDone, Ready, InsertNext, InsertsDone, load, loadVars
    <3> QED
      BY <1>4, <3>1 DEF Built
  <2>3. Inserting
    BY <2>2, PhaseOfLoads DEF Loads
  <2>4. InsertNext \/ (Step /\ UNCHANGED load) \/ UNCHANGED loadVars
    BY <1>1, <2>2 DEF Load, Use, FromSorted, LoadNothing, LoadLeaf, LoadInternal, Pack,
                      RaiseLevel, Raise, LoadDone, Ready, InsertsDone
  <2>5. CASE UNCHANGED loadVars
    <3>1. Stays
      BY <1>2, <2>1, <2>5, PairsStay DEF loadVars, vars
    <3> HIDE DEF Contents
    <3>2. Out' = Out /\ pc' = pc /\ arg' = arg /\ input' = input /\ level' = level /\ phase' = phase
      BY <2>5 DEF loadVars, vars, load, Out
    <3> QED
      BY <3>1, <3>2 DEF Inserted, Stays
  <2> QED
    BY <1>2, <2>1, <2>3, <2>4, <2>5, InsertNextInserted, StepInserted
<1> QED
  BY <1>3, <1>4

(* so it holds throughout.                                                  *)
LEMMA InsertedAlways == LoadUseSpec => []Inserted
<1>1. LoadInit => Inserted
  BY DEF LoadInit, Inserted
<1>2. Loads /\ LoadHeld /\ LoadHeld' /\ Inserted /\ [Load \/ Use]_loadVars => Inserted'
  BY InsertedNext
<1> QED
  BY <1>1, <1>2, LoadsTheorem, LoadHeldAlways, PTL DEF LoadUseSpec

(* The step that hands over the tree hands over the map of the entries.     *)
LEMMA LoadStepExact ==
    ASSUME Loads, LoadHeld, LoadHeld', Inserted, [Load \/ Use]_loadVars,
           phase # "ready", phase' = "ready"
    PROVE  Contents' = MapOf(input)
<1>1. Built' /\ MapHeld'
  BY DEF Built, LoadHeld
<1>2. CASE ~Built
  BY <1>1, <1>2, Beginnings, LoadNothingMap, LoadDoneMap
<1>3. CASE Built
  <2>1. phase = "inserts" /\ MapHeld
    BY <1>3 DEF Built, LoadHeld
  <2>2. InsertsDone
    BY <2>1 DEF Load, Use, FromSorted, LoadNothing, LoadLeaf, LoadInternal, Pack,
                RaiseLevel, Raise, LoadDone, InsertNext, load, loadVars
  <2>3. Inserting
    BY <2>1, PhaseOfLoads DEF Loads
  <2>4. Stays
    BY <1>1, <2>1, <2>2, PairsStay DEF InsertsDone, vars
  <2>5. input \in Seq(Entry) /\ Len(input) \in Nat
    BY <2>3, EntryLists DEF Inserting
  <2>6. pc = "idle" /\ Out = Len(input)
    BY <2>2, <2>5, EmptySeq DEF InsertsDone, Out
  <2> HIDE DEF Contents
  <2>7. Contents = Prefix(input, Len(input))
    BY <2>1, <2>6 DEF Inserted
  <2> QED
    BY <2>4, <2>5, <2>7, AllEntries DEF Stays
<1> QED
  BY <1>2, <1>3

(* from_sorted and bulk_load give back exactly the entries they were given, *)
(* the last one of each key, whichever way they go (tree.rs:106-108).       *)
THEOREM LoadExactTheorem == LoadUseSpec => LoadExact
<1>1. /\ Loads /\ LoadHeld /\ LoadHeld' /\ Inserted /\ [Load \/ Use]_loadVars
      => [phase # "ready" /\ phase' = "ready" => Contents' = MapOf(input)]_loadVars
  BY LoadStepExact
<1> QED
  BY <1>1, LoadsTheorem, LoadHeldAlways, InsertedAlways, PTL DEF LoadUseSpec, LoadExact

-----------------------------------------------------------------------------
(* The bound a node of a load has below is a key under it: its least one.   *)
LEMMA LeastUnder ==
    ASSUME NEW tops, NEW lv, NEW lo, NEW hi, NEW spared, NEW m,
           Forest(store, tops, lv, lo, hi, spared, m)
    PROVE  \A id \in Live(store) : \A b : lo[id] = {b} => b \in KeysUnder[id]
<1> DEFINE L == Live(store)
           Fine(id) == \A b : lo[id] = {b} => b \in KeysUnder[id]
           T == {n \in Nat : \E id \in L : lv[id] = n /\ ~Fine(id)}
<1>1. /\ TreeOK(store, tops, lv) /\ Placed(store, lo, hi, hi)
      /\ \A id \in L : Grown(Fetch(store, id), lo[id], id \in spared, m)
  BY DEF Forest
<1>2. \A id \in L : lv[id] \in Nat
  BY <1>1, TreeFacts
<1> HIDE DEF Fine
<1> SUFFICES ASSUME ~(\A id \in L : Fine(id)) PROVE FALSE
  BY DEF Fine
<1>3. T \in SUBSET Nat /\ T # {}
  BY <1>2
<1>4. PICK n \in T : \A x \in T : n <= x
  BY <1>3, LeastNat
<1>5. PICK id \in L : lv[id] = n /\ ~Fine(id)
  BY <1>4
<1>6. CASE ~Inner(id)
  <2>1. KeysUnder[id] = Range(Node(id).keys)
    BY <1>1, <1>6, KeysUnderDef
  <2>2. lo[id] = {Node(id).keys[1]} /\ KeysLen(Node(id)) \in 1 .. Order - 1
    BY <1>1, <1>6 DEF Grown, Inner, Node
  <2>3. Node(id).keys \in Seq(Key)
    BY <1>1, TreeFacts, NodeCases DEF AnyNode, Node
  <2>4. 1 \in DOMAIN Node(id).keys
    BY <2>2, <2>3, LenProperties DEF KeysLen
  <2>5. Node(id).keys[1] \in Range(Node(id).keys)
    BY <2>4 DEF Range
  <2>6. Fine(id)
    BY <2>1, <2>2, <2>5 DEF Fine
  <2> QED
    BY <1>5, <2>6
<1>7. CASE Inner(id)
  <2> DEFINE p == Fetch(store, id)
             c == p.children[1]
  <2>1. Parented(p, lo[id], hi[id], lo, hi)
    BY <1>1, <1>7, StoreParent DEF Inner, Node
  <2>2. /\ \A x \in NodeKids(p) : x \in L /\ lv[x] + 1 = lv[id]
        /\ Range(Children(id)) = NodeKids(p)
    BY <1>1, <1>7, TreeFacts DEF Kids, NodeKids, Inner, Children, Node
  <2>3. KeysUnder[id] = UNION {KeysUnder[x] : x \in NodeKids(p)}
    BY <1>1, <1>7, <2>2, KeysUnderDef
  <2>4. c \in NodeKids(p) /\ lo[c] = lo[id]
    <3>1. 1 \in 1 .. Len(p.keys) + 1
      BY <2>1, ParentFacts
    <3>2. c \in NodeKids(p) /\ lo[c] = LowOf(p.keys, lo[id], 1)
      BY <2>1, <3>1, ParentFacts
    <3> QED
      BY <3>2 DEF LowOf
  <2> HIDE DEF p, c
  <2>5. Fine(c)
    <3> DEFINE q == lv[c]
    <3>1. q \in Nat /\ q + 1 = n /\ n \in Nat
      BY <1>2, <1>4, <1>5, <2>2, <2>4
    <3> HIDE DEF q
    <3>2. ~(n <= q)
      BY <3>1
    <3>3. q \notin T
      BY <1>4, <3>2
    <3> QED
      BY <2>2, <2>4, <3>1, <3>3 DEF q
  <2>6. Fine(id)
    BY <2>3, <2>4, <2>5 DEF Fine
  <2> QED
    BY <1>5, <2>6
<1> QED
  BY <1>6, <1>7

(* Nodes in a row, each with a least key, and its keys below those of its   *)
(* right neighbour.                                                         *)
InARow(nodes) ==
    \A i \in DOMAIN nodes :
        /\ nodes[i].min \in KeysUnder[nodes[i].id]
        /\ \A k \in KeysUnder[nodes[i].id] :
              nodes[i].min <= k /\ (i < Len(nodes) => k < nodes[i + 1].min)

(* The same of the ranges they own.                                         *)
Adjoin(nodes, lo, hi) ==
    \A i \in 1 .. Len(nodes) :
        /\ nodes[i].id \in Live(store)
        /\ lo[nodes[i].id] = {nodes[i].min}
        /\ i < Len(nodes) => hi[nodes[i].id] = {nodes[i + 1].min}

(* Nodes whose ranges adjoin are in a row, keys and all.                    *)
LEMMA NodesInARow ==
    ASSUME NEW tops, NEW lv, NEW lo, NEW hi, NEW spared, NEW m,
           Forest(store, tops, lv, lo, hi, spared, m),
           NEW nodes \in Seq(Waiting), Adjoin(nodes, lo, hi)
    PROVE  InARow(nodes)
<1>1. TreeOK(store, tops, lv) /\ Placed(store, lo, hi, hi)
  BY DEF Forest
<1>2. \A x \in Live(store) : \A k \in KeysUnder[x] : InRange(k, lo[x], hi[x])
  BY <1>1, KeysWithin
<1>3. \A x \in Live(store) : \A b : lo[x] = {b} => b \in KeysUnder[x]
  BY LeastUnder
<1>4. DOMAIN nodes = 1 .. Len(nodes)
  BY LenProperties
<1>5. ASSUME NEW i \in 1 .. Len(nodes)
      PROVE  /\ nodes[i].min \in KeysUnder[nodes[i].id]
             /\ \A k \in KeysUnder[nodes[i].id] :
                   nodes[i].min <= k /\ (i < Len(nodes) => k < nodes[i + 1].min)
  <2> DEFINE x == nodes[i].id
             b == nodes[i].min
             c == nodes[i + 1].min
  <2>1. x \in Live(store) /\ lo[x] = {b} /\ (i < Len(nodes) => hi[x] = {c})
    BY DEF Adjoin
  <2> HIDE DEF x, b, c
  <2>2. b \in KeysUnder[x]
    BY <1>3, <2>1
  <2>3. ASSUME NEW k \in KeysUnder[x] PROVE b <= k /\ (i < Len(nodes) => k < c)
    <3>1. InRange(k, lo[x], hi[x])
      BY <1>2, <2>1
    <3> QED
      BY <2>1, <3>1 DEF InRange
  <2> QED
    BY <2>2, <2>3 DEF x, b, c
<1> QED
  BY <1>4, <1>5 DEF InARow

(* The nodes packed so far, with or without the last of their level.        *)
LEMMA AboveInARow ==
    ASSUME NEW tops, NEW lv, NEW lo, NEW hi, NEW spared, NEW m,
           Forest(store, tops, lv, lo, hi, spared, m),
           Members(above, 1, Len(above)) \subseteq tops,
           NEW marks \in Seq(Key), marks # <<>>, NEW max \in Nat \ {0},
           PackedSoFar(above, marks, max, lo, hi)
    PROVE  InARow(above)
<1> DEFINE n == Len(marks)
<1>1. /\ above \in Seq(Waiting) /\ Len(above) \in Nat
      /\ Len(above) <= Chunks(n, max)
      /\ \A i \in 1 .. Len(above) : /\ above[i].min = marks[First(n, max, i)]
                                    /\ lo[above[i].id] = {above[i].min}
                                    /\ hi[above[i].id] = After(marks, Taken(n, max, i))
  BY LenProperties DEF PackedSoFar
<1>2. n \in Nat \ {0}
  BY EmptySeq, LenProperties
<1>3. Chunks(n, max) \in Nat \ {0}
  BY <1>2, ChunksLeast
<1>4. ASSUME NEW i \in 1 .. Len(above), i < Len(above)
      PROVE  hi[above[i].id] = {above[i + 1].min}
  <2> DEFINE a == First(n, max, i)
             b == Taken(n, max, i)
  <2>1. i \in 1 .. Chunks(n, max) /\ i < Chunks(n, max) /\ i + 1 \in 1 .. Chunks(n, max)
        /\ i + 1 \in 1 .. Len(above)
    BY <1>1, <1>3, <1>4
  <2>2. Stretch(n, max, i, a, b)
    BY <1>2, <2>1 DEF Stretch
  <2>3. b < n /\ First(n, max, i + 1) = b + 1
    BY <2>1, <2>2, StretchBounds
  <2>4. After(marks, b) = {marks[b + 1]}
    BY <2>3 DEF After
  <2> QED
    BY <1>1, <2>1, <2>3, <2>4
<1>5. \A i \in 1 .. Len(above) : above[i].id \in Live(store)
  <2>1. tops \subseteq Live(store)
    BY DEF Forest, TreeOK, Linked
  <2> QED
    BY <2>1 DEF Members
<1>6. Adjoin(above, lo, hi)
  BY <1>1, <1>4, <1>5 DEF Adjoin
<1> QED
  BY <1>1, <1>6, NodesInARow

(* The nodes of a complete level are in a row.                              *)
LEMMA LevelInARow ==
    ASSUME NEW lv, NEW lo, NEW hi, NEW h, LevelsBuilt(lv, lo, hi, h)
    PROVE  InARow(level)
<1> DEFINE tops == Members(above, 1, Len(above)) \cup Unlinked
<1>1. /\ Row(level, lo, hi) /\ Members(level, 1, Len(level)) \subseteq Live(store)
      /\ Forest(store, tops, lv, lo, hi, Small, input[1][1])
  BY DEF LevelsBuilt
<1>2. /\ level \in Seq(Waiting) /\ Len(Mins(level)) = Len(level) /\ Len(level) \in Nat
      /\ \A i \in 1 .. Len(level) : Mins(level)[i] = level[i].min
  BY <1>1, NodeLists DEF Row
<1>3. ASSUME NEW i \in 1 .. Len(level)
      PROVE  /\ level[i].id \in Live(store)
             /\ lo[level[i].id] = {level[i].min}
             /\ i < Len(level) => hi[level[i].id] = {level[i + 1].min}
  <2>1. level[i].id \in Live(store)
    BY <1>1 DEF Members
  <2>2. lo[level[i].id] = {level[i].min} /\ hi[level[i].id] = After(Mins(level), i)
    BY <1>1 DEF Row
  <2>3. i < Len(level) => After(Mins(level), i) = {level[i + 1].min}
    <3>1. i < Len(level) => i + 1 \in 1 .. Len(level)
      BY <1>2
    <3> QED
      BY <1>2, <3>1 DEF After
  <2> QED
    BY <2>1, <2>2, <2>3
<1>4. Adjoin(level, lo, hi)
  BY <1>3 DEF Adjoin
<1> DEFINE m == input[1][1]
           spared == Small
<1>5. Forest(store, tops, lv, lo, hi, spared, m)
  BY <1>1
<1> HIDE DEF tops, m, spared
<1> QED
  BY <1>2, <1>4, <1>5, NodesInARow

(* Hence in all phases both lists are.                                      *)
LEMMA LevelsInARow ==
    ASSUME Loads
    PROVE  InARow(above) /\ (phase = "levels" => InARow(level))
<1>1. CASE Packing
  <2>1. PICK lv, lo, hi : LeavesBuilt(lv, lo, hi)
    BY <1>1 DEF Packing
  <2> DEFINE tops == Members(above, 1, Len(above))
             spared == Alone(above, Len(input), Order - 1)
             m == input[1][1]
  <2>2. /\ Given /\ phase = "leaves"
        /\ Forest(store, tops, lv, lo, hi, spared, m)
        /\ PackedSoFar(above, Firsts(input), Order - 1, lo, hi)
    BY <2>1 DEF LeavesBuilt
  <2>3. Firsts(input) \in Seq(Key) /\ Firsts(input) # <<>> /\ Order - 1 \in Nat \ {0}
    BY <2>2, EntryLists, EmptySeq, OrderAssumption DEF Given
  <2> HIDE DEF spared, m
  <2>4. InARow(above)
    BY <2>2, <2>3, AboveInARow
  <2> QED
    BY <2>2, <2>4
<1>2. CASE Raising
  <2>1. PICK lv, lo, hi, h : LevelsBuilt(lv, lo, hi, h)
    BY <1>2 DEF Raising
  <2> DEFINE tops == Members(above, 1, Len(above)) \cup Unlinked
             m == input[1][1]
  <2>2. /\ level # <<>> /\ Row(level, lo, hi)
        /\ Forest(store, tops, lv, lo, hi, Small, m)
        /\ PackedSoFar(above, Mins(level), Order, lo, hi)
    BY <2>1 DEF LevelsBuilt
  <2>3. Mins(level) \in Seq(Key) /\ Mins(level) # <<>> /\ Order \in Nat \ {0}
    BY <2>2, NodeLists, EmptySeq, OrderAssumption DEF Row
  <2>4. Members(above, 1, Len(above)) \subseteq tops
    OBVIOUS
  <2> HIDE DEF tops, m
  <2>5. InARow(above)
    BY <2>2, <2>3, <2>4, AboveInARow
  <2> QED
    BY <2>1, <2>5, LevelInARow
<1>3. CASE ~Packing /\ ~Raising
  <2>1. above = <<>> /\ phase # "levels"
    BY <1>3, PhaseOfLoads DEF Loads, Started, Emptied, Inserting, Usable
  <2>2. DOMAIN <<>> = {}
    BY EmptySeq
  <2> QED
    BY <2>1, <2>2 DEF InARow
<1> QED
  BY <1>1, <1>2, <1>3

(* Each node of a level under construction is paired with the least key     *)
(* below it, and the levels are in order, so that least keys are right for  *)
(* separators (ops.rs:503-525).                                             *)
THEOREM LevelsOrderedTheorem == LoadUseSpec => []LevelsOrdered
<1>1. Loads => LevelsOrdered
  BY LevelsInARow DEF LevelsOrdered, InARow
<1> QED
  BY <1>1, LoadsTheorem, PTL

-----------------------------------------------------------------------------
(* Loads come to their end, and in linear time when they pack.              *)

Less == PackingLeft' \in 0 .. PackingLeft - 1

(* A level has at most as many chunks as items, at most half as many and    *)
(* one of them half filled if chunks are of two or more, and less than two  *)
(* thirds if they are of three or more and there are two items.             *)
LEMMA FewChunks ==
    ASSUME NEW total \in Nat \ {0}, NEW max \in Nat \ {0, 1}
    PROVE  LET c == Chunks(total, max)
           IN  /\ c \in Nat /\ c <= total
               /\ 2 * c <= total + 1
               /\ max >= 3 /\ total >= 2 => 3 * c < 2 * total
<1> DEFINE c == Chunks(total, max)
<1>1. c \in Nat \ {0} /\ (c - 1) * max < total
  BY ChunksLeast
<1> HIDE DEF c
<1>2. PICK d \in Nat : c = d + 1
  BY <1>1
<1>3. d * max < total /\ d * max \in Nat
  BY <1>1, <1>2, Z3
<1>4. d * 2 <= d * max /\ (max >= 3 => d * 3 <= d * max)
  BY Monotone
<1>5. PICK p \in Nat : p = d * max
  BY <1>3
<1>6. 2 * d < total /\ (max >= 3 => 3 * d < total)
  BY <1>3, <1>4, <1>5
<1> QED
  BY <1>2, <1>6 DEF c

(* Another node packed, with chunks left to pack.                           *)
LEMMA PackLess ==
    ASSUME NEW node, NEW min, Pack(node, min), phase \in {"leaves", "levels"},
           Len(level) \in Nat \ {0}, above \in Seq(Waiting),
           NEW max \in Nat \ {0, 1}, Len(above) < Chunks(Len(level), max)
    PROVE  Less
<1>1. phase' = phase /\ level' = level /\ Len(above') = Len(above) + 1 /\ Len(above) \in Nat
  BY AppendProperties, LenProperties DEF Pack
<1>2. Chunks(Len(level), max) \in Nat /\ Chunks(Len(level), max) <= Len(level)
  BY FewChunks
<1>3. PICK n \in Nat, a \in Nat, c \in Nat :
         n = Len(level) /\ a = Len(above) /\ c = Chunks(Len(level), max)
  BY <1>1, <1>2
<1>4. PICK b \in {0, 2} : PackingLeft = 2 * n - a + b /\ PackingLeft' = 2 * n - (a + 1) + b
  BY <1>1, <1>3 DEF PackingLeft
<1>5. a < c /\ c <= n
  BY <1>2, <1>3
<1> HIDE DEF PackingLeft
<1> QED
  BY <1>4, <1>5 DEF Less

(* The next level, which is paid for by the one below it.                   *)
LEMMA RaiseLess ==
    ASSUME NEW max \in Nat \ {0, 1}, Raise(max), Len(level) \in Nat \ {0},
           \/ phase = "leaves"
           \/ phase = "levels" /\ max >= 3 /\ Len(level) > 1
    PROVE  Less
<1>1. /\ phase' = "levels" /\ level' = above /\ above' = <<>>
      /\ Len(above) = Chunks(Len(level), max)
  BY DEF Raise
<1>2. PICK n \in Nat, c \in Nat : /\ n = Len(level) /\ c = Len(above)
                                  /\ 2 * c <= n + 1 /\ c <= n
                                  /\ max >= 3 /\ n >= 2 => 3 * c < 2 * n
  BY <1>1, FewChunks
<1>3. PackingLeft' = 2 * c - 0
  BY <1>1, <1>2, EmptySeq DEF PackingLeft
<1>4. CASE phase = "leaves"
  <2>1. PackingLeft = 2 * n - c + 2
    BY <1>2, <1>4 DEF PackingLeft
  <2> HIDE DEF PackingLeft
  <2> QED
    BY <1>2, <1>3, <2>1 DEF Less
<1>5. CASE phase = "levels" /\ max >= 3 /\ Len(level) > 1
  <2>1. PackingLeft = 2 * n - c
    BY <1>2, <1>5 DEF PackingLeft
  <2>2. 3 * c < 2 * n
    BY <1>2, <1>5
  <2> HIDE DEF PackingLeft
  <2> QED
    BY <1>3, <2>1, <2>2 DEF Less
<1> QED
  BY <1>4, <1>5

(* All steps of a load that packs.                                          *)
LEMMA PackingLess ==
    ASSUME Loads, Load, phase \in {"leaves", "levels"}
    PROVE  Less
<1>1. Order - 1 \in Nat \ {0, 1} /\ Order \in Nat \ {0, 1} /\ Order >= 3
  BY OrderAssumption
<1>2. CASE Emptied
  <2>1. phase = "leaves" /\ Len(level) = 0 /\ Len(above) = 0 /\ input = <<>>
    BY <1>2, EmptySeq DEF Emptied
  <2>2. Chunks(0, Order - 1) = 0
    BY <1>1, NoChunks
  <2>3. LoadNothing
    BY <2>1, <2>2 DEF Load, FromSorted, LoadLeaf, LoadInternal, RaiseLevel, LoadDone,
                      InsertNext, InsertsDone
  <2>4. PackingLeft' = 0
    BY <2>3 DEF LoadNothing, Ready, PackingLeft
  <2>5. PackingLeft = 2
    BY <2>1 DEF PackingLeft
  <2> QED
    BY <2>4, <2>5 DEF Less
<1>3. CASE Packing
  <2>1. PICK lv, lo, hi : LeavesBuilt(lv, lo, hi)
    BY <1>3 DEF Packing
  <2>2. /\ phase = "leaves" /\ input # <<>> /\ level = input
        /\ input \in Seq(Entry) /\ above \in Seq(Waiting)
    BY <2>1 DEF LeavesBuilt, Given, PackedSoFar
  <2>3. Len(level) \in Nat \ {0}
    BY <2>2, EmptySeq, LenProperties
  <2>4. LoadLeaf \/ Raise(Order - 1)
    BY <2>2 DEF Load, FromSorted, LoadNothing, LoadInternal, RaiseLevel, LoadDone,
                InsertNext, InsertsDone
  <2>5. CASE LoadLeaf
    <3>1. /\ Len(above) < Chunks(Len(level), Order - 1)
          /\ \E node, min : Pack(node, min)
      BY <2>5 DEF LoadLeaf
    <3> QED
      BY <1>1, <2>2, <2>3, <3>1, PackLess
  <2>6. CASE Raise(Order - 1)
    BY <1>1, <2>2, <2>3, <2>6, RaiseLess
  <2> QED
    BY <2>4, <2>5, <2>6
<1>4. CASE Raising
  <2>1. PICK lv, lo, hi, h : LevelsBuilt(lv, lo, hi, h)
    BY <1>4 DEF Raising
  <2>2. /\ phase = "levels" /\ level # <<>> /\ level \in Seq(Waiting)
        /\ above \in Seq(Waiting) /\ (Len(level) = 1 => above = <<>>)
    BY <2>1 DEF LevelsBuilt, Row, PackedSoFar
  <2>3. Len(level) \in Nat \ {0}
    BY <2>2, EmptySeq, LenProperties
  <2>4. LoadInternal \/ (Raise(Order) /\ Len(level) > 1) \/ LoadDone
    BY <2>2 DEF Load, FromSorted, LoadNothing, LoadLeaf, RaiseLevel, InsertNext, InsertsDone
  <2>5. CASE LoadInternal
    <3>1. /\ Len(above) < Chunks(Len(level), Order)
          /\ \E node, min : Pack(node, min)
      BY <2>5 DEF LoadInternal
    <3> QED
      BY <1>1, <2>2, <2>3, <3>1, PackLess
  <2>6. CASE Raise(Order) /\ Len(level) > 1
    BY <1>1, <2>2, <2>3, <2>6, RaiseLess
  <2>7. CASE LoadDone
    <3>1. PackingLeft' = 0 /\ Len(level) = 1
      BY <2>7 DEF LoadDone, Ready, PackingLeft
    <3>2. PackingLeft = 2
      BY <2>2, <3>1, EmptySeq DEF PackingLeft
    <3> QED
      BY <3>1, <3>2 DEF Less
  <2> QED
    BY <2>4, <2>5, <2>6, <2>7
<1> QED
  BY <1>2, <1>3, <1>4, PhaseOfLoads DEF Loads

(* An insertion more, or a step of one.                                     *)
LEMMA InsertingLess ==
    ASSUME Inserting, Load, phase' = "inserts"
    PROVE  \/ Len(level') < Len(level)
           \/ level' = level /\ Effort' < Effort
<1>1. phase = "inserts" /\ level \in Seq(Entry)
  BY DEF Inserting
<1>2. InsertNext \/ (Step /\ UNCHANGED load)
  BY <1>1 DEF Load, FromSorted, LoadNothing, LoadLeaf, LoadInternal, RaiseLevel, LoadDone,
              InsertsDone, Ready
<1>3. CASE InsertNext
  <2>1. level # <<>> /\ level' = Tail(level)
    BY <1>3 DEF InsertNext
  <2>2. Len(level) \in Nat \ {0} /\ Len(level') = Len(level) - 1
    BY <1>1, <2>1, EmptySeq, HeadTailProperties, LenProperties
  <2> QED
    BY <2>2
<1>4. CASE Step /\ UNCHANGED load
  <2>1. PICK lv : Inductive(lv)
    BY DEF Inserting, Filled, Structure
  <2>2. Shrinks
    BY <1>4, <2>1, StepShrinks
  <2> QED
    BY <1>4, <2>2 DEF load, Shrinks
<1> QED
  BY <1>2, <1>3, <1>4

(* from_sorted packs n ascending entries in at most 2n + 2 turns of its     *)
(* loops (docs/API.md:694, ops.rs:480-530), for any order, and inserts any  *)
(* others one by one, each in finitely many steps.                          *)
THEOREM LoadLinearTheorem == LoadUseSpec => LoadLinear
<1> DEFINE Bounded ==
       /\ phase = "new" => PackingLeft' <= 2 * Len(input') + 2
       /\ phase \in {"leaves", "levels"} => PackingLeft' \in 0 .. PackingLeft - 1
       /\ phase = "inserts" /\ phase' = "inserts" =>
             \/ Len(level') < Len(level)
             \/ level' = level /\ Effort' < Effort
<1>1. ASSUME Loads, Load \/ Use PROVE Bounded
  <2>1. Use => phase = "ready"
    BY DEF Use
  <2>2. ASSUME phase = "new" PROVE PackingLeft' <= 2 * Len(input') + 2
    <3>1. PICK es \in Input : FromSorted(es)
      BY <1>1, <2>1, <2>2 DEF Load, LoadNothing, LoadLeaf, LoadInternal, RaiseLevel,
                              LoadDone, InsertNext, InsertsDone
    <3>2. above = <<>>
      BY <1>1, <2>2, PhaseOfLoads DEF Loads, Started
    <3>3. /\ Len(input') \in Nat /\ level' = input' /\ Len(above') = 0
          /\ phase' \in {"leaves", "inserts"}
      BY <3>1, <3>2, InputAssumption, LenProperties, EmptySeq DEF FromSorted
    <3>4. PackingLeft' = 2 * Len(input') - 0 + 2 \/ PackingLeft' = 0
      BY <3>3 DEF PackingLeft
    <3> HIDE DEF PackingLeft
    <3> QED
      BY <3>3, <3>4
  <2>3. ASSUME phase \in {"leaves", "levels"} PROVE Less
    BY <1>1, <2>1, <2>3, PackingLess
  <2>4. ASSUME phase = "inserts", phase' = "inserts"
        PROVE  \/ Len(level') < Len(level)
               \/ level' = level /\ Effort' < Effort
    <3>1. Inserting
      BY <1>1, <2>4, PhaseOfLoads DEF Loads
    <3> QED
      BY <1>1, <2>1, <2>4, <3>1, InsertingLess
  <2> QED
    BY <2>2, <2>3, <2>4 DEF Less
<1>2. ASSUME Loads, [Load \/ Use]_loadVars PROVE [Bounded]_loadVars
  <2> HIDE DEF Bounded
  <2> QED
    BY <1>1, <1>2
<1> QED
  BY <1>2, LoadsTheorem, PTL DEF LoadUseSpec, LoadLinear
=============================================================================
