--------------------------- MODULE CursorsProofs ---------------------------
(* For every order, key and value set and id space, every tree that calls   *)
(* can build and every use of an iterator: both cursors stay on entries,    *)
(* with frames that lead to them, and each can move while they differ       *)
(* (src/src/iter.rs).                                                       *)
EXTENDS Cursors, TreeMapProofs

-----------------------------------------------------------------------------
(* A tree between calls: what an iterator borrows.                          *)
Standing(lv, lo, hi) ==
    /\ Inductive(lv) /\ Ordered(lo, hi, hi) /\ Sized
    /\ pc = "idle"

(* Its nodes, their levels and the ranges they own.                         *)
LEMMA StandingNodes ==
    ASSUME NEW lv, NEW lo, NEW hi, Standing(lv, lo, hi), NEW x \in Live(store)
    PROVE  /\ x \in NodeId /\ lv[x] \in Nat
           /\ Inner(x) <=> lv[x] # 0
           /\ Node(x).keys \in Seq(Key) /\ Len(Node(x).keys) \in Nat
           /\ KeysLen(Node(x)) = Len(Node(x).keys)
           /\ KeysPlaced(Node(x).keys, lo[x], hi[x])
           /\ x # root => Len(Node(x).keys) >= 1
<1>1. TreeOK(store, {root}, lv) /\ Placed(store, lo, hi, hi)
  BY CallFacts DEF Standing, Inductive, Ordered
<1>2. x \in NodeId
  BY CallFacts DEF Standing
<1>3. /\ Fetch(store, x) \in AnyNode /\ lv[x] \in Nat
      /\ IsLeaf(Fetch(store, x)) <=> lv[x] = 0
  BY <1>1, TreeFacts
<1>4. KeysPlaced(Fetch(store, x).keys, lo[x], hi[x])
  BY <1>1 DEF Placed, NodePlaced
<1>5. x # root => KeyCount(store, x) >= 1
  <2>1. 0 \notin Live(store)
    BY StateFacts DEF Standing
  <2>2. EnoughAt(store, root, 0, x)
    BY DEF Standing, Sized, Enough, Owing
  <2>3. x # root => KeyCount(store, x) >= Half - 0
    BY <2>1, <2>2 DEF EnoughAt
  <2>4. KeyCount(store, x) \in Nat
    BY StateFacts DEF Standing
  <2> QED
    BY <2>3, <2>4, HalfFacts
<1> QED
  BY <1>2, <1>3, <1>4, <1>5, NodeCases DEF AnyNode, Inner, Node, KeyCount, KeysLen

(* The children of an inner node and the ranges they own.                   *)
LEMMA StandingChildren ==
    ASSUME NEW lv, NEW lo, NEW hi, Standing(lv, lo, hi), NEW x \in Live(store), Inner(x)
    PROVE  /\ Children(x) \in Seq(NodeId)
           /\ Len(Children(x)) = Len(Node(x).keys) + 1
           /\ \A i \in 1 .. Len(Node(x).keys) + 1 :
                 LET c == Children(x)[i]
                 IN  /\ c \in Live(store) /\ c # root /\ lv[c] + 1 = lv[x]
                     /\ lo[c] = LowOf(Node(x).keys, lo[x], i)
                     /\ hi[c] = HighOf(Node(x).keys, hi[x], i)
<1>1. TreeOK(store, {root}, lv) /\ Placed(store, lo, hi, hi)
  BY CallFacts DEF Standing, Inductive, Ordered
<1>2. Parented(Fetch(store, x), lo[x], hi[x], lo, hi)
  BY <1>1, StoreParent DEF Inner, Node
<1>3. /\ Kids(store, x) \subseteq Live(store) \ {root}
      /\ \A c \in Kids(store, x) : lv[c] + 1 = lv[x]
  BY <1>1, TreeFacts
<1>4. Kids(store, x) = NodeKids(Fetch(store, x))
  BY DEF Kids
<1> QED
  BY <1>2, <1>3, <1>4, ParentFacts DEF Node, Children

(* Its root owns every key.                                                 *)
LEMMA StandingRoot ==
    ASSUME NEW lv, NEW lo, NEW hi, Standing(lv, lo, hi)
    PROVE  root \in Live(store) /\ lo[root] = {} /\ hi[root] = {}
BY CallFacts DEF Standing, Ordered

(* Of any set of nodes one is lowest.                                       *)
LEMMA Lowest ==
    ASSUME NEW lv, NEW lo, NEW hi, Standing(lv, lo, hi),
           NEW B, B \subseteq Live(store), B # {}
    PROVE  \E x \in B : \A y \in B : ~(lv[y] + 1 = lv[x])
<1> DEFINE T == {n \in Nat : \E x \in B : lv[x] = n}
<1>1. \A x \in B : lv[x] \in Nat
  BY StandingNodes
<1>2. T \in SUBSET Nat /\ T # {}
  BY <1>1
<1>3. PICK n \in T : \A m \in T : n <= m
  BY <1>2, LeastNat
<1>4. PICK x \in B : lv[x] = n
  BY <1>3
<1>5. \A y \in B : lv[y] \in Nat /\ n <= lv[y]
  BY <1>1, <1>3
<1>6. \A y \in B : ~(lv[y] + 1 = lv[x])
  BY <1>4, <1>5
<1> QED
  BY <1>6

-----------------------------------------------------------------------------
(* The frames p lead from node n to node x.                                 *)
Route(p, n, x) ==
    /\ p \in Seq(Frame)
    /\ IF p = <<>> THEN x = n ELSE p[1].id = n
    /\ \A j \in 1 .. Len(p) :
          /\ p[j].id \in Live(store) /\ Inner(p[j].id)
          /\ p[j].idx \in 1 .. Len(Children(p[j].id))
          /\ Children(p[j].id)[p[j].idx] = IF j = Len(p) THEN x ELSE p[j + 1].id

(* No frame.                                                                *)
LEMMA NoFrames ==
    ASSUME NEW n
    PROVE  Route(<<>>, n, n)
BY EmptySeq DEF Route

(* One frame.                                                               *)
LEMMA OneFrame ==
    ASSUME NEW n \in Live(store), n \in NodeId, Inner(n), Len(Children(n)) \in Nat,
           NEW i \in 1 .. Len(Children(n)), NEW p, p = <<[id |-> n, idx |-> i]>>
    PROVE  Route(p, n, Children(n)[i])
<1> DEFINE f == [id |-> n, idx |-> i]
<1>1. f \in Frame /\ f.id = n /\ f.idx = i
  BY DEF Frame
<1> HIDE DEF f
<1>2. p \in Seq(Frame) /\ Len(p) = 1 /\ p[1] = f
  BY <1>1 DEF f
<1>3. p # <<>>
  BY <1>2, EmptySeq
<1> QED
  BY <1>1, <1>2, <1>3 DEF Route

(* A route may go on where another ends.                                    *)
LEMMA RouteGoesOn ==
    ASSUME NEW n, NEW y, NEW x, NEW p, Route(p, n, y), NEW q, Route(q, y, x)
    PROVE  Route(p \o q, n, x)
<1> DEFINE a == Len(p)
           b == Len(q)
           s == p \o q
<1>1. p \in Seq(Frame) /\ q \in Seq(Frame) /\ a \in Nat /\ b \in Nat
  BY LenProperties DEF Route
<1>2. /\ s \in Seq(Frame) /\ Len(s) = a + b
      /\ \A j \in 1 .. a + b : s[j] = IF j <= a THEN p[j] ELSE q[j - a]
  BY <1>1, ConcatProperties
<1>3. (p = <<>> <=> a = 0) /\ (q = <<>> <=> b = 0) /\ (s = <<>> <=> a + b = 0)
  <2>1. \A t \in Seq(Frame) : t = <<>> <=> Len(t) = 0
    BY EmptySeq
  <2> QED
    BY <1>1, <1>2, <2>1
<1>4. /\ IF a = 0 THEN y = n ELSE p[1].id = n
      /\ IF b = 0 THEN x = y ELSE q[1].id = y
      /\ \A j \in 1 .. a :
            /\ p[j].id \in Live(store) /\ Inner(p[j].id)
            /\ p[j].idx \in 1 .. Len(Children(p[j].id))
            /\ Children(p[j].id)[p[j].idx] = IF j = a THEN y ELSE p[j + 1].id
      /\ \A j \in 1 .. b :
            /\ q[j].id \in Live(store) /\ Inner(q[j].id)
            /\ q[j].idx \in 1 .. Len(Children(q[j].id))
            /\ Children(q[j].id)[q[j].idx] = IF j = b THEN x ELSE q[j + 1].id
  BY <1>3 DEF Route
<1> HIDE DEF a, b, s
<1>5. IF a + b = 0 THEN x = n ELSE s[1].id = n
  <2>1. CASE a = 0 /\ b = 0
    BY <1>4, <2>1
  <2>2. CASE a = 0 /\ b # 0
    <3>1. 1 \in 1 .. a + b /\ ~(1 <= a) /\ 1 - a = 1 /\ a + b # 0
      BY <1>1, <2>2
    <3> QED
      BY <1>2, <1>4, <2>2, <3>1
  <2>3. CASE a # 0
    <3>1. 1 \in 1 .. a + b /\ 1 <= a /\ a + b # 0
      BY <1>1, <2>3
    <3> QED
      BY <1>2, <1>4, <2>3, <3>1
  <2> QED
    BY <2>1, <2>2, <2>3
<1>6. ASSUME NEW j \in 1 .. a + b
      PROVE  /\ s[j].id \in Live(store) /\ Inner(s[j].id)
             /\ s[j].idx \in 1 .. Len(Children(s[j].id))
             /\ Children(s[j].id)[s[j].idx] = IF j = a + b THEN x ELSE s[j + 1].id
  <2>1. CASE j < a
    <3>1. j \in 1 .. a /\ j + 1 \in 1 .. a + b /\ j <= a /\ j + 1 <= a /\ j # a /\ j # a + b
      BY <1>1, <2>1
    <3> QED
      BY <1>2, <1>4, <3>1
  <2>2. CASE j = a /\ b = 0
    <3>1. j \in 1 .. a /\ j <= a /\ j = a + b
      BY <1>1, <2>2
    <3> QED
      BY <1>2, <1>4, <2>2, <3>1
  <2>3. CASE j = a /\ b # 0
    <3>1. j \in 1 .. a /\ j <= a /\ j # a + b /\ j + 1 \in 1 .. a + b /\ ~(j + 1 <= a) /\ (j + 1) - a = 1
      BY <1>1, <2>3
    <3> QED
      BY <1>2, <1>4, <2>3, <3>1
  <2>4. CASE j > a /\ j < a + b
    <3>1. PICK i : i = j - a
      OBVIOUS
    <3>2. /\ i \in 1 .. b /\ i # b /\ ~(j <= a) /\ j # a + b
          /\ j + 1 \in 1 .. a + b /\ ~(j + 1 <= a) /\ (j + 1) - a = i + 1
      BY <1>1, <2>4, <3>1
    <3>3. s[j] = q[j - a] /\ s[j + 1] = q[(j + 1) - a]
      BY <1>2, <3>2
    <3>4. s[j] = q[i] /\ s[j + 1] = q[i + 1]
      BY <3>1, <3>2, <3>3
    <3> QED
      BY <1>4, <3>2, <3>4
  <2>5. CASE j = a + b /\ b # 0
    <3>1. b \in 1 .. b /\ ~(j <= a) /\ j - a = b
      BY <1>1, <2>5
    <3>2. s[j] = q[b]
      BY <1>2, <3>1
    <3> QED
      BY <1>4, <2>5, <3>1, <3>2
  <2> QED
    BY <1>1, <2>1, <2>2, <2>3, <2>4, <2>5
<1> QED
  BY <1>2, <1>3, <1>5, <1>6 DEF Route, s

(* A route up to its frame j and on through child i there.                  *)
LEMMA RouteTurns ==
    ASSUME NEW lv, NEW lo, NEW hi, Standing(lv, lo, hi),
           NEW p, NEW n, NEW x, Route(p, n, x), NEW j \in 1 .. Len(p),
           NEW i \in 1 .. Len(Children(p[j].id)),
           NEW f, f = [p[j] EXCEPT !.idx = i]
    PROVE  /\ f \in Frame /\ f.id = p[j].id /\ f.idx = i
           /\ Route(Append(SubSeq(p, 1, j - 1), f), n, Children(p[j].id)[i])
<1> DEFINE a == Len(p)
           m == p[j].id
           q == SubSeq(p, 1, j - 1)
<1>1. p \in Seq(Frame) /\ a \in Nat /\ p[j] \in Frame /\ j \in 1 .. a
  BY ElementOfSeq, LenProperties DEF Route
<1>2. m \in Live(store) /\ m \in NodeId /\ Inner(m)
  BY <1>1 DEF Route, Frame
<1>3. Len(Children(m)) \in Nat
  BY <1>2, StandingChildren, LenProperties
<1>4. f \in Frame /\ f.id = m /\ f.idx = i /\ f = [id |-> m, idx |-> i]
  BY <1>1 DEF Frame
<1>5. /\ q \in Seq(Frame) /\ Len(q) = j - 1 /\ j - 1 \in Nat
      /\ \A k \in 1 .. j - 1 : q[k] = p[k]
  <2>1. j - 1 \in 0 .. a /\ j - 1 \in Nat
    BY <1>1
  <2>2. PICK z : z = j - 1
    OBVIOUS
  <2>3. z \in 0 .. Len(p) /\ z \in Nat
    BY <2>1, <2>2
  <2>4. /\ SubSeq(p, 1, z) \in Seq(Frame) /\ Len(SubSeq(p, 1, z)) = z
        /\ \A k \in 1 .. z : SubSeq(p, 1, z)[k] = p[k]
    BY <1>1, <2>3, HalvesProperties
  <2> QED
    BY <2>2, <2>3, <2>4
<1>6. Route(q, n, m)
  <2>1. /\ IF a = 0 THEN x = n ELSE p[1].id = n
        /\ \A k \in 1 .. a :
              /\ p[k].id \in Live(store) /\ Inner(p[k].id)
              /\ p[k].idx \in 1 .. Len(Children(p[k].id))
              /\ Children(p[k].id)[p[k].idx] = IF k = a THEN x ELSE p[k + 1].id
    BY <1>1, EmptySeq DEF Route
  <2>2. q = <<>> <=> j - 1 = 0
    BY <1>5, EmptySeq
  <2> HIDE DEF q, a
  <2>3. IF j - 1 = 0 THEN m = n ELSE q[1].id = n
    <3>1. CASE j = 1
      BY <1>1, <2>1, <3>1
    <3>2. CASE j # 1
      <4>1. 1 \in 1 .. j - 1 /\ a # 0 /\ j - 1 # 0
        BY <1>1, <3>2
      <4> QED
        BY <1>5, <2>1, <4>1
    <3> QED
      BY <3>1, <3>2
  <2>4. ASSUME NEW k \in 1 .. j - 1
        PROVE  /\ q[k].id \in Live(store) /\ Inner(q[k].id)
               /\ q[k].idx \in 1 .. Len(Children(q[k].id))
               /\ Children(q[k].id)[q[k].idx] = IF k = j - 1 THEN m ELSE q[k + 1].id
    <3>1. k \in 1 .. a /\ k # a /\ q[k] = p[k]
      BY <1>1, <1>5
    <3>2. k = j - 1 => k + 1 = j
      BY <1>1
    <3>3. k # j - 1 => k + 1 \in 1 .. j - 1
      BY <1>1
    <3>4. IF k = j - 1 THEN p[k + 1].id = m ELSE q[k + 1] = p[k + 1]
      BY <1>5, <3>2, <3>3
    <3> QED
      BY <2>1, <3>1, <3>4
  <2> QED
    BY <1>5, <2>2, <2>3, <2>4 DEF Route
<1>7. Route(<<f>>, m, Children(m)[i])
  BY <1>2, <1>3, <1>4, OneFrame
<1>8. Append(q, f) = q \o <<f>>
  <2>1. q \in Seq(Frame) /\ f \in Frame
    BY <1>4, <1>5
  <2> HIDE DEF q
  <2> QED
    BY <2>1, AppendIsConcat
<1>9. Route(q \o <<f>>, n, Children(m)[i])
  <2> HIDE DEF q
  <2> QED
    BY <1>6, <1>7, RouteGoesOn
<1> QED
  BY <1>4, <1>8, <1>9

-----------------------------------------------------------------------------
(* A way down: at each inner node a child to take.                          *)
Turns(turn) == \A n \in InnerNodes : turn[n] \in 1 .. Len(Children(n))

(* The frame the way has at node n, and the child it goes to.               *)
FrameAt(turn, n) == <<[id |-> n, idx |-> turn[n]]>>

ChildAt(turn, n) == Children(n)[turn[n]]

(* The frames s are those of the way from n, which ends at the leaf x.      *)
Goes(turn, s, n, x) ==
    /\ Route(s, n, x)
    /\ x \in Live(store) /\ ~Inner(x)
    /\ \A j \in 1 .. Len(s) : s[j].idx = turn[s[j].id]

(* Each child on the way is one level down.                                 *)
LEMMA WayFacts ==
    ASSUME NEW lv, NEW lo, NEW hi, Standing(lv, lo, hi), NEW turn, Turns(turn),
           NEW n \in Live(store), Inner(n)
    PROVE  /\ n \in NodeId /\ Len(Children(n)) \in Nat
           /\ turn[n] \in 1 .. Len(Children(n))
           /\ ChildAt(turn, n) \in Live(store) /\ ChildAt(turn, n) # root
           /\ lv[ChildAt(turn, n)] + 1 = lv[n]
           /\ lo[ChildAt(turn, n)] = LowOf(Node(n).keys, lo[n], turn[n])
           /\ hi[ChildAt(turn, n)] = HighOf(Node(n).keys, hi[n], turn[n])
           /\ FrameAt(turn, n) \in Seq(Frame)
           /\ Route(FrameAt(turn, n), n, ChildAt(turn, n))
<1>1. n \in NodeId /\ Len(Children(n)) \in Nat /\ turn[n] \in 1 .. Len(Children(n))
  BY StandingNodes, StandingChildren, LenProperties DEF Turns, InnerNodes
<1>2. Route(FrameAt(turn, n), n, ChildAt(turn, n))
  BY <1>1, OneFrame DEF FrameAt, ChildAt
<1>3. /\ ChildAt(turn, n) \in Live(store) /\ ChildAt(turn, n) # root
      /\ lv[ChildAt(turn, n)] + 1 = lv[n]
      /\ lo[ChildAt(turn, n)] = LowOf(Node(n).keys, lo[n], turn[n])
      /\ hi[ChildAt(turn, n)] = HighOf(Node(n).keys, hi[n], turn[n])
  BY <1>1, StandingChildren DEF ChildAt
<1> QED
  BY <1>1, <1>2, <1>3 DEF Route

(* The way from a node begins with its frame,                               *)
LEMMA GoesOn ==
    ASSUME NEW lv, NEW lo, NEW hi, Standing(lv, lo, hi), NEW turn, Turns(turn),
           NEW n \in Live(store), Inner(n), NEW s, NEW x, Goes(turn, s, ChildAt(turn, n), x)
    PROVE  Goes(turn, FrameAt(turn, n) \o s, n, x)
<1> DEFINE t == FrameAt(turn, n) \o s
           f == [id |-> n, idx |-> turn[n]]
<1>1. Route(FrameAt(turn, n), n, ChildAt(turn, n)) /\ Route(s, ChildAt(turn, n), x)
  BY WayFacts DEF Goes
<1>2. Route(t, n, x)
  BY <1>1, RouteGoesOn
<1>3. FrameAt(turn, n) \in Seq(Frame) /\ s \in Seq(Frame)
  BY <1>1 DEF Route
<1>4. Len(FrameAt(turn, n)) = 1 /\ FrameAt(turn, n)[1] = f
  BY DEF FrameAt
<1>5. /\ Len(t) = 1 + Len(s) /\ Len(s) \in Nat
      /\ \A j \in 1 .. 1 + Len(s) : t[j] = IF j <= 1 THEN FrameAt(turn, n)[j] ELSE s[j - 1]
  <2> DEFINE g == FrameAt(turn, n)
  <2>1. g \in Seq(Frame) /\ s \in Seq(Frame) /\ Len(g) = 1 /\ Len(s) \in Nat
    BY <1>3, <1>4, LenProperties
  <2> HIDE DEF g
  <2>2. /\ Len(g \o s) = Len(g) + Len(s)
        /\ \A j \in 1 .. Len(g) + Len(s) :
              (g \o s)[j] = IF j <= Len(g) THEN g[j] ELSE s[j - Len(g)]
    BY <2>1, ConcatProperties
  <2> QED
    BY <2>1, <2>2 DEF g
<1>6. ASSUME NEW j \in 1 .. Len(t) PROVE t[j].idx = turn[t[j].id]
  <2>1. CASE j = 1
    <3>1. t[1] = f
      BY <1>4, <1>5, <2>1
    <3> QED
      BY <2>1, <3>1
  <2>2. CASE j # 1
    <3>1. j - 1 \in 1 .. Len(s) /\ t[j] = s[j - 1]
      BY <1>5, <2>2
    <3>2. \A k \in 1 .. Len(s) : s[k].idx = turn[s[k].id]
      BY DEF Goes
    <3> QED
      BY <3>1, <3>2
  <2> QED
    BY <2>1, <2>2
<1> QED
  BY <1>2, <1>6 DEF Goes

(* A frame is its node and its index.                                       *)
LEMMA SameFrame ==
    ASSUME NEW f \in Frame, NEW g \in Frame, f.id = g.id, f.idx = g.idx
    PROVE  f = g
BY DEF Frame

(* Every node has a way down,                                               *)
LEMMA GoesSomewhere ==
    ASSUME NEW lv, NEW lo, NEW hi, Standing(lv, lo, hi), NEW turn, Turns(turn)
    PROVE  \A n \in Live(store) : \E s, x : Goes(turn, s, n, x)
<1> DEFINE B == {n \in Live(store) : ~ \E s, x : Goes(turn, s, n, x)}
<1> SUFFICES ASSUME B # {} PROVE FALSE
  OBVIOUS
<1>1. PICK n \in B : \A y \in B : ~(lv[y] + 1 = lv[n])
  BY Lowest
<1>2. n \in Live(store) /\ ~ \E s, x : Goes(turn, s, n, x)
  BY <1>1
<1>3. Inner(n)
  <2>1. SUFFICES ASSUME ~Inner(n) PROVE FALSE
    OBVIOUS
  <2>2. Goes(turn, <<>>, n, n)
    BY <1>2, <2>1, NoFrames, EmptySeq DEF Goes
  <2> QED
    BY <1>2, <2>2
<1>4. ChildAt(turn, n) \in Live(store) /\ lv[ChildAt(turn, n)] + 1 = lv[n]
  BY <1>2, <1>3, WayFacts
<1>5. PICK s, x : Goes(turn, s, ChildAt(turn, n), x)
  BY <1>1, <1>4
<1> QED
  BY <1>2, <1>3, <1>5, GoesOn

(* and only one.                                                            *)
LEMMA NoLonger ==
    ASSUME NEW turn, NEW n, NEW s, NEW x, Goes(turn, s, n, x),
           NEW t, NEW y, Goes(turn, t, n, y)
    PROVE  /\ Len(t) <= Len(s)
           /\ \A j \in 1 .. Len(t) : t[j] = s[j]
<1> DEFINE a == Len(s)
           b == Len(t)
<1>1. /\ s \in Seq(Frame) /\ t \in Seq(Frame) /\ a \in Nat /\ b \in Nat
      /\ \A j \in 1 .. a : s[j] \in Frame
      /\ \A j \in 1 .. b : t[j] \in Frame
  BY LenProperties, ElementOfSeq DEF Goes, Route
<1>2. (s = <<>> <=> a = 0) /\ (t = <<>> <=> b = 0)
  BY <1>1, EmptySeq
<1>3. /\ IF a = 0 THEN x = n ELSE s[1].id = n
      /\ IF b = 0 THEN y = n ELSE t[1].id = n
      /\ ~Inner(x)
      /\ \A j \in 1 .. a :
            /\ Inner(s[j].id) /\ s[j].idx = turn[s[j].id]
            /\ Children(s[j].id)[s[j].idx] = IF j = a THEN x ELSE s[j + 1].id
      /\ \A j \in 1 .. b :
            /\ Inner(t[j].id) /\ t[j].idx = turn[t[j].id]
            /\ Children(t[j].id)[t[j].idx] = IF j = b THEN y ELSE t[j + 1].id
  BY <1>2 DEF Goes, Route
<1> HIDE DEF a, b
<1> DEFINE B == {j \in 1 .. b : ~(j <= a /\ t[j] = s[j])}
<1>4. B = {}
  <2> SUFFICES ASSUME B # {} PROVE FALSE
    OBVIOUS
  <2>1. B \in SUBSET Nat
    BY <1>1
  <2>2. PICK j \in B : \A k \in B : j <= k
    BY <2>1, LeastNat
  <2>3. j \in 1 .. b /\ ~(j <= a /\ t[j] = s[j])
    BY <2>2
  <2>4. CASE j = 1
    <3>1. t[1].id = n /\ Inner(n)
      BY <1>1, <1>3, <2>3, <2>4
    <3>2. a # 0
      BY <1>3, <3>1
    <3>3. 1 \in 1 .. a /\ 1 \in 1 .. b /\ 1 <= a
      BY <1>1, <2>3, <2>4, <3>2
    <3>4. s[1].id = t[1].id /\ s[1].idx = t[1].idx
      BY <1>3, <3>1, <3>2, <3>3
    <3>5. t[1] = s[1]
      <4>1. s[1] \in Frame /\ t[1] \in Frame
        BY <1>1, <3>3
      <4> QED
        BY <3>4, <4>1, SameFrame
    <3> QED
      BY <2>3, <2>4, <3>3, <3>5
  <2>5. CASE j # 1
    <3>1. PICK i : i = j - 1
      OBVIOUS
    <3>2. i \in 1 .. b /\ i # b /\ i + 1 = j /\ ~(j <= i)
      BY <1>1, <2>3, <2>5, <3>1
    <3>3. i <= a /\ t[i] = s[i]
      BY <2>2, <3>2
    <3>4. i \in 1 .. a
      BY <1>1, <3>2, <3>3
    <3>5. Children(t[i].id)[t[i].idx] = t[j].id /\ Inner(t[j].id)
      BY <1>3, <2>3, <3>2
    <3>6. i # a
      BY <1>3, <3>3, <3>4, <3>5
    <3>7. j \in 1 .. a /\ j <= a
      BY <1>1, <3>2, <3>4, <3>6
    <3>8. s[j].id = t[j].id
      BY <1>3, <3>2, <3>3, <3>4, <3>5, <3>6
    <3>9. s[j].idx = t[j].idx
      BY <1>3, <2>3, <3>7, <3>8
    <3>10. t[j] = s[j]
      <4>1. s[j] \in Frame /\ t[j] \in Frame
        BY <1>1, <2>3, <3>7
      <4> QED
        BY <3>8, <3>9, <4>1, SameFrame
    <3> QED
      BY <2>3, <3>7, <3>10
  <2> QED
    BY <2>4, <2>5
<1>5. \A j \in 1 .. b : j <= a /\ t[j] = s[j]
  BY <1>4
<1>6. b <= a
  <2>1. b = 0 \/ b \in 1 .. b
    BY <1>1
  <2> QED
    BY <1>1, <1>5, <2>1
<1> QED
  BY <1>5, <1>6 DEF a, b

(* and there is only one.                                                   *)
LEMMA GoesOneWay ==
    ASSUME NEW turn, NEW n, NEW s, NEW x, Goes(turn, s, n, x),
           NEW t, NEW y, Goes(turn, t, n, y)
    PROVE  s = t
<1>1. s \in Seq(Frame) /\ t \in Seq(Frame) /\ Len(s) \in Nat /\ Len(t) \in Nat
  BY LenProperties DEF Goes, Route
<1>2. Len(t) <= Len(s) /\ \A j \in 1 .. Len(t) : t[j] = s[j]
  BY NoLonger
<1>3. Len(s) <= Len(t)
  BY NoLonger
<1>4. Len(s) = Len(t)
  BY <1>1, <1>2, <1>3
<1>5. \A j \in 1 .. Len(s) : s[j] = t[j]
  BY <1>2, <1>4
<1> QED
  BY <1>1, <1>4, <1>5, SeqEqual

(* Way is that way: its recursion has a solution, the frames of the ways.   *)
LEMMA WayDef ==
    ASSUME NEW lv, NEW lo, NEW hi, Standing(lv, lo, hi), NEW turn, Turns(turn)
    PROVE  \E w : /\ \A n \in Live(store) :
                        w[n] = IF Inner(n) THEN FrameAt(turn, n) \o w[ChildAt(turn, n)] ELSE <<>>
                  /\ \A n : Way(turn, n) = w[n]
<1> DEFINE L == Live(store)
           up(f, n) == IF Inner(n) THEN <<[id |-> n, idx |-> turn[n]]>> \o f[Children(n)[turn[n]]]
                                   ELSE <<>>
           Solves(f) == f = [n \in L |-> up(f, n)]
           pick(n) == CHOOSE s : \E x : Goes(turn, s, n, x)
           g == [n \in L |-> pick(n)]
           w == CHOOSE f : Solves(f)
<1>1. \A n : Way(turn, n) = w[n]
  BY DEF Way
<1>2. \A n \in L : \E x : Goes(turn, g[n], n, x)
  BY GoesSomewhere
<1> HIDE DEF pick, g
<1>3. ASSUME NEW n \in L PROVE g[n] = up(g, n)
  <2>1. PICK x : Goes(turn, g[n], n, x)
    BY <1>2
  <2>2. CASE Inner(n)
    <3>1. ChildAt(turn, n) \in L
      BY <2>2, WayFacts
    <3>2. PICK y : Goes(turn, g[ChildAt(turn, n)], ChildAt(turn, n), y)
      BY <1>2, <3>1
    <3>3. Goes(turn, FrameAt(turn, n) \o g[ChildAt(turn, n)], n, y)
      BY <2>2, <3>2, GoesOn
    <3>4. g[n] = FrameAt(turn, n) \o g[ChildAt(turn, n)]
      BY <2>1, <3>3, GoesOneWay
    <3> QED
      BY <2>2, <3>4 DEF FrameAt, ChildAt
  <2>3. CASE ~Inner(n)
    <3>1. Goes(turn, <<>>, n, n)
      BY <2>3, NoFrames, EmptySeq DEF Goes
    <3>2. g[n] = <<>>
      BY <2>1, <3>1, GoesOneWay
    <3> QED
      BY <2>3, <3>2
  <2> QED
    BY <2>2, <2>3
<1>4. Solves(g)
  <2>1. g = [n \in L |-> g[n]]
    BY DEF g
  <2> QED
    BY <1>3, <2>1
<1> HIDE DEF Solves
<1>5. Solves(w)
  BY <1>4
<1> HIDE DEF w
<1>6. \A n \in L : w[n] = up(w, n)
  BY <1>5 DEF Solves
<1>7. \A n \in L : w[n] = IF Inner(n) THEN FrameAt(turn, n) \o w[ChildAt(turn, n)] ELSE <<>>
  BY <1>6 DEF FrameAt, ChildAt
<1> QED
  BY <1>1, <1>7

(* Down a tree by a way that stays among the nodes of G: to a leaf of G.    *)
LEMMA WayLeads ==
    ASSUME NEW lv, NEW lo, NEW hi, Standing(lv, lo, hi), NEW turn, Turns(turn),
           NEW G, G \subseteq Live(store),
           \A y \in G : Inner(y) => ChildAt(turn, y) \in G
    PROVE  \A n \in G : \E x \in G : Goes(turn, Way(turn, n), n, x)
<1>1. PICK w : /\ \A n \in Live(store) :
                    w[n] = IF Inner(n) THEN FrameAt(turn, n) \o w[ChildAt(turn, n)] ELSE <<>>
               /\ \A n : Way(turn, n) = w[n]
  BY WayDef
<1> DEFINE B == {n \in G : ~ \E x \in G : Goes(turn, w[n], n, x)}
<1>2. B = {}
  <2> SUFFICES ASSUME B # {} PROVE FALSE
    OBVIOUS
  <2>1. PICK n \in B : \A y \in B : ~(lv[y] + 1 = lv[n])
    BY Lowest
  <2>2. n \in G /\ n \in Live(store) /\ ~ \E x \in G : Goes(turn, w[n], n, x)
    BY <2>1
  <2>3. CASE ~Inner(n)
    <3>1. w[n] = <<>>
      BY <1>1, <2>2, <2>3
    <3>2. Goes(turn, w[n], n, n)
      BY <2>2, <2>3, <3>1, NoFrames, EmptySeq DEF Goes
    <3> QED
      BY <2>2, <3>2
  <2>4. CASE Inner(n)
    <3>1. ChildAt(turn, n) \in G /\ lv[ChildAt(turn, n)] + 1 = lv[n]
      BY <2>2, <2>4, WayFacts
    <3>2. PICK x \in G : Goes(turn, w[ChildAt(turn, n)], ChildAt(turn, n), x)
      BY <2>1, <3>1
    <3>3. Goes(turn, FrameAt(turn, n) \o w[ChildAt(turn, n)], n, x)
      BY <2>2, <2>4, <3>2, GoesOn
    <3> QED
      BY <1>1, <2>2, <2>4, <3>3
  <2> QED
    BY <2>3, <2>4
<1> QED
  BY <1>1, <1>2

-----------------------------------------------------------------------------
(* A cursor at an index of a leaf, with the frames that lead there.         *)
Cursor == [path : Seq(Frame), leaf : NodeId, idx : Int]

Above(c) == /\ c \in Cursor
            /\ c.leaf \in Leaves
            /\ Route(c.path, root, c.leaf)

(* On an entry, as OnEntry has it.                                          *)
Sits(c) == Above(c) /\ c.idx \in 1 .. KeysLen(Node(c.leaf))

LEMMA SitsOnEntry ==
    ASSUME NEW c, Sits(c)
    PROVE  OnEntry(c)
<1>1. /\ Route(c.path, root, c.leaf) /\ c.leaf \in Leaves
      /\ c.idx \in 1 .. KeysLen(Node(c.leaf))
  BY DEF Sits, Above
<1>2. /\ DOMAIN c.path = 1 .. Len(c.path)
      /\ IF c.path = <<>> THEN c.leaf = root ELSE c.path[1].id = root
  BY <1>1, LenProperties DEF Route
<1>3. ASSUME NEW j \in DOMAIN c.path
      PROVE  LET f == c.path[j]
             IN  /\ Inner(f.id)
                 /\ f.idx \in DOMAIN Children(f.id)
                 /\ Children(f.id)[f.idx] = IF j = Len(c.path) THEN c.leaf ELSE c.path[j + 1].id
  <2>1. /\ c.path[j].id \in Live(store) /\ Inner(c.path[j].id)
        /\ c.path[j].idx \in 1 .. Len(Children(c.path[j].id))
        /\ Children(c.path[j].id)[c.path[j].idx] = IF j = Len(c.path) THEN c.leaf ELSE c.path[j + 1].id
    BY <1>1, <1>2, <1>3 DEF Route
  <2>2. DOMAIN Children(c.path[j].id) = 1 .. Len(Children(c.path[j].id))
    BY <2>1
  <2> QED
    BY <2>1, <2>2
<1> QED
  BY <1>1, <1>2, <1>3 DEF OnEntry

(* Down from the end of a route.                                            *)
LEMMA DownLeads ==
    ASSUME NEW lv, NEW lo, NEW hi, Standing(lv, lo, hi), NEW turn, Turns(turn),
           NEW G, G \subseteq Live(store),
           \A y \in G : Inner(y) => ChildAt(turn, y) \in G,
           NEW n \in G, NEW p, Route(p, root, n)
    PROVE  LET c == Down(p, turn, n)
           IN  Above(c) /\ c.idx = 1 /\ c.leaf \in G
<1> DEFINE way == Way(turn, n)
           leaf == IF way = <<>> THEN n ELSE Children(Last(way).id)[Last(way).idx]
<1>1. PICK x \in G : Goes(turn, way, n, x)
  BY WayLeads
<1> HIDE DEF way
<1>2. Route(p \o way, root, x) /\ p \o way \in Seq(Frame)
  <2>1. Route(way, n, x)
    BY <1>1 DEF Goes
  <2>2. Route(p \o way, root, x)
    BY <2>1, RouteGoesOn
  <2> QED
    BY <2>2 DEF Route
<1>3. leaf = x
  <2>1. CASE way = <<>>
    BY <1>1, <2>1 DEF Goes, Route
  <2>2. CASE way # <<>>
    <3>1. way \in Seq(Frame) /\ Len(way) \in Nat \ {0}
      BY <1>1, <2>2, EmptySeq DEF Goes, Route
    <3>2. Last(way) = way[Len(way)] /\ Len(way) \in 1 .. Len(way)
      BY <3>1 DEF Last
    <3>3. Children(way[Len(way)].id)[way[Len(way)].idx] = x
      BY <1>1, <3>2 DEF Goes, Route
    <3> QED
      BY <2>2, <3>2, <3>3
  <2> QED
    BY <2>1, <2>2
<1>4. x \in Leaves /\ x \in NodeId
  BY <1>1, StandingNodes DEF Leaves, Goes
<1>5. Down(p, turn, n) = [path |-> p \o way, leaf |-> leaf, idx |-> 1]
  BY DEF Down, way
<1> QED
  BY <1>1, <1>2, <1>3, <1>4, <1>5 DEF Above, Cursor

(* Down the left edge: the lower bound stays.                               *)
LEMMA LeftmostLeads ==
    ASSUME NEW lv, NEW lo, NEW hi, Standing(lv, lo, hi),
           NEW n \in Live(store), NEW p, Route(p, root, n)
    PROVE  LET c == DescendLeftmost(p, n)
           IN  /\ Above(c) /\ c.idx = 1
               /\ lo[c.leaf] = lo[n] /\ (n # root => c.leaf # root)
<1> DEFINE turn == [y \in InnerNodes |-> 1]
           G == {y \in Live(store) : lo[y] = lo[n] /\ (n # root => y # root)}
<1>1. Turns(turn)
  <2>1. ASSUME NEW y \in InnerNodes PROVE 1 \in 1 .. Len(Children(y))
    BY StandingChildren, StandingNodes DEF InnerNodes
  <2> QED
    BY <2>1 DEF Turns
<1>2. ASSUME NEW y \in G, Inner(y) PROVE ChildAt(turn, y) \in G
  <2>1. turn[y] = 1
    BY <1>2 DEF InnerNodes
  <2> HIDE DEF turn
  <2>2. /\ ChildAt(turn, y) \in Live(store) /\ ChildAt(turn, y) # root
        /\ lo[ChildAt(turn, y)] = LowOf(Node(y).keys, lo[y], 1)
    BY <1>1, <1>2, <2>1, WayFacts
  <2> QED
    BY <2>2 DEF LowOf
<1>3. n \in G /\ G \subseteq Live(store)
  OBVIOUS
<1> HIDE DEF G, turn
<1>4. LET c == Down(p, turn, n) IN Above(c) /\ c.idx = 1 /\ c.leaf \in G
  BY <1>1, <1>2, <1>3, DownLeads
<1> QED
  BY <1>4 DEF DescendLeftmost, G, turn

(* Down the right edge: the upper bound stays.                              *)
LEMMA RightmostLeads ==
    ASSUME NEW lv, NEW lo, NEW hi, Standing(lv, lo, hi),
           NEW n \in Live(store), NEW p, Route(p, root, n)
    PROVE  LET c == DescendRightmost(p, n)
           IN  /\ Above(c) /\ c.idx = KeysLen(Node(c.leaf))
               /\ hi[c.leaf] = hi[n] /\ (n # root => c.leaf # root)
<1> DEFINE turn == [y \in InnerNodes |-> Len(Children(y))]
           G == {y \in Live(store) : hi[y] = hi[n] /\ (n # root => y # root)}
           d == Down(p, turn, n)
<1>1. Turns(turn)
  <2>1. ASSUME NEW y \in InnerNodes PROVE Len(Children(y)) \in 1 .. Len(Children(y))
    BY StandingChildren, StandingNodes DEF InnerNodes
  <2> QED
    BY <2>1 DEF Turns
<1>2. ASSUME NEW y \in G, Inner(y) PROVE ChildAt(turn, y) \in G
  <2>1. turn[y] = Len(Node(y).keys) + 1
    BY <1>2, StandingChildren DEF InnerNodes
  <2> HIDE DEF turn
  <2>2. /\ ChildAt(turn, y) \in Live(store) /\ ChildAt(turn, y) # root
        /\ hi[ChildAt(turn, y)] = HighOf(Node(y).keys, hi[y], turn[y])
    BY <1>1, <1>2, WayFacts
  <2> QED
    BY <2>1, <2>2 DEF HighOf
<1>3. n \in G /\ G \subseteq Live(store)
  OBVIOUS
<1> HIDE DEF G, turn
<1>4. Above(d) /\ d.leaf \in G
  BY <1>1, <1>2, <1>3, DownLeads
<1>5. DescendRightmost(p, n) = [d EXCEPT !.idx = KeysLen(Node(d.leaf))]
  BY DEF DescendRightmost, d, turn
<1> HIDE DEF d
<1>6. d.leaf \in Live(store)
  BY <1>3, <1>4
<1>7. KeysLen(Node(d.leaf)) \in Int
  BY <1>6, StandingNodes
<1> QED
  BY <1>4, <1>5, <1>7 DEF Above, Cursor, G

(* Down to a key: it lies within the bounds of the leaf.                    *)
LEMMA DescendToLeads ==
    ASSUME NEW lv, NEW lo, NEW hi, Standing(lv, lo, hi), NEW k \in Key
    PROVE  LET c == DescendTo(k)
           IN  /\ Above(c) /\ c.idx = 1
               /\ InRange(k, lo[c.leaf], hi[c.leaf])
<1> DEFINE turn == [y \in InnerNodes |-> ChildIndex(Node(y), k)]
           G == {y \in Live(store) : InRange(k, lo[y], hi[y])}
<1>1. TreeOK(store, {root}, lv) /\ Placed(store, lo, hi, hi)
  BY CallFacts DEF Standing, Inductive, Ordered
<1>2. Turns(turn)
  <2>1. ASSUME NEW y \in InnerNodes
        PROVE  ChildIndex(Node(y), k) \in 1 .. Len(Children(y))
    <3>1. y \in Live(store) /\ ~IsLeaf(Node(y))
      BY DEF InnerNodes, Inner
    <3>2. Node(y) \in AnyNode /\ ShapeOK(Node(y))
      BY <1>1, <3>1, TreeFacts DEF Node
    <3>3. Len(Node(y).children) = KeysLen(Node(y)) + 1
      BY <3>1, <3>2 DEF ShapeOK
    <3> QED
      BY <3>1, <3>2, <3>3, ChildIndexProperties DEF AnyNode, Children
  <2> QED
    BY <2>1 DEF Turns
<1>3. ASSUME NEW y \in G, Inner(y) PROVE ChildAt(turn, y) \in G
  <2>1. ChildAt(turn, y) \in Live(store)
    BY <1>2, <1>3, WayFacts
  <2>2. Parented(Fetch(store, y), lo[y], hi[y], lo, hi)
    BY <1>1, <1>3, StoreParent DEF Inner, Node
  <2>3. LET c == Fetch(store, y).children[ChildIndex(Fetch(store, y), k)]
        IN  InRange(k, lo[c], hi[c])
    BY <1>3, <2>2, ChildOwns
  <2>4. ChildAt(turn, y) = Fetch(store, y).children[ChildIndex(Fetch(store, y), k)]
    BY <1>3 DEF ChildAt, Children, Node, InnerNodes
  <2> QED
    BY <2>1, <2>3, <2>4
<1>4. root \in G /\ G \subseteq Live(store)
  BY StandingRoot DEF InRange
<1>5. Route(<<>>, root, root)
  BY NoFrames
<1> HIDE DEF G, turn
<1>6. LET c == Down(<<>>, turn, root) IN Above(c) /\ c.idx = 1 /\ c.leaf \in G
  BY <1>2, <1>3, <1>4, <1>5, DownLeads
<1> QED
  BY <1>6 DEF DescendTo, G, turn

-----------------------------------------------------------------------------
(* The node a route has come to after k frames.                             *)
NodeAt(p, x, k) == IF k = Len(p) THEN x ELSE p[k + 1].id

(* If the frames after the first j are at the last child, the upper bound   *)
(* is that of the node after j frames;                                      *)
LEMMA HighEdge ==
    ASSUME NEW lv, NEW lo, NEW hi, Standing(lv, lo, hi),
           NEW p, NEW n, NEW x, Route(p, n, x), NEW j \in 0 .. Len(p),
           \A k \in 1 .. Len(p) : k > j => ~(p[k].idx < Len(Children(p[k].id)))
    PROVE  hi[x] = hi[NodeAt(p, x, j)]
<1> DEFINE a == Len(p)
           B == {k \in j .. a : hi[NodeAt(p, x, k)] # hi[NodeAt(p, x, j)]}
<1>1. p \in Seq(Frame) /\ a \in Nat
  BY LenProperties DEF Route
<1>2. \A k \in 1 .. a :
          /\ p[k].id \in Live(store) /\ Inner(p[k].id)
          /\ p[k].idx \in 1 .. Len(Children(p[k].id))
          /\ Children(p[k].id)[p[k].idx] = NodeAt(p, x, k)
          /\ k > j => ~(p[k].idx < Len(Children(p[k].id)))
  BY DEF Route, NodeAt
<1>3. j \in 0 .. a /\ NodeAt(p, x, a) = x
  BY DEF NodeAt
<1>4. B = {}
  <2> SUFFICES ASSUME B # {} PROVE FALSE
    OBVIOUS
  <2>1. B \in SUBSET Nat
    BY <1>1, <1>3
  <2>2. PICK k \in B : \A m \in B : k <= m
    BY <2>1, LeastNat
  <2>3. k # j /\ k \in j .. a
    BY <2>2
  <2>4. PICK m : m = k - 1
    OBVIOUS
  <2>5. /\ m \in j .. a /\ m # a /\ m + 1 = k /\ ~(k <= m)
        /\ k \in 1 .. a /\ k > j
    BY <1>1, <1>3, <2>3, <2>4
  <2>6. hi[NodeAt(p, x, m)] = hi[NodeAt(p, x, j)]
    BY <2>2, <2>5
  <2>7. NodeAt(p, x, m) = p[k].id
    BY <2>5 DEF NodeAt
  <2> DEFINE y == p[k].id
  <2>8. /\ y \in Live(store) /\ Inner(y) /\ p[k].idx \in 1 .. Len(Children(y))
        /\ ~(p[k].idx < Len(Children(y)))
        /\ Children(y)[p[k].idx] = NodeAt(p, x, k)
    BY <1>2, <2>5
  <2> HIDE DEF y
  <2>9. /\ Len(Children(y)) = Len(Node(y).keys) + 1 /\ Len(Node(y).keys) \in Nat
        /\ \A i \in 1 .. Len(Node(y).keys) + 1 :
              hi[Children(y)[i]] = HighOf(Node(y).keys, hi[y], i)
    BY <2>8, StandingNodes, StandingChildren
  <2>10. p[k].idx = Len(Node(y).keys) + 1
    BY <2>8, <2>9
  <2>11. hi[NodeAt(p, x, k)] = HighOf(Node(y).keys, hi[y], Len(Node(y).keys) + 1)
    BY <2>8, <2>9, <2>10
  <2>12. hi[NodeAt(p, x, k)] = hi[y]
    BY <2>11 DEF HighOf
  <2> QED
    BY <2>2, <2>6, <2>7, <2>12 DEF y
<1>5. a \in j .. a
  BY <1>1, <1>3
<1> QED
  BY <1>3, <1>4, <1>5

(* and if they are at the first child, the lower bound is.                  *)
LEMMA LowEdge ==
    ASSUME NEW lv, NEW lo, NEW hi, Standing(lv, lo, hi),
           NEW p, NEW n, NEW x, Route(p, n, x), NEW j \in 0 .. Len(p),
           \A k \in 1 .. Len(p) : k > j => ~(p[k].idx > 1)
    PROVE  lo[x] = lo[NodeAt(p, x, j)]
<1> DEFINE a == Len(p)
           B == {k \in j .. a : lo[NodeAt(p, x, k)] # lo[NodeAt(p, x, j)]}
<1>1. p \in Seq(Frame) /\ a \in Nat
  BY LenProperties DEF Route
<1>2. \A k \in 1 .. a :
          /\ p[k].id \in Live(store) /\ Inner(p[k].id)
          /\ p[k].idx \in 1 .. Len(Children(p[k].id))
          /\ Children(p[k].id)[p[k].idx] = NodeAt(p, x, k)
          /\ k > j => ~(p[k].idx > 1)
  BY DEF Route, NodeAt
<1>3. j \in 0 .. a /\ NodeAt(p, x, a) = x
  BY DEF NodeAt
<1>4. B = {}
  <2> SUFFICES ASSUME B # {} PROVE FALSE
    OBVIOUS
  <2>1. B \in SUBSET Nat
    BY <1>1, <1>3
  <2>2. PICK k \in B : \A m \in B : k <= m
    BY <2>1, LeastNat
  <2>3. k # j /\ k \in j .. a
    BY <2>2
  <2>4. PICK m : m = k - 1
    OBVIOUS
  <2>5. /\ m \in j .. a /\ m # a /\ m + 1 = k /\ ~(k <= m)
        /\ k \in 1 .. a /\ k > j
    BY <1>1, <1>3, <2>3, <2>4
  <2>6. lo[NodeAt(p, x, m)] = lo[NodeAt(p, x, j)]
    BY <2>2, <2>5
  <2>7. NodeAt(p, x, m) = p[k].id
    BY <2>5 DEF NodeAt
  <2> DEFINE y == p[k].id
  <2>8. /\ y \in Live(store) /\ Inner(y) /\ p[k].idx \in 1 .. Len(Children(y))
        /\ ~(p[k].idx > 1)
        /\ Children(y)[p[k].idx] = NodeAt(p, x, k)
    BY <1>2, <2>5
  <2> HIDE DEF y
  <2>9. /\ Len(Children(y)) = Len(Node(y).keys) + 1 /\ Len(Node(y).keys) \in Nat
        /\ \A i \in 1 .. Len(Node(y).keys) + 1 :
              lo[Children(y)[i]] = LowOf(Node(y).keys, lo[y], i)
    BY <2>8, StandingNodes, StandingChildren
  <2>10. p[k].idx = 1 /\ 1 \in 1 .. Len(Node(y).keys) + 1
    BY <2>8, <2>9
  <2>11. lo[NodeAt(p, x, k)] = LowOf(Node(y).keys, lo[y], 1)
    BY <2>8, <2>9, <2>10
  <2>12. lo[NodeAt(p, x, k)] = lo[y]
    BY <2>11 DEF LowOf
  <2> QED
    BY <2>2, <2>6, <2>7, <2>12 DEF y
<1>5. a \in j .. a
  BY <1>1, <1>3
<1> QED
  BY <1>3, <1>4, <1>5

(* The greatest of some numbers up to n.                                    *)
LEMMA Greatest ==
    ASSUME NEW n \in Nat, NEW S, S \subseteq 1 .. n, S # {}
    PROVE  Max(S) \in S /\ \A y \in S : y <= Max(S)
<1> DEFINE T == {m \in Nat : \E x \in S : m = n - x}
<1>1. \A x \in S : n - x \in Nat /\ x \in Int
  OBVIOUS
<1>2. T \in SUBSET Nat /\ T # {}
  BY <1>1
<1>3. PICK m \in T : \A i \in T : m <= i
  BY <1>2, LeastNat
<1>4. PICK x \in S : m = n - x
  BY <1>3
<1>5. \A y \in S : m <= n - y
  BY <1>1, <1>3
<1>6. \A y \in S : x >= y
  BY <1>1, <1>4, <1>5
<1>7. Max(S) \in S /\ \A y \in S : Max(S) >= y
  BY <1>6 DEF Max
<1> QED
  BY <1>1, <1>7
-----------------------------------------------------------------------------
(* The keys of the tree, leaf by leaf.                                      *)
KeyAt(x, j) == Node(x).keys[j]

Spot(x, j) == x \in Leaves /\ j \in 1 .. Len(Node(x).keys)

(* The keys of a leaf ascend, and are none only in the root.                *)
LEMMA LeafKeys ==
    ASSUME NEW lv, NEW lo, NEW hi, Standing(lv, lo, hi), NEW x \in Leaves
    PROVE  /\ x \in Live(store) /\ x \in NodeId /\ lv[x] = 0
           /\ Node(x).keys \in Seq(Key) /\ Ascending(Node(x).keys)
           /\ Len(Node(x).keys) \in Nat /\ KeysLen(Node(x)) = Len(Node(x).keys)
           /\ x # root => Len(Node(x).keys) >= 1
           /\ lo[x] \subseteq Key /\ hi[x] \subseteq Key
<1>1. x \in Live(store) /\ ~Inner(x)
  BY DEF Leaves
<1>2. lo \in [Live(store) -> SUBSET Key] /\ hi \in [Live(store) -> SUBSET Key]
  BY DEF Standing, Ordered, Placed
<1>3. lo[x] \subseteq Key /\ hi[x] \subseteq Key
  BY <1>1, <1>2
<1> QED
  BY <1>1, <1>3, StandingNodes DEF KeysPlaced

(* They lie within its bounds.                                              *)
LEMMA SpotKeys ==
    ASSUME NEW lv, NEW lo, NEW hi, Standing(lv, lo, hi), NEW x, NEW j, Spot(x, j)
    PROVE  /\ KeyAt(x, j) \in Key /\ KeyAt(x, j) \in Int
           /\ \A b \in lo[x] : b \in Int /\ b <= KeyAt(x, j)
           /\ \A b \in hi[x] : b \in Int /\ KeyAt(x, j) < b
           /\ \A i : Spot(x, i) => /\ i < j => KeyAt(x, i) < KeyAt(x, j)
                                   /\ i = j => KeyAt(x, i) = KeyAt(x, j)
                                   /\ j < i => KeyAt(x, j) < KeyAt(x, i)
<1>1. x \in Leaves /\ x \in Live(store) /\ j \in 1 .. Len(Node(x).keys)
  BY DEF Spot, Leaves
<1>2. Node(x).keys \in Seq(Key) /\ KeysPlaced(Node(x).keys, lo[x], hi[x])
  BY <1>1, StandingNodes
<1>3. lo[x] \subseteq Key /\ hi[x] \subseteq Key
  BY <1>1, LeafKeys
<1>4. /\ KeyAt(x, j) \in Key /\ KeyAt(x, j) \in Int
      /\ \A i, k \in 1 .. Len(Node(x).keys) : i < k => KeyAt(x, i) < KeyAt(x, k)
  BY <1>1, <1>2, KeysAreOrdered DEF KeysPlaced, KeyAt
<1>5. InRange(KeyAt(x, j), lo[x], hi[x])
  BY <1>1, <1>2 DEF KeysPlaced, KeyAt
<1>6. Key \subseteq Int
  BY KeyAssumption
<1> QED
  BY <1>1, <1>3, <1>4, <1>5, <1>6 DEF Spot, InRange

(* A key outside a leaf is beyond one of the leaf's bounds.                 *)
LEMMA Outside ==
    ASSUME NEW lv, NEW lo, NEW hi, Standing(lv, lo, hi),
           NEW x \in Leaves, NEW y, NEW i, Spot(y, i), y # x
    PROVE  (\E b \in lo[x] : KeyAt(y, i) < b) \/ (\E b \in hi[x] : b <= KeyAt(y, i))
<1>1. /\ KeyAt(y, i) \in Int /\ KeyAt(y, i) \in Key
      /\ \A b \in lo[y] : b <= KeyAt(y, i)
      /\ \A b \in hi[y] : KeyAt(y, i) < b
  BY SpotKeys
<1>2. /\ x \in Live(store) /\ y \in Live(store) /\ lv[x] = lv[y]
      /\ lo[x] \subseteq Key /\ hi[x] \subseteq Key
  BY LeafKeys DEF Spot
<1>3. InRange(KeyAt(y, i), lo[y], hi[y])
  BY <1>1 DEF InRange
<1>4. Inductive(lv) /\ Ordered(lo, hi, hi)
  BY DEF Standing
<1>5. ~InRange(KeyAt(y, i), lo[x], hi[x])
  BY <1>1, <1>2, <1>3, <1>4, OneOwner
<1>6. (\E b \in lo[x] : ~(b <= KeyAt(y, i))) \/ (\E b \in hi[x] : ~(KeyAt(y, i) < b))
  BY <1>5 DEF InRange
<1>7. \A b \in lo[x] \cup hi[x] :
          /\ ~(b <= KeyAt(y, i)) => KeyAt(y, i) < b
          /\ ~(KeyAt(y, i) < b) => b <= KeyAt(y, i)
  <2>1. \A b \in lo[x] \cup hi[x] : b \in Int
    BY <1>2, KeyAssumption
  <2> QED
    BY <1>1, <2>1
<1> QED
  BY <1>6, <1>7

(* Between the keys of two leaves lies a bound of each.                     *)
LEMMA Elsewhere ==
    ASSUME NEW lv, NEW lo, NEW hi, Standing(lv, lo, hi),
           NEW x, NEW j, Spot(x, j), NEW y, NEW i, Spot(y, i), x # y
    PROVE  /\ KeyAt(x, j) < KeyAt(y, i) => \E b \in hi[x] : b <= KeyAt(y, i)
           /\ KeyAt(y, i) < KeyAt(x, j) => \E b \in lo[x] : KeyAt(y, i) < b
           /\ KeyAt(x, j) # KeyAt(y, i)
<1>1. /\ KeyAt(x, j) \in Int /\ KeyAt(y, i) \in Int
      /\ \A b \in lo[x] : b \in Int /\ b <= KeyAt(x, j)
      /\ \A b \in hi[x] : b \in Int /\ KeyAt(x, j) < b
  BY SpotKeys
<1>2. (\E b \in lo[x] : KeyAt(y, i) < b) \/ (\E b \in hi[x] : b <= KeyAt(y, i))
  BY Outside DEF Spot
<1> QED
  BY <1>1, <1>2

(* Two entries with none between them.                                      *)
Adjacent(x, j, z, m) ==
    /\ KeyAt(x, j) < KeyAt(z, m)
    /\ \A y, i : Spot(y, i) => KeyAt(y, i) <= KeyAt(x, j) \/ KeyAt(z, m) <= KeyAt(y, i)

(* Next to each other in a leaf;                                            *)
LEMMA SideBySide ==
    ASSUME NEW lv, NEW lo, NEW hi, Standing(lv, lo, hi),
           NEW x, NEW j, Spot(x, j), NEW m, m = j + 1, Spot(x, m)
    PROVE  Adjacent(x, j, x, m)
<1>1. /\ KeyAt(x, j) \in Int /\ KeyAt(x, m) \in Int /\ KeyAt(x, j) < KeyAt(x, m)
      /\ \A b \in lo[x] : b \in Int /\ b <= KeyAt(x, j)
      /\ \A b \in hi[x] : b \in Int /\ KeyAt(x, m) < b
  <2>1. j \in Int /\ j < m
    BY DEF Spot
  <2> QED
    BY <2>1, SpotKeys
<1>2. ASSUME NEW y, NEW i, Spot(y, i)
      PROVE  KeyAt(y, i) <= KeyAt(x, j) \/ KeyAt(x, m) <= KeyAt(y, i)
  <2>1. KeyAt(y, i) \in Int
    BY <1>2, SpotKeys
  <2>2. CASE y = x
    <3>1. i \in Int /\ j \in Int /\ (i < j \/ i = j \/ i = m \/ m < i)
      BY <1>2 DEF Spot
    <3>2. /\ i < j => KeyAt(x, i) < KeyAt(x, j)
          /\ m < i => KeyAt(x, m) < KeyAt(x, i)
      BY <1>2, <2>2, SpotKeys
    <3> QED
      BY <1>1, <2>1, <2>2, <3>1, <3>2
  <2>3. CASE y # x
    <3>1. KeyAt(x, j) < KeyAt(y, i) => \E b \in hi[x] : b <= KeyAt(y, i)
      BY <1>2, <2>3, Elsewhere
    <3> QED
      BY <1>1, <2>1, <3>1
  <2> QED
    BY <2>2, <2>3
<1>3. \A y, i : Spot(y, i) => KeyAt(y, i) <= KeyAt(x, j) \/ KeyAt(x, m) <= KeyAt(y, i)
  BY <1>2
<1> QED
  BY <1>1, <1>3 DEF Adjacent

(* or at the two sides of the edge between two leaves.                      *)
LEMMA AcrossEdge ==
    ASSUME NEW lv, NEW lo, NEW hi, Standing(lv, lo, hi),
           NEW x, NEW j, Spot(x, j), j = Len(Node(x).keys), NEW z, Spot(z, 1),
           NEW b, hi[x] = {b}, lo[z] = {b}
    PROVE  Adjacent(x, j, z, 1)
<1>1. /\ KeyAt(x, j) \in Int /\ KeyAt(z, 1) \in Int /\ b \in Int
      /\ KeyAt(x, j) < b /\ b <= KeyAt(z, 1)
  BY SpotKeys
<1>2. ASSUME NEW y, NEW i, Spot(y, i), KeyAt(x, j) < KeyAt(y, i), KeyAt(y, i) < KeyAt(z, 1)
      PROVE  FALSE
  <2>1. KeyAt(y, i) \in Int
    BY <1>2, SpotKeys
  <2>2. y # x
    <3>1. CASE y = x
      <4>1. i \in Int /\ (i < j \/ i = j)
        BY <1>2, <3>1 DEF Spot
      <4>2. KeyAt(y, i) <= KeyAt(x, j)
        BY <1>1, <1>2, <2>1, <3>1, <4>1, SpotKeys
      <4> QED
        BY <1>1, <1>2, <2>1, <4>2
    <3> QED
      BY <3>1
  <2>3. b <= KeyAt(y, i)
    BY <1>2, <2>2, Elsewhere
  <2>4. y # z
    <3>1. CASE y = z
      <4>1. i \in Int /\ (1 < i \/ i = 1)
        BY <1>2, <3>1 DEF Spot
      <4>2. KeyAt(z, 1) <= KeyAt(y, i)
        BY <1>1, <1>2, <2>1, <3>1, <4>1, SpotKeys
      <4> QED
        BY <1>1, <1>2, <2>1, <4>2
    <3> QED
      BY <3>1
  <2>5. KeyAt(y, i) < b
    BY <1>2, <2>4, Elsewhere
  <2> QED
    BY <1>1, <2>1, <2>3, <2>5
<1>3. \A y, i : Spot(y, i) => KeyAt(y, i) \in Int
  BY SpotKeys
<1> QED
  BY <1>1, <1>2, <1>3 DEF Adjacent

(* The last entry of a leaf without an upper bound is the last of all,      *)
LEMMA NoneAfter ==
    ASSUME NEW lv, NEW lo, NEW hi, Standing(lv, lo, hi),
           NEW x, NEW j, Spot(x, j), j = Len(Node(x).keys), hi[x] = {}
    PROVE  \A y, i : Spot(y, i) => KeyAt(y, i) <= KeyAt(x, j)
<1> SUFFICES ASSUME NEW y, NEW i, Spot(y, i) PROVE KeyAt(y, i) <= KeyAt(x, j)
  OBVIOUS
<1>1. KeyAt(x, j) \in Int /\ KeyAt(y, i) \in Int
  BY SpotKeys
<1>2. CASE y = x
  <2>1. i \in Int /\ (i < j \/ i = j)
    BY <1>2 DEF Spot
  <2> QED
    BY <1>1, <1>2, <2>1, SpotKeys
<1>3. CASE y # x
  BY <1>1, <1>3, Elsewhere
<1> QED
  BY <1>2, <1>3

(* and the first entry of one without a lower bound is the first of all.    *)
LEMMA NoneBefore ==
    ASSUME NEW lv, NEW lo, NEW hi, Standing(lv, lo, hi), NEW x, Spot(x, 1), lo[x] = {}
    PROVE  \A y, i : Spot(y, i) => KeyAt(x, 1) <= KeyAt(y, i)
<1> SUFFICES ASSUME NEW y, NEW i, Spot(y, i) PROVE KeyAt(x, 1) <= KeyAt(y, i)
  OBVIOUS
<1>1. KeyAt(x, 1) \in Int /\ KeyAt(y, i) \in Int
  BY SpotKeys
<1>2. CASE y = x
  <2>1. i \in Int /\ (1 < i \/ i = 1)
    BY <1>2 DEF Spot
  <2> QED
    BY <1>1, <1>2, <2>1, SpotKeys
<1>3. CASE y # x
  BY <1>1, <1>3, Elsewhere
<1> QED
  BY <1>2, <1>3

-----------------------------------------------------------------------------
(* What a cursor on an entry points at.                                     *)
LEMMA SitsSpot ==
    ASSUME NEW lv, NEW lo, NEW hi, Standing(lv, lo, hi), NEW c, Sits(c)
    PROVE  /\ Spot(c.leaf, c.idx) /\ CursorKey(c) = KeyAt(c.leaf, c.idx)
           /\ CursorKey(c) \in Int /\ Above(c) /\ c \in Cursor
           /\ c.idx \in 1 .. Len(Node(c.leaf).keys)
           /\ KeysLen(Node(c.leaf)) = Len(Node(c.leaf).keys)
           /\ Len(Node(c.leaf).keys) \in Nat
<1>1. Above(c) /\ c \in Cursor /\ c.leaf \in Leaves /\ c.idx \in 1 .. KeysLen(Node(c.leaf))
  BY DEF Sits, Above
<1>2. KeysLen(Node(c.leaf)) = Len(Node(c.leaf).keys) /\ Len(Node(c.leaf).keys) \in Nat
  BY <1>1, LeafKeys
<1>3. Spot(c.leaf, c.idx)
  BY <1>1, <1>2 DEF Spot
<1>4. CursorKey(c) = KeyAt(c.leaf, c.idx)
  BY DEF CursorKey, KeyAt
<1> QED
  BY <1>1, <1>2, <1>3, <1>4, SpotKeys

(* A cursor moved within its leaf.                                          *)
LEMMA Moved ==
    ASSUME NEW lv, NEW lo, NEW hi, Standing(lv, lo, hi), NEW c, Above(c),
           NEW i \in 1 .. Len(Node(c.leaf).keys), NEW d, d = [c EXCEPT !.idx = i]
    PROVE  Sits(d) /\ d.leaf = c.leaf /\ d.idx = i /\ d.path = c.path
<1>1. c \in Cursor /\ c.leaf \in Leaves /\ Route(c.path, root, c.leaf)
  BY DEF Above
<1>2. KeysLen(Node(c.leaf)) = Len(Node(c.leaf).keys) /\ i \in Int
  BY <1>1, LeafKeys
<1>3. d \in Cursor /\ d.leaf = c.leaf /\ d.idx = i /\ d.path = c.path
  BY <1>1, <1>2 DEF Cursor
<1> QED
  BY <1>1, <1>2, <1>3 DEF Sits, Above

(* The nodes on the way to a cursor.                                        *)
LEMMA RouteNode ==
    ASSUME NEW lv, NEW lo, NEW hi, Standing(lv, lo, hi),
           NEW p, NEW n, NEW x, Route(p, n, x), NEW j \in 1 .. Len(p)
    PROVE  /\ p \in Seq(Frame) /\ Len(p) \in Nat /\ DOMAIN p = 1 .. Len(p)
           /\ p[j] \in Frame /\ p[j].id \in Live(store) /\ Inner(p[j].id)
           /\ p[j].idx \in 1 .. Len(Children(p[j].id))
           /\ Len(Children(p[j].id)) \in Nat
           /\ Children(p[j].id)[p[j].idx] = NodeAt(p, x, j)
<1>1. /\ p \in Seq(Frame)
      /\ p[j].id \in Live(store) /\ Inner(p[j].id)
      /\ p[j].idx \in 1 .. Len(Children(p[j].id))
      /\ Children(p[j].id)[p[j].idx] = NodeAt(p, x, j)
  BY DEF Route, NodeAt
<1>2. Len(p) \in Nat /\ DOMAIN p = 1 .. Len(p) /\ p[j] \in Frame
  BY <1>1, LenProperties, ElementOfSeq
<1>3. Len(Children(p[j].id)) \in Nat
  BY <1>1, StandingNodes, StandingChildren
<1> QED
  BY <1>1, <1>2, <1>3

(* The bound between a child and the next is the lower one's upper bound    *)
(* and the upper one's lower bound.                                         *)
LEMMA Border ==
    ASSUME NEW lv, NEW lo, NEW hi, Standing(lv, lo, hi), NEW x \in Live(store), Inner(x),
           NEW i \in 1 .. Len(Children(x)), NEW k \in 1 .. Len(Children(x)), k = i + 1
    PROVE  /\ Children(x)[i] \in Live(store) /\ Children(x)[i] # root
           /\ Children(x)[k] \in Live(store) /\ Children(x)[k] # root
           /\ hi[Children(x)[i]] = {Node(x).keys[i]}
           /\ lo[Children(x)[k]] = {Node(x).keys[i]}
<1>1. /\ Len(Children(x)) = Len(Node(x).keys) + 1 /\ Len(Node(x).keys) \in Nat
      /\ \A n \in 1 .. Len(Node(x).keys) + 1 :
            /\ Children(x)[n] \in Live(store) /\ Children(x)[n] # root
            /\ lo[Children(x)[n]] = LowOf(Node(x).keys, lo[x], n)
            /\ hi[Children(x)[n]] = HighOf(Node(x).keys, hi[x], n)
  BY StandingNodes, StandingChildren
<1>2. /\ i \in 1 .. Len(Node(x).keys) + 1 /\ i # Len(Node(x).keys) + 1
      /\ k \in 1 .. Len(Node(x).keys) + 1 /\ k # 1 /\ k - 1 = i
  BY <1>1
<1>3. hi[Children(x)[i]] = {Node(x).keys[i]}
  BY <1>1, <1>2 DEF HighOf
<1>4. lo[Children(x)[k]] = {Node(x).keys[i]}
  BY <1>1, <1>2 DEF LowOf
<1> QED
  BY <1>1, <1>2, <1>3, <1>4

(* The frames of c up to the j-th, which is now f, lead to y, and one bound *)
(* lies between y and the leaf that is left.                                *)
TurnsTo(c, j, f, y, near, far) ==
    /\ Children(f.id)[f.idx] = y /\ y \in Live(store) /\ y # root
    /\ Route(Append(SubSeq(c.path, 1, j - 1), f), root, y)
    /\ \E b : near[c.leaf] = {b} /\ far[y] = {b}

(* From the deepest frame with a next child, down to the first entry under  *)
(* that child: the bound between the two leaves is one.                     *)
LEMMA ForwardTurn ==
    ASSUME NEW lv, NEW lo, NEW hi, Standing(lv, lo, hi), NEW c, Above(c), TurnsForward(c) # {},
           NEW j, j = Max(TurnsForward(c))
    PROVE  \E f, y : /\ f = [c.path[j] EXCEPT !.idx = @ + 1]
                     /\ TurnsTo(c, j, f, y, hi, lo)
<1>1. Route(c.path, root, c.leaf)
  BY DEF Above
<1>2. Len(c.path) \in Nat /\ DOMAIN c.path = 1 .. Len(c.path)
  BY <1>1, LenProperties DEF Route
<1> DEFINE S == TurnsForward(c)
<1>3. \A k : k \in S <=> k \in 1 .. Len(c.path) /\ c.path[k].idx < Len(Children(c.path[k].id))
  BY <1>2 DEF TurnsForward
<1> HIDE DEF S
<1>4. j \in S /\ \A y \in S : y <= j
  <2>1. S \subseteq 1 .. Len(c.path)
    BY <1>3
  <2>2. S # {} /\ j = Max(S)
    BY DEF S
  <2> QED
    BY <1>2, <2>1, <2>2, Greatest
<1>5. PICK x, i : x = c.path[j].id /\ i = c.path[j].idx
  OBVIOUS
<1>6. /\ j \in 1 .. Len(c.path) /\ j \in 0 .. Len(c.path) /\ i < Len(Children(x))
      /\ \A k \in 1 .. Len(c.path) : k > j => ~(c.path[k].idx < Len(Children(c.path[k].id)))
  <2>1. j \in 1 .. Len(c.path) /\ i < Len(Children(x))
    BY <1>3, <1>4, <1>5
  <2>2. ASSUME NEW k \in 1 .. Len(c.path), k > j PROVE ~(c.path[k].idx < Len(Children(c.path[k].id)))
    <3>1. k \in S => k <= j
      BY <1>4
    <3>2. ~(k <= j)
      BY <1>2, <2>1, <2>2
    <3> QED
      BY <1>3, <3>1, <3>2
  <2> QED
    BY <1>2, <2>1, <2>2
<1>7. /\ x \in Live(store) /\ Inner(x) /\ i \in 1 .. Len(Children(x))
      /\ Len(Children(x)) \in Nat /\ Children(x)[i] = NodeAt(c.path, c.leaf, j)
  BY <1>1, <1>5, <1>6, RouteNode
<1>8. PICK m : m = i + 1
  OBVIOUS
<1>9. /\ m \in 1 .. Len(Children(x)) /\ Children(x)[m] \in Live(store) /\ Children(x)[m] # root
      /\ \E b : hi[Children(x)[i]] = {b} /\ lo[Children(x)[m]] = {b}
  <2>1. m \in 1 .. Len(Children(x)) /\ m = i + 1
    BY <1>6, <1>7, <1>8
  <2>2. /\ Children(x)[m] \in Live(store) /\ Children(x)[m] # root
        /\ hi[Children(x)[i]] = {Node(x).keys[i]} /\ lo[Children(x)[m]] = {Node(x).keys[i]}
    BY <1>7, <2>1, Border, SMTT(30)
  <2> QED
    BY <2>1, <2>2
<1>10. hi[c.leaf] = hi[Children(x)[i]]
  <2>1. /\ j \in 0 .. Len(c.path)
        /\ \A k \in 1 .. Len(c.path) : k > j => ~(c.path[k].idx < Len(Children(c.path[k].id)))
    BY <1>6
  <2>2. hi[c.leaf] = hi[NodeAt(c.path, c.leaf, j)]
    BY <1>1, <2>1, HighEdge
  <2> QED
    BY <1>7, <2>2
<1>11. PICK f : f = [c.path[j] EXCEPT !.idx = m]
  OBVIOUS
<1>12. /\ f.id = x /\ f.idx = m
       /\ Route(Append(SubSeq(c.path, 1, j - 1), f), root, Children(x)[m])
  <2>1. m \in 1 .. Len(Children(c.path[j].id))
    BY <1>5, <1>9
  <2>2. /\ f.id = c.path[j].id /\ f.idx = m
        /\ Route(Append(SubSeq(c.path, 1, j - 1), f), root, Children(c.path[j].id)[m])
    BY <1>1, <1>6, <1>11, <2>1, RouteTurns
  <2> QED
    BY <1>5, <2>2
<1>13. f = [c.path[j] EXCEPT !.idx = @ + 1]
  BY <1>5, <1>8, <1>11
<1>14. TurnsTo(c, j, f, Children(x)[m], hi, lo)
  BY <1>9, <1>10, <1>12 DEF TurnsTo
<1> QED
  BY <1>13, <1>14

(* Without such a frame the leaf has no upper bound.                        *)
LEMMA ForwardEnd ==
    ASSUME NEW lv, NEW lo, NEW hi, Standing(lv, lo, hi), NEW c, Above(c), TurnsForward(c) = {}
    PROVE  hi[c.leaf] = {}
<1>1. Route(c.path, root, c.leaf)
  BY DEF Above
<1>2. Len(c.path) \in Nat /\ DOMAIN c.path = 1 .. Len(c.path)
  BY <1>1, LenProperties DEF Route
<1>3. \A k \in 1 .. Len(c.path) : k > 0 => ~(c.path[k].idx < Len(Children(c.path[k].id)))
  BY <1>2 DEF TurnsForward
<1>4. hi[c.leaf] = hi[NodeAt(c.path, c.leaf, 0)]
  BY <1>1, <1>2, <1>3, HighEdge
<1>5. NodeAt(c.path, c.leaf, 0) = root
  <2>1. c.path = <<>> <=> Len(c.path) = 0
    BY <1>1, EmptySeq DEF Route
  <2> QED
    BY <1>1, <2>1 DEF Route, NodeAt
<1> QED
  BY <1>4, <1>5, StandingRoot

(* Backward, from the deepest frame with a child before, down to the last   *)
(* entry under it.                                                          *)
LEMMA BackwardTurn ==
    ASSUME NEW lv, NEW lo, NEW hi, Standing(lv, lo, hi), NEW c, Above(c), TurnsBackward(c) # {},
           NEW j, j = Max(TurnsBackward(c))
    PROVE  \E f, y : /\ f = [c.path[j] EXCEPT !.idx = @ - 1]
                     /\ TurnsTo(c, j, f, y, lo, hi)
<1>1. Route(c.path, root, c.leaf)
  BY DEF Above
<1>2. Len(c.path) \in Nat /\ DOMAIN c.path = 1 .. Len(c.path)
  BY <1>1, LenProperties DEF Route
<1> DEFINE S == TurnsBackward(c)
<1>3. \A k : k \in S <=> k \in 1 .. Len(c.path) /\ c.path[k].idx > 1
  BY <1>2 DEF TurnsBackward
<1> HIDE DEF S
<1>4. j \in S /\ \A y \in S : y <= j
  <2>1. S \subseteq 1 .. Len(c.path)
    BY <1>3
  <2>2. S # {} /\ j = Max(S)
    BY DEF S
  <2> QED
    BY <1>2, <2>1, <2>2, Greatest
<1>5. PICK x, i : x = c.path[j].id /\ i = c.path[j].idx
  OBVIOUS
<1>6. /\ j \in 1 .. Len(c.path) /\ j \in 0 .. Len(c.path) /\ i > 1
      /\ \A k \in 1 .. Len(c.path) : k > j => ~(c.path[k].idx > 1)
  <2>1. j \in 1 .. Len(c.path) /\ i > 1
    BY <1>3, <1>4, <1>5
  <2>2. ASSUME NEW k \in 1 .. Len(c.path), k > j PROVE ~(c.path[k].idx > 1)
    <3>1. k \in S => k <= j
      BY <1>4
    <3>2. ~(k <= j)
      BY <1>2, <2>1, <2>2
    <3> QED
      BY <1>3, <3>1, <3>2
  <2> QED
    BY <1>2, <2>1, <2>2
<1>7. /\ x \in Live(store) /\ Inner(x) /\ i \in 1 .. Len(Children(x))
      /\ Len(Children(x)) \in Nat /\ Children(x)[i] = NodeAt(c.path, c.leaf, j)
  BY <1>1, <1>5, <1>6, RouteNode
<1>8. PICK m : m = i - 1
  OBVIOUS
<1>9. /\ m \in 1 .. Len(Children(x)) /\ Children(x)[m] \in Live(store) /\ Children(x)[m] # root
      /\ \E b : lo[Children(x)[i]] = {b} /\ hi[Children(x)[m]] = {b}
  <2>1. m \in 1 .. Len(Children(x)) /\ i = m + 1
    BY <1>6, <1>7, <1>8
  <2>2. x \in Live(store) /\ Inner(x) /\ i \in 1 .. Len(Children(x))
    BY <1>7
  <2>3. /\ Children(x)[m] \in Live(store) /\ Children(x)[m] # root
        /\ hi[Children(x)[m]] = {Node(x).keys[m]} /\ lo[Children(x)[i]] = {Node(x).keys[m]}
    BY <2>1, <2>2, Border
  <2> QED
    BY <2>1, <2>3
<1>10. lo[c.leaf] = lo[Children(x)[i]]
  BY <1>1, <1>6, <1>7, LowEdge
<1>11. PICK f : f = [c.path[j] EXCEPT !.idx = m]
  OBVIOUS
<1>12. /\ f.id = x /\ f.idx = m
       /\ Route(Append(SubSeq(c.path, 1, j - 1), f), root, Children(x)[m])
  <2>1. m \in 1 .. Len(Children(c.path[j].id))
    BY <1>5, <1>9
  <2>2. /\ f.id = c.path[j].id /\ f.idx = m
        /\ Route(Append(SubSeq(c.path, 1, j - 1), f), root, Children(c.path[j].id)[m])
    BY <1>1, <1>6, <1>11, <2>1, RouteTurns
  <2> QED
    BY <1>5, <2>2
<1>13. f = [c.path[j] EXCEPT !.idx = @ - 1]
  BY <1>5, <1>8, <1>11
<1>14. TurnsTo(c, j, f, Children(x)[m], lo, hi)
  BY <1>9, <1>10, <1>12 DEF TurnsTo
<1> QED
  BY <1>13, <1>14

(* Without such a frame the leaf has no lower bound.                        *)
LEMMA BackwardEnd ==
    ASSUME NEW lv, NEW lo, NEW hi, Standing(lv, lo, hi), NEW c, Above(c), TurnsBackward(c) = {}
    PROVE  lo[c.leaf] = {}
<1>1. Route(c.path, root, c.leaf)
  BY DEF Above
<1>2. Len(c.path) \in Nat /\ DOMAIN c.path = 1 .. Len(c.path)
  BY <1>1, LenProperties DEF Route
<1>3. \A k \in 1 .. Len(c.path) : k > 0 => ~(c.path[k].idx > 1)
  BY <1>2 DEF TurnsBackward
<1>4. lo[c.leaf] = lo[NodeAt(c.path, c.leaf, 0)]
  BY <1>1, <1>2, <1>3, LowEdge
<1>5. NodeAt(c.path, c.leaf, 0) = root
  <2>1. c.path = <<>> <=> Len(c.path) = 0
    BY <1>1, EmptySeq DEF Route
  <2> QED
    BY <1>1, <2>1 DEF Route, NodeAt
<1> QED
  BY <1>4, <1>5, StandingRoot

-----------------------------------------------------------------------------
(* StepForward moves to the next entry if there is one,                     *)
LEMMA StepForwardLeads ==
    ASSUME NEW lv, NEW lo, NEW hi, Standing(lv, lo, hi), NEW c, Sits(c),
           c.idx < KeysLen(Node(c.leaf)) \/ TurnsForward(c) # {},
           NEW d, d = StepForward(c)
    PROVE  Sits(d) /\ Adjacent(c.leaf, c.idx, d.leaf, d.idx)
<1>1. /\ Spot(c.leaf, c.idx) /\ Above(c)
      /\ c.idx \in 1 .. Len(Node(c.leaf).keys)
      /\ KeysLen(Node(c.leaf)) = Len(Node(c.leaf).keys) /\ Len(Node(c.leaf).keys) \in Nat
  BY SitsSpot
<1>2. CASE c.idx < KeysLen(Node(c.leaf))
  <2>1. PICK i : i = c.idx + 1
    OBVIOUS
  <2>2. i \in 1 .. Len(Node(c.leaf).keys) /\ i = c.idx + 1
    BY <1>1, <1>2, <2>1
  <2>3. d = [c EXCEPT !.idx = i]
    BY <1>2, <2>1 DEF StepForward
  <2>4. Sits(d) /\ d.leaf = c.leaf /\ d.idx = i
    BY <1>1, <2>2, <2>3, Moved
  <2>5. Spot(c.leaf, i)
    BY <2>4, SitsSpot
  <2>6. Adjacent(c.leaf, c.idx, c.leaf, i)
    BY <1>1, <2>2, <2>5, SideBySide
  <2> QED
    BY <2>4, <2>6
<1>3. CASE ~(c.idx < KeysLen(Node(c.leaf)))
  <2>1. c.idx = Len(Node(c.leaf).keys) /\ TurnsForward(c) # {}
    BY <1>1, <1>3
  <2>2. PICK j : j = Max(TurnsForward(c))
    OBVIOUS
  <2>3. PICK f, y : /\ f = [c.path[j] EXCEPT !.idx = @ + 1]
                    /\ TurnsTo(c, j, f, y, hi, lo)
    BY <1>1, <2>1, <2>2, ForwardTurn
  <2> DEFINE q == Append(SubSeq(c.path, 1, j - 1), f)
  <2>4. /\ Children(f.id)[f.idx] = y /\ y \in Live(store) /\ y # root /\ Route(q, root, y)
        /\ \E b : hi[c.leaf] = {b} /\ lo[y] = {b}
    BY <2>3 DEF TurnsTo
  <2> HIDE DEF q
  <2>5. /\ Above(d) /\ d.idx = 1
        /\ lo[d.leaf] = lo[y] /\ d.leaf # root
    <3>1. d = DescendLeftmost(q, y)
      BY <1>3, <2>1, <2>2, <2>4, <2>3 DEF StepForward, q
    <3>2. LET e == DescendLeftmost(q, y)
          IN  /\ Above(e) /\ e.idx = 1
              /\ lo[e.leaf] = lo[y] /\ (y # root => e.leaf # root)
      BY <2>4, LeftmostLeads
    <3> QED
      BY <2>4, <3>1, <3>2
  <2>6. Sits(d)
    <3>1. KeysLen(Node(d.leaf)) \in Nat /\ KeysLen(Node(d.leaf)) >= 1
      BY <2>5, LeafKeys DEF Above
    <3> QED
      BY <2>5, <3>1 DEF Sits
  <2>7. Adjacent(c.leaf, c.idx, d.leaf, 1)
    <3>1. Spot(d.leaf, 1)
      BY <2>5, <2>6, SitsSpot
    <3>2. PICK b : hi[c.leaf] = {b} /\ lo[d.leaf] = {b}
      BY <2>4, <2>5
    <3>3. PICK x, z, m : x = c.leaf /\ z = d.leaf /\ m = c.idx
      OBVIOUS
    <3>4. /\ Spot(x, m) /\ m = Len(Node(x).keys) /\ Spot(z, 1)
          /\ hi[x] = {b} /\ lo[z] = {b}
      BY <1>1, <2>1, <3>1, <3>2, <3>3
    <3>5. Adjacent(x, m, z, 1)
      BY <3>4, AcrossEdge
    <3> QED
      BY <3>3, <3>5
  <2> QED
    BY <2>1, <2>5, <2>6, <2>7
<1> QED
  BY <1>2, <1>3

(* and where it cannot move no entry is left.                               *)
LEMMA ForwardStop ==
    ASSUME NEW lv, NEW lo, NEW hi, Standing(lv, lo, hi), NEW c, Sits(c),
           ~(c.idx < KeysLen(Node(c.leaf))), TurnsForward(c) = {}
    PROVE  \A y, i : Spot(y, i) => KeyAt(y, i) <= CursorKey(c)
<1>1. /\ Spot(c.leaf, c.idx) /\ Above(c) /\ CursorKey(c) = KeyAt(c.leaf, c.idx)
      /\ c.idx \in 1 .. Len(Node(c.leaf).keys)
      /\ KeysLen(Node(c.leaf)) = Len(Node(c.leaf).keys) /\ Len(Node(c.leaf).keys) \in Nat
  BY SitsSpot
<1>2. c.idx = Len(Node(c.leaf).keys)
  BY <1>1
<1>3. hi[c.leaf] = {}
  BY <1>1, ForwardEnd
<1> QED
  BY <1>1, <1>2, <1>3, NoneAfter

(* StepBackward moves to the entry before if there is one,                  *)
LEMMA StepBackwardLeads ==
    ASSUME NEW lv, NEW lo, NEW hi, Standing(lv, lo, hi), NEW c, Sits(c),
           c.idx > 1 \/ TurnsBackward(c) # {},
           NEW d, d = StepBackward(c)
    PROVE  Sits(d) /\ Adjacent(d.leaf, d.idx, c.leaf, c.idx)
<1>1. /\ Spot(c.leaf, c.idx) /\ Above(c)
      /\ c.idx \in 1 .. Len(Node(c.leaf).keys)
      /\ KeysLen(Node(c.leaf)) = Len(Node(c.leaf).keys) /\ Len(Node(c.leaf).keys) \in Nat
  BY SitsSpot
<1>2. CASE c.idx > 1
  <2>1. PICK i : i = c.idx - 1
    OBVIOUS
  <2>2. i \in 1 .. Len(Node(c.leaf).keys) /\ c.idx = i + 1
    BY <1>1, <1>2, <2>1
  <2>3. d = [c EXCEPT !.idx = i]
    BY <1>2, <2>1 DEF StepBackward
  <2>4. Sits(d) /\ d.leaf = c.leaf /\ d.idx = i
    BY <1>1, <2>2, <2>3, Moved
  <2>5. Spot(c.leaf, i)
    BY <2>4, SitsSpot
  <2>6. Adjacent(c.leaf, i, c.leaf, c.idx)
    BY <1>1, <2>2, <2>5, SideBySide
  <2> QED
    BY <2>4, <2>6
<1>3. CASE ~(c.idx > 1)
  <2>1. c.idx = 1 /\ TurnsBackward(c) # {}
    BY <1>1, <1>3
  <2>2. PICK j : j = Max(TurnsBackward(c))
    OBVIOUS
  <2>3. PICK f, y : /\ f = [c.path[j] EXCEPT !.idx = @ - 1]
                    /\ TurnsTo(c, j, f, y, lo, hi)
    BY <1>1, <2>1, <2>2, BackwardTurn
  <2> DEFINE q == Append(SubSeq(c.path, 1, j - 1), f)
  <2>4. /\ Children(f.id)[f.idx] = y /\ y \in Live(store) /\ y # root /\ Route(q, root, y)
        /\ \E b : lo[c.leaf] = {b} /\ hi[y] = {b}
    BY <2>3 DEF TurnsTo
  <2> HIDE DEF q
  <2>5. /\ Above(d) /\ d.idx = KeysLen(Node(d.leaf))
        /\ hi[d.leaf] = hi[y] /\ d.leaf # root
    <3>1. d = DescendRightmost(q, y)
      BY <1>3, <2>1, <2>2, <2>4, <2>3 DEF StepBackward, q
    <3>2. LET e == DescendRightmost(q, y)
          IN  /\ Above(e) /\ e.idx = KeysLen(Node(e.leaf))
              /\ hi[e.leaf] = hi[y] /\ (y # root => e.leaf # root)
      BY <2>4, RightmostLeads
    <3> QED
      BY <2>4, <3>1, <3>2
  <2>6. Sits(d)
    <3>1. KeysLen(Node(d.leaf)) \in Nat /\ KeysLen(Node(d.leaf)) >= 1
      BY <2>5, LeafKeys DEF Above
    <3> QED
      BY <2>5, <3>1 DEF Sits
  <2>7. Adjacent(d.leaf, d.idx, c.leaf, 1)
    <3>1. Spot(d.leaf, d.idx) /\ d.idx = Len(Node(d.leaf).keys)
      BY <2>5, <2>6, SitsSpot
    <3>2. PICK b : hi[d.leaf] = {b} /\ lo[c.leaf] = {b}
      BY <2>4, <2>5
    <3>3. PICK x, z, m : x = d.leaf /\ z = c.leaf /\ m = d.idx
      OBVIOUS
    <3>4. /\ Spot(x, m) /\ m = Len(Node(x).keys) /\ Spot(z, 1)
          /\ hi[x] = {b} /\ lo[z] = {b}
      BY <1>1, <2>1, <3>1, <3>2, <3>3
    <3>5. Adjacent(x, m, z, 1)
      BY <3>4, AcrossEdge
    <3> QED
      BY <3>3, <3>5
  <2> QED
    BY <2>1, <2>5, <2>6, <2>7
<1> QED
  BY <1>2, <1>3

(* and where it cannot move no entry is left.                               *)
LEMMA BackwardStop ==
    ASSUME NEW lv, NEW lo, NEW hi, Standing(lv, lo, hi), NEW c, Sits(c),
           ~(c.idx > 1), TurnsBackward(c) = {}
    PROVE  \A y, i : Spot(y, i) => CursorKey(c) <= KeyAt(y, i)
<1>1. /\ Spot(c.leaf, c.idx) /\ Above(c) /\ CursorKey(c) = KeyAt(c.leaf, c.idx)
      /\ c.idx \in 1 .. Len(Node(c.leaf).keys)
      /\ KeysLen(Node(c.leaf)) = Len(Node(c.leaf).keys) /\ Len(Node(c.leaf).keys) \in Nat
  BY SitsSpot
<1>2. c.idx = 1
  BY <1>1
<1>3. lo[c.leaf] = {}
  BY <1>1, BackwardEnd
<1> QED
  BY <1>1, <1>2, <1>3, NoneBefore

-----------------------------------------------------------------------------
(* Two cursors on the same key are at the same position.                    *)
LEMMA SameKey ==
    ASSUME NEW lv, NEW lo, NEW hi, Standing(lv, lo, hi),
           NEW c, Sits(c), NEW d, Sits(d), CursorKey(c) = CursorKey(d)
    PROVE  SamePosition(c, d)
<1>1. /\ Spot(c.leaf, c.idx) /\ CursorKey(c) = KeyAt(c.leaf, c.idx)
      /\ Spot(d.leaf, d.idx) /\ CursorKey(d) = KeyAt(d.leaf, d.idx)
      /\ CursorKey(c) \in Int /\ CursorKey(d) \in Int
  BY SitsSpot
<1>2. c.leaf = d.leaf
  BY <1>1, Elsewhere
<1>3. ~(KeyAt(c.leaf, c.idx) < KeyAt(d.leaf, d.idx)) /\ ~(KeyAt(d.leaf, d.idx) < KeyAt(c.leaf, c.idx))
  <2>1. PICK k, l : k = KeyAt(c.leaf, c.idx) /\ l = KeyAt(d.leaf, d.idx)
    OBVIOUS
  <2>2. k \in Int /\ l = k
    BY <1>1, <2>1
  <2>3. ~(k < l) /\ ~(l < k)
    BY <2>2
  <2> QED
    BY <2>1, <2>3
<1>4. c.idx \in Int /\ d.idx \in Int
  BY <1>1 DEF Spot
<1>5. ~(c.idx < d.idx) /\ ~(d.idx < c.idx)
  BY <1>1, <1>2, <1>3, SpotKeys
<1> QED
  BY <1>2, <1>4, <1>5 DEF SamePosition

(* A cursor on an entry, or none: the first entry with a key in P, and the  *)
(* last one.                                                                *)
Placeable(c) == c = NoCursor \/ Sits(c)

Starts(c, P) ==
    /\ Placeable(c)
    /\ \A y, i : Spot(y, i) => (KeyAt(y, i) \in P <=> Sits(c) /\ CursorKey(c) <= KeyAt(y, i))

Ends(c, P) ==
    /\ Placeable(c)
    /\ \A y, i : Spot(y, i) => (KeyAt(y, i) \in P <=> Sits(c) /\ KeyAt(y, i) <= CursorKey(c))

(* A leaf without entries is the whole tree.                                *)
LEMMA NothingThere ==
    ASSUME NEW lv, NEW lo, NEW hi, Standing(lv, lo, hi),
           NEW c, Above(c), Node(c.leaf).keys = <<>>
    PROVE  \A y, i : ~Spot(y, i)
<1> SUFFICES ASSUME NEW y, NEW i, Spot(y, i) PROVE FALSE
  OBVIOUS
<1>1. c.leaf \in Leaves /\ Len(Node(c.leaf).keys) = 0
  BY EmptySeq DEF Above
<1>2. c.leaf = root /\ c.leaf \in Live(store) /\ lv[c.leaf] = 0
  BY <1>1, LeafKeys
<1>3. InRange(KeyAt(y, i), lo[c.leaf], hi[c.leaf])
  BY <1>2, StandingRoot DEF InRange
<1>4. /\ KeyAt(y, i) \in Key
      /\ \A b \in lo[y] : b <= KeyAt(y, i)
      /\ \A b \in hi[y] : KeyAt(y, i) < b
  BY SpotKeys
<1>5. InRange(KeyAt(y, i), lo[y], hi[y])
  BY <1>4 DEF InRange
<1>6. y \in Live(store) /\ lv[y] = lv[c.leaf] /\ y # c.leaf
  BY <1>1, <1>2, LeafKeys DEF Spot
<1>7. Inductive(lv) /\ Ordered(lo, hi, hi)
  BY DEF Standing
<1> QED
  BY <1>2, <1>3, <1>4, <1>5, <1>6, <1>7, OneOwner

(* The ends of the tree: its first entry and its last.                      *)
LEMMA FirstCursorLeads ==
    ASSUME NEW lv, NEW lo, NEW hi, Standing(lv, lo, hi), NEW c, c = FirstCursor
    PROVE  Starts(c, Key)
<1>1. PICK d : d = DescendLeftmost(<<>>, root)
  OBVIOUS
<1>2. Route(<<>>, root, root) /\ root \in Live(store) /\ lo[root] = {}
  BY NoFrames, StandingRoot
<1>3. Above(d) /\ d.idx = 1 /\ lo[d.leaf] = {}
  BY <1>1, <1>2, LeftmostLeads
<1>4. c = IF Node(d.leaf).keys = <<>> THEN NoCursor ELSE d
  BY <1>1 DEF FirstCursor, OrNone
<1>5. CASE Node(d.leaf).keys = <<>>
  <2>1. c = NoCursor /\ \A y, i : ~Spot(y, i)
    BY <1>3, <1>4, <1>5, NothingThere
  <2> QED
    BY <2>1 DEF Placeable, Starts
<1>6. CASE Node(d.leaf).keys # <<>>
  <2>1. /\ Node(d.leaf).keys \in Seq(Key) /\ Len(Node(d.leaf).keys) \in Nat
        /\ KeysLen(Node(d.leaf)) = Len(Node(d.leaf).keys)
    BY <1>3, LeafKeys DEF Above
  <2>2. Len(Node(d.leaf).keys) # 0
    BY <1>6, <2>1, EmptySeq
  <2>3. Sits(d)
    BY <1>3, <2>1, <2>2 DEF Sits
  <2>4. Spot(d.leaf, 1) /\ CursorKey(d) = KeyAt(d.leaf, 1)
    BY <1>3, <2>1, <2>3, SitsSpot
  <2>5. \A y, i : Spot(y, i) => KeyAt(d.leaf, 1) <= KeyAt(y, i)
    BY <1>3, <2>4, NoneBefore
  <2>6. \A y, i : Spot(y, i) => KeyAt(y, i) \in Key
    BY SpotKeys
  <2>7. c = d
    BY <1>4, <1>6
  <2> QED
    BY <2>3, <2>4, <2>5, <2>6, <2>7 DEF Placeable, Starts
<1> QED
  BY <1>5, <1>6

(* The last cursor is where a scan of every key ends.                       *)
LEMMA LastCursorLeads ==
    ASSUME NEW lv, NEW lo, NEW hi, Standing(lv, lo, hi), NEW c, c = LastCursor
    PROVE  Ends(c, Key)
<1>1. PICK d : d = DescendRightmost(<<>>, root)
  OBVIOUS
<1>2. Route(<<>>, root, root) /\ root \in Live(store) /\ hi[root] = {}
  BY NoFrames, StandingRoot
<1>3. Above(d) /\ d.idx = KeysLen(Node(d.leaf)) /\ hi[d.leaf] = {}
  BY <1>1, <1>2, RightmostLeads
<1>4. c = IF Node(d.leaf).keys = <<>> THEN NoCursor ELSE d
  BY <1>1 DEF LastCursor, OrNone
<1>5. CASE Node(d.leaf).keys = <<>>
  <2>1. c = NoCursor /\ \A y, i : ~Spot(y, i)
    BY <1>3, <1>4, <1>5, NothingThere
  <2> QED
    BY <2>1 DEF Placeable, Ends
<1>6. CASE Node(d.leaf).keys # <<>>
  <2>1. /\ Node(d.leaf).keys \in Seq(Key) /\ Len(Node(d.leaf).keys) \in Nat
        /\ KeysLen(Node(d.leaf)) = Len(Node(d.leaf).keys)
    BY <1>3, LeafKeys DEF Above
  <2>2. Len(Node(d.leaf).keys) # 0
    BY <1>6, <2>1, EmptySeq
  <2>3. Sits(d)
    BY <1>3, <2>1, <2>2 DEF Sits
  <2>4. /\ Spot(d.leaf, d.idx) /\ CursorKey(d) = KeyAt(d.leaf, d.idx)
        /\ d.idx = Len(Node(d.leaf).keys)
    BY <1>3, <2>1, <2>3, SitsSpot
  <2>5. \A y, i : Spot(y, i) => KeyAt(y, i) <= KeyAt(d.leaf, d.idx)
    BY <1>3, <2>4, NoneAfter
  <2>6. \A y, i : Spot(y, i) => KeyAt(y, i) \in Key
    BY SpotKeys
  <2>7. c = d
    BY <1>4, <1>6
  <2> QED
    BY <2>3, <2>4, <2>5, <2>6, <2>7 DEF Placeable, Ends
<1> QED
  BY <1>5, <1>6

(* No cursor is on no entry.                                                *)
LEMMA NoCursorNowhere == ~Sits(NoCursor)
BY StateFacts DEF NoCursor, Sits, Above, Cursor

(* A set of keys cut off at position i of a leaf: the first entry with a    *)
(* key in it is there, or the first one after the leaf.                     *)
LEMMA CutForward ==
    ASSUME NEW lv, NEW lo, NEW hi, Standing(lv, lo, hi),
           NEW c, Above(c), Node(c.leaf).keys # <<>>,
           NEW i \in 1 .. Len(Node(c.leaf).keys) + 1, NEW P,
           \A j \in 1 .. Len(Node(c.leaf).keys) : KeyAt(c.leaf, j) \in P <=> i <= j,
           \A y, m : Spot(y, m) /\ y # c.leaf =>
               /\ KeyAt(y, m) \in P => \E b \in hi[c.leaf] : b <= KeyAt(y, m)
               /\ KeyAt(y, m) \notin P => \E b \in lo[c.leaf] : KeyAt(y, m) < b,
           NEW d, d = IF i <= Len(Node(c.leaf).keys) THEN [c EXCEPT !.idx = i]
                      ELSE IF TurnsForward(c) = {} THEN NoCursor
                      ELSE StepForward([c EXCEPT !.idx = Len(Node(c.leaf).keys)])
    PROVE  Starts(d, P)
<1> DEFINE x == c.leaf
           n == Len(Node(x).keys)
<1>1. /\ x \in Leaves /\ Node(x).keys \in Seq(Key)
      /\ KeysLen(Node(x)) = n /\ n \in Nat /\ n # 0 /\ n >= 1
  BY LeafKeys, EmptySeq DEF Above
<1>2. \A y, m : Spot(y, m) => KeyAt(y, m) \in Int
  BY SpotKeys
<1>3. CASE i <= Len(Node(c.leaf).keys)
  <2>1. i \in 1 .. n /\ d = [c EXCEPT !.idx = i]
    BY <1>1, <1>3
  <2>2. Sits(d) /\ d.leaf = x /\ d.idx = i
    BY <2>1, Moved
  <2>3. Spot(x, i) /\ CursorKey(d) = KeyAt(x, i)
    BY <2>2, SitsSpot
  <2>4. ASSUME NEW y, NEW m, Spot(y, m)
        PROVE  KeyAt(y, m) \in P <=> KeyAt(x, i) <= KeyAt(y, m)
    <3>1. KeyAt(y, m) \in Int /\ KeyAt(x, i) \in Int
      BY <1>2, <2>3, <2>4
    <3>2. CASE y = x
      <4>1. m \in 1 .. n /\ Spot(x, m)
        BY <2>4, <3>2 DEF Spot
      <4>2. KeyAt(x, m) \in P <=> i <= m
        BY <4>1
      <4>3. (i <= m) <=> KeyAt(x, i) <= KeyAt(x, m)
        <5>1. m \in Int /\ i \in Int /\ (m < i \/ m = i \/ i < m)
          BY <2>1, <4>1
        <5>2. /\ i < m => KeyAt(x, i) < KeyAt(x, m)
              /\ i = m => KeyAt(x, i) = KeyAt(x, m)
              /\ m < i => KeyAt(x, m) < KeyAt(x, i)
          BY <2>3, <4>1, SpotKeys
        <5> QED
          BY <3>1, <3>2, <5>1, <5>2
      <4> QED
        BY <3>2, <4>2, <4>3
    <3>3. CASE y # x
      <4>1. /\ KeyAt(y, m) \in P => \E b \in hi[x] : b <= KeyAt(y, m)
            /\ KeyAt(y, m) \notin P => \E b \in lo[x] : KeyAt(y, m) < b
        BY <2>4, <3>3
      <4>2. /\ \A b \in lo[x] : b \in Int /\ b <= KeyAt(x, i)
            /\ \A b \in hi[x] : b \in Int /\ KeyAt(x, i) < b
        BY <2>3, SpotKeys
      <4> QED
        BY <3>1, <4>1, <4>2
    <3> QED
      BY <3>2, <3>3
  <2> QED
    BY <2>2, <2>3, <2>4 DEF Starts, Placeable
<1>4. CASE ~(i <= Len(Node(c.leaf).keys))
  <2>1. PICK l, e : l = n /\ e = [c EXCEPT !.idx = l]
    OBVIOUS
  <2>2. l \in 1 .. n /\ l = n /\ ~(i <= n)
    BY <1>1, <1>4, <2>1
  <2>3. Sits(e) /\ e.leaf = x /\ e.idx = l /\ e.path = c.path
    BY <2>1, <2>2, Moved DEF x, n
  <2>4. Spot(x, l) /\ CursorKey(e) = KeyAt(x, l) /\ KeyAt(x, l) \in Int
    BY <2>3, SitsSpot
  <2>5. ASSUME NEW y, NEW m, Spot(y, m)
        PROVE  KeyAt(y, m) \in P <=> KeyAt(x, l) < KeyAt(y, m)
    <3>1. KeyAt(y, m) \in Int /\ KeyAt(x, l) \in Int
      BY <1>2, <2>4, <2>5
    <3>2. CASE y = x
      <4>1. m \in 1 .. n /\ Spot(x, m)
        BY <2>5, <3>2 DEF Spot
      <4>2. KeyAt(x, m) \notin P
        BY <1>1, <2>2, <4>1
      <4>3. l = m \/ m < l
        BY <1>1, <2>2, <4>1
      <4>4. /\ l < m => KeyAt(x, l) < KeyAt(x, m)
            /\ l = m => KeyAt(x, l) = KeyAt(x, m)
            /\ m < l => KeyAt(x, m) < KeyAt(x, l)
        BY <2>4, <4>1, SpotKeys
      <4> QED
        BY <3>1, <3>2, <4>2, <4>3, <4>4
    <3>3. CASE y # x
      <4>1. /\ KeyAt(y, m) \in P => \E b \in hi[x] : b <= KeyAt(y, m)
            /\ KeyAt(y, m) \notin P => \E b \in lo[x] : KeyAt(y, m) < b
        BY <2>5, <3>3
      <4>2. /\ \A b \in lo[x] : b \in Int /\ b <= KeyAt(x, l)
            /\ \A b \in hi[x] : b \in Int /\ KeyAt(x, l) < b
        BY <2>4, SpotKeys
      <4> QED
        BY <3>1, <4>1, <4>2
    <3> QED
      BY <3>2, <3>3
  <2>6. TurnsForward(e) = TurnsForward(c)
    BY <2>3 DEF TurnsForward
  <2>7. CASE TurnsForward(c) = {}
    <3>1. ~(e.idx < KeysLen(Node(e.leaf)))
      <4>1. KeysLen(Node(e.leaf)) = n /\ n \in Nat
        BY <1>1, <2>3
      <4> QED
        BY <2>2, <2>3, <4>1
    <3>2. \A y, m : Spot(y, m) => KeyAt(y, m) <= KeyAt(x, l)
      BY <2>3, <2>4, <2>6, <2>7, <3>1, ForwardStop
    <3>3. \A y, m : Spot(y, m) => KeyAt(y, m) \notin P
      BY <1>2, <2>4, <2>5, <3>2
    <3>4. d = NoCursor /\ ~Sits(d)
      BY <1>4, <2>7, NoCursorNowhere
    <3> QED
      BY <3>3, <3>4 DEF Starts, Placeable
  <2>8. CASE TurnsForward(c) # {}
    <3>1. d = StepForward(e)
      BY <1>4, <2>1, <2>8
    <3>2. Sits(d) /\ Adjacent(e.leaf, e.idx, d.leaf, d.idx)
      BY <2>3, <2>6, <2>8, <3>1, StepForwardLeads
    <3>3. Spot(d.leaf, d.idx) /\ CursorKey(d) = KeyAt(d.leaf, d.idx) /\ CursorKey(d) \in Int
      BY <3>2, SitsSpot
    <3>4. /\ KeyAt(x, l) < CursorKey(d)
          /\ \A y, m : Spot(y, m) => KeyAt(y, m) <= KeyAt(x, l) \/ CursorKey(d) <= KeyAt(y, m)
      BY <2>3, <3>2, <3>3 DEF Adjacent
    <3>5. ASSUME NEW y, NEW m, Spot(y, m)
          PROVE  KeyAt(y, m) \in P <=> CursorKey(d) <= KeyAt(y, m)
      <4>1. PICK k, u, w : k = KeyAt(y, m) /\ u = KeyAt(x, l) /\ w = CursorKey(d)
        OBVIOUS
      <4>2. k \in Int /\ u \in Int /\ w \in Int
        BY <1>2, <2>4, <3>3, <3>5, <4>1
      <4>3. KeyAt(y, m) \in P <=> u < k
        BY <2>5, <3>5, <4>1
      <4>4. u < w /\ (k <= u \/ w <= k)
        BY <3>4, <3>5, <4>1
      <4>5. u < k <=> w <= k
        BY <4>2, <4>4
      <4> QED
        BY <4>1, <4>3, <4>5
    <3> QED
      BY <3>2, <3>5 DEF Starts, Placeable
  <2> QED
    BY <2>7, <2>8
<1> QED
  BY <1>3, <1>4

(* The last entry with a key in a set, in the same way.                     *)
LEMMA CutBackward ==
    ASSUME NEW lv, NEW lo, NEW hi, Standing(lv, lo, hi),
           NEW c, Above(c), c.idx = 1, Node(c.leaf).keys # <<>>,
           NEW i \in 0 .. Len(Node(c.leaf).keys), NEW P,
           \A j \in 1 .. Len(Node(c.leaf).keys) : KeyAt(c.leaf, j) \in P <=> j <= i,
           \A y, m : Spot(y, m) /\ y # c.leaf =>
               /\ KeyAt(y, m) \in P => \E b \in lo[c.leaf] : KeyAt(y, m) < b
               /\ KeyAt(y, m) \notin P => \E b \in hi[c.leaf] : b <= KeyAt(y, m),
           NEW d, d = IF i >= 1 THEN [c EXCEPT !.idx = i]
                      ELSE IF TurnsBackward(c) = {} THEN NoCursor
                      ELSE StepBackward(c)
    PROVE  Ends(d, P)
<1> DEFINE x == c.leaf
           n == Len(Node(x).keys)
<1>1. /\ x \in Leaves /\ Node(x).keys \in Seq(Key)
      /\ KeysLen(Node(x)) = n /\ n \in Nat /\ n # 0 /\ n >= 1
  BY LeafKeys, EmptySeq DEF Above
<1>2. \A y, m : Spot(y, m) => KeyAt(y, m) \in Int
  BY SpotKeys
<1>3. CASE i >= 1
  <2>1. i \in 1 .. n /\ d = [c EXCEPT !.idx = i]
    BY <1>1, <1>3
  <2>2. Sits(d) /\ d.leaf = x /\ d.idx = i
    BY <2>1, Moved
  <2>3. Spot(x, i) /\ CursorKey(d) = KeyAt(x, i)
    BY <2>2, SitsSpot
  <2>4. ASSUME NEW y, NEW m, Spot(y, m)
        PROVE  KeyAt(y, m) \in P <=> KeyAt(y, m) <= KeyAt(x, i)
    <3>1. KeyAt(y, m) \in Int /\ KeyAt(x, i) \in Int
      BY <1>2, <2>3, <2>4
    <3>2. CASE y = x
      <4>1. m \in 1 .. n /\ Spot(x, m)
        BY <2>4, <3>2 DEF Spot
      <4>2. KeyAt(x, m) \in P <=> m <= i
        BY <4>1
      <4>3. (m <= i) <=> KeyAt(x, m) <= KeyAt(x, i)
        <5>1. m \in Int /\ i \in Int /\ (m < i \/ m = i \/ i < m)
          BY <2>1, <4>1
        <5>2. /\ i < m => KeyAt(x, i) < KeyAt(x, m)
              /\ i = m => KeyAt(x, i) = KeyAt(x, m)
              /\ m < i => KeyAt(x, m) < KeyAt(x, i)
          BY <2>3, <4>1, SpotKeys
        <5> QED
          BY <3>1, <3>2, <5>1, <5>2
      <4> QED
        BY <3>2, <4>2, <4>3
    <3>3. CASE y # x
      <4>1. /\ KeyAt(y, m) \in P => \E b \in lo[x] : KeyAt(y, m) < b
            /\ KeyAt(y, m) \notin P => \E b \in hi[x] : b <= KeyAt(y, m)
        BY <2>4, <3>3
      <4>2. /\ \A b \in lo[x] : b \in Int /\ b <= KeyAt(x, i)
            /\ \A b \in hi[x] : b \in Int /\ KeyAt(x, i) < b
        BY <2>3, SpotKeys
      <4> QED
        BY <3>1, <4>1, <4>2
    <3> QED
      BY <3>2, <3>3
  <2> QED
    BY <2>2, <2>3, <2>4 DEF Ends, Placeable
<1>4. CASE ~(i >= 1)
  <2>1. PICK l, e : l = 1 /\ e = c
    OBVIOUS
  <2>2. l \in 1 .. n /\ l = 1 /\ ~(i >= 1)
    BY <1>1, <1>4, <2>1
  <2>3. Sits(e) /\ e.leaf = x /\ e.idx = l /\ e.path = c.path
    BY <1>1, <2>1, <2>2 DEF Sits, x, n
  <2>4. Spot(x, l) /\ CursorKey(e) = KeyAt(x, l) /\ KeyAt(x, l) \in Int
    BY <2>3, SitsSpot
  <2>5. ASSUME NEW y, NEW m, Spot(y, m)
        PROVE  KeyAt(y, m) \in P <=> KeyAt(y, m) < KeyAt(x, l)
    <3>1. KeyAt(y, m) \in Int /\ KeyAt(x, l) \in Int
      BY <1>2, <2>4, <2>5
    <3>2. CASE y = x
      <4>1. m \in 1 .. n /\ Spot(x, m)
        BY <2>5, <3>2 DEF Spot
      <4>2. KeyAt(x, m) \notin P
        BY <1>1, <2>2, <4>1
      <4>3. l = m \/ l < m
        BY <1>1, <2>2, <4>1
      <4>4. /\ l < m => KeyAt(x, l) < KeyAt(x, m)
            /\ l = m => KeyAt(x, l) = KeyAt(x, m)
            /\ m < l => KeyAt(x, m) < KeyAt(x, l)
        BY <2>4, <4>1, SpotKeys
      <4> QED
        BY <3>1, <3>2, <4>2, <4>3, <4>4
    <3>3. CASE y # x
      <4>1. /\ KeyAt(y, m) \in P => \E b \in lo[x] : KeyAt(y, m) < b
            /\ KeyAt(y, m) \notin P => \E b \in hi[x] : b <= KeyAt(y, m)
        BY <2>5, <3>3
      <4>2. /\ \A b \in lo[x] : b \in Int /\ b <= KeyAt(x, l)
            /\ \A b \in hi[x] : b \in Int /\ KeyAt(x, l) < b
        BY <2>4, SpotKeys
      <4> QED
        BY <3>1, <4>1, <4>2
    <3> QED
      BY <3>2, <3>3
  <2>6. TurnsBackward(e) = TurnsBackward(c)
    BY <2>3 DEF TurnsBackward
  <2>7. CASE TurnsBackward(c) = {}
    <3>1. ~(e.idx > 1)
      BY <2>2, <2>3
    <3>2. \A y, m : Spot(y, m) => KeyAt(x, l) <= KeyAt(y, m)
      BY <2>3, <2>4, <2>6, <2>7, <3>1, BackwardStop
    <3>3. \A y, m : Spot(y, m) => KeyAt(y, m) \notin P
      BY <1>2, <2>4, <2>5, <3>2
    <3>4. d = NoCursor /\ ~Sits(d)
      BY <1>4, <2>7, NoCursorNowhere
    <3> QED
      BY <3>3, <3>4 DEF Ends, Placeable
  <2>8. CASE TurnsBackward(c) # {}
    <3>1. d = StepBackward(e)
      BY <1>4, <2>1, <2>8
    <3>2. Sits(d) /\ Adjacent(d.leaf, d.idx, e.leaf, e.idx)
      BY <2>3, <2>6, <2>8, <3>1, StepBackwardLeads
    <3>3. Spot(d.leaf, d.idx) /\ CursorKey(d) = KeyAt(d.leaf, d.idx) /\ CursorKey(d) \in Int
      BY <3>2, SitsSpot
    <3>4. /\ CursorKey(d) < KeyAt(x, l)
          /\ \A y, m : Spot(y, m) => KeyAt(x, l) <= KeyAt(y, m) \/ KeyAt(y, m) <= CursorKey(d)
      BY <2>3, <3>2, <3>3 DEF Adjacent
    <3>5. ASSUME NEW y, NEW m, Spot(y, m)
          PROVE  KeyAt(y, m) \in P <=> KeyAt(y, m) <= CursorKey(d)
      <4>1. PICK k, u, w : k = KeyAt(y, m) /\ u = KeyAt(x, l) /\ w = CursorKey(d)
        OBVIOUS
      <4>2. k \in Int /\ u \in Int /\ w \in Int
        BY <1>2, <2>4, <3>3, <3>5, <4>1
      <4>3. KeyAt(y, m) \in P <=> k < u
        BY <2>5, <3>5, <4>1
      <4>4. w < u /\ (u <= k \/ k <= w)
        BY <3>4, <3>5, <4>1
      <4>5. k < u <=> k <= w
        BY <4>2, <4>4
      <4> QED
        BY <4>1, <4>3, <4>5
    <3> QED
      BY <3>2, <3>5 DEF Ends, Placeable
  <2> QED
    BY <2>7, <2>8
<1> QED
  BY <1>3, <1>4

-----------------------------------------------------------------------------
(* A bound on keys.                                                         *)
LEMMA BoundKey ==
    ASSUME NEW b \in Bound, b.kind # "unbounded"
    PROVE  b.key \in Key /\ b.kind \in {"included", "excluded"}
<1>1. b # Unbounded
  BY DEF Unbounded
<1>2. b \in [kind : {"included", "excluded"}, key : Key]
  BY <1>1 DEF Bound
<1> QED
  BY <1>2

(* Where a lower bound cuts a leaf,                                         *)
LEMMA LowerCut ==
    ASSUME NEW keys \in Seq(Key), Ascending(keys), NEW b \in Bound, b.kind # "unbounded",
           NEW i, i = Position(keys, b.key)
                      + (IF b.kind = "excluded" /\ Found(keys, b.key) THEN 1 ELSE 0)
    PROVE  /\ i \in 1 .. Len(keys) + 1 /\ b.key \in Key
           /\ \A j \in 1 .. Len(keys) : Scan!Above(keys[j], b) <=> i <= j
<1> DEFINE n == Len(keys)
           k == b.key
           at == Position(keys, k)
<1>1. k \in Key /\ k \in Int /\ b.kind \in {"included", "excluded"}
  BY BoundKey, KeyAssumption
<1>2. /\ n \in Nat /\ at \in 1 .. n + 1
      /\ at > 1 => keys[at - 1] < k
      /\ at <= n => k <= keys[at]
  BY <1>1, PositionProperties, KeysAreOrdered
<1>3. Found(keys, k) <=> at <= n /\ keys[at] = k
  BY DEF Found
<1>4. /\ \A j \in 1 .. n : keys[j] \in Int
      /\ \A j, m \in 1 .. n : j < m => keys[j] < keys[m]
  BY KeysAreOrdered
<1>5. \A j \in 1 .. n : Scan!Above(keys[j], b) <=>
          \/ b.kind = "included" /\ keys[j] >= k
          \/ b.kind = "excluded" /\ keys[j] > k
  BY <1>1 DEF Scan!Above
<1>6. i = at + (IF b.kind = "excluded" /\ at <= n /\ keys[at] = k THEN 1 ELSE 0)
  BY <1>3
<1> HIDE DEF n, at, k
<1>7. i \in 1 .. n + 1
  BY <1>2, <1>6
<1>8. ASSUME NEW j \in 1 .. n
      PROVE  /\ j < at => keys[j] < k
             /\ j = at => k <= keys[j]
             /\ at < j => k < keys[j]
  <2>1. CASE j < at
    <3>1. PICK m : m = at - 1
      OBVIOUS
    <3>2. m \in 1 .. n /\ (j < m \/ j = m) /\ keys[m] < k /\ ~(j = at) /\ ~(at < j)
      BY <1>2, <1>8, <2>1, <3>1
    <3>3. keys[j] \in Int /\ keys[m] \in Int /\ (j < m => keys[j] < keys[m])
      BY <1>4, <1>8, <3>2
    <3> QED
      BY <1>1, <3>2, <3>3 DEF k
  <2>2. CASE j = at
    BY <1>2, <1>8, <2>2
  <2>3. CASE at < j
    <3>1. at \in 1 .. n /\ ~(j < at) /\ ~(j = at) /\ k <= keys[at]
      BY <1>2, <1>8, <2>3
    <3>2. keys[j] \in Int /\ keys[at] \in Int /\ keys[at] < keys[j]
      BY <1>4, <1>8, <2>3, <3>1
    <3> QED
      BY <1>1, <3>1, <3>2 DEF k
  <2> QED
    BY <1>2, <1>8, <2>1, <2>2, <2>3
<1>9. ASSUME NEW j \in 1 .. n
      PROVE  Scan!Above(keys[j], b) <=> i <= j
  <2>1. PICK u : u = keys[j]
    OBVIOUS
  <2>2. u \in Int /\ k \in Int /\ at \in Int /\ j \in Int /\ i \in Int
    BY <1>1, <1>2, <1>4, <1>7, <1>9, <2>1 DEF k
  <2>3. /\ j < at => u < k
        /\ j = at => k <= u
        /\ at < j => k < u
    BY <1>8, <1>9, <2>1
  <2>4. Scan!Above(keys[j], b) <=> (b.kind = "included" /\ u >= k) \/ (b.kind = "excluded" /\ u > k)
    BY <1>5, <1>9, <2>1 DEF k
  <2>5. \/ i = at + 1 /\ b.kind = "excluded" /\ keys[at] = k
        \/ i = at + 0 /\ (b.kind = "excluded" => ~(at <= n /\ keys[at] = k))
    BY <1>6
  <2>6. j = at => (keys[at] = k <=> u = k) /\ at <= n
    BY <1>2, <1>9, <2>1
  <2>7. (keys[at] = k <=> u = k) \/ j < at \/ at < j
    BY <2>2, <2>6
  <2> QED
    BY <1>1, <2>2, <2>3, <2>4, <2>5, <2>6, <2>7
<1> QED
  BY <1>1, <1>7, <1>9 DEF n, k

(* and where an upper bound does.                                          *)
LEMMA UpperCut ==
    ASSUME NEW keys \in Seq(Key), Ascending(keys), NEW b \in Bound, b.kind # "unbounded",
           NEW i, i = Position(keys, b.key)
                      - (IF b.kind = "included" /\ Found(keys, b.key) THEN 0 ELSE 1)
    PROVE  /\ i \in 0 .. Len(keys) /\ b.key \in Key
           /\ \A j \in 1 .. Len(keys) : Scan!Below(keys[j], b) <=> j <= i
<1> DEFINE n == Len(keys)
           k == b.key
           at == Position(keys, k)
<1>1. k \in Key /\ k \in Int /\ b.kind \in {"included", "excluded"}
  BY BoundKey, KeyAssumption
<1>2. /\ n \in Nat /\ at \in 1 .. n + 1
      /\ at > 1 => keys[at - 1] < k
      /\ at <= n => k <= keys[at]
  BY <1>1, PositionProperties, KeysAreOrdered
<1>3. Found(keys, k) <=> at <= n /\ keys[at] = k
  BY DEF Found
<1>4. /\ \A j \in 1 .. n : keys[j] \in Int
      /\ \A j, m \in 1 .. n : j < m => keys[j] < keys[m]
  BY KeysAreOrdered
<1>5. \A j \in 1 .. n : Scan!Below(keys[j], b) <=>
          \/ b.kind = "included" /\ keys[j] <= k
          \/ b.kind = "excluded" /\ keys[j] < k
  BY <1>1 DEF Scan!Below
<1>6. i = at - (IF b.kind = "included" /\ at <= n /\ keys[at] = k THEN 0 ELSE 1)
  BY <1>3
<1> HIDE DEF n, at, k
<1>7. i \in 0 .. n
  BY <1>2, <1>6
<1>8. ASSUME NEW j \in 1 .. n
      PROVE  /\ j < at => keys[j] < k
             /\ j = at => k <= keys[j]
             /\ at < j => k < keys[j]
  <2>1. CASE j < at
    <3>1. PICK m : m = at - 1
      OBVIOUS
    <3>2. m \in 1 .. n /\ (j < m \/ j = m) /\ keys[m] < k /\ ~(j = at) /\ ~(at < j)
      BY <1>2, <1>8, <2>1, <3>1
    <3>3. keys[j] \in Int /\ keys[m] \in Int /\ (j < m => keys[j] < keys[m])
      BY <1>4, <1>8, <3>2
    <3> QED
      BY <1>1, <3>2, <3>3 DEF k
  <2>2. CASE j = at
    BY <1>2, <1>8, <2>2
  <2>3. CASE at < j
    <3>1. at \in 1 .. n /\ ~(j < at) /\ ~(j = at) /\ k <= keys[at]
      BY <1>2, <1>8, <2>3
    <3>2. keys[j] \in Int /\ keys[at] \in Int /\ keys[at] < keys[j]
      BY <1>4, <1>8, <2>3, <3>1
    <3> QED
      BY <1>1, <3>1, <3>2 DEF k
  <2> QED
    BY <1>2, <1>8, <2>1, <2>2, <2>3
<1>9. ASSUME NEW j \in 1 .. n
      PROVE  Scan!Below(keys[j], b) <=> j <= i
  <2>1. PICK u : u = keys[j]
    OBVIOUS
  <2>2. u \in Int /\ k \in Int /\ at \in Int /\ j \in Int /\ i \in Int
    BY <1>1, <1>2, <1>4, <1>7, <1>9, <2>1 DEF k
  <2>3. /\ j < at => u < k
        /\ j = at => k <= u
        /\ at < j => k < u
    BY <1>8, <1>9, <2>1
  <2>4. Scan!Below(keys[j], b) <=> (b.kind = "included" /\ u <= k) \/ (b.kind = "excluded" /\ u < k)
    BY <1>5, <1>9, <2>1 DEF k
  <2>5. \/ i = at - 0 /\ b.kind = "included" /\ keys[at] = k
        \/ i = at - 1 /\ (b.kind = "included" => ~(at <= n /\ keys[at] = k))
    BY <1>6
  <2>6. j = at => (keys[at] = k <=> u = k) /\ at <= n
    BY <1>2, <1>9, <2>1
  <2>7. (keys[at] = k <=> u = k) \/ j < at \/ at < j
    BY <2>2, <2>6
  <2> QED
    BY <1>1, <2>2, <2>3, <2>4, <2>5, <2>6, <2>7
<1> QED
  BY <1>1, <1>7, <1>9 DEF n, k

(* LowerBound finds the first entry the bound admits,                       *)
LEMMA LowerBoundLeads ==
    ASSUME NEW lv, NEW lo, NEW hi, Standing(lv, lo, hi), NEW b \in Bound,
           NEW d, d = LowerBound(b),
           NEW P, \A k \in Key : k \in P <=> Scan!Above(k, b)
    PROVE  Starts(d, P)
<1>1. \A y, i : Spot(y, i) => KeyAt(y, i) \in Key
  BY SpotKeys
<1>2. CASE b.kind = "unbounded"
  <2>1. d = FirstCursor
    BY <1>2 DEF LowerBound
  <2>2. Starts(d, Key)
    BY <2>1, FirstCursorLeads
  <2>3. \A k \in Key : k \in P
    BY <1>2 DEF Scan!Above
  <2> QED
    BY <1>1, <2>2, <2>3 DEF Starts
<1>3. CASE b.kind # "unbounded"
  <2>1. PICK c : c = DescendTo(b.key)
    OBVIOUS
  <2>2. PICK x : x = c.leaf
    OBVIOUS
  <2>3. b.key \in Key /\ b.key \in Int /\ b.kind \in {"included", "excluded"}
    BY <1>3, BoundKey, KeyAssumption
  <2>4. Above(c) /\ c.idx = 1 /\ InRange(b.key, lo[x], hi[x])
    BY <2>1, <2>2, <2>3, DescendToLeads
  <2>5. /\ x \in Leaves /\ Node(x).keys \in Seq(Key) /\ Ascending(Node(x).keys)
        /\ lo[x] \subseteq Int /\ hi[x] \subseteq Int
    BY <2>2, <2>4, LeafKeys, KeyAssumption DEF Above
  <2>6. PICK i : i = Position(Node(x).keys, b.key)
                     + (IF b.kind = "excluded" /\ Found(Node(x).keys, b.key) THEN 1 ELSE 0)
    OBVIOUS
  <2>7. d = IF Node(x).keys = <<>> THEN NoCursor
            ELSE IF i <= Len(Node(x).keys) THEN [c EXCEPT !.idx = i]
            ELSE IF TurnsForward(c) = {} THEN NoCursor
            ELSE StepForward([c EXCEPT !.idx = Len(Node(x).keys)])
    BY <1>3, <2>1, <2>2, <2>6 DEF LowerBound
  <2>8. CASE Node(x).keys = <<>>
    <3>1. d = NoCursor /\ \A y, m : ~Spot(y, m)
      BY <2>2, <2>4, <2>7, <2>8, NothingThere
    <3> QED
      BY <3>1 DEF Starts, Placeable
  <2>9. CASE Node(x).keys # <<>>
    <3>1. /\ i \in 1 .. Len(Node(x).keys) + 1
          /\ \A j \in 1 .. Len(Node(x).keys) : Scan!Above(Node(x).keys[j], b) <=> i <= j
      BY <1>3, <2>5, <2>6, LowerCut
    <3>2. \A j \in 1 .. Len(Node(x).keys) : KeyAt(x, j) \in P <=> i <= j
      <4>1. \A j \in 1 .. Len(Node(x).keys) : KeyAt(x, j) = Node(x).keys[j] /\ KeyAt(x, j) \in Key
        BY <1>1, <2>5 DEF KeyAt, Spot
      <4> QED
        BY <3>1, <4>1
    <3>3. ASSUME NEW y, NEW m, Spot(y, m), y # x
          PROVE  /\ KeyAt(y, m) \in P => \E e \in hi[x] : e <= KeyAt(y, m)
                 /\ KeyAt(y, m) \notin P => \E e \in lo[x] : KeyAt(y, m) < e
      <4>1. PICK k, u : k = KeyAt(y, m) /\ u = b.key
        OBVIOUS
      <4>2. k \in Key /\ k \in Int /\ u \in Int
        BY <1>1, <2>3, <3>3, <4>1, KeyAssumption
      <4>3. (\E e \in lo[x] : k < e) \/ (\E e \in hi[x] : e <= k)
        BY <2>5, <3>3, <4>1, Outside
      <4>4. (\A e \in lo[x] : e \in Int /\ e <= u) /\ (\A e \in hi[x] : e \in Int /\ u < e)
        BY <2>4, <2>5, <4>1 DEF InRange
      <4>5. /\ (\E e \in lo[x] : k < e) => k < u
            /\ (\E e \in hi[x] : e <= k) => u < k
        BY <4>2, <4>4
      <4>6. k \in P <=> (b.kind = "included" /\ k >= u) \/ (b.kind = "excluded" /\ k > u)
        BY <2>3, <4>1, <4>2 DEF Scan!Above
      <4>7. (u < k => (k \in P <=> TRUE)) /\ (k < u => (k \in P <=> FALSE))
        BY <2>3, <4>2, <4>6
      <4> QED
        BY <4>1, <4>2, <4>3, <4>5, <4>7
    <3>4. d = IF i <= Len(Node(x).keys) THEN [c EXCEPT !.idx = i]
              ELSE IF TurnsForward(c) = {} THEN NoCursor
              ELSE StepForward([c EXCEPT !.idx = Len(Node(x).keys)])
      BY <2>7, <2>9
    <3> QED
      BY <2>2, <2>4, <2>9, <3>1, <3>2, <3>3, <3>4, CutForward
  <2> QED
    BY <2>8, <2>9
<1> QED
  BY <1>2, <1>3

(* and UpperBound the last one.                                             *)
LEMMA UpperBoundLeads ==
    ASSUME NEW lv, NEW lo, NEW hi, Standing(lv, lo, hi), NEW b \in Bound,
           NEW d, d = UpperBound(b),
           NEW P, \A k \in Key : k \in P <=> Scan!Below(k, b)
    PROVE  Ends(d, P)
<1>1. \A y, i : Spot(y, i) => KeyAt(y, i) \in Key
  BY SpotKeys
<1>2. CASE b.kind = "unbounded"
  <2>1. d = LastCursor
    BY <1>2 DEF UpperBound
  <2>2. Ends(d, Key)
    BY <2>1, LastCursorLeads
  <2>3. \A k \in Key : k \in P
    BY <1>2 DEF Scan!Below
  <2> QED
    BY <1>1, <2>2, <2>3 DEF Ends
<1>3. CASE b.kind # "unbounded"
  <2>1. PICK c : c = DescendTo(b.key)
    OBVIOUS
  <2>2. PICK x : x = c.leaf
    OBVIOUS
  <2>3. b.key \in Key /\ b.key \in Int /\ b.kind \in {"included", "excluded"}
    BY <1>3, BoundKey, KeyAssumption
  <2>4. Above(c) /\ c.idx = 1 /\ InRange(b.key, lo[x], hi[x])
    BY <2>1, <2>2, <2>3, DescendToLeads
  <2>5. /\ x \in Leaves /\ Node(x).keys \in Seq(Key) /\ Ascending(Node(x).keys)
        /\ lo[x] \subseteq Int /\ hi[x] \subseteq Int
    BY <2>2, <2>4, LeafKeys, KeyAssumption DEF Above
  <2>6. PICK i : i = Position(Node(x).keys, b.key)
                     - (IF b.kind = "included" /\ Found(Node(x).keys, b.key) THEN 0 ELSE 1)
    OBVIOUS
  <2>7. d = IF Node(x).keys = <<>> THEN NoCursor
            ELSE IF i >= 1 THEN [c EXCEPT !.idx = i]
            ELSE IF TurnsBackward(c) = {} THEN NoCursor
            ELSE StepBackward(c)
    BY <1>3, <2>1, <2>2, <2>6 DEF UpperBound
  <2>8. CASE Node(x).keys = <<>>
    <3>1. d = NoCursor /\ \A y, m : ~Spot(y, m)
      BY <2>2, <2>4, <2>7, <2>8, NothingThere
    <3> QED
      BY <3>1 DEF Ends, Placeable
  <2>9. CASE Node(x).keys # <<>>
    <3>1. /\ i \in 0 .. Len(Node(x).keys)
          /\ \A j \in 1 .. Len(Node(x).keys) : Scan!Below(Node(x).keys[j], b) <=> j <= i
      BY <1>3, <2>5, <2>6, UpperCut
    <3>2. \A j \in 1 .. Len(Node(x).keys) : KeyAt(x, j) \in P <=> j <= i
      <4>1. \A j \in 1 .. Len(Node(x).keys) : KeyAt(x, j) = Node(x).keys[j] /\ KeyAt(x, j) \in Key
        BY <1>1, <2>5 DEF KeyAt, Spot
      <4> QED
        BY <3>1, <4>1
    <3>3. ASSUME NEW y, NEW m, Spot(y, m), y # x
          PROVE  /\ KeyAt(y, m) \in P => \E e \in lo[x] : KeyAt(y, m) < e
                 /\ KeyAt(y, m) \notin P => \E e \in hi[x] : e <= KeyAt(y, m)
      <4>1. PICK k, u : k = KeyAt(y, m) /\ u = b.key
        OBVIOUS
      <4>2. k \in Key /\ k \in Int /\ u \in Int
        BY <1>1, <2>3, <3>3, <4>1, KeyAssumption
      <4>3. (\E e \in lo[x] : k < e) \/ (\E e \in hi[x] : e <= k)
        BY <2>5, <3>3, <4>1, Outside
      <4>4. (\A e \in lo[x] : e \in Int /\ e <= u) /\ (\A e \in hi[x] : e \in Int /\ u < e)
        BY <2>4, <2>5, <4>1 DEF InRange
      <4>5. /\ (\E e \in lo[x] : k < e) => k < u
            /\ (\E e \in hi[x] : e <= k) => u < k
        BY <4>2, <4>4
      <4>6. k \in P <=> (b.kind = "included" /\ k <= u) \/ (b.kind = "excluded" /\ k < u)
        BY <2>3, <4>1, <4>2 DEF Scan!Below
      <4>7. (u < k => (k \in P <=> FALSE)) /\ (k < u => (k \in P <=> TRUE))
        BY <2>3, <4>2, <4>6
      <4> QED
        BY <4>1, <4>2, <4>3, <4>5, <4>7
    <3>4. d = IF i >= 1 THEN [c EXCEPT !.idx = i]
              ELSE IF TurnsBackward(c) = {} THEN NoCursor
              ELSE StepBackward(c)
      BY <2>7, <2>9
    <3> QED
      BY <2>2, <2>4, <2>9, <3>1, <3>2, <3>3, <3>4, CutBackward
  <2> QED
    BY <2>8, <2>9
<1> QED
  BY <1>2, <1>3

-----------------------------------------------------------------------------
(* A span holds two cursors on entries, the front one not past the back.    *)
Held(s) ==
    s # NoSpan =>
        /\ s \in [front : Cursor, back : Cursor]
        /\ Sits(s.front) /\ Sits(s.back)
        /\ CursorKey(s.front) <= CursorKey(s.back)

(* The keys of the tree, and those of them between the ends of a span.      *)
StoredKeys == UNION {Range(Node(x).keys) : x \in Leaves}

(* The stored keys between the ends of s.                                   *)
Spanned(s) ==
    IF s = NoSpan THEN {}
    ELSE {k \in StoredKeys : CursorKey(s.front) <= k /\ k <= CursorKey(s.back)}

(* Each stored key has a place in a leaf.                                   *)
LEMMA StoredSpots ==
    ASSUME NEW lv, NEW lo, NEW hi, Standing(lv, lo, hi)
    PROVE  /\ \A k \in StoredKeys : \E y, i : Spot(y, i) /\ KeyAt(y, i) = k
           /\ \A y, i : Spot(y, i) => KeyAt(y, i) \in StoredKeys
           /\ StoredKeys \subseteq Key /\ StoredKeys \subseteq Int
<1>1. \A y \in Leaves : DOMAIN Node(y).keys = 1 .. Len(Node(y).keys)
  BY LeafKeys, KeysAreOrdered
<1>2. ASSUME NEW k \in StoredKeys PROVE \E y, i : Spot(y, i) /\ KeyAt(y, i) = k
  <2>1. PICK y \in Leaves : k \in Range(Node(y).keys)
    BY <1>2 DEF StoredKeys
  <2>2. PICK i \in DOMAIN Node(y).keys : k = Node(y).keys[i]
    BY <2>1 DEF Range
  <2> QED
    BY <1>1, <2>2 DEF Spot, KeyAt
<1>3. ASSUME NEW y, NEW i, Spot(y, i) PROVE KeyAt(y, i) \in StoredKeys
  <2>1. y \in Leaves /\ i \in DOMAIN Node(y).keys
    BY <1>1, <1>3 DEF Spot
  <2>2. KeyAt(y, i) \in Range(Node(y).keys)
    BY <2>1 DEF KeyAt, Range
  <2> QED
    BY <2>1, <2>2 DEF StoredKeys
<1>4. StoredKeys \subseteq Key /\ StoredKeys \subseteq Int
  BY <1>2, SpotKeys
<1> QED
  BY <1>2, <1>3, <1>4

(* While its ends differ each of them can move towards the other.           *)
LEMMA EndsCanMove ==
    ASSUME NEW lv, NEW lo, NEW hi, Standing(lv, lo, hi),
           NEW s, Held(s), s # NoSpan, ~SamePosition(s.front, s.back)
    PROVE  /\ CursorKey(s.front) < CursorKey(s.back)
           /\ s.front.idx < KeysLen(Node(s.front.leaf)) \/ TurnsForward(s.front) # {}
           /\ s.back.idx > 1 \/ TurnsBackward(s.back) # {}
<1>1. Sits(s.front) /\ Sits(s.back) /\ CursorKey(s.front) <= CursorKey(s.back)
  BY DEF Held
<1>2. /\ Spot(s.front.leaf, s.front.idx) /\ CursorKey(s.front) = KeyAt(s.front.leaf, s.front.idx)
      /\ Spot(s.back.leaf, s.back.idx) /\ CursorKey(s.back) = KeyAt(s.back.leaf, s.back.idx)
      /\ CursorKey(s.front) \in Int /\ CursorKey(s.back) \in Int
  BY <1>1, SitsSpot
<1>3. CursorKey(s.front) # CursorKey(s.back)
  BY <1>1, SameKey
<1>4. CursorKey(s.front) < CursorKey(s.back) /\ ~(CursorKey(s.back) <= CursorKey(s.front))
  BY <1>1, <1>2, <1>3
<1>5. s.front.idx < KeysLen(Node(s.front.leaf)) \/ TurnsForward(s.front) # {}
  <2>1. SUFFICES ASSUME ~(s.front.idx < KeysLen(Node(s.front.leaf))), TurnsForward(s.front) = {}
                 PROVE  FALSE
    OBVIOUS
  <2>2. \A y, i : Spot(y, i) => KeyAt(y, i) <= CursorKey(s.front)
    BY <1>1, <2>1, ForwardStop
  <2> QED
    BY <1>2, <1>4, <2>2
<1>6. s.back.idx > 1 \/ TurnsBackward(s.back) # {}
  <2>1. SUFFICES ASSUME ~(s.back.idx > 1), TurnsBackward(s.back) = {}
                 PROVE  FALSE
    OBVIOUS
  <2>2. \A y, i : Spot(y, i) => CursorKey(s.back) <= KeyAt(y, i)
    BY <1>1, <2>1, BackwardStop
  <2> QED
    BY <1>2, <1>4, <2>2
<1> QED
  BY <1>4, <1>5, <1>6

(* Taking the front: what is left is the span without its least key,        *)
LEMMA FrontTaken ==
    ASSUME NEW lv, NEW lo, NEW hi, Standing(lv, lo, hi), NEW s, Held(s), s # NoSpan,
           NEW t, t = IF SamePosition(s.front, s.back) THEN NoSpan
                      ELSE [s EXCEPT !.front = StepForward(@)]
    PROVE  /\ Held(t) /\ Spanned(t) = Spanned(s) \ {CursorKey(s.front)}
           /\ CursorKey(s.front) \in Spanned(s)
           /\ \A k \in Spanned(s) : CursorKey(s.front) <= k
<1>1. /\ s \in [front : Cursor, back : Cursor] /\ Sits(s.front) /\ Sits(s.back)
      /\ CursorKey(s.front) <= CursorKey(s.back)
  BY DEF Held
<1>2. PICK a, z : a = CursorKey(s.front) /\ z = CursorKey(s.back)
  OBVIOUS
<1>3. /\ a \in StoredKeys /\ z \in StoredKeys /\ a \in Int /\ z \in Int /\ a <= z
      /\ StoredKeys \subseteq Int
  <2>1. /\ Spot(s.front.leaf, s.front.idx) /\ CursorKey(s.front) = KeyAt(s.front.leaf, s.front.idx)
        /\ Spot(s.back.leaf, s.back.idx) /\ CursorKey(s.back) = KeyAt(s.back.leaf, s.back.idx)
    BY <1>1, SitsSpot
  <2>2. CursorKey(s.front) \in StoredKeys /\ CursorKey(s.back) \in StoredKeys /\ StoredKeys \subseteq Int
    BY <2>1, StoredSpots
  <2> QED
    BY <1>1, <1>2, <2>2
<1>4. \A k : k \in Spanned(s) <=> k \in StoredKeys /\ a <= k /\ k <= z
  BY <1>2 DEF Spanned
<1>5. a \in Spanned(s) /\ \A k \in Spanned(s) : a <= k
  BY <1>3, <1>4
<1>6. CASE SamePosition(s.front, s.back)
  <2>1. a = z
    BY <1>2, <1>6 DEF SamePosition, CursorKey
  <2>2. t = NoSpan
    BY <1>6
  <2>3. \A k \in Spanned(s) : k = a
    BY <1>3, <1>4, <2>1
  <2>4. Spanned(t) = Spanned(s) \ {a}
    BY <2>2, <2>3 DEF Spanned
  <2> QED
    BY <1>2, <1>5, <2>2, <2>4 DEF Held
<1>7. CASE ~SamePosition(s.front, s.back)
  <2>1. PICK d : d = StepForward(s.front)
    OBVIOUS
  <2>2. CursorKey(s.front) < CursorKey(s.back) /\ (s.front.idx < KeysLen(Node(s.front.leaf)) \/ TurnsForward(s.front) # {})
    BY <1>7, EndsCanMove
  <2>3. Sits(d) /\ Adjacent(s.front.leaf, s.front.idx, d.leaf, d.idx)
    BY <1>1, <2>1, <2>2, StepForwardLeads
  <2>4. PICK w : w = CursorKey(d)
    OBVIOUS
  <2>5. w \in Int /\ Spot(d.leaf, d.idx) /\ KeyAt(d.leaf, d.idx) = w /\ d \in Cursor
    BY <2>3, <2>4, SitsSpot
  <2>6. KeyAt(s.front.leaf, s.front.idx) = a
    BY <1>1, <1>2, SitsSpot
  <2>7. a < w /\ \A y, i : Spot(y, i) => KeyAt(y, i) <= a \/ w <= KeyAt(y, i)
    BY <2>3, <2>5, <2>6 DEF Adjacent
  <2>8. \A k \in StoredKeys : k <= a \/ w <= k
    BY <2>7, StoredSpots
  <2>9. a < z
    BY <1>2, <2>2
  <2>10. w <= z
    BY <1>3, <2>5, <2>8, <2>9
  <2>11. t = [s EXCEPT !.front = d]
    BY <1>7, <2>1
  <2>12. t \in [front : Cursor, back : Cursor] /\ t.front = d /\ t.back = s.back
    BY <1>1, <2>5, <2>11
  <2>13. t # NoSpan
    BY <2>3, <2>12, NoCursorNowhere DEF NoSpan
  <2>14. Held(t)
    BY <1>1, <1>2, <2>3, <2>4, <2>10, <2>12 DEF Held
  <2>15. \A k : k \in Spanned(t) <=> k \in StoredKeys /\ w <= k /\ k <= z
    BY <1>2, <2>4, <2>12, <2>13 DEF Spanned
  <2>16. \A k \in StoredKeys : w <= k <=> a <= k /\ k # a
    BY <1>3, <2>5, <2>7, <2>8
  <2>17. Spanned(t) = Spanned(s) \ {a}
    BY <1>4, <2>15, <2>16
  <2> QED
    BY <1>2, <1>5, <2>14, <2>17
<1> QED
  BY <1>6, <1>7

(* and taking the back, without its greatest.                               *)
LEMMA BackTaken ==
    ASSUME NEW lv, NEW lo, NEW hi, Standing(lv, lo, hi), NEW s, Held(s), s # NoSpan,
           NEW t, t = IF SamePosition(s.front, s.back) THEN NoSpan
                      ELSE [s EXCEPT !.back = StepBackward(@)]
    PROVE  /\ Held(t) /\ Spanned(t) = Spanned(s) \ {CursorKey(s.back)}
           /\ CursorKey(s.back) \in Spanned(s)
           /\ \A k \in Spanned(s) : k <= CursorKey(s.back)
<1>1. /\ s \in [front : Cursor, back : Cursor] /\ Sits(s.front) /\ Sits(s.back)
      /\ CursorKey(s.front) <= CursorKey(s.back)
  BY DEF Held
<1>2. PICK a, z : a = CursorKey(s.back) /\ z = CursorKey(s.front)
  OBVIOUS
<1>3. /\ a \in StoredKeys /\ z \in StoredKeys /\ a \in Int /\ z \in Int /\ z <= a
      /\ StoredKeys \subseteq Int
  <2>1. /\ Spot(s.front.leaf, s.front.idx) /\ CursorKey(s.front) = KeyAt(s.front.leaf, s.front.idx)
        /\ Spot(s.back.leaf, s.back.idx) /\ CursorKey(s.back) = KeyAt(s.back.leaf, s.back.idx)
    BY <1>1, SitsSpot
  <2>2. CursorKey(s.front) \in StoredKeys /\ CursorKey(s.back) \in StoredKeys /\ StoredKeys \subseteq Int
    BY <2>1, StoredSpots
  <2> QED
    BY <1>1, <1>2, <2>2
<1>4. \A k : k \in Spanned(s) <=> k \in StoredKeys /\ k <= a /\ z <= k
  BY <1>2 DEF Spanned
<1>5. a \in Spanned(s) /\ \A k \in Spanned(s) : k <= a
  BY <1>3, <1>4
<1>6. CASE SamePosition(s.front, s.back)
  <2>1. a = z
    BY <1>2, <1>6 DEF SamePosition, CursorKey
  <2>2. t = NoSpan
    BY <1>6
  <2>3. \A k \in Spanned(s) : k = a
    BY <1>3, <1>4, <2>1
  <2>4. Spanned(t) = Spanned(s) \ {a}
    BY <2>2, <2>3 DEF Spanned
  <2> QED
    BY <1>2, <1>5, <2>2, <2>4 DEF Held
<1>7. CASE ~SamePosition(s.front, s.back)
  <2>1. PICK d : d = StepBackward(s.back)
    OBVIOUS
  <2>2. CursorKey(s.front) < CursorKey(s.back) /\ (s.back.idx > 1 \/ TurnsBackward(s.back) # {})
    BY <1>7, EndsCanMove
  <2>3. Sits(d) /\ Adjacent(d.leaf, d.idx, s.back.leaf, s.back.idx)
    BY <1>1, <2>1, <2>2, StepBackwardLeads
  <2>4. PICK w : w = CursorKey(d)
    OBVIOUS
  <2>5. w \in Int /\ Spot(d.leaf, d.idx) /\ KeyAt(d.leaf, d.idx) = w /\ d \in Cursor
    BY <2>3, <2>4, SitsSpot
  <2>6. KeyAt(s.back.leaf, s.back.idx) = a
    BY <1>1, <1>2, SitsSpot
  <2>7. w < a /\ \A y, i : Spot(y, i) => a <= KeyAt(y, i) \/ KeyAt(y, i) <= w
    BY <2>3, <2>5, <2>6 DEF Adjacent
  <2>8. \A k \in StoredKeys : a <= k \/ k <= w
    BY <2>7, StoredSpots
  <2>9. z < a
    BY <1>2, <2>2
  <2>10. z <= w
    BY <1>3, <2>5, <2>8, <2>9
  <2>11. t = [s EXCEPT !.back = d]
    BY <1>7, <2>1
  <2>12. t \in [front : Cursor, back : Cursor] /\ t.back = d /\ t.front = s.front
    BY <1>1, <2>5, <2>11
  <2>13. t # NoSpan
    BY <2>3, <2>12, NoCursorNowhere DEF NoSpan
  <2>14. Held(t)
    BY <1>1, <1>2, <2>3, <2>4, <2>10, <2>12 DEF Held
  <2>15. \A k : k \in Spanned(t) <=> k \in StoredKeys /\ k <= w /\ z <= k
    BY <1>2, <2>4, <2>12, <2>13 DEF Spanned
  <2>16. \A k \in StoredKeys : k <= w <=> k <= a /\ k # a
    BY <1>3, <2>5, <2>7, <2>8
  <2>17. Spanned(t) = Spanned(s) \ {a}
    BY <1>4, <2>15, <2>16
  <2> QED
    BY <1>2, <1>5, <2>14, <2>17
<1> QED
  BY <1>6, <1>7

(* The span of the bounds: all the keys they admit.                         *)
LEMMA SpanFound ==
    ASSUME NEW lv, NEW lo, NEW hi, Standing(lv, lo, hi),
           NEW f, NEW P, Starts(f, P), NEW b, NEW Q, Ends(b, Q),
           NEW s, s = SpanOf(f, b),
           NEW t, t = IF s # NoSpan /\ CursorKey(s.front) <= CursorKey(s.back) THEN s ELSE NoSpan
    PROVE  Held(t) /\ Spanned(t) = StoredKeys \cap P \cap Q
<1>1. /\ \A y, i : Spot(y, i) => (KeyAt(y, i) \in P <=> Sits(f) /\ CursorKey(f) <= KeyAt(y, i))
      /\ \A y, i : Spot(y, i) => (KeyAt(y, i) \in Q <=> Sits(b) /\ KeyAt(y, i) <= CursorKey(b))
      /\ (f = NoCursor \/ Sits(f)) /\ (b = NoCursor \/ Sits(b))
  BY DEF Starts, Ends, Placeable
<1>2. \A k \in StoredKeys : /\ k \in P <=> Sits(f) /\ CursorKey(f) <= k
                            /\ k \in Q <=> Sits(b) /\ k <= CursorKey(b)
  BY <1>1, StoredSpots
<1>3. CASE f = NoCursor \/ b = NoCursor
  <2>1. s = NoSpan
    BY <1>3 DEF SpanOf
  <2>2. t = NoSpan
    BY <2>1
  <2>3. \A k \in StoredKeys : ~(k \in P /\ k \in Q)
    BY <1>2, <1>3, NoCursorNowhere
  <2> QED
    BY <2>2, <2>3 DEF Held, Spanned
<1>4. CASE f # NoCursor /\ b # NoCursor
  <2>1. Sits(f) /\ Sits(b)
    BY <1>1, <1>4
  <2>2. s = [front |-> f, back |-> b] /\ f \in Cursor /\ b \in Cursor
    BY <1>4, <2>1, SitsSpot DEF SpanOf
  <2>3. s.front = f /\ s.back = b /\ s # NoSpan /\ s \in [front : Cursor, back : Cursor]
    BY <1>4, <2>2 DEF NoSpan
  <2>4. CursorKey(f) \in Int /\ CursorKey(b) \in Int /\ StoredKeys \subseteq Int
    BY <2>1, SitsSpot, StoredSpots
  <2>5. CASE CursorKey(f) <= CursorKey(b)
    <3>1. t = s
      BY <2>3, <2>5
    <3>2. Spanned(t) = {k \in StoredKeys : CursorKey(f) <= k /\ k <= CursorKey(b)}
      BY <2>3, <3>1 DEF Spanned
    <3>3. Held(t)
      BY <2>1, <2>3, <2>5, <3>1 DEF Held
    <3> QED
      BY <1>2, <2>1, <3>2, <3>3
  <2>6. CASE ~(CursorKey(f) <= CursorKey(b))
    <3>1. t = NoSpan
      BY <2>3, <2>6
    <3>2. ASSUME NEW k \in StoredKeys, k \in P, k \in Q PROVE FALSE
      <4>1. CursorKey(f) <= k /\ k <= CursorKey(b)
        BY <1>2, <3>2
      <4> QED
        BY <2>4, <2>6, <4>1
    <3> QED
      BY <3>1, <3>2 DEF Held, Spanned
  <2> QED
    BY <2>5, <2>6
<1> QED
  BY <1>3, <1>4

(* The ends of iter span every key,                                         *)
LEMMA FullFound ==
    ASSUME NEW lv, NEW lo, NEW hi, Standing(lv, lo, hi),
           NEW t, t = SpanOf(FirstCursor, LastCursor)
    PROVE  Held(t) /\ Spanned(t) = StoredKeys
<1>1. PICK f, b : f = FirstCursor /\ b = LastCursor
  OBVIOUS
<1>2. Starts(f, Key) /\ Ends(b, Key)
  BY <1>1, FirstCursorLeads, LastCursorLeads
<1>3. t = SpanOf(f, b)
  BY <1>1
<1>4. t # NoSpan => CursorKey(t.front) <= CursorKey(t.back)
  <2>1. SUFFICES ASSUME f # NoCursor, b # NoCursor PROVE CursorKey(f) <= CursorKey(b)
    BY <1>3 DEF SpanOf
  <2>2. Sits(f) /\ Sits(b)
    BY <1>2, <2>1 DEF Starts, Ends, Placeable
  <2>3. Spot(b.leaf, b.idx) /\ CursorKey(b) = KeyAt(b.leaf, b.idx) /\ KeyAt(b.leaf, b.idx) \in Key
    BY <2>2, SitsSpot, SpotKeys
  <2> QED
    BY <1>2, <2>3 DEF Starts
<1>5. t = IF t # NoSpan /\ CursorKey(t.front) <= CursorKey(t.back) THEN t ELSE NoSpan
  BY <1>4
<1>6. Held(t) /\ Spanned(t) = StoredKeys \cap Key \cap Key
  BY <1>2, <1>3, <1>5, SpanFound
<1> QED
  BY <1>6, StoredSpots

(* those of range the keys within its bounds.                               *)
LEMMA RangeFound ==
    ASSUME NEW lv, NEW lo, NEW hi, Standing(lv, lo, hi),
           NEW lower \in Bound, NEW upper \in Bound,
           NEW s, s = SpanOf(LowerBound(lower), UpperBound(upper)),
           NEW t, t = IF s # NoSpan /\ CursorKey(s.front) <= CursorKey(s.back) THEN s ELSE NoSpan
    PROVE  /\ Held(t)
           /\ Spanned(t) = {k \in StoredKeys : Scan!Above(k, lower) /\ Scan!Below(k, upper)}
<1>1. PICK P : P = {k \in Key : Scan!Above(k, lower)}
  OBVIOUS
<1>2. PICK Q : Q = {k \in Key : Scan!Below(k, upper)}
  OBVIOUS
<1>3. PICK f, b : f = LowerBound(lower) /\ b = UpperBound(upper)
  OBVIOUS
<1>4. Starts(f, P)
  <2>1. \A k \in Key : k \in P <=> Scan!Above(k, lower)
    BY <1>1
  <2> QED
    BY <1>3, <2>1, LowerBoundLeads
<1>5. Ends(b, Q)
  <2>1. \A k \in Key : k \in Q <=> Scan!Below(k, upper)
    BY <1>2
  <2> QED
    BY <1>3, <2>1, UpperBoundLeads
<1>6. Held(t) /\ Spanned(t) = StoredKeys \cap P \cap Q
  BY <1>3, <1>4, <1>5, SpanFound
<1> QED
  BY <1>1, <1>2, <1>6, StoredSpots

-----------------------------------------------------------------------------
(* While an iterator is open no call is under way, and its span is held.    *)
ScanInv ==
    /\ Filled /\ Sorted
    /\ open => pc = "idle"
    /\ ~open => span = NoSpan
    /\ Held(span)

(* While no call is under way the tree stands.                              *)
LEMMA StandingExists ==
    ASSUME Filled, Sorted, pc = "idle"
    PROVE  \E lv, lo, hi : Standing(lv, lo, hi)
<1>1. PICK lv, lo, hi, out : Inductive(lv) /\ Ordered(lo, hi, out)
  BY DEF Sorted
<1>2. out = hi
  BY <1>1 DEF Ordered
<1>3. Sized
  BY DEF Filled
<1> QED
  BY <1>1, <1>2, <1>3 DEF Standing

(* As long as the tree does not change, a span stays what it is.            *)
LEMMA HeldKept ==
    ASSUME NEW s, Held(s), UNCHANGED vars, span' = s
    PROVE  Held(span)'
<1>1. store' = store /\ root' = root
  BY DEF vars
<1>2. NoSpan' = NoSpan /\ Cursor' = Cursor
  BY DEF NoSpan, NoCursor, Cursor
<1> QED
  BY <1>1, <1>2 DEF Held, Sits, Above, Route, Leaves, Node, Inner, Children, CursorKey

(* The iterator is nowhere at first,                                        *)
LEMMA ScanInvInit ==
    ASSUME ScanInit
    PROVE  ScanInv
<1>1. Init /\ open = FALSE /\ span = NoSpan
  BY DEF ScanInit
<1>2. Filled /\ Sorted
  BY <1>1, FilledInit, InitSorted
<1> QED
  BY <1>1, <1>2 DEF ScanInv, Held

(* and each step of the caller, on the tree or the iterator, keeps it so.   *)
LEMMA ScanInvNext ==
    ASSUME ScanInv, [ScanNext]_scanVars
    PROVE  ScanInv'
<1>1. Filled /\ Sorted /\ (open => pc = "idle") /\ (~open => span = NoSpan) /\ Held(span)
  BY DEF ScanInv
<1>2. [Next]_vars
  BY DEF ScanNext, Full, RangeOf, Borrow, NextFront, NextBack, Release, scanVars
<1>3. Filled' /\ Sorted'
  BY <1>1, <1>2, FilledNext, SortedNext
<1>4. PICK s : s = span
  OBVIOUS
<1>5. PICK t : t = span'
  OBVIOUS
<1>6. NoSpan' = NoSpan
  BY DEF NoSpan, NoCursor
<1>7. (open' => pc' = "idle") /\ (~open' => span' = NoSpan')
  BY <1>1, <1>6 DEF ScanNext, Full, RangeOf, Borrow, NextFront, NextBack, Release, scanVars,
       vars, scan
<1>8. (span' = NoSpan) => Held(span)'
  BY <1>6 DEF Held
<1>9. ASSUME Held(t), UNCHANGED vars PROVE ScanInv'
  <2>1. Held(span)'
    BY <1>5, <1>9, HeldKept
  <2> QED
    BY <1>3, <1>7, <2>1 DEF ScanInv
<1>10. CASE span' = NoSpan
  BY <1>3, <1>7, <1>8, <1>10 DEF ScanInv
<1>11. CASE ~open /\ Next /\ UNCHANGED scan
  <2>1. span' = NoSpan
    BY <1>1, <1>11 DEF scan
  <2> QED
    BY <1>10, <2>1
<1>12. CASE Full
  <2>1. pc = "idle" /\ UNCHANGED vars /\ t = SpanOf(FirstCursor, LastCursor)
    BY <1>5, <1>12 DEF Full, Borrow
  <2>2. PICK lv, lo, hi : Standing(lv, lo, hi)
    BY <1>1, <2>1, StandingExists
  <2>3. Held(t)
    BY <2>1, <2>2, FullFound
  <2> QED
    BY <1>9, <2>1, <2>3
<1>13. ASSUME NEW lower \in Bound, NEW upper \in Bound, RangeOf(lower, upper) PROVE ScanInv'
  <2>1. PICK f : f = SpanOf(LowerBound(lower), UpperBound(upper))
    OBVIOUS
  <2>2. /\ pc = "idle" /\ UNCHANGED vars
        /\ t = IF f # NoSpan /\ CursorKey(f.front) <= CursorKey(f.back) THEN f ELSE NoSpan
    BY <1>5, <1>13, <2>1 DEF RangeOf, Borrow
  <2>3. PICK lv, lo, hi : Standing(lv, lo, hi)
    BY <1>1, <2>2, StandingExists
  <2>4. Held(t)
    BY <2>1, <2>2, <2>3, RangeFound
  <2> QED
    BY <1>9, <2>2, <2>4
<1>14. CASE NextFront
  <2>1. UNCHANGED vars /\ open /\ (span = NoSpan => span' = span)
    BY <1>14 DEF NextFront
  <2>2. CASE span # NoSpan
    <3>1. t = IF SamePosition(s.front, s.back) THEN NoSpan
              ELSE [s EXCEPT !.front = StepForward(@)]
      BY <1>4, <1>5, <1>14, <2>2 DEF NextFront
    <3>2. PICK lv, lo, hi : Standing(lv, lo, hi)
      BY <1>1, <2>1, StandingExists
    <3>3. Held(s) /\ s # NoSpan
      BY <1>1, <1>4, <2>2
    <3>4. Held(t)
      BY <3>1, <3>2, <3>3, FrontTaken
    <3> QED
      BY <1>9, <2>1, <3>4
  <2> QED
    BY <1>10, <2>1, <2>2
<1>15. CASE NextBack
  <2>1. UNCHANGED vars /\ open /\ (span = NoSpan => span' = span)
    BY <1>15 DEF NextBack
  <2>2. CASE span # NoSpan
    <3>1. t = IF SamePosition(s.front, s.back) THEN NoSpan
              ELSE [s EXCEPT !.back = StepBackward(@)]
      BY <1>4, <1>5, <1>15, <2>2 DEF NextBack
    <3>2. PICK lv, lo, hi : Standing(lv, lo, hi)
      BY <1>1, <2>1, StandingExists
    <3>3. Held(s) /\ s # NoSpan
      BY <1>1, <1>4, <2>2
    <3>4. Held(t)
      BY <3>1, <3>2, <3>3, BackTaken
    <3> QED
      BY <1>9, <2>1, <3>4
  <2> QED
    BY <1>10, <2>1, <2>2
<1>16. CASE Release
  BY <1>10, <1>16 DEF Release
<1>17. CASE UNCHANGED scanVars
  <2>1. UNCHANGED vars /\ t = s
    BY <1>4, <1>5, <1>17 DEF scanVars, scan
  <2> QED
    BY <1>1, <1>4, <1>9, <2>1
<1> QED
  BY <1>11, <1>12, <1>13, <1>14, <1>15, <1>16, <1>17 DEF ScanNext

(* It always holds.                                                         *)
LEMMA ScanInvAlways == ScanSpec => []ScanInv
<1>1. ScanInit => ScanInv
  BY ScanInvInit
<1>2. ScanInv /\ [ScanNext]_scanVars => ScanInv'
  BY ScanInvNext
<1> QED
  BY <1>1, <1>2, PTL DEF ScanSpec

(* Each end of an open iterator is on an entry and its frames lead from the *)
(* root to it, in every tree and after any steps from either end            *)
(* (iter.rs:105-187).                                                       *)
THEOREM CursorsValidTheorem == ScanSpec => []CursorsValid
<1>1. ScanInv => CursorsValid
  <2>1. SUFFICES ASSUME ScanInv, span # NoSpan
                 PROVE  OnEntry(span.front) /\ OnEntry(span.back)
    BY DEF CursorsValid
  <2>2. PICK f, b : f = span.front /\ b = span.back
    OBVIOUS
  <2>3. Sits(f) /\ Sits(b)
    BY <2>1, <2>2 DEF ScanInv, Held
  <2>4. OnEntry(f) /\ OnEntry(b)
    BY <2>3, SitsOnEntry
  <2> QED
    BY <2>2, <2>4
<1> QED
  BY <1>1, ScanInvAlways, PTL

(* As long as the ends differ each can move, so next and next_back may      *)
(* ignore whether it did (iter.rs:354 and 367).                             *)
THEOREM StepsMoveTheorem == ScanSpec => []StepsMove
<1>1. ScanInv => StepsMove
  <2>1. SUFFICES ASSUME ScanInv, span # NoSpan, ~SamePosition(span.front, span.back)
                 PROVE  StepsMove
    BY DEF StepsMove
  <2>2. Filled /\ Sorted /\ pc = "idle" /\ Held(span)
    BY <2>1 DEF ScanInv
  <2>3. PICK lv, lo, hi : Standing(lv, lo, hi)
    BY <2>2, StandingExists
  <2>4. PICK s : s = span
    OBVIOUS
  <2>5. Held(s) /\ s # NoSpan /\ ~SamePosition(s.front, s.back)
    BY <2>1, <2>2, <2>4
  <2>6. /\ s.front.idx < KeysLen(Node(s.front.leaf)) \/ TurnsForward(s.front) # {}
        /\ s.back.idx > 1 \/ TurnsBackward(s.back) # {}
    BY <2>3, <2>5, EndsCanMove
  <2> QED
    BY <2>4, <2>6 DEF StepsMove
<1> QED
  BY <1>1, ScanInvAlways, PTL

-----------------------------------------------------------------------------
(* What the iterator has left, as the map has it.                           *)

(* The leaves hold the keys of the map.                                     *)
LEMMA StoredAreKeyed ==
    ASSUME NEW lv, NEW lo, NEW hi, Standing(lv, lo, hi)
    PROVE  MapHeld /\ StoredKeys = {k \in Key : Contents[k] # None}
<1>1. Inductive(lv) /\ Ordered(lo, hi, hi)
  BY DEF Standing
<1>2. MapHeld
  BY <1>1, ContentsArePairs
<1>3. ASSUME NEW k \in StoredKeys PROVE k \in Keyed(Contents)
  <2>0. PICK x : \E j : Spot(x, j) /\ KeyAt(x, j) = k
    BY <1>3, StoredSpots
  <2>1. PICK j : Spot(x, j) /\ KeyAt(x, j) = k
    BY <2>0
  <2>2. x \in Leaves /\ j \in 1 .. Len(Node(x).keys)
    BY <2>1 DEF Spot
  <2>3. Node(x).keys[j] \in Keyed(Contents)
    BY <1>1, <1>2, <2>2, SlotIsKey
  <2> QED
    BY <2>1, <2>3 DEF KeyAt
<1>4. ASSUME NEW k \in Keyed(Contents) PROVE k \in StoredKeys
  <2>0. PICK x \in Leaves : \E j \in 1 .. Len(Node(x).keys) : Node(x).keys[j] = k
    BY <1>1, <1>2, <1>4, KeyHasSlot
  <2>1. PICK j \in 1 .. Len(Node(x).keys) : Node(x).keys[j] = k
    BY <2>0
  <2>2. Spot(x, j) /\ KeyAt(x, j) = k
    BY <2>1 DEF Spot, KeyAt
  <2> QED
    BY <2>2, StoredSpots
<1>5. Keyed(Contents) = {k \in Key : Contents[k] # None}
  BY DEF Keyed, Map!Entries
<1> HIDE DEF Contents
<1> QED
  BY <1>2, <1>3, <1>4, <1>5

(* An end of the iterator is on an entry of the map.                        *)
LEMMA CurrentIsMapped ==
    ASSUME NEW lv, NEW lo, NEW hi, Standing(lv, lo, hi), NEW c, Sits(c)
    PROVE  Current(c) = <<CursorKey(c), Contents[CursorKey(c)]>>
<1>1. Inductive(lv) /\ Ordered(lo, hi, hi)
  BY DEF Standing
<1>2. MapHeld
  BY <1>1, ContentsArePairs
<1>3. PICK x, j : x = c.leaf /\ j = c.idx
  OBVIOUS
<1>4. x \in Leaves /\ j \in 1 .. Len(Node(x).keys)
  BY <1>3, SitsSpot DEF Spot
<1>5. PICK k, v : k = Node(x).keys[j] /\ v = Node(x).vals[j]
  OBVIOUS
<1>6. k \in Key /\ v \in Val
  BY <1>1, <1>4, <1>5, PairOfKey
<1>7. <<k, v>> \in Pairs(store)
  <2>1. DOMAIN Node(x).keys = 1 .. Len(Node(x).keys)
    BY <1>4, LeafKeys, LenProperties
  <2>2. Node(x).keys[j] \in Range(Node(x).keys)
    BY <1>4, <2>1 DEF Range
  <2>3. /\ <<k, v>> = <<Node(x).keys[j], Node(x).vals[j]>>
        /\ Node(x).keys[j] \in Range(Node(x).keys)
    BY <1>5, <2>2
  <2> QED
    BY <1>1, <1>4, <2>3, PairIsInLeaf
<1> HIDE DEF Contents
<1>8. Contents[k] = v
  BY <1>2, <1>6, <1>7 DEF MapHeld, Holds
<1> QED
  BY <1>3, <1>5, <1>8 DEF Current, CursorKey

(* The keys due are those spanned.                                          *)
LEMMA DueIsSpanned ==
    ASSUME NEW lv, NEW lo, NEW hi, Standing(lv, lo, hi)
    PROVE  Due = Spanned(span)
<1>1. StoredKeys = {k \in Key : Contents[k] # None}
  BY StoredAreKeyed
<1> HIDE DEF Contents
<1> QED
  BY <1>1 DEF Due, Spanned

(* The map does not change with the iterator,                               *)
LEMMA MapKept ==
    ASSUME UNCHANGED vars
    PROVE  Contents' = Contents
<1>1. store' = store
  BY DEF vars
<1>2. Leaves' = Leaves
  BY <1>1 DEF Leaves, Inner, Node
<1>3. \A id : Node(id)' = Node(id)
  BY <1>1 DEF Node
<1> QED
  BY <1>2, <1>3 DEF Contents

(* so what is due next is what the new ends span.                           *)
LEMMA DueKept ==
    ASSUME NEW lv, NEW lo, NEW hi, Standing(lv, lo, hi),
           UNCHANGED vars, NEW s, span' = s
    PROVE  Contents' = Contents /\ Due' = Spanned(s)
<1>1. Contents' = Contents
  BY MapKept
<1>2. StoredKeys = {k \in Key : Contents[k] # None}
  BY StoredAreKeyed
<1>3. \A c : CursorKey(c)' = CursorKey(c)
  BY DEF CursorKey, Node, vars
<1>4. NoSpan' = NoSpan
  BY DEF NoSpan, NoCursor
<1> HIDE DEF Contents
<1> QED
  BY <1>1, <1>2, <1>3, <1>4 DEF Due, Spanned

-----------------------------------------------------------------------------
(* The steps of the iterator, as SortedScan has them. At first:             *)
LEMMA InitScans ==
    ASSUME ScanInit
    PROVE  Scan!Init
<1>1. Init /\ open = FALSE /\ span = NoSpan /\ yielded = None
      /\ asked = <<Unbounded, Unbounded>>
  BY DEF ScanInit
<1>2. Sorted /\ pc = "idle" /\ Filled
  BY <1>1, InitSorted, FilledInit DEF Init
<1>3. MapHeld
  BY <1>2, ContentsArePairs DEF Sorted
<1>4. Map!Init
  BY <1>1, <1>3, InitMaps
<1>5. Contents = [k \in Key |-> None]
  BY <1>4 DEF Map!Init
<1>6. Due = {}
  BY <1>1 DEF Due
<1> HIDE DEF Contents
<1> QED
  BY <1>1, <1>5, <1>6 DEF Scan!Init, Scan!Unbounded, Unbounded

(* A call of the tree, with no iterator open.                               *)
LEMMA CallScans ==
    ASSUME ScanInv, MapHeld', ~open, UNCHANGED scan
    PROVE  Scan!Change
<1>1. span = NoSpan
  BY DEF ScanInv
<1>2. Contents' \in [Key -> Val \cup {None}]
  BY DEF MapHeld, Holds
<1>3. UNCHANGED <<open, asked, span, yielded>>
  BY DEF scan
<1>4. NoSpan' = NoSpan
  BY DEF NoSpan, NoCursor
<1>5. Due = {} /\ Due' = {}
  BY <1>1, <1>3, <1>4 DEF Due
<1> HIDE DEF Contents
<1> QED
  BY <1>2, <1>3, <1>5 DEF Scan!Change

(* iter opens on every entry,                                               *)
LEMMA FullScans ==
    ASSUME ScanInv, Full
    PROVE  Scan!Open(Unbounded, Unbounded)
<1>1. PICK t : t = span'
  OBVIOUS
<1>2. /\ pc = "idle" /\ ~open /\ UNCHANGED <<vars, yielded>> /\ open' = TRUE
      /\ asked' = <<Unbounded, Unbounded>> /\ t = SpanOf(FirstCursor, LastCursor)
  BY <1>1 DEF Full, Borrow
<1>3. PICK lv, lo, hi : Standing(lv, lo, hi)
  BY <1>2, StandingExists DEF ScanInv
<1>4. Spanned(t) = StoredKeys
  BY <1>2, <1>3, FullFound
<1>5. Contents' = Contents /\ Due' = Spanned(t)
  BY <1>1, <1>2, <1>3, DueKept
<1>6. StoredKeys = {k \in Key : Contents[k] # None}
  BY <1>3, StoredAreKeyed
<1> HIDE DEF Contents
<1>7. Due' = Scan!Within(Unbounded, Unbounded)
  BY <1>4, <1>5, <1>6 DEF Scan!Within, Scan!Above, Scan!Below, Unbounded
<1> QED
  BY <1>2, <1>5, <1>7 DEF Scan!Open

(* range on those within its bounds.                                        *)
LEMMA RangeScans ==
    ASSUME ScanInv, NEW lower \in Bound, NEW upper \in Bound, RangeOf(lower, upper)
    PROVE  Scan!Open(lower, upper)
<1>1. PICK t : t = span'
  OBVIOUS
<1>2. PICK f : f = SpanOf(LowerBound(lower), UpperBound(upper))
  OBVIOUS
<1>3. /\ pc = "idle" /\ ~open /\ UNCHANGED <<vars, yielded>> /\ open' = TRUE
      /\ asked' = <<lower, upper>>
      /\ t = IF f # NoSpan /\ CursorKey(f.front) <= CursorKey(f.back) THEN f ELSE NoSpan
  BY <1>1, <1>2 DEF RangeOf, Borrow
<1>4. PICK lv, lo, hi : Standing(lv, lo, hi)
  BY <1>3, StandingExists DEF ScanInv
<1>5. Spanned(t) = {k \in StoredKeys : Scan!Above(k, lower) /\ Scan!Below(k, upper)}
  BY <1>2, <1>3, <1>4, RangeFound
<1>6. Contents' = Contents /\ Due' = Spanned(t)
  BY <1>1, <1>3, <1>4, DueKept
<1>7. StoredKeys = {k \in Key : Contents[k] # None}
  BY <1>4, StoredAreKeyed
<1> HIDE DEF Contents
<1>8. Due' = Scan!Within(lower, upper)
  BY <1>5, <1>6, <1>7 DEF Scan!Within
<1> QED
  BY <1>3, <1>6, <1>8 DEF Scan!Open

(* next yields the least key due, or None if there is none,                 *)
LEMMA FrontScans ==
    ASSUME ScanInv, NextFront
    PROVE  Scan!TakeFirst
<1>1. PICK s, t : s = span /\ t = span'
  OBVIOUS
<1>2. /\ open /\ UNCHANGED <<vars, open, asked>> /\ pc = "idle" /\ Held(s)
      /\ s = NoSpan => yielded' = None /\ t = s
      /\ s # NoSpan => /\ yielded' = Current(s.front)
                       /\ t = IF SamePosition(s.front, s.back) THEN NoSpan
                              ELSE [s EXCEPT !.front = StepForward(@)]
  BY <1>1 DEF NextFront, ScanInv
<1>3. PICK lv, lo, hi : Standing(lv, lo, hi)
  BY <1>2, StandingExists DEF ScanInv
<1>4. Contents' = Contents /\ Due' = Spanned(t) /\ Due = Spanned(s)
  BY <1>1, <1>2, <1>3, DueKept, DueIsSpanned
<1>5. CASE s = NoSpan
  <2>1. Due = {} /\ Due' = Due /\ yielded' = None
    BY <1>2, <1>4, <1>5 DEF Spanned
  <2> HIDE DEF Contents
  <2> QED
    BY <1>2, <1>4, <2>1 DEF Scan!TakeFirst, Scan!Exhausted
<1>6. CASE s # NoSpan
  <2>1. PICK k : k = CursorKey(s.front)
    OBVIOUS
  <2>2. Spanned(t) = Spanned(s) \ {k} /\ k \in Spanned(s) /\ \A j \in Spanned(s) : k <= j
    BY <1>2, <1>3, <1>6, <2>1, FrontTaken
  <2>3. Sits(s.front)
    BY <1>2, <1>6 DEF Held
  <2>4. Current(s.front) = <<k, Contents[k]>>
    BY <1>3, <2>1, <2>3, CurrentIsMapped
  <2> HIDE DEF Contents
  <2>5. Scan!Yield(k)
    BY <1>2, <1>4, <1>6, <2>2, <2>4 DEF Scan!Yield
  <2>6. k \in Due /\ \A j \in Due : k <= j
    BY <1>4, <2>2
  <2> QED
    BY <1>2, <1>4, <2>5, <2>6 DEF Scan!TakeFirst
<1> QED
  BY <1>5, <1>6

(* next_back the greatest.                                                  *)
LEMMA BackScans ==
    ASSUME ScanInv, NextBack
    PROVE  Scan!TakeLast
<1>1. PICK s, t : s = span /\ t = span'
  OBVIOUS
<1>2. /\ open /\ UNCHANGED <<vars, open, asked>> /\ pc = "idle" /\ Held(s)
      /\ s = NoSpan => yielded' = None /\ t = s
      /\ s # NoSpan => /\ yielded' = Current(s.back)
                       /\ t = IF SamePosition(s.front, s.back) THEN NoSpan
                              ELSE [s EXCEPT !.back = StepBackward(@)]
  BY <1>1 DEF NextBack, ScanInv
<1>3. PICK lv, lo, hi : Standing(lv, lo, hi)
  BY <1>2, StandingExists DEF ScanInv
<1>4. Contents' = Contents /\ Due' = Spanned(t) /\ Due = Spanned(s)
  BY <1>1, <1>2, <1>3, DueKept, DueIsSpanned
<1>5. CASE s = NoSpan
  <2>1. Due = {} /\ Due' = Due /\ yielded' = None
    BY <1>2, <1>4, <1>5 DEF Spanned
  <2> HIDE DEF Contents
  <2> QED
    BY <1>2, <1>4, <2>1 DEF Scan!TakeLast, Scan!Exhausted
<1>6. CASE s # NoSpan
  <2>1. PICK k : k = CursorKey(s.back)
    OBVIOUS
  <2>2. Spanned(t) = Spanned(s) \ {k} /\ k \in Spanned(s) /\ \A j \in Spanned(s) : j <= k
    BY <1>2, <1>3, <1>6, <2>1, BackTaken
  <2>3. Sits(s.back)
    BY <1>2, <1>6 DEF Held
  <2>4. Current(s.back) = <<k, Contents[k]>>
    BY <1>3, <2>1, <2>3, CurrentIsMapped
  <2> HIDE DEF Contents
  <2>5. Scan!Yield(k)
    BY <1>2, <1>4, <1>6, <2>2, <2>4 DEF Scan!Yield
  <2>6. k \in Due /\ \A j \in Due : j <= k
    BY <1>4, <2>2
  <2> QED
    BY <1>2, <1>4, <2>5, <2>6 DEF Scan!TakeLast
<1> QED
  BY <1>5, <1>6

(* The caller lets go.                                                      *)
LEMMA ReleaseScans ==
    ASSUME Release
    PROVE  Scan!Drop
<1>1. /\ open /\ open' = FALSE /\ asked' = <<Unbounded, Unbounded>>
      /\ span' = NoSpan /\ yielded' = None /\ UNCHANGED vars
  BY DEF Release
<1>2. Contents' = Contents
  BY <1>1, MapKept
<1>3. NoSpan' = NoSpan
  BY DEF NoSpan, NoCursor
<1>4. Due' = {}
  BY <1>1, <1>3 DEF Due
<1> HIDE DEF Contents
<1> QED
  BY <1>1, <1>2, <1>4 DEF Scan!Drop, Scan!Unbounded, Unbounded

(* Nothing happens.                                                         *)
LEMMA StutterScans ==
    ASSUME ScanInv, UNCHANGED scanVars
    PROVE  UNCHANGED Scan!vars
<1>1. UNCHANGED <<vars, open, asked, span, yielded>>
  BY DEF scanVars, scan
<1>2. Contents' = Contents
  BY <1>1, MapKept
<1>3. NoSpan' = NoSpan /\ \A c : CursorKey(c)' = CursorKey(c)
  BY <1>1 DEF NoSpan, NoCursor, CursorKey, Node, vars
<1> HIDE DEF Contents
<1>4. Due' = Due
  BY <1>1, <1>2, <1>3 DEF Due
<1> QED
  BY <1>1, <1>2, <1>4 DEF Scan!vars

(* Every step is one of SortedScan.                                         *)
LEMMA StepScans ==
    ASSUME ScanInv, MapHeld', [ScanNext]_scanVars
    PROVE  [Scan!Next]_(Scan!vars)
<1>1. Bound = Scan!Bound /\ Unbounded \in Bound
  BY DEF Bound, Scan!Bound, Unbounded, Scan!Unbounded
<1>2. CASE ~open /\ Next /\ UNCHANGED scan
  BY <1>2, CallScans DEF Scan!Next
<1>3. CASE Full
  BY <1>1, <1>3, FullScans DEF Scan!Next
<1>4. ASSUME NEW lower \in Bound, NEW upper \in Bound, RangeOf(lower, upper)
      PROVE  Scan!Next
  BY <1>1, <1>4, RangeScans DEF Scan!Next
<1>5. CASE NextFront
  BY <1>5, FrontScans DEF Scan!Next
<1>6. CASE NextBack
  BY <1>6, BackScans DEF Scan!Next
<1>7. CASE Release
  BY <1>7, ReleaseScans DEF Scan!Next
<1>8. CASE UNCHANGED scanVars
  BY <1>8, StutterScans
<1> QED
  BY <1>2, <1>3, <1>4, <1>5, <1>6, <1>7, <1>8 DEF ScanNext

(* iter and range, with their cursors, frames and bounds, yield what they   *)
(* promise: the entries of the map within the bounds in order, each once,   *)
(* from either end in any interleaving, and then None, for every order of   *)
(* tree, set of keys and sequence of calls (iter.rs:313-371).               *)
THEOREM ScanTheorem == ScanSpec => ImplementsScan
<1>1. ScanInit => Scan!Init
  BY InitScans
<1>2. ScanInv /\ MapHeld' /\ [ScanNext]_scanVars => [Scan!Next]_(Scan!vars)
  BY StepScans
<1>3. ScanInv => MapHeld
  BY ContentsArePairs DEF ScanInv, Sorted
<1> QED
  BY <1>1, <1>2, <1>3, ScanInvAlways, PTL DEF ScanSpec, ImplementsScan, Scan!Spec
=============================================================================
