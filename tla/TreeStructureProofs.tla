------------------------ MODULE TreeStructureProofs ------------------------
(* For every order, key and value set and id space: the links of the nodes  *)
(* form a tree with all leaves at one depth after every step of every call, *)
(* the frames of the running call follow its links, and the nodes hold as   *)
(* many keys as they may.                                                   *)
EXTENDS BPlusTree, StoreTreeProofs

Frame == [id : NodeId, idx : Nat \ {0}]

(* The frames p of a call that has come from the root r to the node c.      *)
Framed(st, r, p, c, lv) ==
    /\ IF p = <<>> THEN c = r ELSE p[1].id = r
    /\ c \in Live(st)
    /\ \A j \in 1 .. Len(p) :
          /\ p[j].id \in Live(st)
          /\ ~IsLeaf(Fetch(st, p[j].id))
          /\ p[j].idx \in 1 .. Len(Fetch(st, p[j].id).children)
          /\ Fetch(st, p[j].id).children[p[j].idx] = IF j = Len(p) THEN c ELSE p[j + 1].id
          /\ lv[p[j].id] + j = lv[r] + 1
    /\ lv[c] + Len(p) = lv[r]

(* The inductive invariant, for a given assignment of levels.               *)
Inductive(lv) ==
    /\ TypeOK
    /\ TreeOK(store, {root} \cup Pending, lv)
    /\ root \notin Pending
    /\ Framed(store, root, path, cur, lv)
    /\ pc = "idle" => path = <<>>
    /\ \A id \in Pending : lv[id] = lv[cur]

(* The last frame links the node the call has come to, one level below it.  *)
LEMMA LastFrame ==
    ASSUME NEW st, NEW r, NEW p \in Seq(Frame), p # <<>>, NEW c,
           NEW lv \in [Live(st) -> Nat], Framed(st, r, p, c, lv)
    PROVE  LET f == Last(p)
           IN  /\ f \in Frame
               /\ f = p[Len(p)]
               /\ Len(p) \in Nat \ {0}
               /\ f.id \in Live(st)
               /\ ~IsLeaf(Fetch(st, f.id))
               /\ f.idx \in 1 .. Len(Fetch(st, f.id).children)
               /\ Fetch(st, f.id).children[f.idx] = c
               /\ lv[f.id] = lv[c] + 1
               /\ lv[f.id] + Len(p) = lv[r] + 1
               /\ c \in Live(st)
               /\ lv[c] \in Nat /\ lv[r] \in Nat /\ lv[f.id] \in Nat
<1>1. Len(p) \in Nat \ {0} /\ Last(p) \in Frame /\ Last(p) = p[Len(p)]
  BY PopProperties DEF Last
<1>2. Len(p) \in 1 .. Len(p) /\ 1 \in 1 .. Len(p)
  BY <1>1
<1>3. /\ p[Len(p)].id \in Live(st)
      /\ ~IsLeaf(Fetch(st, p[Len(p)].id))
      /\ p[Len(p)].idx \in 1 .. Len(Fetch(st, p[Len(p)].id).children)
      /\ Fetch(st, p[Len(p)].id).children[p[Len(p)].idx] = c
      /\ lv[p[Len(p)].id] + Len(p) = lv[r] + 1
      /\ p[1].id = r /\ p[1].id \in Live(st)
      /\ c \in Live(st) /\ lv[c] + Len(p) = lv[r]
  BY <1>2 DEF Framed
<1>4. lv[c] \in Nat /\ lv[r] \in Nat /\ lv[p[Len(p)].id] \in Nat
  BY <1>3
<1>5. lv[p[Len(p)].id] = lv[c] + 1
  <2> DEFINE a == lv[p[Len(p)].id]
             b == lv[c]
             d == lv[r]
             n == Len(p)
  <2>1. a \in Nat /\ b \in Nat /\ d \in Nat /\ n \in Nat /\ a + n = d + 1 /\ b + n = d
    BY <1>1, <1>3, <1>4
  <2> HIDE DEF a, b, d, n
  <2>2. a = b + 1
    BY <2>1
  <2> QED
    BY <2>2 DEF a, b
<1> QED
  BY <1>1, <1>3, <1>4, <1>5

(* Going down adds a frame.                                                 *)
LEMMA DescendFrame ==
    ASSUME NEW st, NEW r, NEW p \in Seq(Frame), NEW c \in NodeId,
           NEW lv \in [Live(st) -> Nat], Framed(st, r, p, c, lv),
           ~IsLeaf(Fetch(st, c)), NEW i \in 1 .. Len(Fetch(st, c).children),
           NEW d \in Live(st), d = Fetch(st, c).children[i], lv[d] + 1 = lv[c],
           i \in Nat \ {0}
    PROVE  LET q == Append(p, [id |-> c, idx |-> i])
           IN  q \in Seq(Frame) /\ Framed(st, r, q, d, lv)
<1> DEFINE f == [id |-> c, idx |-> i]
           q == Append(p, f)
           n == Len(p)
<1>1. f \in Frame /\ f.id = c /\ f.idx = i
  BY DEF Frame
<1> HIDE DEF f
<1>2. /\ q \in Seq(Frame) /\ Len(q) = n + 1 /\ n \in Nat
      /\ \A j \in 1 .. n : q[j] = p[j]
      /\ q[n + 1] = f
  BY <1>1, AppendProperties, LenProperties
<1> HIDE DEF q
<1>3. /\ c \in Live(st) /\ lv[c] + n = lv[r]
      /\ \A j \in 1 .. n :
            /\ p[j].id \in Live(st)
            /\ ~IsLeaf(Fetch(st, p[j].id))
            /\ p[j].idx \in 1 .. Len(Fetch(st, p[j].id).children)
            /\ Fetch(st, p[j].id).children[p[j].idx] = IF j = n THEN c ELSE p[j + 1].id
            /\ lv[p[j].id] + j = lv[r] + 1
  BY DEF Framed, n
<1>4. lv[c] \in Nat /\ lv[d] \in Nat
  BY <1>3
<1>5. q # <<>>
  <2>1. Len(q) # 0
    BY <1>2
  <2> QED
    BY <2>1, EmptySeq
<1>6. q[1].id = r
  <2>1. CASE p = <<>>
    <3>1. n = 0
      BY <2>1, EmptySeq
    <3>2. q[1] = f
      BY <1>2, <3>1
    <3> QED
      BY <1>1, <2>1, <3>2 DEF Framed
  <2>2. CASE p # <<>>
    <3>1. 1 \in 1 .. n
      BY <2>2, EmptySeq, <1>2
    <3> QED
      BY <1>2, <2>2, <3>1 DEF Framed
  <2> QED
    BY <2>1, <2>2
<1>7. ASSUME NEW j \in 1 .. Len(q)
      PROVE  /\ q[j].id \in Live(st)
             /\ ~IsLeaf(Fetch(st, q[j].id))
             /\ q[j].idx \in 1 .. Len(Fetch(st, q[j].id).children)
             /\ Fetch(st, q[j].id).children[q[j].idx] = IF j = Len(q) THEN d ELSE q[j + 1].id
             /\ lv[q[j].id] + j = lv[r] + 1
  <2>1. CASE j = n + 1
    <3>1. q[j] = f /\ j = Len(q)
      BY <1>2, <2>1
    <3>2. lv[c] + (n + 1) = lv[r] + 1
      BY <1>2, <1>3, <1>4
    <3> QED
      BY <1>1, <1>3, <2>1, <3>1, <3>2
  <2>2. CASE j # n + 1
    <3>1. j \in 1 .. n /\ j # Len(q)
      BY <1>2, <2>2
    <3>2. q[j] = p[j]
      BY <1>2, <3>1
    <3>3. (IF j = n THEN c ELSE p[j + 1].id) = q[j + 1].id
      <4>1. CASE j = n
        BY <1>1, <1>2, <4>1
      <4>2. CASE j # n
        <5>1. j + 1 \in 1 .. n
          BY <1>2, <3>1, <4>2
        <5> QED
          BY <1>2, <4>2, <5>1
      <4> QED
        BY <4>1, <4>2
    <3> QED
      BY <1>3, <3>1, <3>2, <3>3
  <2> QED
    BY <2>1, <2>2
<1>8. lv[d] + Len(q) = lv[r]
  BY <1>2, <1>3, <1>4
<1>9. Framed(st, r, q, d, lv)
  BY <1>5, <1>6, <1>7, <1>8 DEF Framed
<1> QED
  BY <1>2, <1>9 DEF q, f

(* Going up drops one.                                                      *)
LEMMA PopFrame ==
    ASSUME NEW st, NEW r, NEW p \in Seq(Frame), p # <<>>, NEW c,
           NEW lv \in [Live(st) -> Nat], Framed(st, r, p, c, lv)
    PROVE  /\ Front(p) \in Seq(Frame)
           /\ Framed(st, r, Front(p), Last(p).id, lv)
<1> DEFINE q == Front(p)
           n == Len(p)
           f == Last(p).id
<1>1. /\ q \in Seq(Frame) /\ n \in Nat \ {0} /\ Len(q) = n - 1
      /\ \A j \in 1 .. n - 1 : q[j] = p[j]
      /\ f = p[n].id
  BY PopProperties DEF Last
<1> HIDE DEF q
<1>2. f \in Live(st) /\ lv[f] + n = lv[r] + 1 /\ lv[f] \in Nat /\ lv[r] \in Nat
  BY LastFrame
<1> HIDE DEF f
<1>3. /\ p[1].id = r
      /\ \A j \in 1 .. n :
            /\ p[j].id \in Live(st)
            /\ ~IsLeaf(Fetch(st, p[j].id))
            /\ p[j].idx \in 1 .. Len(Fetch(st, p[j].id).children)
            /\ Fetch(st, p[j].id).children[p[j].idx] = IF j = n THEN c ELSE p[j + 1].id
            /\ lv[p[j].id] + j = lv[r] + 1
  BY DEF Framed
<1> HIDE DEF n
<1>4. IF q = <<>> THEN f = r ELSE q[1].id = r
  <2>1. CASE q = <<>>
    <3>1. n = 1
      BY <1>1, <2>1, EmptySeq
    <3> QED
      BY <1>1, <1>3, <2>1, <3>1
  <2>2. CASE q # <<>>
    <3>1. n - 1 # 0
      BY <1>1, <2>2, EmptySeq
    <3>2. q[1] = p[1]
      BY <1>1, <3>1
    <3> QED
      BY <1>3, <2>2, <3>2
  <2> QED
    BY <2>1, <2>2
<1>5. ASSUME NEW j \in 1 .. Len(q)
      PROVE  /\ q[j].id \in Live(st)
             /\ ~IsLeaf(Fetch(st, q[j].id))
             /\ q[j].idx \in 1 .. Len(Fetch(st, q[j].id).children)
             /\ Fetch(st, q[j].id).children[q[j].idx] = IF j = Len(q) THEN f ELSE q[j + 1].id
             /\ lv[q[j].id] + j = lv[r] + 1
  <2>1. j \in 1 .. n - 1 /\ j \in 1 .. n /\ j # n /\ q[j] = p[j]
    BY <1>1
  <2>2. p[j + 1].id = IF j = Len(q) THEN f ELSE q[j + 1].id
    <3>1. CASE j = n - 1
      BY <1>1, <3>1
    <3>2. CASE j # n - 1
      <4>1. j + 1 \in 1 .. n - 1
        BY <1>1, <2>1, <3>2
      <4> QED
        BY <1>1, <3>2, <4>1
    <3> QED
      BY <3>1, <3>2
  <2> QED
    BY <1>3, <2>1, <2>2
<1>6. lv[f] + Len(q) = lv[r]
  <2> DEFINE a == lv[f]
             b == lv[r]
             m == Len(q)
  <2>1. a \in Nat /\ b \in Nat /\ n \in Nat /\ a + n = b + 1 /\ m = n - 1
    BY <1>1, <1>2
  <2> HIDE DEF a, b, m
  <2>2. a + m = b
    BY <2>1
  <2> QED
    BY <2>2 DEF a, b, m
<1>7. Framed(st, r, q, f, lv)
  BY <1>2, <1>4, <1>5, <1>6 DEF Framed
<1> QED
  BY <1>1, <1>7 DEF q, f

(* The frames hold as long as no node above the one reached changes.        *)
LEMMA KeepFrames ==
    ASSUME NEW st, NEW r, NEW p \in Seq(Frame), NEW c,
           NEW lv \in [Live(st) -> Nat], Framed(st, r, p, c, lv),
           NEW new, NEW newLv, c \in Live(new), newLv[c] = lv[c],
           \A id \in Live(st) : lv[id] > lv[c] => /\ id \in Live(new)
                                                  /\ Fetch(new, id) = Fetch(st, id)
                                                  /\ newLv[id] = lv[id]
    PROVE  Framed(new, r, p, c, newLv)
<1> DEFINE n == Len(p)
<1>1. /\ IF p = <<>> THEN c = r ELSE p[1].id = r
      /\ c \in Live(st) /\ lv[c] + n = lv[r]
      /\ n \in Nat
      /\ \A j \in 1 .. n :
            /\ p[j].id \in Live(st)
            /\ ~IsLeaf(Fetch(st, p[j].id))
            /\ p[j].idx \in 1 .. Len(Fetch(st, p[j].id).children)
            /\ Fetch(st, p[j].id).children[p[j].idx] = IF j = n THEN c ELSE p[j + 1].id
            /\ lv[p[j].id] + j = lv[r] + 1
  BY LenProperties DEF Framed
<1> HIDE DEF n
<1>2. r \in Live(st)
  <2>1. p # <<>> => 1 \in 1 .. n
    BY <1>1, EmptySeq DEF n
  <2> QED
    BY <1>1, <2>1
<1>3. lv[c] \in Nat /\ lv[r] \in Nat
  BY <1>1, <1>2
<1>4. ASSUME NEW j \in 1 .. n
      PROVE  /\ p[j].id \in Live(new)
             /\ Fetch(new, p[j].id) = Fetch(st, p[j].id)
             /\ newLv[p[j].id] = lv[p[j].id]
  <2>1. lv[p[j].id] \in Nat /\ lv[p[j].id] + j = lv[c] + n + 1
    BY <1>1
  <2>2. lv[p[j].id] > lv[c]
    BY <1>1, <1>3, <2>1
  <2> QED
    BY <1>1, <2>2
<1>5. newLv[r] = lv[r]
  <2>1. CASE p = <<>>
    BY <1>1, <2>1
  <2>2. CASE p # <<>>
    <3>1. 1 \in 1 .. n
      BY <1>1, <2>2, EmptySeq DEF n
    <3> QED
      BY <1>1, <1>4, <2>2, <3>1
  <2> QED
    BY <2>1, <2>2
<1>6. \A j \in 1 .. n :
         /\ p[j].id \in Live(new)
         /\ ~IsLeaf(Fetch(new, p[j].id))
         /\ p[j].idx \in 1 .. Len(Fetch(new, p[j].id).children)
         /\ Fetch(new, p[j].id).children[p[j].idx] = IF j = n THEN c ELSE p[j + 1].id
         /\ newLv[p[j].id] + j = newLv[r] + 1
  BY <1>1, <1>4, <1>5
<1>7. (IF p = <<>> THEN c = r ELSE p[1].id = r) /\ newLv[c] + n = newLv[r]
  BY <1>1, <1>5
<1> QED
  BY <1>6, <1>7 DEF Framed, n

(* What the invariant says of the state in which a step is taken.           *)
LEMMA CallFacts ==
    ASSUME NEW lv, Inductive(lv)
    PROVE  /\ store \in StoreType /\ StoreOK(store)
           /\ lv \in [Live(store) -> Nat]
           /\ root \in Live(store) /\ cur \in Live(store)
           /\ Live(store) \subseteq NodeId
           /\ path \in Seq(Frame)
           /\ Framed(store, root, path, cur, lv)
           /\ Node(cur) \in AnyNode /\ ShapeOK(Node(cur))
           /\ IsLeaf(Node(cur)) <=> lv[cur] = 0
           /\ len \in Int /\ ret \in Val \cup {None}
           /\ pc \notin {"idle"} => arg.key \in Key
           /\ pc = "absorb" => /\ split \in [sep : Key, right : NodeId]
                               /\ Pending = {split.right}
                               /\ split.right \in Live(store)
                               /\ split.right # root
                               /\ lv[split.right] = lv[cur]
           /\ pc # "absorb" => split = NoSplit /\ Pending = {} /\ {root} \cup Pending = {root}
<1>1. /\ TypeOK
      /\ TreeOK(store, {root} \cup Pending, lv)
      /\ root \notin Pending
      /\ Framed(store, root, path, cur, lv)
      /\ \A id \in Pending : lv[id] = lv[cur]
  BY DEF Inductive
<1>2. /\ store \in StoreType /\ StoreOK(store)
      /\ lv \in [Live(store) -> Nat]
      /\ {root} \cup Pending \subseteq Live(store)
  BY <1>1 DEF TreeOK, Linked
<1>3. Live(store) \subseteq NodeId
  BY <1>2, LiveProperties
<1>4. path \in Seq(Frame) /\ len \in Int /\ ret \in Val \cup {None}
  BY <1>1 DEF TypeOK, Frame
<1>5. cur \in Live(store)
  BY <1>1 DEF Framed
<1>6. Node(cur) \in AnyNode /\ ShapeOK(Node(cur)) /\ (IsLeaf(Node(cur)) <=> lv[cur] = 0)
  BY <1>1, <1>5, TreeFacts DEF Node
<1>7. pc # "idle" => arg.key \in Key
  BY <1>1 DEF TypeOK
<1>8. ASSUME pc = "absorb"
      PROVE  split \in [sep : Key, right : NodeId] /\ Pending = {split.right}
  <2>1. split \in [sep : Key, right : NodeId]
    BY <1>1, <1>8 DEF TypeOK
  <2>2. split.sep # None
    BY <2>1, NoneAssumption
  <2>3. split # NoSplit
    BY <2>2 DEF NoSplit
  <2> QED
    BY <2>1, <2>3 DEF Pending
<1>9. pc # "absorb" => split = NoSplit /\ Pending = {}
  BY <1>1 DEF TypeOK, Pending
<1> QED
  BY <1>1, <1>2, <1>3, <1>4, <1>5, <1>6, <1>7, <1>8, <1>9

(* A call that returns leaves a tree below the root and no frames.          *)
LEMMA ReturnKeeps ==
    ASSUME NEW r, NEW x \in Val \cup {None}, Return(x, r), len' \in Int,
           NEW lv, TreeOK(store', {r}, lv)
    PROVE  Inductive(lv)'
<1>1. /\ pc' = "idle" /\ arg' = NoArg /\ path' = <<>> /\ root' = r /\ cur' = r
      /\ split' = NoSplit /\ ret' = x
  BY DEF Return
<1>2. /\ store' \in StoreType /\ StoreOK(store') /\ lv \in [Live(store') -> Nat]
      /\ r \in Live(store')
  BY DEF TreeOK, Linked
<1>3. r \in NodeId /\ lv[r] \in Nat
  BY <1>2, LiveProperties
<1>4. TypeOK'
  BY <1>1, <1>2, <1>3 DEF TypeOK
<1>5. Pending' = {} /\ {root'} \cup Pending' = {r}
  BY <1>1 DEF Pending
<1>6. Framed(store', r, <<>>, r, lv)
  BY <1>2, <1>3 DEF Framed
<1> QED
  BY <1>1, <1>4, <1>5, <1>6 DEF Inductive
-----------------------------------------------------------------------------
(* One lemma for each kind of step: it leaves the invariant true.           *)

(* The new tree, and each action of a call, with the levels it needs.       *)
LEMMA InitKeeps ==
    ASSUME Init
    PROVE  Inductive([j \in Live(store) |-> 0])
<1> DEFINE lv == [j \in Live(store) |-> 0]
<1>1. /\ AllocId(EmptyStore) = 1 /\ ResetStore \in StoreType /\ 1 \in NodeId
      /\ Live(ResetStore) = {1}
  BY ResetProperties, EmptyLeafIsNode
<1>2. /\ store = ResetStore /\ root = 1 /\ cur = 1 /\ len = 0 /\ pc = "idle"
      /\ arg = NoArg /\ path = <<>> /\ split = NoSplit /\ ret = None
  BY <1>1 DEF Init
<1>3. TypeOK
  BY <1>1, <1>2 DEF TypeOK
<1>4. Pending = {} /\ {root} \cup Pending = {1}
  BY <1>2 DEF Pending
<1>5. TreeOK(store, {1}, lv)
  BY <1>1, <1>2, ResetTree
<1>6. Framed(store, root, path, cur, lv)
  <2>1. cur \in Live(store) /\ lv[cur] = 0 /\ lv[root] = 0 /\ Len(path) = 0
    BY <1>1, <1>2
  <2> HIDE DEF lv
  <2> QED
    BY <1>2, <2>1 DEF Framed
<1> HIDE DEF lv
<1>7. Inductive(lv)
  BY <1>2, <1>3, <1>4, <1>5, <1>6 DEF Inductive
<1> QED
  BY <1>7 DEF lv

LEMMA CallKeeps ==
    ASSUME NEW lv, Inductive(lv), GetCall \/ InsertCall \/ RemoveCall
    PROVE  Inductive(lv)'
<1>1. /\ pc = "idle" /\ pc' = "descend"
      /\ UNCHANGED <<tree, path, cur, split, ret>>
      /\ \/ arg' \in [op : {"get", "remove"}, key : Key, val : {None}]
         \/ arg' \in [op : {"insert"}, key : Key, val : Val]
  <2>1. CASE GetCall
    BY <2>1 DEF GetCall, Call
  <2>2. CASE InsertCall
    BY <2>2, EntryAssumption DEF InsertCall, Call
  <2>3. CASE RemoveCall
    BY <2>3 DEF RemoveCall, Call
  <2> QED
    BY <2>1, <2>2, <2>3
<1>2. UNCHANGED <<store, root, len, path, cur, split, ret>>
  BY <1>1 DEF tree
<1>3. TypeOK'
  BY <1>1, <1>2 DEF Inductive, TypeOK
<1>4. Pending' = Pending
  BY <1>2 DEF Pending
<1> QED
  BY <1>1, <1>2, <1>3, <1>4 DEF Inductive

LEMMA DescendKeeps ==
    ASSUME NEW lv, Inductive(lv), Descend
    PROVE  Inductive(lv)'
<1> DEFINE i == ChildIndex(Node(cur), arg.key)
<1>1. /\ pc = "descend" /\ ~IsLeaf(Node(cur))
      /\ path' = Append(path, [id |-> cur, idx |-> i])
      /\ cur' = Node(cur).children[i]
      /\ UNCHANGED <<store, root, len, pc, arg, split, ret>>
  BY DEF Descend, tree
<1>2. /\ Node(cur) \in AnyNode /\ ShapeOK(Node(cur)) /\ arg.key \in Key
      /\ cur \in Live(store) /\ cur \in NodeId /\ path \in Seq(Frame)
      /\ lv \in [Live(store) -> Nat]
      /\ Framed(store, root, path, cur, lv)
      /\ split = NoSplit /\ Pending = {}
  BY <1>1, CallFacts
<1>3. i \in 1 .. Len(Node(cur).children)
  BY <1>1, <1>2, ChildIndexProperties DEF ShapeOK, AnyNode
<1> HIDE DEF i
<1>4. /\ Node(cur).children[i] \in Kids(store, cur)
      /\ i \in Nat \ {0}
  <2>1. Node(cur).children \in Seq(NodeId)
    BY <1>1, <1>2, NodeCases DEF AnyNode
  <2>2. Node(cur).children[i] \in Range(Node(cur).children)
    BY <1>3, <2>1 DEF Range
  <2>3. i \in Nat \ {0}
    BY <1>3, <2>1, LenProperties
  <2> QED
    BY <1>1, <2>2, <2>3 DEF Kids, NodeKids, Node
<1>5. cur' \in Live(store) /\ lv[cur'] + 1 = lv[cur]
  <2>1. /\ Kids(store, cur) \subseteq Live(store)
        /\ \A c \in Kids(store, cur) : lv[c] + 1 = lv[cur]
    BY <1>2, TreeFacts DEF Inductive
  <2> QED
    BY <1>1, <1>4, <2>1
<1>6. path' \in Seq(Frame) /\ Framed(store, root, path', cur', lv)
  BY <1>1, <1>2, <1>3, <1>4, <1>5, DescendFrame DEF Node
<1>7. cur' \in NodeId
  BY <1>5, CallFacts
<1>8. TypeOK'
  BY <1>1, <1>6, <1>7 DEF Inductive, TypeOK, Frame
<1>9. Pending' = Pending
  BY <1>1 DEF Pending
<1> QED
  BY <1>1, <1>2, <1>6, <1>8, <1>9 DEF Inductive

(* A frame returns without a change.                                        *)
LEMMA AscendKeeps ==
    ASSUME NEW lv, Inductive(lv), pc = "rebalance", path # <<>>, Ascend,
           UNCHANGED <<tree, pc, arg, split, ret>>
    PROVE  Inductive(lv)'
<1>1. /\ cur' = Last(path).id /\ path' = Front(path)
      /\ UNCHANGED <<store, root, len, pc, arg, split, ret>>
  BY DEF Ascend, tree
<1>2. /\ path \in Seq(Frame) /\ lv \in [Live(store) -> Nat]
      /\ Framed(store, root, path, cur, lv) /\ Pending = {}
  BY <1>1, CallFacts
<1>3. path' \in Seq(Frame) /\ Framed(store, root, path', cur', lv)
  BY <1>1, <1>2, PopFrame
<1>4. cur' \in NodeId
  <2>1. cur' \in Live(store)
    BY <1>3 DEF Framed
  <2> QED
    BY <2>1, CallFacts
<1>5. TypeOK'
  BY <1>1, <1>3, <1>4 DEF Inductive, TypeOK, Frame
<1>6. Pending' = Pending
  BY <1>1 DEF Pending
<1> QED
  BY <1>1, <1>2, <1>3, <1>5, <1>6 DEF Inductive

LEMMA SufficientKeeps ==
    ASSUME NEW lv, Inductive(lv), Sufficient
    PROVE  Inductive(lv)'
  BY AscendKeeps DEF Sufficient

(* The calls that return from the leaf they came to.                        *)
LEMMA AnswerKeeps ==
    ASSUME NEW lv, Inductive(lv), GetAnswer \/ RemoveAbsent
    PROVE  Inductive(lv)'
<1>1. \E x \in Val \cup {None} : Return(x, root) /\ UNCHANGED <<store, len>>
  <2>1. CASE RemoveAbsent
    BY <2>1 DEF RemoveAbsent
  <2>2. CASE GetAnswer
    <3>1. CASE ~HasKey
      BY <2>2, <3>1 DEF GetAnswer
    <3>2. CASE HasKey
      <4>1. /\ Node(cur) \in AnyNode /\ ShapeOK(Node(cur)) /\ arg.key \in Key
            /\ IsLeaf(Node(cur))
        BY <2>2, CallFacts DEF GetAnswer, AtLeaf
      <4>2. LeafValue(Node(cur), arg.key) \in Val
        BY <3>2, <4>1, LeafWithoutProperties DEF HasKey, ShapeOK, AnyNode
      <4> QED
        BY <2>2, <3>2, <4>2 DEF GetAnswer
    <3> QED
      BY <3>1, <3>2
  <2> QED
    BY <2>1, <2>2
<1>2. PICK x \in Val \cup {None} : Return(x, root) /\ UNCHANGED <<store, len>>
  BY <1>1
<1>3. pc = "descend"
  BY DEF GetAnswer, RemoveAbsent, AtLeaf
<1>4. TreeOK(store', {root}, lv) /\ len' \in Int
  <2>1. TreeOK(store, {root}, lv) /\ len \in Int
    BY <1>3, CallFacts DEF Inductive
  <2> QED
    BY <1>2, <2>1
<1> QED
  BY <1>2, <1>4, ReturnKeeps

(* What the steps on the leaf of the call's key start from.                 *)
LEMMA LeafFacts ==
    ASSUME NEW lv, Inductive(lv), pc = "descend", IsLeaf(Node(cur))
    PROVE  /\ TreeOK(store, {root}, lv)
           /\ cur \in Live(store) /\ Kids(store, cur) = {}
           /\ Node(cur).keys \in Seq(Key) /\ Node(cur).vals \in Seq(Val)
           /\ Len(Node(cur).vals) = Len(Node(cur).keys)
           /\ arg.key \in Key
           /\ arg.op = "insert" => arg.val \in Val
           /\ HasKey => /\ Position(Node(cur).keys, arg.key) \in 1 .. Len(Node(cur).keys)
                        /\ LeafValue(Node(cur), arg.key) \in Val
<1>1. /\ Node(cur) \in AnyNode /\ ShapeOK(Node(cur)) /\ arg.key \in Key
      /\ cur \in Live(store) /\ TreeOK(store, {root}, lv)
  BY CallFacts DEF Inductive
<1>2. /\ Node(cur).keys \in Seq(Key) /\ Node(cur).vals \in Seq(Val)
      /\ Len(Node(cur).vals) = Len(Node(cur).keys)
  BY <1>1, LeafCases DEF AnyNode
<1>3. arg.op = "insert" => arg.val \in Val
  BY DEF Inductive, TypeOK
<1>4. HasKey => /\ Position(Node(cur).keys, arg.key) \in 1 .. Len(Node(cur).keys)
                /\ LeafValue(Node(cur), arg.key) \in Val
  BY <1>1, <1>2, FoundProperties, LeafWithoutProperties DEF HasKey, AnyNode, KeysLen
<1>5. Kids(store, cur) = {}
  BY DEF Kids, NodeKids, Node
<1> QED
  BY <1>1, <1>2, <1>3, <1>4, <1>5

LEMMA InsertReplaceKeeps ==
    ASSUME NEW lv, Inductive(lv), InsertReplace
    PROVE  Inductive(lv)'
<1> DEFINE leaf == Node(cur)
           i == Position(leaf.keys, arg.key)
           vals == ReplaceAt(leaf.vals, i, arg.val)
           node == Leaf(leaf.keys, vals)
<1>1. /\ pc = "descend" /\ arg.op = "insert" /\ IsLeaf(leaf) /\ HasKey
      /\ store' = Write(store, cur, node)
      /\ Return(LeafValue(leaf, arg.key), root)
      /\ len' = len
  BY DEF InsertReplace, AtLeaf, LeafValue
<1>2. /\ TreeOK(store, {root}, lv) /\ len \in Int
      /\ cur \in Live(store) /\ Kids(store, cur) = {}
      /\ leaf.keys \in Seq(Key) /\ leaf.vals \in Seq(Val)
      /\ Len(leaf.vals) = Len(leaf.keys)
      /\ arg.val \in Val
      /\ LeafValue(leaf, arg.key) \in Val
      /\ i \in 1 .. Len(leaf.vals)
  BY <1>1, LeafFacts, CallFacts
<1> HIDE DEF i
<1>3. vals \in Seq(Val) /\ Len(vals) = Len(leaf.vals)
  BY <1>2, ExceptSeq DEF ReplaceAt
<1> HIDE DEF vals
<1>4. node \in AnyNode /\ ShapeOK(node) /\ IsLeaf(node) /\ NodeKids(node) = {}
  BY <1>2, <1>3, LeafShape DEF AnyNode
<1> HIDE DEF node
<1>5. TreeOK(store', {root} \ {}, lv)
  BY <1>1, <1>2, <1>4, ReplaceNode DEF Node
<1>6. {root} \ {} = {root} /\ len' \in Int
  BY <1>1, <1>2
<1> QED
  BY <1>1, <1>2, <1>5, <1>6, ReturnKeeps

LEMMA InsertFitsKeeps ==
    ASSUME NEW lv, Inductive(lv), InsertFits
    PROVE  Inductive(lv)'
<1> DEFINE node == LeafWith(Node(cur), arg.key, arg.val)
<1>1. /\ pc = "descend" /\ arg.op = "insert" /\ IsLeaf(Node(cur))
      /\ store' = Write(store, cur, node)
      /\ Return(None, root)
      /\ len' = len + 1
  BY DEF InsertFits, AtLeaf
<1>2. /\ TreeOK(store, {root}, lv) /\ len \in Int
      /\ cur \in Live(store) /\ Kids(store, cur) = {}
      /\ Node(cur) \in AnyNode /\ ShapeOK(Node(cur))
      /\ arg.key \in Key /\ arg.val \in Val
  BY <1>1, LeafFacts, CallFacts
<1>3. node \in AnyNode /\ ShapeOK(node) /\ IsLeaf(node) /\ NodeKids(node) = {}
  BY <1>1, <1>2, LeafWithProperties DEF ShapeOK, AnyNode, NodeKids
<1> HIDE DEF node
<1>4. TreeOK(store', {root} \ {}, lv)
  BY <1>1, <1>2, <1>3, ReplaceNode DEF Node
<1>5. {root} \ {} = {root} /\ len' \in Int
  BY <1>1, <1>2
<1> QED
  BY <1>1, <1>4, <1>5, ReturnKeeps

LEMMA RemoveEntryKeeps ==
    ASSUME NEW lv, Inductive(lv), RemoveEntry
    PROVE  Inductive(lv)'
<1> DEFINE node == LeafWithout(Node(cur), arg.key)
<1>1. /\ pc = "descend" /\ arg.op = "remove" /\ IsLeaf(Node(cur)) /\ HasKey
      /\ store' = Write(store, cur, node)
      /\ ret' = LeafValue(Node(cur), arg.key)
      /\ pc' = "rebalance"
      /\ UNCHANGED <<root, len, arg, path, cur, split>>
  BY DEF RemoveEntry, AtLeaf
<1>2. /\ TreeOK(store, {root}, lv)
      /\ cur \in Live(store) /\ Kids(store, cur) = {}
      /\ Node(cur) \in AnyNode /\ ShapeOK(Node(cur))
      /\ arg.key \in Key /\ LeafValue(Node(cur), arg.key) \in Val
      /\ path \in Seq(Frame) /\ lv \in [Live(store) -> Nat]
      /\ Framed(store, root, path, cur, lv)
      /\ store \in StoreType
  BY <1>1, LeafFacts, CallFacts
<1>3. node \in AnyNode /\ ShapeOK(node) /\ IsLeaf(node) /\ NodeKids(node) = {}
  BY <1>1, <1>2, LeafWithoutProperties DEF ShapeOK, AnyNode, NodeKids, HasKey
<1> HIDE DEF node
<1>4. TreeOK(store', {root} \ {}, lv)
  BY <1>1, <1>2, <1>3, ReplaceNode DEF Node
<1>5. {root} \ {} = {root}
  OBVIOUS
<1>6. /\ Live(store') = Live(store)
      /\ \A j \in Live(store) : Fetch(store', j) = IF j = cur THEN node ELSE Fetch(store, j)
  BY <1>1, <1>2, <1>3, WriteProperties
<1>7. Framed(store', root, path, cur, lv)
  <2>1. \A id \in Live(store) : lv[id] > lv[cur] => id \in Live(store')
                                                    /\ Fetch(store', id) = Fetch(store, id)
    <3>1. lv[cur] \in Nat
      BY <1>2
    <3>2. ~(lv[cur] > lv[cur])
      BY <3>1
    <3> QED
      BY <1>6, <3>2
  <2> QED
    BY <1>2, <1>6, <2>1, KeepFrames
<1>8. Pending' = Pending /\ Pending = {} /\ {root} \cup Pending = {root}
  BY <1>1, CallFacts DEF Pending
<1>9. TypeOK'
  <2>1. store' \in StoreType
    BY <1>4 DEF TreeOK
  <2> QED
    BY <1>1, <1>2, <2>1 DEF Inductive, TypeOK
<1> QED
  BY <1>1, <1>4, <1>5, <1>7, <1>8, <1>9 DEF Inductive

(* A node on the way up is split; its right half is left to the caller.     *)
LEMMA SplitKeeps ==
    ASSUME NEW lv, Inductive(lv), NEW id \in Live(store),
           NEW lower \in AnyNode, NEW upper \in AnyNode,
           ShapeOK(lower), ShapeOK(upper),
           IsLeaf(lower) <=> IsLeaf(Node(id)),
           IsLeaf(upper) <=> IsLeaf(Node(id)),
           \A q \in Pending : lv[q] + 1 = lv[id],
           NodeKids(lower) \cup NodeKids(upper) = Kids(store, id) \cup Pending,
           NodeKids(lower) \cap NodeKids(upper) = {},
           NEW k \in Key, Room(store),
           store' = Alloc(Write(store, id, lower), upper),
           split' = [sep |-> k, right |-> AllocId(store)],
           root' = root, len' = len, arg' = arg, cur' = id,
           pc' = "absorb", arg \in [op : {"insert"}, key : Key, val : Val],
           ret' \in Val \cup {None},
           path' \in Seq(Frame), Framed(store, root, path', id, lv)
    PROVE  \E newLv : Inductive(newLv)'
<1> DEFINE r == AllocId(store)
           newTops == (({root} \cup Pending) \ Pending) \cup {r}
<1>1. /\ TreeOK(store, {root} \cup Pending, lv) /\ root \notin Pending
      /\ TypeOK
  BY DEF Inductive
<1>2. /\ r \notin Live(store)
      /\ Live(store') = Live(store) \cup {r}
      /\ \A j \in Live(store) \ {id} : Fetch(store', j) = Fetch(store, j)
      /\ \E newLv : /\ TreeOK(store', newTops, newLv)
                    /\ newLv[r] = lv[id]
                    /\ \A j \in Live(store) : newLv[j] = lv[j]
  <2> DEFINE tops == {root} \cup Pending
             P == Pending
  <2>1. Splits(store, tops, lv, id, lower, upper, P, store', newTops, r)
    BY <1>1 DEF Splits, Node
  <2> HIDE DEF r, newTops, tops, P
  <2> QED
    BY <2>1, SplitNode
<1>3. PICK newLv : /\ TreeOK(store', newTops, newLv)
                   /\ newLv[r] = lv[id]
                   /\ \A j \in Live(store) : newLv[j] = lv[j]
  BY <1>2
<1>4. /\ store' \in StoreType /\ StoreOK(store')
      /\ lv \in [Live(store) -> Nat] /\ root \in Live(store)
  BY <1>1, <1>3, CallFacts DEF TreeOK
<1>5. r \in NodeId /\ id \in NodeId
  BY <1>2, <1>4, LiveProperties
<1> HIDE DEF r, newTops
<1>6. split' \in [sep : Key, right : NodeId] /\ Pending' = {r}
  <2>1. split' = [sep |-> k, right |-> r]
    BY DEF r
  <2>2. split'.sep # None
    BY <2>1, NoneAssumption
  <2>3. split' # NoSplit
    BY <2>2 DEF NoSplit
  <2> QED
    BY <1>5, <2>1, <2>3 DEF Pending
<1>7. newTops = {root'} \cup Pending'
  BY <1>1, <1>6 DEF newTops
<1>8. root' \notin Pending'
  BY <1>2, <1>4, <1>6
<1>9. Framed(store', root, path', id, newLv)
  <2>1. \A j \in Live(store) : lv[j] > lv[id] => /\ j \in Live(store')
                                                 /\ Fetch(store', j) = Fetch(store, j)
                                                 /\ newLv[j] = lv[j]
    <3>1. lv[id] \in Nat
      BY <1>4
    <3>2. ~(lv[id] > lv[id])
      BY <3>1
    <3> QED
      BY <1>2, <1>3, <3>2
  <2>2. id \in Live(store') /\ newLv[id] = lv[id]
    BY <1>2, <1>3
  <2> QED
    BY <1>4, <2>1, <2>2, KeepFrames
<1>10. TypeOK'
  BY <1>1, <1>4, <1>5, <1>6 DEF TypeOK, Frame
<1>11. \A j \in Pending' : newLv[j] = newLv[cur']
  BY <1>3, <1>6
<1>12. Inductive(newLv)'
  BY <1>3, <1>7, <1>8, <1>9, <1>10, <1>11 DEF Inductive
<1> QED
  BY <1>12

LEMMA InsertSplitKeeps ==
    ASSUME NEW lv, Inductive(lv), InsertSplit
    PROVE  \E newLv : Inductive(newLv)'
<1> DEFINE full == LeafWith(Node(cur), arg.key, arg.val)
           n == KeysLen(full)
           mid == n \div 2
           lower == Leaf(SubSeq(full.keys, 1, mid), SubSeq(full.vals, 1, mid))
           upper == Leaf(SubSeq(full.keys, mid + 1, n), SubSeq(full.vals, mid + 1, n))
<1>1. /\ pc = "descend" /\ arg.op = "insert" /\ IsLeaf(Node(cur))
      /\ KeysLen(Node(cur)) + 1 >= Order
      /\ Room(store)
      /\ store' = Alloc(Write(store, cur, lower), upper)
      /\ split' = [sep |-> Head(upper.keys), right |-> AllocId(store)]
      /\ pc' = "absorb" /\ ret' = None
      /\ UNCHANGED <<root, len, arg, path, cur>>
  BY DEF InsertSplit, AtLeaf
<1>2. /\ cur \in Live(store) /\ Kids(store, cur) = {} /\ Pending = {}
      /\ Node(cur) \in AnyNode /\ ShapeOK(Node(cur))
      /\ arg.key \in Key /\ arg.val \in Val
      /\ path \in Seq(Frame) /\ Framed(store, root, path, cur, lv)
  BY <1>1, LeafFacts, CallFacts
<1>3. /\ full \in AnyNode /\ IsLeaf(full) /\ ShapeOK(full)
      /\ n = KeysLen(Node(cur)) + 1
  BY <1>1, <1>2, LeafWithProperties DEF ShapeOK, AnyNode
<1>4. n \in Nat /\ n >= 2
  BY <1>1, <1>2, <1>3, NodeCases, OrderAssumption DEF AnyNode
<1> HIDE DEF full
<1>5. mid \in 1 .. n - 1
  <2> HIDE DEF n
  <2> QED
    BY <1>4, HalfProperties
<1>6. n = KeysLen(full)
  OBVIOUS
<1> HIDE DEF n, mid
<1>7. /\ lower \in AnyNode /\ upper \in AnyNode
      /\ IsLeaf(lower) /\ IsLeaf(upper) /\ ShapeOK(lower) /\ ShapeOK(upper)
      /\ NodeKids(lower) = {} /\ NodeKids(upper) = {}
      /\ Head(upper.keys) \in Key
  BY <1>3, <1>5, <1>6, CutLeaf DEF AnyNode
<1> HIDE DEF lower, upper
<1>8. arg \in [op : {"insert"}, key : Key, val : Val]
  BY <1>1 DEF Inductive, TypeOK
<1> DEFINE sep == Head(upper.keys)
<1>9. sep \in Key /\ split' = [sep |-> sep, right |-> AllocId(store)]
  BY <1>1, <1>7
<1> HIDE DEF sep
<1>10. /\ \A q \in Pending : lv[q] + 1 = lv[cur]
       /\ NodeKids(lower) \cup NodeKids(upper) = Kids(store, cur) \cup Pending
       /\ NodeKids(lower) \cap NodeKids(upper) = {}
       /\ IsLeaf(lower) <=> IsLeaf(Node(cur))
       /\ IsLeaf(upper) <=> IsLeaf(Node(cur))
  BY <1>1, <1>2, <1>7
<1>11. path' \in Seq(Frame) /\ Framed(store, root, path', cur, lv) /\ ret' \in Val \cup {None}
  BY <1>1, <1>2
<1> QED
  BY <1>1, <1>2, <1>7, <1>8, <1>9, <1>10, <1>11, SplitKeeps

(* What the steps that absorb a split into a parent start from.             *)
LEMMA AbsorbFacts ==
    ASSUME NEW lv, Inductive(lv), pc = "absorb", path # <<>>
    PROVE  /\ Last(path).id \in Live(store)
           /\ ~IsLeaf(Node(Last(path).id))
           /\ Absorbed \in AnyNode /\ ShapeOK(Absorbed) /\ ~IsLeaf(Absorbed)
           /\ NodeKids(Absorbed) = Kids(store, Last(path).id) \cup Pending
           /\ \A q \in Pending : lv[q] + 1 = lv[Last(path).id]
           /\ Front(path) \in Seq(Frame)
           /\ Framed(store, root, Front(path), Last(path).id, lv)
           /\ arg \in [op : {"insert"}, key : Key, val : Val]
           /\ ret \in Val \cup {None}
<1> DEFINE f == Last(path).id
           i == Last(path).idx
           parent == Node(f)
<1>1. /\ path \in Seq(Frame) /\ lv \in [Live(store) -> Nat]
      /\ Framed(store, root, path, cur, lv)
      /\ split \in [sep : Key, right : NodeId]
      /\ Pending = {split.right}
      /\ lv[split.right] = lv[cur]
      /\ ret \in Val \cup {None}
  BY CallFacts
<1>2. /\ f \in Live(store) /\ ~IsLeaf(parent)
      /\ i \in 1 .. Len(parent.children)
      /\ lv[f] = lv[cur] + 1
  BY <1>1, LastFrame DEF Node
<1>3. Front(path) \in Seq(Frame) /\ Framed(store, root, Front(path), f, lv)
  BY <1>1, PopFrame
<1>4. Absorbed = Internal(InsertAt(parent.keys, i, split.sep),
                          InsertAt(parent.children, i + 1, split.right))
  BY DEF Absorbed
<1> HIDE DEF f, i
<1>5. /\ parent \in AnyNode /\ ShapeOK(parent)
      /\ Kids(store, f) = NodeKids(parent)
      /\ split.right \notin Kids(store, f)
  <2>1. TreeOK(store, {root} \cup Pending, lv)
    BY DEF Inductive
  <2>2. /\ Fetch(store, f) \in AnyNode /\ ShapeOK(Fetch(store, f))
        /\ Kids(store, f) \subseteq Live(store) \ ({root} \cup Pending)
    BY <1>2, <2>1, TreeFacts
  <2> QED
    BY <1>1, <2>2 DEF Node, Kids
<1> HIDE DEF parent
<1>6. /\ Absorbed \in AnyNode /\ ShapeOK(Absorbed) /\ ~IsLeaf(Absorbed)
      /\ NodeKids(Absorbed) = NodeKids(parent) \cup {split.right}
  <2>1. split.sep \in Key /\ split.right \in NodeId
    BY <1>1
  <2>2. parent \in NodeOf(NodeId) /\ split.right \notin NodeKids(parent)
    BY <1>5 DEF AnyNode
  <2> QED
    BY <1>2, <1>4, <1>5, <2>1, <2>2, LinkChild DEF AnyNode
<1>7. \A q \in Pending : lv[q] + 1 = lv[f]
  BY <1>1, <1>2
<1>8. arg \in [op : {"insert"}, key : Key, val : Val]
  BY DEF Inductive, TypeOK
<1> QED
  BY <1>1, <1>2, <1>3, <1>5, <1>6, <1>7, <1>8 DEF f, parent

LEMMA AbsorbFitsKeeps ==
    ASSUME NEW lv, Inductive(lv), AbsorbFits
    PROVE  Inductive(lv)'
<1> DEFINE f == Last(path).id
           tops == {root} \cup Pending
           P == Pending
<1>1. /\ pc = "absorb" /\ path # <<>>
      /\ store' = Write(store, f, Absorbed)
      /\ Return(None, root)
      /\ len' = len + 1
  BY DEF AbsorbFits
<1>2. /\ f \in Live(store) /\ ~IsLeaf(Fetch(store, f))
      /\ Absorbed \in AnyNode /\ ShapeOK(Absorbed) /\ ~IsLeaf(Absorbed)
      /\ NodeKids(Absorbed) = Kids(store, f) \cup P
      /\ \A q \in P : lv[q] + 1 = lv[f]
  BY <1>1, AbsorbFacts DEF Node
<1>3. /\ TreeOK(store, tops, lv) /\ P \in SUBSET tops /\ tops \ P = {root}
      /\ len' \in Int
  <2>1. root \notin Pending /\ TreeOK(store, tops, lv)
    BY DEF Inductive
  <2>2. len \in Int
    BY CallFacts
  <2> QED
    BY <1>1, <2>1, <2>2
<1> HIDE DEF f, tops, P
<1>4. TreeOK(Write(store, f, Absorbed), tops \ P, lv)
  BY <1>2, <1>3, ReplaceNode
<1>5. TreeOK(store', {root}, lv)
  BY <1>1, <1>3, <1>4
<1> QED
  BY <1>1, <1>3, <1>5, ReturnKeeps

LEMMA AbsorbSplitKeeps ==
    ASSUME NEW lv, Inductive(lv), AbsorbSplit
    PROVE  \E newLv : Inductive(newLv)'
<1> DEFINE f == Last(path).id
           full == Absorbed
           n == KeysLen(full)
           mid == n \div 2
           lower == Internal(SubSeq(full.keys, 1, mid),
                             SubSeq(full.children, 1, mid + 1))
           upper == Internal(SubSeq(full.keys, mid + 2, n),
                             SubSeq(full.children, mid + 2, n + 1))
           sep == full.keys[mid + 1]
<1>1. /\ pc = "absorb" /\ path # <<>> /\ n >= Order /\ Room(store)
      /\ store' = Alloc(Write(store, f, lower), upper)
      /\ split' = [sep |-> sep, right |-> AllocId(store)]
      /\ cur' = f /\ path' = Front(path)
      /\ UNCHANGED <<root, len, pc, arg, ret>>
  BY DEF AbsorbSplit, Ascend
<1>2. /\ f \in Live(store) /\ ~IsLeaf(Node(f))
      /\ full \in AnyNode /\ ShapeOK(full) /\ ~IsLeaf(full)
      /\ NodeKids(full) = Kids(store, f) \cup Pending
      /\ \A q \in Pending : lv[q] + 1 = lv[f]
      /\ path' \in Seq(Frame) /\ Framed(store, root, path', f, lv)
      /\ arg \in [op : {"insert"}, key : Key, val : Val]
      /\ ret' \in Val \cup {None}
  BY <1>1, AbsorbFacts
<1> HIDE DEF f, full
<1>3. n \in Nat /\ n >= 2
  BY <1>1, <1>2, NodeCases, OrderAssumption DEF AnyNode
<1>4. mid \in 1 .. n - 1
  <2> HIDE DEF n
  <2> QED
    BY <1>3, HalfProperties
<1>5. n = KeysLen(full)
  OBVIOUS
<1> HIDE DEF n, mid
<1>6. /\ lower \in AnyNode /\ upper \in AnyNode
      /\ ~IsLeaf(lower) /\ ~IsLeaf(upper) /\ ShapeOK(lower) /\ ShapeOK(upper)
      /\ NodeKids(lower) \cup NodeKids(upper) = NodeKids(full)
      /\ NodeKids(lower) \cap NodeKids(upper) = {}
      /\ sep \in Key
  <2>1. full \in NodeOf(NodeId)
    BY <1>2 DEF AnyNode
  <2>2. CutAround(full, n, mid, lower, upper)
    BY <1>2, <1>4, <1>5 DEF CutAround
  <2> HIDE DEF lower, upper
  <2>3. /\ lower \in NodeOf(NodeId) /\ upper \in NodeOf(NodeId)
        /\ ~IsLeaf(lower) /\ ~IsLeaf(upper)
        /\ ShapeOK(lower) /\ ShapeOK(upper)
        /\ NodeKids(lower) \cup NodeKids(upper) = NodeKids(full)
        /\ NodeKids(lower) \cap NodeKids(upper) = {}
        /\ sep \in Key
    BY <2>1, <2>2, CutInternal
  <2> QED
    BY <2>3 DEF AnyNode
<1> HIDE DEF lower, upper, sep
<1>7. /\ NodeKids(lower) \cup NodeKids(upper) = Kids(store, f) \cup Pending
      /\ IsLeaf(lower) <=> IsLeaf(Node(f))
      /\ IsLeaf(upper) <=> IsLeaf(Node(f))
      /\ root' = root /\ len' = len /\ arg' = arg /\ pc' = "absorb"
  BY <1>1, <1>2, <1>6
<1> QED
  BY <1>1, <1>2, <1>6, <1>7, SplitKeeps

LEMMA GrowRootKeeps ==
    ASSUME NEW lv, Inductive(lv), GrowRoot
    PROVE  \E newLv : Inductive(newLv)'
<1> DEFINE keys == <<split.sep>>
           children == <<root, split.right>>
           node == Internal(keys, children)
           r == AllocId(store)
           tops == {root} \cup Pending
           newTops == {r}
<1>1. /\ pc = "absorb" /\ path = <<>> /\ Room(store)
      /\ store' = Alloc(store, node)
      /\ Return(None, r)
      /\ len' = len + 1
  BY DEF GrowRoot
<1>2. /\ split.sep \in Key /\ split.right \in NodeId /\ root \in NodeId
      /\ root # split.right /\ tops = {root, split.right}
      /\ len \in Int
  BY <1>1, CallFacts
<1>3. /\ keys \in Seq(Key) /\ children \in Seq(NodeId)
      /\ Len(children) = Len(keys) + 1
      /\ IsInjective(children) /\ Range(children) = tops
  BY <1>2 DEF IsInjective, Range
<1> HIDE DEF keys, children
<1>4. node \in AnyNode /\ ShapeOK(node) /\ ~IsLeaf(node) /\ NodeKids(node) = tops
  BY <1>3, InternalShape DEF AnyNode
<1> HIDE DEF node
<1>5. root \in tops /\ \A t \in tops : lv[t] = lv[root]
  <2>1. cur = root
    BY <1>1 DEF Inductive, Framed
  <2> QED
    BY <1>2, <2>1 DEF Inductive
<1>6. TreeOK(store, tops, lv)
  BY DEF Inductive
<1>7. newTops = {r}
  OBVIOUS
<1> HIDE DEF tops, newTops
<1>8. \E newLv : TreeOK(store', newTops, newLv)
  BY <1>1, <1>4, <1>5, <1>6, <1>7, GrowNode
<1>9. PICK newLv : TreeOK(store', newTops, newLv)
  BY <1>8
<1>10. len' \in Int
  BY <1>1, <1>2
<1>11. Inductive(newLv)'
  BY <1>1, <1>9, <1>10, ReturnKeeps DEF newTops
<1> QED
  BY <1>11

(* What the repair of a node on the way up starts from.                     *)
LEMMA RepairFacts ==
    ASSUME NEW lv, Inductive(lv), pc = "rebalance", path # <<>>
    PROVE  LET f == Last(path).id
               i == Last(path).idx
           IN  /\ TreeOK(store, {root}, lv)
               /\ f \in Live(store) /\ ~IsLeaf(Fetch(store, f))
               /\ Fetch(store, f) \in NodeOf(NodeId) /\ ShapeOK(Fetch(store, f))
               /\ Siblings = Fetch(store, f).children
               /\ Len(Siblings) = Len(Fetch(store, f).keys) + 1
               /\ Len(Fetch(store, f).keys) \in Nat
               /\ i \in 1 .. Len(Siblings)
               /\ Siblings[i] = cur
               /\ lv[f] = lv[cur] + 1
               /\ lv[f] \in Nat
               /\ ToLeft = i - 1 /\ ToRight = i + 1
               /\ MinKeys \in Nat \ {0}
<1> DEFINE f == Last(path).id
           i == Last(path).idx
           parent == Fetch(store, f)
<1>1. /\ path \in Seq(Frame) /\ lv \in [Live(store) -> Nat]
      /\ Framed(store, root, path, cur, lv)
      /\ {root} \cup Pending = {root}
  BY CallFacts
<1>2. /\ f \in Live(store) /\ ~IsLeaf(parent)
      /\ i \in 1 .. Len(parent.children)
      /\ parent.children[i] = cur
      /\ lv[f] = lv[cur] + 1
      /\ lv[f] \in Nat
  BY <1>1, LastFrame
<1>3. TreeOK(store, {root}, lv)
  BY <1>1 DEF Inductive
<1>4. Siblings = parent.children /\ ToLeft = i - 1 /\ ToRight = i + 1
  BY DEF Siblings, Node, ToLeft, ToRight
<1> HIDE DEF f, i
<1>5. parent \in NodeOf(NodeId) /\ ShapeOK(parent)
  BY <1>2, <1>3, TreeFacts DEF AnyNode
<1> HIDE DEF parent
<1>6. Len(parent.children) = Len(parent.keys) + 1 /\ Len(parent.keys) \in Nat
  BY <1>2, <1>5, InternalCases
<1>7. MinKeys \in Nat \ {0}
  BY OrderAssumption DEF MinKeys
<1> QED
  BY <1>2, <1>3, <1>4, <1>5, <1>6, <1>7 DEF f, i, parent

(* Two siblings are different nodes of the same kind that share no child.   *)
LEMMA SiblingFacts ==
    ASSUME NEW lv, Inductive(lv), pc = "rebalance", path # <<>>,
           NEW k \in 1 .. Len(Siblings), NEW m \in 1 .. Len(Siblings), k # m
    PROVE  LET f == Last(path).id
               s == Siblings[k]
               t == Siblings[m]
           IN  /\ s \in Kids(store, f) /\ t \in Kids(store, f) /\ s # t
               /\ s \in Live(store) /\ t \in Live(store)
               /\ Node(s) \in NodeOf(NodeId) /\ Node(t) \in NodeOf(NodeId)
               /\ ShapeOK(Node(s)) /\ ShapeOK(Node(t))
               /\ IsLeaf(Node(s)) <=> IsLeaf(Node(t))
               /\ NodeKids(Node(s)) = Kids(store, s)
               /\ NodeKids(Node(t)) = Kids(store, t)
               /\ NodeKids(Node(s)) \cap NodeKids(Node(t)) = {}
<1> DEFINE f == Last(path).id
           s == Siblings[k]
           t == Siblings[m]
           parent == Fetch(store, f)
<1>1. /\ TreeOK(store, {root}, lv)
      /\ f \in Live(store) /\ ~IsLeaf(parent)
      /\ parent \in NodeOf(NodeId) /\ ShapeOK(parent)
      /\ Siblings = parent.children
  BY RepairFacts
<1> HIDE DEF f
<1>2. /\ Siblings \in Seq(NodeId) /\ IsInjective(Siblings)
      /\ Kids(store, f) = Range(Siblings)
  BY <1>1, InternalCases DEF Kids
<1>3. DOMAIN Siblings = 1 .. Len(Siblings)
  BY <1>2, LenProperties
<1>4. s \in Kids(store, f) /\ t \in Kids(store, f) /\ s # t
  BY <1>2, <1>3 DEF Range, IsInjective
<1> HIDE DEF s, t
<1>5. /\ Kids(store, f) \subseteq Live(store)
      /\ \A c \in Kids(store, f) : lv[c] + 1 = lv[f]
  BY <1>1, TreeFacts
<1>6. s \in Live(store) /\ t \in Live(store) /\ lv[s] + 1 = lv[t] + 1
  BY <1>4, <1>5
<1>7. /\ Fetch(store, s) \in AnyNode /\ Fetch(store, t) \in AnyNode
      /\ ShapeOK(Fetch(store, s)) /\ ShapeOK(Fetch(store, t))
      /\ lv[s] \in Nat /\ lv[t] \in Nat
      /\ IsLeaf(Fetch(store, s)) <=> lv[s] = 0
      /\ IsLeaf(Fetch(store, t)) <=> lv[t] = 0
  BY <1>1, <1>6, TreeFacts
<1>8. lv[s] = lv[t]
  BY <1>6, <1>7
<1>9. Kids(store, s) \cap Kids(store, t) = {}
  BY <1>1, <1>4, <1>6 DEF TreeOK, Linked
<1> QED
  BY <1>4, <1>6, <1>7, <1>8, <1>9 DEF f, s, t, Node, Kids, AnyNode

(* The frames above the parent do not see the repair of two of its children.*)
LEMMA RepairKeeps ==
    ASSUME NEW lv, Inductive(lv), pc = "rebalance", path # <<>>, Ascend,
           UNCHANGED <<root, len, pc, arg, split, ret>>,
           NEW a \in Kids(store, Last(path).id), NEW b \in Kids(store, Last(path).id),
           NEW newLv, TreeOK(store', {root}, newLv),
           Last(path).id \in Live(store'),
           \A j \in Live(store) \ {a, b, Last(path).id} :
               j \in Live(store') /\ Fetch(store', j) = Fetch(store, j),
           \A j \in Live(store') : newLv[j] = lv[j]
    PROVE  Inductive(newLv)'
<1> DEFINE f == Last(path).id
<1>1. cur' = f /\ path' = Front(path)
  BY DEF Ascend
<1>2. /\ path \in Seq(Frame) /\ lv \in [Live(store) -> Nat]
      /\ Framed(store, root, path, cur, lv)
  BY CallFacts
<1>3. path' \in Seq(Frame) /\ Framed(store, root, path', f, lv)
  BY <1>1, <1>2, PopFrame
<1>4. f \in Live(store) /\ TreeOK(store, {root}, lv)
  BY RepairFacts
<1>5. f \in Live(store')
  OBVIOUS
<1>6. a \in Kids(store, f) /\ b \in Kids(store, f)
  OBVIOUS
<1>7. \A j \in Live(store) \ {a, b, f} : j \in Live(store') /\ Fetch(store', j) = Fetch(store, j)
  OBVIOUS
<1> HIDE DEF f
<1>8. lv[a] + 1 = lv[f] /\ lv[b] + 1 = lv[f] /\ a \in Live(store) /\ b \in Live(store)
  BY <1>4, <1>6, TreeFacts
<1>9. \A j \in Live(store) : lv[j] > lv[f] => /\ j \in Live(store')
                                              /\ Fetch(store', j) = Fetch(store, j)
                                              /\ newLv[j] = lv[j]
  <2>1. lv[a] \in Nat /\ lv[b] \in Nat /\ lv[f] \in Nat
    BY <1>2, <1>4, <1>8
  <2>2. ~(lv[a] > lv[f]) /\ ~(lv[b] > lv[f]) /\ ~(lv[f] > lv[f])
    BY <1>8, <2>1
  <2> QED
    BY <1>7, <2>2
<1>10. newLv[f] = lv[f]
  BY <1>5
<1>11. Framed(store', root, path', f, newLv)
  BY <1>2, <1>3, <1>5, <1>9, <1>10, KeepFrames
<1>12. store' \in StoreType /\ StoreOK(store') /\ f \in NodeId
  <2>1. store' \in StoreType /\ StoreOK(store')
    BY DEF TreeOK
  <2> QED
    BY <1>5, <2>1, LiveProperties
<1>13. TypeOK'
  BY <1>1, <1>3, <1>12 DEF Inductive, TypeOK, Frame
<1>14. Pending = {} /\ Pending' = {} /\ {root'} \cup Pending' = {root}
  BY CallFacts DEF Pending
<1> QED
  BY <1>1, <1>11, <1>13, <1>14 DEF Inductive

(* A rotation: cur and a sibling exchange an entry or a child.              *)
LEMMA RotationKeeps ==
    ASSUME NEW lv, Inductive(lv), pc = "rebalance", path # <<>>, Ascend,
           UNCHANGED <<root, len, pc, arg, split, ret>>,
           NEW i \in 1 .. Len(Siblings), i # Last(path).idx,
           NEW s, NEW c, s \in NodeOf(NodeId), c \in NodeOf(NodeId),
           ShapeOK(s), ShapeOK(c),
           IsLeaf(s) <=> IsLeaf(Node(Siblings[i])),
           IsLeaf(c) <=> IsLeaf(Node(cur)),
           NodeKids(s) \cup NodeKids(c) = NodeKids(Node(Siblings[i])) \cup NodeKids(Node(cur)),
           NodeKids(s) \cap NodeKids(c) = {},
           NEW j \in 1 .. Len(Fetch(store, Last(path).id).keys), NEW k \in Key,
           store' = Rewritten(Siblings[i], s, c, NewSeparator(j, k))
    PROVE  Inductive(lv)'
<1> DEFINE f == Last(path).id
           p == Fetch(store, f)
           pn == NewSeparator(j, k)
           a == Siblings[i]
<1>1. /\ TreeOK(store, {root}, lv)
      /\ f \in Live(store) /\ ~IsLeaf(p)
      /\ p \in NodeOf(NodeId) /\ ShapeOK(p)
      /\ Last(path).idx \in 1 .. Len(Siblings)
      /\ Siblings[Last(path).idx] = cur
  BY RepairFacts
<1>2. /\ a \in Kids(store, f) /\ cur \in Kids(store, f) /\ a # cur
      /\ NodeKids(Node(a)) = Kids(store, a)
      /\ NodeKids(Node(cur)) = Kids(store, cur)
  BY <1>1, SiblingFacts
<1>3. pn = Internal(ReplaceAt(p.keys, j, k), p.children)
  BY DEF NewSeparator, Node
<1>4. /\ pn \in NodeOf(NodeId) /\ ShapeOK(pn) /\ ~IsLeaf(pn)
      /\ NodeKids(pn) = Kids(store, f)
  <2> HIDE DEF pn
  <2>1. j \in 1 .. Len(p.keys)
    OBVIOUS
  <2> HIDE DEF p
  <2>2. pn \in NodeOf(NodeId) /\ ShapeOK(pn) /\ ~IsLeaf(pn) /\ NodeKids(pn) = NodeKids(p)
    BY <1>1, <1>3, <2>1, ReplaceSeparator
  <2> QED
    BY <2>2 DEF p, Kids
<1> DEFINE tops == {root}
<1>5. Exchanges(store, tops, lv, f, a, cur, s, c, pn, store')
  <2>1. store' = Write(Write(Write(store, a, s), cur, c), f, pn)
    BY DEF Rewritten
  <2> HIDE DEF pn, a, f
  <2> QED
    BY <1>1, <1>2, <1>4, <2>1 DEF Exchanges, Node, AnyNode, a
<1> HIDE DEF pn, a, tops
<1>6. /\ Live(store') = Live(store)
      /\ \A x \in Live(store) \ {a, cur, f} : Fetch(store', x) = Fetch(store, x)
      /\ TreeOK(store', tops, lv)
  BY <1>5, ExchangeNodes
<1>7. /\ TreeOK(store', {root}, lv)
      /\ f \in Live(store')
      /\ \A x \in Live(store) \ {a, cur, f} : x \in Live(store') /\ Fetch(store', x) = Fetch(store, x)
  BY <1>1, <1>6 DEF tops
<1> QED
  BY <1>2, <1>7, RepairKeeps

LEMMA BorrowFromLeftKeeps ==
    ASSUME NEW lv, Inductive(lv), pc = "rebalance", path # <<>>, Ascend,
           UNCHANGED <<root, len, pc, arg, split, ret>>,
           CanLend(ToLeft), store' = BorrowFromLeft
    PROVE  Inductive(lv)'
<1> DEFINE i == ToLeft
           l == Node(Siblings[i])
           c == Node(cur)
           sep == Node(Last(path).id).keys[i]
           ln == IF IsLeaf(c) THEN Leaf(Front(l.keys), Front(l.vals))
                              ELSE Internal(Front(l.keys), Front(l.children))
           cn == IF IsLeaf(c)
                 THEN Leaf(Cons(Last(l.keys), c.keys), Cons(Last(l.vals), c.vals))
                 ELSE Internal(Cons(sep, c.keys), Cons(Last(l.children), c.children))
           p == Fetch(store, Last(path).id)
<1>1. /\ p \in NodeOf(NodeId)
      /\ Len(Siblings) = Len(p.keys) + 1
      /\ Len(p.keys) \in Nat
      /\ Last(path).idx \in 1 .. Len(Siblings)
      /\ Siblings[Last(path).idx] = cur
      /\ i = Last(path).idx - 1
      /\ MinKeys \in Nat \ {0}
  BY RepairFacts
<1>2. /\ i \in 1 .. Len(Siblings) /\ i # Last(path).idx
      /\ i \in 1 .. Len(p.keys)
      /\ KeysLen(l) > MinKeys
  BY <1>1 DEF CanLend
<1>3. store' = Rewritten(Siblings[i], ln, cn, NewSeparator(i, Last(l.keys)))
  BY DEF BorrowFromLeft
<1>4. /\ l \in NodeOf(NodeId) /\ c \in NodeOf(NodeId)
      /\ ShapeOK(l) /\ ShapeOK(c)
      /\ IsLeaf(l) <=> IsLeaf(c)
      /\ NodeKids(l) \cap NodeKids(c) = {}
  BY <1>1, <1>2, SiblingFacts
<1>5. sep \in Key
  <2>1. p.keys \in Seq(Key) /\ sep = p.keys[i]
    BY <1>1, NodeCases DEF Node
  <2> QED
    BY <1>2, <2>1, ElementOfSeq
<1>6. KeysLen(l) > 0
  <2>1. KeysLen(l) \in Nat
    BY <1>4, NodeCases
  <2> QED
    BY <1>1, <1>2, <2>1
<1> HIDE DEF i, l, c, sep
<1>7. LentLast(l, c, sep, ln, cn)
  BY <1>4, <1>6 DEF LentLast
<1> HIDE DEF ln, cn
<1>8. /\ ln \in NodeOf(NodeId) /\ cn \in NodeOf(NodeId)
      /\ ShapeOK(ln) /\ ShapeOK(cn)
      /\ IsLeaf(ln) <=> IsLeaf(l)
      /\ IsLeaf(cn) <=> IsLeaf(c)
      /\ NodeKids(ln) \cup NodeKids(cn) = NodeKids(l) \cup NodeKids(c)
      /\ NodeKids(ln) \cap NodeKids(cn) = {}
      /\ Last(l.keys) \in Key
  BY <1>4, <1>5, <1>7, LendLast
<1> QED
  BY <1>2, <1>3, <1>8, RotationKeeps DEF l, c, p

LEMMA BorrowFromRightKeeps ==
    ASSUME NEW lv, Inductive(lv), pc = "rebalance", path # <<>>, Ascend,
           UNCHANGED <<root, len, pc, arg, split, ret>>,
           CanLend(ToRight), store' = BorrowFromRight
    PROVE  Inductive(lv)'
<1> DEFINE i == Last(path).idx
           r == Node(Siblings[i + 1])
           c == Node(cur)
           sep == Node(Last(path).id).keys[i]
           rn == IF IsLeaf(c) THEN Leaf(Tail(r.keys), Tail(r.vals))
                              ELSE Internal(Tail(r.keys), Tail(r.children))
           cn == IF IsLeaf(c)
                 THEN Leaf(Append(c.keys, Head(r.keys)), Append(c.vals, Head(r.vals)))
                 ELSE Internal(Append(c.keys, sep), Append(c.children, Head(r.children)))
           k == IF IsLeaf(c) THEN Head(Tail(r.keys)) ELSE Head(r.keys)
           p == Fetch(store, Last(path).id)
<1>1. /\ p \in NodeOf(NodeId)
      /\ Len(Siblings) = Len(p.keys) + 1
      /\ Len(p.keys) \in Nat
      /\ i \in 1 .. Len(Siblings)
      /\ Siblings[i] = cur
      /\ ToRight = i + 1
      /\ MinKeys \in Nat \ {0}
  BY RepairFacts
<1>2. /\ i + 1 \in 1 .. Len(Siblings) /\ i + 1 # i
      /\ i \in 1 .. Len(p.keys)
      /\ KeysLen(r) > MinKeys
  BY <1>1 DEF CanLend
<1>3. store' = Rewritten(Siblings[i + 1], rn, cn, NewSeparator(i, k))
  BY DEF BorrowFromRight
<1>4. /\ r \in NodeOf(NodeId) /\ c \in NodeOf(NodeId)
      /\ ShapeOK(r) /\ ShapeOK(c)
      /\ IsLeaf(r) <=> IsLeaf(c)
      /\ NodeKids(r) \cap NodeKids(c) = {}
  BY <1>1, <1>2, SiblingFacts
<1>5. sep \in Key
  <2>1. p.keys \in Seq(Key) /\ sep = p.keys[i]
    BY <1>1, NodeCases DEF Node
  <2> QED
    BY <1>2, <2>1, ElementOfSeq
<1>6. KeysLen(r) > 1
  <2>1. KeysLen(r) \in Nat
    BY <1>4, NodeCases
  <2> QED
    BY <1>1, <1>2, <2>1
<1> DEFINE m == i + 1
<1>7. m \in 1 .. Len(Siblings) /\ m # Last(path).idx /\ r = Node(Siblings[m])
      /\ store' = Rewritten(Siblings[m], rn, cn, NewSeparator(i, k))
      /\ c = Node(cur)
  BY <1>2, <1>3
<1> HIDE DEF i, r, c, sep, m
<1>8. LentFirst(r, c, sep, rn, cn)
  BY <1>4, <1>6 DEF LentFirst
<1> HIDE DEF rn, cn
<1>9. /\ rn \in NodeOf(NodeId) /\ cn \in NodeOf(NodeId)
      /\ ShapeOK(rn) /\ ShapeOK(cn)
      /\ IsLeaf(rn) <=> IsLeaf(r)
      /\ IsLeaf(cn) <=> IsLeaf(c)
      /\ NodeKids(rn) \cup NodeKids(cn) = NodeKids(r) \cup NodeKids(c)
      /\ NodeKids(rn) \cap NodeKids(cn) = {}
      /\ Head(r.keys) \in Key /\ Head(Tail(r.keys)) \in Key
  BY <1>4, <1>5, <1>8, LendFirst
<1>10. k \in Key
  BY <1>9
<1> HIDE DEF k
<1> QED
  BY <1>2, <1>7, <1>9, <1>10, RotationKeeps

(* A merge: the right one of two adjacent siblings is given up.             *)
LEMMA MergeKeeps ==
    ASSUME NEW lv, Inductive(lv), pc = "rebalance", path # <<>>, Ascend,
           UNCHANGED <<root, len, pc, arg, split, ret>>,
           NEW i \in 1 .. Len(Siblings), i + 1 \in 1 .. Len(Siblings),
           store' = Merge(i)
    PROVE  \E newLv : Inductive(newLv)'
<1> DEFINE f == Last(path).id
           p == Fetch(store, f)
           a == Siblings[i]
           b == Siblings[i + 1]
           l == Node(a)
           r == Node(b)
           sep == p.keys[i]
           mn == IF IsLeaf(l)
                 THEN Leaf(l.keys \o r.keys, l.vals \o r.vals)
                 ELSE Internal(Append(l.keys, sep) \o r.keys, l.children \o r.children)
           pn == Internal(RemoveAt(p.keys, i), RemoveAt(p.children, i + 1))
           tops == {root}
<1>1. /\ TreeOK(store, {root}, lv)
      /\ f \in Live(store) /\ ~IsLeaf(p)
      /\ p \in NodeOf(NodeId) /\ ShapeOK(p)
      /\ Siblings = p.children
      /\ Len(Siblings) = Len(p.keys) + 1
      /\ Len(p.keys) \in Nat
  BY RepairFacts
<1>2. i \in 1 .. Len(p.keys) /\ i # i + 1
  BY <1>1
<1>3. /\ a \in Kids(store, f) /\ b \in Kids(store, f) /\ a # b
      /\ l \in NodeOf(NodeId) /\ r \in NodeOf(NodeId)
      /\ ShapeOK(l) /\ ShapeOK(r)
      /\ IsLeaf(l) <=> IsLeaf(r)
      /\ NodeKids(l) = Kids(store, a) /\ NodeKids(r) = Kids(store, b)
      /\ NodeKids(l) \cap NodeKids(r) = {}
  BY <1>2, SiblingFacts
<1>4. store' = Write(Reclaim(Write(store, f, pn), b), a, mn)
  BY DEF Merge, Node, Siblings
<1>5. sep \in Key
  <2>1. p.keys \in Seq(Key)
    BY <1>1, NodeCases
  <2> QED
    BY <1>2, <2>1, ElementOfSeq
<1>6. b = p.children[i + 1] /\ NodeKids(p) = Kids(store, f)
  BY <1>1 DEF Kids
<1> HIDE DEF f, p, a, b, l, r, sep
<1>7. /\ pn \in NodeOf(NodeId) /\ ShapeOK(pn) /\ ~IsLeaf(pn)
      /\ NodeKids(pn) = Kids(store, f) \ {b}
  BY <1>1, <1>2, <1>6, UnlinkChild
<1>8. /\ mn \in NodeOf(NodeId) /\ ShapeOK(mn)
      /\ IsLeaf(mn) <=> IsLeaf(l)
      /\ NodeKids(mn) = NodeKids(l) \cup NodeKids(r)
  BY <1>3, <1>5, MergeLists
<1> HIDE DEF mn, pn
<1>9. Merges(store, tops, lv, f, a, b, mn, pn, store')
  BY <1>1, <1>3, <1>4, <1>7, <1>8 DEF Merges, AnyNode, l, Node
<1> HIDE DEF tops
<1>10. /\ Live(store') = Live(store) \ {b}
       /\ \A j \in Live(store) \ {a, b, f} : Fetch(store', j) = Fetch(store, j)
       /\ \E newLv : /\ TreeOK(store', tops, newLv)
                     /\ \A j \in Live(store') : newLv[j] = lv[j]
  BY <1>9, MergeNodes
<1>11. PICK newLv : /\ TreeOK(store', tops, newLv)
                    /\ \A j \in Live(store') : newLv[j] = lv[j]
  BY <1>10
<1>12. f # b
  BY <1>1, <1>3, TreeFacts
<1>13. /\ TreeOK(store', {root}, newLv)
       /\ f \in Live(store')
       /\ \A j \in Live(store) \ {a, b, f} : j \in Live(store') /\ Fetch(store', j) = Fetch(store, j)
  BY <1>1, <1>10, <1>11, <1>12 DEF tops
<1>14. Inductive(newLv)'
  BY <1>3, <1>11, <1>13, RepairKeeps DEF f
<1> QED
  BY <1>14

LEMMA RebalanceKeeps ==
    ASSUME NEW lv, Inductive(lv), Rebalance
    PROVE  \E newLv : Inductive(newLv)'
<1>1. /\ pc = "rebalance" /\ path # <<>> /\ Ascend
      /\ UNCHANGED <<root, len, pc, arg, split, ret>>
  BY DEF Rebalance
<1>2. /\ Last(path).idx \in 1 .. Len(Siblings)
      /\ ToLeft = Last(path).idx - 1 /\ ToRight = Last(path).idx + 1
      /\ Len(Siblings) \in Nat
  BY <1>1, RepairFacts
<1>3. CASE CanLend(ToLeft) /\ store' = BorrowFromLeft
  BY <1>1, <1>3, BorrowFromLeftKeeps
<1>4. CASE CanLend(ToRight) /\ store' = BorrowFromRight
  BY <1>1, <1>4, BorrowFromRightKeeps
<1>5. CASE ToLeft >= 1 /\ store' = Merge(ToLeft)
  <2>1. ToLeft \in 1 .. Len(Siblings) /\ ToLeft + 1 \in 1 .. Len(Siblings)
    BY <1>2, <1>5
  <2> QED
    BY <1>1, <1>5, <2>1, MergeKeeps
<1>6. CASE ToRight <= Len(Siblings) /\ store' = Merge(Last(path).idx)
  <2>1. Last(path).idx + 1 \in 1 .. Len(Siblings)
    BY <1>2, <1>6
  <2> QED
    BY <1>1, <1>2, <1>6, <2>1, MergeKeeps
<1> QED
  BY <1>3, <1>4, <1>5, <1>6 DEF Rebalance

LEMMA FinishRemoveKeeps ==
    ASSUME NEW lv, Inductive(lv), FinishRemove
    PROVE  \E newLv : Inductive(newLv)'
<1>1. pc = "rebalance" /\ path = <<>> /\ len' = len - 1
  BY DEF FinishRemove
<1>2. /\ TreeOK(store, {root}, lv) /\ len' \in Int /\ ret \in Val \cup {None}
      /\ root \in Live(store)
  <2>1. /\ {root} \cup Pending = {root} /\ root \in Live(store)
        /\ len \in Int /\ ret \in Val \cup {None}
    BY <1>1, CallFacts
  <2>2. TreeOK(store, {root}, lv)
    BY <2>1 DEF Inductive
  <2> QED
    BY <1>1, <2>1, <2>2
<1>3. CASE store' = store /\ Return(ret, root)
  <2>1. TreeOK(store', {root}, lv)
    BY <1>2, <1>3
  <2>2. Inductive(lv)'
    BY <1>2, <1>3, <2>1, ReturnKeeps
  <2> QED
    BY <2>2
<1>4. CASE /\ ~IsLeaf(Node(root)) /\ Len(Node(root).children) = 1
           /\ store' = Reclaim(store, root) /\ Return(ret, Node(root).children[1])
  <2> DEFINE child == Node(root).children[1]
             tops == {root}
             newTops == {child}
  <2>1. Kids(store, root) = newTops
    <3>1. Node(root) \in AnyNode
      BY <1>2, TreeFacts DEF Node
    <3>2. Node(root).children \in Seq(NodeId)
      BY <1>4, <3>1, NodeCases DEF AnyNode
    <3>3. DOMAIN Node(root).children = {1}
      BY <1>4, <3>2, LenProperties
    <3>4. Range(Node(root).children) = {child}
      BY <3>3 DEF Range
    <3> QED
      BY <1>4, <3>4 DEF Kids, NodeKids, Node
  <2>2. TreeOK(store, tops, lv) /\ tops = {root} /\ newTops = {child}
        /\ store' = Reclaim(store, root) /\ Return(ret, child)
    BY <1>2, <1>4
  <2>3. Collapses(store, tops, lv, root, child, store', newTops)
    BY <2>1, <2>2 DEF Collapses
  <2> HIDE DEF child, tops, newTops
  <2>4. PICK newLv : TreeOK(store', newTops, newLv)
    BY <2>3, CollapseNode
  <2>5. Inductive(newLv)'
    BY <1>2, <2>2, <2>4, ReturnKeeps
  <2> QED
    BY <2>5
<1> QED
  BY <1>3, <1>4 DEF FinishRemove

LEMMA ClearKeeps ==
    ASSUME NEW lv, Inductive(lv), Clear
    PROVE  \E newLv : Inductive(newLv)'
<1>1. /\ AllocId(EmptyStore) = 1 /\ ResetStore \in StoreType /\ 1 \in NodeId
      /\ Live(ResetStore) = {1}
  BY ResetProperties, EmptyLeafIsNode
<1>2. /\ store' = ResetStore /\ root' = 1 /\ cur' = 1 /\ len' = 0 /\ pc = "idle"
      /\ UNCHANGED <<pc, arg, path, split, ret>>
  BY <1>1 DEF Clear
<1>3. TypeOK'
  BY <1>1, <1>2 DEF Inductive, TypeOK
<1>4. path = <<>> /\ Pending' = {} /\ {root'} \cup Pending' = {1}
  <2>1. path = <<>> /\ Pending = {}
    BY <1>2, CallFacts DEF Inductive
  <2> QED
    BY <1>2, <2>1 DEF Pending
<1>5. PICK newLv : newLv = [j \in Live(ResetStore) |-> 0]
  OBVIOUS
<1>6. TreeOK(ResetStore, {1}, newLv)
  BY <1>1, <1>5, ResetTree
<1>7. Framed(ResetStore, 1, <<>>, 1, newLv)
  <2>1. newLv[1] = 0 /\ Len(<<>>) = 0
    BY <1>1, <1>5
  <2> QED
    BY <1>1, <2>1 DEF Framed
<1>8. Inductive(newLv)'
  BY <1>2, <1>3, <1>4, <1>6, <1>7 DEF Inductive
<1> QED
  BY <1>8
-----------------------------------------------------------------------------
(* The tree is sound when some assignment of levels makes it so.            *)
Structure == \E lv : Inductive(lv)

LEMMA NextKeeps ==
    ASSUME NEW lv, Inductive(lv), [Next]_vars
    PROVE  \E newLv : Inductive(newLv)'
<1>1. CASE GetCall \/ InsertCall \/ RemoveCall
  BY <1>1, CallKeeps
<1>2. CASE Descend
  BY <1>2, DescendKeeps
<1>3. CASE GetAnswer \/ RemoveAbsent
  BY <1>3, AnswerKeeps
<1>4. CASE InsertReplace
  BY <1>4, InsertReplaceKeeps
<1>5. CASE InsertFits
  BY <1>5, InsertFitsKeeps
<1>6. CASE InsertSplit
  BY <1>6, InsertSplitKeeps
<1>7. CASE AbsorbFits
  BY <1>7, AbsorbFitsKeeps
<1>8. CASE AbsorbSplit
  BY <1>8, AbsorbSplitKeeps
<1>9. CASE GrowRoot
  BY <1>9, GrowRootKeeps
<1>10. CASE RemoveEntry
  BY <1>10, RemoveEntryKeeps
<1>11. CASE Sufficient
  BY <1>11, SufficientKeeps
<1>12. CASE Rebalance
  BY <1>12, RebalanceKeeps
<1>13. CASE FinishRemove
  BY <1>13, FinishRemoveKeeps
<1>14. CASE Clear
  BY <1>14, ClearKeeps
<1>15. CASE UNCHANGED vars
  <2>1. UNCHANGED <<store, root, len, pc, arg, path, cur, split, ret>>
    BY <1>15 DEF vars
  <2>2. TypeOK' /\ Pending' = Pending
    BY <2>1 DEF Inductive, TypeOK, Pending
  <2>3. Inductive(lv)'
    BY <2>1, <2>2 DEF Inductive
  <2> QED
    BY <2>3
<1> QED
  BY <1>1, <1>2, <1>3, <1>4, <1>5, <1>6, <1>7, <1>8, <1>9, <1>10, <1>11, <1>12, <1>13,
     <1>14, <1>15 DEF Next, Step

(* Every step of every call keeps it so (ops.rs:45-463, tree.rs:344-397).   *)
THEOREM StructureTheorem == Spec => []Structure
<1>1. Init => Structure
  BY InitKeeps DEF Structure
<1>2. Structure /\ [Next]_vars => Structure'
  BY NextKeeps DEF Structure
<1> QED
  BY <1>1, <1>2, PTL DEF Spec

(* Backend, handle and running call keep their types: a call that works its *)
(* way back up has a split to absorb or a removal to finish.                *)
THEOREM TypeTheorem == Spec => []TypeOK
<1>1. Structure => TypeOK
  BY DEF Structure, Inductive
<1> QED
  BY <1>1, StructureTheorem, PTL

(* What the invariant says of the links,                                    *)
LEMMA LinksAreSound ==
    ASSUME NEW lv, Inductive(lv)
    PROVE  NoLeakNoAlias
<1> DEFINE tops == {root} \cup Pending
           inner == {id \in Live(store) : Inner(id)}
<1>1. TreeOK(store, tops, lv) /\ root \notin Pending
  BY DEF Inductive
<1> HIDE DEF tops
<1>2. /\ \A p \in inner : p \in Live(store) /\ Kids(store, p) = Range(Children(p))
      /\ \A p \in Live(store) \ inner : Kids(store, p) = {}
  BY DEF Kids, NodeKids, Inner, Children, Node
<1>3. \A p \in inner : IsInjective(Children(p))
  <2>1. \A p \in inner : ShapeOK(Fetch(store, p)) /\ ~IsLeaf(Fetch(store, p))
    BY <1>1 DEF TreeOK, Inner, Node
  <2> QED
    BY <2>1 DEF ShapeOK, Children, Node
<1> HIDE DEF inner
<1>4. /\ tops \subseteq Live(store)
      /\ \A p \in Live(store) : Kids(store, p) \subseteq Live(store) \ tops
      /\ \A p, q \in Live(store) : p # q => Kids(store, p) \cap Kids(store, q) = {}
      /\ Live(store) \subseteq tops \cup Links(store, Live(store))
  BY <1>1 DEF TreeOK, Linked
<1>5. \A p \in inner : Range(Children(p)) \subseteq Live(store) \ tops
  BY <1>2, <1>4
<1>6. \A p, q \in inner : p # q => Range(Children(p)) \cap Range(Children(q)) = {}
  BY <1>2, <1>4
<1>7. \A id \in Live(store) \ tops : \E p \in inner : id \in Range(Children(p))
  <2>1. SUFFICES ASSUME NEW id \in Live(store) \ tops
                 PROVE  \E p \in inner : id \in Range(Children(p))
    OBVIOUS
  <2>2. PICK p \in Live(store) : id \in Kids(store, p)
    BY <1>4 DEF Links
  <2>3. p \in inner
    BY <1>2, <2>2
  <2> QED
    BY <1>2, <2>2, <2>3
<1> QED
  BY <1>1, <1>3, <1>4, <1>5, <1>6, <1>7 DEF NoLeakNoAlias, tops, inner

(* No node is ever leaked, shared, or linked after it was reclaimed, for    *)
(* every order and every sequence of calls (ops.rs:143-196, 251-263,        *)
(* 435-463; store.rs:72-89).                                                *)
THEOREM NoLeakTheorem == Spec => []NoLeakNoAlias
<1>1. Structure => NoLeakNoAlias
  BY LinksAreSound DEF Structure
<1> QED
  BY <1>1, StructureTheorem, PTL

(* of the frames                                                            *)
LEMMA FramesAreSound ==
    ASSUME NEW lv, Inductive(lv)
    PROVE  FramesHold
<1>1. Framed(store, root, path, cur, lv) /\ (pc = "idle" => path = <<>>)
  BY DEF Inductive
<1> QED
  BY <1>1 DEF Framed, FramesHold, Inner, Children, Node

(* child and idx, read before a recursive call, still fit after it, for     *)
(* every order and however deep the call (ops.rs:77-91, 223-245).           *)
THEOREM FramesTheorem == Spec => []FramesHold
<1>1. Structure => FramesHold
  BY FramesAreSound DEF Structure
<1> QED
  BY <1>1, StructureTheorem, PTL

(* The levels are the heights counted along first children.                 *)
LEMMA LevelIsHeight ==
    ASSUME NEW lv, Inductive(lv)
    PROVE  \A id \in Live(store) : Level[id] = lv[id]
<1> DEFINE L == Live(store)
           up(f, id) == IF Inner(id) THEN f[Children(id)[1]] + 1 ELSE 0
<1>1. TreeOK(store, {root} \cup Pending, lv) /\ lv \in [L -> Nat]
  BY DEF Inductive, TreeOK
<1>2. ASSUME NEW id \in L
      PROVE  /\ lv[id] \in Nat
             /\ Inner(id) => /\ Children(id)[1] \in L
                             /\ lv[Children(id)[1]] + 1 = lv[id]
             /\ ~Inner(id) => lv[id] = 0
  <2>1. /\ Fetch(store, id) \in AnyNode /\ ShapeOK(Fetch(store, id))
        /\ lv[id] \in Nat
        /\ IsLeaf(Fetch(store, id)) <=> lv[id] = 0
        /\ Kids(store, id) \subseteq L
        /\ \A c \in Kids(store, id) : lv[c] + 1 = lv[id]
    BY <1>1, TreeFacts
  <2>2. ASSUME Inner(id) PROVE Children(id)[1] \in Kids(store, id)
    <3>1. /\ Children(id) \in Seq(NodeId) /\ Len(Children(id)) = Len(Fetch(store, id).keys) + 1
          /\ Len(Fetch(store, id).keys) \in Nat
          /\ Kids(store, id) = Range(Children(id))
      BY <2>1, <2>2, InternalCases DEF Inner, Node, Children, Kids, AnyNode
    <3>2. 1 \in DOMAIN Children(id)
      BY <3>1, LenProperties
    <3> QED
      BY <3>1, <3>2 DEF Range
  <2> QED
    BY <2>1, <2>2 DEF Inner, Node
<1>3. lv = [id \in L |-> up(lv, id)]
  <2>1. \A id \in L : lv[id] = up(lv, id)
    BY <1>2
  <2> QED
    BY <1>1, <2>1
<1>4. Level = CHOOSE f : f = [id \in L |-> up(f, id)]
  BY DEF Level
<1>5. Level = [id \in L |-> up(Level, id)]
  BY <1>3, <1>4
<1>6. \A id \in L : Level[id] = up(Level, id)
  BY <1>5
<1> SUFFICES ASSUME ~(\A id \in L : Level[id] = lv[id]) PROVE FALSE
  OBVIOUS
<1> DEFINE T == {n \in Nat : \E id \in L : lv[id] = n /\ Level[id] # lv[id]}
<1>7. T \in SUBSET Nat /\ T # {}
  BY <1>2
<1>8. PICK n \in T : \A m \in T : n <= m
  BY <1>7, LeastNat
<1>9. PICK id \in L : lv[id] = n /\ Level[id] # lv[id]
  BY <1>8
<1>10. Inner(id)
  BY <1>2, <1>6, <1>9
<1>11. Children(id)[1] \in L /\ lv[Children(id)[1]] + 1 = lv[id]
  BY <1>2, <1>10
<1>12. Level[Children(id)[1]] = lv[Children(id)[1]]
  <2> DEFINE m == lv[Children(id)[1]]
  <2>1. m \in Nat /\ m + 1 = n /\ n \in Nat
    BY <1>2, <1>8, <1>9, <1>11
  <2> HIDE DEF m
  <2>2. ~(n <= m)
    BY <2>1
  <2>3. m \notin T
    BY <1>8, <2>2
  <2> QED
    BY <1>11, <2>1, <2>3 DEF m
<1> QED
  BY <1>6, <1>9, <1>10, <1>11, <1>12

(* and of the depth.                                                        *)
LEMMA LevelsAreSound ==
    ASSUME NEW lv, Inductive(lv)
    PROVE  SameDepth
<1>1. \A id \in Live(store) : Level[id] = lv[id]
  BY LevelIsHeight
<1>2. /\ TreeOK(store, {root} \cup Pending, lv)
      /\ Framed(store, root, path, cur, lv)
      /\ \A id \in Pending : lv[id] = lv[cur]
  BY DEF Inductive
<1>3. /\ root \in Live(store) /\ cur \in Live(store) /\ Pending \subseteq Live(store)
      /\ \A j \in 1 .. Len(path) : path[j].id \in Live(store)
  BY <1>2, CallFacts DEF Framed, TreeOK, Linked
<1>4. \A id \in Live(store) : IF Inner(id) THEN Level[id] > 0 ELSE Level[id] = 0
  <2>1. \A id \in Live(store) : lv[id] \in Nat /\ (IsLeaf(Fetch(store, id)) <=> lv[id] = 0)
    BY <1>2, TreeFacts
  <2>2. \A id \in Live(store) : IF Inner(id) THEN lv[id] > 0 ELSE lv[id] = 0
    BY <2>1 DEF Inner, Node
  <2> QED
    BY <1>1, <2>2
<1>5. ASSUME NEW p \in Live(store), Inner(p), NEW c \in Range(Children(p))
      PROVE  Level[c] + 1 = Level[p]
  <2>1. c \in Kids(store, p)
    BY <1>5 DEF Kids, NodeKids, Inner, Children, Node
  <2>2. c \in Live(store) /\ lv[c] + 1 = lv[p]
    BY <1>2, <2>1, TreeFacts
  <2> QED
    BY <1>1, <2>2
<1>6. \A id \in Pending : Level[id] = Level[cur]
  BY <1>1, <1>2, <1>3
<1>7. \A j \in 1 .. Len(path) : Level[path[j].id] + j = Level[root] + 1
  BY <1>1, <1>2, <1>3 DEF Framed
<1>8. Level[cur] + Len(path) = Level[root]
  BY <1>1, <1>2, <1>3 DEF Framed
<1> QED
  BY <1>4, <1>5, <1>6, <1>7, <1>8 DEF SameDepth, Leveled

(* Every leaf is at the same depth after every step, for every order        *)
(* (tree.rs:372-373), so a merge never finds siblings of different kinds    *)
(* (ops.rs:460).                                                            *)
THEOREM SameDepthTheorem == Spec => []SameDepth
<1>1. Structure => SameDepth
  BY LevelsAreSound DEF Structure
<1> QED
  BY <1>1, StructureTheorem, PTL

-----------------------------------------------------------------------------
(* Sizes: no node is ever over-full, and none but the one a removal is      *)
(* about to repair holds fewer keys than min_keys asks of it.               *)

KeyCount(st, id) == KeysLen(Fetch(st, id))

Half == (Order - 1) \div 2

NoneFull(st) == \A id \in Live(st) : KeyCount(st, id) < Order

(* The node that may be one key short, if there is one.                     *)
Owing == IF pc = "rebalance" THEN cur ELSE 0

(* id, below the root r, holds enough keys but for the one that o owes.     *)
EnoughAt(st, r, o, id) ==
    LET owed == IF id = o THEN 1 ELSE 0
    IN  /\ id # r => KeyCount(st, id) >= Half - owed
        /\ id = r /\ ~IsLeaf(Fetch(st, id)) => KeyCount(st, id) >= 1 - owed

Enough(st, r, o) == \A id \in Live(st) : EnoughAt(st, r, o, id)

(* With this the lower bounds are inductive: a node that was split is half  *)
(* full even if it is the root, for it is one no longer once it has grown.  *)
Sized == /\ Enough(store, root, Owing)
         /\ pc = "absorb" => KeyCount(store, cur) >= Half

(* The least legal size, as a number.                                       *)
LEMMA HalfFacts ==
    /\ Order \in Nat /\ Order >= 3
    /\ Half \in Nat /\ Half >= 1 /\ MinKeys = Half
    /\ 2 * Half <= Order - 1
    /\ Order \div 2 \in Nat /\ Order \div 2 < Order /\ Order \div 2 >= 1
    /\ Half <= Order \div 2 /\ Half <= Order - (Order \div 2) - 1
  BY OrderAssumption DEF Half, MinKeys

(* The nodes not in D are as they were.                                     *)
Untouched(st, new, D) ==
    \A id \in Live(new) \ D : id \in Live(st) /\ Fetch(new, id) = Fetch(st, id)

(* The number of keys of a node.                                            *)
LEMMA SizeFacts ==
    ASSUME NEW st, NEW tops, NEW lv, TreeOK(st, tops, lv)
    PROVE  \A id \in Live(st) : KeyCount(st, id) \in Nat
<1> SUFFICES ASSUME NEW id \in Live(st) PROVE KeyCount(st, id) \in Nat
  OBVIOUS
<1>1. Fetch(st, id) \in AnyNode
  BY TreeFacts
<1> QED
  BY <1>1, NodeCases DEF AnyNode, KeyCount

(* Bounds that hold of the nodes a step changes hold of all after it.       *)
LEMMA NoneFullKept ==
    ASSUME NEW st, NEW new, NEW D, NoneFull(st), Untouched(st, new, D),
           \A id \in Live(new) \cap D : KeyCount(new, id) < Order
    PROVE  NoneFull(new)
  BY DEF NoneFull, Untouched, KeyCount

(* Only the sizes of the nodes a step writes matter.                        *)
LEMMA EnoughKept ==
    ASSUME NEW st, NEW new, NEW D, NEW r, NEW s, NEW o, NEW q,
           Enough(st, r, o), Untouched(st, new, D),
           \A id \in Live(new) \cap D : EnoughAt(new, s, q, id),
           r # s => r \in D /\ s \in D,
           o # q => o \in D \cup {0},
           0 \notin Live(st), \A id \in Live(st) : KeyCount(st, id) \in Nat
    PROVE  Enough(new, s, q)
<1> SUFFICES ASSUME NEW id \in Live(new) \ D PROVE EnoughAt(new, s, q, id)
  BY DEF Enough
<1>1. id \in Live(st) /\ Fetch(new, id) = Fetch(st, id) /\ KeyCount(new, id) = KeyCount(st, id)
  BY DEF Untouched, KeyCount
<1>2. EnoughAt(st, r, o, id) /\ id # 0 /\ KeyCount(st, id) \in Nat
  BY <1>1 DEF Enough
<1>3. (id = s <=> id = r) /\ (id = o => id = q)
  BY <1>2
<1>4. Half \in Nat
  BY HalfFacts
<1> QED
  BY <1>1, <1>2, <1>3, <1>4 DEF EnoughAt

(* What the invariant says of the node the call is at.                      *)
LEMMA StateFacts ==
    ASSUME NEW lv, Inductive(lv)
    PROVE  /\ store \in StoreType
           /\ 0 \notin Live(store)
           /\ \A id \in Live(store) : KeyCount(store, id) \in Nat
           /\ cur \in Live(store) /\ root \in Live(store)
<1>1. TreeOK(store, {root} \cup Pending, lv)
  BY DEF Inductive
<1>2. \A id \in Live(store) : KeyCount(store, id) \in Nat
  BY <1>1, SizeFacts
<1>3. 0 \notin Live(store)
  BY CallFacts DEF NodeId
<1> QED
  BY <1>2, <1>3, CallFacts
-----------------------------------------------------------------------------
(* One lemma for each kind of step: it keeps the sizes within bounds.       *)

(* The steps that change no node, and none that owes a key but one that has *)
(* enough of them.                                                          *)
LEMMA SameSizes ==
    ASSUME NEW lv, Inductive(lv), store' = store, root' = root, split' = split,
           \/ pc # "rebalance" /\ pc' \notin {"rebalance", "absorb"}
           \/ pc = "absorb" /\ UNCHANGED <<pc, cur>>
           \/ pc = "rebalance" /\ pc' = pc /\ KeyCount(store, cur) >= Half
    PROVE  /\ NoneFull(store) => NoneFull(store')
           /\ Sized => Sized'
<1>1. NoneFull(store) => NoneFull(store')
  OBVIOUS
<1>2. ASSUME Sized PROVE Sized'
  <2>1. CASE pc # "rebalance" /\ pc' \notin {"rebalance", "absorb"}
    BY <1>2, <2>1 DEF Sized, Owing
  <2>2. CASE pc = "absorb" /\ UNCHANGED <<pc, cur>>
    BY <1>2, <2>2 DEF Sized, Owing
  <2>3. CASE pc = "rebalance" /\ pc' = pc /\ KeyCount(store, cur) >= Half
    <3>1. /\ 0 \notin Live(store) /\ \A id \in Live(store) : KeyCount(store, id) \in Nat
          /\ Half \in Nat /\ Half >= 1
      BY StateFacts, HalfFacts
    <3>2. Enough(store, root, cur)
      BY <1>2, <2>3 DEF Sized, Owing
    <3>3. ASSUME NEW id \in Live(store) PROVE EnoughAt(store, root, cur', id)
      <4>1. EnoughAt(store, root, cur, id) /\ KeyCount(store, id) \in Nat
        BY <3>1, <3>2 DEF Enough
      <4>2. id = cur => KeyCount(store, id) >= Half
        BY <2>3
      <4> QED
        BY <3>1, <4>1, <4>2 DEF EnoughAt
    <3>4. Enough(store, root, cur')
      BY <3>3 DEF Enough
    <3> QED
      BY <2>3, <3>4 DEF Sized, Owing
  <2> QED
    BY <2>1, <2>2, <2>3
<1> QED
  BY <1>1, <1>2

(* What a write leaves behind.                                              *)
LEMMA WriteUntouched ==
    ASSUME NEW st \in StoreType, NEW id \in Live(st), NEW node \in AnyNode
    PROVE  LET new == Write(st, id, node)
           IN  /\ new \in StoreType
               /\ Live(new) = Live(st)
               /\ Untouched(st, new, {id})
               /\ Fetch(new, id) = node
               /\ KeyCount(new, id) = KeysLen(node)
  BY WriteProperties DEF Untouched, KeyCount

(* A leaf is written and the call returns.                                  *)
LEMMA LeafWritten ==
    ASSUME NEW lv, Inductive(lv), pc = "descend", IsLeaf(Node(cur)),
           NEW node \in AnyNode, IsLeaf(node), KeysLen(node) >= KeyCount(store, cur),
           store' = Write(store, cur, node), root' = root, pc' = "idle"
    PROVE  /\ NoneFull(store) /\ KeysLen(node) < Order => NoneFull(store')
           /\ Sized => Sized'
<1>1. /\ store \in StoreType /\ 0 \notin Live(store) /\ cur \in Live(store)
      /\ \A id \in Live(store) : KeyCount(store, id) \in Nat
      /\ Half \in Nat /\ KeysLen(node) \in Nat
  BY StateFacts, HalfFacts, NodeCases DEF AnyNode
<1>2. /\ Live(store') = Live(store) /\ Untouched(store, store', {cur})
      /\ Fetch(store', cur) = node /\ KeyCount(store', cur) = KeysLen(node)
  BY <1>1, WriteUntouched
<1>3. NoneFull(store) /\ KeysLen(node) < Order => NoneFull(store')
  BY <1>2, NoneFullKept
<1>4. ASSUME Sized PROVE Sized'
  <2>1. Enough(store, root, 0)
    BY <1>4 DEF Sized, Owing
  <2>2. EnoughAt(store', root, 0, cur)
    <3>1. EnoughAt(store, root, 0, cur)
      BY <1>1, <2>1 DEF Enough
    <3> QED
      BY <1>1, <1>2, <3>1 DEF EnoughAt
  <2>3. Enough(store', root, 0)
    BY <1>1, <1>2, <2>1, <2>2, EnoughKept
  <2> QED
    BY <2>3 DEF Sized, Owing
<1> QED
  BY <1>3, <1>4

(* Each action of a call keeps the bounds.                                  *)
LEMMA InsertReplaceSizes ==
    ASSUME NEW lv, Inductive(lv), InsertReplace
    PROVE  (NoneFull(store) => NoneFull(store')) /\ (Sized => Sized')
<1> DEFINE leaf == Node(cur)
           vals == ReplaceAt(leaf.vals, Position(leaf.keys, arg.key), arg.val)
           node == Leaf(leaf.keys, vals)
<1>1. /\ pc = "descend" /\ arg.op = "insert" /\ IsLeaf(leaf) /\ HasKey
      /\ store' = Write(store, cur, node)
      /\ root' = root /\ pc' = "idle"
  BY DEF InsertReplace, AtLeaf, Return
<1>2. /\ leaf.keys \in Seq(Key) /\ leaf.vals \in Seq(Val) /\ arg.val \in Val
      /\ Position(leaf.keys, arg.key) \in 1 .. Len(leaf.vals)
      /\ cur \in Live(store)
  BY <1>1, LeafFacts
<1>3. vals \in Seq(Val)
  BY <1>2, ExceptSeq DEF ReplaceAt
<1> HIDE DEF vals
<1>4. node \in AnyNode /\ IsLeaf(node) /\ KeysLen(node) = KeyCount(store, cur)
  BY <1>2, <1>3, LeafIsNode DEF AnyNode, KeysLen, KeyCount, Node
<1> HIDE DEF node
<1>5. KeyCount(store, cur) \in Nat
  BY StateFacts
<1>6. NoneFull(store) => KeysLen(node) < Order
  BY <1>2, <1>4 DEF NoneFull
<1> QED
  BY <1>1, <1>4, <1>5, <1>6, LeafWritten

LEMMA InsertFitsSizes ==
    ASSUME NEW lv, Inductive(lv), InsertFits
    PROVE  (NoneFull(store) => NoneFull(store')) /\ (Sized => Sized')
<1> DEFINE node == LeafWith(Node(cur), arg.key, arg.val)
<1>1. /\ pc = "descend" /\ arg.op = "insert" /\ IsLeaf(Node(cur))
      /\ KeysLen(Node(cur)) + 1 < Order
      /\ store' = Write(store, cur, node)
      /\ root' = root /\ pc' = "idle"
  BY DEF InsertFits, AtLeaf, Return
<1>2. /\ Node(cur) \in AnyNode /\ ShapeOK(Node(cur)) /\ arg.key \in Key /\ arg.val \in Val
      /\ KeyCount(store, cur) \in Nat /\ KeysLen(Node(cur)) = KeyCount(store, cur)
  BY <1>1, LeafFacts, CallFacts, StateFacts DEF KeyCount, Node
<1>3. node \in AnyNode /\ IsLeaf(node) /\ KeysLen(node) = KeysLen(Node(cur)) + 1
  BY <1>1, <1>2, LeafWithProperties DEF ShapeOK, AnyNode
<1> HIDE DEF node
<1>4. KeysLen(node) >= KeyCount(store, cur) /\ KeysLen(node) < Order
  BY <1>1, <1>2, <1>3
<1> QED
  BY <1>1, <1>3, <1>4, LeafWritten

LEMMA RemoveEntrySizes ==
    ASSUME NEW lv, Inductive(lv), RemoveEntry
    PROVE  (NoneFull(store) => NoneFull(store')) /\ (Sized => Sized')
<1> DEFINE node == LeafWithout(Node(cur), arg.key)
<1>1. /\ pc = "descend" /\ arg.op = "remove" /\ IsLeaf(Node(cur)) /\ HasKey
      /\ store' = Write(store, cur, node)
      /\ pc' = "rebalance" /\ root' = root /\ cur' = cur
  BY DEF RemoveEntry, AtLeaf
<1>2. /\ Node(cur) \in AnyNode /\ ShapeOK(Node(cur)) /\ arg.key \in Key
      /\ KeysLen(Node(cur)) = KeyCount(store, cur)
      /\ store \in StoreType /\ 0 \notin Live(store) /\ cur \in Live(store)
      /\ \A id \in Live(store) : KeyCount(store, id) \in Nat
      /\ Half \in Nat /\ Order \in Nat
  BY <1>1, LeafFacts, CallFacts, StateFacts, HalfFacts DEF KeyCount, Node
<1>3. node \in AnyNode /\ IsLeaf(node) /\ KeysLen(node) = KeysLen(Node(cur)) - 1
  BY <1>1, <1>2, LeafWithoutProperties DEF ShapeOK, AnyNode, HasKey
<1> HIDE DEF node
<1>4. /\ Live(store') = Live(store) /\ Untouched(store, store', {cur})
      /\ Fetch(store', cur) = node /\ KeyCount(store', cur) = KeyCount(store, cur) - 1
  BY <1>1, <1>2, <1>3, WriteUntouched
<1>5. ASSUME NoneFull(store) PROVE NoneFull(store')
  <2>1. KeyCount(store, cur) < Order
    BY <1>2, <1>5 DEF NoneFull
  <2>2. KeyCount(store', cur) < Order
    BY <1>2, <1>4, <2>1
  <2> QED
    BY <1>4, <1>5, <2>2, NoneFullKept
<1>6. ASSUME Sized PROVE Sized'
  <2>1. Enough(store, root, 0)
    BY <1>1, <1>6 DEF Sized, Owing
  <2>2. EnoughAt(store', root, cur, cur)
    <3>1. EnoughAt(store, root, 0, cur)
      BY <1>2, <2>1 DEF Enough
    <3> QED
      BY <1>2, <1>3, <1>4, <3>1 DEF EnoughAt
  <2>3. Enough(store', root, cur)
    BY <1>2, <1>4, <2>1, <2>2, EnoughKept
  <2> QED
    BY <1>1, <2>3 DEF Sized, Owing
<1> QED
  BY <1>5, <1>6

(* A node is split in halves of legal size.                                 *)
LEMMA SplitSizes ==
    ASSUME NEW lv, Inductive(lv), NEW id \in Live(store), Room(store),
           NEW lower \in AnyNode, NEW upper \in AnyNode,
           Half <= KeysLen(lower), KeysLen(lower) < Order,
           Half <= KeysLen(upper), KeysLen(upper) < Order,
           store' = Alloc(Write(store, id, lower), upper),
           root' = root, cur' = id, pc # "rebalance", pc' = "absorb"
    PROVE  (NoneFull(store) => NoneFull(store')) /\ (Sized => Sized')
<1> DEFINE r == AllocId(store)
           one == Write(store, id, lower)
           D == {id, r}
<1>1. /\ store \in StoreType /\ StoreOK(store) /\ 0 \notin Live(store)
      /\ \A j \in Live(store) : KeyCount(store, j) \in Nat
      /\ root \in Live(store)
      /\ Half \in Nat /\ Half >= 1 /\ Order \in Nat
      /\ KeysLen(lower) \in Nat /\ KeysLen(upper) \in Nat
  BY StateFacts, CallFacts, HalfFacts, NodeCases DEF AnyNode
<1>2. /\ one \in StoreType /\ StoreOK(one) /\ Room(one)
      /\ Live(one) = Live(store) /\ AllocId(one) = r
      /\ \A j \in Live(store) : Fetch(one, j) = IF j = id THEN lower ELSE Fetch(store, j)
  BY <1>1, WriteProperties
<1> HIDE DEF one
<1>3. /\ r \notin Live(store)
      /\ Live(store') = Live(store) \cup {r}
      /\ Fetch(store', r) = upper
      /\ \A j \in Live(store) : Fetch(store', j) = IF j = id THEN lower ELSE Fetch(store, j)
  <2>1. store' = Alloc(one, upper)
    BY DEF one
  <2> HIDE DEF r
  <2> QED
    BY <1>2, <2>1, AllocProperties
<1> HIDE DEF r
<1>4. /\ Untouched(store, store', D)
      /\ KeyCount(store', r) = KeysLen(upper)
      /\ KeyCount(store', id) = KeysLen(lower)
  BY <1>3 DEF Untouched, KeyCount
<1>5. NoneFull(store) => NoneFull(store')
  BY <1>4, NoneFullKept
<1>6. ASSUME Sized PROVE Sized'
  <2>1. Enough(store, root, 0)
    BY <1>6 DEF Sized, Owing
  <2>2. \A j \in D : EnoughAt(store', root, 0, j)
    BY <1>1, <1>3, <1>4 DEF EnoughAt
  <2>3. Enough(store', root, 0)
    BY <1>1, <1>4, <2>1, <2>2, EnoughKept
  <2> QED
    BY <1>4, <2>3 DEF Sized, Owing
<1> QED
  BY <1>5, <1>6

LEMMA InsertSplitSizes ==
    ASSUME NEW lv, Inductive(lv), InsertSplit, NoneFull(store)
    PROVE  NoneFull(store') /\ (Sized => Sized')
<1> DEFINE full == LeafWith(Node(cur), arg.key, arg.val)
           n == KeysLen(full)
           mid == n \div 2
           lower == Leaf(SubSeq(full.keys, 1, mid), SubSeq(full.vals, 1, mid))
           upper == Leaf(SubSeq(full.keys, mid + 1, n), SubSeq(full.vals, mid + 1, n))
<1>1. /\ pc = "descend" /\ arg.op = "insert" /\ IsLeaf(Node(cur))
      /\ KeysLen(Node(cur)) + 1 >= Order
      /\ Room(store)
      /\ store' = Alloc(Write(store, cur, lower), upper)
      /\ pc' = "absorb"
      /\ UNCHANGED <<root, cur>>
  BY DEF InsertSplit, AtLeaf
<1>2. /\ cur \in Live(store)
      /\ Node(cur) \in AnyNode /\ ShapeOK(Node(cur))
      /\ arg.key \in Key /\ arg.val \in Val
      /\ KeysLen(Node(cur)) \in Nat /\ KeysLen(Node(cur)) < Order
  BY <1>1, LeafFacts, CallFacts, StateFacts DEF NoneFull, KeyCount, Node
<1>3. /\ full \in AnyNode /\ IsLeaf(full) /\ ShapeOK(full)
      /\ n = KeysLen(Node(cur)) + 1
  BY <1>1, <1>2, LeafWithProperties DEF ShapeOK, AnyNode
<1> HIDE DEF full
<1>4. n = Order /\ n \in Nat /\ n >= 2
  BY <1>1, <1>2, <1>3, OrderAssumption
<1>5. mid \in 1 .. n - 1 /\ mid = Order \div 2
  <2>1. mid = Order \div 2
    BY <1>4
  <2> HIDE DEF n
  <2> QED
    BY <1>4, <2>1, HalfProperties
<1>6. n = KeysLen(full) /\ full.keys \in Seq(Key) /\ n = Len(full.keys)
  BY <1>3, NodeCases DEF AnyNode, KeysLen
<1> HIDE DEF n, mid
<1>7. lower \in AnyNode /\ upper \in AnyNode
  BY <1>3, <1>5, <1>6, CutLeaf DEF AnyNode
<1>8. KeysLen(lower) = mid /\ KeysLen(upper) = n - mid
  <2>1. mid \in 0 .. n
    BY <1>4, <1>5
  <2>2. mid \in 0 .. Len(full.keys) /\ n = Len(full.keys)
    BY <1>6, <2>1
  <2> QED
    BY <1>6, <2>2, HalvesProperties DEF KeysLen, Leaf
<1> HIDE DEF lower, upper
<1>9. /\ Half <= KeysLen(lower) /\ KeysLen(lower) < Order
      /\ Half <= KeysLen(upper) /\ KeysLen(upper) < Order
  BY <1>4, <1>5, <1>8, HalfFacts
<1> QED
  BY <1>1, <1>2, <1>7, <1>9, SplitSizes

(* The parent a split is absorbed into has one key more.                    *)
LEMMA AbsorbedSize ==
    ASSUME NEW lv, Inductive(lv), pc = "absorb", path # <<>>
    PROVE  /\ KeysLen(Absorbed) = KeyCount(store, Last(path).id) + 1
           /\ KeyCount(store, Last(path).id) \in Nat
           /\ Last(path).id \in Live(store)
<1> DEFINE f == Last(path).id
           i == Last(path).idx
           parent == Node(f)
<1>1. /\ path \in Seq(Frame) /\ lv \in [Live(store) -> Nat]
      /\ Framed(store, root, path, cur, lv)
      /\ split \in [sep : Key, right : NodeId]
  BY CallFacts
<1>2. f \in Live(store) /\ ~IsLeaf(parent) /\ i \in 1 .. Len(parent.children)
  BY <1>1, LastFrame DEF Node
<1>3. parent \in AnyNode /\ ShapeOK(parent)
  BY <1>2, TreeFacts DEF Inductive, Node
<1>4. Absorbed = Internal(InsertAt(parent.keys, i, split.sep),
                          InsertAt(parent.children, i + 1, split.right))
  BY DEF Absorbed
<1> HIDE DEF i, parent
<1>5. parent.keys \in Seq(Key) /\ i \in 1 .. Len(parent.keys) + 1 /\ split.sep \in Key
  BY <1>1, <1>2, <1>3, InternalCases DEF AnyNode
<1>6. Len(InsertAt(parent.keys, i, split.sep)) = Len(parent.keys) + 1
  BY <1>5, InsertAtProperties
<1>7. KeysLen(Absorbed) = Len(parent.keys) + 1
  BY <1>4, <1>6 DEF Internal, KeysLen
<1>8. KeyCount(store, f) = Len(parent.keys)
  BY DEF KeyCount, KeysLen, parent, Node
<1> QED
  BY <1>2, <1>7, <1>8, StateFacts

LEMMA AbsorbFitsSizes ==
    ASSUME NEW lv, Inductive(lv), AbsorbFits
    PROVE  (NoneFull(store) => NoneFull(store')) /\ (Sized => Sized')
<1> DEFINE f == Last(path).id
<1>1. /\ pc = "absorb" /\ path # <<>> /\ KeysLen(Absorbed) < Order
      /\ store' = Write(store, f, Absorbed)
      /\ root' = root /\ pc' = "idle"
  BY DEF AbsorbFits, Return
<1>2. /\ f \in Live(store) /\ Absorbed \in AnyNode
      /\ KeysLen(Absorbed) = KeyCount(store, f) + 1
      /\ store \in StoreType /\ 0 \notin Live(store)
      /\ \A id \in Live(store) : KeyCount(store, id) \in Nat
      /\ Half \in Nat
  BY <1>1, AbsorbFacts, AbsorbedSize, StateFacts, HalfFacts
<1> HIDE DEF f
<1>3. /\ Live(store') = Live(store) /\ Untouched(store, store', {f})
      /\ KeyCount(store', f) = KeyCount(store, f) + 1
      /\ KeyCount(store', f) < Order
  BY <1>1, <1>2, WriteUntouched
<1>4. NoneFull(store) => NoneFull(store')
  BY <1>3, NoneFullKept
<1>5. ASSUME Sized PROVE Sized'
  <2>1. Enough(store, root, 0)
    BY <1>1, <1>5 DEF Sized, Owing
  <2>2. EnoughAt(store', root, 0, f)
    <3>1. EnoughAt(store, root, 0, f)
      BY <1>2, <2>1 DEF Enough
    <3> QED
      BY <1>2, <1>3, <3>1 DEF EnoughAt
  <2>3. Enough(store', root, 0)
    BY <1>2, <1>3, <2>1, <2>2, EnoughKept
  <2> QED
    BY <1>1, <2>3 DEF Sized, Owing
<1> QED
  BY <1>4, <1>5

LEMMA AbsorbSplitSizes ==
    ASSUME NEW lv, Inductive(lv), AbsorbSplit, NoneFull(store)
    PROVE  NoneFull(store') /\ (Sized => Sized')
<1> DEFINE f == Last(path).id
           full == Absorbed
           n == KeysLen(full)
           mid == n \div 2
           lower == Internal(SubSeq(full.keys, 1, mid),
                             SubSeq(full.children, 1, mid + 1))
           upper == Internal(SubSeq(full.keys, mid + 2, n),
                             SubSeq(full.children, mid + 2, n + 1))
<1>1. /\ pc = "absorb" /\ path # <<>> /\ n >= Order /\ Room(store)
      /\ store' = Alloc(Write(store, f, lower), upper)
      /\ cur' = f /\ pc' = pc /\ root' = root
  BY DEF AbsorbSplit, Ascend
<1>2. /\ f \in Live(store)
      /\ full \in AnyNode /\ ShapeOK(full) /\ ~IsLeaf(full)
      /\ n = KeyCount(store, f) + 1
      /\ KeyCount(store, f) \in Nat /\ KeyCount(store, f) < Order
  BY <1>1, AbsorbFacts, AbsorbedSize DEF NoneFull
<1> HIDE DEF f, full
<1>3. n = Order /\ n \in Nat /\ n >= 2
  BY <1>1, <1>2, OrderAssumption
<1>4. mid \in 1 .. n - 1 /\ mid = Order \div 2
  <2>1. mid = Order \div 2
    BY <1>3
  <2> HIDE DEF n
  <2> QED
    BY <1>3, <2>1, HalfProperties
<1>5. n = KeysLen(full) /\ full.keys \in Seq(Key) /\ n = Len(full.keys)
  BY <1>2, NodeCases DEF AnyNode, KeysLen
<1> HIDE DEF n, mid
<1>6. lower \in AnyNode /\ upper \in AnyNode
  <2>1. full \in NodeOf(NodeId)
    BY <1>2 DEF AnyNode
  <2>2. CutAround(full, n, mid, lower, upper)
    BY <1>2, <1>4, <1>5 DEF CutAround
  <2> HIDE DEF lower, upper
  <2>3. lower \in NodeOf(NodeId) /\ upper \in NodeOf(NodeId)
    BY <2>1, <2>2, CutInternal
  <2> QED
    BY <2>3 DEF AnyNode
<1>7. KeysLen(lower) = mid /\ KeysLen(upper) = n - mid - 1
  <2>1. mid \in 1 .. n - 1 /\ mid + 2 \in Nat /\ 1 <= mid + 2 /\ mid + 2 <= n + 1 /\ 1 \in Nat
        /\ mid \in Nat /\ mid <= n /\ 1 <= mid + 1
    BY <1>3, <1>4
  <2>2. Len(SubSeq(full.keys, 1, mid)) = mid + 1 - 1
    <3>1. mid <= Len(full.keys)
      BY <1>5, <2>1
    <3> QED
      BY <1>5, <2>1, <3>1, CutProperties
  <2>3. Len(SubSeq(full.keys, mid + 2, n)) = n + 1 - (mid + 2)
    <3> DEFINE a == mid + 2
    <3>1. a \in Nat /\ n \in Nat /\ 1 <= a /\ n <= Len(full.keys) /\ a <= n + 1
      BY <1>3, <1>5, <2>1
    <3> HIDE DEF a
    <3>2. Len(SubSeq(full.keys, a, n)) = n + 1 - a
      BY <1>5, <3>1, CutProperties
    <3> QED
      BY <3>2 DEF a
  <2>4. KeysLen(lower) = Len(SubSeq(full.keys, 1, mid))
        /\ KeysLen(upper) = Len(SubSeq(full.keys, mid + 2, n))
    BY DEF KeysLen, Internal
  <2> QED
    BY <1>3, <2>1, <2>2, <2>3, <2>4
<1> HIDE DEF lower, upper
<1>8. /\ Half <= KeysLen(lower) /\ KeysLen(lower) < Order
      /\ Half <= KeysLen(upper) /\ KeysLen(upper) < Order
  BY <1>3, <1>4, <1>7, HalfFacts
<1> QED
  BY <1>1, <1>2, <1>6, <1>8, SplitSizes

LEMMA GrowRootSizes ==
    ASSUME NEW lv, Inductive(lv), GrowRoot
    PROVE  (NoneFull(store) => NoneFull(store')) /\ (Sized => Sized')
<1> DEFINE keys == <<split.sep>>
           children == <<root, split.right>>
           node == Internal(keys, children)
           r == AllocId(store)
           D == {root, r}
<1>1. /\ pc = "absorb" /\ path = <<>> /\ Room(store)
      /\ store' = Alloc(store, node)
      /\ root' = r /\ pc' = "idle"
  BY DEF GrowRoot, Return
<1>2. /\ split.sep \in Key /\ split.right \in NodeId /\ root \in NodeId
      /\ store \in StoreType /\ StoreOK(store) /\ 0 \notin Live(store)
      /\ \A id \in Live(store) : KeyCount(store, id) \in Nat
      /\ root \in Live(store)
      /\ Half \in Nat /\ Order \in Nat /\ Order >= 3
  BY <1>1, CallFacts, StateFacts, HalfFacts
<1>3. cur = root
  BY <1>1 DEF Inductive, Framed
<1>4. keys \in Seq(Key) /\ Len(keys) = 1 /\ children \in Seq(NodeId)
  BY <1>2
<1> HIDE DEF keys, children
<1>5. node \in AnyNode /\ KeysLen(node) = 1
  BY <1>4, InternalIsNode DEF AnyNode, KeysLen
<1> HIDE DEF node
<1>6. /\ r \notin Live(store)
      /\ Live(store') = Live(store) \cup {r}
      /\ Fetch(store', r) = node
      /\ \A j \in Live(store) : Fetch(store', j) = Fetch(store, j)
  BY <1>1, <1>2, <1>5, AllocProperties
<1> HIDE DEF r
<1>7. /\ Untouched(store, store', D) /\ Untouched(store, store', {r})
      /\ KeyCount(store', r) = 1
      /\ KeyCount(store', root) = KeyCount(store, root)
  BY <1>2, <1>5, <1>6 DEF Untouched, KeyCount
<1>8. NoneFull(store) => NoneFull(store')
  BY <1>2, <1>7, NoneFullKept
<1>9. ASSUME Sized PROVE Sized'
  <2>1. Enough(store, root, 0) /\ KeyCount(store, root) >= Half
    BY <1>1, <1>3, <1>9 DEF Sized, Owing
  <2>2. \A j \in D : EnoughAt(store', r, 0, j)
    BY <1>2, <1>6, <1>7, <2>1 DEF EnoughAt
  <2>3. Enough(store', r, 0)
    BY <1>2, <1>7, <2>1, <2>2, EnoughKept
  <2> QED
    BY <1>1, <2>3 DEF Sized, Owing
<1> QED
  BY <1>8, <1>9

(* The parent is above the children that are rotated or merged, and neither *)
(* of these is the root.                                                    *)
LEMMA RepairSizeFacts ==
    ASSUME NEW lv, Inductive(lv), pc = "rebalance", path # <<>>,
           NEW i \in 1 .. Len(Siblings), i # Last(path).idx
    PROVE  LET f == Last(path).id
               a == Siblings[i]
           IN  /\ a \in Live(store) /\ cur \in Live(store) /\ f \in Live(store)
               /\ a # cur /\ a # f /\ cur # f /\ a # root /\ cur # root
               /\ ~IsLeaf(Fetch(store, f))
               /\ Fetch(store, f) \in AnyNode /\ ShapeOK(Fetch(store, f))
               /\ store \in StoreType /\ StoreOK(store) /\ 0 \notin Live(store)
               /\ \A id \in Live(store) : KeyCount(store, id) \in Nat
               /\ Siblings = Fetch(store, f).children
               /\ Len(Siblings) = Len(Fetch(store, f).keys) + 1
               /\ Last(path).idx \in 1 .. Len(Siblings)
               /\ Siblings[Last(path).idx] = cur
<1> DEFINE f == Last(path).id
           a == Siblings[i]
<1>1. /\ TreeOK(store, {root}, lv)
      /\ f \in Live(store) /\ ~IsLeaf(Fetch(store, f))
      /\ Fetch(store, f) \in NodeOf(NodeId) /\ ShapeOK(Fetch(store, f))
      /\ Siblings = Fetch(store, f).children
      /\ Len(Siblings) = Len(Fetch(store, f).keys) + 1
      /\ Last(path).idx \in 1 .. Len(Siblings)
      /\ Siblings[Last(path).idx] = cur
  BY RepairFacts
<1>2. a \in Kids(store, f) /\ cur \in Kids(store, f) /\ a # cur
  BY <1>1, SiblingFacts
<1> HIDE DEF f, a
<1>3. Kids(store, f) \subseteq Live(store) \ {root} /\ f \notin Kids(store, f)
  BY <1>1, TreeFacts
<1>4. store \in StoreType /\ StoreOK(store) /\ 0 \notin Live(store)
      /\ \A id \in Live(store) : KeyCount(store, id) \in Nat
  BY CallFacts, StateFacts
<1> QED
  BY <1>1, <1>2, <1>3, <1>4 DEF f, a, AnyNode

LEMMA RotationSizes ==
    ASSUME NEW lv, Inductive(lv), pc = "rebalance", path # <<>>, Ascend,
           UNCHANGED <<root, pc>>, UnderFull,
           NEW i \in 1 .. Len(Siblings), i # Last(path).idx,
           KeysLen(Node(Siblings[i])) > Half,
           NEW s \in AnyNode, NEW c \in AnyNode,
           KeysLen(s) = KeysLen(Node(Siblings[i])) - 1,
           KeysLen(c) = KeysLen(Node(cur)) + 1,
           NEW j \in 1 .. Len(Fetch(store, Last(path).id).keys), NEW k \in Key,
           store' = Rewritten(Siblings[i], s, c, NewSeparator(j, k))
    PROVE  (NoneFull(store) => NoneFull(store')) /\ (Sized => Sized')
<1> DEFINE f == Last(path).id
           p == Fetch(store, f)
           pn == NewSeparator(j, k)
           a == Siblings[i]
           one == Write(store, a, s)
           two == Write(one, cur, c)
           D == {a, cur, f}
<1>1. /\ a \in Live(store) /\ cur \in Live(store) /\ f \in Live(store)
      /\ a # cur /\ a # f /\ cur # f /\ a # root /\ cur # root
      /\ ~IsLeaf(p) /\ p \in AnyNode /\ ShapeOK(p)
      /\ store \in StoreType /\ StoreOK(store) /\ 0 \notin Live(store)
      /\ \A id \in Live(store) : KeyCount(store, id) \in Nat
  BY RepairSizeFacts
<1>2. Half \in Nat /\ Half >= 1 /\ MinKeys = Half /\ 2 * Half <= Order - 1 /\ Order \in Nat
  BY HalfFacts
<1>3. /\ KeyCount(store, cur) < Half /\ KeyCount(store, a) > Half
      /\ KeysLen(s) = KeyCount(store, a) - 1 /\ KeysLen(c) = KeyCount(store, cur) + 1
  BY <1>2 DEF UnderFull, KeyCount, Node
<1>4. /\ pn \in AnyNode /\ ~IsLeaf(pn) /\ KeysLen(pn) = KeyCount(store, f)
  <2>1. pn = Internal(ReplaceAt(p.keys, j, k), p.children)
    BY DEF NewSeparator, Node
  <2>2. p.keys \in Seq(Key) /\ p.children \in Seq(NodeId)
    BY <1>1, NodeCases DEF AnyNode
  <2>3. ReplaceAt(p.keys, j, k) \in Seq(Key) /\ Len(ReplaceAt(p.keys, j, k)) = Len(p.keys)
    <3>1. j \in 1 .. Len(p.keys)
      OBVIOUS
    <3> HIDE DEF p
    <3> QED
      BY <2>2, <3>1, ExceptSeq DEF ReplaceAt
  <2> HIDE DEF pn
  <2>4. pn \in AnyNode /\ ~IsLeaf(pn) /\ pn.keys = ReplaceAt(p.keys, j, k)
    BY <2>1, <2>2, <2>3, InternalIsNode DEF AnyNode
  <2> QED
    BY <2>3, <2>4 DEF KeysLen, KeyCount
<1>5. store' = Write(two, f, pn)
  BY DEF Rewritten
<1> HIDE DEF f, a, pn
<1>6. /\ one \in StoreType /\ Live(one) = Live(store)
      /\ \A x \in Live(store) : Fetch(one, x) = IF x = a THEN s ELSE Fetch(store, x)
  BY <1>1, WriteProperties
<1> HIDE DEF one
<1>7. /\ two \in StoreType /\ Live(two) = Live(store)
      /\ \A x \in Live(store) : Fetch(two, x) = IF x = cur THEN c ELSE Fetch(one, x)
  BY <1>1, <1>6, WriteProperties
<1> HIDE DEF two
<1>8. /\ Live(store') = Live(store)
      /\ \A x \in Live(store) : Fetch(store', x) = IF x = f THEN pn ELSE Fetch(two, x)
  BY <1>1, <1>4, <1>5, <1>7, WriteProperties, SMTT(30)
<1>9. /\ Untouched(store, store', D)
      /\ Fetch(store', a) = s /\ Fetch(store', cur) = c /\ Fetch(store', f) = pn
  BY <1>1, <1>6, <1>7, <1>8 DEF Untouched
<1>10. /\ KeyCount(store', a) = KeyCount(store, a) - 1
       /\ KeyCount(store', cur) = KeyCount(store, cur) + 1
       /\ KeyCount(store', f) = KeyCount(store, f)
  BY <1>3, <1>4, <1>9 DEF KeyCount
<1>11. cur' = f
  BY DEF Ascend, f
<1>12. ASSUME NoneFull(store) PROVE NoneFull(store')
  <2>1. \A x \in {a, cur, f} : KeyCount(store, x) < Order /\ KeyCount(store, x) \in Nat
    BY <1>1, <1>12 DEF NoneFull
  <2>2. \A x \in D : KeyCount(store', x) < Order
    BY <1>2, <1>3, <1>10, <2>1
  <2> QED
    BY <1>9, <1>12, <2>2, NoneFullKept
<1>13. ASSUME Sized PROVE Sized'
  <2>1. Enough(store, root, cur)
    BY <1>13 DEF Sized, Owing
  <2>2. \A x \in D : EnoughAt(store, root, cur, x) /\ KeyCount(store, x) \in Nat
    BY <1>1, <2>1 DEF Enough
  <2>3. EnoughAt(store', root, f, a)
    BY <1>1, <1>2, <1>3, <1>10, <2>2 DEF EnoughAt
  <2>4. EnoughAt(store', root, f, cur)
    BY <1>1, <1>2, <1>3, <1>10, <2>2 DEF EnoughAt
  <2>5. EnoughAt(store', root, f, f)
    BY <1>1, <1>2, <1>4, <1>9, <1>10, <2>2 DEF EnoughAt, p
  <2>6. Enough(store', root, f)
    BY <1>1, <1>9, <2>1, <2>3, <2>4, <2>5, EnoughKept
  <2> QED
    BY <1>11, <2>6 DEF Sized, Owing
<1> QED
  BY <1>12, <1>13

LEMMA BorrowFromLeftSizes ==
    ASSUME NEW lv, Inductive(lv), pc = "rebalance", path # <<>>, Ascend,
           UNCHANGED <<root, pc>>, UnderFull,
           CanLend(ToLeft), store' = BorrowFromLeft
    PROVE  (NoneFull(store) => NoneFull(store')) /\ (Sized => Sized')
<1> DEFINE i == ToLeft
           l == Node(Siblings[i])
           c == Node(cur)
           sep == Node(Last(path).id).keys[i]
           ln == IF IsLeaf(c) THEN Leaf(Front(l.keys), Front(l.vals))
                              ELSE Internal(Front(l.keys), Front(l.children))
           cn == IF IsLeaf(c)
                 THEN Leaf(Cons(Last(l.keys), c.keys), Cons(Last(l.vals), c.vals))
                 ELSE Internal(Cons(sep, c.keys), Cons(Last(l.children), c.children))
           p == Fetch(store, Last(path).id)
<1>1. /\ p \in NodeOf(NodeId)
      /\ Len(Siblings) = Len(p.keys) + 1
      /\ Len(p.keys) \in Nat
      /\ Last(path).idx \in 1 .. Len(Siblings)
      /\ Siblings[Last(path).idx] = cur
      /\ i = Last(path).idx - 1
      /\ Half \in Nat /\ Half >= 1 /\ MinKeys = Half
  BY RepairFacts, HalfFacts
<1>2. /\ i \in 1 .. Len(Siblings) /\ i # Last(path).idx
      /\ i \in 1 .. Len(p.keys)
      /\ KeysLen(l) > Half
  BY <1>1 DEF CanLend
<1>3. store' = Rewritten(Siblings[i], ln, cn, NewSeparator(i, Last(l.keys)))
  BY DEF BorrowFromLeft
<1>4. /\ l \in NodeOf(NodeId) /\ c \in NodeOf(NodeId)
      /\ ShapeOK(l) /\ ShapeOK(c)
      /\ IsLeaf(l) <=> IsLeaf(c)
      /\ NodeKids(l) \cap NodeKids(c) = {}
  BY <1>1, <1>2, SiblingFacts
<1>5. sep \in Key
  <2>1. p.keys \in Seq(Key) /\ sep = p.keys[i]
    BY <1>1, NodeCases DEF Node
  <2> QED
    BY <1>2, <2>1, ElementOfSeq
<1>6. KeysLen(l) > 0 /\ KeysLen(l) \in Nat /\ l.keys \in Seq(Key) /\ c.keys \in Seq(Key)
  <2>1. KeysLen(l) \in Nat /\ l.keys \in Seq(Key) /\ c.keys \in Seq(Key)
    BY <1>4, NodeCases
  <2> QED
    BY <1>1, <1>2, <2>1
<1> HIDE DEF i, l, c, sep
<1>7. LentLast(l, c, sep, ln, cn)
  BY <1>4, <1>6 DEF LentLast
<1>8. ln \in AnyNode /\ cn \in AnyNode /\ Last(l.keys) \in Key
  <2> HIDE DEF ln, cn
  <2> QED
    BY <1>4, <1>5, <1>7, LendLast DEF AnyNode
<1>9. KeysLen(ln) = KeysLen(l) - 1 /\ KeysLen(cn) = KeysLen(c) + 1
  <2>1. l.keys # <<>>
    BY <1>6, EmptySeq DEF KeysLen
  <2>2. Len(Front(l.keys)) = Len(l.keys) - 1 /\ Last(l.keys) \in Key
    BY <1>6, <2>1, PopProperties
  <2>3. /\ Len(Cons(Last(l.keys), c.keys)) = Len(c.keys) + 1
        /\ Len(Cons(sep, c.keys)) = Len(c.keys) + 1
    BY <1>5, <1>6, <2>2, ConsProperties
  <2>4. ln.keys = Front(l.keys)
    BY DEF Leaf, Internal
  <2>5. cn.keys = IF IsLeaf(c) THEN Cons(Last(l.keys), c.keys) ELSE Cons(sep, c.keys)
    BY DEF Leaf, Internal
  <2> HIDE DEF ln, cn
  <2> QED
    BY <2>2, <2>3, <2>4, <2>5 DEF KeysLen
<1> HIDE DEF ln, cn
<1> QED
  BY <1>2, <1>3, <1>8, <1>9, RotationSizes DEF l, c, p

LEMMA BorrowFromRightSizes ==
    ASSUME NEW lv, Inductive(lv), pc = "rebalance", path # <<>>, Ascend,
           UNCHANGED <<root, pc>>, UnderFull,
           CanLend(ToRight), store' = BorrowFromRight
    PROVE  (NoneFull(store) => NoneFull(store')) /\ (Sized => Sized')
<1> DEFINE i == Last(path).idx
           m == i + 1
           r == Node(Siblings[m])
           c == Node(cur)
           sep == Node(Last(path).id).keys[i]
           rn == IF IsLeaf(c) THEN Leaf(Tail(r.keys), Tail(r.vals))
                              ELSE Internal(Tail(r.keys), Tail(r.children))
           cn == IF IsLeaf(c)
                 THEN Leaf(Append(c.keys, Head(r.keys)), Append(c.vals, Head(r.vals)))
                 ELSE Internal(Append(c.keys, sep), Append(c.children, Head(r.children)))
           k == IF IsLeaf(c) THEN Head(Tail(r.keys)) ELSE Head(r.keys)
           p == Fetch(store, Last(path).id)
<1>1. /\ p \in NodeOf(NodeId)
      /\ Len(Siblings) = Len(p.keys) + 1
      /\ Len(p.keys) \in Nat
      /\ i \in 1 .. Len(Siblings)
      /\ Siblings[i] = cur
      /\ ToRight = m
      /\ Half \in Nat /\ Half >= 1 /\ MinKeys = Half
  BY RepairFacts, HalfFacts
<1>2. /\ m \in 1 .. Len(Siblings) /\ m # i
      /\ i \in 1 .. Len(p.keys)
      /\ KeysLen(r) > Half
  BY <1>1 DEF CanLend
<1>3. store' = Rewritten(Siblings[m], rn, cn, NewSeparator(i, k))
  BY DEF BorrowFromRight
<1>4. /\ r \in NodeOf(NodeId) /\ c \in NodeOf(NodeId)
      /\ ShapeOK(r) /\ ShapeOK(c)
      /\ IsLeaf(r) <=> IsLeaf(c)
      /\ NodeKids(r) \cap NodeKids(c) = {}
  BY <1>1, <1>2, SiblingFacts
<1>5. sep \in Key
  <2>1. p.keys \in Seq(Key) /\ sep = p.keys[i]
    BY <1>1, NodeCases DEF Node
  <2> QED
    BY <1>2, <2>1, ElementOfSeq
<1>6. KeysLen(r) > 1 /\ KeysLen(r) \in Nat /\ r.keys \in Seq(Key) /\ c.keys \in Seq(Key)
  <2>1. KeysLen(r) \in Nat /\ r.keys \in Seq(Key) /\ c.keys \in Seq(Key)
    BY <1>4, NodeCases
  <2> QED
    BY <1>1, <1>2, <2>1
<1>7. r = Node(Siblings[m]) /\ c = Node(cur) /\ m # Last(path).idx
  BY <1>2
<1> HIDE DEF i, m, r, c, sep
<1>8. LentFirst(r, c, sep, rn, cn)
  BY <1>4, <1>6 DEF LentFirst
<1>9. rn \in AnyNode /\ cn \in AnyNode /\ k \in Key
  <2> HIDE DEF rn, cn
  <2>1. rn \in NodeOf(NodeId) /\ cn \in NodeOf(NodeId)
        /\ Head(r.keys) \in Key /\ Head(Tail(r.keys)) \in Key
    BY <1>4, <1>5, <1>8, LendFirst
  <2> QED
    BY <2>1 DEF AnyNode
<1> HIDE DEF k
<1>10. KeysLen(rn) = KeysLen(r) - 1 /\ KeysLen(cn) = KeysLen(c) + 1
  <2>1. r.keys # <<>>
    BY <1>6, EmptySeq DEF KeysLen
  <2>2. Len(Tail(r.keys)) = Len(r.keys) - 1 /\ Head(r.keys) \in Key
    BY <1>6, <2>1, TailProperties
  <2>3. /\ Len(Append(c.keys, Head(r.keys))) = Len(c.keys) + 1
        /\ Len(Append(c.keys, sep)) = Len(c.keys) + 1
    BY <1>5, <1>6, <2>2, PushProperties
  <2>4. rn.keys = Tail(r.keys)
    BY DEF Leaf, Internal
  <2>5. cn.keys = IF IsLeaf(c) THEN Append(c.keys, Head(r.keys)) ELSE Append(c.keys, sep)
    BY DEF Leaf, Internal
  <2> HIDE DEF rn, cn
  <2> QED
    BY <2>2, <2>3, <2>4, <2>5 DEF KeysLen
<1> HIDE DEF rn, cn
<1> QED
  BY <1>2, <1>3, <1>7, <1>9, <1>10, RotationSizes DEF p

(* How many keys the product of a merge has.                                *)
LEMMA MergedSize ==
    ASSUME NEW l \in NodeOf(NodeId), NEW r \in NodeOf(NodeId), NEW sep \in Key, NEW mn,
           mn = IF IsLeaf(l) THEN Leaf(l.keys \o r.keys, l.vals \o r.vals)
                             ELSE Internal(Append(l.keys, sep) \o r.keys,
                                           l.children \o r.children)
    PROVE  /\ KeysLen(l) \in Nat /\ KeysLen(r) \in Nat
           /\ KeysLen(mn) = KeysLen(l) + KeysLen(r) + (IF IsLeaf(l) THEN 0 ELSE 1)
<1>1. /\ l.keys \in Seq(Key) /\ r.keys \in Seq(Key)
      /\ KeysLen(l) \in Nat /\ KeysLen(r) \in Nat
  BY NodeCases
<1> DEFINE lk == l.keys
           rk == r.keys
           front == Append(lk, sep)
<1>2. Len(lk \o rk) = Len(lk) + Len(rk)
  BY <1>1, JoinProperties
<1>3. front \in Seq(Key) /\ Len(front) = Len(lk) + 1
  BY <1>1, PushProperties
<1>4. Len(front \o rk) = Len(front) + Len(rk)
  <2> HIDE DEF front
  <2> QED
    BY <1>1, <1>3, JoinProperties
<1>5. mn.keys = IF IsLeaf(l) THEN lk \o rk ELSE front \o rk
  BY DEF Leaf, Internal
<1> HIDE DEF front
<1>6. Len(lk) \in Nat /\ Len(rk) \in Nat /\ Len(lk) = KeysLen(l) /\ Len(rk) = KeysLen(r)
  BY <1>1 DEF KeysLen
<1>7. KeysLen(mn) = IF IsLeaf(l) THEN Len(lk \o rk) ELSE Len(front \o rk)
  BY <1>5 DEF KeysLen
<1> QED
  BY <1>2, <1>3, <1>4, <1>6, <1>7

(* The child at q, other than that of the call, has no key to lend; it and  *)
(* the child of the call become the one at i.                               *)
LEMMA MergeSizes ==
    ASSUME NEW lv, Inductive(lv), pc = "rebalance", path # <<>>, Ascend,
           UNCHANGED <<root, pc>>, UnderFull,
           NEW i \in 1 .. Len(Siblings), i + 1 \in 1 .. Len(Siblings),
           NEW q \in {i, i + 1}, Last(path).idx \in {i, i + 1}, q # Last(path).idx,
           ~CanLend(q), store' = Merge(i)
    PROVE  (NoneFull(store) => NoneFull(store')) /\ (Sized => Sized')
<1> DEFINE f == Last(path).id
           p == Fetch(store, f)
           a == Siblings[i]
           b == Siblings[i + 1]
           o == Siblings[q]
           l == Node(a)
           r == Node(b)
           sep == p.keys[i]
           mn == IF IsLeaf(l)
                 THEN Leaf(l.keys \o r.keys, l.vals \o r.vals)
                 ELSE Internal(Append(l.keys, sep) \o r.keys, l.children \o r.children)
           pn == Internal(RemoveAt(p.keys, i), RemoveAt(p.children, i + 1))
           one == Write(store, f, pn)
           two == Reclaim(one, b)
           D == {a, f}
<1>1. /\ o \in Live(store) /\ cur \in Live(store) /\ f \in Live(store)
      /\ o # cur /\ o # f /\ cur # f /\ o # root /\ cur # root
      /\ ~IsLeaf(p) /\ p \in AnyNode /\ ShapeOK(p)
      /\ store \in StoreType /\ StoreOK(store) /\ 0 \notin Live(store)
      /\ \A id \in Live(store) : KeyCount(store, id) \in Nat
      /\ Siblings = p.children
      /\ Len(Siblings) = Len(p.keys) + 1
      /\ Siblings[Last(path).idx] = cur
  BY RepairSizeFacts
<1>2. /\ Half \in Nat /\ Half >= 1 /\ MinKeys = Half
      /\ 2 * Half <= Order - 1 /\ Order \in Nat
  BY HalfFacts
<1>3. (a = o /\ b = cur) \/ (a = cur /\ b = o)
  BY <1>1
<1>4. /\ l \in NodeOf(NodeId) /\ r \in NodeOf(NodeId)
      /\ ShapeOK(l) /\ ShapeOK(r) /\ (IsLeaf(l) <=> IsLeaf(r))
      /\ NodeKids(l) \cap NodeKids(r) = {}
  <2>1. i # i + 1
    OBVIOUS
  <2> QED
    BY <2>1, SiblingFacts
<1>5. i \in 1 .. Len(p.keys) /\ p.keys \in Seq(Key) /\ Len(p.keys) \in Nat
  <2>1. p.keys \in Seq(Key) /\ Len(p.keys) \in Nat
    BY <1>1, InternalCases DEF AnyNode
  <2> QED
    BY <1>1, <2>1
<1>6. sep \in Key
  BY <1>5, ElementOfSeq
<1>7. /\ KeyCount(store, cur) < Half /\ KeyCount(store, o) <= Half
      /\ KeysLen(l) = KeyCount(store, a) /\ KeysLen(r) = KeyCount(store, b)
  <2>1. KeyCount(store, cur) < Half
    BY <1>2 DEF UnderFull, KeyCount, Node
  <2>2. q \in 1 .. Len(Siblings)
    OBVIOUS
  <2>3. ~(KeyCount(store, o) > Half)
    BY <1>2, <2>2 DEF CanLend, KeyCount, Node
  <2>4. KeyCount(store, o) <= Half
    BY <1>1, <1>2, <2>3
  <2> QED
    BY <2>1, <2>4 DEF KeyCount, Node
<1>8. store' = Write(two, a, mn)
  BY DEF Merge, Node, Siblings
<1>9. KeysLen(mn) = KeysLen(l) + KeysLen(r) + (IF IsLeaf(l) THEN 0 ELSE 1)
  <2> HIDE DEF sep, l, r
  <2> QED
    BY <1>4, <1>6, MergedSize
<1>10. mn \in AnyNode
  <2> HIDE DEF sep, l, r
  <2>1. mn \in NodeOf(NodeId)
    BY <1>4, <1>6, MergeLists
  <2> QED
    BY <2>1 DEF AnyNode
<1> HIDE DEF mn
<1>11. pn \in AnyNode /\ ~IsLeaf(pn) /\ KeysLen(pn) = Len(p.keys) - 1
  <2> HIDE DEF p
  <2>1. p \in NodeOf(NodeId)
    BY <1>1 DEF AnyNode
  <2>2. pn \in NodeOf(NodeId) /\ ~IsLeaf(pn)
    BY <1>1, <1>5, <2>1, UnlinkChild
  <2>3. pn.keys = RemoveAt(p.keys, i)
    BY DEF Internal
  <2>4. Len(RemoveAt(p.keys, i)) = Len(p.keys) - 1
    BY <1>5, RemoveAtProperties
  <2> QED
    BY <2>2, <2>3, <2>4 DEF AnyNode, KeysLen
<1>12. Len(p.keys) = KeyCount(store, f)
  BY DEF KeyCount, KeysLen
<1> HIDE DEF f, a, b, o, l, r, pn
<1>13. /\ one \in StoreType /\ StoreOK(one) /\ Live(one) = Live(store)
       /\ \A x \in Live(store) : Fetch(one, x) = IF x = f THEN pn ELSE Fetch(store, x)
  BY <1>1, <1>11, WriteProperties
<1> HIDE DEF one
<1>14. b \in Live(store) /\ a \in Live(store) /\ a # b /\ a # f /\ b # f /\ a # root /\ b # root
  BY <1>1, <1>3
<1>15. /\ two \in StoreType /\ Live(two) = Live(store) \ {b}
       /\ \A x \in Live(store) \ {b} : Fetch(two, x) = Fetch(one, x)
  BY <1>13, <1>14, ReclaimProperties, EmptyLeafIsNode
<1> HIDE DEF two
<1>16. /\ Live(store') = Live(store) \ {b}
       /\ \A x \in Live(store) \ {b} : Fetch(store', x) = IF x = a THEN mn ELSE Fetch(two, x)
  BY <1>8, <1>10, <1>14, <1>15, WriteProperties
<1>17. /\ Untouched(store, store', D)
       /\ Fetch(store', a) = mn /\ Fetch(store', f) = pn
  BY <1>1, <1>13, <1>14, <1>15, <1>16 DEF Untouched
<1>18. /\ KeyCount(store', f) = KeyCount(store, f) - 1
       /\ KeyCount(store', a) = KeyCount(store, cur) + KeyCount(store, o)
                                + (IF IsLeaf(l) THEN 0 ELSE 1)
  <2>1. KeyCount(store', f) = KeyCount(store, f) - 1
    BY <1>11, <1>12, <1>17 DEF KeyCount
  <2>2. KeyCount(store', a) = KeyCount(store, a) + KeyCount(store, b)
                              + (IF IsLeaf(l) THEN 0 ELSE 1)
    BY <1>7, <1>9, <1>17 DEF KeyCount
  <2>3. KeyCount(store, a) + KeyCount(store, b) = KeyCount(store, cur) + KeyCount(store, o)
    BY <1>1, <1>3
  <2> QED
    BY <2>1, <2>2, <2>3
<1>19. /\ KeyCount(store, cur) \in Nat /\ KeyCount(store, o) \in Nat /\ KeyCount(store, f) \in Nat
  BY <1>1
<1>20. cur' = f
  BY DEF Ascend, f
<1>21. ASSUME NoneFull(store) PROVE NoneFull(store')
  <2>1. KeyCount(store, f) < Order
    BY <1>1, <1>21 DEF NoneFull
  <2>2. KeyCount(store', f) < Order /\ KeyCount(store', a) < Order
    BY <1>2, <1>7, <1>18, <1>19, <2>1
  <2> QED
    BY <1>17, <1>21, <2>2, NoneFullKept
<1>22. ASSUME Sized PROVE Sized'
  <2>1. Enough(store, root, cur)
    BY <1>22 DEF Sized, Owing
  <2>2. /\ EnoughAt(store, root, cur, f) /\ EnoughAt(store, root, cur, o)
        /\ EnoughAt(store, root, cur, cur)
    BY <1>1, <2>1 DEF Enough
  <2>3. EnoughAt(store', root, f, a)
    <3>1. KeyCount(store, o) >= Half
      BY <1>1, <1>2, <1>19, <2>2 DEF EnoughAt
    <3>2. KeyCount(store', a) >= Half
      BY <1>2, <1>18, <1>19, <3>1
    <3> QED
      BY <1>14, <3>2, <1>2, <1>18, <1>19 DEF EnoughAt
  <2>4. EnoughAt(store', root, f, f)
    BY <1>1, <1>2, <1>11, <1>17, <1>18, <1>19, <2>2 DEF EnoughAt, p
  <2>5. Enough(store', root, f)
    <3>1. \A x \in Live(store') \ D : x # cur /\ x # f
      BY <1>3, <1>16
    <3>2. ASSUME NEW x \in Live(store') \ D PROVE EnoughAt(store', root, f, x)
      <4>1. x \in Live(store) /\ KeyCount(store', x) = KeyCount(store, x)
            /\ Fetch(store', x) = Fetch(store, x)
        BY <1>17 DEF Untouched, KeyCount
      <4>2. EnoughAt(store, root, cur, x) /\ x # cur /\ x # f
        BY <2>1, <3>1, <4>1 DEF Enough
      <4> QED
        BY <4>1, <4>2 DEF EnoughAt
    <3> QED
      BY <2>3, <2>4, <3>2 DEF Enough
  <2> QED
    BY <1>20, <2>5 DEF Sized, Owing
<1> QED
  BY <1>21, <1>22

LEMMA RebalanceSizes ==
    ASSUME NEW lv, Inductive(lv), Rebalance
    PROVE  (NoneFull(store) => NoneFull(store')) /\ (Sized => Sized')
<1>1. /\ pc = "rebalance" /\ path # <<>> /\ Ascend /\ UnderFull
      /\ UNCHANGED <<root, pc>>
  BY DEF Rebalance
<1>2. /\ Last(path).idx \in 1 .. Len(Siblings)
      /\ ToLeft = Last(path).idx - 1 /\ ToRight = Last(path).idx + 1
      /\ Len(Siblings) \in Nat
  BY <1>1, RepairFacts
<1>3. CASE CanLend(ToLeft) /\ store' = BorrowFromLeft
  BY <1>1, <1>3, BorrowFromLeftSizes
<1>4. CASE CanLend(ToRight) /\ store' = BorrowFromRight
  BY <1>1, <1>4, BorrowFromRightSizes
<1>5. CASE ~CanLend(ToLeft) /\ ToLeft >= 1 /\ store' = Merge(ToLeft)
  <2> DEFINE i == ToLeft
  <2>1. /\ i \in 1 .. Len(Siblings) /\ i + 1 \in 1 .. Len(Siblings)
        /\ i \in {i, i + 1} /\ Last(path).idx \in {i, i + 1} /\ i # Last(path).idx
    BY <1>2, <1>5
  <2>2. ~CanLend(i) /\ store' = Merge(i)
    BY <1>5
  <2> HIDE DEF i
  <2> QED
    BY <1>1, <2>1, <2>2, MergeSizes
<1>6. CASE ~CanLend(ToRight) /\ ToRight <= Len(Siblings) /\ store' = Merge(Last(path).idx)
  <2> DEFINE i == Last(path).idx
             q == i + 1
  <2>1. /\ i \in 1 .. Len(Siblings) /\ i + 1 \in 1 .. Len(Siblings)
        /\ q \in {i, i + 1} /\ Last(path).idx \in {i, i + 1} /\ q # Last(path).idx
    BY <1>2, <1>6
  <2>2. ~CanLend(q) /\ store' = Merge(i)
    BY <1>2, <1>6
  <2> HIDE DEF i, q
  <2> QED
    BY <1>1, <2>1, <2>2, MergeSizes
<1> QED
  BY <1>3, <1>4, <1>5, <1>6 DEF Rebalance

LEMMA FinishRemoveSizes ==
    ASSUME NEW lv, Inductive(lv), FinishRemove
    PROVE  (NoneFull(store) => NoneFull(store')) /\ (Sized => Sized')
<1>1. pc = "rebalance" /\ path = <<>>
  BY DEF FinishRemove
<1>2. /\ TreeOK(store, {root}, lv) /\ cur = root /\ root \in Live(store)
      /\ store \in StoreType /\ StoreOK(store) /\ 0 \notin Live(store)
      /\ \A id \in Live(store) : KeyCount(store, id) \in Nat
      /\ Half \in Nat /\ Half >= 1
  <2>1. /\ {root} \cup Pending = {root} /\ root \in Live(store)
        /\ store \in StoreType /\ StoreOK(store)
    BY <1>1, CallFacts
  <2>2. TreeOK(store, {root}, lv) /\ cur = root
    BY <1>1, <2>1 DEF Inductive, Framed
  <2> QED
    BY <2>1, <2>2, StateFacts, HalfFacts
<1>3. ~IsLeaf(Node(root)) => Len(Node(root).children) = KeyCount(store, root) + 1
  <2>1. Fetch(store, root) \in AnyNode /\ ShapeOK(Fetch(store, root))
    BY <1>2, TreeFacts
  <2> QED
    BY <2>1 DEF ShapeOK, KeyCount, Node
<1>4. CASE /\ store' = store /\ Return(ret, root)
           /\ ~(~IsLeaf(Node(root)) /\ Len(Node(root).children) = 1)
  <2>1. root' = root /\ pc' = "idle"
    BY <1>4 DEF Return
  <2>2. ASSUME Sized PROVE Sized'
    <3>1. Enough(store, root, root)
      BY <1>1, <1>2, <2>2 DEF Sized, Owing
    <3>2. ~IsLeaf(Fetch(store, root)) => KeyCount(store, root) >= 1
      <4>1. KeyCount(store, root) \in Nat
        BY <1>2
      <4>2. ASSUME ~IsLeaf(Fetch(store, root)) PROVE KeyCount(store, root) # 0
        <5>1. Node(root) = Fetch(store, root)
          BY DEF Node
        <5>2. Len(Node(root).children) # 1
          BY <1>4, <4>2, <5>1
        <5>3. Len(Node(root).children) = KeyCount(store, root) + 1
          BY <1>3, <4>2, <5>1
        <5> QED
          BY <5>2, <5>3
      <4> QED
        BY <4>1, <4>2
    <3>3. ASSUME NEW id \in Live(store) PROVE EnoughAt(store, root, 0, id)
      <4>1. EnoughAt(store, root, root, id) /\ id # 0
        BY <1>2, <3>1 DEF Enough
      <4> QED
        BY <1>2, <3>2, <4>1 DEF EnoughAt
    <3> QED
      BY <1>4, <2>1, <3>3 DEF Sized, Owing, Enough
  <2> QED
    BY <1>4, <2>2
<1>5. CASE /\ ~IsLeaf(Node(root)) /\ Len(Node(root).children) = 1
           /\ store' = Reclaim(store, root) /\ Return(ret, Node(root).children[1])
  <2> DEFINE child == Node(root).children[1]
  <2>1. root' = child /\ pc' = "idle"
    BY <1>5 DEF Return
  <2> HIDE DEF child
  <2>2. /\ Live(store') = Live(store) \ {root}
        /\ \A j \in Live(store) \ {root} : Fetch(store', j) = Fetch(store, j)
    BY <1>2, <1>5, ReclaimProperties, EmptyLeafIsNode
  <2>3. Untouched(store, store', {})
    BY <2>2 DEF Untouched
  <2>4. NoneFull(store) => NoneFull(store')
    BY <2>3, NoneFullKept
  <2>5. ASSUME Sized PROVE Sized'
    <3>1. Enough(store, root, root)
      BY <1>1, <1>2, <2>5 DEF Sized, Owing
    <3>2. ASSUME NEW id \in Live(store') PROVE EnoughAt(store', child, 0, id)
      <4>1. /\ id \in Live(store) /\ id # root
            /\ Fetch(store', id) = Fetch(store, id)
            /\ KeyCount(store', id) = KeyCount(store, id)
        BY <2>2 DEF KeyCount
      <4>2. EnoughAt(store, root, root, id) /\ KeyCount(store, id) \in Nat
        BY <1>2, <3>1, <4>1 DEF Enough
      <4>3. KeyCount(store, id) >= Half
        BY <1>2, <4>1, <4>2 DEF EnoughAt
      <4> QED
        BY <1>2, <4>1, <4>2, <4>3 DEF EnoughAt
    <3> QED
      BY <2>1, <3>2 DEF Sized, Owing, Enough
  <2> QED
    BY <2>4, <2>5
<1> QED
  BY <1>4, <1>5 DEF FinishRemove

(* A tree of one empty leaf.                                                *)
LEMMA ResetSizes ==
    /\ NoneFull(ResetStore)
    /\ \A o : Enough(ResetStore, AllocId(EmptyStore), o)
<1>1. /\ AllocId(EmptyStore) = 1 /\ Live(ResetStore) = {1}
      /\ Fetch(ResetStore, 1) = EmptyLeaf
  BY ResetProperties, EmptyLeafIsNode
<1>2. KeysLen(EmptyLeaf) = 0 /\ IsLeaf(EmptyLeaf)
  BY DEF EmptyLeaf, Leaf, KeysLen, IsLeaf
<1>3. NoneFull(ResetStore)
  BY <1>1, <1>2, OrderAssumption DEF NoneFull, KeyCount
<1>4. \A o : EnoughAt(ResetStore, 1, o, 1)
  BY <1>1, <1>2 DEF EnoughAt
<1> QED
  BY <1>1, <1>3, <1>4 DEF Enough

LEMMA ClearSizes ==
    ASSUME Clear
    PROVE  NoneFull(store') /\ Sized'
<1>1. /\ store' = ResetStore /\ root' = AllocId(EmptyStore) /\ pc' = "idle"
  BY DEF Clear
<1> QED
  BY <1>1, ResetSizes DEF Sized, Owing

LEMMA StepSizes ==
    ASSUME NEW lv, Inductive(lv), NoneFull(store), Step
    PROVE  NoneFull(store') /\ (Sized => Sized')
<1>1. CASE Descend \/ GetAnswer \/ RemoveAbsent
  <2>1. /\ store' = store /\ root' = root /\ split' = split
        /\ pc = "descend" /\ pc' \in {"descend", "idle"}
    <3>1. pc = "descend" => split = NoSplit
      BY CallFacts
    <3> QED
      BY <1>1, <3>1 DEF Descend, GetAnswer, RemoveAbsent, AtLeaf, Return, tree
  <2> QED
    BY <2>1, SameSizes
<1>2. CASE InsertReplace
  BY <1>2, InsertReplaceSizes
<1>3. CASE InsertFits
  BY <1>3, InsertFitsSizes
<1>4. CASE InsertSplit
  BY <1>4, InsertSplitSizes
<1>5. CASE AbsorbFits
  BY <1>5, AbsorbFitsSizes
<1>6. CASE AbsorbSplit
  BY <1>6, AbsorbSplitSizes
<1>7. CASE GrowRoot
  BY <1>7, GrowRootSizes
<1>8. CASE RemoveEntry
  BY <1>8, RemoveEntrySizes
<1>9. CASE Sufficient
  <2>1. /\ store' = store /\ root' = root /\ split' = split
        /\ pc = "rebalance" /\ pc' = pc
    BY <1>9 DEF Sufficient, tree
  <2>2. KeyCount(store, cur) >= Half
    <3>1. ~(KeyCount(store, cur) < Half)
      BY <1>9, HalfFacts DEF Sufficient, UnderFull, KeyCount, Node
    <3> QED
      BY <3>1, StateFacts, HalfFacts
  <2> QED
    BY <2>1, <2>2, SameSizes
<1>10. CASE Rebalance
  BY <1>10, RebalanceSizes
<1>11. CASE FinishRemove
  BY <1>11, FinishRemoveSizes
<1> QED
  BY <1>1, <1>2, <1>3, <1>4, <1>5, <1>6, <1>7, <1>8, <1>9, <1>10, <1>11 DEF Step

LEMMA CallSizes ==
    ASSUME NEW lv, Inductive(lv), GetCall \/ InsertCall \/ RemoveCall
    PROVE  (NoneFull(store) => NoneFull(store')) /\ (Sized => Sized')
<1>1. /\ store' = store /\ root' = root /\ split' = split
      /\ pc = "idle" /\ pc' = "descend"
  BY DEF GetCall, InsertCall, RemoveCall, Call, tree
<1> QED
  BY <1>1, SameSizes
(* A node that may have to be repaired has a sibling.                        *)
LEMMA SiblingExists ==
    ASSUME NEW lv, Inductive(lv), Sized, pc = "rebalance", path # <<>>
    PROVE  Len(Siblings) >= 2
<1> DEFINE f == Last(path).id
           i == Last(path).idx
<1>1. /\ f \in Live(store) /\ ~IsLeaf(Fetch(store, f))
      /\ Len(Siblings) = Len(Fetch(store, f).keys) + 1
      /\ Siblings = Fetch(store, f).children
      /\ i \in 1 .. Len(Siblings) /\ Siblings[i] = cur
      /\ Fetch(store, f) \in NodeOf(NodeId) /\ ShapeOK(Fetch(store, f))
      /\ TreeOK(store, {root}, lv)
  BY RepairFacts
<1>2. f # cur
  <2>1. Siblings \in Seq(NodeId) /\ Kids(store, f) = Range(Siblings)
    BY <1>1, InternalCases DEF Kids
  <2>2. i \in DOMAIN Siblings
    BY <1>1, <2>1, LenProperties
  <2>3. cur \in Kids(store, f)
    BY <1>1, <2>1, <2>2 DEF Range
  <2> QED
    BY <1>1, <2>3, TreeFacts
<1>3. /\ KeyCount(store, f) \in Nat /\ Half \in Nat /\ Half >= 1
      /\ KeyCount(store, f) = Len(Fetch(store, f).keys)
  BY <1>1, StateFacts, HalfFacts DEF KeyCount, KeysLen
<1>4. EnoughAt(store, root, cur, f)
  BY <1>1 DEF Sized, Owing, Enough
<1>5. KeyCount(store, f) >= 1
  BY <1>1, <1>2, <1>3, <1>4 DEF EnoughAt
<1> QED
  BY <1>1, <1>3, <1>5
-----------------------------------------------------------------------------
(* The tree is sound and its nodes are of legal size.                       *)
Filled == /\ Structure
          /\ NoneFull(store)
          /\ Sized

(* The bounds are the occupancy the runs check.                             *)
LEMMA FilledIsOccupancy ==
    ASSUME Filled
    PROVE  Occupancy
<1>1. PICK lv : Inductive(lv)
  BY DEF Filled, Structure
<1>2. 0 \notin Live(store) /\ cur \in Live(store)
  BY <1>1, StateFacts
<1>3. ASSUME NEW id \in Live(store)
      PROVE  LET owed == IF pc = "rebalance" /\ id = cur THEN 1 ELSE 0
             IN  /\ KeysLen(Node(id)) < Order
                 /\ id # root => KeysLen(Node(id)) >= ((Order - 1) \div 2) - owed
                 /\ id = root /\ Inner(id) => KeysLen(Node(id)) >= 1 - owed
  <2>1. NoneFull(store) /\ Enough(store, root, Owing)
    BY DEF Filled, Sized
  <2>2. KeyCount(store, id) < Order /\ EnoughAt(store, root, Owing, id)
    BY <2>1 DEF NoneFull, Enough
  <2>3. id = Owing <=> pc = "rebalance" /\ id = cur
    BY <1>2 DEF Owing
  <2> QED
    BY <2>2, <2>3 DEF EnoughAt, KeyCount, Node, Inner, Half
<1> QED
  BY <1>3 DEF Occupancy

(* Every step of every call keeps it so.                                    *)
LEMMA FilledInit ==
    ASSUME Init
    PROVE  Filled
<1>1. Structure
  BY InitKeeps DEF Structure
<1>2. store = ResetStore /\ root = AllocId(EmptyStore) /\ pc = "idle"
  BY DEF Init
<1>3. NoneFull(store) /\ Sized
  BY <1>2, ResetSizes DEF Sized, Owing
<1> QED
  BY <1>1, <1>3 DEF Filled

(* Every step keeps the bounds,                                             *)
LEMMA FilledNext ==
    ASSUME Filled, [Next]_vars
    PROVE  Filled'
<1>1. PICK lv : Inductive(lv)
  BY DEF Filled, Structure
<1>2. Structure'
  BY <1>1, NextKeeps DEF Structure
<1>3. NoneFull(store) /\ Sized
  BY DEF Filled
<1>4. NoneFull(store') /\ Sized'
  <2>1. CASE GetCall \/ InsertCall \/ RemoveCall
    BY <1>1, <1>3, <2>1, CallSizes
  <2>2. CASE Step
    BY <1>1, <1>3, <2>2, StepSizes
  <2>3. CASE Clear
    BY <2>3, ClearSizes
  <2>4. CASE UNCHANGED vars
    <3>1. UNCHANGED <<store, root, pc, cur>>
      BY <2>4 DEF vars
    <3> QED
      BY <1>3, <3>1 DEF Sized, Owing
  <2> QED
    BY <2>1, <2>2, <2>3, <2>4 DEF Next
<1> QED
  BY <1>2, <1>4 DEF Filled, NoneFull

(* so they always hold.                                                     *)
LEMMA FilledAlways == Spec => []Filled
<1>1. Init => Filled
  BY FilledInit
<1>2. Filled /\ [Next]_vars => Filled'
  BY FilledNext
<1> QED
  BY <1>1, <1>2, PTL DEF Spec

(* No node is ever over-full, and each but the root holds min_keys or more, *)
(* except the one a removal is about to repair, for every order and every   *)
(* sequence of calls (tree.rs:399-404, ops.rs:120-139, 174-196, 319-463).   *)
THEOREM OccupancyTheorem == Spec => []Occupancy
<1>1. Filled => Occupancy
  BY FilledIsOccupancy
<1> QED
  BY <1>1, FilledAlways, PTL

(* A child the call returns to is never alone.                              *)
HasSibling == pc = "rebalance" /\ path # <<>> => Len(Siblings) >= 2

(* The branch of rebalance that finds no sibling and repairs nothing is     *)
(* never taken, unless a panic was caught before (ops.rs:303-307).          *)
THEOREM SiblingTheorem == Spec => []HasSibling
<1>1. Filled => HasSibling
  BY SiblingExists DEF Filled, Structure, HasSibling
<1> QED
  BY <1>1, FilledAlways, PTL
=============================================================================
