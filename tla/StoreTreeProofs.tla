-------------------------- MODULE StoreTreeProofs --------------------------
(* Lemmas for every store of nodes, which the proofs of the other modules   *)
(* rest on: the lists nodes are made of, the searches and changes of one    *)
(* node, the operations of the slab, and what it takes for the nodes of a   *)
(* store to form a tree.                                                    *)
EXTENDS SlabStore, SequenceTheorems, WellFoundedInduction, TLAPS

-----------------------------------------------------------------------------
(* One node: its lists, its searches and its changes.                       *)

(* The last element of a list without duplicates is not in the rest.        *)
LEMMA PopProperties ==
    ASSUME NEW S, NEW s \in Seq(S), s # <<>>
    PROVE  /\ Len(s) \in Nat \ {0}
           /\ Last(s) \in S
           /\ Last(s) \in Range(s)
           /\ Front(s) \in Seq(S)
           /\ Len(Front(s)) = Len(s) - 1
           /\ \A i \in 1 .. Len(s) - 1 : Front(s)[i] = s[i]
           /\ Range(s) = Range(Front(s)) \cup {Last(s)}
           /\ IsInjective(s) => IsInjective(Front(s)) /\ Last(s) \notin Range(Front(s))
<1>1. Len(s) \in Nat \ {0}
  BY EmptySeq
<1>2. Last(s) \in S /\ Last(s) \in Range(s)
  BY <1>1 DEF Last, Range
<1>3. \A i \in 1 .. Len(s) - 1 : s[i] \in S
  BY <1>1
<1>4. /\ Front(s) \in Seq(S)
      /\ Len(Front(s)) = Len(s) - 1
      /\ \A i \in 1 .. Len(s) - 1 : Front(s)[i] = s[i]
  <2> DEFINE m == Len(s) - 1
  <2>1. m \in Int /\ \A i \in 1 .. m : s[i] \in S
    BY <1>1, <1>3
  <2> HIDE DEF m
  <2>2. /\ SubSeq(s, 1, m) \in Seq(S)
        /\ Len(SubSeq(s, 1, m)) = IF 1 <= m THEN m - 1 + 1 ELSE 0
        /\ \A i \in 1 .. m - 1 + 1 : SubSeq(s, 1, m)[i] = s[1 + i - 1]
    BY <2>1, SubSeqProperties
  <2>3. Front(s) = SubSeq(s, 1, m)
    BY DEF Front, m
  <2>4. /\ Front(s) \in Seq(S)
        /\ Len(Front(s)) = IF 1 <= m THEN m ELSE 0
        /\ \A i \in 1 .. m : Front(s)[i] = s[i]
    <3> HIDE DEF m
    <3>1. m - 1 + 1 = m /\ \A i \in 1 .. m : 1 + i - 1 = i
      BY <2>1
    <3> QED
      BY <2>2, <2>3, <3>1
  <2>5. m >= 0 /\ m = Len(s) - 1
    BY <1>1 DEF m
  <2> QED
    BY <2>4, <2>5
<1>5. DOMAIN Front(s) = 1 .. Len(s) - 1 /\ DOMAIN s = 1 .. Len(s)
  BY <1>4, LenProperties
<1>6. Range(s) = Range(Front(s)) \cup {Last(s)}
  BY <1>1, <1>4, <1>5 DEF Range, Last
<1>7. IsInjective(s) => IsInjective(Front(s)) /\ Last(s) \notin Range(Front(s))
  BY <1>1, <1>4, <1>5 DEF Range, Last, IsInjective
<1> QED
  BY <1>1, <1>2, <1>4, <1>6, <1>7

(* What is appended joins the elements, and a new one leaves them distinct. *)
LEMMA PushProperties ==
    ASSUME NEW S, NEW s \in Seq(S), NEW e \in S
    PROVE  /\ Append(s, e) \in Seq(S)
           /\ Len(Append(s, e)) = Len(s) + 1
           /\ Range(Append(s, e)) = Range(s) \cup {e}
           /\ IsInjective(s) /\ e \notin Range(s) => IsInjective(Append(s, e))
<1>1. /\ Append(s, e) \in Seq(S)
      /\ Len(Append(s, e)) = Len(s) + 1
      /\ \A i \in 1 .. Len(s) : Append(s, e)[i] = s[i]
      /\ Append(s, e)[Len(s) + 1] = e
  BY AppendProperties
<1>2. /\ DOMAIN s = 1 .. Len(s)
      /\ DOMAIN Append(s, e) = 1 .. Len(s) + 1
      /\ Len(s) \in Nat
  BY <1>1, LenProperties
<1>3. Range(Append(s, e)) = Range(s) \cup {e}
  BY <1>1, <1>2 DEF Range
<1>4. IsInjective(s) /\ e \notin Range(s) => IsInjective(Append(s, e))
  BY <1>1, <1>2 DEF Range, IsInjective
<1> QED
  BY <1>1, <1>3, <1>4

(* A cut puts each element on one side and keeps their order.               *)
LEMMA CutProperties ==
    ASSUME NEW S, NEW s \in Seq(S), NEW a \in Nat, NEW b \in Nat,
           1 <= a, b <= Len(s), a <= b + 1
    PROVE  /\ SubSeq(s, a, b) \in Seq(S)
           /\ Len(SubSeq(s, a, b)) = b + 1 - a
           /\ \A i \in 1 .. b + 1 - a : SubSeq(s, a, b)[i] = s[i + a - 1]
           /\ Range(SubSeq(s, a, b)) = {s[i] : i \in a .. b}
           /\ IsInjective(s) => IsInjective(SubSeq(s, a, b))
<1> DEFINE t == SubSeq(s, a, b)
<1>1. Len(s) \in Nat /\ DOMAIN s = 1 .. Len(s)
  BY LenProperties
<1>2. \A i \in a .. b : s[i] \in S
  BY <1>1
<1>3. /\ t \in Seq(S)
      /\ Len(t) = IF a <= b THEN b - a + 1 ELSE 0
      /\ \A i \in 1 .. b - a + 1 : t[i] = s[a + i - 1]
  BY <1>2, SubSeqProperties
<1>4. /\ Len(t) = b + 1 - a
      /\ \A i \in 1 .. b + 1 - a : t[i] = s[i + a - 1]
  <2>1. b - a + 1 = b + 1 - a /\ \A i \in 1 .. b + 1 - a : a + i - 1 = i + a - 1
    OBVIOUS
  <2>2. ~(a <= b) => b + 1 - a = 0
    OBVIOUS
  <2> HIDE DEF t
  <2> QED
    BY <1>3, <2>1, <2>2
<1>5. DOMAIN t = 1 .. b + 1 - a
  BY <1>3, <1>4, LenProperties
<1> HIDE DEF t
<1>6. Range(t) = {s[i] : i \in a .. b}
  <2>1. Range(t) = {t[i] : i \in 1 .. b + 1 - a}
    BY <1>5 DEF Range
  <2>2. ASSUME NEW i \in 1 .. b + 1 - a PROVE t[i] \in {s[j] : j \in a .. b}
    <3>1. i + a - 1 \in a .. b
      OBVIOUS
    <3> QED
      BY <1>4, <3>1
  <2>3. ASSUME NEW j \in a .. b PROVE s[j] \in {t[i] : i \in 1 .. b + 1 - a}
    <3>1. j + 1 - a \in 1 .. b + 1 - a /\ (j + 1 - a) + a - 1 = j
      OBVIOUS
    <3>2. t[j + 1 - a] = s[(j + 1 - a) + a - 1]
      BY <1>4, <3>1
    <3> QED
      BY <3>1, <3>2
  <2> QED
    BY <2>1, <2>2, <2>3
<1>7. ASSUME IsInjective(s) PROVE IsInjective(t)
  <2>1. ASSUME NEW i \in 1 .. b + 1 - a, NEW j \in 1 .. b + 1 - a, t[i] = t[j]
        PROVE  i = j
    <3>1. i + a - 1 \in 1 .. Len(s) /\ j + a - 1 \in 1 .. Len(s)
      BY <1>1
    <3>2. s[i + a - 1] = s[j + a - 1]
      BY <1>4, <2>1
    <3>3. i + a - 1 = j + a - 1
      BY <1>1, <1>7, <3>1, <3>2, Zenon DEF IsInjective
    <3> QED
      BY <3>3
  <2> QED
    BY <1>5, <2>1 DEF IsInjective
<1> QED
  BY <1>3, <1>4, <1>6, <1>7 DEF t

(* The two sides of a cut hold all elements, and share none of a list       *)
(* without duplicates.                                                      *)
LEMMA HalvesProperties ==
    ASSUME NEW S, NEW s \in Seq(S), NEW m \in 0 .. Len(s)
    PROVE  LET lower == SubSeq(s, 1, m)
               upper == SubSeq(s, m + 1, Len(s))
           IN  /\ lower \in Seq(S) /\ upper \in Seq(S)
               /\ Len(lower) = m /\ Len(upper) = Len(s) - m
               /\ \A i \in 1 .. m : lower[i] = s[i]
               /\ \A i \in 1 .. Len(s) - m : upper[i] = s[i + m]
               /\ Range(s) = Range(lower) \cup Range(upper)
               /\ IsInjective(s) => /\ IsInjective(lower) /\ IsInjective(upper)
                                    /\ Range(lower) \cap Range(upper) = {}
<1> DEFINE n == Len(s)
           lower == SubSeq(s, 1, m)
           upper == SubSeq(s, m + 1, n)
<1>1. n \in Nat /\ DOMAIN s = 1 .. n /\ m \in Nat /\ m <= n
  BY LenProperties
<1>2. /\ lower \in Seq(S)
      /\ Len(lower) = m + 1 - 1
      /\ \A i \in 1 .. m + 1 - 1 : lower[i] = s[i + 1 - 1]
      /\ Range(lower) = {s[i] : i \in 1 .. m}
      /\ IsInjective(s) => IsInjective(lower)
  <2>1. 1 \in Nat /\ 1 <= 1 /\ m <= Len(s) /\ 1 <= m + 1
    BY <1>1
  <2> QED
    BY <1>1, <2>1, CutProperties
<1>3. /\ upper \in Seq(S)
      /\ Len(upper) = n + 1 - (m + 1)
      /\ \A i \in 1 .. n + 1 - (m + 1) : upper[i] = s[i + (m + 1) - 1]
      /\ Range(upper) = {s[i] : i \in m + 1 .. n}
      /\ IsInjective(s) => IsInjective(upper)
  <2>1. m + 1 \in Nat /\ 1 <= m + 1 /\ n <= Len(s) /\ m + 1 <= n + 1
    BY <1>1
  <2> QED
    BY <1>1, <2>1, CutProperties
<1> HIDE DEF lower, upper
<1>4. /\ Len(lower) = m /\ \A i \in 1 .. m : lower[i] = s[i]
      /\ Len(upper) = n - m /\ \A i \in 1 .. n - m : upper[i] = s[i + m]
  <2>1. /\ m + 1 - 1 = m /\ n + 1 - (m + 1) = n - m
        /\ \A i \in 1 .. m : i + 1 - 1 = i
        /\ \A i \in 1 .. n - m : i + (m + 1) - 1 = i + m
    <3> HIDE DEF n
    <3> QED
      BY <1>1
  <2> QED
    BY <1>2, <1>3, <2>1
<1>5. Range(s) = Range(lower) \cup Range(upper)
  <2>1. Range(s) = {s[i] : i \in 1 .. n}
    BY <1>1 DEF Range
  <2>2. 1 .. n = (1 .. m) \cup (m + 1 .. n)
    BY <1>1
  <2> QED
    BY <1>2, <1>3, <2>1, <2>2
<1>6. ASSUME IsInjective(s) PROVE Range(lower) \cap Range(upper) = {}
  <2>1. ASSUME NEW i \in 1 .. m, NEW j \in m + 1 .. n PROVE s[i] # s[j]
    <3>1. i \in 1 .. n /\ j \in 1 .. n /\ i # j
      BY <1>1
    <3> QED
      BY <1>1, <1>6, <3>1, Zenon DEF IsInjective
  <2> QED
    BY <1>2, <1>3, <2>1
<1> QED
  BY <1>2, <1>3, <1>4, <1>5, <1>6 DEF lower, upper, n

(* Two lists one after the other.                                           *)
LEMMA JoinProperties ==
    ASSUME NEW S, NEW s \in Seq(S), NEW t \in Seq(S)
    PROVE  /\ s \o t \in Seq(S)
           /\ Len(s \o t) = Len(s) + Len(t)
           /\ \A i \in 1 .. Len(s) : (s \o t)[i] = s[i]
           /\ \A i \in 1 .. Len(t) : (s \o t)[Len(s) + i] = t[i]
           /\ Range(s \o t) = Range(s) \cup Range(t)
           /\ IsInjective(s) /\ IsInjective(t) /\ Range(s) \cap Range(t) = {}
                 => IsInjective(s \o t)
<1> DEFINE u == s \o t
<1>1. /\ u \in Seq(S)
      /\ Len(u) = Len(s) + Len(t)
      /\ \A i \in 1 .. Len(s) + Len(t) :
            u[i] = IF i <= Len(s) THEN s[i] ELSE t[i - Len(s)]
      /\ Range(u) = Range(s) \cup Range(t)
  BY ConcatProperties, RangeConcatenation
<1>2. /\ Len(s) \in Nat /\ Len(t) \in Nat
      /\ DOMAIN s = 1 .. Len(s) /\ DOMAIN t = 1 .. Len(t)
      /\ DOMAIN u = 1 .. Len(s) + Len(t)
  BY <1>1, LenProperties
<1> HIDE DEF u
<1>3. \A i \in 1 .. Len(s) : u[i] = s[i]
  BY <1>1, <1>2
<1>4. ASSUME NEW i \in 1 .. Len(t) PROVE u[Len(s) + i] = t[i]
  <2>1. Len(s) + i \in 1 .. Len(s) + Len(t) /\ ~(Len(s) + i <= Len(s))
        /\ Len(s) + i - Len(s) = i
    BY <1>2
  <2> QED
    BY <1>1, <2>1
<1>5. ASSUME IsInjective(s), IsInjective(t), Range(s) \cap Range(t) = {},
             NEW i \in DOMAIN u, NEW j \in DOMAIN u, u[i] = u[j]
      PROVE  i = j
  <2>1. \A k \in DOMAIN u : \/ k \in DOMAIN s /\ u[k] = s[k]
                            \/ k - Len(s) \in DOMAIN t /\ u[k] = t[k - Len(s)]
    BY <1>1, <1>2
  <2>2. CASE i \in DOMAIN s /\ j \in DOMAIN s /\ u[i] = s[i] /\ u[j] = s[j]
    BY <1>5, <2>2 DEF IsInjective
  <2>3. CASE /\ i - Len(s) \in DOMAIN t /\ u[i] = t[i - Len(s)]
             /\ j - Len(s) \in DOMAIN t /\ u[j] = t[j - Len(s)]
    <3>1. i - Len(s) = j - Len(s)
      BY <1>5, <2>3, Zenon DEF IsInjective
    <3> QED
      BY <1>2, <3>1
  <2>4. CASE i \in DOMAIN s /\ u[i] = s[i] /\ j - Len(s) \in DOMAIN t /\ u[j] = t[j - Len(s)]
    BY <1>5, <2>4, Zenon DEF Range
  <2>5. CASE j \in DOMAIN s /\ u[j] = s[j] /\ i - Len(s) \in DOMAIN t /\ u[i] = t[i - Len(s)]
    BY <1>5, <2>5, Zenon DEF Range
  <2> QED
    BY <2>1, <2>2, <2>3, <2>4, <2>5
<1> QED
  BY <1>1, <1>3, <1>4, <1>5, Zenon DEF IsInjective, u

(* e put in before position i.                                              *)
LEMMA InsertAtProperties ==
    ASSUME NEW S, NEW s \in Seq(S), NEW e \in S, NEW i \in 1 .. Len(s) + 1
    PROVE  LET t == InsertAt(s, i, e)
           IN  /\ t \in Seq(S)
               /\ Len(t) = Len(s) + 1
               /\ \A j \in 1 .. i - 1 : t[j] = s[j]
               /\ t[i] = e
               /\ Range(t) = Range(s) \cup {e}
               /\ IsInjective(s) /\ e \notin Range(s) => IsInjective(t)
<1> DEFINE lower == SubSeq(s, 1, i - 1)
           upper == SubSeq(s, i, Len(s))
           t == InsertAt(s, i, e)
<1>1. Len(s) \in Nat /\ i - 1 \in 0 .. Len(s) /\ i - 1 + 1 = i /\ i \in Nat
  BY LenProperties
<1>2. /\ lower \in Seq(S) /\ upper \in Seq(S)
      /\ Len(lower) = i - 1 /\ Len(upper) = Len(s) - (i - 1)
      /\ \A j \in 1 .. i - 1 : lower[j] = s[j]
      /\ Range(s) = Range(lower) \cup Range(upper)
      /\ IsInjective(s) => /\ IsInjective(lower) /\ IsInjective(upper)
                           /\ Range(lower) \cap Range(upper) = {}
  BY <1>1, HalvesProperties
<1> DEFINE front == Append(lower, e)
<1>3. t = front \o upper
  BY <1>2, AppendIsConcat DEF InsertAt
<1> HIDE DEF lower, upper, t
<1>4. /\ front \in Seq(S)
      /\ Len(front) = i
      /\ \A j \in 1 .. i - 1 : front[j] = lower[j]
      /\ front[i] = e
      /\ Range(front) = Range(lower) \cup {e}
      /\ IsInjective(lower) /\ e \notin Range(lower) => IsInjective(front)
  BY <1>1, <1>2, AppendProperties, PushProperties
<1> HIDE DEF front
<1>5. /\ t \in Seq(S)
      /\ Len(t) = Len(front) + Len(upper)
      /\ \A j \in 1 .. Len(front) : t[j] = front[j]
      /\ Range(t) = Range(front) \cup Range(upper)
      /\ IsInjective(front) /\ IsInjective(upper) /\ Range(front) \cap Range(upper) = {}
            => IsInjective(t)
  <2>1. front \in Seq(S) /\ upper \in Seq(S)
    BY <1>2, <1>4
  <2> QED
    BY <1>3, <2>1, JoinProperties, ZenonT(30)
<1>6. i \in 1 .. i /\ \A j \in 1 .. i - 1 : j \in 1 .. i
  BY <1>1
<1>7. Len(t) = Len(s) + 1
  BY <1>1, <1>2, <1>4, <1>5
<1>8. t[i] = e /\ \A j \in 1 .. i - 1 : t[j] = s[j]
  BY <1>2, <1>4, <1>5, <1>6
<1>9. Range(t) = Range(s) \cup {e}
  BY <1>2, <1>4, <1>5
<1>10. IsInjective(s) /\ e \notin Range(s) => IsInjective(t)
  BY <1>2, <1>4, <1>5
<1> QED
  BY <1>5, <1>7, <1>8, <1>9, <1>10 DEF t

(* The element at position i taken out.                                     *)
LEMMA RemoveAtProperties ==
    ASSUME NEW S, NEW s \in Seq(S), NEW i \in 1 .. Len(s)
    PROVE  LET t == RemoveAt(s, i)
           IN  /\ t \in Seq(S)
               /\ Len(t) = Len(s) - 1
               /\ \A j \in 1 .. i - 1 : t[j] = s[j]
               /\ Range(t) \subseteq Range(s)
               /\ IsInjective(s) => IsInjective(t) /\ Range(t) = Range(s) \ {s[i]}
<1> DEFINE front == SubSeq(s, 1, i)
           lower == SubSeq(s, 1, i - 1)
           upper == SubSeq(s, i + 1, Len(s))
           t == RemoveAt(s, i)
<1>1. Len(s) \in Nat /\ i \in 0 .. Len(s) /\ i - 1 \in 0 .. Len(s) /\ i \in Nat
  BY LenProperties
<1>2. /\ front \in Seq(S) /\ upper \in Seq(S)
      /\ Len(front) = i /\ Len(upper) = Len(s) - i
      /\ \A j \in 1 .. i : front[j] = s[j]
      /\ Range(s) = Range(front) \cup Range(upper)
      /\ IsInjective(s) => /\ IsInjective(front) /\ IsInjective(upper)
                           /\ Range(front) \cap Range(upper) = {}
  BY <1>1, HalvesProperties
<1>3. /\ lower \in Seq(S)
      /\ Len(lower) = i - 1
      /\ \A j \in 1 .. i - 1 : lower[j] = s[j]
      /\ IsInjective(s) => IsInjective(lower)
  BY <1>1, HalvesProperties
<1>4. t = lower \o upper
  BY DEF RemoveAt
<1> HIDE DEF front, lower, upper, t
<1>5. /\ front # <<>>
      /\ Last(front) = s[i]
      /\ Front(front) = lower
  <2>1. front # <<>>
    BY <1>1, <1>2, EmptySeq
  <2>2. Last(front) = s[i]
    BY <1>1, <1>2 DEF Last
  <2>3. /\ Front(front) \in Seq(S) /\ Len(Front(front)) = i - 1
        /\ \A j \in 1 .. i - 1 : Front(front)[j] = front[j]
    BY <1>2, <2>1, PopProperties
  <2>4. \A j \in 1 .. i - 1 : Front(front)[j] = lower[j]
    BY <1>1, <1>2, <1>3, <2>3
  <2>5. Front(front) = lower
    BY <1>3, <2>3, <2>4, SeqEqual
  <2> QED
    BY <2>1, <2>2, <2>5
<1>6. /\ Range(front) = Range(lower) \cup {s[i]}
      /\ IsInjective(front) => IsInjective(lower) /\ s[i] \notin Range(lower)
  BY <1>2, <1>5, PopProperties
<1>7. s[i] \in Range(front)
  BY <1>6
<1>8. /\ t \in Seq(S)
      /\ Len(t) = Len(lower) + Len(upper)
      /\ \A j \in 1 .. Len(lower) : t[j] = lower[j]
      /\ Range(t) = Range(lower) \cup Range(upper)
      /\ IsInjective(lower) /\ IsInjective(upper) /\ Range(lower) \cap Range(upper) = {}
            => IsInjective(t)
  <2>1. lower \in Seq(S) /\ upper \in Seq(S)
    BY <1>2, <1>3
  <2> QED
    BY <1>4, <2>1, JoinProperties, ZenonT(30)
<1>9. Len(t) = Len(s) - 1
  BY <1>1, <1>2, <1>3, <1>8
<1>10. \A j \in 1 .. i - 1 : t[j] = s[j]
  BY <1>3, <1>8
<1>11. Range(t) \subseteq Range(s)
  BY <1>2, <1>6, <1>8
<1>12. IsInjective(s) => IsInjective(t) /\ Range(t) = Range(s) \ {s[i]}
  BY <1>2, <1>3, <1>6, <1>7, <1>8
<1> QED
  BY <1>8, <1>9, <1>10, <1>11, <1>12 DEF t

(* e put in front.                                                          *)
LEMMA ConsProperties ==
    ASSUME NEW S, NEW s \in Seq(S), NEW e \in S
    PROVE  /\ Cons(e, s) \in Seq(S)
           /\ Len(Cons(e, s)) = Len(s) + 1
           /\ Range(Cons(e, s)) = Range(s) \cup {e}
           /\ IsInjective(s) /\ e \notin Range(s) => IsInjective(Cons(e, s))
<1>1. /\ <<e>> \in Seq(S) /\ Len(<<e>>) = 1
      /\ Range(<<e>>) = {e} /\ IsInjective(<<e>>)
  <2>1. <<e>> \in Seq(S) /\ Len(<<e>>) = 1 /\ <<e>>[1] = e
    OBVIOUS
  <2>2. DOMAIN <<e>> = {1}
    OBVIOUS
  <2> QED
    BY <2>1, <2>2 DEF Range, IsInjective
<1> DEFINE one == <<e>>
<1>2. Cons(e, s) = one \o s
  BY DEF Cons
<1>3. one \in Seq(S) /\ Len(one) = 1 /\ Range(one) = {e} /\ IsInjective(one)
  BY <1>1
<1> HIDE DEF one
<1>4. Len(s) \in Nat
  BY LenProperties
<1>5. /\ Cons(e, s) \in Seq(S)
      /\ Len(Cons(e, s)) = Len(one) + Len(s)
      /\ Range(Cons(e, s)) = Range(one) \cup Range(s)
      /\ IsInjective(one) /\ IsInjective(s) /\ Range(one) \cap Range(s) = {}
            => IsInjective(Cons(e, s))
  BY <1>2, <1>3, JoinProperties
<1> QED
  BY <1>3, <1>4, <1>5

(* The same for the elements alone.                                         *)
LEMMA ConsKeepsDistinct ==
    ASSUME NEW S, NEW s \in Seq(S), NEW e \in S, e \notin Range(s), IsInjective(s)
    PROVE  Range(Cons(e, s)) = Range(s) \cup {e} /\ IsInjective(Cons(e, s))
BY ConsProperties

(* The first element taken off.                                             *)
LEMMA TailProperties ==
    ASSUME NEW S, NEW s \in Seq(S), s # <<>>
    PROVE  /\ Head(s) \in S
           /\ Head(s) = s[1]
           /\ Tail(s) \in Seq(S)
           /\ Len(Tail(s)) = Len(s) - 1
           /\ Range(s) = Range(Tail(s)) \cup {Head(s)}
           /\ IsInjective(s) => IsInjective(Tail(s)) /\ Head(s) \notin Range(Tail(s))
<1>1. Len(s) \in Nat \ {0} /\ 1 \in 0 .. Len(s) /\ Len(s) - 1 \in Nat
  BY EmptySeq
<1>2. /\ Head(s) \in S /\ Tail(s) \in Seq(S) /\ Len(Tail(s)) = Len(s) - 1
      /\ Tail(s) = SubSeq(s, 1 + 1, Len(s))
  <2>1. 1 + 1 = 2
    OBVIOUS
  <2> QED
    BY <1>1, <2>1, HeadTailProperties, TailIsSubSeq
<1> DEFINE first == SubSeq(s, 1, 1)
<1>3. /\ first \in Seq(S) /\ Len(first) = 1
      /\ \A i \in 1 .. 1 : first[i] = s[i]
      /\ Range(s) = Range(first) \cup Range(Tail(s))
      /\ IsInjective(s) => /\ IsInjective(Tail(s))
                           /\ Range(first) \cap Range(Tail(s)) = {}
  <2>1. PICK m \in 0 .. Len(s) : m = 1
    BY <1>1
  <2> DEFINE lower == SubSeq(s, 1, m)
             upper == SubSeq(s, m + 1, Len(s))
  <2>2. /\ lower \in Seq(S) /\ Len(lower) = m
        /\ \A i \in 1 .. m : lower[i] = s[i]
        /\ Range(s) = Range(lower) \cup Range(upper)
        /\ IsInjective(s) => /\ IsInjective(upper)
                             /\ Range(lower) \cap Range(upper) = {}
    BY HalvesProperties
  <2>3. lower = first /\ upper = Tail(s)
    BY <1>2, <2>1
  <2> HIDE DEF lower, upper, first
  <2> QED
    BY <2>1, <2>2, <2>3
<1> HIDE DEF first
<1>4. Range(first) = {s[1]}
  <2>1. DOMAIN first = 1 .. 1 /\ 1 .. 1 = {1}
    BY <1>3, LenProperties
  <2> QED
    BY <1>3, <2>1 DEF Range
<1>5. Head(s) = s[1]
  BY <1>1
<1> QED
  BY <1>2, <1>3, <1>4, <1>5

-----------------------------------------------------------------------------

(* A leaf is a node with the lists it was built from.                       *)
LEMMA LeafIsNode ==
    ASSUME NEW Ids, NEW keys \in Seq(Key), NEW vals \in Seq(Val)
    PROVE  /\ Leaf(keys, vals) \in NodeOf(Ids)
           /\ IsLeaf(Leaf(keys, vals))
           /\ Leaf(keys, vals).keys = keys
           /\ Leaf(keys, vals).vals = vals
BY DEF Leaf, IsLeaf, NodeOf

(* So is an internal node.                                                  *)
LEMMA InternalIsNode ==
    ASSUME NEW Ids, NEW keys \in Seq(Key), NEW children \in Seq(Ids)
    PROVE  /\ Internal(keys, children) \in NodeOf(Ids)
           /\ ~IsLeaf(Internal(keys, children))
           /\ Internal(keys, children).keys = keys
           /\ Internal(keys, children).children = children
BY DEF Internal, IsLeaf, NodeOf

(* The lists of the two kinds of nodes.                                     *)
LEMMA NodeCases ==
    ASSUME NEW Ids, NEW node \in NodeOf(Ids)
    PROVE  /\ node.keys \in Seq(Key)
           /\ KeysLen(node) \in Nat
           /\ IsLeaf(node) => node.vals \in Seq(Val)
           /\ ~IsLeaf(node) => node.children \in Seq(Ids)
<1>1. node.keys \in Seq(Key)
  BY DEF NodeOf
<1>2. IsLeaf(node) => node.vals \in Seq(Val)
  BY DEF NodeOf, IsLeaf
<1>3. ~IsLeaf(node) => node.children \in Seq(Ids)
  BY DEF NodeOf, IsLeaf
<1> QED
  BY <1>1, <1>2, <1>3, LenProperties DEF KeysLen

(* A set of natural numbers has a least element.                            *)
LEMMA LeastNat ==
    ASSUME NEW T \in SUBSET Nat, T # {}
    PROVE  \E x \in T : \A y \in T : x <= y
<1>1. IsWellFoundedOn(OpToRel(<, Nat), Nat)
  BY NatLessThanWellFounded
<1>2. PICK x \in T : \A y \in T : <<y, x>> \notin OpToRel(<, Nat)
  BY <1>1, WFMin
<1>3. \A y \in T : ~(y < x)
  BY <1>2 DEF OpToRel
<1> QED
  BY <1>3

(* The position of a key: every list has one, sorted or not.                *)
LEMMA PositionProperties ==
    ASSUME NEW keys \in Seq(Key), NEW k \in Key
    PROVE  LET i == Position(keys, k)
           IN  /\ i \in 1 .. Len(keys) + 1
               /\ i > 1 => keys[i - 1] < k
               /\ i <= Len(keys) => k <= keys[i]
<1> DEFINE T == {i \in 1 .. Len(keys) + 1 : i <= Len(keys) => k <= keys[i]}
           n == Len(keys)
<1>1. n \in Nat /\ k \in Int /\ \A i \in 1 .. n : keys[i] \in Int
  BY ElementOfSeq, LenProperties, KeyAssumption
<1>2. T \in SUBSET Nat /\ n + 1 \in T
  BY <1>1
<1>3. PICK x \in T : \A y \in T : x <= y
  <2> HIDE DEF T
  <2> QED
    BY <1>2, LeastNat
<1>4. ASSUME x > 1 PROVE keys[x - 1] < k
  <2> HIDE DEF n
  <2>1. x - 1 \notin T
    <3> HIDE DEF T
    <3>1. x \in Nat
      BY <1>2
    <3>2. ~(x <= x - 1)
      BY <3>1
    <3> QED
      BY <1>3, <3>2
  <2>2. x - 1 \in 1 .. n /\ x - 1 \in 1 .. n + 1 /\ x - 1 <= n
    BY <1>1, <1>4 DEF n
  <2>3. ~(k <= keys[x - 1])
    BY <2>1, <2>2 DEF n
  <2> QED
    BY <1>1, <2>2, <2>3
<1>5. \E i \in 1 .. Len(keys) + 1 : /\ i > 1 => keys[i - 1] < k
                                    /\ i <= Len(keys) => k <= keys[i]
  BY <1>3, <1>4
<1> QED
  BY <1>5 DEF Position

(* A key is found at its position.                                          *)
LEMMA FoundProperties ==
    ASSUME NEW keys \in Seq(Key), NEW k \in Key, Found(keys, k)
    PROVE  /\ Position(keys, k) \in 1 .. Len(keys)
           /\ keys[Position(keys, k)] = k
<1>1. Position(keys, k) \in 1 .. Len(keys) + 1 /\ Len(keys) \in Nat
  BY PositionProperties, LenProperties
<1> QED
  BY <1>1 DEF Found

(* Every key has a child to go to.                                          *)
LEMMA ChildIndexProperties ==
    ASSUME NEW Ids, NEW node \in NodeOf(Ids), NEW k \in Key, ~IsLeaf(node),
           Len(node.children) = KeysLen(node) + 1
    PROVE  ChildIndex(node, k) \in 1 .. Len(node.children)
<1>1. node.keys \in Seq(Key) /\ Len(node.keys) \in Nat
      /\ Len(node.children) = Len(node.keys) + 1
  BY NodeCases DEF KeysLen
<1>2. Position(node.keys, k) \in 1 .. Len(node.keys) + 1
  BY <1>1, PositionProperties
<1>3. Found(node.keys, k) => Position(node.keys, k) \in 1 .. Len(node.keys)
  BY <1>1, FoundProperties
<1> QED
  BY <1>1, <1>2, <1>3 DEF ChildIndex

(* A leaf with one more entry.                                              *)
LEMMA LeafWithProperties ==
    ASSUME NEW Ids, NEW leaf \in NodeOf(Ids), IsLeaf(leaf), NEW k \in Key, NEW v \in Val,
           Len(leaf.vals) = KeysLen(leaf)
    PROVE  LET new == LeafWith(leaf, k, v)
           IN  /\ new \in NodeOf(Ids)
               /\ IsLeaf(new)
               /\ KeysLen(new) = KeysLen(leaf) + 1
               /\ Len(new.vals) = KeysLen(new)
<1> DEFINE i == Position(leaf.keys, k)
           ks == InsertAt(leaf.keys, i, k)
           vs == InsertAt(leaf.vals, i, v)
<1>1. /\ leaf.keys \in Seq(Key) /\ leaf.vals \in Seq(Val)
      /\ Len(leaf.vals) = Len(leaf.keys)
  BY NodeCases DEF KeysLen
<1>2. i \in 1 .. Len(leaf.keys) + 1
  BY <1>1, PositionProperties
<1> HIDE DEF i
<1>3. ks \in Seq(Key) /\ Len(ks) = Len(leaf.keys) + 1
  BY <1>1, <1>2, InsertAtProperties
<1>4. vs \in Seq(Val) /\ Len(vs) = Len(leaf.keys) + 1
  <2>1. i \in 1 .. Len(leaf.vals) + 1
    BY <1>1, <1>2
  <2> QED
    BY <1>1, <2>1, InsertAtProperties
<1>5. LeafWith(leaf, k, v) = Leaf(ks, vs)
  BY DEF LeafWith, i
<1> HIDE DEF ks, vs
<1> QED
  BY <1>3, <1>4, <1>5, LeafIsNode DEF KeysLen

(* A leaf with one entry less.                                              *)
LEMMA LeafWithoutProperties ==
    ASSUME NEW Ids, NEW leaf \in NodeOf(Ids), IsLeaf(leaf), NEW k \in Key,
           Len(leaf.vals) = KeysLen(leaf), Found(leaf.keys, k)
    PROVE  LET new == LeafWithout(leaf, k)
           IN  /\ new \in NodeOf(Ids)
               /\ IsLeaf(new)
               /\ KeysLen(new) = KeysLen(leaf) - 1
               /\ Len(new.vals) = KeysLen(new)
               /\ LeafValue(leaf, k) \in Val
<1> DEFINE i == Position(leaf.keys, k)
           ks == RemoveAt(leaf.keys, i)
           vs == RemoveAt(leaf.vals, i)
<1>1. /\ leaf.keys \in Seq(Key) /\ leaf.vals \in Seq(Val)
      /\ Len(leaf.vals) = Len(leaf.keys)
  BY NodeCases DEF KeysLen
<1>2. i \in 1 .. Len(leaf.keys) /\ i \in 1 .. Len(leaf.vals)
  BY <1>1, FoundProperties
<1> HIDE DEF i
<1>3. ks \in Seq(Key) /\ Len(ks) = Len(leaf.keys) - 1
  BY <1>1, <1>2, RemoveAtProperties
<1>4. vs \in Seq(Val) /\ Len(vs) = Len(leaf.keys) - 1
  BY <1>1, <1>2, RemoveAtProperties
<1>5. LeafWithout(leaf, k) = Leaf(ks, vs)
  BY DEF LeafWithout, i
<1>6. LeafValue(leaf, k) \in Val
  BY <1>1, <1>2, ElementOfSeq DEF LeafValue, i
<1> HIDE DEF ks, vs
<1> QED
  BY <1>3, <1>4, <1>5, <1>6, LeafIsNode DEF KeysLen

-----------------------------------------------------------------------------

(* The ids a node links to.                                                 *)
NodeKids(node) == IF IsLeaf(node) THEN {} ELSE Range(node.children)

(* A leaf has a value for each key, an internal node one child more than    *)
(* keys and no child twice.                                                 *)
ShapeOK(node) ==
    IF IsLeaf(node) THEN Len(node.vals) = KeysLen(node)
                    ELSE /\ Len(node.children) = KeysLen(node) + 1
                         /\ IsInjective(node.children)

(* Half of two or more is at least one and leaves at least one.             *)
LEMMA HalfProperties ==
    ASSUME NEW n \in Nat, n >= 2
    PROVE  n \div 2 \in 1 .. n - 1
OBVIOUS

(* A leaf cut in two.                                                       *)
LEMMA CutLeaf ==
    ASSUME NEW Ids, NEW full \in NodeOf(Ids), IsLeaf(full), ShapeOK(full),
           NEW n, n = KeysLen(full), NEW mid \in 1 .. n - 1
    PROVE  LET lower == Leaf(SubSeq(full.keys, 1, mid), SubSeq(full.vals, 1, mid))
               upper == Leaf(SubSeq(full.keys, mid + 1, n), SubSeq(full.vals, mid + 1, n))
           IN  /\ lower \in NodeOf(Ids) /\ upper \in NodeOf(Ids)
               /\ IsLeaf(lower) /\ IsLeaf(upper)
               /\ ShapeOK(lower) /\ ShapeOK(upper)
               /\ NodeKids(lower) = {} /\ NodeKids(upper) = {}
               /\ Head(upper.keys) \in Key
<1> DEFINE lk == SubSeq(full.keys, 1, mid)
           lvs == SubSeq(full.vals, 1, mid)
           uk == SubSeq(full.keys, mid + 1, n)
           uvs == SubSeq(full.vals, mid + 1, n)
<1>1. /\ full.keys \in Seq(Key) /\ full.vals \in Seq(Val)
      /\ n = Len(full.keys) /\ n = Len(full.vals) /\ n \in Nat
  BY NodeCases DEF ShapeOK, KeysLen
<1>3. ASSUME NEW S, NEW s \in Seq(S), Len(s) = n
      PROVE  /\ SubSeq(s, 1, mid) \in Seq(S) /\ SubSeq(s, mid + 1, n) \in Seq(S)
             /\ Len(SubSeq(s, 1, mid)) = mid /\ Len(SubSeq(s, mid + 1, n)) = n - mid
  <2>1. /\ 1 \in Nat /\ mid \in Nat /\ 1 <= 1 /\ mid <= Len(s) /\ 1 <= mid + 1
        /\ mid + 1 \in Nat /\ n \in Nat /\ 1 <= mid + 1 /\ n <= Len(s)
        /\ mid + 1 <= n + 1
    BY <1>1, <1>3
  <2>2. SubSeq(s, 1, mid) \in Seq(S) /\ Len(SubSeq(s, 1, mid)) = mid + 1 - 1
    BY <2>1, CutProperties
  <2>3. /\ SubSeq(s, mid + 1, n) \in Seq(S)
        /\ Len(SubSeq(s, mid + 1, n)) = n + 1 - (mid + 1)
    BY <2>1, CutProperties
  <2> QED
    BY <2>1, <2>2, <2>3
<1>4. /\ lk \in Seq(Key) /\ uk \in Seq(Key) /\ Len(lk) = mid /\ Len(uk) = n - mid
      /\ lvs \in Seq(Val) /\ uvs \in Seq(Val) /\ Len(lvs) = mid /\ Len(uvs) = n - mid
  BY <1>1, <1>3, Zenon
<1> HIDE DEF lk, lvs, uk, uvs
<1>5. uk # <<>>
  <2>1. Len(uk) # 0
    BY <1>1, <1>4
  <2> QED
    BY <2>1, EmptySeq
<1>6. Head(uk) \in Key
  BY <1>4, <1>5, TailProperties
<1>7. /\ Leaf(lk, lvs) \in NodeOf(Ids) /\ IsLeaf(Leaf(lk, lvs)) /\ ShapeOK(Leaf(lk, lvs))
      /\ NodeKids(Leaf(lk, lvs)) = {}
  BY <1>4, LeafIsNode DEF ShapeOK, KeysLen, NodeKids
<1>8. /\ Leaf(uk, uvs) \in NodeOf(Ids) /\ IsLeaf(Leaf(uk, uvs)) /\ ShapeOK(Leaf(uk, uvs))
      /\ NodeKids(Leaf(uk, uvs)) = {} /\ Leaf(uk, uvs).keys = uk
  BY <1>4, LeafIsNode DEF ShapeOK, KeysLen, NodeKids
<1> QED
  BY <1>6, <1>7, <1>8 DEF lk, lvs, uk, uvs

(* An internal node built of lists that fit.                                *)
LEMMA InternalShape ==
    ASSUME NEW Ids, NEW keys \in Seq(Key), NEW children \in Seq(Ids),
           Len(children) = Len(keys) + 1, IsInjective(children)
    PROVE  /\ Internal(keys, children) \in NodeOf(Ids)
           /\ ~IsLeaf(Internal(keys, children))
           /\ ShapeOK(Internal(keys, children))
           /\ NodeKids(Internal(keys, children)) = Range(children)
BY InternalIsNode DEF ShapeOK, KeysLen, NodeKids

(* The lists of an internal node.                                           *)
LEMMA InternalCases ==
    ASSUME NEW Ids, NEW node \in NodeOf(Ids), ~IsLeaf(node), ShapeOK(node)
    PROVE  /\ node.keys \in Seq(Key) /\ node.children \in Seq(Ids)
           /\ KeysLen(node) = Len(node.keys) /\ Len(node.keys) \in Nat
           /\ Len(node.children) = Len(node.keys) + 1
           /\ IsInjective(node.children)
           /\ NodeKids(node) = Range(node.children)
BY NodeCases DEF ShapeOK, KeysLen, NodeKids

(* An internal node cut in two around one of its keys.                      *)
CutAround(full, n, mid, lower, upper) ==
    /\ ~IsLeaf(full) /\ ShapeOK(full)
    /\ n = KeysLen(full)
    /\ mid \in 1 .. n - 1
    /\ lower = Internal(SubSeq(full.keys, 1, mid), SubSeq(full.children, 1, mid + 1))
    /\ upper = Internal(SubSeq(full.keys, mid + 2, n),
                        SubSeq(full.children, mid + 2, n + 1))

(* An internal node cut in two, with a key left over.                       *)
LEMMA CutInternal ==
    ASSUME NEW Ids, NEW full \in NodeOf(Ids), NEW n, NEW mid, NEW lower, NEW upper,
           CutAround(full, n, mid, lower, upper)
    PROVE  /\ lower \in NodeOf(Ids) /\ upper \in NodeOf(Ids)
           /\ ~IsLeaf(lower) /\ ~IsLeaf(upper)
           /\ ShapeOK(lower) /\ ShapeOK(upper)
           /\ NodeKids(lower) \cup NodeKids(upper) = NodeKids(full)
           /\ NodeKids(lower) \cap NodeKids(upper) = {}
           /\ full.keys[mid + 1] \in Key
<1> USE DEF CutAround
<1> DEFINE lk == SubSeq(full.keys, 1, mid)
           lc == SubSeq(full.children, 1, mid + 1)
           uk == SubSeq(full.keys, mid + 2, n)
           uc == SubSeq(full.children, mid + 2, n + 1)
<1>1. /\ full.keys \in Seq(Key) /\ full.children \in Seq(Ids)
      /\ n = Len(full.keys) /\ n \in Nat /\ Len(full.children) = n + 1
      /\ IsInjective(full.children)
      /\ NodeKids(full) = Range(full.children)
  BY InternalCases
<1>2. lk \in Seq(Key) /\ Len(lk) = mid
  <2>1. mid \in 0 .. Len(full.keys)
    BY <1>1
  <2> QED
    BY <1>1, <2>1, HalvesProperties
<1>3. uk \in Seq(Key) /\ Len(uk) = n - mid - 1
  <2>1. mid + 2 \in Nat /\ n \in Nat /\ 1 <= mid + 2 /\ n <= Len(full.keys)
        /\ mid + 2 <= n + 1
    BY <1>1
  <2>2. uk \in Seq(Key) /\ Len(uk) = n + 1 - (mid + 2)
    BY <1>1, <2>1, CutProperties
  <2> HIDE DEF uk
  <2> QED
    BY <1>1, <2>2
<1>4. /\ lc \in Seq(Ids) /\ uc \in Seq(Ids)
      /\ Len(lc) = mid + 1 /\ Len(uc) = n - mid
      /\ IsInjective(lc) /\ IsInjective(uc)
      /\ Range(full.children) = Range(lc) \cup Range(uc)
      /\ Range(lc) \cap Range(uc) = {}
  <2>1. PICK m \in 0 .. Len(full.children) : m = mid + 1
    BY <1>1
  <2> DEFINE low == SubSeq(full.children, 1, m)
             high == SubSeq(full.children, m + 1, Len(full.children))
  <2>2. /\ low \in Seq(Ids) /\ high \in Seq(Ids)
        /\ Len(low) = m /\ Len(high) = Len(full.children) - m
        /\ IsInjective(low) /\ IsInjective(high)
        /\ Range(full.children) = Range(low) \cup Range(high)
        /\ Range(low) \cap Range(high) = {}
    BY <1>1, HalvesProperties
  <2>3. m + 1 = mid + 2 /\ n + 1 = Len(full.children)
    BY <1>1, <2>1
  <2>4. low = lc /\ high = uc
    BY <2>1, <2>3
  <2>5. Len(full.children) - m = n - mid
    BY <1>1, <2>1
  <2> HIDE DEF low, high, lc, uc
  <2> QED
    BY <2>1, <2>2, <2>4, <2>5
<1>5. full.keys[mid + 1] \in Key
  <2>1. mid + 1 \in 1 .. Len(full.keys)
    BY <1>1
  <2> QED
    BY <1>1, <2>1, ElementOfSeq
<1> HIDE DEF lk, lc, uk, uc
<1>6. Len(lc) = Len(lk) + 1 /\ Len(uc) = Len(uk) + 1
  BY <1>1, <1>2, <1>3, <1>4
<1>7. /\ Internal(lk, lc) \in NodeOf(Ids) /\ ~IsLeaf(Internal(lk, lc))
      /\ ShapeOK(Internal(lk, lc)) /\ NodeKids(Internal(lk, lc)) = Range(lc)
  BY <1>2, <1>4, <1>6, InternalShape
<1>8. /\ Internal(uk, uc) \in NodeOf(Ids) /\ ~IsLeaf(Internal(uk, uc))
      /\ ShapeOK(Internal(uk, uc)) /\ NodeKids(Internal(uk, uc)) = Range(uc)
  BY <1>3, <1>4, <1>6, InternalShape
<1>9. lower = Internal(lk, lc) /\ upper = Internal(uk, uc)
  BY DEF lk, lc, uk, uc
<1> QED
  BY <1>1, <1>4, <1>5, <1>7, <1>8, <1>9

(* A leaf built of lists that fit.                                          *)
LEMMA LeafShape ==
    ASSUME NEW Ids, NEW keys \in Seq(Key), NEW vals \in Seq(Val),
           Len(vals) = Len(keys)
    PROVE  /\ Leaf(keys, vals) \in NodeOf(Ids)
           /\ IsLeaf(Leaf(keys, vals))
           /\ ShapeOK(Leaf(keys, vals))
           /\ NodeKids(Leaf(keys, vals)) = {}
BY LeafIsNode DEF ShapeOK, KeysLen, NodeKids

(* The lists of a leaf.                                                     *)
LEMMA LeafCases ==
    ASSUME NEW Ids, NEW node \in NodeOf(Ids), IsLeaf(node), ShapeOK(node)
    PROVE  /\ node.keys \in Seq(Key) /\ node.vals \in Seq(Val)
           /\ KeysLen(node) = Len(node.keys) /\ Len(node.keys) \in Nat
           /\ Len(node.vals) = Len(node.keys)
           /\ NodeKids(node) = {}
BY NodeCases DEF ShapeOK, KeysLen, NodeKids

(* The last entry or child of l moves in front of those of c.               *)
LentLast(l, c, sep, ln, cn) ==
    /\ ShapeOK(l) /\ ShapeOK(c)
    /\ IsLeaf(l) <=> IsLeaf(c)
    /\ KeysLen(l) > 0
    /\ NodeKids(l) \cap NodeKids(c) = {}
    /\ ln = IF IsLeaf(c) THEN Leaf(Front(l.keys), Front(l.vals))
                         ELSE Internal(Front(l.keys), Front(l.children))
    /\ cn = IF IsLeaf(c)
            THEN Leaf(Cons(Last(l.keys), c.keys), Cons(Last(l.vals), c.vals))
            ELSE Internal(Cons(sep, c.keys), Cons(Last(l.children), c.children))

(* The last child lent to a node,                                           *)
LEMMA LendLast ==
    ASSUME NEW Ids, NEW l \in NodeOf(Ids), NEW c \in NodeOf(Ids), NEW sep \in Key,
           NEW ln, NEW cn, LentLast(l, c, sep, ln, cn)
    PROVE  /\ ln \in NodeOf(Ids) /\ cn \in NodeOf(Ids)
           /\ ShapeOK(ln) /\ ShapeOK(cn)
           /\ IsLeaf(ln) <=> IsLeaf(l)
           /\ IsLeaf(cn) <=> IsLeaf(c)
           /\ NodeKids(ln) \cup NodeKids(cn) = NodeKids(l) \cup NodeKids(c)
           /\ NodeKids(ln) \cap NodeKids(cn) = {}
           /\ Last(l.keys) \in Key
<1> USE DEF LentLast
<1>1. l.keys \in Seq(Key) /\ Len(l.keys) > 0 /\ l.keys # <<>>
  <2>1. l.keys \in Seq(Key) /\ Len(l.keys) > 0
    BY NodeCases DEF KeysLen
  <2> QED
    BY <2>1, EmptySeq
<1>2. /\ Front(l.keys) \in Seq(Key) /\ Len(Front(l.keys)) = Len(l.keys) - 1
      /\ Last(l.keys) \in Key
  BY <1>1, PopProperties
<1>3. CASE IsLeaf(c)
  <2>1. /\ l.vals \in Seq(Val) /\ Len(l.vals) = Len(l.keys) /\ NodeKids(l) = {}
        /\ c.keys \in Seq(Key) /\ c.vals \in Seq(Val) /\ Len(c.vals) = Len(c.keys)
        /\ NodeKids(c) = {}
    BY <1>3, LeafCases
  <2>2. l.vals # <<>>
    BY <1>1, <2>1, EmptySeq
  <2>3. /\ Front(l.vals) \in Seq(Val) /\ Len(Front(l.vals)) = Len(l.vals) - 1
        /\ Last(l.vals) \in Val
    BY <2>1, <2>2, PopProperties
  <2>4. /\ Cons(Last(l.keys), c.keys) \in Seq(Key)
        /\ Len(Cons(Last(l.keys), c.keys)) = Len(c.keys) + 1
        /\ Cons(Last(l.vals), c.vals) \in Seq(Val)
        /\ Len(Cons(Last(l.vals), c.vals)) = Len(c.vals) + 1
    BY <1>2, <2>1, <2>3, ConsProperties
  <2>5. Len(Front(l.vals)) = Len(Front(l.keys))
    BY <1>2, <2>1, <2>3
  <2>6. Len(Cons(Last(l.vals), c.vals)) = Len(Cons(Last(l.keys), c.keys))
    BY <2>1, <2>4
  <2>7. ln \in NodeOf(Ids) /\ IsLeaf(ln) /\ ShapeOK(ln) /\ NodeKids(ln) = {}
    BY <1>2, <1>3, <2>3, <2>5, LeafShape
  <2>8. cn \in NodeOf(Ids) /\ IsLeaf(cn) /\ ShapeOK(cn) /\ NodeKids(cn) = {}
    BY <1>3, <2>4, <2>6, LeafShape
  <2> QED
    BY <1>2, <1>3, <2>1, <2>7, <2>8
<1>4. CASE ~IsLeaf(c)
  <2>1. /\ l.children \in Seq(Ids) /\ Len(l.children) = Len(l.keys) + 1
        /\ Len(l.keys) \in Nat
        /\ IsInjective(l.children) /\ NodeKids(l) = Range(l.children)
    BY <1>4, InternalCases
  <2>2. /\ c.keys \in Seq(Key) /\ c.children \in Seq(Ids)
        /\ Len(c.children) = Len(c.keys) + 1 /\ Len(c.keys) \in Nat
        /\ IsInjective(c.children) /\ NodeKids(c) = Range(c.children)
    BY <1>4, InternalCases
  <2>3. l.children # <<>>
    <3>1. Len(l.children) # 0
      BY <2>1
    <3> QED
      BY <3>1, EmptySeq
  <2>4. /\ Front(l.children) \in Seq(Ids)
        /\ Len(Front(l.children)) = Len(l.children) - 1
        /\ Last(l.children) \in Ids
        /\ Range(l.children) = Range(Front(l.children)) \cup {Last(l.children)}
        /\ IsInjective(Front(l.children))
        /\ Last(l.children) \notin Range(Front(l.children))
    BY <2>1, <2>3, PopProperties
  <2>5. Last(l.children) \notin Range(c.children)
    BY <2>1, <2>2, <2>4
  <2>6. /\ Cons(sep, c.keys) \in Seq(Key) /\ Len(Cons(sep, c.keys)) = Len(c.keys) + 1
    BY <2>2, ConsProperties
  <2>7. /\ Cons(Last(l.children), c.children) \in Seq(Ids)
        /\ Len(Cons(Last(l.children), c.children)) = Len(c.children) + 1
        /\ Range(Cons(Last(l.children), c.children)) = Range(c.children) \cup {Last(l.children)}
        /\ IsInjective(Cons(Last(l.children), c.children))
    <3>1. /\ Cons(Last(l.children), c.children) \in Seq(Ids)
          /\ Len(Cons(Last(l.children), c.children)) = Len(c.children) + 1
      BY <2>2, <2>4, ConsProperties
    <3>2. /\ Range(Cons(Last(l.children), c.children))
                = Range(c.children) \cup {Last(l.children)}
          /\ IsInjective(Cons(Last(l.children), c.children))
      BY <2>2, <2>4, <2>5, ConsKeepsDistinct
    <3> QED
      BY <3>1, <3>2
  <2>8. /\ Len(Front(l.children)) = Len(Front(l.keys)) + 1
        /\ Len(Cons(Last(l.children), c.children)) = Len(Cons(sep, c.keys)) + 1
    BY <1>2, <2>1, <2>2, <2>4, <2>6, <2>7
  <2>9. /\ ln \in NodeOf(Ids) /\ ~IsLeaf(ln) /\ ShapeOK(ln)
        /\ NodeKids(ln) = Range(Front(l.children))
    BY <1>2, <1>4, <2>4, <2>8, InternalShape
  <2>10. /\ cn \in NodeOf(Ids) /\ ~IsLeaf(cn) /\ ShapeOK(cn)
         /\ NodeKids(cn) = Range(c.children) \cup {Last(l.children)}
    BY <1>4, <2>6, <2>7, <2>8, InternalShape
  <2> QED
    <3>1. /\ NodeKids(ln) \cup NodeKids(cn) = NodeKids(l) \cup NodeKids(c)
          /\ NodeKids(ln) \cap NodeKids(cn) = {}
      <4>1. Range(l.children) \cap Range(c.children) = {}
        BY <2>1, <2>2
      <4> QED
        BY <2>1, <2>2, <2>4, <2>9, <2>10, <4>1
    <3> QED
      BY <1>2, <1>4, <2>9, <2>10, <3>1, Zenon
<1> QED
  BY <1>3, <1>4

(* The first entry or child of r moves behind those of c.                   *)
LentFirst(r, c, sep, rn, cn) ==
    /\ ShapeOK(r) /\ ShapeOK(c)
    /\ IsLeaf(r) <=> IsLeaf(c)
    /\ KeysLen(r) > 1
    /\ NodeKids(r) \cap NodeKids(c) = {}
    /\ rn = IF IsLeaf(c) THEN Leaf(Tail(r.keys), Tail(r.vals))
                         ELSE Internal(Tail(r.keys), Tail(r.children))
    /\ cn = IF IsLeaf(c)
            THEN Leaf(Append(c.keys, Head(r.keys)), Append(c.vals, Head(r.vals)))
            ELSE Internal(Append(c.keys, sep), Append(c.children, Head(r.children)))

(* and the first.                                                           *)
LEMMA LendFirst ==
    ASSUME NEW Ids, NEW r \in NodeOf(Ids), NEW c \in NodeOf(Ids), NEW sep \in Key,
           NEW rn, NEW cn, LentFirst(r, c, sep, rn, cn)
    PROVE  /\ rn \in NodeOf(Ids) /\ cn \in NodeOf(Ids)
           /\ ShapeOK(rn) /\ ShapeOK(cn)
           /\ IsLeaf(rn) <=> IsLeaf(r)
           /\ IsLeaf(cn) <=> IsLeaf(c)
           /\ NodeKids(rn) \cup NodeKids(cn) = NodeKids(r) \cup NodeKids(c)
           /\ NodeKids(rn) \cap NodeKids(cn) = {}
           /\ Head(r.keys) \in Key
           /\ Head(Tail(r.keys)) \in Key
<1> USE DEF LentFirst
<1>1. r.keys \in Seq(Key) /\ Len(r.keys) > 1 /\ r.keys # <<>>
  <2>1. r.keys \in Seq(Key) /\ Len(r.keys) > 1
    BY NodeCases DEF KeysLen
  <2> QED
    BY <2>1, EmptySeq
<1>2. /\ Tail(r.keys) \in Seq(Key) /\ Len(Tail(r.keys)) = Len(r.keys) - 1
      /\ Head(r.keys) \in Key
  BY <1>1, TailProperties
<1>3. Head(Tail(r.keys)) \in Key
  <2>1. Len(Tail(r.keys)) # 0
    <3> DEFINE n == Len(r.keys)
               m == Len(Tail(r.keys))
    <3>1. n > 1 /\ m = n - 1 /\ n \in Nat
      BY <1>1, <1>2, LenProperties, Zenon
    <3> HIDE DEF n, m
    <3>2. m # 0
      BY <3>1
    <3> QED
      BY <3>2 DEF m
  <2>2. Tail(r.keys) # <<>>
    BY <2>1, EmptySeq
  <2> QED
    BY <1>2, <2>2, TailProperties
<1>4. CASE IsLeaf(c)
  <2>1. /\ r.vals \in Seq(Val) /\ Len(r.vals) = Len(r.keys) /\ NodeKids(r) = {}
        /\ c.keys \in Seq(Key) /\ c.vals \in Seq(Val) /\ Len(c.vals) = Len(c.keys)
        /\ NodeKids(c) = {}
    BY <1>4, LeafCases
  <2>2. r.vals # <<>>
    BY <1>1, <2>1, EmptySeq
  <2>3. /\ Tail(r.vals) \in Seq(Val) /\ Len(Tail(r.vals)) = Len(r.vals) - 1
        /\ Head(r.vals) \in Val
    BY <2>1, <2>2, TailProperties
  <2>4. /\ Append(c.keys, Head(r.keys)) \in Seq(Key)
        /\ Len(Append(c.keys, Head(r.keys))) = Len(c.keys) + 1
        /\ Append(c.vals, Head(r.vals)) \in Seq(Val)
        /\ Len(Append(c.vals, Head(r.vals))) = Len(c.vals) + 1
    BY <1>2, <2>1, <2>3, PushProperties
  <2>5. Len(Tail(r.vals)) = Len(Tail(r.keys))
    BY <1>2, <2>1, <2>3
  <2>6. Len(Append(c.vals, Head(r.vals))) = Len(Append(c.keys, Head(r.keys)))
    BY <2>1, <2>4
  <2>7. rn \in NodeOf(Ids) /\ IsLeaf(rn) /\ ShapeOK(rn) /\ NodeKids(rn) = {}
    BY <1>2, <1>4, <2>3, <2>5, LeafShape
  <2>8. cn \in NodeOf(Ids) /\ IsLeaf(cn) /\ ShapeOK(cn) /\ NodeKids(cn) = {}
    BY <1>4, <2>4, <2>6, LeafShape
  <2> QED
    BY <1>2, <1>3, <1>4, <2>1, <2>7, <2>8
<1>5. CASE ~IsLeaf(c)
  <2>1. /\ r.children \in Seq(Ids) /\ Len(r.children) = Len(r.keys) + 1
        /\ Len(r.keys) \in Nat
        /\ IsInjective(r.children) /\ NodeKids(r) = Range(r.children)
    BY <1>5, InternalCases
  <2>2. /\ c.keys \in Seq(Key) /\ c.children \in Seq(Ids)
        /\ Len(c.children) = Len(c.keys) + 1 /\ Len(c.keys) \in Nat
        /\ IsInjective(c.children) /\ NodeKids(c) = Range(c.children)
    BY <1>5, InternalCases
  <2>3. r.children # <<>>
    <3>1. Len(r.children) # 0
      BY <2>1
    <3> QED
      BY <3>1, EmptySeq
  <2>4. /\ Tail(r.children) \in Seq(Ids)
        /\ Len(Tail(r.children)) = Len(r.children) - 1
        /\ Head(r.children) \in Ids
        /\ Range(r.children) = Range(Tail(r.children)) \cup {Head(r.children)}
        /\ IsInjective(Tail(r.children))
        /\ Head(r.children) \notin Range(Tail(r.children))
    BY <2>1, <2>3, TailProperties
  <2>5. Head(r.children) \notin Range(c.children)
    BY <2>1, <2>2, <2>4
  <2>6. Append(c.keys, sep) \in Seq(Key) /\ Len(Append(c.keys, sep)) = Len(c.keys) + 1
    BY <2>2, PushProperties
  <2>7. /\ Append(c.children, Head(r.children)) \in Seq(Ids)
        /\ Len(Append(c.children, Head(r.children))) = Len(c.children) + 1
        /\ Range(Append(c.children, Head(r.children)))
              = Range(c.children) \cup {Head(r.children)}
        /\ IsInjective(Append(c.children, Head(r.children)))
    BY <2>2, <2>4, <2>5, PushProperties
  <2>8. /\ Len(Tail(r.children)) = Len(Tail(r.keys)) + 1
        /\ Len(Append(c.children, Head(r.children))) = Len(Append(c.keys, sep)) + 1
    BY <1>2, <2>1, <2>2, <2>4, <2>6, <2>7
  <2>9. /\ rn \in NodeOf(Ids) /\ ~IsLeaf(rn) /\ ShapeOK(rn)
        /\ NodeKids(rn) = Range(Tail(r.children))
    BY <1>2, <1>5, <2>4, <2>8, InternalShape
  <2>10. /\ cn \in NodeOf(Ids) /\ ~IsLeaf(cn) /\ ShapeOK(cn)
         /\ NodeKids(cn) = Range(c.children) \cup {Head(r.children)}
    BY <1>5, <2>6, <2>7, <2>8, InternalShape
  <2> QED
    <3>1. /\ NodeKids(rn) \cup NodeKids(cn) = NodeKids(r) \cup NodeKids(c)
          /\ NodeKids(rn) \cap NodeKids(cn) = {}
      <4>1. Range(r.children) \cap Range(c.children) = {}
        BY <2>1, <2>2
      <4> QED
        BY <2>1, <2>2, <2>4, <2>9, <2>10, <4>1
    <3> QED
      BY <1>2, <1>3, <1>5, <2>9, <2>10, <3>1, Zenon
<1> QED
  BY <1>4, <1>5

(* One list behind another, as an operation to reason about.                *)
Join(s, t) == s \o t

(* Two lists joined,                                                        *)
LEMMA JoinIsList ==
    ASSUME NEW S, NEW s \in Seq(S), NEW t \in Seq(S)
    PROVE  /\ Join(s, t) \in Seq(S)
           /\ Len(Join(s, t)) = Len(s) + Len(t)
BY JoinProperties DEF Join

(* without an element twice.                                                *)
LEMMA JoinKeepsDistinct ==
    ASSUME NEW S, NEW s \in Seq(S), NEW t \in Seq(S),
           IsInjective(s), IsInjective(t), Range(s) \cap Range(t) = {}
    PROVE  /\ Range(Join(s, t)) = Range(s) \cup Range(t)
           /\ IsInjective(Join(s, t))
BY JoinProperties DEF Join

(* An internal node joined of the lists of two, with a separator between.   *)
LEMMA JoinedInternal ==
    ASSUME NEW Ids, NEW lk \in Seq(Key), NEW lc \in Seq(Ids),
           NEW rk \in Seq(Key), NEW rc \in Seq(Ids), NEW sep \in Key,
           Len(lc) = Len(lk) + 1, Len(rc) = Len(rk) + 1,
           IsInjective(lc), IsInjective(rc), Range(lc) \cap Range(rc) = {}
    PROVE  LET mn == Internal(Append(lk, sep) \o rk, lc \o rc)
           IN  /\ mn \in NodeOf(Ids)
               /\ ShapeOK(mn)
               /\ ~IsLeaf(mn)
               /\ NodeKids(mn) = Range(lc) \cup Range(rc)
<1> DEFINE front == Append(lk, sep)
           ks == Join(front, rk)
           cs == Join(lc, rc)
<1>1. front \in Seq(Key) /\ Len(front) = Len(lk) + 1
  BY PushProperties
<1> HIDE DEF front
<1>2. ks \in Seq(Key) /\ Len(ks) = Len(front) + Len(rk)
  BY <1>1, JoinIsList
<1>3. /\ cs \in Seq(Ids)
      /\ Len(cs) = Len(lc) + Len(rc)
      /\ Range(cs) = Range(lc) \cup Range(rc)
      /\ IsInjective(cs)
  <2>1. cs \in Seq(Ids) /\ Len(cs) = Len(lc) + Len(rc)
    BY JoinIsList
  <2>2. Range(cs) = Range(lc) \cup Range(rc) /\ IsInjective(cs)
    BY JoinKeepsDistinct
  <2> QED
    BY <2>1, <2>2
<1> HIDE DEF ks, cs
<1>4. Len(lk) \in Nat /\ Len(rk) \in Nat
  BY LenProperties
<1>5. Len(cs) = Len(ks) + 1
  BY <1>1, <1>2, <1>3, <1>4
<1>6. /\ Internal(ks, cs) \in NodeOf(Ids) /\ ShapeOK(Internal(ks, cs))
      /\ ~IsLeaf(Internal(ks, cs)) /\ NodeKids(Internal(ks, cs)) = Range(cs)
  BY <1>2, <1>3, <1>5, InternalShape
<1> QED
  BY <1>3, <1>6 DEF front, ks, cs, Join

(* The lists of r go behind those of l, with a separator between them.      *)
LEMMA MergeLists ==
    ASSUME NEW Ids, NEW l \in NodeOf(Ids), NEW r \in NodeOf(Ids),
           ShapeOK(l), ShapeOK(r), IsLeaf(l) <=> IsLeaf(r), NEW sep \in Key,
           NodeKids(l) \cap NodeKids(r) = {}
    PROVE  LET mn == IF IsLeaf(l)
                     THEN Leaf(l.keys \o r.keys, l.vals \o r.vals)
                     ELSE Internal(Append(l.keys, sep) \o r.keys,
                                   l.children \o r.children)
           IN  /\ mn \in NodeOf(Ids)
               /\ ShapeOK(mn)
               /\ IsLeaf(mn) <=> IsLeaf(l)
               /\ NodeKids(mn) = NodeKids(l) \cup NodeKids(r)
<1>1. CASE IsLeaf(l)
  <2> DEFINE ks == Join(l.keys, r.keys)
             vs == Join(l.vals, r.vals)
  <2>1. /\ l.keys \in Seq(Key) /\ l.vals \in Seq(Val) /\ Len(l.vals) = Len(l.keys)
        /\ r.keys \in Seq(Key) /\ r.vals \in Seq(Val) /\ Len(r.vals) = Len(r.keys)
        /\ NodeKids(l) = {} /\ NodeKids(r) = {}
    BY <1>1, LeafCases
  <2>2. /\ ks \in Seq(Key) /\ vs \in Seq(Val)
        /\ Len(ks) = Len(l.keys) + Len(r.keys)
        /\ Len(vs) = Len(l.vals) + Len(r.vals)
    BY <2>1, JoinIsList
  <2> HIDE DEF ks, vs
  <2>3. Len(vs) = Len(ks)
    BY <2>1, <2>2
  <2>4. /\ Leaf(ks, vs) \in NodeOf(Ids) /\ ShapeOK(Leaf(ks, vs))
        /\ IsLeaf(Leaf(ks, vs)) /\ NodeKids(Leaf(ks, vs)) = {}
    BY <2>2, <2>3, LeafShape
  <2> QED
    BY <1>1, <2>1, <2>4 DEF ks, vs, Join
<1>2. CASE ~IsLeaf(l)
  <2>1. /\ l.keys \in Seq(Key) /\ l.children \in Seq(Ids)
        /\ Len(l.children) = Len(l.keys) + 1
        /\ IsInjective(l.children) /\ NodeKids(l) = Range(l.children)
    BY <1>2, InternalCases
  <2>2. /\ r.keys \in Seq(Key) /\ r.children \in Seq(Ids)
        /\ Len(r.children) = Len(r.keys) + 1
        /\ IsInjective(r.children) /\ NodeKids(r) = Range(r.children)
    BY <1>2, InternalCases
  <2>3. Range(l.children) \cap Range(r.children) = {}
    BY <2>1, <2>2
  <2> DEFINE mn == Internal(Append(l.keys, sep) \o r.keys, l.children \o r.children)
  <2>4. /\ mn \in NodeOf(Ids) /\ ShapeOK(mn) /\ ~IsLeaf(mn)
        /\ NodeKids(mn) = Range(l.children) \cup Range(r.children)
    BY <2>1, <2>2, <2>3, JoinedInternal, SMTT(30)
  <2> HIDE DEF mn
  <2>5. /\ mn \in NodeOf(Ids) /\ ShapeOK(mn) /\ ~IsLeaf(mn)
        /\ NodeKids(mn) = NodeKids(l) \cup NodeKids(r)
    BY <2>1, <2>2, <2>4, Zenon
  <2> QED
    BY <1>2, <2>5 DEF mn
<1> QED
  BY <1>1, <1>2

(* A separator is replaced.                                                 *)
LEMMA ReplaceSeparator ==
    ASSUME NEW Ids, NEW p \in NodeOf(Ids), ~IsLeaf(p), ShapeOK(p),
           NEW i \in 1 .. Len(p.keys), NEW k \in Key,
           NEW pn, pn = Internal(ReplaceAt(p.keys, i, k), p.children)
    PROVE  /\ pn \in NodeOf(Ids)
           /\ ShapeOK(pn)
           /\ ~IsLeaf(pn)
           /\ NodeKids(pn) = NodeKids(p)
<1>1. /\ p.keys \in Seq(Key) /\ p.children \in Seq(Ids)
      /\ Len(p.children) = Len(p.keys) + 1
      /\ IsInjective(p.children) /\ NodeKids(p) = Range(p.children)
  BY InternalCases
<1>2. ReplaceAt(p.keys, i, k) \in Seq(Key) /\ Len(ReplaceAt(p.keys, i, k)) = Len(p.keys)
  BY <1>1, ExceptSeq DEF ReplaceAt
<1> QED
  BY <1>1, <1>2, InternalShape

(* A separator and the child on its right are taken out.                    *)
LEMMA UnlinkChild ==
    ASSUME NEW Ids, NEW p \in NodeOf(Ids), ~IsLeaf(p), ShapeOK(p),
           NEW i \in 1 .. Len(p.keys)
    PROVE  LET pn == Internal(RemoveAt(p.keys, i), RemoveAt(p.children, i + 1))
           IN  /\ pn \in NodeOf(Ids)
               /\ ShapeOK(pn)
               /\ ~IsLeaf(pn)
               /\ NodeKids(pn) = NodeKids(p) \ {p.children[i + 1]}
<1>1. /\ p.keys \in Seq(Key) /\ p.children \in Seq(Ids) /\ Len(p.keys) \in Nat
      /\ Len(p.children) = Len(p.keys) + 1
      /\ IsInjective(p.children) /\ NodeKids(p) = Range(p.children)
  BY InternalCases
<1> DEFINE j == i + 1
           ks == RemoveAt(p.keys, i)
           cs == RemoveAt(p.children, j)
<1>2. j \in 1 .. Len(p.children)
  BY <1>1
<1> HIDE DEF j
<1>3. ks \in Seq(Key) /\ Len(ks) = Len(p.keys) - 1
  <2>1. \A s \in Seq(Key) : i \in 1 .. Len(s) =>
           RemoveAt(s, i) \in Seq(Key) /\ Len(RemoveAt(s, i)) = Len(s) - 1
    BY RemoveAtProperties
  <2> QED
    BY <1>1, <2>1, Zenon
<1>4. /\ cs \in Seq(Ids)
      /\ Len(cs) = Len(p.children) - 1
      /\ IsInjective(cs)
      /\ Range(cs) = Range(p.children) \ {p.children[j]}
  BY <1>1, <1>2, RemoveAtProperties
<1> HIDE DEF ks, cs
<1>5. Len(cs) = Len(ks) + 1
  BY <1>1, <1>3, <1>4
<1>6. /\ Internal(ks, cs) \in NodeOf(Ids) /\ ShapeOK(Internal(ks, cs))
      /\ ~IsLeaf(Internal(ks, cs))
      /\ NodeKids(Internal(ks, cs)) = NodeKids(p) \ {p.children[j]}
  BY <1>1, <1>3, <1>4, <1>5, InternalShape
<1> QED
  BY <1>6 DEF j, ks, cs

(* A separator and a child on its right are put in.                         *)
LEMMA LinkChild ==
    ASSUME NEW Ids, NEW p \in NodeOf(Ids), ~IsLeaf(p), ShapeOK(p),
           NEW i \in 1 .. Len(p.children), NEW k \in Key, NEW c \in Ids, c \notin NodeKids(p),
           NEW pn, pn = Internal(InsertAt(p.keys, i, k), InsertAt(p.children, i + 1, c))
    PROVE  /\ pn \in NodeOf(Ids)
           /\ ShapeOK(pn)
           /\ ~IsLeaf(pn)
           /\ NodeKids(pn) = NodeKids(p) \cup {c}
           /\ KeysLen(pn) = KeysLen(p) + 1
<1>1. /\ p.keys \in Seq(Key) /\ p.children \in Seq(Ids) /\ Len(p.keys) \in Nat
      /\ Len(p.children) = Len(p.keys) + 1 /\ KeysLen(p) = Len(p.keys)
      /\ IsInjective(p.children) /\ NodeKids(p) = Range(p.children)
  BY InternalCases
<1> DEFINE j == i + 1
<1>2. j \in 1 .. Len(p.children) + 1 /\ i \in 1 .. Len(p.keys) + 1
  BY <1>1
<1>3. InsertAt(p.keys, i, k) \in Seq(Key) /\ Len(InsertAt(p.keys, i, k)) = Len(p.keys) + 1
  BY <1>1, <1>2, InsertAtProperties
<1> HIDE DEF j
<1>4. /\ InsertAt(p.children, j, c) \in Seq(Ids)
      /\ Len(InsertAt(p.children, j, c)) = Len(p.children) + 1
      /\ IsInjective(InsertAt(p.children, j, c))
      /\ Range(InsertAt(p.children, j, c)) = Range(p.children) \cup {c}
  BY <1>1, <1>2, InsertAtProperties
<1>5. Len(InsertAt(p.children, j, c)) = Len(InsertAt(p.keys, i, k)) + 1
  BY <1>1, <1>3, <1>4
<1>6. pn = Internal(InsertAt(p.keys, i, k), InsertAt(p.children, j, c))
  BY DEF j
<1>7. /\ pn \in NodeOf(Ids) /\ ShapeOK(pn) /\ ~IsLeaf(pn)
      /\ NodeKids(pn) = NodeKids(p) \cup {c}
  BY <1>1, <1>3, <1>4, <1>5, <1>6, InternalShape
<1>8. KeysLen(pn) = KeysLen(p) + 1
  BY <1>1, <1>3, <1>6 DEF KeysLen, Internal
<1> QED
  BY <1>7, <1>8

-----------------------------------------------------------------------------
(* Where each element of a list comes from.                                 *)

(* Where the elements of a list go when e is put in before position i.      *)
LEMMA InsertAtElements ==
    ASSUME NEW S, NEW s \in Seq(S), NEW e \in S, NEW i \in 1 .. Len(s) + 1
    PROVE  LET t == InsertAt(s, i, e)
           IN  /\ t \in Seq(S)
               /\ Len(t) = Len(s) + 1
               /\ \A j \in 1 .. Len(s) + 1 :
                     t[j] = IF j < i THEN s[j] ELSE IF j = i THEN e ELSE s[j - 1]
<1> DEFINE lower == SubSeq(s, 1, i - 1)
           upper == SubSeq(s, i, Len(s))
           t == InsertAt(s, i, e)
<1>1. Len(s) \in Nat /\ i - 1 \in 0 .. Len(s) /\ i - 1 + 1 = i /\ i \in Nat
  BY LenProperties
<1>2. /\ lower \in Seq(S) /\ upper \in Seq(S)
      /\ Len(lower) = i - 1 /\ Len(upper) = Len(s) - (i - 1)
      /\ \A j \in 1 .. Len(s) - (i - 1) : upper[j] = s[j + (i - 1)]
  BY <1>1, HalvesProperties
<1> DEFINE front == Append(lower, e)
<1>3. t = front \o upper
  BY <1>2, AppendIsConcat DEF InsertAt
<1>4. /\ t \in Seq(S) /\ Len(t) = Len(s) + 1 /\ t[i] = e
      /\ \A j \in 1 .. i - 1 : t[j] = s[j]
  BY InsertAtProperties
<1> HIDE DEF lower, upper, t
<1>5. front \in Seq(S) /\ Len(front) = i
  BY <1>1, <1>2, AppendProperties
<1> HIDE DEF front
<1>6. \A j \in 1 .. Len(upper) : t[Len(front) + j] = upper[j]
  <2>1. \A j \in 1 .. Len(upper) : (front \o upper)[Len(front) + j] = upper[j]
    BY <1>2, <1>5, JoinProperties
  <2> QED
    BY <1>3, <2>1, Zenon
<1>7. ASSUME NEW j \in i + 1 .. Len(s) + 1 PROVE t[j] = s[j - 1]
  <2>1. /\ j - i \in 1 .. Len(s) - (i - 1)
        /\ j - i + (i - 1) = j - 1
        /\ i + (j - i) = j
    BY <1>1
  <2> QED
    BY <1>2, <1>5, <1>6, <2>1
<1>8. ASSUME NEW j \in 1 .. Len(s) + 1
      PROVE  t[j] = IF j < i THEN s[j] ELSE IF j = i THEN e ELSE s[j - 1]
  <2>1. \/ j \in 1 .. i - 1 /\ j < i
        \/ j = i /\ ~(j < i)
        \/ j \in i + 1 .. Len(s) + 1 /\ ~(j < i) /\ j # i
    BY <1>1
  <2> QED
    BY <1>4, <1>7, <2>1
<1> QED
  BY <1>4, <1>8 DEF t

(* Where the elements go when the one at position i is taken out.           *)
LEMMA RemoveAtElements ==
    ASSUME NEW S, NEW s \in Seq(S), NEW i \in 1 .. Len(s)
    PROVE  LET t == RemoveAt(s, i)
           IN  /\ t \in Seq(S)
               /\ Len(t) = Len(s) - 1
               /\ \A j \in 1 .. Len(s) - 1 : t[j] = IF j < i THEN s[j] ELSE s[j + 1]
<1> DEFINE lower == SubSeq(s, 1, i - 1)
           upper == SubSeq(s, i + 1, Len(s))
           t == RemoveAt(s, i)
<1>1. Len(s) \in Nat /\ i \in 0 .. Len(s) /\ i - 1 \in 0 .. Len(s) /\ i \in Nat
  BY LenProperties
<1>2. /\ upper \in Seq(S)
      /\ Len(upper) = Len(s) - i
      /\ \A j \in 1 .. Len(s) - i : upper[j] = s[j + i]
  BY <1>1, HalvesProperties
<1>3. lower \in Seq(S) /\ Len(lower) = i - 1
  BY <1>1, HalvesProperties
<1>4. t = lower \o upper
  BY DEF RemoveAt
<1>5. /\ t \in Seq(S) /\ Len(t) = Len(s) - 1
      /\ \A j \in 1 .. i - 1 : t[j] = s[j]
  BY RemoveAtProperties
<1> HIDE DEF lower, upper, t
<1>6. \A j \in 1 .. Len(upper) : t[Len(lower) + j] = upper[j]
  <2>1. \A j \in 1 .. Len(upper) : (lower \o upper)[Len(lower) + j] = upper[j]
    BY <1>2, <1>3, JoinProperties
  <2> QED
    BY <1>4, <2>1, Zenon
<1>7. ASSUME NEW j \in i .. Len(s) - 1 PROVE t[j] = s[j + 1]
  <2> DEFINE m == j - (i - 1)
  <2>1. /\ m \in 1 .. Len(s) - i
        /\ m + i = j + 1
        /\ (i - 1) + m = j
    BY <1>1
  <2> HIDE DEF m
  <2>2. t[(i - 1) + m] = upper[m] /\ upper[m] = s[m + i]
    BY <1>2, <1>3, <1>6, <2>1
  <2> QED
    BY <2>1, <2>2
<1>8. ASSUME NEW j \in 1 .. Len(s) - 1
      PROVE  t[j] = IF j < i THEN s[j] ELSE s[j + 1]
  <2>1. \/ j \in 1 .. i - 1 /\ j < i
        \/ j \in i .. Len(s) - 1 /\ ~(j < i)
    BY <1>1
  <2> QED
    BY <1>5, <1>7, <2>1
<1> QED
  BY <1>5, <1>8 DEF t

(* Where the elements go when e is put in front.                            *)
LEMMA ConsElements ==
    ASSUME NEW S, NEW s \in Seq(S), NEW e \in S
    PROVE  /\ Cons(e, s) \in Seq(S)
           /\ Len(Cons(e, s)) = Len(s) + 1
           /\ \A j \in 1 .. Len(s) + 1 :
                 Cons(e, s)[j] = IF j = 1 THEN e ELSE s[j - 1]
<1> DEFINE one == <<e>>
<1>1. one \in Seq(S) /\ Len(one) = 1 /\ one[1] = e
  OBVIOUS
<1>2. Cons(e, s) = one \o s
  BY DEF Cons
<1>3. Cons(e, s) \in Seq(S) /\ Len(Cons(e, s)) = Len(s) + 1
  BY ConsProperties
<1> HIDE DEF one
<1>4. /\ \A j \in 1 .. Len(one) : Cons(e, s)[j] = one[j]
      /\ \A j \in 1 .. Len(s) : Cons(e, s)[Len(one) + j] = s[j]
  <2>1. /\ \A j \in 1 .. Len(one) : (one \o s)[j] = one[j]
        /\ \A j \in 1 .. Len(s) : (one \o s)[Len(one) + j] = s[j]
    BY <1>1, JoinProperties, SMTT(30)
  <2> QED
    BY <1>2, <2>1, Zenon
<1>5. ASSUME NEW j \in 1 .. Len(s) + 1
      PROVE  Cons(e, s)[j] = IF j = 1 THEN e ELSE s[j - 1]
  <2>1. \/ j = 1 /\ j \in 1 .. 1
        \/ j # 1 /\ j - 1 \in 1 .. Len(s) /\ 1 + (j - 1) = j
    BY LenProperties
  <2> QED
    BY <1>1, <1>4, <2>1
<1> QED
  BY <1>3, <1>5

(* The elements left when the first one is taken off.                       *)
LEMMA TailElements ==
    ASSUME NEW S, NEW s \in Seq(S), s # <<>>
    PROVE  /\ Tail(s) \in Seq(S)
           /\ Len(Tail(s)) = Len(s) - 1
           /\ \A j \in 1 .. Len(s) - 1 : Tail(s)[j] = s[j + 1]
BY HeadTailProperties

(* The list with another element at position i.                             *)
LEMMA ReplaceAtElements ==
    ASSUME NEW S, NEW s \in Seq(S), NEW i \in 1 .. Len(s), NEW e \in S
    PROVE  /\ ReplaceAt(s, i, e) \in Seq(S)
           /\ Len(ReplaceAt(s, i, e)) = Len(s)
           /\ \A j \in 1 .. Len(s) : ReplaceAt(s, i, e)[j] = IF j = i THEN e ELSE s[j]
BY ExceptSeq, LenProperties DEF ReplaceAt

(* A list with one element more at its end.                                 *)
LEMMA AppendElements ==
    ASSUME NEW S, NEW s \in Seq(S), NEW e \in S
    PROVE  /\ Append(s, e) \in Seq(S)
           /\ Len(Append(s, e)) = Len(s) + 1
           /\ \A j \in 1 .. Len(s) + 1 :
                 Append(s, e)[j] = IF j <= Len(s) THEN s[j] ELSE e
<1>1. /\ Append(s, e) \in Seq(S) /\ Len(Append(s, e)) = Len(s) + 1
      /\ \A j \in 1 .. Len(s) : Append(s, e)[j] = s[j]
      /\ Append(s, e)[Len(s) + 1] = e
  BY AppendProperties
<1>2. \A j \in 1 .. Len(s) + 1 : \/ j \in 1 .. Len(s) /\ j <= Len(s)
                                 \/ j = Len(s) + 1 /\ ~(j <= Len(s))
  BY LenProperties
<1> QED
  BY <1>1, <1>2

-----------------------------------------------------------------------------
(* What each operation of the slab store does to the ids in use and to the  *)
(* nodes behind them.                                                       *)

(* The empty leaf is a node.                                               *)
LEMMA EmptyLeafIsNode == EmptyLeaf \in AnyNode
  BY DEF EmptyLeaf, Leaf, AnyNode, NodeOf

(* Below the id space the conversion to u32 changes nothing.                *)
LEMMA SmallMod ==
    ASSUME NEW m \in Nat, NEW d \in Nat \ {0}, m < d
    PROVE  m % d = m
  OBVIOUS

(* alloc hands out an id that is not in use and adds the node under it; no  *)
(* other id in use is disturbed (store.rs:72-81).                           *)
LEMMA AllocProperties ==
    ASSUME NEW st \in StoreType, StoreOK(st), Room(st), NEW node \in AnyNode
    PROVE  /\ AllocId(st) \in NodeId \ Live(st)
           /\ Alloc(st, node) \in StoreType
           /\ StoreOK(Alloc(st, node))
           /\ Live(Alloc(st, node)) = Live(st) \cup {AllocId(st)}
           /\ Fetch(Alloc(st, node), AllocId(st)) = node
           /\ \A id \in Live(st) : Fetch(Alloc(st, node), id) = Fetch(st, id)
<1> DEFINE n == Len(st.slab)
           new == Alloc(st, node)
<1>1. /\ st.slab \in Seq(AnyNode) /\ st.free \in Seq(NodeId)
      /\ n \in Nat /\ DOMAIN st.slab = 1 .. n
  BY LenProperties DEF StoreType
<1>2. CASE st.free # <<>>
  <2> DEFINE id0 == Last(st.free)
  <2>1. /\ id0 \in NodeId /\ id0 \in Range(st.free)
        /\ Front(st.free) \in Seq(NodeId)
        /\ Range(st.free) = Range(Front(st.free)) \cup {id0}
        /\ IsInjective(Front(st.free)) /\ id0 \notin Range(Front(st.free))
        /\ n <= IdSpace
    BY <1>1, <1>2, PopProperties DEF StoreOK
  <2>2. AllocId(st) = id0 /\ id0 \in 1 .. n
    BY <1>2, <2>1 DEF AllocId, StoreOK
  <2>3. new.slab = [st.slab EXCEPT ![id0] = node] /\ new.free = Front(st.free)
        /\ new = [slab |-> new.slab, free |-> new.free]
    BY <1>2 DEF Alloc
  <2>4. /\ new.slab \in Seq(AnyNode) /\ Len(new.slab) = n
        /\ \A id \in 1 .. n : new.slab[id] = IF id = id0 THEN node ELSE st.slab[id]
    BY <1>1, <2>2, <2>3, ExceptSeq
  <2>5. new \in StoreType
    BY <2>1, <2>3, <2>4 DEF StoreType
  <2>6. StoreOK(new)
    BY <2>1, <2>3, <2>4 DEF StoreOK
  <2>7. Live(new) = Live(st) \cup {id0} /\ id0 \notin Live(st)
    BY <2>1, <2>2, <2>3, <2>4 DEF Live
  <2> HIDE DEF id0, new
  <2> QED
    BY <2>1, <2>2, <2>4, <2>5, <2>6, <2>7 DEF Live, Fetch, new
<1>3. CASE st.free = <<>>
  <2>1. n < IdSpace /\ AllocId(st) = n + 1
    <3>1. n < IdSpace /\ AllocId(st) = (n % IdSpace) + 1
      BY <1>3 DEF Room, AllocId
    <3>2. n % IdSpace = n
      BY <1>1, <3>1, IdSpaceAssumption, SmallMod
    <3> QED
      BY <3>1, <3>2
  <2>2. new.slab = Append(st.slab, node) /\ new.free = <<>>
        /\ new = [slab |-> new.slab, free |-> new.free]
    BY <1>3 DEF Alloc
  <2>3. /\ new.slab \in Seq(AnyNode) /\ Len(new.slab) = n + 1
        /\ \A id \in 1 .. n : new.slab[id] = st.slab[id]
        /\ new.slab[n + 1] = node
    BY <1>1, <2>2, AppendProperties
  <2>4. new \in StoreType
    BY <2>2, <2>3, <1>1, <1>3 DEF StoreType
  <2>5. Range(<<>>) = {}
    BY DEF Range
  <2>6. StoreOK(new)
    BY <1>1, <1>3, <2>1, <2>2, <2>3, <2>5, IdSpaceAssumption DEF StoreOK, IsInjective
  <2>7. Live(st) = 1 .. n /\ Live(new) = 1 .. n + 1
    BY <1>3, <2>2, <2>3, <2>5 DEF Live
  <2> HIDE DEF new
  <2> QED
    BY <1>1, <2>1, <2>3, <2>4, <2>6, <2>7, IdSpaceAssumption DEF Fetch, NodeId, new
<1> QED
  BY <1>2, <1>3

(* reclaim takes the id out of use; the others keep their nodes, and it     *)
(* waits on the free list once (store.rs:83-89).                            *)
LEMMA ReclaimProperties ==
    ASSUME NEW st \in StoreType, StoreOK(st), NEW id \in Live(st),
           EmptyLeaf \in AnyNode
    PROVE  /\ Reclaim(st, id) \in StoreType
           /\ StoreOK(Reclaim(st, id))
           /\ Live(Reclaim(st, id)) = Live(st) \ {id}
           /\ \A other \in Live(st) \ {id} : Fetch(Reclaim(st, id), other) = Fetch(st, other)
           /\ Fetch(Reclaim(st, id), id) = EmptyLeaf
<1> DEFINE n == Len(st.slab)
           new == Reclaim(st, id)
<1>1. /\ st.slab \in Seq(AnyNode) /\ st.free \in Seq(NodeId)
      /\ n \in Nat /\ id \in 1 .. n /\ id \notin Range(st.free)
  BY LenProperties DEF StoreType, Live
<1>2. /\ new.slab = [st.slab EXCEPT ![id] = EmptyLeaf]
      /\ new.free = Append(st.free, id)
      /\ new = [slab |-> new.slab, free |-> new.free]
  BY DEF Reclaim
<1>3. /\ new.slab \in Seq(AnyNode) /\ Len(new.slab) = n
      /\ \A j \in 1 .. n : new.slab[j] = IF j = id THEN EmptyLeaf ELSE st.slab[j]
  BY <1>1, <1>2, ExceptSeq
<1>4. /\ new.free \in Seq(NodeId)
      /\ Range(new.free) = Range(st.free) \cup {id}
      /\ IsInjective(new.free)
  <2>1. id \in NodeId
    BY <1>1, IdSpaceAssumption DEF StoreOK, NodeId
  <2> QED
    BY <1>1, <1>2, <2>1, PushProperties DEF StoreOK
<1>5. new \in StoreType
  BY <1>2, <1>3, <1>4 DEF StoreType
<1>6. StoreOK(new)
  BY <1>1, <1>3, <1>4 DEF StoreOK
<1>7. Live(new) = Live(st) \ {id}
  BY <1>3, <1>4 DEF Live
<1> HIDE DEF new
<1> QED
  BY <1>1, <1>3, <1>5, <1>6, <1>7 DEF Fetch, Live, new

(* An id in use is an id, it is not on the free list, it has a node.        *)
LEMMA LiveProperties ==
    ASSUME NEW st \in StoreType, StoreOK(st), NEW id \in Live(st)
    PROVE  /\ id \in NodeId
           /\ id \notin Range(st.free)
           /\ Fetch(st, id) \in AnyNode
<1>1. st.slab \in Seq(AnyNode) /\ id \in 1 .. Len(st.slab) /\ Len(st.slab) \in Nat
  BY LenProperties DEF StoreType, Live
<1> QED
  BY <1>1, ElementOfSeq, IdSpaceAssumption DEF StoreOK, Live, Fetch, NodeId

(* A write through get_mut changes the node of one id and no more.          *)
LEMMA WriteProperties ==
    ASSUME NEW st \in StoreType, NEW id \in Live(st), NEW node \in AnyNode
    PROVE  /\ Write(st, id, node) \in StoreType
           /\ StoreOK(st) => StoreOK(Write(st, id, node))
           /\ Live(Write(st, id, node)) = Live(st)
           /\ Room(st) => Room(Write(st, id, node))
           /\ AllocId(Write(st, id, node)) = AllocId(st)
           /\ \A j \in Live(st) :
                 Fetch(Write(st, id, node), j) = IF j = id THEN node ELSE Fetch(st, j)
<1> DEFINE n == Len(st.slab)
           new == Write(st, id, node)
<1>1. /\ st.slab \in Seq(AnyNode) /\ st.free \in Seq(NodeId)
      /\ n \in Nat /\ id \in 1 .. n
  BY LenProperties DEF StoreType, Live
<1>2. /\ new.slab = [st.slab EXCEPT ![id] = node] /\ new.free = st.free
      /\ new = [slab |-> new.slab, free |-> new.free]
  BY DEF Write
<1>3. /\ new.slab \in Seq(AnyNode) /\ Len(new.slab) = n
      /\ \A j \in 1 .. n : new.slab[j] = IF j = id THEN node ELSE st.slab[j]
  BY <1>1, <1>2, ExceptSeq
<1>4. new \in StoreType
  BY <1>1, <1>2, <1>3 DEF StoreType
<1>5. StoreOK(st) => StoreOK(new)
  BY <1>2, <1>3 DEF StoreOK
<1>6. Live(new) = Live(st)
  BY <1>2, <1>3 DEF Live
<1>7. (Room(st) => Room(new)) /\ AllocId(new) = AllocId(st)
  BY <1>2, <1>3 DEF Room, AllocId
<1> HIDE DEF new
<1> QED
  BY <1>3, <1>4, <1>5, <1>6, <1>7 DEF Fetch, Live, new

(* A reset store holds one empty leaf, under the first id.                  *)
LEMMA ResetProperties ==
    ASSUME EmptyLeaf \in AnyNode
    PROVE  /\ AllocId(EmptyStore) = 1
           /\ ResetStore = [slab |-> <<EmptyLeaf>>, free |-> <<>>]
           /\ ResetStore \in StoreType
           /\ StoreOK(ResetStore)
           /\ Live(ResetStore) = {1}
           /\ 1 \in NodeId
           /\ Fetch(ResetStore, 1) = EmptyLeaf
<1>1. AllocId(EmptyStore) = 1 /\ 1 \in NodeId
  BY IdSpaceAssumption DEF AllocId, EmptyStore, NodeId
<1>2. ResetStore = [slab |-> <<EmptyLeaf>>, free |-> <<>>]
  BY DEF ResetStore, Alloc, EmptyStore
<1>3. Range(<<>>) = {}
  BY DEF Range
<1>4. ResetStore \in StoreType
  BY <1>2 DEF StoreType
<1>5. StoreOK(ResetStore)
  BY <1>2, <1>3, IdSpaceAssumption DEF StoreOK, IsInjective
<1>6. Live(ResetStore) = {1}
  BY <1>2, <1>3 DEF Live
<1>7. Fetch(ResetStore, 1) = EmptyLeaf
  BY <1>2 DEF Fetch
<1> QED
  BY <1>1, <1>2, <1>4, <1>5, <1>6, <1>7

-----------------------------------------------------------------------------
(* What it takes for the nodes of a store to form a tree, and what          *)
(* replacing some of them does to it.                                       *)

Kids(st, id) == NodeKids(Fetch(st, id))

Links(st, P) == UNION {Kids(st, p) : p \in P}

(* Each id in use is linked from one node, except tops, linked from none.   *)
Linked(st, tops) ==
    /\ tops \subseteq Live(st)
    /\ \A p \in Live(st) : Kids(st, p) \subseteq Live(st) \ tops
    /\ \A p, q \in Live(st) : p # q => Kids(st, p) \cap Kids(st, q) = {}
    /\ Live(st) \subseteq tops \cup Links(st, Live(st))

(* lv counts levels up from the leaves, one at each link.                   *)
GradedAt(st, lv, id) ==
    /\ IsLeaf(Fetch(st, id)) <=> lv[id] = 0
    /\ \A c \in Kids(st, id) : lv[c] + 1 = lv[id]

TreeOK(st, tops, lv) ==
    /\ st \in StoreType
    /\ StoreOK(st)
    /\ lv \in [Live(st) -> Nat]
    /\ Linked(st, tops)
    /\ \A id \in Live(st) : ShapeOK(Fetch(st, id)) /\ GradedAt(st, lv, id)

(* Only the nodes of D change, and what they and the new tops link is what  *)
(* the old tops and the nodes changed or given up linked, plus the new ids  *)
(* and less those given up.                                                 *)
Relinked(st, tops, lv, new, newTops, newLv, D) ==
    LET given == Live(st) \ Live(new)
        added == Live(new) \ Live(st)
        loose == tops \cup Links(st, Live(st) \ (Live(new) \ D))
    IN  /\ new \in StoreType /\ StoreOK(new)
        /\ newLv \in [Live(new) -> Nat]
        /\ D \subseteq Live(new)
        /\ \A id \in Live(new) \ D : id \in Live(st) /\ Fetch(new, id) = Fetch(st, id)
        /\ \A id \in Live(new) \cap Live(st) : newLv[id] = lv[id]
        /\ \A id \in D : ShapeOK(Fetch(new, id)) /\ GradedAt(new, newLv, id)
        /\ \A p, q \in D : p # q => Kids(new, p) \cap Kids(new, q) = {}
        /\ newTops \cap Links(new, D) = {}
        /\ given \subseteq loose
        /\ newTops \cup Links(new, D) = (loose \cup added) \ given

(* Then the store still holds a tree.                                       *)
LEMMA Relink ==
    ASSUME NEW st, NEW tops, NEW lv, TreeOK(st, tops, lv),
           NEW new, NEW newTops, NEW newLv, NEW D,
           Relinked(st, tops, lv, new, newTops, newLv, D)
    PROVE  TreeOK(new, newTops, newLv)
<1> USE DEF Relinked
<1> DEFINE Pool == tops \cup Links(st, Live(st) \ (Live(new) \ D))
           U == Live(new) \ D
           L == Live(st)
           M == Live(new)
<1>1. /\ Linked(st, tops)
      /\ \A id \in L : ShapeOK(Fetch(st, id)) /\ GradedAt(st, lv, id)
  BY DEF TreeOK
<1>2. /\ U \subseteq L /\ U \subseteq M
      /\ \A u \in U : Fetch(new, u) = Fetch(st, u) /\ Kids(new, u) = Kids(st, u)
  BY DEF Kids
<1>3. Pool \subseteq L
  BY <1>1 DEF Linked, Links
<1>4. \A u \in U : Kids(st, u) \cap Pool = {} /\ Kids(st, u) \subseteq L
  BY <1>1, <1>2 DEF Linked, Links
<1>5. \A u \in U : Kids(st, u) \subseteq M /\ Kids(st, u) \cap (newTops \cup Links(new, D)) = {}
  BY <1>2, <1>4
<1>6. newTops \cup Links(new, D) \subseteq M
  BY <1>3
<1>7. ASSUME NEW p \in M PROVE Kids(new, p) \subseteq M \ newTops
  <2>1. CASE p \in D
    BY <1>6, <2>1 DEF Links
  <2>2. CASE p \in U
    BY <1>2, <1>5, <2>2
  <2> QED
    BY <2>1, <2>2
<1>8. ASSUME NEW p \in M, NEW q \in M, p # q PROVE Kids(new, p) \cap Kids(new, q) = {}
  <2>1. CASE p \in D /\ q \in D
    BY <1>8, <2>1
  <2>2. CASE p \in D /\ q \in U
    BY <1>2, <1>5, <2>2 DEF Links
  <2>3. CASE p \in U /\ q \in D
    BY <1>2, <1>5, <2>3 DEF Links
  <2>4. CASE p \in U /\ q \in U
    BY <1>1, <1>2, <1>8, <2>4 DEF Linked
  <2> QED
    BY <2>1, <2>2, <2>3, <2>4
<1>9. ASSUME NEW id \in M, id \notin newTops PROVE id \in Links(new, M)
  <2>1. CASE id \in Links(new, D)
    BY <2>1 DEF Links
  <2>2. CASE id \notin Links(new, D)
    <3>1. id \in L /\ id \notin Pool
      BY <1>9, <2>2
    <3>2. PICK p \in L : id \in Kids(st, p)
      BY <1>1, <3>1 DEF Linked, Links
    <3>3. p \in U
      BY <3>1, <3>2 DEF Links
    <3> QED
      BY <1>2, <3>2, <3>3 DEF Links
  <2> QED
    BY <2>1, <2>2
<1>10. Linked(new, newTops)
  BY <1>6, <1>7, <1>8, <1>9 DEF Linked
<1>11. ASSUME NEW id \in M PROVE ShapeOK(Fetch(new, id)) /\ GradedAt(new, newLv, id)
  <2>1. CASE id \in D
    BY <2>1
  <2>2. CASE id \in U
    <3>1. \A c \in Kids(new, id) : c \in L /\ c \in M /\ newLv[c] = lv[c]
      BY <1>2, <1>4, <1>5, <2>2
    <3>2. newLv[id] = lv[id] /\ Fetch(new, id) = Fetch(st, id) /\ Kids(new, id) = Kids(st, id)
      BY <1>2, <2>2
    <3>3. ShapeOK(Fetch(st, id)) /\ GradedAt(st, lv, id)
      BY <1>1, <1>2, <2>2
    <3> QED
      BY <3>1, <3>2, <3>3 DEF GradedAt
  <2> QED
    BY <2>1, <2>2
<1> QED
  BY <1>10, <1>11 DEF TreeOK

(* In a tree, what links a node is one level up, and is not the node.       *)
LEMMA TreeFacts ==
    ASSUME NEW st, NEW tops, NEW lv, TreeOK(st, tops, lv), NEW id \in Live(st)
    PROVE  /\ Fetch(st, id) \in AnyNode
           /\ ShapeOK(Fetch(st, id))
           /\ lv[id] \in Nat
           /\ IsLeaf(Fetch(st, id)) <=> lv[id] = 0
           /\ Kids(st, id) \subseteq Live(st) \ tops
           /\ \A c \in Kids(st, id) : lv[c] + 1 = lv[id]
           /\ id \notin Kids(st, id)
           /\ tops \subseteq Live(st)
<1>1. Fetch(st, id) \in AnyNode
  BY LiveProperties DEF TreeOK
<1>2. /\ ShapeOK(Fetch(st, id)) /\ lv[id] \in Nat
      /\ IsLeaf(Fetch(st, id)) <=> lv[id] = 0
      /\ \A c \in Kids(st, id) : lv[c] + 1 = lv[id]
      /\ Kids(st, id) \subseteq Live(st) \ tops
      /\ tops \subseteq Live(st)
  BY DEF TreeOK, GradedAt, Linked
<1>3. id \notin Kids(st, id)
  <2>1. lv[id] + 1 # lv[id]
    BY <1>2
  <2> QED
    BY <1>2, <2>1
<1> QED
  BY <1>1, <1>2, <1>3

(* A node is replaced by one of its kind that links the ids of Q as well,   *)
(* which nothing linked.                                                    *)
LEMMA ReplaceNode ==
    ASSUME NEW st, NEW tops, NEW lv, TreeOK(st, tops, lv),
           NEW id \in Live(st), NEW node \in AnyNode, ShapeOK(node),
           IsLeaf(node) <=> IsLeaf(Fetch(st, id)),
           NEW Q \in SUBSET tops, \A q \in Q : lv[q] + 1 = lv[id],
           NodeKids(node) = Kids(st, id) \cup Q
    PROVE  TreeOK(Write(st, id, node), tops \ Q, lv)
<1> DEFINE new == Write(st, id, node)
           D == {id}
<1>1. st \in StoreType /\ StoreOK(st) /\ lv \in [Live(st) -> Nat]
  BY DEF TreeOK
<1>2. /\ new \in StoreType /\ StoreOK(new) /\ Live(new) = Live(st)
      /\ \A j \in Live(st) : Fetch(new, j) = IF j = id THEN node ELSE Fetch(st, j)
  BY <1>1, WriteProperties
<1> HIDE DEF new
<1>3. /\ \A j \in Live(new) \ D : j \in Live(st) /\ Fetch(new, j) = Fetch(st, j)
      /\ Fetch(new, id) = node /\ Kids(new, id) = Kids(st, id) \cup Q
      /\ Links(new, D) = Kids(st, id) \cup Q
      /\ Links(st, Live(st) \ (Live(new) \ D)) = Kids(st, id)
  BY <1>2 DEF Kids, Links
<1>4. /\ Kids(st, id) \subseteq Live(st) \ tops /\ tops \subseteq Live(st)
      /\ \A c \in Kids(st, id) : lv[c] + 1 = lv[id]
      /\ IsLeaf(Fetch(st, id)) <=> lv[id] = 0
  BY TreeFacts
<1>5. GradedAt(new, lv, id)
  BY <1>3, <1>4 DEF GradedAt
<1>6. /\ D \in SUBSET Live(new)
      /\ lv \in [Live(new) -> Nat]
      /\ \A j \in Live(new) \cap Live(st) : lv[j] = lv[j]
      /\ \A j \in D : ShapeOK(Fetch(new, j)) /\ GradedAt(new, lv, j)
      /\ \A p, q \in D : p # q => Kids(new, p) \cap Kids(new, q) = {}
  BY <1>1, <1>2, <1>3, <1>5
<1>7. /\ (tops \ Q) \cap Links(new, D) = {}
      /\ Live(st) \ Live(new) \subseteq tops \cup Links(st, Live(st) \ (Live(new) \ D))
      /\ (tops \ Q) \cup Links(new, D)
            = (tops \cup Links(st, Live(st) \ (Live(new) \ D)) \cup (Live(new) \ Live(st)))
              \ (Live(st) \ Live(new))
  BY <1>2, <1>3, <1>4
<1> HIDE DEF D
<1>8. Relinked(st, tops, lv, new, tops \ Q, lv, D)
  BY <1>2, <1>3, <1>6, <1>7 DEF Relinked
<1>9. TreeOK(new, tops \ Q, lv)
  BY <1>8, Relink
<1> QED
  BY <1>9 DEF new

(* A node is replaced by two of its kind, the second under a new id that    *)
(* nothing links yet; between them they link what it did and the ids of Q.  *)
Splits(st, tops, lv, id, lower, upper, Q, new, newTops, r) ==
    /\ TreeOK(st, tops, lv) /\ Room(st)
    /\ id \in Live(st)
    /\ lower \in AnyNode /\ upper \in AnyNode
    /\ ShapeOK(lower) /\ ShapeOK(upper)
    /\ IsLeaf(lower) <=> IsLeaf(Fetch(st, id))
    /\ IsLeaf(upper) <=> IsLeaf(Fetch(st, id))
    /\ Q \subseteq tops
    /\ \A q \in Q : lv[q] + 1 = lv[id]
    /\ NodeKids(lower) \cup NodeKids(upper) = Kids(st, id) \cup Q
    /\ NodeKids(lower) \cap NodeKids(upper) = {}
    /\ new = Alloc(Write(st, id, lower), upper)
    /\ r = AllocId(st)
    /\ newTops = (tops \ Q) \cup {r}

(* What a step does to a tree: a node split,                                *)
LEMMA SplitNode ==
    ASSUME NEW st, NEW tops, NEW lv, NEW id, NEW lower, NEW upper, NEW Q, NEW new,
           NEW newTops, NEW r, Splits(st, tops, lv, id, lower, upper, Q, new, newTops, r)
    PROVE  /\ r \notin Live(st)
           /\ Live(new) = Live(st) \cup {r}
           /\ \A j \in Live(st) \ {id} : Fetch(new, j) = Fetch(st, j)
           /\ \E newLv : /\ TreeOK(new, newTops, newLv)
                         /\ newLv[r] = lv[id]
                         /\ \A j \in Live(st) : newLv[j] = lv[j]
<1> USE DEF Splits
<1> DEFINE mid == Write(st, id, lower)
           D == {id, r}
           newLv == [j \in Live(new) |-> IF j = r THEN lv[id] ELSE lv[j]]
<1>1. st \in StoreType /\ StoreOK(st) /\ lv \in [Live(st) -> Nat]
  BY DEF TreeOK
<1>2. /\ mid \in StoreType /\ StoreOK(mid) /\ Live(mid) = Live(st)
      /\ Room(mid) /\ AllocId(mid) = AllocId(st)
      /\ \A j \in Live(st) : Fetch(mid, j) = IF j = id THEN lower ELSE Fetch(st, j)
  BY <1>1, WriteProperties
<1>3. new = Alloc(mid, upper)
  OBVIOUS
<1> HIDE DEF mid
<1>4. /\ r \notin Live(st)
      /\ new \in StoreType /\ StoreOK(new)
      /\ Live(new) = Live(st) \cup {r}
      /\ Fetch(new, r) = upper
      /\ \A j \in Live(st) : Fetch(new, j) = Fetch(mid, j)
  <2>1. /\ AllocId(mid) \in NodeId \ Live(mid)
        /\ Alloc(mid, upper) \in StoreType
        /\ StoreOK(Alloc(mid, upper))
        /\ Live(Alloc(mid, upper)) = Live(mid) \cup {AllocId(mid)}
        /\ Fetch(Alloc(mid, upper), AllocId(mid)) = upper
        /\ \A j \in Live(mid) : Fetch(Alloc(mid, upper), j) = Fetch(mid, j)
    BY <1>2, AllocProperties
  <2>2. r = AllocId(mid)
    BY <1>2
  <2> QED
    BY <1>2, <1>3, <2>1, <2>2, Zenon
<1>5. /\ \A j \in Live(st) \ {id} : Fetch(new, j) = Fetch(st, j)
      /\ Fetch(new, id) = lower
      /\ Kids(new, id) = NodeKids(lower) /\ Kids(new, r) = NodeKids(upper)
      /\ id # r
  BY <1>2, <1>4 DEF Kids
<1>6. Links(new, D) = Kids(st, id) \cup Q
  BY <1>5 DEF Links
<1>7. Links(st, Live(st) \ (Live(new) \ D)) = Kids(st, id)
  <2>1. Live(st) \ (Live(new) \ D) = {id}
    BY <1>4
  <2> QED
    BY <2>1 DEF Links
<1>8. /\ Kids(st, id) \subseteq Live(st) \ tops /\ tops \subseteq Live(st)
      /\ \A c \in Kids(st, id) : lv[c] + 1 = lv[id]
      /\ lv[id] \in Nat
      /\ IsLeaf(Fetch(st, id)) <=> lv[id] = 0
  BY TreeFacts
<1>9. /\ newLv \in [Live(new) -> Nat]
      /\ newLv[r] = lv[id] /\ \A j \in Live(st) : newLv[j] = lv[j]
  BY <1>1, <1>4, <1>8
<1> HIDE DEF newLv
<1>10. GradedAt(new, newLv, id) /\ GradedAt(new, newLv, r)
  <2>1. \A c \in NodeKids(lower) \cup NodeKids(upper) : newLv[c] + 1 = lv[id]
    BY <1>8, <1>9
  <2> QED
    BY <1>4, <1>5, <1>8, <1>9, <2>1 DEF GradedAt
<1>11. /\ D \in SUBSET Live(new)
       /\ \A j \in Live(new) \ D : j \in Live(st) /\ Fetch(new, j) = Fetch(st, j)
       /\ \A j \in Live(new) \cap Live(st) : newLv[j] = lv[j]
       /\ \A j \in D : ShapeOK(Fetch(new, j)) /\ GradedAt(new, newLv, j)
       /\ \A p, q \in D : p # q => Kids(new, p) \cap Kids(new, q) = {}
  BY <1>4, <1>5, <1>9, <1>10
<1>12. /\ newTops \cap Links(new, D) = {}
       /\ Live(st) \ Live(new) \subseteq tops \cup Links(st, Live(st) \ (Live(new) \ D))
       /\ newTops \cup Links(new, D)
             = (tops \cup Links(st, Live(st) \ (Live(new) \ D)) \cup (Live(new) \ Live(st)))
               \ (Live(st) \ Live(new))
  <2> DEFINE K == Kids(st, id)
             L == Live(st)
  <2>1. /\ Live(new) \ L = {r} /\ L \ Live(new) = {}
        /\ Links(st, L \ (Live(new) \ D)) = K /\ Links(new, D) = K \cup Q
    BY <1>4, <1>6, <1>7
  <2>2. r \notin L /\ K \subseteq L \ tops /\ tops \subseteq L
    BY <1>4, <1>8
  <2> HIDE DEF K, L, D
  <2>3. ((tops \ Q) \cup {r}) \cap (K \cup Q) = {}
    BY <2>2
  <2>4. ((tops \ Q) \cup {r}) \cup (K \cup Q) = (tops \cup K \cup {r}) \ {}
    OBVIOUS
  <2> QED
    BY <2>1, <2>3, <2>4 DEF L
<1> HIDE DEF D
<1>13. Relinked(st, tops, lv, new, newTops, newLv, D)
  BY <1>4, <1>9, <1>11, <1>12 DEF Relinked
<1>14. TreeOK(new, newTops, newLv)
  BY <1>13, Relink
<1> QED
  BY <1>4, <1>5, <1>9, <1>14

(* An assignment of something to nodes, extended by a new node.             *)
Extended(f, r, x) == [j \in DOMAIN f \cup {r} |-> IF j = r THEN x ELSE f[j]]

(* A new node is put above some of the tops, or beside them all.            *)
Plants(st, tops, lv, node, n, new, r, newTops) ==
    /\ TreeOK(st, tops, lv) /\ Room(st)
    /\ node \in AnyNode /\ ShapeOK(node)
    /\ n \in Nat
    /\ IsLeaf(node) <=> n = 0
    /\ NodeKids(node) \subseteq tops
    /\ \A t \in NodeKids(node) : lv[t] + 1 = n
    /\ new = Alloc(st, node)
    /\ r = AllocId(st)
    /\ newTops = (tops \ NodeKids(node)) \cup {r}

(* a node grown above others,                                               *)
LEMMA PlantNode ==
    ASSUME NEW st, NEW tops, NEW lv, NEW node, NEW n, NEW new, NEW r, NEW newTops,
           Plants(st, tops, lv, node, n, new, r, newTops)
    PROVE  /\ r \notin Live(st)
           /\ Live(new) = Live(st) \cup {r}
           /\ TreeOK(new, newTops, Extended(lv, r, n))
<1> DEFINE D == {r}
           newLv == Extended(lv, r, n)
           kids == NodeKids(node)
<1>1. /\ st \in StoreType /\ StoreOK(st) /\ lv \in [Live(st) -> Nat]
      /\ tops \subseteq Live(st) /\ kids \subseteq tops
  BY DEF TreeOK, Linked, Plants
<1>2. /\ r \notin Live(st)
      /\ new \in StoreType /\ StoreOK(new)
      /\ Live(new) = Live(st) \cup {r}
      /\ Fetch(new, r) = node
      /\ \A j \in Live(st) : Fetch(new, j) = Fetch(st, j)
  BY <1>1, AllocProperties DEF Plants
<1>3. Links(new, D) = kids /\ Kids(new, r) = kids
  BY <1>2 DEF Links, Kids
<1>4. Links(st, Live(st) \ (Live(new) \ D)) = {}
  BY <1>2 DEF Links
<1>5. /\ newLv \in [Live(new) -> Nat]
      /\ newLv[r] = n /\ \A j \in Live(st) : newLv[j] = lv[j]
  <2>1. n \in Nat /\ lv \in [Live(st) -> Nat] /\ r \notin Live(st)
    BY <1>1, <1>2 DEF Plants
  <2> HIDE DEF newLv
  <2>2. /\ newLv \in [Live(st) \cup {r} -> Nat]
        /\ newLv[r] = n /\ \A j \in Live(st) : newLv[j] = lv[j]
    BY <2>1 DEF newLv, Extended
  <2> QED
    BY <1>2, <2>2
<1> HIDE DEF newLv
<1>6. GradedAt(new, newLv, r)
  <2>1. \A c \in kids : newLv[c] + 1 = newLv[r]
    BY <1>1, <1>5 DEF Plants
  <2> QED
    BY <1>2, <1>3, <1>5, <2>1 DEF GradedAt, Plants
<1>7. /\ D \in SUBSET Live(new)
      /\ \A j \in Live(new) \ D : j \in Live(st) /\ Fetch(new, j) = Fetch(st, j)
      /\ \A j \in Live(new) \cap Live(st) : newLv[j] = lv[j]
      /\ \A j \in D : ShapeOK(Fetch(new, j)) /\ GradedAt(new, newLv, j)
      /\ \A p, q \in D : p # q => Kids(new, p) \cap Kids(new, q) = {}
  BY <1>2, <1>5, <1>6 DEF Plants
<1>8. /\ newTops \cap Links(new, D) = {}
      /\ Live(st) \ Live(new) \subseteq tops \cup Links(st, Live(st) \ (Live(new) \ D))
      /\ newTops \cup Links(new, D)
            = (tops \cup Links(st, Live(st) \ (Live(new) \ D)) \cup (Live(new) \ Live(st)))
              \ (Live(st) \ Live(new))
  <2>1. newTops = (tops \ kids) \cup {r}
    BY DEF Plants
  <2> HIDE DEF kids
  <2> QED
    BY <1>1, <1>2, <1>3, <1>4, <2>1
<1> HIDE DEF D
<1>9. Relinked(st, tops, lv, new, newTops, newLv, D)
  BY <1>2, <1>5, <1>7, <1>8 DEF Relinked
<1>10. TreeOK(new, newTops, newLv)
  BY <1>9, Relink DEF Plants
<1> QED
  BY <1>2, <1>10 DEF newLv

(* A new node is put above all that nothing linked.                         *)
LEMMA GrowNode ==
    ASSUME NEW st, NEW tops, NEW lv, TreeOK(st, tops, lv), Room(st),
           NEW node \in AnyNode, ShapeOK(node), ~IsLeaf(node), NodeKids(node) = tops,
           NEW root \in tops, \A t \in tops : lv[t] = lv[root],
           NEW new, new = Alloc(st, node), NEW r, r = AllocId(st),
           NEW newTops, newTops = {r}
    PROVE  /\ Live(new) = Live(st) \cup {r}
           /\ \E newLv : TreeOK(new, newTops, newLv)
<1> DEFINE n == lv[root] + 1
<1>1. lv[root] \in Nat
  BY DEF TreeOK, Linked
<1>2. n \in Nat /\ n # 0 /\ \A t \in tops : lv[t] + 1 = n
  BY <1>1
<1>3. newTops = (tops \ NodeKids(node)) \cup {r}
  OBVIOUS
<1> HIDE DEF n
<1>4. Plants(st, tops, lv, node, n, new, r, newTops)
  BY <1>2, <1>3 DEF Plants
<1> QED
  BY <1>4, PlantNode

(* Two nodes of the same kind and their parent are replaced; between them   *)
(* the two link what they linked before, the parent links what it did.      *)
Exchanges(st, tops, lv, p, a, b, an, bn, pn, new) ==
    /\ TreeOK(st, tops, lv)
    /\ p \in Live(st) /\ a \in Kids(st, p) /\ b \in Kids(st, p) /\ a # b
    /\ an \in AnyNode /\ bn \in AnyNode /\ pn \in AnyNode
    /\ ShapeOK(an) /\ ShapeOK(bn) /\ ShapeOK(pn)
    /\ IsLeaf(an) <=> IsLeaf(Fetch(st, a))
    /\ IsLeaf(bn) <=> IsLeaf(Fetch(st, b))
    /\ ~IsLeaf(pn)
    /\ NodeKids(pn) = Kids(st, p)
    /\ NodeKids(an) \cup NodeKids(bn) = Kids(st, a) \cup Kids(st, b)
    /\ NodeKids(an) \cap NodeKids(bn) = {}
    /\ new = Write(Write(Write(st, a, an), b, bn), p, pn)

(* children exchanged between two nodes,                                    *)
LEMMA ExchangeNodes ==
    ASSUME NEW st, NEW tops, NEW lv, NEW p, NEW a, NEW b, NEW an, NEW bn, NEW pn, NEW new,
           Exchanges(st, tops, lv, p, a, b, an, bn, pn, new)
    PROVE  /\ Live(new) = Live(st)
           /\ \A j \in Live(st) \ {a, b, p} : Fetch(new, j) = Fetch(st, j)
           /\ TreeOK(new, tops, lv)
<1> USE DEF Exchanges
<1> DEFINE one == Write(st, a, an)
           two == Write(one, b, bn)
           D == {a, b, p}
<1>1. st \in StoreType /\ StoreOK(st) /\ lv \in [Live(st) -> Nat]
  BY DEF TreeOK
<1>2. /\ Kids(st, p) \subseteq Live(st) \ tops /\ tops \subseteq Live(st)
      /\ lv[p] \in Nat
      /\ \A c \in Kids(st, p) : lv[c] + 1 = lv[p]
      /\ p \notin Kids(st, p)
      /\ IsLeaf(Fetch(st, p)) <=> lv[p] = 0
  BY TreeFacts
<1>3. a \in Live(st) /\ b \in Live(st) /\ a # p /\ b # p
  BY <1>2
<1>4. /\ one \in StoreType /\ StoreOK(one) /\ Live(one) = Live(st)
      /\ \A j \in Live(st) : Fetch(one, j) = IF j = a THEN an ELSE Fetch(st, j)
  BY <1>1, <1>3, WriteProperties
<1>5. two = Write(one, b, bn) /\ new = Write(two, p, pn)
  OBVIOUS
<1> HIDE DEF one, two
<1>6. /\ two \in StoreType /\ StoreOK(two) /\ Live(two) = Live(st)
      /\ \A j \in Live(st) : Fetch(two, j) = IF j = b THEN bn ELSE Fetch(one, j)
  BY <1>3, <1>4, <1>5, WriteProperties
<1>7. /\ new \in StoreType /\ StoreOK(new) /\ Live(new) = Live(st)
      /\ \A j \in Live(st) : Fetch(new, j) = IF j = p THEN pn ELSE Fetch(two, j)
  BY <1>3, <1>5, <1>6, WriteProperties
<1>8. /\ Fetch(new, a) = an /\ Fetch(new, b) = bn /\ Fetch(new, p) = pn
      /\ \A j \in Live(st) \ D : Fetch(new, j) = Fetch(st, j)
  BY <1>3, <1>4, <1>6, <1>7
<1>9. Kids(new, a) = NodeKids(an) /\ Kids(new, b) = NodeKids(bn) /\ Kids(new, p) = Kids(st, p)
  BY <1>8 DEF Kids
<1>10. /\ Kids(st, a) \subseteq Live(st) \ tops /\ Kids(st, b) \subseteq Live(st) \ tops
       /\ \A c \in Kids(st, a) : lv[c] + 1 = lv[a]
       /\ \A c \in Kids(st, b) : lv[c] + 1 = lv[b]
       /\ IsLeaf(Fetch(st, a)) <=> lv[a] = 0
       /\ IsLeaf(Fetch(st, b)) <=> lv[b] = 0
  BY <1>3, TreeFacts
<1>11. lv[a] = lv[b] /\ lv[a] \in Nat /\ lv[b] \in Nat
  BY <1>1, <1>2, <1>3
<1>12. /\ Kids(st, a) \cap Kids(st, p) = {} /\ Kids(st, b) \cap Kids(st, p) = {}
  BY <1>3 DEF TreeOK, Linked
<1>13. \A j \in D : ShapeOK(Fetch(new, j)) /\ GradedAt(new, lv, j)
  <2>1. GradedAt(new, lv, a) /\ GradedAt(new, lv, b)
    BY <1>8, <1>9, <1>10, <1>11 DEF GradedAt
  <2>2. ~IsLeaf(Fetch(st, p))
    BY DEF Kids, NodeKids
  <2>3. GradedAt(new, lv, p)
    BY <1>2, <1>8, <1>9, <2>2 DEF GradedAt
  <2> QED
    BY <1>8, <2>1, <2>3
<1>14. \A x, y \in D : x # y => Kids(new, x) \cap Kids(new, y) = {}
  BY <1>9, <1>12
<1> DEFINE K == Kids(st, p) \cup Kids(st, a) \cup Kids(st, b)
<1>15. Links(new, D) = K
  <2>1. Links(new, D) = Kids(new, a) \cup Kids(new, b) \cup Kids(new, p)
    BY DEF Links
  <2> QED
    BY <1>9, <2>1
<1>16. Links(st, Live(st) \ (Live(new) \ D)) = K
  <2>1. Live(st) \ (Live(new) \ D) = D
    BY <1>3, <1>7
  <2>2. Links(st, D) = Kids(st, a) \cup Kids(st, b) \cup Kids(st, p)
    BY DEF Links
  <2> QED
    BY <2>1, <2>2
<1>17. D \subseteq Live(new) /\ K \cap tops = {}
  BY <1>2, <1>3, <1>7, <1>10
<1> HIDE DEF D, K
<1>18. Relinked(st, tops, lv, new, tops, lv, D)
  <2>1. Live(st) \ Live(new) = {} /\ Live(new) \ Live(st) = {}
    BY <1>7
  <2> QED
    BY <1>1, <1>7, <1>8, <1>13, <1>14, <1>15, <1>16, <1>17, <2>1 DEF Relinked
<1>19. TreeOK(new, tops, lv)
  BY <1>18, Relink
<1> QED
  BY <1>7, <1>8, <1>19 DEF D

(* The right one of two nodes is given up, its links go to the left one;    *)
(* their parent no longer links it.                                         *)
Merges(st, tops, lv, p, a, b, an, pn, new) ==
    /\ TreeOK(st, tops, lv)
    /\ p \in Live(st) /\ a \in Kids(st, p) /\ b \in Kids(st, p) /\ a # b
    /\ an \in AnyNode /\ pn \in AnyNode
    /\ ShapeOK(an) /\ ShapeOK(pn)
    /\ IsLeaf(an) <=> IsLeaf(Fetch(st, a))
    /\ ~IsLeaf(pn)
    /\ NodeKids(pn) = Kids(st, p) \ {b}
    /\ NodeKids(an) = Kids(st, a) \cup Kids(st, b)
    /\ new = Write(Reclaim(Write(st, p, pn), b), a, an)

(* a node merged with its neighbour,                                        *)
LEMMA MergeNodes ==
    ASSUME NEW st, NEW tops, NEW lv, NEW p, NEW a, NEW b, NEW an, NEW pn, NEW new,
           Merges(st, tops, lv, p, a, b, an, pn, new)
    PROVE  /\ Live(new) = Live(st) \ {b}
           /\ \A j \in Live(st) \ {a, b, p} : Fetch(new, j) = Fetch(st, j)
           /\ \E newLv : /\ TreeOK(new, tops, newLv)
                         /\ \A j \in Live(new) : newLv[j] = lv[j]
<1> USE DEF Merges
<1> DEFINE one == Write(st, p, pn)
           two == Reclaim(one, b)
           D == {a, p}
           newLv == [j \in Live(new) |-> lv[j]]
<1>1. st \in StoreType /\ StoreOK(st) /\ lv \in [Live(st) -> Nat]
  BY DEF TreeOK
<1>2. /\ Kids(st, p) \subseteq Live(st) \ tops /\ tops \subseteq Live(st)
      /\ lv[p] \in Nat
      /\ \A c \in Kids(st, p) : lv[c] + 1 = lv[p]
      /\ p \notin Kids(st, p)
      /\ IsLeaf(Fetch(st, p)) <=> lv[p] = 0
  BY TreeFacts
<1>3. a \in Live(st) /\ b \in Live(st) /\ a # p /\ b # p
  BY <1>2
<1>4. /\ one \in StoreType /\ StoreOK(one) /\ Live(one) = Live(st)
      /\ \A j \in Live(st) : Fetch(one, j) = IF j = p THEN pn ELSE Fetch(st, j)
  BY <1>1, WriteProperties
<1>5. two = Reclaim(one, b) /\ new = Write(two, a, an)
  OBVIOUS
<1> HIDE DEF one, two
<1>6. /\ two \in StoreType /\ StoreOK(two) /\ Live(two) = Live(st) \ {b}
      /\ \A j \in Live(st) \ {b} : Fetch(two, j) = Fetch(one, j)
  BY <1>3, <1>4, <1>5, ReclaimProperties, EmptyLeafIsNode
<1>7. /\ new \in StoreType /\ StoreOK(new) /\ Live(new) = Live(st) \ {b}
      /\ \A j \in Live(st) \ {b} : Fetch(new, j) = IF j = a THEN an ELSE Fetch(two, j)
  BY <1>3, <1>5, <1>6, WriteProperties
<1>8. /\ Fetch(new, a) = an /\ Fetch(new, p) = pn
      /\ \A j \in Live(st) \ {a, b, p} : Fetch(new, j) = Fetch(st, j)
  BY <1>3, <1>4, <1>6, <1>7
<1>9. Kids(new, a) = Kids(st, a) \cup Kids(st, b) /\ Kids(new, p) = Kids(st, p) \ {b}
  BY <1>8 DEF Kids
<1>10. /\ Kids(st, a) \subseteq Live(st) \ tops /\ Kids(st, b) \subseteq Live(st) \ tops
       /\ \A c \in Kids(st, a) : lv[c] + 1 = lv[a]
       /\ \A c \in Kids(st, b) : lv[c] + 1 = lv[b]
       /\ IsLeaf(Fetch(st, a)) <=> lv[a] = 0
  BY <1>3, TreeFacts
<1>11. /\ lv[a] = lv[b] /\ lv[a] \in Nat
       /\ newLv \in [Live(new) -> Nat] /\ \A j \in Live(new) : newLv[j] = lv[j]
  BY <1>1, <1>2, <1>3, <1>7
<1> HIDE DEF newLv
<1>12. Kids(st, a) \cap Kids(st, p) = {} /\ Kids(st, b) \cap Kids(st, p) = {}
  BY <1>3 DEF TreeOK, Linked
<1>13. \A j \in D : ShapeOK(Fetch(new, j)) /\ GradedAt(new, newLv, j)
  <2>1. b \notin Kids(new, a) /\ b \notin Kids(new, p)
    BY <1>9, <1>12
  <2>2. a \in Live(new) /\ p \in Live(new)
        /\ Kids(new, a) \subseteq Live(new) /\ Kids(new, p) \subseteq Live(new)
    BY <1>2, <1>3, <1>7, <1>9, <1>10, <2>1
  <2>3. ~IsLeaf(Fetch(st, p))
    BY DEF Kids, NodeKids
  <2>4. GradedAt(new, newLv, a)
    BY <1>8, <1>9, <1>10, <1>11, <2>2 DEF GradedAt
  <2>5. GradedAt(new, newLv, p)
    BY <1>2, <1>8, <1>9, <1>11, <2>2, <2>3 DEF GradedAt
  <2> QED
    BY <1>8, <2>4, <2>5
<1>14. \A x, y \in D : x # y => Kids(new, x) \cap Kids(new, y) = {}
  BY <1>9, <1>12
<1> DEFINE K == Kids(st, p) \cup Kids(st, a) \cup Kids(st, b)
<1>15. Links(new, D) = K \ {b}
  <2>1. Links(new, D) = Kids(new, a) \cup Kids(new, p)
    BY DEF Links
  <2> QED
    BY <1>9, <1>12, <2>1
<1>16. Links(st, Live(st) \ (Live(new) \ D)) = K
  <2>1. Live(st) \ (Live(new) \ D) = {a, b, p}
    BY <1>3, <1>7
  <2>2. Links(st, {a, b, p}) = Kids(st, a) \cup Kids(st, b) \cup Kids(st, p)
    BY DEF Links
  <2> QED
    BY <2>1, <2>2
<1>17. /\ D \subseteq Live(new) /\ K \cap tops = {} /\ b \in K
       /\ \A j \in Live(new) \ D : j \in Live(st) /\ Fetch(new, j) = Fetch(st, j)
  BY <1>2, <1>3, <1>7, <1>8, <1>10
<1> HIDE DEF D, K
<1>18. Relinked(st, tops, lv, new, tops, newLv, D)
  <2>1. Live(st) \ Live(new) = {b} /\ Live(new) \ Live(st) = {}
    BY <1>3, <1>7
  <2> QED
    BY <1>7, <1>11, <1>13, <1>14, <1>15, <1>16, <1>17, <2>1, SMTT(30) DEF Relinked
<1>19. TreeOK(new, tops, newLv)
  BY <1>18, Relink
<1> QED
  BY <1>7, <1>8, <1>11, <1>17, <1>19 DEF D

(* A top with one child is given up; the child becomes the top.             *)
Collapses(st, tops, lv, root, child, new, newTops) ==
    /\ TreeOK(st, tops, lv)
    /\ tops = {root}
    /\ Kids(st, root) = newTops
    /\ newTops = {child}
    /\ new = Reclaim(st, root)

(* the top node replaced by its only child.                                 *)
LEMMA CollapseNode ==
    ASSUME NEW st, NEW tops, NEW lv, NEW root, NEW child, NEW new, NEW newTops,
           Collapses(st, tops, lv, root, child, new, newTops)
    PROVE  /\ Live(new) = Live(st) \ {root}
           /\ child \in Live(new)
           /\ \E newLv : TreeOK(new, newTops, newLv)
<1> USE DEF Collapses
<1> DEFINE newLv == [j \in Live(new) |-> lv[j]]
<1>1. /\ st \in StoreType /\ StoreOK(st) /\ lv \in [Live(st) -> Nat]
      /\ root \in Live(st)
  BY DEF TreeOK, Linked
<1>2. child \in Live(st) \ {root}
  BY <1>1, TreeFacts
<1>3. /\ new \in StoreType /\ StoreOK(new) /\ Live(new) = Live(st) \ {root}
      /\ \A j \in Live(st) \ {root} : Fetch(new, j) = Fetch(st, j)
  BY <1>1, ReclaimProperties, EmptyLeafIsNode
<1>4. newLv \in [Live(new) -> Nat] /\ \A j \in Live(new) : newLv[j] = lv[j]
  BY <1>1, <1>3
<1> HIDE DEF newLv
<1>5. Links(new, {}) = {} /\ Links(st, Live(st) \ (Live(new) \ {})) = newTops
  <2>1. Live(st) \ (Live(new) \ {}) = {root}
    BY <1>1, <1>3
  <2> QED
    BY <2>1 DEF Links
<1>6. Live(st) \ Live(new) = {root} /\ Live(new) \ Live(st) = {}
  BY <1>1, <1>3
<1>7. Relinked(st, tops, lv, new, newTops, newLv, {})
  BY <1>2, <1>3, <1>4, <1>5, <1>6 DEF Relinked
<1>8. TreeOK(new, newTops, newLv)
  BY <1>7, Relink
<1> QED
  BY <1>2, <1>3, <1>8

(* A reset store holds a tree of one leaf.                                  *)
LEMMA ResetTree ==
    TreeOK(ResetStore, {AllocId(EmptyStore)}, [j \in Live(ResetStore) |-> 0])
<1> DEFINE lv == [j \in Live(ResetStore) |-> 0]
<1>1. /\ AllocId(EmptyStore) = 1
      /\ ResetStore \in StoreType /\ StoreOK(ResetStore)
      /\ Live(ResetStore) = {1} /\ Fetch(ResetStore, 1) = EmptyLeaf
  BY ResetProperties, EmptyLeafIsNode
<1>2. /\ IsLeaf(EmptyLeaf) /\ ShapeOK(EmptyLeaf) /\ NodeKids(EmptyLeaf) = {}
  BY DEF EmptyLeaf, Leaf, IsLeaf, ShapeOK, KeysLen, NodeKids
<1>3. Kids(ResetStore, 1) = {} /\ lv \in [Live(ResetStore) -> Nat] /\ lv[1] = 0
  BY <1>1, <1>2 DEF Kids
<1> HIDE DEF lv
<1>4. Linked(ResetStore, {1})
  BY <1>1, <1>3 DEF Linked
<1>5. GradedAt(ResetStore, lv, 1)
  BY <1>1, <1>2, <1>3 DEF GradedAt
<1>6. TreeOK(ResetStore, {1}, lv)
  BY <1>1, <1>2, <1>3, <1>4, <1>5 DEF TreeOK
<1> QED
  BY <1>1, <1>6 DEF lv
=============================================================================
