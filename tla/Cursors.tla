------------------------------ MODULE Cursors ------------------------------
(* Cursors and the double-ended iterator over them (src/src/iter.rs), on    *)
(* every tree the calls can build. The iterator borrows the tree: no call   *)
(* changes it while one is open. A loop down or up a path is one step, for  *)
(* nothing else can happen meanwhile.                                       *)
EXTENDS BPlusTree

VARIABLES open,     \* whether an iterator borrows the tree
          asked,    \* the bounds its caller asked for
          span,     \* its two cursors, or NoSpan when nothing is left
          yielded   \* the answer to the last call of next or next_back

scan == <<open, asked, span, yielded>>
scanVars == <<vars, scan>>

NoCursor == [leaf |-> None]
NoSpan == [front |-> NoCursor, back |-> NoCursor]

Unbounded == [kind |-> "unbounded"]
Bound == {Unbounded} \cup [kind : {"included", "excluded"}, key : Key]

-----------------------------------------------------------------------------
(* A cursor: the frames from the root to a leaf, and an index within it.    *)

CursorKey(c) == Node(c.leaf).keys[c.idx]

Current(c) == <<CursorKey(c), Node(c.leaf).vals[c.idx]>>

SamePosition(c, d) == c.leaf = d.leaf /\ c.idx = d.idx

(* The frames from node id down to a leaf, taking child turn[n] at node n.  *)
Way(turn, id) ==
    LET way[n \in Live(store)] ==
            IF Inner(n) THEN <<[id |-> n, idx |-> turn[n]]>> \o way[Children(n)[turn[n]]]
                        ELSE <<>>
    IN  way[id]

(* The first entry of that leaf, with the frames of p above those from id.  *)
Down(p, turn, id) ==
    LET way == Way(turn, id)
    IN  [path |-> p \o way,
         leaf |-> IF way = <<>> THEN id ELSE Children(Last(way).id)[Last(way).idx],
         idx |-> 1]

InnerNodes == {n \in Live(store) : Inner(n)}

DescendLeftmost(p, id) == Down(p, [n \in InnerNodes |-> 1], id)

DescendRightmost(p, id) ==
    LET c == Down(p, [n \in InnerNodes |-> Len(Children(n))], id)
    IN  [c EXCEPT !.idx = KeysLen(Node(c.leaf))]

(* The leaf whose key range covers k.                                       *)
DescendTo(k) == Down(<<>>, [n \in InnerNodes |-> ChildIndex(Node(n), k)], root)

OrNone(c) == IF Node(c.leaf).keys = <<>> THEN NoCursor ELSE c

FirstCursor == OrNone(DescendLeftmost(<<>>, root))

LastCursor == OrNone(DescendRightmost(<<>>, root))

(* The frames of c that have a child after, or before, the one taken.       *)
TurnsForward(c) == {j \in DOMAIN c.path : c.path[j].idx < Len(Children(c.path[j].id))}

TurnsBackward(c) == {j \in DOMAIN c.path : c.path[j].idx > 1}

(* Mutant: the frame still says the child that has been left.               *)
StepForwardStaleFrame(c) ==
    IF c.idx < KeysLen(Node(c.leaf)) THEN [c EXCEPT !.idx = @ + 1]
    ELSE IF TurnsForward(c) = {} THEN [c EXCEPT !.path = <<>>]
    ELSE LET j == Max(TurnsForward(c))
             f == c.path[j]
         IN  DescendLeftmost(SubSeq(c.path, 1, j), Children(f.id)[f.idx + 1])

(* Within the leaf, else up to the deepest frame with a next child and down *)
(* its left edge. At the end of the tree the frames are gone.               *)
StepForward(c) ==
    IF c.idx < KeysLen(Node(c.leaf)) THEN [c EXCEPT !.idx = @ + 1]
    ELSE IF TurnsForward(c) = {} THEN [c EXCEPT !.path = <<>>]
    ELSE LET j == Max(TurnsForward(c))
             f == [c.path[j] EXCEPT !.idx = @ + 1]
         IN  DescendLeftmost(Append(SubSeq(c.path, 1, j - 1), f), Children(f.id)[f.idx])

StepBackward(c) ==
    IF c.idx > 1 THEN [c EXCEPT !.idx = @ - 1]
    ELSE IF TurnsBackward(c) = {} THEN [c EXCEPT !.path = <<>>]
    ELSE LET j == Max(TurnsBackward(c))
             f == [c.path[j] EXCEPT !.idx = @ - 1]
         IN  DescendRightmost(Append(SubSeq(c.path, 1, j - 1), f), Children(f.id)[f.idx])

(* Mutant: past the end of the leaf the cursor stays on its last entry.     *)
LowerBoundStays(b) ==
    LET c == DescendTo(b.key)
        keys == Node(c.leaf).keys
        i == Position(keys, b.key)
             + (IF b.kind = "excluded" /\ Found(keys, b.key) THEN 1 ELSE 0)
    IN  IF b.kind = "unbounded" THEN FirstCursor
        ELSE IF keys = <<>> THEN NoCursor
        ELSE IF i <= Len(keys) THEN [c EXCEPT !.idx = i]
        ELSE [c EXCEPT !.idx = Len(keys)]

(* The first entry the lower bound admits: in the leaf of its key, or the   *)
(* first one after that leaf.                                               *)
LowerBound(b) ==
    LET c == DescendTo(b.key)
        keys == Node(c.leaf).keys
        i == Position(keys, b.key)
             + (IF b.kind = "excluded" /\ Found(keys, b.key) THEN 1 ELSE 0)
    IN  IF b.kind = "unbounded" THEN FirstCursor
        ELSE IF keys = <<>> THEN NoCursor
        ELSE IF i <= Len(keys) THEN [c EXCEPT !.idx = i]
        ELSE IF TurnsForward(c) = {} THEN NoCursor
        ELSE StepForward([c EXCEPT !.idx = Len(keys)])

(* The last entry the upper bound admits, in the same way.                  *)
UpperBound(b) ==
    LET c == DescendTo(b.key)
        keys == Node(c.leaf).keys
        i == Position(keys, b.key)
             - (IF b.kind = "included" /\ Found(keys, b.key) THEN 0 ELSE 1)
    IN  IF b.kind = "unbounded" THEN LastCursor
        ELSE IF keys = <<>> THEN NoCursor
        ELSE IF i >= 1 THEN [c EXCEPT !.idx = i]
        ELSE IF TurnsBackward(c) = {} THEN NoCursor
        ELSE StepBackward(c)

-----------------------------------------------------------------------------

ScanInit == /\ Init
            /\ open = FALSE
            /\ asked = <<Unbounded, Unbounded>>
            /\ span = NoSpan
            /\ yielded = None

(* A caller with shared access to the tree makes an iterator.               *)
Borrow(lower, upper) ==
    /\ pc = "idle"
    /\ ~open
    /\ open' = TRUE
    /\ asked' = <<lower, upper>>
    /\ UNCHANGED <<vars, yielded>>

SpanOf(front, back) ==
    IF NoCursor \in {front, back} THEN NoSpan ELSE [front |-> front, back |-> back]

Full ==
    /\ Borrow(Unbounded, Unbounded)
    /\ span' = SpanOf(FirstCursor, LastCursor)

(* Cursors that have passed each other admit nothing.                       *)
RangeOf(lower, upper) ==
    LET s == SpanOf(LowerBound(lower), UpperBound(upper))
    IN  /\ Borrow(lower, upper)
        /\ span' = IF s # NoSpan /\ CursorKey(s.front) <= CursorKey(s.back)
                   THEN s ELSE NoSpan

(* Mutant: the front does not look where the back is.                       *)
NextFrontUnchecked ==
    /\ open
    /\ IF span = NoSpan
       THEN yielded' = None /\ UNCHANGED span
       ELSE /\ yielded' = Current(span.front)
            /\ span' = [span EXCEPT !.front = StepForward(@)]
    /\ UNCHANGED <<vars, open, asked>>

NextFront ==
    /\ open
    /\ IF span = NoSpan
       THEN yielded' = None /\ UNCHANGED span
       ELSE /\ yielded' = Current(span.front)
            /\ span' = IF SamePosition(span.front, span.back) THEN NoSpan
                       ELSE [span EXCEPT !.front = StepForward(@)]
    /\ UNCHANGED <<vars, open, asked>>

NextBack ==
    /\ open
    /\ IF span = NoSpan
       THEN yielded' = None /\ UNCHANGED span
       ELSE /\ yielded' = Current(span.back)
            /\ span' = IF SamePosition(span.front, span.back) THEN NoSpan
                       ELSE [span EXCEPT !.back = StepBackward(@)]
    /\ UNCHANGED <<vars, open, asked>>

(* The caller lets go of the iterator.                                      *)
Release ==
    /\ open
    /\ open' = FALSE
    /\ asked' = <<Unbounded, Unbounded>>
    /\ span' = NoSpan
    /\ yielded' = None
    /\ UNCHANGED vars

ScanNext == \/ ~open /\ Next /\ UNCHANGED scan
            \/ Full
            \/ \E lower, upper \in Bound : RangeOf(lower, upper)
            \/ NextFront
            \/ NextBack
            \/ Release

ScanSpec == ScanInit /\ [][ScanNext]_scanVars
-----------------------------------------------------------------------------

(* The frames of a cursor lead from the root to its leaf, and its index is  *)
(* that of an entry.                                                        *)
OnEntry(c) ==
    /\ c.leaf \in Leaves
    /\ c.idx \in 1 .. KeysLen(Node(c.leaf))
    /\ IF c.path = <<>> THEN c.leaf = root ELSE c.path[1].id = root
    /\ \A j \in DOMAIN c.path :
          LET f == c.path[j]
          IN  /\ Inner(f.id)
              /\ f.idx \in DOMAIN Children(f.id)
              /\ Children(f.id)[f.idx]
                    = IF j = Len(c.path) THEN c.leaf ELSE c.path[j + 1].id

(* Each end of an open iterator is on an entry and can find its way back up *)
(* from there, after any number of steps across leaves from either end      *)
(* (iter.rs:105-187).                                                       *)
CursorsValid == span # NoSpan => OnEntry(span.front) /\ OnEntry(span.back)

(* next and next_back ignore whether the cursor could move (iter.rs:354 and *)
(* 367): as long as the ends differ each of them can, so an entry is never  *)
(* yielded twice at the edge of the tree.                                   *)
StepsMove ==
    span # NoSpan /\ ~SamePosition(span.front, span.back) =>
        /\ span.front.idx < KeysLen(Node(span.front.leaf)) \/ TurnsForward(span.front) # {}
        /\ span.back.idx > 1 \/ TurnsBackward(span.back) # {}

(* The keys between the ends of the iterator.                               *)
Due ==
    IF span = NoSpan THEN {}
    ELSE {k \in Key : /\ Contents[k] # None
                      /\ CursorKey(span.front) <= k
                      /\ k <= CursorKey(span.back)}

Scan == INSTANCE SortedScan WITH map <- Contents, due <- Due

(* iter and range yield the entries within the bounds in order, each once,  *)
(* from either end in any interleaving, and then None (iter.rs:313-371).    *)
ImplementsScan == Scan!Spec
=============================================================================
