------------------------------- MODULE RTree -------------------------------
(***************************************************************************)
(* The R-tree of pkg/index/rtree: insertion with splits, removal, search   *)
(* and nearest neighbours, on integer rectangles.  Bulk loading is left    *)
(* out: the server never calls it.                                         *)
(*                                                                         *)
(* A node is a value: its box, its children in order, its height and       *)
(* whether it is a leaf.  Children of a leaf are items: a box and an id.   *)
(***************************************************************************)
EXTENDS Integers, Sequences, FiniteSets, SequencesExt, FiniteSetsExt

CONSTANTS Items,       \* items that are in the tree or not
          Rect,        \* the rectangle of each item
          Queries,     \* rectangles to search for
          Points,      \* points to look for neighbours of
          maxEntries,  \* at least 4
          Seeds,       \* sequences of items the tree is built from
          MaxTreeOps   \* insertions and removals after that

minEntries == Max({2, (maxEntries * 2 + 4) \div 5})
Axes == 1..2

VARIABLES data,     \* the root
          present,  \* the items that were inserted and not removed
          treeOps

treeVars == <<data, present, treeOps>>

(***************************************************************************)
(* Boxes.  The empty box stands for the one from +Inf to -Inf.             *)
(***************************************************************************)
Infinity == 1000
Box(min, max) == [min |-> min, max |-> max]
EmptyBox == Box(<<Infinity, Infinity>>, <<-Infinity, -Infinity>>)

extend(a, b) == Box([i \in Axes |-> Min({a.min[i], b.min[i]})],
                    [i \in Axes |-> Max({a.max[i], b.max[i]})])
area(a) == (a.max[1] - a.min[1]) * (a.max[2] - a.min[2])
enlargedArea(a, b) == area(extend(a, b))
margin(a) == (a.max[1] - a.min[1]) + (a.max[2] - a.min[2])
intersectionArea(a, b) ==
    LET side(i) == Max({0, Min({a.max[i], b.max[i]}) - Max({a.min[i], b.min[i]})})
    IN side(1) * side(2)
intersects(a, b) == \A i \in Axes : b.min[i] <= a.max[i] /\ b.max[i] >= a.min[i]
contains(a, b) == \A i \in Axes : a.min[i] <= b.min[i] /\ b.max[i] <= a.max[i]
overlaps(a, b) ==
    CASE ~intersects(a, b) -> "not"
      [] contains(a, b) -> "contains"
      [] OTHER -> "intersects"

(***************************************************************************)
(* Nodes                                                                   *)
(***************************************************************************)
Item(it) == [box |-> Rect[it], item |-> it]
distBBox(kids, k, p) == FoldLeft(LAMBDA b, c : extend(b, c.box), EmptyBox, SubSeq(kids, k + 1, p))
createNode(kids, height, leaf) ==
    [box |-> distBBox(kids, 0, Len(kids)), kids |-> kids, height |-> height, leaf |-> leaf]
EmptyNode == createNode(<<>>, 1, TRUE)

Swap(s, i, j) == [s EXCEPT ![i] = s[j], ![j] = s[i]]

\* The pivot is in its place, with the smaller ones on its left.
partition(s, axis) ==
    LET n == Len(s)
        step(acc, i) == IF acc.s[i].box.min[axis] < acc.s[n].box.min[axis]
                        THEN [s |-> Swap(acc.s, i, acc.left), left |-> acc.left + 1]
                        ELSE acc
    IN FoldLeft(step, [s |-> Swap(s, n \div 2 + 1, n), left |-> 1], [i \in 1..n |-> i])
Pivoted(r) == [r EXCEPT !.s = Swap(@, r.left, Len(@))]

RECURSIVE sortByAxis(_, _)
SortSides(r, axis) ==
    sortByAxis(SubSeq(r.s, 1, r.left - 1), axis) \o <<r.s[r.left]>>
        \o sortByAxis(SubSeq(r.s, r.left + 1, Len(r.s)), axis)
sortByAxis(s, axis) == IF Len(s) < 2 THEN s ELSE SortSides(Pivoted(partition(s, axis)), axis)

(***************************************************************************)
(* Splits.  A node of n children keeps the first k and leaves the others   *)
(* to a new node, with at least m on either side.                          *)
(***************************************************************************)
\* The second loop of the source extends the left box and counts the margin
\* of the right one, which stays as it is.
allDistMargin(kids, m) ==
    LET n == Len(kids)
        left(i) == margin(distBBox(kids, 0, i))
        right == margin(distBBox(kids, n - m, n))
    IN FoldLeft(LAMBDA s, i : s + left(i + 1) + right, left(m) + right,
                [j \in 1..(n - 2 * m) |-> m + j - 1])

\* The children in the order of the axis with the smaller sum of margins; they
\* have been sorted by each axis in turn before.
BetterAxis(byX, byY, m) ==
    sortByAxis(byY, IF allDistMargin(byY, m) < allDistMargin(byX, m) THEN 2 ELSE 1)
chooseSplitAxis(kids, m) ==
    LET axisY(byX) == BetterAxis(byX, sortByAxis(byX, 2), m) IN axisY(sortByAxis(kids, 1))

chooseSplitIndex(kids, m) ==
    LET n == Len(kids)
        step(best, i) ==
            LET b1 == distBBox(kids, 0, i)
                b2 == distBBox(kids, i, n)
                overlap == intersectionArea(b1, b2)
                sum == area(b1) + area(b2)
            IN IF overlap < best.overlap
               THEN [overlap |-> overlap, sum |-> Min({sum, best.sum}), index |-> i]
               ELSE IF overlap = best.overlap /\ sum < best.sum
               THEN [best EXCEPT !.sum = sum, !.index = i]
               ELSE best
    IN FoldLeft(step, [overlap |-> Infinity, sum |-> Infinity, index |-> 0],
                [j \in 1..(n - 2 * m + 1) |-> m + j - 1]).index

\* Mutant: the new node starts one child too late.
HalvesLosing(node, kids, k) ==
    <<createNode(SubSeq(kids, 1, k), node.height, node.leaf),
      createNode(SubSeq(kids, k + 2, Len(kids)), node.height, node.leaf)>>
Halves(node, kids, k) ==
    <<createNode(SubSeq(kids, 1, k), node.height, node.leaf),
      createNode(SubSeq(kids, k + 1, Len(kids)), node.height, node.leaf)>>
split(node) ==
    LET cut(kids) == Halves(node, kids, chooseSplitIndex(kids, minEntries))
    IN cut(chooseSplitAxis(node.kids, minEntries))

\* The nodes a node becomes when it has one more child.
Fit(node) == IF Len(node.kids) > maxEntries THEN split(node) ELSE <<node>>

splitRoot(a, b) == createNode(<<a, b>>, a.height + 1, FALSE)

(***************************************************************************)
(* Insertion                                                               *)
(***************************************************************************)
\* The child that grows least; among those, in most cases the smallest.
chooseChild(node, box) ==
    LET step(best, i) ==
            LET a == area(node.kids[i].box)
                e == enlargedArea(box, node.kids[i].box) - a
            IN IF e < best.e THEN [e |-> e, a |-> Min({a, best.a}), at |-> i]
               ELSE IF e = best.e /\ a < best.a THEN [best EXCEPT !.a = a, !.at = i]
               ELSE best
    IN FoldLeft(step, [e |-> Infinity, a |-> Infinity, at |-> 1],
                [i \in 1..Len(node.kids) |-> i]).at

\* Down to the last level, then up again: the one or two nodes in the place of
\* this one.  A node that is split gets a new box, others are extended.
RECURSIVE InsertInto(_, _, _)
InsertBelow(node, kid, level, at) ==
    LET instead(new) == [node EXCEPT !.kids = [@ EXCEPT ![at] = new[1]] \o Tail(new)]
    IN instead(InsertInto(node.kids[at], kid, level - 1))
InsertInto(node, kid, level) ==
    LET grown == [node EXCEPT !.box = extend(@, kid.box)] IN
    Fit(IF node.leaf \/ level = 0 THEN [grown EXCEPT !.kids = Append(@, kid)]
        ELSE InsertBelow(grown, kid, level, chooseChild(node, kid.box)))

NewRoot(new) == IF Len(new) = 1 THEN new[1] ELSE splitRoot(new[1], new[2])
Insert(root, it) == NewRoot(InsertInto(root, Item(it), root.height - 1))

(***************************************************************************)
(* Removal: the first leaf, from the left, that has the item and whose     *)
(* ancestors all contain its box.  Nodes that become empty go.             *)
(***************************************************************************)
findItem(node, it) == {i \in 1..Len(node.kids) : node.kids[i].item = it}

RECURSIVE Has(_, _)
Has(node, it) ==
    IF node.leaf THEN findItem(node, it) # {}
    ELSE contains(node.box, Rect[it]) /\ \E i \in 1..Len(node.kids) : Has(node.kids[i], it)

\* What is left of a node: empty children are dropped, and the box is that of
\* the others.
condense(node, kids) ==
    createNode(SelectSeq(kids, LAMBDA c : c.box # EmptyBox), node.height, node.leaf)

RECURSIVE Without(_, _)
Without(node, it) ==
    IF node.leaf
    THEN condense(node, RemoveAt(node.kids, Min(findItem(node, it))))
    ELSE LET at == Min({i \in 1..Len(node.kids) : Has(node.kids[i], it)})
         IN condense(node, [node.kids EXCEPT ![at] = Without(@, it)])

remove(root, it) ==
    IF ~Has(root, it) THEN root
    ELSE LET new == Without(root, it)
         IN IF new.kids = <<>> THEN EmptyNode ELSE new

(***************************************************************************)
(* Search and nearest neighbours, in the order in which they visit items   *)
(***************************************************************************)
RECURSIVE Scan(_)
Scan(node) ==
    IF node.leaf THEN [i \in 1..Len(node.kids) |-> node.kids[i].item]
    ELSE FlattenSeq([i \in 1..Len(node.kids) |-> Scan(node.kids[i])])

RECURSIVE search(_, _)
search(node, box) ==
    IF node.leaf
    THEN LET hits == SelectSeq(node.kids, LAMBDA c : intersects(box, c.box))
         IN [i \in 1..Len(hits) |-> hits[i].item]
    ELSE LET below(c) == CASE overlaps(box, c.box) = "not" -> <<>>
                           [] overlaps(box, c.box) = "contains" -> Scan(c)
                           [] OTHER -> search(c, box)
         IN FlattenSeq([i \in 1..Len(node.kids) |-> below(node.kids[i])])

Search(root, box) == IF intersects(root.box, box) THEN search(root, box) ELSE <<>>

axisDist(k, min, max) == IF k < min THEN min - k ELSE IF k <= max THEN 0 ELSE k - max
boxDistPoint(p, b) ==
    LET d(i) == axisDist(p[i], b.min[i], b.max[i]) IN d(1) * d(1) + d(2) * d(2)

\* A queue of nodes and items by their distance; a node that comes first makes
\* way for its children.
\* Mutant: an item is taken before nodes that are nearer.
NextItemFirst(queue, p) ==
    LET D(c) == boxDistPoint(p, c.box)
        items == {c \in queue : "item" \in DOMAIN c}
        from == IF items = {} THEN queue ELSE items
    IN CHOOSE c \in from : \A x \in from : D(c) <= D(x)
NextInQueue(queue, p) ==
    LET D(c) == boxDistPoint(p, c.box)
    IN CHOOSE c \in queue : \A x \in queue : D(c) <= D(x)

RECURSIVE Drain(_, _)
Drain(queue, p) ==
    IF queue = {} THEN <<>> ELSE
    LET c == NextInQueue(queue, p)
        rest == queue \ {c}
    IN IF "item" \in DOMAIN c THEN <<c.item>> \o Drain(rest, p)
       ELSE Drain(rest \cup ToSet(c.kids), p)

KNN(root, p) == Drain(ToSet(root.kids), p)

(***************************************************************************)
(* Trees built from a seed, one item after the other, and then changed.    *)
(***************************************************************************)
TreeInit ==
    /\ \E s \in Seeds : data = FoldLeft(Insert, EmptyNode, s) /\ present = ToSet(s)
    /\ treeOps = 0

TreeInsert(it) ==
    /\ it \notin present
    /\ data' = Insert(data, it)
    /\ present' = present \cup {it}

TreeRemove(it) ==
    /\ data' = remove(data, it)
    /\ present' = present \ {it}

TreeNext ==
    /\ treeOps < MaxTreeOps /\ treeOps' = treeOps + 1
    /\ \E it \in Items : TreeInsert(it) \/ TreeRemove(it)

(***************************************************************************)
(* Properties                                                              *)
(***************************************************************************)
RECURSIVE Sound(_)
Sound(node) ==
    /\ Len(node.kids) \in 1..maxEntries
    /\ node.box = distBBox(node.kids, 0, Len(node.kids))
    /\ node.leaf <=> "item" \in DOMAIN node.kids[1]
    /\ ~node.leaf => \A i \in 1..Len(node.kids) : Sound(node.kids[i])

\* Whatever was inserted and removed, a search finds exactly the items that
\* touch the rectangle, each once; and it looks at no more than it must: the
\* box of every node is the least one around its children, and no node is
\* empty or over-full, except that an empty tree is an empty leaf.
SearchExact ==
    /\ data = EmptyNode \/ Sound(data)
    /\ \A q \in Queries :
          LET found == Search(data, q) IN
          /\ ToSet(found) = {it \in present : intersects(q, Rect[it])}
          /\ Len(found) = Cardinality(ToSet(found))

\* Neighbours come nearest first, and every item comes, once.
NearestFirst ==
    \A p \in Points :
        LET found == KNN(data, p) IN
        /\ ToSet(found) = present /\ Len(found) = Cardinality(present)
        /\ \A i \in 1..(Len(found) - 1) :
              boxDistPoint(p, Rect[found[i]]) <= boxDistPoint(p, Rect[found[i + 1]])
=============================================================================
