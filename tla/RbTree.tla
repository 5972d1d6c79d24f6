---- MODULE RbTree ----
(***************************************************************************)
(* The red-black tree of src/etcpal/rbtree.c, with its top-down insertion  *)
(* and removal, and its iterators.  No call overlaps another, so a call is *)
(* one step; the passes of its loops are the recursive operators.          *)
(*                                                                         *)
(* A node is named by the value it holds.  Removal swaps the values of two *)
(* nodes: here the node that stays takes the other name.  The false root   *)
(* that insertion and removal put above the tree is head, and the root is  *)
(* head's right link also between the calls.                               *)
(***************************************************************************)
EXTENDS Naturals, Sequences, FiniteSets

Sx == INSTANCE SequencesExt

CONSTANTS Values,     \* numbers, compared as numbers
          None,       \* NULL
          head,
          MaxSurplus  \* a bound for TLC on how far size runs ahead

VARIABLES tree,   \* [link, red]: the two links of each node, the red nodes
          size,
          owned,  \* nodes the tree was given and has not given to node_cb
          iter    \* [node, path]

vars == <<tree, size, owned, iter>>

Leaf == [dir \in 0..1 |-> None]
Empty == [link |-> [n \in Values \cup {head} |-> Leaf], red |-> {}]
AtEnd == [node |-> None, path |-> << >>]

Init == tree = Empty /\ size = 0 /\ owned = 0 /\ iter = AtEnd

Root(h) == h.link[head][1]
Side(right) == IF right THEN 1 ELSE 0
Paint(h, reds, blacks) == [h EXCEPT !.red = (@ \cup reds) \ blacks]

RotateUnpainted(h, top, side, n, dir) ==
  LET up == h.link[n][1 - dir]
  IN [h EXCEPT !.link = [@ EXCEPT ![n][1 - dir] = h.link[up][dir], ![up][dir] = n,
                                  ![top][side] = up]]

\* rb_node_rotate, and then its result is linked below `top`.
Rotate(h, top, side, n, dir) ==
  LET up == h.link[n][1 - dir]
  IN [link |-> [h.link EXCEPT ![n][1 - dir] = h.link[up][dir], ![up][dir] = n,
                              ![top][side] = up],
      red  |-> (h.red \cup {n}) \ {up}]

Rotate2(h, top, side, n, dir) ==
  Rotate(Rotate(h, n, 1 - dir, h.link[n][1 - dir], 1 - dir), top, side, n, dir)

BothRed(h, n) == {h.link[n][0], h.link[n][1]} \subseteq h.red

----
\* Insertion.  s holds the helpers: q goes down, p, g and t are its parent, its
\* grandparent and the one above; last and dir are the turns taken to q's
\* parent and to q.
Flipped(h, s, v) ==
  IF s.q = None THEN Paint([h EXCEPT !.link[s.p][s.dir] = v], {v}, {})
  ELSE IF BothRed(h, s.q) THEN Paint(h, {s.q}, {h.link[s.q][0], h.link[s.q][1]})
  ELSE h

\* A red node below a red one: rotations at g.
Balanced(h, s, q) ==
  LET side == Side(h.link[s.t][1] = s.g) IN
  IF ~ {q, s.p} \subseteq h.red THEN h
  ELSE IF q = h.link[s.p][s.last] THEN Rotate(h, s.t, side, s.g, 1 - s.last)
  ELSE Rotate2(h, s.t, side, s.g, 1 - s.last)

RECURSIVE InsertFrom(_, _, _)
InsertFrom(h, s, v) ==
  LET q == IF s.q = None THEN v ELSE s.q
      fixed == Balanced(Flipped(h, s, v), s, q)
      dir == Side(q < v)
  IN IF q = v THEN fixed
     ELSE InsertFrom(fixed,
            [t |-> IF s.g # None THEN s.g ELSE s.t, g |-> s.p, p |-> q,
             q |-> fixed.link[q][dir], dir |-> dir, last |-> s.dir], v)

Inserted(h, v) ==
  LET top == [t |-> head, g |-> None, p |-> None, q |-> Root(h), dir |-> 0, last |-> 0]
      h2 == IF Root(h) = None THEN [h EXCEPT !.link[head][1] = v]
            ELSE InsertFrom(h, top, v)
  IN Paint(h2, {}, {Root(h2)})

----
\* Removal pushes a red node down.  q goes down again, with p and g above it.
PushDown(h, s, q, dir) ==
  LET sibling == h.link[s.q][1 - s.dir] IN
  IF q \in h.red \/ h.link[q][dir] \in h.red THEN h
  ELSE IF h.link[q][1 - dir] \in h.red THEN Rotate(h, s.q, s.dir, q, dir)
  ELSE IF sibling = None THEN h
  ELSE IF {h.link[sibling][0], h.link[sibling][1]} \cap h.red = {}
    THEN Paint(h, {sibling, q}, {s.q})
  ELSE LET side == Side(h.link[s.p][1] = s.q)
           h2 == IF h.link[sibling][s.dir] \in h.red
                 THEN Rotate2(h, s.p, side, s.q, s.dir)
                 ELSE Rotate(h, s.p, side, s.q, s.dir)
           up == h2.link[s.p][side]
       IN Paint(h2, {q, up}, {h2.link[up][0], h2.link[up][1]})

\* The parent of q after the pass: a rotation at q puts a node between them.
ParentAfter(h, s, q, dir) ==
  IF {q, h.link[q][dir]} \cap h.red = {} /\ h.link[q][1 - dir] \in h.red
  THEN h.link[q][1 - dir] ELSE s.q

RECURSIVE RemoveFrom(_, _, _)
RemoveFrom(h, s, v) ==
  LET q == h.link[s.q][s.dir]
      dir == Side(q < v)
  IN IF q = None THEN [heap |-> h, p |-> s.p, q |-> s.q]
     ELSE RemoveFrom(PushDown(h, s, q, dir),
                     [p |-> ParentAfter(h, s, q, dir), q |-> q, dir |-> dir], v)

\* The node of v stays, under the name w of the node that was unlinked.
Renamed(h, v, w) ==
  LET New(n) == IF n = v THEN w ELSE n
      Links(n) == [dir \in 0..1 |-> New(h.link[n][dir])]
  IN [link |-> [n \in DOMAIN h.link |-> IF n = v THEN Leaf
                                        ELSE Links(IF n = w THEN v ELSE n)],
      red  |-> {New(n) : n \in h.red \ {w}}]

ForgetToSwap(h, v) ==
  LET end == RemoveFrom(h, [p |-> None, q |-> head, dir |-> 1], v)
      p == end.p   q == end.q   h2 == end.heap
      child == h2.link[q][Side(h2.link[q][0] = None)]
      cut == [h2 EXCEPT !.link[p][Side(h2.link[p][1] = q)] = child, !.link[q] = Leaf]
  IN Paint([cut EXCEPT !.red = @ \ {q}], {}, {Root(cut)})

\* The node removed is the one that holds the next lower value, or, when there
\* is none below, v's own.
Removed(h, v) ==
  LET end == RemoveFrom(h, [p |-> None, q |-> head, dir |-> 1], v)
      p == end.p   q == end.q   h2 == end.heap
      child == h2.link[q][Side(h2.link[q][0] = None)]
      cut == [h2 EXCEPT !.link[p][Side(h2.link[p][1] = q)] = child, !.link[q] = Leaf]
      h3 == IF q = v THEN [cut EXCEPT !.red = @ \ {v}] ELSE Renamed(cut, v, q)
  IN Paint(h3, {}, {Root(h3)})

\* Clear turns left links away until the tree is a list; the number of nodes it
\* hands to node_cb on the way.
RECURSIVE Cleared(_, _)
Cleared(h, n) ==
  IF n = None THEN 0
  ELSE LET left == h.link[n][0] IN
       IF left = None THEN 1 + Cleared(h, h.link[n][1])
       ELSE Cleared([h EXCEPT !.link = [@ EXCEPT ![n][0] = h.link[left][1], ![left][1] = n]], left)

----
\* Iterators.  From node n at the end of `path`, follow one direction down.
RECURSIVE Descend(_, _, _)
Descend(n, path, dir) ==
  IF tree.link[n][dir] = None THEN [node |-> n, path |-> path]
  ELSE Descend(tree.link[n][dir], Append(path, n), dir)

Start(dir) == IF Root(tree) = None THEN AtEnd ELSE Descend(Root(tree), << >>, dir)

\* Back to the first ancestor that n is not on the `dir` side of.
RECURSIVE Climb(_, _, _)
Climb(n, path, dir) ==
  IF path = << >> THEN AtEnd
  ELSE IF tree.link[Sx!Last(path)][dir] = n THEN Climb(Sx!Last(path), Sx!Front(path), dir)
  ELSE [node |-> Sx!Last(path), path |-> Sx!Front(path)]

Move(it, dir) ==
  LET n == it.node IN
  IF tree.link[n][dir] # None
  THEN Descend(tree.link[n][dir], Append(it.path, n), 1 - dir)
  ELSE Climb(n, it.path, dir)

\* As far down as the search for v goes.
RECURSIVE Search(_, _, _)
Search(n, path, v) ==
  LET next == tree.link[n][Side(n < v)] IN
  IF n = v \/ next = None THEN [node |-> n, path |-> path]
  ELSE Search(next, Append(path, n), v)

Sought(v) == IF Root(tree) = None THEN AtEnd ELSE Search(Root(tree), << >>, v)
Found(v) == Sought(v).node = v

----
\* etcpal_rbtree_insert looks for the value before it makes a node, and removal
\* before it starts: a call that fails, for want of memory or otherwise, changes
\* nothing.
Insert(v) ==
  /\ ~Found(v)
  /\ size' = size + 1 /\ owned' = owned + 1 /\ iter' = AtEnd
  /\ tree' = Inserted(tree, v)

\* etcpal_rbtree_insert_node does not: a value that is there is met on the way
\* down, after recolourings and rotations, and counted.  (With a value that is
\* not there it does what Insert does.)
InsertNodeRefused(v) ==
  /\ Found(v)
  /\ size < Cardinality(Values) + MaxSurplus
  /\ size' = size + 1 /\ iter' = AtEnd
  /\ UNCHANGED owned
  /\ tree' = Inserted(tree, v)

Remove(v) ==
  /\ Found(v)
  /\ size' = size - 1 /\ owned' = owned - 1 /\ iter' = AtEnd
  /\ tree' = Removed(tree, v)

Clear ==
  /\ size' = 0 /\ iter' = AtEnd /\ tree' = Empty
  /\ owned' = owned - Cleared(tree, Root(tree))

Point(it) == UNCHANGED <<tree, size, owned>> /\ iter' = it

First == Point(Start(0))
LastValue == Point(Start(1))
NextValue == iter.node # None /\ Point(Move(iter, 1))
PrevValue == iter.node # None /\ Point(Move(iter, 0))

\* On an empty tree the iterator ends up on no node.
LowerBound(v) ==
  LET it == Sought(v)
  IN Point(IF it.node = None \/ it.node >= v THEN it ELSE Move(it, 1))

UpperBound(v) ==
  LET it == Sought(v)
  IN Point(IF it.node = None \/ it.node > v THEN it ELSE Move(it, 1))

Next ==
  \/ Clear \/ First \/ LastValue \/ NextValue \/ PrevValue
  \/ \E v \in Values :
       \/ Insert(v) \/ InsertNodeRefused(v) \/ Remove(v) \/ LowerBound(v) \/ UpperBound(v)

Spec == Init /\ [][Next]_vars

----
\* Every variable has its type, and a value that is not in the tree left no link
\* and no colour behind.
RECURSIVE InOrder(_)
InOrder(n) ==
  IF n = None THEN << >>
  ELSE InOrder(tree.link[n][0]) \o <<n>> \o InOrder(tree.link[n][1])

Contents == Sx!ToSet(InOrder(Root(tree)))

TypeOK ==
  /\ tree.link \in [Values \cup {head} -> [0..1 -> Values \cup {None}]]
  /\ tree.red \subseteq Contents
  /\ \A n \in Values \ Contents : tree.link[n] = Leaf
  /\ size \in Nat /\ owned \in Nat
  /\ iter.node \in Contents \cup {None} /\ iter.path \in Seq(Contents)

\* etcpal_rbtree_test: the number of black nodes on every way down from n, or 0.
RECURSIVE BlackHeight(_)
BlackHeight(n) ==
  IF n = None THEN 1
  ELSE LET left == tree.link[n][0]
           right == tree.link[n][1]
           lh == BlackHeight(left)
           rh == BlackHeight(right)
       IN IF \/ n \in tree.red /\ {left, right} \cap tree.red # {}
             \/ left # None /\ left >= n
             \/ right # None /\ right <= n
             \/ lh # rh \/ lh = 0
          THEN 0
          ELSE IF n \in tree.red THEN lh ELSE lh + 1

\* rbtree.c:247 -- "Insertion guaranteed in log(n) time": the tree is red-black
\* after any insertions and removals, the refused ones included.
IsRedBlack == BlackHeight(Root(tree)) # 0 /\ Root(tree) \notin tree.red

\* rbtree.c:587 -- etcpal_rbtree_size is "The number of values currently in the
\* tree."
SizeCountsValues == size = Cardinality(Contents)

\* Each call changes the set of values as it was asked to: no rotation loses a
\* value, and a refused insert_node changes nothing but size.  The node of a value
\* that goes, by remove or by clear, and no other, is handed back.
ChangesAsAsked ==
  [][\A before \in {Contents}, after \in {Contents'} :
        /\ \/ UNCHANGED tree
           \/ \E v \in Values \ before : after = before \cup {v} /\ Insert(v)
           \/ \E v \in before : after = before /\ InsertNodeRefused(v)
           \/ \E v \in before : after = before \ {v} /\ Remove(v)
           \/ after = {} /\ Clear
        /\ owned' = Cardinality(after)]_vars

Lowest(S)  == IF S = {} THEN None ELSE CHOOSE v \in S : \A w \in S : v <= w
Highest(S) == IF S = {} THEN None ELSE CHOOSE v \in S : \A w \in S : v >= w

\* The iterator, wherever a first, last, bound or earlier move left it, goes to
\* the neighbour in the order of the values, and to the end after the last.
IteratesInOrder ==
  [][UNCHANGED tree => \A values \in {Contents} :
       LET above(v) == {w \in values : w > v}
           below(v) == {w \in values : w < v}
       IN /\ First => iter'.node = Lowest(values)
          /\ LastValue => iter'.node = Highest(values)
          /\ NextValue => iter'.node = Lowest(above(iter.node))
          /\ PrevValue => iter'.node = Highest(below(iter.node))
          /\ \A v \in Values :
               /\ LowerBound(v) => iter'.node = Lowest(values \ below(v))
               /\ UpperBound(v) => iter'.node = Lowest(above(v))]_vars

\* Both: the calls that change the tree and those that move about in it.
DoesAsAsked == ChangesAsAsked /\ IteratesInOrder
====
