------------------------------- MODULE RbTree -------------------------------
(***************************************************************************)
(* The red-black tree of src/kernel/rbtree.c and rbtree.h, as the poller   *)
(* uses it in __poller_tree_insert and __poller_tree_erase.                *)
(*                                                                         *)
(* A tree t is a record of the fields of struct rb_node, each a function   *)
(* on nodes, and the root; 0 is the null pointer.  rb_left and rb_right    *)
(* are t.kid[n]["left"] and t.kid[n]["right"]: where the code has two      *)
(* branches that differ only in left and right, an operator here has a     *)
(* parameter for the side.  Loops are recursive operators.                 *)
(*                                                                         *)
(* The variable order is what the tree stands for, the sequence of nodes   *)
(* that module Poller has in its place.                                    *)
(***************************************************************************)
EXTENDS Naturals, Sequences, SequencesExt

CONSTANTS Nodes,   \* numbers of the nodes
          Key(_)   \* the timeout of a node

ASSUME NodesAssumption == Nodes \subseteq Nat \ {0}

VARIABLES tree, tree_first, tree_last, order

vars == <<tree, tree_first, tree_last, order>>

RB_RED == "red"
RB_BLACK == "black"
Left == "left"
Right == "right"
Opposite(s) == IF s = Left THEN Right ELSE Left

-----------------------------------------------------------------------------
(* Reading and writing the fields.                                         *)

SetParent(t, n, p) == IF n = 0 THEN t ELSE [t EXCEPT !.parent[n] = p]
SetKid(t, n, s, k) == [t EXCEPT !.kid[n][s] = k]
Paint(t, n, c) == IF n = 0 THEN t ELSE [t EXCEPT !.color[n] = c]
IsRed(t, n) == n # 0 /\ t.color[n] = RB_RED
SideOf(t, p, n) == IF t.kid[p][Left] = n THEN Left ELSE Right

\* What points to n, the root or a link of its parent p, points to m.
Redirect(t, p, n, m) ==
    IF p = 0 THEN [t EXCEPT !.root = m] ELSE SetKid(t, p, SideOf(t, p, n), m)

\* The fields of a node that is not in the tree.
Blank(t, n) ==
    [t EXCEPT !.parent[n] = 0, !.color[n] = RB_RED,
              !.kid[n] = [s \in {Left, Right} |-> 0]]

\* __rb_rotate_left (s is Left) and __rb_rotate_right (s is Right).
rb_rotate(t, n, s) ==
    LET up == t.kid[n][Opposite(s)]
        moved == t.kid[up][s]
        p == t.parent[n]
        t1 == SetParent(SetKid(t, n, Opposite(s), moved), moved, n)
        t2 == SetParent(SetKid(t1, up, s, n), up, p)
    IN  SetParent(Redirect(t2, p, n, up), n, up)

-----------------------------------------------------------------------------
(* Insertion.                                                              *)

\* rb_link_node into the link s of parent, or as the root.
rb_link_node(t, n, parent, s) ==
    LET t1 == SetParent(Blank(t, n), n, parent)
    IN  IF parent = 0 THEN [t1 EXCEPT !.root = n] ELSE SetKid(t1, parent, s, n)

\* Mutant of rb_recolor: the grandparent stays black.
RecolorKeepsBlack(t, parent, uncle, gparent) ==
    Paint(Paint(t, uncle, RB_BLACK), parent, RB_BLACK)

\* A red uncle: the two become black, their parent red.
rb_recolor(t, parent, uncle, gparent) ==
    Paint(Paint(Paint(t, uncle, RB_BLACK), parent, RB_BLACK), gparent, RB_RED)

RECURSIVE rb_insert_color(_, _)
rb_insert_color(t, n) ==
    LET parent == t.parent[n] IN
    IF ~IsRed(t, parent) THEN Paint(t, t.root, RB_BLACK) ELSE
    LET gparent == t.parent[parent]
        s == SideOf(t, gparent, parent)
        uncle == t.kid[gparent][Opposite(s)]
        inner == t.kid[parent][Opposite(s)] = n
        t1 == IF inner THEN rb_rotate(t, parent, s) ELSE t
        top == IF inner THEN n ELSE parent
        t2 == Paint(Paint(t1, top, RB_BLACK), gparent, RB_RED)
    IN  IF IsRed(t, uncle)
        THEN rb_insert_color(rb_recolor(t, parent, uncle, gparent), gparent)
        ELSE rb_insert_color(rb_rotate(t2, gparent, Opposite(s)),
                             IF inner THEN parent ELSE n)

\* The link under which the loop of __poller_tree_insert ends.
RECURSIVE Descend(_, _, _)
Descend(t, p, n) ==
    LET s == IF Key(n) < Key(p) THEN Left ELSE Right
    IN  IF t.kid[p][s] = 0 THEN <<p, s>> ELSE Descend(t, t.kid[p][s], n)

\* Mutant of poller_tree_insert: the first node is not updated.
TreeInsertKeepsFirst(n) ==
    LET last == tree.root # 0 /\ Key(n) >= Key(tree_last)
        link == IF tree.root = 0 THEN <<0, Left>>
                ELSE IF last THEN <<tree_last, Right>>
                ELSE Descend(tree, tree.root, n)
    IN  /\ tree_first' = IF tree.root = 0 THEN n ELSE tree_first
        /\ tree_last' = IF tree.root = 0 \/ last THEN n ELSE tree_last
        /\ tree' = rb_insert_color(rb_link_node(tree, n, link[1], link[2]), n)

\* __poller_tree_insert.
poller_tree_insert(n) ==
    LET last == tree.root # 0 /\ Key(n) >= Key(tree_last)
        link == IF tree.root = 0 THEN <<0, Left>>
                ELSE IF last THEN <<tree_last, Right>>
                ELSE Descend(tree, tree.root, n)
    IN  /\ tree_first' = IF tree.root = 0 \/ link = <<tree_first, Left>>
                         THEN n ELSE tree_first
        /\ tree_last' = IF tree.root = 0 \/ last THEN n ELSE tree_last
        /\ tree' = rb_insert_color(rb_link_node(tree, n, link[1], link[2]), n)

-----------------------------------------------------------------------------
(* Walking.                                                                *)

\* From n along the links of side s as far as they go.
RECURSIVE Furthest(_, _, _)
Furthest(t, n, s) == IF t.kid[n][s] = 0 THEN n ELSE Furthest(t, t.kid[n][s], s)

\* rb_first (s is Left) and rb_last (s is Right).
rb_end(t, s) == IF t.root = 0 THEN 0 ELSE Furthest(t, t.root, s)

RECURSIVE Climb(_, _, _)
Climb(t, n, s) ==
    LET p == t.parent[n]
    IN  IF p # 0 /\ n = t.kid[p][s] THEN Climb(t, p, s) ELSE p

\* rb_next (s is Right) and rb_prev (s is Left).
rb_step(t, n, s) ==
    IF t.kid[n][s] # 0 THEN Furthest(t, t.kid[n][s], Opposite(s))
    ELSE Climb(t, n, s)

-----------------------------------------------------------------------------
(* Erasure.                                                                *)

RECURSIVE rb_erase_color(_, _, _)
rb_erase_color(t, n, parent) ==
    IF IsRed(t, n) \/ n = t.root THEN Paint(t, n, RB_BLACK) ELSE
    LET s == SideOf(t, parent, n)
        o == Opposite(s)
        w1 == t.kid[parent][o]
        t1 == IF IsRed(t, w1)
              THEN rb_rotate(Paint(Paint(t, w1, RB_BLACK), parent, RB_RED),
                             parent, s)
              ELSE t
        w2 == t1.kid[parent][o]
        t2 == IF ~IsRed(t1, t1.kid[w2][o])
              THEN rb_rotate(Paint(Paint(t1, t1.kid[w2][s], RB_BLACK),
                                   w2, RB_RED), w2, o)
              ELSE t1
        w3 == t2.kid[parent][o]
        t3 == Paint(Paint(Paint(t2, w3, t2.color[parent]), parent, RB_BLACK),
                    t2.kid[w3][o], RB_BLACK)
        t4 == rb_rotate(t3, parent, s)
    IN  IF ~IsRed(t1, t1.kid[w2][Left]) /\ ~IsRed(t1, t1.kid[w2][Right])
        THEN rb_erase_color(Paint(t1, w2, RB_RED), parent, t1.parent[parent])
        ELSE Paint(t4, t4.root, RB_BLACK)

\* The end of rb_erase: a black place is gone above child.
Rebalance(t, color, child, parent) ==
    IF color = RB_BLACK THEN rb_erase_color(t, child, parent) ELSE t

\* Takes n, which has at most one child, out of the tree.
Splice(t, n, child) ==
    Redirect(SetParent(t, child, t.parent[n]), t.parent[n], n, child)

\* The node next takes the place of old, with its links and its colour.
TakePlace(t, old, next) ==
    LET t1 == [t EXCEPT !.parent[next] = t.parent[old],
                        !.color[next] = t.color[old], !.kid[next] = t.kid[old]]
        t2 == Redirect(t1, t1.parent[old], old, next)
    IN  SetParent(SetParent(t2, t2.kid[old][Left], next),
                  t2.kid[old][Right], next)

\* A node with two children: its successor next is taken out and takes its
\* place.
EraseInner(t, old) ==
    LET next == Furthest(t, t.kid[old][Right], Left)
        child == t.kid[next][Right]
        parent == t.parent[next]
    IN  Rebalance(TakePlace(Splice(t, next, child), old, next),
                  t.color[next], child, IF parent = old THEN next ELSE parent)

rb_erase(t, n) ==
    LET child == IF t.kid[n][Left] = 0 THEN t.kid[n][Right] ELSE t.kid[n][Left]
    IN  IF t.kid[n][Left] # 0 /\ t.kid[n][Right] # 0 THEN EraseInner(t, n)
        ELSE Rebalance(Splice(t, n, child), t.color[n], child, t.parent[n])

\* __poller_tree_erase.  What the fields of an erased node hold is of no
\* interest.
poller_tree_erase(n) ==
    /\ tree_first' = IF n = tree_first THEN rb_step(tree, n, Right) ELSE tree_first
    /\ tree_last' = IF n = tree_last THEN rb_step(tree, n, Left) ELSE tree_last
    /\ tree' = Blank(rb_erase(tree, n), n)

\* rb_replace_node: newnode, which is not in the tree, takes victim's place.
rb_replace_node(t, victim, newnode) ==
    LET parent == t.parent[victim]
        t1 == Redirect(t, parent, victim, newnode)
        t2 == SetParent(SetParent(t1, t1.kid[victim][Left], newnode),
                        t1.kid[victim][Right], newnode)
    IN  [t2 EXCEPT !.parent[newnode] = t2.parent[victim],
                   !.kid[newnode] = t2.kid[victim],
                   !.color[newnode] = t2.color[victim]]

-----------------------------------------------------------------------------
(* The tree in use.                                                        *)

Inside == ToSet(order)

Init ==
    /\ tree = [root |-> 0,
               parent |-> [n \in Nodes |-> 0],
               kid |-> [n \in Nodes |-> [s \in {Left, Right} |-> 0]],
               color |-> [n \in Nodes |-> RB_RED]]
    /\ tree_first = 0
    /\ tree_last = 0
    /\ order = <<>>

\* A node goes behind those that are not later than itself.
Insert(n) ==
    /\ n \notin Inside
    /\ poller_tree_insert(n)
    /\ order' = LET before == SelectSeq(order, LAMBDA m : Key(m) <= Key(n))
                IN  InsertAt(order, Len(before) + 1, n)

Erase(n) ==
    /\ n \in Inside
    /\ poller_tree_erase(n)
    /\ order' = Remove(order, n)

\* The poller does not call rb_replace_node; a caller would update its own
\* pointers to the ends.
Replace(n, m) ==
    /\ n \in Inside /\ m \notin Inside /\ Key(n) = Key(m)
    /\ tree' = Blank(rb_replace_node(tree, n, m), n)
    /\ tree_first' = IF n = tree_first THEN m ELSE tree_first
    /\ tree_last' = IF n = tree_last THEN m ELSE tree_last
    /\ order' = ReplaceAll(order, n, m)

Next ==
    \/ \E n \in Nodes : Insert(n)
    \/ \E n \in Nodes : Erase(n)
    \/ \E n, m \in Nodes : Replace(n, m)

Spec == Init /\ [][Next]_vars

-----------------------------------------------------------------------------
(* Properties.                                                             *)

RECURSIVE InOrder(_)
InOrder(n) ==
    IF n = 0 THEN <<>>
    ELSE InOrder(tree.kid[n][Left]) \o <<n>> \o InOrder(tree.kid[n][Right])

\* The number of black nodes on every way down from n, counting the end; 0
\* when two ways differ.
RECURSIVE BlackHeight(_)
BlackHeight(n) ==
    IF n = 0 THEN 1 ELSE
    LET l == BlackHeight(tree.kid[n][Left])
        r == BlackHeight(tree.kid[n][Right])
    IN  IF l = 0 \/ l # r THEN 0
        ELSE IF tree.color[n] = RB_BLACK THEN l + 1 ELSE l

\* However nodes were inserted, erased and replaced, the tree is balanced: the
\* root is black, no red node has a red child, every way down has as many black
\* nodes, and each link down has its link up.
RedBlack ==
    /\ ~IsRed(tree, tree.root)
    /\ BlackHeight(tree.root) # 0
    /\ \A n \in Inside : IsRed(tree, n) => ~IsRed(tree, tree.parent[n])
    /\ tree.root # 0 => tree.parent[tree.root] = 0
    /\ \A n \in Inside, s \in {Left, Right} :
           tree.kid[n][s] # 0 => tree.parent[tree.kid[n][s]] = n

\* The tree holds the nodes in the order of their timeouts, first come first
\* among equals; walking forwards and backwards visits all of them in that
\* order; the ends that the poller keeps beside the tree are the real ones.
TreeIsOrder ==
    LET At(i) == IF i \in DOMAIN order THEN order[i] ELSE 0 IN
    /\ InOrder(tree.root) = order
    /\ \A i \in DOMAIN order :
           /\ rb_step(tree, order[i], Right) = At(i + 1)
           /\ rb_step(tree, order[i], Left) = At(i - 1)
    /\ tree_first = At(1) /\ tree_last = At(Len(order))
    /\ rb_end(tree, Left) = tree_first /\ rb_end(tree, Right) = tree_last
=============================================================================
