------------------------------- MODULE RbTree -------------------------------
(***************************************************************************)
(* The red-black tree of kernel/lib/rbtree.c, as the users of the tree     *)
(* (fs/axiomfs/cache.c, fs/axiomfs/policy_ipc.c) grow and shrink it.  A    *)
(* node is named by its key; Nil is NULL.  A tree is a record of its root  *)
(* and of the fields of its nodes, and every loop of the code a recursion. *)
(***************************************************************************)
EXTENDS Integers, FiniteSets

CONSTANTS
    RbKeys,   \* a set of numbers
    Nil       \* a number that is no key

ASSUME RbAssumption == RbKeys \subseteq Int /\ Nil \in Int \ RbKeys

VARIABLE tree

\* Fields of a node not in the tree; rb_link_node sets them all.
NoNode == [left |-> Nil, right |-> Nil, parent |-> Nil, red |-> FALSE]

RbInit == tree = [root |-> Nil, node |-> [k \in RbKeys |-> NoNode]]

Flip(side) == IF side = "left" THEN "right" ELSE "left"
IsRed(t, n) == n # Nil /\ t.node[n].red
Paint(t, n, red) == [t EXCEPT !.node[n].red = red]
SetParent(t, n, p) == IF n = Nil THEN t ELSE [t EXCEPT !.node[n].parent = p]

\* The link of p (or the root) that leads to old leads to new.
Relink(t, p, old, new) ==
    IF p = Nil THEN [t EXCEPT !.root = new]
    ELSE IF t.node[p].left = old THEN [t EXCEPT !.node[p].left = new]
    ELSE [t EXCEPT !.node[p].right = new]

\* rb_rotate_left for side "left", rb_rotate_right for "right": the child of n on
\* the other side takes its place.
Rotate(t, n, side) ==
    LET up == t.node[n][Flip(side)]
        in == t.node[up][side]
        t1 == SetParent([t EXCEPT !.node[n][Flip(side)] = in], in, n)
        t2 == [t1 EXCEPT !.node[up][side] = n, !.node[up].parent = t.node[n].parent]
    IN  SetParent(Relink(t2, t.node[n].parent, n, up), n, up)

RECURSIVE rb_insert_color(_, _)
rb_insert_color(t, n) ==
    LET p == t.node[n].parent IN
    IF ~IsRed(t, p) THEN Paint(t, t.root, FALSE)
    ELSE LET g == t.node[p].parent
             side == IF t.node[g].left = p THEN "left" ELSE "right"
             u == t.node[g][Flip(side)]
             inner == t.node[p][Flip(side)] = n
             t1 == IF inner THEN Rotate(t, p, side) ELSE t
             p1 == IF inner THEN n ELSE p
             n1 == IF inner THEN p ELSE n
         IN  IF IsRed(t, u) THEN rb_insert_color(Paint(Paint(Paint(t, u, FALSE), p, FALSE), g, TRUE), g)
             ELSE rb_insert_color(Rotate(Paint(Paint(t1, p1, FALSE), g, TRUE), g, Flip(side)), n1)

\* The walk of the callers: the node under which k goes, and on which side.
RECURSIVE Place(_, _, _)
Place(t, n, k) ==
    LET side == IF k < n THEN "left" ELSE "right" IN
    IF t.node[n][side] = Nil THEN <<n, side>> ELSE Place(t, t.node[n][side], k)

\* rb_link_node: a red leaf.
rb_link_node(t, k) ==
    IF t.root = Nil THEN [t EXCEPT !.root = k, !.node[k] = [NoNode EXCEPT !.red = TRUE]]
    ELSE LET at == Place(t, t.root, k)
         IN  [t EXCEPT !.node[k] = [NoNode EXCEPT !.red = TRUE, !.parent = at[1]], !.node[at[1]][at[2]] = k]

\* n (Nil or black) is one black short below p.
RECURSIVE rb_erase_color(_, _, _)
rb_erase_color(t, n, p) ==
    IF IsRed(t, n) \/ n = t.root THEN IF n = Nil THEN t ELSE Paint(t, n, FALSE)
    ELSE LET side == IF t.node[p].left = n THEN "left" ELSE "right"
             s0 == t.node[p][Flip(side)]
             t1 == IF IsRed(t, s0) THEN Rotate(Paint(Paint(t, s0, FALSE), p, TRUE), p, side) ELSE t
             s1 == t1.node[p][Flip(side)]
             near == t1.node[s1][side]
             far == t1.node[s1][Flip(side)]
             t2 == IF IsRed(t1, far) THEN t1
                   ELSE Rotate(Paint(Paint(t1, near, FALSE), s1, TRUE), s1, Flip(side))
             s2 == t2.node[p][Flip(side)]
             t3 == Paint(Paint(Paint(t2, s2, t2.node[p].red), p, FALSE), t2.node[s2][Flip(side)], FALSE)
         IN  IF ~IsRed(t1, near) /\ ~IsRed(t1, far)
             THEN rb_erase_color(Paint(t1, s1, TRUE), p, t1.node[p].parent)
             ELSE LET t4 == Rotate(t3, p, side) IN Paint(t4, t4.root, FALSE)

RECURSIVE Leftmost(_, _)
Leftmost(t, n) == IF t.node[n].left = Nil THEN n ELSE Leftmost(t, t.node[n].left)

\* Mutant of Splice: the child of the successor keeps its old parent.
SpliceForgetsChild(t, old, s) ==
    LET p == t.node[s].parent IN
    IF p = old THEN t
    ELSE SetParent([t EXCEPT !.node[p].left = t.node[s].right, !.node[s].right = t.node[old].right],
                   t.node[old].right, s)

\* The successor s of old leaves its place, if that is not right below old.
Splice(t, old, s) ==
    LET p == t.node[s].parent
        c == t.node[s].right
    IN  IF p = old THEN t
        ELSE SetParent(SetParent([t EXCEPT !.node[p].left = c, !.node[s].right = t.node[old].right], c, p),
                       t.node[old].right, s)

rb_erase(t, n) ==
    LET L == t.node[n].left
        R == t.node[n].right
        s == Leftmost(t, R)
        c == IF L = Nil THEN R ELSE IF R = Nil THEN L ELSE t.node[s].right
        both == L # Nil /\ R # Nil
        p == IF both THEN IF t.node[s].parent = n THEN s ELSE t.node[s].parent ELSE t.node[n].parent
        red == IF both THEN t.node[s].red ELSE t.node[n].red
        t1 == IF both
              THEN LET u == Splice(Relink(t, t.node[n].parent, n, s), n, s)
                   IN  SetParent([u EXCEPT !.node[s].parent = t.node[n].parent, !.node[s].red = t.node[n].red,
                                           !.node[s].left = L], L, s)
              ELSE Relink(SetParent(t, c, p), p, n, c)
        t2 == IF red THEN t1 ELSE rb_erase_color(t1, c, p)
    IN  [t2 EXCEPT !.node[n] = NoNode]

RECURSIVE Under(_, _)
Under(t, n) == IF n = Nil THEN {} ELSE {n} \cup Under(t, t.node[n].left) \cup Under(t, t.node[n].right)

rb_insert(k) ==
    /\ k \notin Under(tree, tree.root)
    /\ tree' = rb_insert_color(rb_link_node(tree, k), k)

rb_remove(k) ==
    /\ k \in Under(tree, tree.root)
    /\ tree' = rb_erase(tree, k)

RbNext == \E k \in RbKeys : rb_insert(k) \/ rb_remove(k)

RbSpec == RbInit /\ [][RbNext]_tree

----------------------------------------------------------------------------
\* The black nodes on every way down from n, or -1 if two ways differ.
RECURSIVE BlackHeight(_, _)
BlackHeight(t, n) ==
    IF n = Nil THEN 0
    ELSE LET l == BlackHeight(t, t.node[n].left)
             r == BlackHeight(t, t.node[n].right)
         IN  IF l # r \/ l = -1 THEN -1 ELSE l + IF t.node[n].red THEN 0 ELSE 1

\* rb_next: down to the right, or up out of right subtrees.
RECURSIVE Climb(_, _)
Climb(t, n) == LET p == t.node[n].parent IN IF p # Nil /\ t.node[p].right = n THEN Climb(t, p) ELSE p
rb_next(t, n) == IF t.node[n].right # Nil THEN Leftmost(t, t.node[n].right) ELSE Climb(t, n)

RECURSIVE WalkFrom(_, _, _)
WalkFrom(t, n, i) == IF n = Nil \/ i = 0 THEN {} ELSE {n} \cup WalkFrom(t, rb_next(t, n), i - 1)

\* Through every order of insertions and removals the tree stays balanced (no red
\* node below a red one, as many black ones on every way down), its links up and
\* down agree, the keys are in order, and rb_first and rb_next visit all of them.
RbOK ==
    LET N == Under(tree, tree.root) IN
    /\ BlackHeight(tree, tree.root) # -1 /\ ~IsRed(tree, tree.root)
    /\ tree.root # Nil => tree.node[tree.root].parent = Nil
    /\ \A n \in N : \A c \in {tree.node[n].left, tree.node[n].right} \ {Nil} :
           tree.node[c].parent = n /\ ~(tree.node[n].red /\ tree.node[c].red)
    /\ \A n \in N : /\ \A k \in Under(tree, tree.node[n].left) : k < n
                    /\ \A k \in Under(tree, tree.node[n].right) : k > n
    /\ tree.root # Nil =>
           WalkFrom(tree, Leftmost(tree, tree.root), Cardinality(N)) = N
=============================================================================
