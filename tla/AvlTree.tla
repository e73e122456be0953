------------------------------- MODULE AvlTree -------------------------------
(***************************************************************************)
(* The ordered map of test-canfd/src/avl_tree.c, as operators on a tree: a *)
(* node is its key, and beside the links of the balanced tree every node   *)
(* is in a doubly linked list in the order of the keys.                    *)
(***************************************************************************)
EXTENDS Integers, Sequences

Nil == -1        \* the NULL pointer; keys are natural numbers

NewTree(keys) == [root |-> Nil, first |-> Nil, last |-> Nil,
                  left |-> [k \in keys |-> Nil], right |-> [k \in keys |-> Nil],
                  prev |-> [k \in keys |-> Nil], next |-> [k \in keys |-> Nil],
                  height |-> [k \in keys |-> 0]]

Height(t, n) == IF n = Nil THEN 0 ELSE t.height[n]
BalanceFactor(t, n) == IF n = Nil THEN 0 ELSE Height(t, t.left[n]) - Height(t, t.right[n])

UpdateHeight(t, n) ==
    LET l == Height(t, t.left[n]) r == Height(t, t.right[n])
    IN  [t EXCEPT !.height[n] = (IF l > r THEN l ELSE r) + 1]

\* A rotation, and the node that is on top after it.
RotateRight(t, n) ==
    LET c == t.left[n]
        s == [t EXCEPT !.left[n] = t.right[c], !.right[c] = n]
    IN  [tree |-> UpdateHeight(UpdateHeight(s, n), c), top |-> c]
RotateLeft(t, n) ==
    LET c == t.right[n]
        s == [t EXCEPT !.right[n] = t.left[c], !.left[c] = n]
    IN  [tree |-> UpdateHeight(UpdateHeight(s, n), c), top |-> c]

Balance(t, n) ==
    LET bf == BalanceFactor(t, n)
        rl == RotateRight(t, t.right[n])
        lr == RotateLeft(t, t.left[n])
    IN  CASE bf < -1 /\ BalanceFactor(t, t.right[n]) > 0 ->
               RotateLeft([rl.tree EXCEPT !.right[n] = rl.top], n)
          [] bf < -1 /\ BalanceFactor(t, t.right[n]) <= 0 -> RotateLeft(t, n)
          [] bf > 1 /\ BalanceFactor(t, t.left[n]) < 0 ->
               RotateRight([lr.tree EXCEPT !.left[n] = lr.top], n)
          [] bf > 1 /\ BalanceFactor(t, t.left[n]) >= 0 -> RotateRight(t, n)
          [] OTHER -> [tree |-> t, top |-> n]

\* A new leaf on the left of n comes before n in the list ...
Before(t, n, k) ==
    LET p == t.prev[n]
        s == [t EXCEPT !.first = IF n = @ THEN k ELSE @, !.next[k] = n, !.prev[n] = k]
    IN  IF p = Nil THEN s ELSE [s EXCEPT !.next[p] = k, !.prev[k] = p]

\* mutant: the next node does not learn of it
AfterHalf(t, n, k) ==
    LET q == t.next[n]
        s == [t EXCEPT !.last = IF n = @ THEN k ELSE @, !.prev[k] = n, !.next[n] = k]
    IN  IF q = Nil THEN s ELSE [s EXCEPT !.next[k] = q]

\* ... and on the right after it.
After(t, n, k) ==
    LET q == t.next[n]
        s == [t EXCEPT !.last = IF n = @ THEN k ELSE @, !.prev[k] = n, !.next[n] = k]
    IN  IF q = Nil THEN s ELSE [s EXCEPT !.next[k] = q, !.prev[q] = k]

Leaf(t, k) == LET s == [t EXCEPT !.height[k] = 1]
              IN  IF t.first = Nil THEN [s EXCEPT !.first = k, !.last = k] ELSE s

\* _avl_insert into the subtree of n: fresh when k has become that subtree, a
\* leaf that the caller has to put into the list.  A key that is there already
\* stays, with its own node.
RECURSIVE InsertInto(_, _, _)
InsertInto(t, n, k) ==
    IF n = Nil THEN [tree |-> Leaf(t, k), top |-> k, fresh |-> TRUE]
    ELSE IF k = n THEN [tree |-> t, top |-> n, fresh |-> FALSE]
    ELSE LET sub == InsertInto(t, IF k < n THEN t.left[n] ELSE t.right[n], k)
             hung == IF k < n THEN [sub.tree EXCEPT !.left[n] = sub.top]
                              ELSE [sub.tree EXCEPT !.right[n] = sub.top]
             listed == CASE ~sub.fresh -> hung
                         [] sub.fresh /\ k < n -> Before(hung, n, k)
                         [] sub.fresh /\ k > n -> After(hung, n, k)
             b == Balance(UpdateHeight(listed, n), n)
         IN  [tree |-> b.tree, top |-> b.top, fresh |-> FALSE]

Insert(t, k) == LET r == InsertInto(t, t.root, k) IN [r.tree EXCEPT !.root = r.top]

\* avl_search: the node with the key, or Nil.
RECURSIVE SearchFrom(_, _, _)
SearchFrom(t, n, k) ==
    IF n = Nil \/ n = k THEN n
    ELSE SearchFrom(t, IF k < n THEN t.left[n] ELSE t.right[n], k)
Search(t, k) == SearchFrom(t, t.root, k)

\* list_for_each_entry, and in reverse.
RECURSIVE From(_, _)
From(link, n) == IF n = Nil THEN <<>> ELSE <<n>> \o From(link, link[n])
Listed(t) == From(t.next, t.first)
ListedBack(t) == From(t.prev, t.last)

\* avl_midorder, avl_far_left and avl_far_right.
RECURSIVE MidOrder(_, _)
MidOrder(t, n) == IF n = Nil THEN <<>>
                  ELSE MidOrder(t, t.left[n]) \o <<n>> \o MidOrder(t, t.right[n])
RECURSIVE Far(_, _)
Far(link, n) == IF n = Nil \/ link[n] = Nil THEN n ELSE Far(link, link[n])
=============================================================================
