------------------------------- MODULE RBTree -------------------------------
(***************************************************************************)
(* The red-black tree of src/rbtree: insert_node, delete_node and          *)
(* rbtree_search, one action for each iteration of their loops.  The code  *)
(* writes every fixup and rotation twice, mirrored; here they take a side. *)
(***************************************************************************)
EXTENDS Integers, FiniteSets

CONSTANT Key    \* the keys that are inserted and deleted, KEY

\* 0 stands for the key of a node that is free.
ASSUME KeyAssumption == Key \subseteq Nat \ {0} /\ IsFiniteSet(Key)

nil == 0
Node == Key     \* the memory malloc returns; its names only have to differ
Side == {"left", "right"}
Other(s) == IF s = "left" THEN "right" ELSE "left"

VARIABLES
  tree,   \* root, and the links, color, key and value of every node and of nil
  run     \* at "idle", or in the fixup of an "insert" or a "delete", at node x
vars == <<tree, run>>

Idle == [at |-> "idle", x |-> nil]

\* init_rbtree; the links of nil, which it leaves uninitialised, are never followed.
Init ==
  /\ tree = LET all(v) == [n \in Node \cup {nil} |-> v]
            IN [root |-> nil, kid |-> [s \in Side |-> all(nil)], parent |-> all(nil),
                color |-> all("black"), key |-> all(0), value |-> all(0)]
  /\ run = Idle

\* The side of the parent on which the node is; left, if it is on both.
SideOf(t, n) == IF n = t.kid.left[t.parent[n]] THEN "left" ELSE "right"

Paint(t, c, ns) == [t EXCEPT !.color = [n \in DOMAIN @ |-> IF n \in ns THEN c ELSE @[n]]]

\* t with r in the place of n under the parent p of n.
Replace(t, n, p, r) ==
  IF p = nil THEN [t EXCEPT !.root = r] ELSE [t EXCEPT !.kid[SideOf(t, n)][p] = r]

\* Node n goes down to side s, and its child of the other side takes its place;
\* the node mid that changes parents still has its old one.
RotateNoParent(t, s, n) ==
  LET o == Other(s)  up == t.kid[o][n]  mid == t.kid[s][up]
      t1 == Replace(t, n, t.parent[n], up)
  IN [t1 EXCEPT !.kid[o][n] = mid, !.kid[s][up] = n,
                !.parent[up] = t.parent[n], !.parent[n] = up]

Rotate(t, s, n) ==
  LET mid == t.kid[s][t.kid[Other(s)][n]]
      t2 == RotateNoParent(t, s, n)
  IN IF mid # nil THEN [t2 EXCEPT !.parent[mid] = n] ELSE t2

-----------------------------------------------------------------------------
(* rbtree_search, whose loop insert_node has as well.                      *)

WayBack(k, n) == IF tree.key[n] < k THEN "left" ELSE "right"

Way(k, n) == IF tree.key[n] < k THEN "right" ELSE "left"

\* The node x with key k, or nil, and the node p the search has come from.
Search(k) ==
  LET step(w) == IF w.x = nil \/ tree.key[w.x] = k THEN w
                 ELSE [x |-> tree.kid[Way(k, w.x)][w.x], p |-> w.x]
      walk[d \in 0..Cardinality(Node)] ==
        IF d = 0 THEN [x |-> tree.root, p |-> nil] ELSE step(walk[d - 1])
  IN walk[Cardinality(Node)]

-----------------------------------------------------------------------------
(* insert_node.                                                            *)

Free == {n \in Node : tree.key[n] = 0}
Malloc(k) == IF k \in Free THEN k ELSE CHOOSE n \in Free : \A m \in Free : n <= m

\* The value tells which key it was inserted with, whatever the caller stores, so
\* that a node with the value of another key shows.
Create(n, k, p) ==
  [tree EXCEPT !.color[n] = "red", !.key[n] = k, !.value[n] = k, !.parent[n] = p,
               !.kid.left[n] = nil, !.kid.right[n] = nil]

\* A key that is there is left alone.  There is memory for one node per key.
Insert(k) ==
  LET n == Malloc(k)  p == Search(k).p IN
  /\ run.at = "idle" /\ Search(k).x = nil /\ Free # {}
  /\ tree' = LET t == Create(n, k, p)
             IN IF p = nil THEN [t EXCEPT !.root = n]
                ELSE [t EXCEPT !.kid[IF t.key[p] > k THEN "left" ELSE "right"][p] = n]
  /\ run' = [at |-> "insert", x |-> n]

InsertFixup ==
  LET n == run.x  p == tree.parent[n]  g == tree.parent[p]
      s == SideOf(tree, p)  o == Other(s)  uncle == tree.kid[o][g]
  IN
  /\ run.at = "insert" /\ tree.color[p] = "red"
  /\ \/ /\ tree.color[uncle] = "red"
        /\ tree' = Paint(Paint(tree, "black", {p, uncle}), "red", {g})
        /\ run' = [run EXCEPT !.x = g]
     \/ /\ tree.color[uncle] # "red"
        /\ LET inner == n = tree.kid[o][p]
               t == IF inner THEN Rotate(tree, s, p) ELSE tree
               m == IF inner THEN p ELSE n
               q == t.parent[m]
           IN /\ tree' = Rotate(Paint(Paint(t, "black", {q}), "red", {t.parent[q]}), o, t.parent[q])
              /\ run' = [run EXCEPT !.x = m]

InsertDone ==
  /\ run.at = "insert" /\ tree.color[tree.parent[run.x]] # "red"
  /\ tree' = Paint(tree, "black", {tree.root}) /\ run' = Idle

-----------------------------------------------------------------------------
(* delete_node.                                                            *)

Mini(n) ==
  LET left(m) == IF tree.kid.left[m] = nil THEN m ELSE tree.kid.left[m]
      down[d \in 0..Cardinality(Node)] == IF d = 0 THEN n ELSE left(down[d - 1])
  IN down[Cardinality(Node)]

\* rbtree_successor of a node with a right child.
SuccessorRight(n) == tree.kid.right[n]

Successor(n) == Mini(tree.kid.right[n])

MoveKey(t, n, y) == [t EXCEPT !.key[n] = t.key[y]]

Move(t, n, y) == [t EXCEPT !.key[n] = t.key[y], !.value[n] = t.value[y]]

\* The node y that is cut out of the tree, and freed by the caller.  The callers
\* delete only what is there.
Delete(k) ==
  LET n == Search(k).x
      y == IF \E s \in Side : tree.kid[s][n] = nil THEN n ELSE Successor(n)
      x == IF tree.kid.left[y] # nil THEN tree.kid.left[y] ELSE tree.kid.right[y]
      p == tree.parent[y]
      cut == Replace([tree EXCEPT !.parent[x] = p], y, p, x)
      t == IF y = n THEN cut ELSE Move(cut, n, y)
      free == [t EXCEPT !.key[y] = 0, !.value[y] = 0, !.parent[y] = nil, !.color[y] = "black",
                        !.kid.left[y] = nil, !.kid.right[y] = nil]
  IN
  /\ run.at = "idle" /\ n # nil
  /\ tree' = free
  /\ run' = IF tree.color[y] = "black" THEN [at |-> "delete", x |-> x] ELSE Idle

Unfixed == run.x # tree.root /\ tree.color[run.x] = "black"

DeleteFixup ==
  LET n == run.x  p == tree.parent[n]  s == SideOf(tree, n)  o == Other(s)
      b == tree.kid[o][p]
      t == IF tree.color[b] = "red"
           THEN Rotate(Paint(Paint(tree, "black", {b}), "red", {p}), s, p) ELSE tree
      c == t.kid[o][p]
      near == t.kid[s][c]
      far == t.kid[o][c]
  IN
  /\ run.at = "delete" /\ Unfixed
  /\ \/ /\ t.color[near] = "black" /\ t.color[far] = "black"
        /\ tree' = Paint(t, "red", {c})
        /\ run' = [run EXCEPT !.x = p]
     \/ /\ t.color[near] # "black" \/ t.color[far] # "black"
        /\ LET u == IF t.color[far] = "black"
                    THEN Rotate(Paint(Paint(t, "black", {near}), "red", {c}), o, c) ELSE t
               d == u.kid[o][p]
               v == Paint(Paint(u, u.color[p], {d}), "black", {p, u.kid[o][d]})
           IN tree' = Rotate(v, s, p)
        /\ run' = [run EXCEPT !.x = tree'.root]

\* Nothing looks at the parent of nil any more, and here it is forgotten; the code
\* leaves it as it is until the next delete sets it.
DeleteDone ==
  /\ run.at = "delete" /\ ~ Unfixed
  /\ tree' = [Paint(tree, "black", {run.x}) EXCEPT !.parent[nil] = nil] /\ run' = Idle

-----------------------------------------------------------------------------
Loop == InsertFixup \/ InsertDone \/ DeleteFixup \/ DeleteDone

Next == Loop \/ \E k \in Key : Insert(k) \/ Delete(k)

Spec == Init /\ [][Next]_vars /\ WF_vars(Loop)
=============================================================================
