------------------------------ MODULE RBSafety ------------------------------
(***************************************************************************)
(* What makes the red-black tree one, between the calls and at every turn  *)
(* of the loops of the fixups.                                             *)
(***************************************************************************)
EXTENDS RBTree

\* n and the nodes below it.
Below(n) ==
  LET kids(ns) == UNION {{tree.kid[s][m] : s \in Side} : m \in ns}
      grow[d \in 0..Cardinality(Node)] ==
        IF d = 0 THEN {n} ELSE grow[d - 1] \cup kids(grow[d - 1])
  IN grow[Cardinality(Node)] \ {nil}

InTree == Below(tree.root)
Above(n) == {m \in InTree : n \in Below(m)}
Keys == {tree.key[n] : n \in InTree}

\* A search by keys works: the nodes are where their key sends the search, every
\* node is in one place, and its value has moved with its key.
Ordered ==
  \A n \in InTree :
    /\ \A m \in Below(tree.kid.left[n]) : tree.key[m] < tree.key[n]
    /\ \A m \in Below(tree.kid.right[n]) : tree.key[m] > tree.key[n]
    /\ tree.value[n] = tree.key[n]

\* The links to the parents are the ones to the children, backwards.
Linked ==
  /\ tree.root # nil => tree.parent[tree.root] = nil
  /\ \A n \in InTree, s \in Side :
       tree.kid[s][n] # nil => tree.parent[tree.kid[s][n]] = n

\* A red node has no red parent and is not the root, but for the node the fixup
\* is at, which a fixup of a delete paints black at its end.
RedApart ==
  LET black(n) == tree.color[n] = "black" \/ (run.at = "delete" /\ n = run.x) IN
  /\ tree.color[nil] = "black"
  /\ \A n \in InTree :
       (~ black(n) /\ ~ (run.at = "insert" /\ n = run.x))
         => (n # tree.root /\ black(tree.parent[n]))

\* The black nodes above the missing child of n on side s.  A fixup of a delete
\* owes the node it is at, which may be the missing child itself, one more.
Blacks(n, s) ==
  LET above == Above(n)
      owed == /\ run.at = "delete"
              /\ \/ run.x \in above
                 \/ run.x = nil /\ tree.parent[nil] = n /\ s = SideOf(tree, nil)
  IN Cardinality({m \in above : tree.color[m] = "black"}) + IF owed THEN 1 ELSE 0

\* All ways down the tree have as many black nodes.
SameHeight ==
  LET ends == {e \in InTree \X Side : tree.kid[e[2]][e[1]] = nil}
  IN Cardinality({Blacks(e[1], e[2]) : e \in ends}) <= 1

\* A search between calls finds every key of the tree, and no other one.
Findable == run.at = "idle" => \A k \in Key : Search(k).x # nil <=> k \in Keys

\* The tree is a red-black tree between calls, and a fixup is at the one place
\* where it is not, after any sequence of inserts and deletes.
Balanced == Ordered /\ Linked /\ RedApart /\ SameHeight /\ Findable

\* A call inserts or deletes its own key and no other one, and the rotations of the
\* fixups lose none.
KeysKept ==
  [][ /\ \A k \in Key : Insert(k) => Keys' = Keys \cup {k}
      /\ \A k \in Key : Delete(k) => Keys' = Keys \ {k}
      /\ Loop => Keys' = Keys ]_vars

\* The loop of a fixup ends.
FixupEnds == run.at # "idle" ~> run.at = "idle"
=============================================================================
