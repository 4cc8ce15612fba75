------------------------------- MODULE RBProof ------------------------------
(***************************************************************************)
(* Proofs about the red-black tree for any set of keys.  First what the    *)
(* parts of the code do to a search tree t: the loops that go down the     *)
(* tree, a rotation, painting, and each step of the two fixups; u gives    *)
(* the nodes below a node, and h its black height.  Then RBInv, which is   *)
(* true between the calls and at every turn of the fixups, is inductive,   *)
(* and gives Balanced and KeysKept.                                        *)
(***************************************************************************)
EXTENDS RBSafety, TLAPS, FiniteSetTheorems, WellFoundedInduction

-----------------------------------------------------------------------------
(* Loops and least counterexamples.                                        *)

\* A set of subsets of a finite set that is not empty has one that contains no other.
LEMMA LeastSet ==
  ASSUME NEW B, IsFiniteSet(B), NEW F, F \subseteq SUBSET B, F # {}
  PROVE  \E S \in F : \A T \in F : T \subseteq S => T = S
<1>1. IsWellFoundedOn(StrictSubsetOrdering(B), FiniteSubsetsOf(B))
  BY FS_StrictSubsetOrderingWellFounded
<1>2. F \subseteq FiniteSubsetsOf(B)
  BY FS_FiniteSubsetsOfFinite
<1>3. PICK S \in F : \A T \in F : ~ (<<T, S>> \in StrictSubsetOrdering(B))
  BY <1>1, <1>2, WFMin
<1>4. \A T \in F : T \subseteq S => T = S
  BY <1>3 DEF StrictSubsetOrdering
<1> QED
  BY <1>4

\* M gives each element of W a subset of the finite set B.
Measure(M, W, B) == M \in [W -> SUBSET B] /\ IsFiniteSet(B)

\* Some element of W has a measure that is above no other one.
HasLeast(M, W) == \E w \in W : \A v \in W : M[v] \subseteq M[w] => M[v] = M[w]

\* With a measure, W has such an element if it has any: the counterexample that an
\* induction looks at.
LEMMA LeastBy ==
  ASSUME NEW B, NEW W, W # {}, NEW M, Measure(M, W, B)
  PROVE  HasLeast(M, W)
<1> DEFINE F == {M[w] : w \in W}
<1>1. F \subseteq SUBSET B /\ F # {} /\ IsFiniteSet(B)
  BY DEF Measure
<1> HIDE DEF F
<1>2. PICK S \in F : \A T \in F : T \subseteq S => T = S
  BY <1>1, LeastSet
<1>3. PICK w \in W : S = M[w]
  BY DEF F
<1>4. \A v \in W : M[v] \in F
  BY DEF F
<1> QED
  BY <1>2, <1>3, <1>4 DEF HasLeast

\* The same for numbers up to N.
LEMMA LeastNumber ==
  ASSUME NEW N \in Nat, NEW W, W \subseteq 0..N, W # {}
  PROVE  \E n \in W : \A m \in W : n <= m
<1> DEFINE M == [n \in W |-> 0..n]
<1>2. Measure(M, W, 0..N)
  BY FS_Interval DEF Measure
<1>3. \A n, m \in W : M[m] = 0..m /\ (M[n] = 0..n)
  OBVIOUS
<1> HIDE DEF M
<1>1. \A n \in W : n \in 0..N
  OBVIOUS
<1>0. HasLeast(M, W)
  BY <1>2, LeastBy
<1>4. PICK n \in W : \A m \in W : M[m] \subseteq M[n] => M[m] = M[n]
  BY <1>0, <1>1 DEF HasLeast
<1>5. ASSUME NEW m \in W, ~ (n <= m) PROVE FALSE
  <2>1. m \in Nat /\ n \in Nat /\ M[m] = 0..m /\ M[n] = 0..n
    BY <1>3
  <2>3. 0..m \subseteq 0..n
    BY <2>1, <1>5
  <2>4. 0..m = 0..n
    BY <1>4, <2>1, <2>3
  <2>2. n \in 0..m
    BY <2>1, <2>4
  <2> QED
    BY <2>1, <2>2, <1>5
<1> QED
  BY <1>5

\* f is the sequence of values of a loop with body G: what a recursive function on
\* 0..N such as the one in Search stands for.
Turns(N, D, G, f) ==
  /\ N \in Nat /\ G \in [D -> D] /\ f \in [0..N -> D]
  /\ \A d \in 1..N : f[d] = G[f[d - 1]]

\* Each turn of the loop ends it or makes the measure of its value less.
Shrinks(M, D, G, B) ==
  /\ IsFiniteSet(B) /\ M \in [D -> SUBSET B]
  /\ \A w \in D : G[w] = w \/ (M[G[w]] \subseteq M[w] /\ M[G[w]] # M[w])

\* The recursive function is there: it has a value for each of its arguments.
LEMMA LoopExists ==
  ASSUME NEW N \in Nat, NEW D, NEW a \in D, NEW G \in [D -> D]
  PROVE  \E f : Turns(N, D, G, f) /\ f[0] = a
<1> DEFINE Runs(n, f) == f \in [0..n -> D] /\ f[0] = a /\ \A d \in 1..n : f[d] = G[f[d - 1]]
           W == {n \in 0..N : ~ \E f : Runs(n, f)}
<1>1. SUFFICES ASSUME W # {} PROVE FALSE
  <2>1. N \notin W
    BY <1>1
  <2>2. \E f : Runs(N, f)
    BY <2>1
  <2> QED
    BY <2>2 DEF Turns
<1>2. W \subseteq 0..N
  OBVIOUS
<1> HIDE DEF W
<1>3. PICK n \in W : \A m \in W : n <= m
  BY <1>1, <1>2, LeastNumber
<1>4. n \in 0..N /\ ~ \E f : Runs(n, f)
  BY DEF W
<1>5. CASE n = 0
  <2>1. Runs(0, [d \in 0..0 |-> a])
    OBVIOUS
  <2> QED
    BY <2>1, <1>4, <1>5
<1>6. CASE n # 0
  <2>1. n - 1 \in 0..N /\ n - 1 \notin W
    BY <1>3, <1>4, <1>6
  <2>2. PICK f : Runs(n - 1, f)
    BY <2>1 DEF W
  <2> DEFINE g == [d \in 0..n |-> IF d = n THEN G[f[n - 1]] ELSE f[d]]
  <2>3. \A d \in 0..n : d # n => d \in 0..(n - 1)
    BY <1>4
  <2>4. n - 1 \in 0..(n - 1) /\ f[n - 1] \in D
    BY <1>4, <1>6, <2>2
  <2>5. g \in [0..n -> D]
    BY <2>2, <2>3, <2>4
  <2>6. g[0] = a
    BY <1>4, <1>6, <2>2
  <2>7. ASSUME NEW d \in 1..n PROVE g[d] = G[g[d - 1]]
    <3>1. d - 1 \in 0..n /\ d - 1 # n /\ d \in 0..n
      BY <1>4
    <3>2. g[d - 1] = f[d - 1]
      BY <3>1
    <3>3. CASE d = n
      BY <3>1, <3>2, <3>3
    <3>4. CASE d # n
      BY <3>1, <3>2, <3>4, <2>2, <1>4
    <3> QED
      BY <3>3, <3>4
  <2>8. Runs(n, g)
    BY <2>5, <2>6, <2>7
  <2> QED
    BY <2>8, <1>4
<1> QED
  BY <1>5, <1>6

\* A loop whose measure is a subset of B has come to its end after as many turns as
\* B has elements; for the loops of the tree, the number of nodes.
LEMMA LoopEnds ==
  ASSUME NEW N, NEW D, NEW G, NEW f, Turns(N, D, G, f),
         NEW B, NEW M, Shrinks(M, D, G, B), N = Cardinality(B)
  PROVE  f[N] \in D /\ G[f[N]] = f[N]
<1> DEFINE Goes(d) == G[f[d]] = f[d] \/ Cardinality(M[f[d]]) <= N - d
           W == {d \in 0..N : ~ Goes(d)}
<1>0. IsFiniteSet(B) /\ M \in [D -> SUBSET B] /\ G \in [D -> D]
  BY DEF Shrinks, Turns
<1>1. N \in Nat /\ \A w \in D : IsFiniteSet(M[w]) /\ Cardinality(M[w]) \in Nat /\ Cardinality(M[w]) <= N
  BY <1>0, FS_CardinalityType, FS_Subset
<1>2. \A w \in D : G[w] = w \/ Cardinality(M[G[w]]) < Cardinality(M[w])
  BY <1>0, <1>1, FS_Subset DEF Shrinks
<1>n. N \in Nat
  BY <1>1
<1>3. f \in [0..N -> D] /\ \A d \in 1..N : f[d] = G[f[d - 1]]
  BY DEF Turns
<1>4. Goes(0)
  <2>1. f[0] \in D
    <3> 0 \in 0..N
      BY <1>n
    <3> QED
      BY <1>3
  <2>2. Cardinality(M[f[0]]) <= N - 0
    BY <1>1, <2>1
  <2> QED
    BY <2>2
<1>5. ASSUME NEW d \in 1..N, Goes(d - 1) PROVE Goes(d)
  <2>1. d - 1 \in 0..N /\ d \in 0..N /\ f[d - 1] \in D /\ f[d] \in D /\ f[d] = G[f[d - 1]]
    <3>1. d - 1 \in 0..N /\ d \in 0..N
      BY <1>n
    <3> QED
      BY <1>3, <3>1
  <2>2. CASE G[f[d - 1]] = f[d - 1]
    BY <2>1, <2>2
  <2>3. CASE G[f[d - 1]] # f[d - 1]
    <3>1. Cardinality(M[f[d]]) < Cardinality(M[f[d - 1]])
      BY <1>2, <2>1, <2>3
    <3>2. Cardinality(M[f[d - 1]]) <= N - (d - 1)
      BY <1>5, <2>3
    <3>3. Cardinality(M[f[d]]) \in Nat /\ Cardinality(M[f[d - 1]]) \in Nat
      BY <1>1, <2>1
    <3> QED
      BY <3>1, <3>2, <3>3, <1>1
  <2> QED
    BY <2>2, <2>3
<1>6. W = {}
  <2> SUFFICES ASSUME W # {} PROVE FALSE
    OBVIOUS
  <2>1. W \subseteq 0..N
    OBVIOUS
  <2> HIDE DEF Goes
  <2>2. PICK d \in W : \A e \in W : d <= e
    <3> HIDE DEF W
    <3> QED
      BY <1>1, <2>1, LeastNumber
  <2>3. d \in 0..N /\ ~ Goes(d)
    OBVIOUS
  <2>4. d # 0
    BY <2>3, <1>4
  <2>5. d \in 1..N /\ d - 1 \in 0..N /\ ~ (d <= d - 1)
    BY <2>3, <2>4, <1>1
  <2>6. Goes(d - 1)
    BY <2>2, <2>5
  <2> QED
    BY <2>3, <2>5, <2>6, <1>5
<1>7. N \in 0..N /\ f[N] \in D /\ Goes(N)
  <2>1. N \in 0..N
    BY <1>n
  <2>2. N \notin W
    BY <1>6
  <2> QED
    BY <1>3, <2>1, <2>2
<1>8. G[f[N]] # f[N] => FALSE
  <2> SUFFICES ASSUME G[f[N]] # f[N] PROVE FALSE
    OBVIOUS
  <2>0. f[N] \in D /\ G[f[N]] \in D
    BY <1>0, <1>7
  <2>1. Cardinality(M[f[N]]) <= N - N /\ Cardinality(M[f[N]]) \in Nat /\ Cardinality(M[G[f[N]]]) \in Nat
    BY <1>1, <1>7, <2>0
  <2>2. Cardinality(M[G[f[N]]]) < Cardinality(M[f[N]])
    BY <1>2, <1>7
  <2> QED
    BY <2>1, <2>2, <1>1
<1> QED
  BY <1>7, <1>8

\* g does the same turns, wherever it is.
Follows(N, D, G, g) == \A d \in 1..N : g[d - 1] \in D => g[d] = G[g[d - 1]]

\* Two loops that start alike end alike, so the function that CHOOSE picks is this one.
LEMMA LoopUnique ==
  ASSUME NEW N, NEW D, NEW G, NEW f, Turns(N, D, G, f),
         NEW g, Follows(N, D, G, g), g[0] = f[0]
  PROVE  g[N] = f[N]
<1> DEFINE W == {d \in 0..N : g[d] # f[d]}
<1>0. N \in Nat /\ f \in [0..N -> D] /\ \A d \in 1..N : f[d] = G[f[d - 1]]
  BY DEF Turns
<1>1. W = {}
  <2>1. SUFFICES ASSUME W # {} PROVE FALSE
    OBVIOUS
  <2>2. W \subseteq 0..N
    OBVIOUS
  <2>3. PICK d \in W : \A e \in W : d <= e
    <3> HIDE DEF W
    <3> QED
      BY <1>0, <2>1, <2>2, LeastNumber
  <2>4. d \in 0..N /\ g[d] # f[d]
    OBVIOUS
  <2>5. d \in 1..N /\ d - 1 \in 0..N /\ ~ (d <= d - 1)
    BY <1>0, <2>4
  <2>6. g[d - 1] = f[d - 1]
    BY <2>3, <2>5
  <2>7. f[d - 1] \in D
    BY <1>0, <2>5
  <2> QED
    BY <1>0, <2>4, <2>5, <2>6, <2>7 DEF Follows
<1>2. N \in 0..N
  BY <1>0
<1> QED
  BY <1>1, <1>2

-----------------------------------------------------------------------------
(* The search tree.                                                        *)

\* What the fields of a node hold: nodes, and nil.
Link == Node \cup {nil}

\* The type of tree; a key is a node, as the memory for nodes is Key.
TreeType ==
  [root : Link, kid : [Side -> [Link -> Link]], parent : [Link -> Link],
   color : [Link -> {"red", "black"}], key : [Link -> Link], value : [Link -> Link]]

\* The nodes that are in the tree: malloc has given them out.
Used(t) == {n \in Node : t.key[n] # 0}

\* The order of two keys on a side.
Before(s, a, b) == IF s = "left" THEN a < b ELSE a > b

\* The links of the tree: only nodes in use have children, which are in use and
\* have them as parent, and every node but the root is a child.
Links(t) ==
  /\ t.key[nil] = 0 /\ t.root \in Used(t) \cup {nil}
  /\ \A n \in Link, s \in Side : n \notin Used(t) => t.kid[s][n] = nil
  /\ t.root # nil => t.parent[t.root] = nil
  /\ \A n \in Used(t), s \in Side :
       t.kid[s][n] # nil => t.kid[s][n] \in Used(t) /\ t.parent[t.kid[s][n]] = n
  /\ \A n \in Used(t) :
       n # t.root => t.parent[n] \in Used(t) /\ \E s \in Side : t.kid[s][t.parent[n]] = n

\* u[n] is the nodes below n, and n: those of its children, that share none.
Forks(t, u) ==
  /\ u \in [Link -> SUBSET Node] /\ u[nil] = {} /\ u[t.root] = Used(t)
  /\ \A n \in Used(t), s \in Side :
       /\ u[n] = {n} \cup u[t.kid[s][n]] \cup u[t.kid[Other(s)][n]]
       /\ n \notin u[t.kid[s][n]]
       /\ u[t.kid[s][n]] \cap u[t.kid[Other(s)][n]] = {}

\* A value belongs to its key, and the keys below on a side are on that side.
Sorted(t, u) ==
  \A n \in Used(t) :
    /\ t.value[n] = t.key[n]
    /\ \A s \in Side : \A m \in u[t.kid[s][n]] : Before(s, t.key[m], t.key[n])

\* t is a search tree, and u says what is below each of its nodes.
Shape(t, u) == t \in TreeType /\ Links(t) /\ Forks(t, u) /\ Sorted(t, u)

\* The two sides mirror each other, and so do the orders on them.
LEMMA Sides ==
  /\ \A s \in Side : Other(s) \in Side /\ Other(s) # s /\ Other(Other(s)) = s /\ Side = {s, Other(s)}
  /\ \A s \in Side, a, b \in Int : /\ ~ (Before(s, a, b) /\ Before(Other(s), a, b))
                                   /\ Before(s, a, b) <=> Before(Other(s), b, a)
                                   /\ Before(s, a, b) => a # b
  /\ \A s \in Side, a, b, c \in Int : Before(s, a, b) /\ Before(s, b, c) => Before(s, a, c)
  BY DEF Side, Other, Before

\* There are finitely many nodes; nil is none of them; all are numbers.
LEMMA Finite == IsFiniteSet(Node) /\ Cardinality(Node) \in Nat /\ nil \notin Node /\ Link \subseteq Int
  BY KeyAssumption, FS_CardinalityType DEF Node, nil, Link

\* Below a child is less than below its parent: what an induction down the tree uses.
LEMMA Smaller ==
  ASSUME NEW t, NEW u, Shape(t, u), NEW n \in Used(t), NEW s \in Side
  PROVE  /\ n \in Node /\ n # nil /\ n \in Link /\ n \in u[n]
         /\ t.kid[s][n] \in Link
         /\ u[t.kid[s][n]] \subseteq u[n] /\ u[t.kid[s][n]] # u[n]
         /\ t.kid[s][n] # nil => t.kid[s][n] \in Used(t) /\ t.kid[s][n] # n
<1>1. n \in Node /\ n # nil /\ n \in Link
  BY Finite DEF Used, Link
<1>2. t.kid[s][n] \in Link
  BY <1>1 DEF Shape, TreeType
<1>3. /\ u[n] = {n} \cup u[t.kid[s][n]] \cup u[t.kid[Other(s)][n]]
      /\ n \notin u[t.kid[s][n]]
  BY DEF Shape, Forks
<1>4. t.kid[s][n] # nil => t.kid[s][n] \in Used(t)
  BY DEF Shape, Links
<1> QED
  BY <1>1, <1>2, <1>3, <1>4

\* What a link leads to is a node of the tree, whose parent is where it starts.
LEMMA KidOf ==
  ASSUME NEW t, NEW u, Shape(t, u), NEW n \in Used(t), NEW s \in Side, t.kid[s][n] # nil
  PROVE  /\ t.kid[s][n] \in Used(t) /\ t.kid[s][n] # n /\ t.kid[s][n] \in Link
         /\ t.parent[t.kid[s][n]] = n
<1>1. t.kid[s][n] \in Used(t) /\ t.kid[s][n] # n /\ t.kid[s][n] \in Link
  BY Smaller
<1>2. t.parent[t.kid[s][n]] = n
  BY DEF Shape, Links
<1> QED
  BY <1>1, <1>2

\* What is below a node below n is below n, and so is its parent.
LEMMA Nested ==
  ASSUME NEW t, NEW u, Shape(t, u)
  PROVE  \A n \in Used(t), v \in Node : v \in u[n] =>
           /\ v \in Used(t) /\ u[v] \subseteq u[n]
           /\ v # n => t.parent[v] \in u[n] /\ t.parent[v] \in Used(t)
<1> DEFINE Good(n) == \A v \in Node : v \in u[n] =>
                        /\ v \in Used(t) /\ u[v] \subseteq u[n]
                        /\ v # n => t.parent[v] \in u[n] /\ t.parent[v] \in Used(t)
           W == {n \in Used(t) : ~ Good(n)}
<1>1. SUFFICES ASSUME W # {} PROVE FALSE
  OBVIOUS
<1>2. Measure([n \in W |-> u[n]], W, Node)
  <2>1. \A n \in W : n \in Link
    BY DEF Used, Link
  <2> QED
    BY <2>1, Finite DEF Measure, Shape, Forks
<1>3. HasLeast([n \in W |-> u[n]], W)
  BY <1>1, <1>2, LeastBy
<1>4. PICK n \in W : \A m \in W : u[m] \subseteq u[n] => u[m] = u[n]
  BY <1>3 DEF HasLeast
<1>5. n \in Used(t) /\ ~ Good(n)
  OBVIOUS
<1>6. \A s \in Side : t.kid[s][n] # nil => Good(t.kid[s][n])
  BY <1>4, <1>5, Smaller
<1> HIDE DEF W
<1>7. ASSUME NEW v \in Node, v \in u[n], v # n
      PROVE  /\ v \in Used(t) /\ u[v] \subseteq u[n]
             /\ t.parent[v] \in u[n] /\ t.parent[v] \in Used(t)
  <2>1. PICK s \in Side : v \in u[t.kid[s][n]]
    BY <1>5, <1>7, Sides DEF Shape, Forks, Side
  <2>2. t.kid[s][n] # nil /\ u[t.kid[s][n]] \subseteq u[n] /\ n \in u[n]
    BY <2>1, <1>5, Smaller DEF Shape, Forks
  <2>3. Good(t.kid[s][n])
    BY <1>6, <2>2
  <2>4. t.kid[s][n] \in Used(t) /\ t.parent[t.kid[s][n]] = n
    BY <2>2, <1>5 DEF Shape, Links
  <2> QED
    BY <1>5, <2>1, <2>2, <2>3, <2>4
<1> QED
  BY <1>5, <1>7

\* No two nodes have the same key.
LEMMA Distinct ==
  ASSUME NEW t, NEW u, Shape(t, u)
  PROVE  \A m, n \in Used(t) : m # n => t.key[m] # t.key[n]
<1> DEFINE Good(r) == \A m, n \in Node : m \in u[r] /\ n \in u[r] /\ m # n => t.key[m] # t.key[n]
           W == {r \in Used(t) : ~ Good(r)}
<1>1. W = {}
  <2>1. SUFFICES ASSUME W # {} PROVE FALSE
    OBVIOUS
  <2>2. Measure([n \in W |-> u[n]], W, Node)
    <3>1. \A n \in W : n \in Link
      BY DEF Used, Link
    <3> QED
      BY <3>1, Finite DEF Measure, Shape, Forks
  <2>3. HasLeast([n \in W |-> u[n]], W)
    BY <2>1, <2>2, LeastBy
  <2>4. PICK r \in W : \A m \in W : u[m] \subseteq u[r] => u[m] = u[r]
    BY <2>3 DEF HasLeast
  <2>5. r \in Used(t) /\ ~ Good(r)
    OBVIOUS
  <2>6. \A s \in Side : t.kid[s][r] # nil => Good(t.kid[s][r])
    BY <2>4, <2>5, Smaller
  <2> HIDE DEF W
  <2>7. ASSUME NEW m \in Node, NEW n \in Node, m \in u[r], n \in u[r], m # n PROVE t.key[m] # t.key[n]
    <3>0. \A v \in Node : t.key[v] \in Int
      BY Finite DEF Shape, TreeType, Link
    <3>00. r \in Node
      BY <2>5 DEF Used
    <3>1. CASE m = r \/ n = r
      <4>1. \A v \in Node : v \in u[r] /\ v # r => t.key[v] # t.key[r]
        <5> TAKE v \in Node
        <5> HAVE v \in u[r] /\ v # r
        <5>1. PICK s \in Side : v \in u[t.kid[s][r]]
          BY <2>5, Sides DEF Shape, Forks, Side
        <5>2. Before(s, t.key[v], t.key[r])
          BY <5>1, <2>5 DEF Shape, Sorted
        <5> QED
          BY <5>2, <3>0, <3>00, Sides
      <4> QED
        BY <4>1, <3>1, <2>7
    <3>2. CASE m # r /\ n # r
      <4>1. PICK s \in Side : m \in u[t.kid[s][r]]
        BY <2>5, <2>7, <3>2, Sides DEF Shape, Forks, Side
      <4>2. CASE n \in u[t.kid[s][r]]
        <5>1. t.kid[s][r] # nil
          BY <4>1 DEF Shape, Forks
        <5> QED
          BY <5>1, <2>6, <2>7, <4>1, <4>2
      <4>3. CASE n \notin u[t.kid[s][r]]
        <5>1. n \in u[t.kid[Other(s)][r]]
          BY <2>5, <2>7, <3>2, <4>3 DEF Shape, Forks
        <5>2. Before(s, t.key[m], t.key[r]) /\ Before(Other(s), t.key[n], t.key[r])
          BY <4>1, <5>1, <2>5, Sides DEF Shape, Sorted
        <5> QED
          BY <5>2, <3>0, <3>00, Sides
      <4> QED
        BY <4>2, <4>3
    <3> QED
      BY <3>1, <3>2
  <2> QED
    BY <2>5, <2>7
<1>2. Used(t) # {} => t.root \in Used(t) /\ u[t.root] = Used(t)
  BY DEF Shape, Links, Forks
<1>3. Used(t) # {} => Good(t.root)
  BY <1>1, <1>2
<1>4. Used(t) \subseteq Node
  BY DEF Used
<1> QED
  BY <1>2, <1>3, <1>4

-----------------------------------------------------------------------------
(* Below, Search and Mini are loops that go down a tree.                   *)

\* Below, which follows the links as often as there are nodes, finds what u says.
LEMMA BelowIs ==
  ASSUME NEW u, Shape(tree, u), NEW n \in Used(tree) \cup {nil}
  PROVE  Below(n) = u[n]
<1> DEFINE kids(ns) == UNION {{tree.kid[s][m] : s \in Side} : m \in ns}
           N == Cardinality(Node)
           D == {S \in SUBSET Link : n \in S /\ S \subseteq u[n] \cup {n, nil}}
           G == [S \in D |-> S \cup kids(S)]
           B == Link \ {n}
           M == [S \in D |-> Link \ S]
           Is(f) == f = [d \in 0..N |-> IF d = 0 THEN {n} ELSE f[d - 1] \cup kids(f[d - 1])]
           grow == CHOOSE f : Is(f)
<1>1. n \in Link /\ nil \in Link /\ N \in Nat /\ u[nil] = {}
  BY Finite DEF Used, Link, Shape, Forks
<1>2. IsFiniteSet(B) /\ Cardinality(B) = N
  <2>1. IsFiniteSet(Link) /\ Cardinality(Link) = N + 1
    BY Finite, FS_AddElement DEF Link
  <2> QED
    BY <1>1, <2>1, FS_RemoveElement
<1>3. \A m \in Link, s \in Side : m \in u[n] \cup {n, nil} => tree.kid[s][m] \in Link /\ tree.kid[s][m] \in u[n] \cup {n, nil}
  <2> TAKE m \in Link, s \in Side
  <2> HAVE m \in u[n] \cup {n, nil}
  <2>1. tree.kid[s][m] \in Link
    BY DEF Shape, TreeType
  <2>2. CASE m \notin Used(tree)
    BY <2>1, <2>2 DEF Shape, Links
  <2>3. CASE m \in Used(tree) /\ tree.kid[s][m] # nil
    <3>1. m \in u[n]
      BY <2>3, <1>1, Smaller, Finite DEF Used
    <3>2. n \in Used(tree)
      BY <3>1, <1>1
    <3>3. u[m] \subseteq u[n]
      BY <3>1, <3>2, <2>3, Nested DEF Used
    <3>4. tree.kid[s][m] \in u[m]
      BY <2>3, Smaller
    <3> QED
      BY <2>1, <3>3, <3>4
  <2> QED
    BY <2>1, <2>2, <2>3
<1>4. {n} \in D /\ \A S \in D : kids(S) \subseteq Link /\ S \cup kids(S) \in D
  <2>1. {n} \in D
    BY <1>1
  <2>2. ASSUME NEW S \in D, NEW v \in kids(S) PROVE v \in Link /\ v \in u[n] \cup {n, nil}
    <3>1. PICK m \in S, s \in Side : v = tree.kid[s][m]
      BY <2>2
    <3> QED
      BY <3>1, <1>3
  <2>3. ASSUME NEW S \in D PROVE kids(S) \subseteq Link /\ S \cup kids(S) \in D
    <3> HIDE DEF kids
    <3> QED
      BY <2>2, <2>3
  <2> QED
    BY <2>1, <2>3
<1> HIDE DEF kids, N
<1>5. G \in [D -> D] /\ \A S \in D : G[S] = S \cup kids(S)
  BY <1>4
<1>6. M \in [D -> SUBSET B] /\ \A S \in D : M[S] = Link \ S
  OBVIOUS
<1>7. \A S \in D : G[S] = S \/ (M[G[S]] \subseteq M[S] /\ M[G[S]] # M[S])
  BY <1>4, <1>5, <1>6
<1> HIDE DEF G, M, B
<1>8. \A S \in D : n \in S /\ S \subseteq u[n] \cup {n, nil}
  OBVIOUS
<1> HIDE DEF D
<1>9. PICK f : Turns(N, D, G, f) /\ f[0] = {n}
  BY <1>1, <1>4, <1>5, LoopExists
<1>10. f[N] \in D /\ G[f[N]] = f[N]
  <2>1. Shrinks(M, D, G, B)
    BY <1>2, <1>6, <1>7 DEF Shrinks
  <2> QED
    BY <1>2, <1>9, <2>1, LoopEnds
<1>9a. f \in [0..N -> D] /\ f[0] = {n} /\ \A d \in 1..N : f[d] = G[f[d - 1]]
  BY <1>9 DEF Turns
<1>11. Is(f)
  <2>1. \A d \in 0..N : f[d] = IF d = 0 THEN {n} ELSE f[d - 1] \cup kids(f[d - 1])
    <3> TAKE d \in 0..N
    <3>1. CASE d = 0
      BY <3>1, <1>9a
    <3>2. CASE d # 0
      <4>1. d \in 1..N /\ d - 1 \in 0..N
        BY <3>2, <1>1
      <4> QED
        BY <3>2, <4>1, <1>5, <1>9a
    <3> QED
      BY <3>1, <3>2
  <2>2. f = [d \in 0..N |-> f[d]]
    BY <1>9a
  <2> QED
    BY <2>1, <2>2
<1>12. Is(grow)
  BY <1>11
<1>13. grow[N] = f[N]
  <2>1. \A d \in 0..N : grow[d] = IF d = 0 THEN {n} ELSE grow[d - 1] \cup kids(grow[d - 1])
    BY <1>12
  <2> HIDE DEF grow
  <2>2. grow[0] = f[0]
    <3>1. 0 \in 0..N
      BY <1>1
    <3> QED
      BY <2>1, <3>1, <1>9a
  <2>3. Follows(N, D, G, grow)
    <3> SUFFICES \A d \in 1..N : grow[d - 1] \in D => grow[d] = G[grow[d - 1]]
      BY DEF Follows
    <3> TAKE d \in 1..N
    <3> HAVE grow[d - 1] \in D
    <3>1. d \in 0..N /\ d # 0
      BY <1>1
    <3> QED
      BY <3>1, <2>1, <1>5
  <2> QED
    BY <1>9, <2>2, <2>3, LoopUnique
<1>14. Below(n) = grow[N] \ {nil}
  BY DEF Below, kids, N
<1> HIDE DEF grow
<1> DEFINE S == f[N]
<1>15. S \in D /\ n \in S /\ S \subseteq u[n] \cup {n, nil} /\ kids(S) \subseteq S
  BY <1>5, <1>8, <1>10
<1> HIDE DEF S
<1>16. \A m \in S, s \in Side : tree.kid[s][m] \in S
  BY <1>15 DEF kids
<1>17. u[n] \subseteq S
  <2> DEFINE W == {m \in Used(tree) : m \in S /\ ~ (u[m] \subseteq S)}
  <2>1. W = {}
    <3>1. SUFFICES ASSUME W # {} PROVE FALSE
      OBVIOUS
    <3>2. Measure([m \in W |-> u[m]], W, Node)
      <4>1. \A m \in W : m \in Link
        BY DEF Used, Link
      <4> QED
        BY <4>1, Finite DEF Measure, Shape, Forks
    <3>3. HasLeast([m \in W |-> u[m]], W)
      BY <3>1, <3>2, LeastBy
    <3>4. PICK m \in W : \A v \in W : u[v] \subseteq u[m] => u[v] = u[m]
      BY <3>3 DEF HasLeast
    <3>5. m \in Used(tree) /\ m \in S /\ ~ (u[m] \subseteq S)
      OBVIOUS
    <3>6. \A s \in Side : u[tree.kid[s][m]] \subseteq S
      <4> TAKE s \in Side
      <4>1. CASE tree.kid[s][m] = nil
        BY <4>1, <1>1
      <4>2. CASE tree.kid[s][m] # nil
        <5>1. tree.kid[s][m] \in Used(tree) /\ tree.kid[s][m] \notin W
          BY <4>2, <3>4, <3>5, Smaller
        <5> QED
          BY <5>1, <3>5, <1>16
      <4> QED
        BY <4>1, <4>2
    <3> QED
      BY <3>5, <3>6, Sides DEF Shape, Forks, Side
  <2> QED
    BY <2>1, <1>1, <1>15
<1>18. u[n] \subseteq Node /\ (n # nil => n \in u[n])
  BY <1>1, Smaller DEF Shape, Forks, Side
<1>19. nil \notin u[n]
  BY <1>18, Finite
<1> QED
  BY <1>13, <1>14, <1>15, <1>17, <1>18, <1>19 DEF S

\* A search for k that has come from w.p to w.x: k can only be below w.x, and is on
\* the side of each node above that the search took.
SearchAt(u, k, w) ==
  /\ w \in [x : Link, p : Link]
  /\ w.x \in Used(tree) \cup {nil} /\ w.p \in Used(tree) \cup {nil}
  /\ w.p = nil => w.x = tree.root
  /\ w.p # nil => tree.key[w.p] # k /\ w.x = tree.kid[Way(k, w.p)][w.p]
  /\ \A v \in Used(tree) : tree.key[v] = k => v \in u[w.x]
  /\ \A m \in Used(tree), z \in Side : w.p \in u[tree.kid[z][m]] => Before(z, k, tree.key[m])

\* A step of the search keeps that, and has less below it.
LEMMA SearchStep ==
  ASSUME NEW u, Shape(tree, u), NEW k \in Key, NEW w, SearchAt(u, k, w),
         w.x # nil, tree.key[w.x] # k
  PROVE  /\ SearchAt(u, k, [x |-> tree.kid[Way(k, w.x)][w.x], p |-> w.x])
         /\ u[tree.kid[Way(k, w.x)][w.x]] \subseteq u[w.x]
         /\ u[tree.kid[Way(k, w.x)][w.x]] # u[w.x]
<1> DEFINE z == Way(k, w.x)
           x == w.x
           y == tree.kid[z][x]
           v == [x |-> y, p |-> x]
<1>1. /\ z \in Side /\ x \in Used(tree) /\ x \in Link /\ y \in Link /\ y \in Used(tree) \cup {nil}
      /\ k \in Int /\ \A m \in Used(tree) : m \in Link /\ m # nil /\ tree.key[m] \in Int
  <2>1. z \in Side /\ x \in Used(tree)
    BY DEF Way, Side, SearchAt
  <2>2. k \in Int
    BY KeyAssumption
  <2>3. \A m \in Used(tree) : m \in Link /\ m # nil /\ tree.key[m] \in Int
    BY Finite DEF Used, Link, Shape, TreeType
  <2> QED
    BY <2>1, <2>2, <2>3, Smaller
<1>2. Before(z, k, tree.key[x]) /\ ~ Before(Other(z), k, tree.key[x])
  BY <1>1 DEF Before, Way, Other
<1>3. u[y] \subseteq u[x] /\ u[y] # u[x]
  BY <1>1, Smaller
<1>4. ASSUME NEW m \in Used(tree), tree.key[m] = k PROVE m \in u[y]
  <2>1. m \in u[x] /\ m # x
    BY <1>4 DEF SearchAt
  <2>2. m \in u[y] \/ m \in u[tree.kid[Other(z)][x]]
    BY <2>1, <1>1 DEF Shape, Forks
  <2>3. m \in u[tree.kid[Other(z)][x]] => Before(Other(z), tree.key[m], tree.key[x])
    BY <1>1, Sides DEF Shape, Sorted
  <2> QED
    BY <1>2, <1>4, <2>2, <2>3
<1>5. ASSUME NEW m \in Used(tree), NEW s \in Side, x \in u[tree.kid[s][m]]
      PROVE  Before(s, k, tree.key[m])
  <2> DEFINE c == tree.kid[s][m]
  <2>1. c \in Used(tree) /\ tree.parent[c] = m /\ x \in Node /\ u[nil] = {}
    <3>1. u[nil] = {} /\ c # nil
      BY <1>5 DEF Shape, Forks
    <3>2. x \in Node
      BY <1>1 DEF Used
    <3> QED
      BY <1>5, <3>1, <3>2 DEF Shape, Links
  <2>2. CASE x # c
    <3>1. tree.parent[x] \in u[c] /\ tree.parent[x] \in Used(tree)
      BY <2>1, <2>2, <1>5, Nested
    <3>2. x # tree.root
      <4>1. tree.parent[x] # nil /\ x # nil
        BY <3>1, <1>1
      <4> QED
        BY <4>1 DEF Shape, Links
    <3>3. w.p # nil
      BY <3>2 DEF SearchAt
    <3>4. Way(k, w.p) \in Side /\ w.p \in Used(tree)
      BY <3>3 DEF Way, Side, SearchAt
    <3>5. x = tree.kid[Way(k, w.p)][w.p]
      BY <3>3, SMTT(30) DEF SearchAt
    <3>6. tree.parent[x] = w.p
      BY <3>4, <3>5, <1>1 DEF Shape, Links
    <3> QED
      BY <3>1, <3>6 DEF SearchAt
  <2>3. CASE x = c
    <3>2. x # tree.root
      <4>1. tree.parent[x] # nil /\ x # nil
        BY <2>1, <2>3, <1>1
      <4> QED
        BY <4>1 DEF Shape, Links
    <3>3. w.p # nil
      BY <3>2 DEF SearchAt
    <3>4. Way(k, w.p) \in Side /\ w.p \in Used(tree) /\ tree.key[w.p] # k
      BY <3>3 DEF Way, Side, SearchAt
    <3>5. x = tree.kid[Way(k, w.p)][w.p]
      BY <3>3 DEF SearchAt
    <3>6. w.p = m
      BY <2>1, <2>3, <3>4, <3>5, <1>1 DEF Shape, Links
    <3>7. s = Way(k, m)
      <4>1. x \in u[x]
        BY <1>1, Smaller
      <4>2. x \in u[tree.kid[Way(k, m)][m]]
        BY <4>1, <3>5, <3>6
      <4> QED
        BY <4>2, <1>5, <3>4, <3>6, Sides DEF Shape, Forks
    <3>8. tree.key[m] \in Int /\ tree.key[m] # k
      BY <1>1, <3>4, <3>6
    <3> QED
      BY <3>7, <3>8, <1>1 DEF Before, Way
  <2> QED
    BY <2>2, <2>3
<1> HIDE DEF z, x, y
<1>6. v \in [x : Link, p : Link] /\ v.x = y /\ v.p = x
  BY <1>1
<1>7. x # nil /\ tree.key[x] # k /\ y = tree.kid[Way(k, x)][x]
  BY DEF x, y, z
<1> HIDE DEF v
<1>8. SearchAt(u, k, v)
  BY <1>1, <1>4, <1>5, <1>6, <1>7 DEF SearchAt
<1> QED
  BY <1>3, <1>8 DEF x, y, z, v

\* So Search ends at the node with the key, or at the missing child where it belongs.
LEMMA SearchIs ==
  ASSUME NEW u, Shape(tree, u), NEW k \in Key
  PROVE  /\ SearchAt(u, k, Search(k))
         /\ Search(k).x = nil \/ tree.key[Search(k).x] = k
<1> DEFINE N == Cardinality(Node)
           step(w) == IF w.x = nil \/ tree.key[w.x] = k THEN w
                      ELSE [x |-> tree.kid[Way(k, w.x)][w.x], p |-> w.x]
           a == [x |-> tree.root, p |-> nil]
           D == {w \in [x : Link, p : Link] : SearchAt(u, k, w)}
           G == [w \in D |-> step(w)]
           M == [w \in D |-> u[w.x]]
           Is(f) == f = [d \in 0..N |-> IF d = 0 THEN a ELSE step(f[d - 1])]
           walk == CHOOSE f : Is(f)
<1>1. N \in Nat /\ nil \in Link /\ u[nil] = {} /\ u[tree.root] = Used(tree)
  BY Finite DEF Link, Shape, Forks
<1>2. a \in D
  <2>1. a \in [x : Link, p : Link] /\ a.x = tree.root /\ a.p = nil
    BY <1>1 DEF Shape, TreeType
  <2>2. tree.root \in Used(tree) \cup {nil}
    BY DEF Shape, Links
  <2>3. \A m \in Used(tree), z \in Side : nil \notin u[tree.kid[z][m]]
    <3> TAKE m \in Used(tree), z \in Side
    <3>1. u[tree.kid[z][m]] \subseteq Node
      BY Smaller DEF Shape, Forks
    <3> QED
      BY <3>1, Finite
  <2> QED
    BY <2>1, <2>2, <2>3, <1>1 DEF SearchAt
<1>3. \A w \in D : step(w) \in D /\ (step(w) = w \/ (u[step(w).x] \subseteq u[w.x] /\ u[step(w).x] # u[w.x]))
  <2> TAKE w \in D
  <2>1. CASE w.x = nil \/ tree.key[w.x] = k
    BY <2>1, SMTT(30)
  <2>2. CASE ~ (w.x = nil \/ tree.key[w.x] = k)
    <3> DEFINE v == [x |-> tree.kid[Way(k, w.x)][w.x], p |-> w.x]
    <3>1. /\ SearchAt(u, k, v)
          /\ u[tree.kid[Way(k, w.x)][w.x]] \subseteq u[w.x]
          /\ u[tree.kid[Way(k, w.x)][w.x]] # u[w.x]
      BY <2>2, SearchStep
    <3>2. step(w) = v /\ v \in [x : Link, p : Link] /\ v.x = tree.kid[Way(k, w.x)][w.x]
      BY <2>2, <3>1 DEF SearchAt
    <3> QED
      BY <3>1, <3>2
  <2> QED
    BY <2>1, <2>2
<1>4. \A w \in D : SearchAt(u, k, w) /\ w.x \in Link /\ u[w.x] \subseteq Node
  BY DEF Shape, Forks
<1> HIDE DEF D, N, a, step
<1>5. G \in [D -> D] /\ \A w \in D : G[w] = step(w)
  BY <1>3
<1>6. Shrinks(M, D, G, Node)
  BY <1>3, <1>4, Finite DEF Shrinks
<1> HIDE DEF G, M
<1>9. PICK f : Turns(N, D, G, f) /\ f[0] = a
  BY <1>1, <1>2, <1>5, LoopExists
<1>10. f[N] \in D /\ G[f[N]] = f[N]
  BY <1>6, <1>9, LoopEnds DEF N
<1>11. f \in [0..N -> D] /\ f[0] = a /\ \A d \in 1..N : f[d] = G[f[d - 1]]
  BY <1>9 DEF Turns
<1>12. Is(f)
  <2>1. \A d \in 0..N : f[d] = IF d = 0 THEN a ELSE step(f[d - 1])
    <3> TAKE d \in 0..N
    <3>1. CASE d = 0
      BY <3>1, <1>11
    <3>2. CASE d # 0
      <4>1. d \in 1..N /\ d - 1 \in 0..N
        BY <3>2, <1>1
      <4> QED
        BY <3>2, <4>1, <1>5, <1>11
    <3> QED
      BY <3>1, <3>2
  <2>2. f = [d \in 0..N |-> f[d]]
    BY <1>11
  <2> QED
    BY <2>1, <2>2
<1>13. Is(walk)
  BY <1>12
<1>14. walk[N] = f[N]
  <2>1. \A d \in 0..N : walk[d] = IF d = 0 THEN a ELSE step(walk[d - 1])
    BY <1>13
  <2> HIDE DEF walk
  <2>2. walk[0] = f[0]
    <3>1. 0 \in 0..N
      BY <1>1
    <3> QED
      BY <2>1, <3>1, <1>11
  <2>3. Follows(N, D, G, walk)
    <3> SUFFICES \A d \in 1..N : walk[d - 1] \in D => walk[d] = G[walk[d - 1]]
      BY DEF Follows
    <3> TAKE d \in 1..N
    <3> HAVE walk[d - 1] \in D
    <3>1. d \in 0..N /\ d # 0
      BY <1>1, SMTT(30)
    <3> QED
      BY <3>1, <2>1, <1>5
  <2> QED
    BY <1>9, <2>2, <2>3, LoopUnique
<1>15. Search(k) = walk[N]
  BY DEF Search, step, a, N
<1>16. f[N].x = nil \/ tree.key[f[N].x] = k
  <2> SUFFICES ASSUME f[N].x # nil, tree.key[f[N].x] # k PROVE FALSE
    BY SMTT(30)
  <2>1. SearchAt(u, k, f[N])
    BY <1>4, <1>10
  <2>2. u[tree.kid[Way(k, f[N].x)][f[N].x]] # u[f[N].x]
    BY <2>1, SearchStep
  <2>3. f[N] = [x |-> tree.kid[Way(k, f[N].x)][f[N].x], p |-> f[N].x]
    BY <1>5, <1>10 DEF step
  <2>4. f[N].x = tree.kid[Way(k, f[N].x)][f[N].x]
    BY <2>3
  <2> QED
    BY <2>2, <2>4
<1> HIDE DEF walk
<1> QED
  BY <1>4, <1>10, <1>14, <1>15, <1>16

\* The walk of Mini from r is at m: the keys below r that are not below m are greater.
LeftmostOf(u, r, m) ==
  /\ m \in Used(tree) /\ m \in u[r]
  /\ \A v \in u[r] : v \in u[m] \/ tree.key[m] < tree.key[v]
  /\ \A v \in u[r], w \in u[m] : v \notin u[m] => tree.key[w] < tree.key[v]

\* Mini ends at the node below r with the least key, which has no left child.
LEMMA MiniIs ==
  ASSUME NEW u, Shape(tree, u), NEW r \in Used(tree)
  PROVE  /\ Mini(r) \in Used(tree) /\ Mini(r) \in u[r]
         /\ tree.kid["left"][Mini(r)] = nil
         /\ \A v \in u[r] : v # Mini(r) => tree.key[Mini(r)] < tree.key[v]
<1> DEFINE N == Cardinality(Node)
           left(m) == IF tree.kid.left[m] = nil THEN m ELSE tree.kid.left[m]
           D == {m \in Used(tree) : LeftmostOf(u, r, m)}
           G == [m \in D |-> left(m)]
           M == [m \in D |-> u[m]]
           Is(f) == f = [d \in 0..N |-> IF d = 0 THEN r ELSE left(f[d - 1])]
           down == CHOOSE f : Is(f)
<1>1. N \in Nat /\ \A n \in Used(tree) : tree.key[n] \in Int /\ n \in Link /\ n \in Node
  BY Finite DEF Link, Shape, TreeType, Used
<1>2. r \in D
  <2>1. r \in u[r]
    BY Smaller DEF Side
  <2> QED
    BY <2>1 DEF LeftmostOf
<1>3. \A m \in D : left(m) \in D /\ (left(m) = m \/ (u[left(m)] \subseteq u[m] /\ u[left(m)] # u[m]))
  <2> TAKE m \in D
  <2>1. CASE tree.kid.left[m] = nil
    BY <2>1
  <2>2. CASE tree.kid.left[m] # nil
    <3> DEFINE c == tree.kid["left"][m]
               d == tree.kid["right"][m]
    <3>1. m \in Used(tree) /\ m \in u[r] /\ u[m] \subseteq u[r] /\ u[r] \subseteq Used(tree)
      <4>1. u[r] \subseteq Node
        BY <1>1 DEF Shape, Forks
      <4> QED
        BY <4>1, Nested DEF LeftmostOf, Used
    <3>2. left(m) = c /\ c # nil /\ "left" \in Side /\ Other("left") = "right"
      BY <2>2 DEF Side, Other
    <3>3. c \in Used(tree) /\ c \in u[c] /\ u[c] \subseteq u[m] /\ u[c] # u[m]
      BY <3>1, <3>2, Smaller
    <3>4. u[m] = {m} \cup u[c] \cup u[d]
      BY <3>1, <3>2 DEF Shape, Forks
    <3>5. \A v \in u[c] : tree.key[v] < tree.key[m]
      BY <3>1, <3>2 DEF Shape, Sorted, Before
    <3>6. \A v \in u[d] : tree.key[v] > tree.key[m]
      <4>1. "right" \in Side
        BY DEF Side
      <4> QED
        BY <3>1, <4>1 DEF Shape, Sorted, Before
    <3>7. \A v \in u[r], w \in u[c] : v \notin u[c] => tree.key[w] < tree.key[v]
      <4> TAKE v \in u[r], w \in u[c]
      <4> HAVE v \notin u[c]
      <4>1. v \in Used(tree) /\ w \in Used(tree) /\ w \in u[m] /\ tree.key[v] \in Int /\ tree.key[w] \in Int /\ tree.key[m] \in Int
        BY <1>1, <3>1, <3>3
      <4>2. CASE v \notin u[m]
        BY <4>1, <4>2 DEF LeftmostOf
      <4>3. CASE v = m
        BY <4>3, <3>5
      <4>4. CASE v \in u[d]
        BY <4>1, <4>4, <3>5, <3>6
      <4> QED
        BY <4>2, <4>3, <4>4, <3>4
    <3>8. LeftmostOf(u, r, c)
      BY <3>1, <3>3, <3>7 DEF LeftmostOf
    <3> QED
      BY <3>2, <3>3, <3>8
  <2> QED
    BY <2>1, <2>2
<1>4. \A m \in D : LeftmostOf(u, r, m) /\ m \in Used(tree) /\ u[m] \subseteq Node
  BY <1>1 DEF Shape, Forks
<1> HIDE DEF D, N, left
<1>5. G \in [D -> D] /\ \A w \in D : G[w] = left(w)
  BY <1>3
<1>6. Shrinks(M, D, G, Node)
  BY <1>3, <1>4, Finite DEF Shrinks
<1> HIDE DEF G, M
<1>9. PICK f : Turns(N, D, G, f) /\ f[0] = r
  BY <1>1, <1>2, <1>5, LoopExists
<1>10. f[N] \in D /\ G[f[N]] = f[N]
  BY <1>6, <1>9, LoopEnds DEF N
<1>11. f \in [0..N -> D] /\ f[0] = r /\ \A d \in 1..N : f[d] = G[f[d - 1]]
  BY <1>9 DEF Turns
<1>12. Is(f)
  <2>1. \A d \in 0..N : f[d] = IF d = 0 THEN r ELSE left(f[d - 1])
    <3> TAKE d \in 0..N
    <3>1. CASE d = 0
      BY <3>1, <1>11
    <3>2. CASE d # 0
      <4>1. d \in 1..N /\ d - 1 \in 0..N
        BY <3>2, <1>1
      <4> QED
        BY <3>2, <4>1, <1>5, <1>11
    <3> QED
      BY <3>1, <3>2
  <2>2. f = [d \in 0..N |-> f[d]]
    BY <1>11
  <2> QED
    BY <2>1, <2>2
<1>13. Is(down)
  BY <1>12
<1>14. down[N] = f[N]
  <2>1. \A d \in 0..N : down[d] = IF d = 0 THEN r ELSE left(down[d - 1])
    BY <1>13
  <2> HIDE DEF down
  <2>2. down[0] = f[0]
    <3>1. 0 \in 0..N
      BY <1>1
    <3> QED
      BY <2>1, <3>1, <1>11
  <2>3. Follows(N, D, G, down)
    <3> SUFFICES \A d \in 1..N : down[d - 1] \in D => down[d] = G[down[d - 1]]
      BY DEF Follows
    <3> TAKE d \in 1..N
    <3> HAVE down[d - 1] \in D
    <3>1. d \in 0..N /\ d # 0
      BY <1>1
    <3> QED
      BY <3>1, <2>1, <1>5
  <2> QED
    BY <1>9, <2>2, <2>3, LoopUnique
<1>15. Mini(r) = down[N]
  BY DEF Mini, left, N
<1> HIDE DEF down
<1> DEFINE m == f[N]
<1>16. m \in Used(tree) /\ LeftmostOf(u, r, m) /\ m = Mini(r)
  BY <1>4, <1>10, <1>14, <1>15
<1>17. tree.kid["left"][m] = nil
  <2>1. left(m) = m
    BY <1>5, <1>10
  <2>2. tree.kid["left"][m] # nil => tree.kid["left"][m] # m
    BY <1>16, Smaller DEF Side
  <2> QED
    BY <2>1, <2>2 DEF left
<1> HIDE DEF m
<1>18. \A v \in u[r] : v # m => tree.key[m] < tree.key[v]
  <2> TAKE v \in u[r]
  <2> HAVE v # m
  <2>1. CASE v \notin u[m]
    BY <1>16, <2>1 DEF LeftmostOf
  <2>2. CASE v \in u[m]
    <3>1. v \in u[tree.kid["right"][m]]
      <4>1. "left" \in Side /\ Other("left") = "right" /\ u[nil] = {}
        BY DEF Side, Other, Shape, Forks
      <4> QED
        BY <4>1, <1>16, <1>17, <2>2 DEF Shape, Forks
    <3>2. Before("right", tree.key[v], tree.key[m])
      BY <3>1, <1>16 DEF Shape, Sorted, Side
    <3>3. tree.key[v] \in Int /\ tree.key[m] \in Int
      <4>1. v \in Used(tree)
        <5>1. u[r] \subseteq Node
          BY <1>1 DEF Shape, Forks
        <5> QED
          BY <5>1, Nested
      <4> QED
        BY <4>1, <1>1, <1>16
    <3> QED
      BY <3>2, <3>3 DEF Before
  <2> QED
    BY <2>1, <2>2
<1> QED
  BY <1>16, <1>17, <1>18 DEF LeftmostOf

-----------------------------------------------------------------------------
(* Turning.                                                                *)

\* t2 is t turned at n to the side s.
Rotated(t, t2, s, n) ==
  LET o == Other(s)  up == t.kid[o][n]  mid == t.kid[s][up]  p == t.parent[n] IN
  /\ t2 \in TreeType /\ t2.color = t.color /\ t2.key = t.key /\ t2.value = t.value
  /\ t2.root = IF p = nil THEN up ELSE t.root
  /\ \A m \in Link :
       /\ t2.kid[o][m] = IF m = n THEN mid
                         ELSE IF p # nil /\ m = p /\ SideOf(t, n) = o THEN up ELSE t.kid[o][m]
       /\ t2.kid[s][m] = IF m = up THEN n
                         ELSE IF p # nil /\ m = p /\ SideOf(t, n) = s THEN up ELSE t.kid[s][m]
       /\ t2.parent[m] = IF mid # nil /\ m = mid THEN n
                         ELSE IF m = n THEN up ELSE IF m = up THEN p ELSE t.parent[m]

\* What Rotate assigns, for nodes that are not each other's parents in a circle.
LEMMA RotateFields ==
  ASSUME NEW t \in TreeType, NEW s \in Side, NEW n \in Node, t.kid[Other(s)][n] \in Node,
         t.kid[Other(s)][n] # n, t.parent[n] # n, t.parent[n] # t.kid[Other(s)][n],
         t.kid[s][t.kid[Other(s)][n]] # n
  PROVE  Rotated(t, Rotate(t, s, n), s, n)
<1> DEFINE o == Other(s)
           up == t.kid[o][n]
           mid == t.kid[s][up]
           p == t.parent[n]
           d == SideOf(t, n)
           t1 == Replace(t, n, p, up)
           t3 == [t1 EXCEPT !.kid[o][n] = mid, !.kid[s][up] = n, !.parent[up] = p, !.parent[n] = up]
<1>1. o \in Side /\ o # s /\ Side = {s, o} /\ d \in Side /\ p \in Link /\ mid \in Link /\ up \in Link /\ n \in Link
      /\ nil \in Link /\ nil \notin Node
  BY Sides, Finite DEF SideOf, TreeType, Link, Side
<1>2. /\ t1 \in TreeType /\ t1.color = t.color /\ t1.key = t.key /\ t1.value = t.value /\ t1.parent = t.parent
      /\ t1.root = IF p = nil THEN up ELSE t.root
      /\ \A m \in Link, z \in Side : t1.kid[z][m] = IF p # nil /\ m = p /\ d = z THEN up ELSE t.kid[z][m]
  <2> HIDE DEF o, up, mid, p, d
  <2>1. CASE p = nil
    <3>1. t1 = [t EXCEPT !.root = up]
      BY <2>1 DEF Replace
    <3> QED
      BY <2>1, <3>1, <1>1 DEF TreeType
  <2>2. CASE p # nil
    <3>1. t1 = [t EXCEPT !.kid[d][p] = up]
      BY <2>2 DEF Replace, d
    <3> QED
      BY <2>2, <3>1, <1>1, SMTT(30) DEF TreeType
  <2> QED
    BY <2>1, <2>2
<1> DEFINE t2 == Rotate(t, s, n)
<1>3. t3 = RotateNoParent(t, s, n)
  BY SMTT(30) DEF RotateNoParent
<1>b. t2 = IF mid # nil THEN [RotateNoParent(t, s, n) EXCEPT !.parent[mid] = n] ELSE RotateNoParent(t, s, n)
  BY DEF Rotate
<1>4. up # n /\ p # n /\ p # up /\ mid # n /\ up \in Node
  OBVIOUS
<1>a. Rotated(t, t2, s, n) <=>
       /\ t2 \in TreeType /\ t2.color = t.color /\ t2.key = t.key /\ t2.value = t.value
       /\ t2.root = IF p = nil THEN up ELSE t.root
       /\ \A m \in Link :
            /\ t2.kid[o][m] = IF m = n THEN mid ELSE IF p # nil /\ m = p /\ d = o THEN up ELSE t.kid[o][m]
            /\ t2.kid[s][m] = IF m = up THEN n ELSE IF p # nil /\ m = p /\ d = s THEN up ELSE t.kid[s][m]
            /\ t2.parent[m] = IF mid # nil /\ m = mid THEN n
                         ELSE IF m = n THEN up ELSE IF m = up THEN p ELSE t.parent[m]
  BY DEF Rotated
<1> HIDE DEF t1, o, up, mid, p, d, t2
<1>5. /\ t3 \in TreeType /\ t3.color = t1.color /\ t3.key = t1.key /\ t3.value = t1.value /\ t3.root = t1.root
      /\ \A m \in Link :
           /\ t3.kid[o][m] = IF m = n THEN mid ELSE t1.kid[o][m]
           /\ t3.kid[s][m] = IF m = up THEN n ELSE t1.kid[s][m]
           /\ t3.parent[m] = IF m = n THEN up ELSE IF m = up THEN p ELSE t1.parent[m]
  BY <1>1, <1>2, <1>4, ZenonT(60) DEF TreeType
<1> HIDE DEF t3
<1>6. /\ t2 \in TreeType /\ t2.color = t3.color /\ t2.key = t3.key /\ t2.value = t3.value /\ t2.root = t3.root
      /\ t2.kid = t3.kid
      /\ \A m \in Link : t2.parent[m] = IF mid # nil /\ m = mid THEN n ELSE t3.parent[m]
  BY <1>1, <1>3, <1>b, <1>5 DEF TreeType
<1>7. \A m \in Link :
            /\ t2.kid[o][m] = IF m = n THEN mid ELSE IF p # nil /\ m = p /\ d = o THEN up ELSE t.kid[o][m]
            /\ t2.kid[s][m] = IF m = up THEN n ELSE IF p # nil /\ m = p /\ d = s THEN up ELSE t.kid[s][m]
            /\ t2.parent[m] = IF mid # nil /\ m = mid THEN n
                         ELSE IF m = n THEN up ELSE IF m = up THEN p ELSE t.parent[m]
  BY <1>1, <1>2, <1>5, <1>6
<1> QED
  BY <1>2, <1>5, <1>6, <1>7, <1>a DEF t2

\* A node is the child of its parent, on the side that SideOf says, and of no other.
LEMMA Kids ==
  ASSUME NEW t, NEW u, Shape(t, u), NEW n \in Used(t)
  PROVE  /\ n \in Node /\ n \in Link /\ n # nil /\ n \in u[n] /\ u[nil] = {} /\ u[n] \subseteq Node
         /\ t.parent[n] = nil <=> n = t.root
         /\ n # t.root => t.parent[n] \in Used(t) /\ t.kid[SideOf(t, n)][t.parent[n]] = n
         /\ SideOf(t, n) \in Side
         /\ \A m \in Used(t), s \in Side :
              t.kid[s][m] = n => m = t.parent[n] /\ s = SideOf(t, n) /\ n # t.root /\ m # n
<1>1. n \in Node /\ n \in Link /\ n # nil /\ n \in u[n] /\ u[nil] = {} /\ u[n] \subseteq Node
  BY Smaller DEF Side, Shape, Forks
<1>2. SideOf(t, n) \in Side
  BY DEF SideOf, Side
<1>3. \A m \in Used(t), s \in Side : t.kid[s][m] = n => m = t.parent[n] /\ m # n /\ m # nil
  BY <1>1, Smaller DEF Shape, Links
<1>4. n # t.root => t.parent[n] \in Used(t) /\ t.parent[n] # nil
  <2>1. \A m \in Used(t) : m # nil
    BY Smaller DEF Side
  <2> QED
    BY <2>1 DEF Shape, Links
<1>5. n = t.root => t.parent[n] = nil
  BY <1>1 DEF Shape, Links
<1>6. ASSUME n # t.root PROVE t.kid[SideOf(t, n)][t.parent[n]] = n
  <2>1. PICK s \in Side : t.kid[s][t.parent[n]] = n
    BY <1>6 DEF Shape, Links
  <2> QED
    BY <2>1 DEF SideOf, Side
<1>7. ASSUME NEW m \in Used(t), NEW s \in Side, t.kid[s][m] = n PROVE s = SideOf(t, n)
  <2>1. m = t.parent[n] /\ n # t.root
    BY <1>3, <1>5, <1>7
  <2>2. t.kid[SideOf(t, n)][m] = n
    BY <1>6, <2>1
  <2>3. n \notin u[t.kid[Other(s)][m]]
    BY <1>1, <1>7 DEF Shape, Forks
  <2>4. SideOf(t, n) # Other(s)
    BY <1>1, <2>2, <2>3
  <2> QED
    BY <1>2, <2>4, Sides
<1> QED
  BY <1>1, <1>2, <1>3, <1>4, <1>5, <1>6, <1>7, SMTT(30)

\* In a search tree Rotate turns.
LEMMA RotateIs ==
  ASSUME NEW t, NEW u, Shape(t, u), NEW s \in Side, NEW n \in Used(t), t.kid[Other(s)][n] # nil
  PROVE  Rotated(t, Rotate(t, s, n), s, n)
<1> DEFINE o == Other(s)
           up == t.kid[o][n]
           mid == t.kid[s][up]
<1>1. o \in Side /\ up \in Used(t) /\ up # n /\ n \in Node /\ up \in Node
  BY Sides, Smaller
<1>2. t.parent[up] = n /\ up # t.root
  BY <1>1, Kids
<1>3. t.parent[n] # n
  <2>1. CASE n = t.root
    BY <2>1, Kids
  <2>2. CASE n # t.root
    BY <2>2, Kids
  <2> QED
    BY <2>1, <2>2
<1>4. u[up] \subseteq u[n] /\ u[up] # u[n]
  BY <1>1, Smaller
<1>5. mid # n
  <2>1. mid = nil \/ u[mid] \subseteq u[up]
    BY <1>1, Smaller
  <2>2. n # nil
    BY Kids
  <2> QED
    BY <2>1, <2>2, <1>4
<1>6. t.parent[n] # up
  <2> SUFFICES ASSUME t.parent[n] = up PROVE FALSE
    OBVIOUS
  <2>1. n # t.root /\ t.kid[SideOf(t, n)][up] = n /\ SideOf(t, n) \in Side
    <3>1. up # nil
      BY <1>1, Kids
    <3> QED
      BY <3>1, Kids
  <2>2. u[n] \subseteq u[up]
    BY <2>1, <1>1, Smaller
  <2> QED
    BY <2>2, <1>4
<1>7. t \in TreeType
  BY DEF Shape
<1> QED
  BY <1>1, <1>3, <1>5, <1>6, <1>7, RotateFields

\* What is below each node after a turn at n to the side s.
TurnedForks(t, u, s, n) ==
  LET up == t.kid[Other(s)][n] IN
  [u EXCEPT ![up] = u[n], ![n] = {n} \cup u[t.kid[s][n]] \cup u[t.kid[s][up]]]

\* A turned search tree is one, with the same nodes.
LEMMA RotateShape ==
  ASSUME NEW t, NEW u, Shape(t, u), NEW s \in Side, NEW n \in Used(t), t.kid[Other(s)][n] # nil,
         NEW t2, Rotated(t, t2, s, n)
  PROVE  Shape(t2, TurnedForks(t, u, s, n)) /\ Used(t2) = Used(t)
<1> DEFINE o == Other(s)
           up == t.kid[o][n]
           mid == t.kid[s][up]
           far == t.kid[o][up]
           a == t.kid[s][n]
           p == t.parent[n]
           d == SideOf(t, n)
           u2 == TurnedForks(t, u, s, n)
<1>1. /\ o \in Side /\ o # s /\ Side = {s, o} /\ Other(o) = s
      /\ up \in Used(t) /\ up # n /\ n \in Node /\ up \in Node /\ n \in Link /\ up \in Link /\ nil \in Link
      /\ n # nil /\ up # nil /\ u[nil] = {}
      /\ a \in Link /\ mid \in Link /\ far \in Link /\ p \in Link
      /\ \A m \in Used(t) : m \in Node /\ m \in Link /\ m # nil
  <2>1. o \in Side /\ o # s /\ Side = {s, o} /\ Other(o) = s
    BY Sides
  <2>2. up \in Used(t) /\ up # n
    BY <2>1, Smaller
  <2>3. \A m \in Used(t) : m \in Node /\ m \in Link /\ m # nil /\ u[nil] = {}
    BY Kids
  <2>4. a \in Link /\ mid \in Link /\ far \in Link
    BY <2>1, <2>2, Smaller
  <2>5. p \in Link /\ nil \in Link
    BY <2>3, SMTT(30) DEF Shape, TreeType, Link
  <2> QED
    BY <2>1, <2>2, <2>3, <2>4, <2>5
<1>2. /\ t.parent[up] = n /\ up # t.root
      /\ a # nil => a \in Used(t) /\ t.parent[a] = n
      /\ mid # nil => mid \in Used(t) /\ t.parent[mid] = up
      /\ far # nil => far \in Used(t) /\ t.parent[far] = up
  BY <1>1, Kids, Smaller, SMTT(30) DEF Shape, Links
<1>3. /\ u[n] = {n} \cup u[a] \cup u[up] /\ n \notin u[a] /\ n \notin u[up] /\ u[a] \cap u[up] = {}
      /\ u[up] = {up} \cup u[mid] \cup u[far] /\ up \notin u[mid] /\ up \notin u[far] /\ u[mid] \cap u[far] = {}
  BY <1>1, SMTT(30) DEF Shape, Forks
<1>4. /\ a # n /\ mid # n /\ far # n /\ a # up /\ mid # up /\ far # up
      /\ up \in u[up] /\ n \in u[n]
      /\ mid # nil => mid \in u[mid] /\ mid # a /\ mid # far
      /\ far # nil => far \in u[far]
      /\ a # nil => a \in u[a]
  <2>1. up \in u[up] /\ n \in u[n] /\ (mid # nil => mid \in u[mid]) /\ (far # nil => far \in u[far]) /\ (a # nil => a \in u[a])
    BY <1>1, <1>2, Kids
  <2> QED
    BY <2>1, <1>1, <1>3, ZenonT(60)
<1>5. /\ p = nil <=> n = t.root
      /\ p # nil => p \in Used(t) /\ t.kid[d][p] = n /\ p # n /\ p # up /\ p # mid
      /\ d \in Side
      /\ \A m \in Used(t), z \in Side : t.kid[z][m] = n => m = p /\ z = d
      /\ \A m \in Used(t), z \in Side : t.kid[z][m] = up => m = n /\ z = o
  <2>1. /\ p = nil <=> n = t.root
        /\ p # nil => p \in Used(t) /\ t.kid[d][p] = n
        /\ d \in Side
        /\ \A m \in Used(t), z \in Side : t.kid[z][m] = n => m = p /\ z = d
    BY Kids
  <2>2. \A m \in Used(t), z \in Side : t.kid[z][m] = up => m = n /\ z = o
    BY <1>1, Kids
  <2>3. p # nil => u[n] \subseteq u[p] /\ u[n] # u[p]
    BY <2>1, Smaller, SMTT(30)
  <2>4. p # nil => p # n /\ p # up /\ p # mid
    BY <2>1, <2>3, <1>3, <1>1, ZenonT(60)
  <2> QED
    BY <2>1, <2>2, <2>4
<1>6. /\ u2 \in [Link -> SUBSET Node]
      /\ u2[up] = u[n] /\ u2[n] = {n} \cup u[a] \cup u[mid]
      /\ \A m \in Link : m # n /\ m # up => u2[m] = u[m]
      /\ \A m \in Link : u[m] \subseteq Node
  <2>1. u \in [Link -> SUBSET Node]
    BY DEF Shape, Forks
  <2> QED
    BY <2>1, <1>1 DEF TurnedForks
<1>7. /\ t2 \in TreeType /\ t2.color = t.color /\ t2.key = t.key /\ t2.value = t.value
      /\ t2.root = IF p = nil THEN up ELSE t.root
      /\ \A m \in Link :
            /\ t2.kid[o][m] = IF m = n THEN mid ELSE IF p # nil /\ m = p /\ d = o THEN up ELSE t.kid[o][m]
            /\ t2.kid[s][m] = IF m = up THEN n ELSE IF p # nil /\ m = p /\ d = s THEN up ELSE t.kid[s][m]
            /\ t2.parent[m] = IF mid # nil /\ m = mid THEN n
                         ELSE IF m = n THEN up ELSE IF m = up THEN p ELSE t.parent[m]
  BY DEF Rotated
<1>8. Used(t2) = Used(t) /\ t2.key[nil] = 0
  BY <1>7 DEF Used, Shape, Links
<1> HIDE DEF o, up, mid, far, a, p, d, u2
<1>9. /\ t2.kid[s][n] = a /\ t2.kid[o][n] = mid
      /\ t2.kid[s][up] = n /\ t2.kid[o][up] = far
      /\ p # nil => t2.kid[d][p] = up /\ \A z \in Side : z # d => t2.kid[z][p] = t.kid[z][p]
      /\ \A m \in Link, z \in Side : m # n /\ m # up /\ m # p => t2.kid[z][m] = t.kid[z][m]
      /\ p = nil => t2.kid[s][nil] = t.kid[s][nil] /\ t2.kid[o][nil] = t.kid[o][nil]
  <2>1. t2.kid[s][n] = a /\ t2.kid[o][n] = mid
    BY <1>1, <1>5, <1>7 DEF a
  <2>2. t2.kid[s][up] = n /\ t2.kid[o][up] = far
    BY <1>1, <1>5, <1>7 DEF far
  <2>3. p # nil => t2.kid[d][p] = up /\ \A z \in Side : z # d => t2.kid[z][p] = t.kid[z][p]
    BY <1>1, <1>5, <1>7
  <2>4. \A m \in Link, z \in Side : m # n /\ m # up /\ m # p => t2.kid[z][m] = t.kid[z][m]
    BY <1>1, <1>7
  <2>5. p = nil => t2.kid[s][nil] = t.kid[s][nil] /\ t2.kid[o][nil] = t.kid[o][nil]
    BY <1>1, <1>7
  <2> QED
    BY <2>1, <2>2, <2>3, <2>4, <2>5
<1>10. /\ mid # nil => t2.parent[mid] = n
       /\ t2.parent[n] = up /\ t2.parent[up] = p
       /\ \A m \in Link : m # n /\ m # up /\ (m # mid \/ mid = nil) => t2.parent[m] = t.parent[m]
  BY <1>1, <1>4, <1>7
<1>11. \A m \in Used(t), z \in Side :
         /\ t.kid[z][m] # nil => t.kid[z][m] \in Used(t) /\ t.parent[t.kid[z][m]] = m
         /\ t.kid[z][m] \in Link
  BY Smaller DEF Shape, Links
<1>12. Links(t2)
  <2>1. t2.root \in Used(t) \cup {nil}
    BY <1>1, <1>7 DEF Shape, Links
  <2>2. \A m \in Link, z \in Side : m \notin Used(t) => t2.kid[z][m] = nil
    <3> TAKE m \in Link, z \in Side
    <3> HAVE m \notin Used(t)
    <3>1. t.kid[z][m] = nil /\ m # n /\ m # up /\ (p # nil => m # p)
      BY <1>1, <1>5 DEF Shape, Links
    <3> QED
      BY <3>1, <1>1, <1>9
  <2>3. t2.root # nil => t2.parent[t2.root] = nil
    <3>1. CASE p = nil
      BY <3>1, <1>7, <1>10
    <3>2. CASE p # nil
      <4>1. t.root # nil => t.parent[t.root] = nil
        BY DEF Shape, Links
      <4>2. t.root # n /\ t.root # up /\ (mid = nil \/ t.root # mid)
        BY <3>2, <1>1, <1>2, <1>5, <4>1
      <4>3. t.root \in Link
        BY DEF Shape, TreeType
      <4> QED
        BY <4>1, <4>2, <4>3, <1>7, <1>10, <3>2
    <3> QED
      BY <3>1, <3>2
  <2>4. \A m \in Used(t), z \in Side :
       t2.kid[z][m] # nil => t2.kid[z][m] \in Used(t) /\ t2.parent[t2.kid[z][m]] = m
    <3> TAKE m \in Used(t), z \in Side
    <3> HAVE t2.kid[z][m] # nil
    <3>1. CASE m = n
      <4>1. CASE z = s
        BY <3>1, <4>1, <1>1, <1>2, <1>4, <1>9, <1>10
      <4>2. CASE z = o
        BY <3>1, <4>2, <1>1, <1>2, <1>4, <1>9, <1>10
      <4> QED
        BY <4>1, <4>2, <1>1
    <3>2. CASE m = up
      <4>1. CASE z = s
        BY <3>2, <4>1, <1>1, <1>2, <1>4, <1>9, <1>10
      <4>2. CASE z = o
        BY <3>2, <4>2, <1>1, <1>2, <1>4, <1>9, <1>10
      <4> QED
        BY <4>1, <4>2, <1>1
    <3>3. CASE m = p /\ z = d
      <4>1. p # nil
        BY <3>3, <1>1
      <4> QED
        BY <4>1, <3>3, <1>1, <1>5, <1>9, <1>10
    <3>4. CASE m # n /\ m # up /\ ~ (m = p /\ z = d)
      <4>1. t2.kid[z][m] = t.kid[z][m]
        BY <3>4, <1>1, <1>9
      <4>2. t.kid[z][m] # n /\ t.kid[z][m] # up
        BY <3>4, <1>5
      <4>3. mid # nil => t.kid[z][m] # mid
        BY <3>4, <1>2, <1>11
      <4> QED
        BY <4>1, <4>2, <4>3, <1>10, <1>11
    <3> QED
      BY <3>1, <3>2, <3>3, <3>4
  <2>5. \A m \in Used(t) :
       m # t2.root => t2.parent[m] \in Used(t) /\ \E z \in Side : t2.kid[z][t2.parent[m]] = m
    <3> TAKE m \in Used(t)
    <3> HAVE m # t2.root
    <3>1. CASE m = n
      BY <3>1, <1>1, <1>9, <1>10
    <3>2. CASE m = up
      BY <3>2, <1>5, <1>7, <1>9, <1>10
    <3>3. CASE m = mid /\ mid # nil
      BY <3>3, <1>1, <1>9, <1>10
    <3>4. CASE m # n /\ m # up /\ ~ (m = mid /\ mid # nil)
      <4>1. t2.parent[m] = t.parent[m]
        BY <3>4, <1>1, <1>10
      <4>2. m # t.root
        BY <3>4, <1>5, <1>7
      <4>3. PICK z \in Side : t.parent[m] \in Used(t) /\ t.kid[z][t.parent[m]] = m
        BY <4>2 DEF Shape, Links
      <4>4. CASE t.parent[m] = n
        <5>1. z = s /\ m = a
          BY <4>3, <4>4, <3>4, <1>1 DEF up, a
        <5> QED
          BY <5>1, <4>1, <4>4, <1>9
      <4>5. CASE t.parent[m] = up
        <5>1. z = o /\ m = far
          BY <4>3, <4>5, <3>4, <1>1 DEF mid, far
        <5> QED
          BY <5>1, <4>1, <4>5, <1>1, <1>9
      <4>6. CASE t.parent[m] = p /\ p # nil
        <5>1. z # d
          BY <4>3, <4>6, <3>4, <1>5
        <5> QED
          BY <5>1, <4>1, <4>3, <4>6, <1>9
      <4>7. CASE t.parent[m] # n /\ t.parent[m] # up /\ ~ (t.parent[m] = p /\ p # nil)
        BY <4>1, <4>3, <4>7, <1>1, <1>9
      <4> QED
        BY <4>4, <4>5, <4>6, <4>7
    <3> QED
      BY <3>1, <3>2, <3>3, <3>4
  <2> QED
    BY <2>1, <2>2, <2>3, <2>4, <2>5, <1>8 DEF Links
<1>13. Forks(t2, u2)
  <2>1. u2[nil] = {} /\ u2[t2.root] = Used(t)
    <3>1. u[t.root] = Used(t) /\ t.root \in Link
      BY DEF Shape, Forks, TreeType
    <3> QED
      BY <3>1, <1>1, <1>2, <1>5, <1>6, <1>7
  <2>2. ASSUME NEW m \in Used(t), NEW z \in Side
        PROVE  /\ u2[m] = {m} \cup u2[t2.kid[z][m]] \cup u2[t2.kid[Other(z)][m]]
               /\ m \notin u2[t2.kid[z][m]]
               /\ u2[t2.kid[z][m]] \cap u2[t2.kid[Other(z)][m]] = {}
    <3>0. Other(s) = o /\ Other(o) = s /\ (z = s \/ z = o)
      BY <1>1 DEF o
    <3>1. CASE m = n
      <4>1. u2[a] = u[a] /\ u2[mid] = u[mid]
        BY <1>1, <1>4, <1>6
      <4>2. n \notin u[mid] /\ u[a] \cap u[mid] = {}
        BY <1>3
      <4> QED
        BY <3>0, <3>1, <4>1, <4>2, <1>3, <1>6, <1>9
    <3>2. CASE m = up
      <4>1. u2[far] = u[far]
        BY <1>1, <1>4, <1>6
      <4>2. u[n] = {up} \cup ({n} \cup u[a] \cup u[mid]) \cup u[far]
        BY <1>3
      <4>3. up \notin ({n} \cup u[a] \cup u[mid]) /\ up \notin u[far]
        BY <1>1, <1>3, <1>4
      <4>4. ({n} \cup u[a] \cup u[mid]) \cap u[far] = {}
        BY <1>3
      <4> QED
        BY <3>0, <3>2, <4>1, <4>2, <4>3, <4>4, <1>6, <1>9
    <3>3. CASE m # n /\ m # up
      <4>1. u2[m] = u[m] /\ m \in Link
        BY <3>3, <1>1, <1>6
      <4>2. \A y \in Side : u2[t2.kid[y][m]] = u[t.kid[y][m]]
        <5> TAKE y \in Side
        <5>1. CASE m = p /\ y = d
          BY <5>1, <1>1, <1>5, <1>6, <1>9
        <5>2. CASE ~ (m = p /\ y = d)
          <6>1. t2.kid[y][m] = t.kid[y][m]
            BY <3>3, <5>2, <1>1, <1>9
          <6>2. t.kid[y][m] # n /\ t.kid[y][m] # up
            BY <5>2, <3>3, <1>5
          <6> QED
            BY <6>1, <6>2, <1>6, <1>11
        <5> QED
          BY <5>1, <5>2
      <4>3. Other(z) \in Side
        BY Sides
      <4>4. /\ u[m] = {m} \cup u[t.kid[z][m]] \cup u[t.kid[Other(z)][m]]
            /\ m \notin u[t.kid[z][m]]
            /\ u[t.kid[z][m]] \cap u[t.kid[Other(z)][m]] = {}
        BY DEF Shape, Forks
      <4> QED
        BY <4>1, <4>2, <4>3, <4>4
    <3> QED
      BY <3>1, <3>2, <3>3
  <2> QED
    BY <2>1, <2>2, <1>6, <1>8 DEF Forks
<1>14. Sorted(t2, u2)
  <2>0. \A m \in Used(t) : t.key[m] \in Int
    BY Finite, <1>1 DEF Shape, TreeType
  <2>1. ASSUME NEW m \in Used(t), NEW z \in Side, NEW v \in u2[t2.kid[z][m]]
        PROVE  Before(z, t.key[v], t.key[m])
    <3>0. /\ \A w \in u[a] : Before(s, t.key[w], t.key[n])
          /\ \A w \in u[up] : Before(o, t.key[w], t.key[n])
          /\ \A w \in u[mid] : Before(s, t.key[w], t.key[up])
          /\ \A w \in u[far] : Before(o, t.key[w], t.key[up])
      BY <1>1 DEF Shape, Sorted, a, up, mid, far
    <3>00. \A w \in u[n] : w \in Used(t)
      BY <1>6, <1>1, Nested
    <3>1. CASE m = n
      <4>1. u2[a] = u[a] /\ u2[mid] = u[mid] /\ u[mid] \subseteq u[up]
        BY <1>1, <1>3, <1>4, <1>6
      <4> QED
        BY <3>0, <3>1, <4>1, <2>1, <1>1, <1>9
    <3>2. CASE m = up
      <4>1. CASE z = o
        BY <4>1, <3>0, <3>2, <2>1, <1>1, <1>4, <1>6, <1>9
      <4>2. CASE z = s
        <5>1. v = n \/ v \in u[a] \/ v \in u[mid]
          BY <4>2, <3>2, <2>1, <1>6, <1>9
        <5>2. Before(s, t.key[n], t.key[up])
          BY <3>0, <2>0, <1>1, <1>4, Sides DEF o
        <5>3. v \in u[a] => Before(s, t.key[v], t.key[up])
          BY <5>2, <3>0, <3>00, <2>0, <1>1, <1>3, Sides
        <5> QED
          BY <5>1, <5>2, <5>3, <3>0, <3>2, <4>2
      <4> QED
        BY <4>1, <4>2, <1>1
    <3>3. CASE m # n /\ m # up
      <4>2. u2[t2.kid[z][m]] = u[t.kid[z][m]]
        <5>1. CASE m = p /\ z = d
          BY <5>1, <1>1, <1>5, <1>6, <1>9
        <5>2. CASE ~ (m = p /\ z = d)
          <6>1. t2.kid[z][m] = t.kid[z][m]
            BY <3>3, <5>2, <1>1, <1>9
          <6>2. t.kid[z][m] # n /\ t.kid[z][m] # up
            BY <5>2, <3>3, <1>5
          <6> QED
            BY <6>1, <6>2, <1>6, <1>11
        <5> QED
          BY <5>1, <5>2
      <4> QED
        BY <4>2, <2>1 DEF Shape, Sorted
    <3> QED
      BY <3>1, <3>2, <3>3
  <2> QED
    BY <2>1, <1>7, <1>8 DEF Sorted, Shape
<1> QED
  BY <1>7, <1>8, <1>12, <1>13, <1>14 DEF Shape, u2

-----------------------------------------------------------------------------
(* Colors and heights.                                                     *)

\* t1 is t but for the colors.
Repainted(t, t1) ==
  /\ t1 \in TreeType /\ t1.root = t.root /\ t1.kid = t.kid /\ t1.parent = t.parent
  /\ t1.key = t.key /\ t1.value = t.value

\* A painted search tree is one.
LEMMA RepaintedShape ==
  ASSUME NEW t, NEW u, Shape(t, u), NEW t1, Repainted(t, t1)
  PROVE  Shape(t1, u) /\ Used(t1) = Used(t)
<1>1. Used(t1) = Used(t)
  BY DEF Used, Repainted
<1> QED
  BY <1>1 DEF Shape, Links, Forks, Sorted, Repainted

\* Paint paints the nodes it is told, and changes nothing else.
LEMMA PaintIs ==
  ASSUME NEW t \in TreeType, NEW c \in {"red", "black"}, NEW ns
  PROVE  /\ Repainted(t, Paint(t, c, ns))
         /\ \A m \in Link : Paint(t, c, ns).color[m] = IF m \in ns THEN c ELSE t.color[m]
<1>1. Paint(t, c, ns) = [t EXCEPT !.color = [m \in Link |-> IF m \in ns THEN c ELSE t.color[m]]]
  BY DEF Paint, TreeType
<1> DEFINE f == [m \in Link |-> IF m \in ns THEN c ELSE t.color[m]]
<1>2. f \in [Link -> {"red", "black"}]
  BY DEF TreeType
<1>3. \A m \in Link : f[m] = IF m \in ns THEN c ELSE t.color[m]
  OBVIOUS
<1> HIDE DEF f
<1>4. Paint(t, c, ns) = [t EXCEPT !.color = f]
  BY <1>1 DEF f
<1> QED
  BY <1>2, <1>3, <1>4 DEF Repainted, TreeType

\* Painting twice is painting.
LEMMA Repaints ==
  ASSUME NEW t, NEW t1, NEW t2, Repainted(t, t1), Repainted(t1, t2)
  PROVE  Repainted(t, t2)
  BY DEF Repainted

\* The heights of m and its child c: a black child counts one, and so does what a
\* fixup of a delete owes on the way to it.
Rise(t, h, m, c, owed) ==
  /\ t.color[c] = "red" /\ ~ owed => h[m] = h[c]
  /\ t.color[c] = "black" /\ ~ owed => h[m] = h[c] + 1
  /\ t.color[c] = "red" /\ owed => h[m] = h[c] + 1
  /\ t.color[c] = "black" /\ owed => h[m] = h[c] + 2

\* h[m] is the black nodes on every way down from m, not counting m, if the child of
\* p on side z is owed one more.
Heights(t, h, p, z) ==
  /\ h \in [Link -> Nat] /\ h[nil] = 0
  /\ \A m \in Used(t), y \in Side : Rise(t, h, m, t.kid[y][m], m = p /\ y = z)

\* A red node has no red parent and is not the root, but for ins; del counts as black.
Reds(t, ins, del) ==
  /\ t.color[nil] = "black"
  /\ \A m \in Used(t) :
       t.color[m] = "red" /\ m # ins /\ m # del
         => m # t.root /\ (t.color[t.parent[m]] = "black" \/ t.parent[m] = del)

\* The places of a turn of n to the side s: up, below n on the side o, is lifted to
\* the side d of p, and no other links lead to n and up,
TurnAt(t, s, n, o, up, p, d) ==
  /\ o = Other(s) /\ o \in Side /\ s \in Side /\ o # s /\ Side = {s, o}
  /\ up = t.kid[o][n] /\ up \in Used(t) /\ up # n /\ n # nil /\ up # nil
  /\ p = t.parent[n] /\ d = SideOf(t, n) /\ d \in Side
  /\ p # n /\ p # up /\ (p = nil <=> n = t.root)
  /\ p # nil => p \in Used(t) /\ t.kid[d][p] = n
  /\ \A m \in Used(t), z \in Side : t.kid[z][m] = n => m = p /\ z = d
  /\ \A m \in Used(t), z \in Side : t.kid[z][m] = up => m = n /\ z = o
  /\ t.kid[s][n] # n /\ t.kid[s][n] # up
  /\ t.kid[s][up] # n /\ t.kid[s][up] # up /\ t.kid[o][up] # n /\ t.kid[o][up] # up

\* what it leaves alone, and the root,
TurnSame(t, t2, up, p) ==
  /\ t2.color = t.color /\ t2.key = t.key /\ t2.value = t.value
  /\ t2.root = IF p = nil THEN up ELSE t.root

\* the links down after it,
TurnKids(t, t2, s, n, o, up, p, d) ==
  /\ t2.kid[s][n] = t.kid[s][n] /\ t2.kid[o][n] = t.kid[s][up]
  /\ t2.kid[s][up] = n /\ t2.kid[o][up] = t.kid[o][up]
  /\ p # nil => t2.kid[d][p] = up /\ \A z \in Side : z # d => t2.kid[z][p] = t.kid[z][p]
  /\ \A m \in Used(t), z \in Side : m # n /\ m # up /\ m # p => t2.kid[z][m] = t.kid[z][m]

\* and the links up.
TurnParents(t, t2, s, n, up, p) ==
  /\ t.kid[s][up] # nil => t2.parent[t.kid[s][up]] = n
  /\ t2.parent[n] = up /\ t2.parent[up] = p
  /\ \A m \in Link : m # n /\ m # up /\ (m # t.kid[s][up] \/ m = nil) => t2.parent[m] = t.parent[m]

\* The turn.
Turned(t, t2, s, n, o, up, p, d) ==
  /\ TurnAt(t, s, n, o, up, p, d)
  /\ TurnSame(t, t2, up, p)
  /\ TurnKids(t, t2, s, n, o, up, p, d)
  /\ TurnParents(t, t2, s, n, up, p)

\* The turn names each link that changes, and each that does not.
LEMMA TurnedIs ==
  ASSUME NEW t, NEW u, Shape(t, u), NEW s \in Side, NEW n \in Used(t), t.kid[Other(s)][n] # nil,
         NEW t2, Rotated(t, t2, s, n)
  PROVE  Turned(t, t2, s, n, Other(s), t.kid[Other(s)][n], t.parent[n], SideOf(t, n))
<1> DEFINE o == Other(s)
           up == t.kid[o][n]
           mid == t.kid[s][up]
           far == t.kid[o][up]
           a == t.kid[s][n]
           p == t.parent[n]
           d == SideOf(t, n)
<1>1. /\ o \in Side /\ o # s /\ Side = {s, o} /\ Other(o) = s
      /\ up \in Used(t) /\ up # n /\ n \in Node /\ up \in Node /\ n \in Link /\ up \in Link /\ nil \in Link
      /\ n # nil /\ up # nil /\ u[nil] = {}
      /\ a \in Link /\ mid \in Link /\ far \in Link /\ p \in Link
      /\ \A m \in Used(t) : m \in Node /\ m \in Link /\ m # nil
  <2>1. o \in Side /\ o # s /\ Side = {s, o} /\ Other(o) = s
    BY Sides
  <2>2. up \in Used(t) /\ up # n
    BY <2>1, Smaller
  <2>3. \A m \in Used(t) : m \in Node /\ m \in Link /\ m # nil /\ u[nil] = {}
    BY Kids
  <2>4. a \in Link /\ mid \in Link /\ far \in Link
    BY <2>1, <2>2, Smaller
  <2>5. p \in Link /\ nil \in Link
    BY <2>3 DEF Shape, TreeType, Link
  <2> QED
    BY <2>1, <2>2, <2>3, <2>4, <2>5
<1>3. /\ u[n] = {n} \cup u[a] \cup u[up] /\ n \notin u[a] /\ n \notin u[up] /\ u[a] \cap u[up] = {}
      /\ u[up] = {up} \cup u[mid] \cup u[far] /\ up \notin u[mid] /\ up \notin u[far] /\ u[mid] \cap u[far] = {}
  BY <1>1 DEF Shape, Forks
<1>4. /\ a # n /\ mid # n /\ far # n /\ a # up /\ mid # up /\ far # up
  <2>1. up \in u[up] /\ n \in u[n]
    BY <1>1, Kids
  <2> QED
    BY <2>1, <1>1, <1>3, Zenon
<1>5. /\ p = nil <=> n = t.root
      /\ p # nil => p \in Used(t) /\ t.kid[d][p] = n
      /\ p # n /\ p # up
      /\ d \in Side
      /\ \A m \in Used(t), z \in Side : t.kid[z][m] = n => m = p /\ z = d
      /\ \A m \in Used(t), z \in Side : t.kid[z][m] = up => m = n /\ z = o
  <2>1. /\ p = nil <=> n = t.root
        /\ p # nil => p \in Used(t) /\ t.kid[d][p] = n
        /\ d \in Side
        /\ \A m \in Used(t), z \in Side : t.kid[z][m] = n => m = p /\ z = d
    BY Kids
  <2>2. \A m \in Used(t), z \in Side : t.kid[z][m] = up => m = n /\ z = o
    BY <1>1, Kids
  <2>3. p # nil => u[n] \subseteq u[p] /\ u[n] # u[p]
    BY <2>1, Smaller
  <2>4. p # n /\ p # up
    BY <2>1, <2>3, <1>3, <1>1, Zenon
  <2> QED
    BY <2>1, <2>2, <2>4, SMTT(30)
<1>7. /\ t2 \in TreeType /\ t2.color = t.color /\ t2.key = t.key /\ t2.value = t.value
      /\ t2.root = IF p = nil THEN up ELSE t.root
      /\ \A m \in Link :
            /\ t2.kid[o][m] = IF m = n THEN mid ELSE IF p # nil /\ m = p /\ d = o THEN up ELSE t.kid[o][m]
            /\ t2.kid[s][m] = IF m = up THEN n ELSE IF p # nil /\ m = p /\ d = s THEN up ELSE t.kid[s][m]
            /\ t2.parent[m] = IF mid # nil /\ m = mid THEN n
                         ELSE IF m = n THEN up ELSE IF m = up THEN p ELSE t.parent[m]
  BY DEF Rotated
<1>a. o = Other(s) /\ up = t.kid[o][n] /\ mid = t.kid[s][up] /\ far = t.kid[o][up] /\ a = t.kid[s][n] /\ p = t.parent[n] /\ d = SideOf(t, n)
  OBVIOUS
<1> HIDE DEF o, up, mid, far, a, p, d
<1>9. /\ t2.kid[s][n] = a /\ t2.kid[o][n] = mid
      /\ t2.kid[s][up] = n /\ t2.kid[o][up] = far
      /\ p # nil => t2.kid[d][p] = up /\ \A z \in Side : z # d => t2.kid[z][p] = t.kid[z][p]
      /\ \A m \in Link, z \in Side : m # n /\ m # up /\ m # p => t2.kid[z][m] = t.kid[z][m]
  <2>1. t2.kid[s][n] = a /\ t2.kid[o][n] = mid
    BY <1>1, <1>5, <1>7 DEF a
  <2>2. t2.kid[s][up] = n /\ t2.kid[o][up] = far
    BY <1>1, <1>5, <1>7 DEF far
  <2>3. p # nil => t2.kid[d][p] = up /\ \A z \in Side : z # d => t2.kid[z][p] = t.kid[z][p]
    BY <1>1, <1>5, <1>7
  <2>4. \A m \in Link, z \in Side : m # n /\ m # up /\ m # p => t2.kid[z][m] = t.kid[z][m]
    BY <1>1, <1>7
  <2> QED
    BY <2>1, <2>2, <2>3, <2>4
<1>10. /\ mid # nil => t2.parent[mid] = n
       /\ t2.parent[n] = up /\ t2.parent[up] = p
       /\ \A m \in Link : m # n /\ m # up /\ (m # mid \/ m = nil) => t2.parent[m] = t.parent[m]
  BY <1>1, <1>4, <1>7, SMTT(30)
<1>11. Turned(t, t2, s, n, o, up, p, d)
  <2>1. TurnAt(t, s, n, o, up, p, d)
    BY <1>1, <1>4, <1>5, <1>a, ZenonT(60) DEF TurnAt
  <2>2. TurnSame(t, t2, up, p)
    BY <1>7, Zenon DEF TurnSame
  <2>3. TurnKids(t, t2, s, n, o, up, p, d)
    BY <1>1, <1>9, <1>a, ZenonT(60) DEF TurnKids
  <2>4. TurnParents(t, t2, s, n, up, p)
    BY <1>10, <1>a, ZenonT(60) DEF TurnParents
  <2> QED
    BY <2>1, <2>2, <2>3, <2>4, Zenon DEF Turned
<1> QED
  BY <1>11 DEF o, up, p, d

\* A turn that lifts a red child over its parent, the two having swapped colors,
\* keeps the heights.
LEMMA RedUpHeights ==
  ASSUME NEW t, NEW u, Shape(t, u), NEW h, NEW p, NEW z, Heights(t, h, p, z),
         NEW s \in Side, NEW n \in Used(t), NEW up \in Used(t), t.kid[Other(s)][n] = up,
         t.color[up] = "red", ~ (p = n /\ z = Other(s)), ~ (p = up /\ z = s),
         NEW t1, Repainted(t, t1), t1.color[n] = "red", t1.color[up] = t.color[n],
         \A m \in Link : m # n /\ m # up => t1.color[m] = t.color[m],
         NEW t2, Rotated(t1, t2, s, n)
  PROVE  Heights(t2, h, p, z)
<1> DEFINE o == Other(s)
           q == t.parent[n]
           d == SideOf(t, n)
<1>1. Shape(t1, u) /\ Used(t1) = Used(t) /\ Used(t2) = Used(t)
  <2>1. Shape(t1, u) /\ Used(t1) = Used(t)
    BY RepaintedShape
  <2>2. up # nil
    BY Kids
  <2> QED
    BY <2>1, <2>2 DEF Rotated, Used, Repainted
<1>2. Turned(t1, t2, s, n, o, up, q, d)
  <2>1. t1.kid = t.kid /\ t1.parent = t.parent /\ SideOf(t1, n) = d /\ up # nil
    BY Kids DEF Repainted, SideOf
  <2> QED
    BY <1>1, <2>1, TurnedIs
<1>3. t1.kid = t.kid /\ t1.parent = t.parent
  BY DEF Repainted
<1>4. /\ h \in [Link -> Nat] /\ h[nil] = 0 /\ \A m \in Used(t), y \in Side : Rise(t, h, m, t.kid[y][m], m = p /\ y = z)
      /\ \A m \in Used(t), y \in Side : t.kid[y][m] \in Link /\ m \in Link /\ m # nil
      /\ t.color[n] \in {"red", "black"}
  BY Smaller, SMTT(30) DEF Heights, Shape, TreeType
<1> HIDE DEF o, q, d
<1>6. /\ o = Other(s) /\ o # s /\ Side = {s, o} /\ t.kid[o][n] = up /\ up # n
      /\ t2.color = t1.color
      /\ t2.kid[s][n] = t.kid[s][n] /\ t2.kid[o][n] = t.kid[s][up]
      /\ t2.kid[s][up] = n /\ t2.kid[o][up] = t.kid[o][up]
      /\ t.kid[s][n] # n /\ t.kid[s][n] # up
      /\ t.kid[s][up] # n /\ t.kid[s][up] # up /\ t.kid[o][up] # n /\ t.kid[o][up] # up
  <2>1. /\ o = Other(s) /\ o # s /\ Side = {s, o} /\ t.kid[o][n] = up /\ up # n
        /\ t.kid[s][n] # n /\ t.kid[s][n] # up
        /\ t.kid[s][up] # n /\ t.kid[s][up] # up /\ t.kid[o][up] # n /\ t.kid[o][up] # up
    BY <1>2, <1>3, SMTT(30) DEF Turned, TurnAt
  <2>2. t2.color = t1.color
    BY <1>2, SMTT(30) DEF Turned, TurnSame
  <2>3. /\ t2.kid[s][n] = t.kid[s][n] /\ t2.kid[o][n] = t.kid[s][up]
        /\ t2.kid[s][up] = n /\ t2.kid[o][up] = t.kid[o][up]
    BY <1>2, <1>3, SMTT(30) DEF Turned, TurnKids
  <2> QED
    BY <2>1, <2>2, <2>3
<1>7. /\ \A x \in Link : x # n /\ x # up => t2.color[x] = t.color[x]
      /\ t2.color[n] = "red" /\ t2.color[up] = t.color[n]
  BY <1>6
<1>8. \A m \in Used(t), y \in Side : t.kid[y][m] \in Link
  BY <1>4
<1>5. ASSUME NEW m \in Used(t), NEW y \in Side
      PROVE  Rise(t2, h, m, t2.kid[y][m], m = p /\ y = z)
  <2>0. y = s \/ y = o
    BY <1>6
  <2>h. h[n] = h[up]
    <3>1. Rise(t, h, n, t.kid[Other(s)][n], n = p /\ Other(s) = z)
      BY <1>4, Sides
    <3> QED
      BY <3>1 DEF Rise
  <2>1. CASE m = n
    <3>1. CASE y = s
      <4>1. t2.kid[s][n] = t.kid[s][n] /\ t2.color[t.kid[s][n]] = t.color[t.kid[s][n]]
        BY <1>6, <1>7, <1>8
      <4>2. Rise(t, h, n, t.kid[s][n], n = p /\ s = z)
        BY <1>4
      <4> QED
        BY <2>1, <3>1, <4>1, <4>2 DEF Rise
    <3>2. CASE y = o
      <4>1. Rise(t, h, up, t.kid[s][up], FALSE)
        BY <1>4
      <4>2. t2.kid[o][n] = t.kid[s][up] /\ t2.color[t.kid[s][up]] = t.color[t.kid[s][up]]
        BY <1>6, <1>7, <1>8
      <4>3. ~ (m = p /\ y = z)
        BY <2>1, <3>2 DEF o
      <4> QED
        BY <2>1, <3>2, <2>h, <4>1, <4>2, <4>3 DEF Rise
    <3> QED
      BY <2>0, <3>1, <3>2
  <2>2. CASE m = up
    <3>1. CASE y = s
      <4>1. t2.kid[s][up] = n /\ t2.color[n] = "red"
        BY <1>6, <1>7, SMTT(30)
      <4> QED
        BY <2>2, <3>1, <4>1, <2>h DEF Rise
    <3>2. CASE y = o
      <4>1. t2.kid[o][up] = t.kid[o][up] /\ t2.color[t.kid[o][up]] = t.color[t.kid[o][up]]
        BY <1>6, <1>7, <1>8
      <4> QED
        BY <2>2, <3>2, <4>1, <1>4 DEF Rise
    <3> QED
      BY <2>0, <3>1, <3>2
  <2>3. CASE m # n /\ m # up /\ m = q /\ y = d
    <3>1. t2.kid[y][m] = up /\ t2.color[up] = t.color[n] /\ t.kid[y][m] = n
      <4>1. q # nil
        BY <2>3, Kids
      <4> QED
        BY <2>3, <4>1, <1>2, <1>3, <1>7, SMTT(30) DEF Turned, TurnAt, TurnKids
    <3>2. Rise(t, h, m, n, m = p /\ y = z)
      BY <3>1, <1>4
    <3> QED
      BY <3>1, <3>2, <2>h, SMTT(30) DEF Rise
  <2>4. CASE m # n /\ m # up /\ ~ (m = q /\ y = d)
    <3>0. m # nil
      BY <1>4
    <3>1. t2.kid[y][m] = t.kid[y][m] /\ t.kid[y][m] # n /\ t.kid[y][m] # up
      <4>1. t1.kid[y][m] # n /\ t1.kid[y][m] # up
        BY <2>4, <1>1, <1>2, <1>6, SMTT(30) DEF Turned, TurnAt
      <4>2. CASE m = q
        <5>1. t2.kid[y][m] = t1.kid[y][m]
          BY <2>4, <3>0, <4>2, <1>2, SMTT(30) DEF Turned, TurnKids
        <5> QED
          BY <4>1, <5>1, <1>3
      <4>3. CASE m # q
        <5>1. t2.kid[y][m] = t1.kid[y][m]
          BY <2>4, <4>3, <1>1, <1>2, SMTT(30) DEF Turned, TurnKids
        <5> QED
          BY <4>1, <5>1, <1>3
      <4> QED
        BY <4>2, <4>3
    <3>2. t2.color[t.kid[y][m]] = t.color[t.kid[y][m]]
      BY <3>1, <1>7, <1>8
    <3>3. Rise(t, h, m, t.kid[y][m], m = p /\ y = z)
      BY <1>4
    <3> QED
      BY <3>1, <3>2, <3>3 DEF Rise
  <2> QED
    BY <2>1, <2>2, <2>3, <2>4
<1> QED
  BY <1>1, <1>4, <1>5 DEF Heights

-----------------------------------------------------------------------------
(* The fixup of an insert.                                                 *)

\* A fixup of an insert at the red n, whose parent p is red too; g is above p.
RedPair(t, u, h, n, p, g, s) ==
  /\ Shape(t, u) /\ Heights(t, h, nil, "left") /\ Reds(t, n, nil)
  /\ n \in Used(t) /\ t.color[n] = "red" /\ p = t.parent[n] /\ t.color[p] = "red"
  /\ g = t.parent[p] /\ s = SideOf(t, p)

\* The ways in which the fixups paint: p black and g red,
Recolored(t, p, g) == Paint(Paint(t, "black", {p}), "red", {g})

\* p and the uncle black and g red,
RedAbove(t, p, uncle, g) == Paint(Paint(t, "black", {p, uncle}), "red", {g})

\* c in the color of p, and p and far black,
AsParent(t, p, c, far) == Paint(Paint(t, t.color[p], {c}), "black", {p, far})

\* and c red.
Reddened(t, c) == Paint(t, "red", {c})

\* What a tree is made of.
LEMMA Parts ==
  ASSUME NEW t \in TreeType
  PROVE  /\ t = [root |-> t.root, kid |-> t.kid, parent |-> t.parent, color |-> t.color,
                 key |-> t.key, value |-> t.value]
         /\ t.root \in Link /\ t.kid \in [Side -> [Link -> Link]] /\ t.parent \in [Link -> Link]
         /\ t.color \in [Link -> {"red", "black"}] /\ t.key \in [Link -> Link] /\ t.value \in [Link -> Link]
BY DEF TreeType

\* Two paintings, the second over the first,
LEMMA TwoPaints ==
  ASSUME NEW t \in TreeType, NEW c1 \in {"red", "black"}, NEW n1, NEW c2 \in {"red", "black"}, NEW n2,
         NEW t2, t2 = Paint(Paint(t, c1, n1), c2, n2)
  PROVE  /\ Repainted(t, t2)
         /\ \A m \in Link : t2.color[m] = IF m \in n2 THEN c2 ELSE IF m \in n1 THEN c1 ELSE t.color[m]
<1> DEFINE t1 == Paint(t, c1, n1)
<1>1. Repainted(t, t1) /\ \A m \in Link : t1.color[m] = IF m \in n1 THEN c1 ELSE t.color[m]
  BY PaintIs
<1>2. t2 = Paint(t1, c2, n2)
  OBVIOUS
<1> HIDE DEF t1
<1>3. t1 \in TreeType
  BY <1>1 DEF Repainted
<1>4. Repainted(t1, t2) /\ \A m \in Link : t2.color[m] = IF m \in n2 THEN c2 ELSE t1.color[m]
  BY <1>2, <1>3, PaintIs
<1> QED
  BY <1>1, <1>4, Repaints

\* for a node and the one above it,
LEMMA RecoloredIs ==
  ASSUME NEW t \in TreeType, NEW p, NEW g
  PROVE  /\ Repainted(t, Recolored(t, p, g))
         /\ \A m \in Link : Recolored(t, p, g).color[m] =
              IF m = g THEN "red" ELSE IF m = p THEN "black" ELSE t.color[m]
<1> DEFINE t2 == Paint(Paint(t, "black", {p}), "red", {g})
<1>1. /\ Repainted(t, t2)
      /\ \A m \in Link : t2.color[m] = IF m \in {g} THEN "red" ELSE IF m \in {p} THEN "black" ELSE t.color[m]
  BY TwoPaints
<1>2. Recolored(t, p, g) = t2
  BY DEF Recolored
<1> HIDE DEF t2
<1> QED
  BY <1>1, <1>2

\* and for the last step of a fixup of a delete.
LEMMA AsParentIs ==
  ASSUME NEW t \in TreeType, NEW p \in Link, NEW c, NEW far
  PROVE  /\ Repainted(t, AsParent(t, p, c, far))
         /\ \A m \in Link : AsParent(t, p, c, far).color[m] =
              IF m = p \/ m = far THEN "black" ELSE IF m = c THEN t.color[p] ELSE t.color[m]
<1> DEFINE t2 == Paint(Paint(t, t.color[p], {c}), "black", {p, far})
<1>0. t.color[p] \in {"red", "black"}
  BY Parts
<1>1. /\ Repainted(t, t2)
      /\ \A m \in Link : t2.color[m] = IF m \in {p, far} THEN "black" ELSE IF m \in {c} THEN t.color[p] ELSE t.color[m]
  BY <1>0, TwoPaints
<1>2. AsParent(t, p, c, far) = t2
  BY SMTT(30) DEF AsParent
<1> HIDE DEF t2
<1> QED
  BY <1>1, <1>2

\* Then p is not the root, and g is black and has p as a child.
LEMMA RedPairIs ==
  ASSUME NEW t, NEW u, NEW h, NEW n, NEW p, NEW g, NEW s, RedPair(t, u, h, n, p, g, s)
  PROVE  /\ p \in Used(t) /\ p # n /\ n # t.root /\ p # t.root /\ g \in Used(t) /\ g # p /\ g # n
         /\ t.color[g] = "black" /\ s \in Side /\ t.kid[s][g] = p
         /\ n # nil /\ p # nil /\ g # nil /\ n \in Link /\ p \in Link /\ g \in Link
         /\ \E z \in Side : t.kid[z][p] = n
         /\ t.parent[n] = p /\ t.parent[p] = g /\ t.kid[Other(s)][g] # p /\ t.kid[Other(s)][g] # n
<1>1. t.color[nil] = "black"
  BY DEF RedPair, Reds
<1>2. n # t.root /\ p \in Used(t) /\ t.kid[SideOf(t, n)][p] = n /\ SideOf(t, n) \in Side
  BY <1>1, Kids DEF RedPair
<1>3. p # n
  BY <1>2, Kids DEF RedPair
<1>4. p # nil
  BY <1>2, Kids DEF RedPair
<1>5. p # t.root /\ (t.color[g] = "black" \/ g = nil)
  BY <1>2, <1>3, <1>4 DEF RedPair, Reds
<1>6. g \in Used(t) /\ t.kid[s][g] = p /\ s \in Side
  BY <1>2, <1>5, Kids DEF RedPair
<1>7. g # nil /\ g # p /\ n # nil /\ n \in Link /\ p \in Link /\ g \in Link
  BY <1>2, <1>6, Kids DEF RedPair
<1>8. g # n
  BY <1>1, <1>5 DEF RedPair
<1>9. t.kid[Other(s)][g] # p /\ t.kid[Other(s)][g] # n
  <2>1. Other(s) \in Side /\ Other(s) # s
    BY <1>6, Sides
  <2>2. t.kid[Other(s)][g] # p
    BY <2>1, <1>2, <1>6, Kids DEF RedPair
  <2>3. t.kid[Other(s)][g] # n
    BY <2>1, <1>6, <1>7, Kids DEF RedPair
  <2> QED
    BY <2>2, <2>3
<1> QED
  BY <1>1, <1>2, <1>3, <1>4, <1>5, <1>6, <1>7, <1>8, <1>9 DEF RedPair

\* The step of the fixup of an insert with a red uncle.
UncleRed(t, t2, p, g, s, uncle) ==
  /\ uncle = t.kid[Other(s)][g]
  /\ t.color[uncle] = "red"
  /\ t2 = RedAbove(t, p, uncle, g)

\* It raises the height of g.
Raised(h, g) == [h EXCEPT ![g] = h[g] + 1]

\* It keeps the search tree and the heights, and only g may now have a red parent.
LEMMA InsertUncleRed ==
  ASSUME NEW t, NEW u, NEW h, NEW n, NEW p, NEW g, NEW s, RedPair(t, u, h, n, p, g, s),
         NEW uncle, NEW t2, UncleRed(t, t2, p, g, s, uncle)
  PROVE  /\ Shape(t2, u) /\ Used(t2) = Used(t) /\ t2.key = t.key
         /\ Heights(t2, Raised(h, g), nil, "left")
         /\ Reds(t2, g, nil) /\ g \in Used(t) /\ t2.color[g] = "red"
<1> DEFINE o == Other(s)
           h2 == [h EXCEPT ![g] = h[g] + 1]
<1>0. /\ uncle = t.kid[Other(s)][g]
      /\ t.color[uncle] = "red"
      /\ t2 = RedAbove(t, p, uncle, g)
  BY DEF UncleRed
<1>1. /\ p \in Used(t) /\ p # n /\ n # t.root /\ p # t.root /\ g \in Used(t) /\ g # p /\ g # n
      /\ t.color[g] = "black" /\ s \in Side /\ t.kid[s][g] = p
      /\ n # nil /\ p # nil /\ g # nil /\ n \in Link /\ p \in Link /\ g \in Link
      /\ t.parent[n] = p /\ t.parent[p] = g
  BY RedPairIs
<1>2. /\ Shape(t, u) /\ t \in TreeType /\ Heights(t, h, nil, "left") /\ Reds(t, n, nil)
  BY DEF RedPair, Shape
<1>3. o \in Side /\ Side = {s, o} /\ o # s /\ uncle = t.kid[o][g]
  BY <1>0, <1>1, Sides
<1>4. uncle # nil /\ uncle \in Used(t) /\ uncle # g /\ uncle \in Link
  <2>1. uncle # nil
    BY <1>0, <1>2 DEF Reds
  <2> QED
    BY <2>1, <1>1, <1>2, <1>3, Smaller
<1>5. /\ Repainted(t, t2)
      /\ \A m \in Link : t2.color[m] = IF m = g THEN "red" ELSE IF m = p \/ m = uncle THEN "black" ELSE t.color[m]
  <2> DEFINE t1 == Paint(t, "black", {p, uncle})
  <2>1. Repainted(t, t1) /\ \A m \in Link : t1.color[m] = IF m \in {p, uncle} THEN "black" ELSE t.color[m]
    BY <1>2, PaintIs
  <2> HIDE DEF t1
  <2>2. t1 \in TreeType
    BY <2>1 DEF Repainted
  <2>3. Repainted(t1, Paint(t1, "red", {g})) /\ \A m \in Link : Paint(t1, "red", {g}).color[m] = IF m \in {g} THEN "red" ELSE t1.color[m]
    BY <2>2, PaintIs
  <2>4. t2 = Paint(t1, "red", {g})
    BY <1>0 DEF t1, RedAbove
  <2> QED
    BY <2>1, <2>3, <2>4, Repaints
<1>6. Shape(t2, u) /\ Used(t2) = Used(t)
  BY <1>2, <1>5, RepaintedShape
<1>7. \A m \in Used(t) : m \in Link /\ m # nil
  BY <1>2, Kids
<1>8. \A m \in Used(t), y \in Side : t.kid[y][m] = g => m # g
  BY <1>2, Smaller
<1>9. /\ h \in [Link -> Nat] /\ h2 \in [Link -> Nat] /\ h2[g] = h[g] + 1 /\ h2[nil] = 0
      /\ \A m \in Link : m # g => h2[m] = h[m]
      /\ \A m \in Used(t), y \in Side : Rise(t, h, m, t.kid[y][m], FALSE) /\ t.kid[y][m] \in Link
  <2>1. \A m \in Used(t), y \in Side : t.kid[y][m] \in Link /\ m # nil
    BY <1>2, <1>7, Smaller
  <2> QED
    <3>1. h \in [Link -> Nat] /\ h[nil] = 0 /\ nil \in Link
      BY <1>2 DEF Heights, Link
    <3>2. h2 \in [Link -> Nat] /\ h2[g] = h[g] + 1 /\ \A m \in Link : m # g => h2[m] = h[m]
      BY <1>1, <3>1
    <3>4. h2[nil] = 0
      BY <1>1, <3>1, <3>2
    <3>3. ASSUME NEW m \in Used(t), NEW y \in Side PROVE Rise(t, h, m, t.kid[y][m], FALSE)
      <4>1. Rise(t, h, m, t.kid[y][m], m = nil /\ y = "left")
        BY <1>2 DEF Heights
      <4> QED
        BY <4>1, <2>1 DEF Rise
    <3> QED
      BY <2>1, <3>1, <3>2, <3>3, <3>4
<1>10. Heights(t2, h2, nil, "left")
  <2>1. ASSUME NEW m \in Used(t), NEW y \in Side PROVE Rise(t2, h2, m, t.kid[y][m], FALSE)
    <3> DEFINE c == t.kid[y][m]
    <3>0. Rise(t, h, m, c, FALSE) /\ c \in Link /\ m \in Link
      BY <1>7, <1>9
    <3>1. CASE m = g
      <4>1. c = p \/ c = uncle
        BY <3>1, <1>1, <1>3, SMTT(30)
      <4>2. t2.color[c] = "black" /\ t.color[c] = "red" /\ c # g
        BY <4>1, <1>0, <1>1, <1>4, <1>5, Zenon DEF RedPair
      <4> QED
        BY <3>0, <3>1, <4>2, <1>9 DEF Rise
    <3>2. CASE m # g /\ c = g
      <4>1. t2.color[c] = "red" /\ t.color[c] = "black"
        BY <3>2, <1>1, <1>5
      <4> QED
        BY <3>0, <3>2, <4>1, <1>9 DEF Rise
    <3>3. CASE m # g /\ c # g
      <4>1. c # p /\ c # uncle
        <5>1. m \in Used(t) /\ Shape(t, u)
          BY <1>2
        <5>2. c = p => m = g
          BY <1>1, <1>2, Kids
        <5>3. c = uncle => m = g
          BY <1>1, <1>2, <1>3, <1>4, Kids
        <5> QED
          BY <5>2, <5>3, <3>3
      <4>2. t2.color[c] = t.color[c]
        BY <4>1, <3>0, <3>3, <1>5
      <4> QED
        BY <3>0, <3>3, <4>2, <1>9 DEF Rise
    <3> QED
      BY <3>1, <3>2, <3>3
  <2>2. t2.kid = t.kid
    BY <1>5 DEF Repainted
  <2> QED
    BY <2>1, <2>2, <1>6, <1>7, <1>9 DEF Heights
<1>11. Reds(t2, g, nil)
  <2>1. ASSUME NEW m \in Used(t), t2.color[m] = "red", m # g
        PROVE  m # t.root /\ t2.color[t.parent[m]] = "black"
    <3>1. m # p /\ m # uncle /\ t.color[m] = "red" /\ m \in Link
      BY <2>1, <1>5, <1>7
    <3>2. CASE m = n
      BY <3>2, <1>1, <1>5
    <3>3. CASE m # n
      <4>1. m # t.root
        BY <3>1, <3>3, <1>2, <1>7 DEF Reds
      <4>2. t.parent[m] \in Used(t) /\ \E y \in Side : t.kid[y][t.parent[m]] = m
        BY <4>1, <1>2 DEF Shape, Links
      <4>3. t.color[t.parent[m]] = "black"
        BY <3>1, <3>3, <4>2, <1>2, <1>7 DEF Reds
      <4>4. t.parent[m] # g
        BY <4>2, <3>1, <1>1, <1>3
      <4> QED
        BY <4>1, <4>2, <4>3, <4>4, <1>5, <1>7
    <3> QED
      BY <3>2, <3>3
  <2>2. t2.root = t.root /\ t2.parent = t.parent
    BY <1>5 DEF Repainted
  <2>3. t2.color[nil] = "black"
    <3>1. nil \in Link /\ t.color[nil] = "black"
      BY <1>2 DEF Link, Reds
    <3> QED
      BY <3>1, <1>1, <1>4, <1>5
  <2> QED
    BY <2>1, <2>2, <2>3, <1>6 DEF Reds
<1>12. t2.color[g] = "red" /\ t2.key = t.key
  BY <1>1, <1>5 DEF Repainted
<1> QED
  BY <1>1, <1>6, <1>10, <1>11, <1>12 DEF Raised

\* The turn that makes an inner grandchild an outer one.
InnerTurn(t, t2, n, p, s) ==
  /\ n = t.kid[Other(s)][p]
  /\ t2 = Rotate(t, s, p)

\* It swaps the parts of n and p, and the uncle stays what it was.
LEMMA InsertInner ==
  ASSUME NEW t, NEW u, NEW h, NEW n, NEW p, NEW g, NEW s, RedPair(t, u, h, n, p, g, s),
         NEW t2, InnerTurn(t, t2, n, p, s)
  PROVE  /\ RedPair(t2, TurnedForks(t, u, s, p), h, p, n, g, s)
         /\ Used(t2) = Used(t) /\ t2.key = t.key /\ t2.color = t.color
         /\ t2.kid[Other(s)][n] # p /\ t2.kid[Other(s)][g] = t.kid[Other(s)][g]
<1> DEFINE o == Other(s)
           d == SideOf(t, p)
           u2 == TurnedForks(t, u, s, p)
<1>0. /\ n = t.kid[Other(s)][p]
      /\ t2 = Rotate(t, s, p)
  BY DEF InnerTurn
<1>1. /\ p \in Used(t) /\ p # n /\ n # t.root /\ p # t.root /\ g \in Used(t) /\ g # p /\ g # n
      /\ t.color[g] = "black" /\ s \in Side /\ t.kid[s][g] = p
      /\ n # nil /\ p # nil /\ g # nil /\ n \in Link /\ p \in Link /\ g \in Link
      /\ t.parent[n] = p /\ t.parent[p] = g
  BY RedPairIs, SMTT(30)
<1>2. /\ Shape(t, u) /\ t \in TreeType /\ Heights(t, h, nil, "left") /\ Reds(t, n, nil)
      /\ n \in Used(t) /\ t.color[n] = "red" /\ t.color[p] = "red"
      /\ n = t.kid[o][p] /\ d = s
  BY <1>0, Zenon DEF RedPair, Shape
<1>3. Rotated(t, t2, s, p)
  BY <1>0, <1>1, <1>2, RotateIs
<1>4. Shape(t2, u2) /\ Used(t2) = Used(t)
  BY <1>0, <1>1, <1>2, <1>3, RotateShape
<1>5. Turned(t, t2, s, p, o, n, g, s)
  BY <1>1, <1>2, <1>3, TurnedIs
<1>6. Heights(t2, h, nil, "left")
  <2>1. Repainted(t, t)
    BY <1>2, SMTT(30) DEF Repainted
  <2> QED
    BY <2>1, <1>1, <1>2, <1>3, RedUpHeights
<1> HIDE DEF u2, d, o
<1>7. t2.color = t.color /\ t2.key = t.key /\ t2.root = t.root
  BY <1>1, <1>5, SMTT(30) DEF Turned, TurnSame
<1>8. t2.parent[p] = n /\ t2.parent[n] = g
  BY <1>5, SMTT(30) DEF Turned, TurnParents
<1>9. t2.kid[s][n] = p /\ t2.kid[o][n] # p /\ t2.kid[s][g] = n /\ t2.kid[o][g] = t.kid[o][g]
  <2>1. t2.kid[s][n] = p /\ t2.kid[o][n] # p
    BY <1>5, SMTT(30) DEF Turned, TurnAt, TurnKids
  <2>2. t2.kid[s][g] = n /\ t2.kid[o][g] = t.kid[o][g]
    BY <1>1, <1>5, SMTT(30) DEF Turned, TurnAt, TurnKids
  <2> QED
    BY <2>1, <2>2
<1>10. SideOf(t2, n) = s
  <2>1. t.kid[o][g] # n
    BY <1>1, <1>5, SMTT(30) DEF Turned, TurnAt
  <2>2. Other(s) = o /\ t2.parent[n] = g
    BY <1>8 DEF o
  <2>3. s = "left" \/ (s = "right" /\ o = "left")
    BY <1>1 DEF Side, Other, o
  <2> QED
    BY <2>1, <2>2, <2>3, <1>9, SMTT(30) DEF SideOf
<1>11. Reds(t2, p, nil)
  <2>1. ASSUME NEW m \in Used(t), t.color[m] = "red", m # p
        PROVE  m # t.root /\ t.color[t2.parent[m]] = "black"
    <3>1. CASE m = n
      BY <3>1, <1>1, <1>8
    <3>2. CASE m # n
      <4>1. m # t.root /\ m # nil /\ m \in Link
        BY <2>1, <3>2, <1>2, Kids DEF Reds
      <4>2. t.parent[m] \in Used(t) /\ t.parent[m] # nil
        BY <4>1, <1>2, Kids
      <4>3. t.color[t.parent[m]] = "black"
        BY <2>1, <3>2, <4>2, <4>1, <1>2 DEF Reds
      <4>4. m # t.kid[s][n]
        BY <1>1, <1>2, <4>1, <4>3, Kids, SMTT(30)
      <4>5. t2.parent[m] = t.parent[m]
        BY <2>1, <3>2, <4>1, <4>4, <1>5, SMTT(30) DEF Turned, TurnParents
      <4> QED
        BY <4>1, <4>3, <4>5
    <3> QED
      BY <3>1, <3>2
  <2> QED
    BY <2>1, <1>2, <1>4, <1>7 DEF Reds
<1> QED
  <2>1. RedPair(t2, u2, h, p, n, g, s)
    BY <1>1, <1>2, <1>4, <1>6, <1>7, <1>8, <1>10, <1>11, Zenon DEF RedPair
  <2> QED
    BY <2>1, <1>4, <1>7, <1>9, SMTT(30) DEF u2, o

\* The last turn of the fixup of an insert, of an outer grandchild with a black uncle.
OuterTurn(t, t2, n, p, g, s) ==
  /\ n # t.kid[Other(s)][p]
  /\ t.color[t.kid[Other(s)][g]] # "red"
  /\ t2 = Rotate(Recolored(t, p, g), Other(s), g)

\* After it no red node has a red parent, but the root may still be to be painted.
LEMMA InsertOuter ==
  ASSUME NEW t, NEW u, NEW h, NEW n, NEW p, NEW g, NEW s, RedPair(t, u, h, n, p, g, s),
         NEW t2, OuterTurn(t, t2, n, p, g, s)
  PROVE  /\ Shape(t2, TurnedForks(t, u, Other(s), g))
         /\ Used(t2) = Used(t) /\ t2.key = t.key
         /\ Heights(t2, h, nil, "left") /\ Reds(t2, n, nil) /\ t2.color[n] = "red"
<1> DEFINE o == Other(s)
           d == SideOf(t, g)
           q == t.parent[g]
           u2 == TurnedForks(t, u, o, g)
           t1 == Recolored(t, p, g)
<1>0. /\ n # t.kid[Other(s)][p]
      /\ t.color[t.kid[Other(s)][g]] # "red"
      /\ t2 = Rotate(Recolored(t, p, g), Other(s), g)
  BY DEF OuterTurn
<1>1. /\ p \in Used(t) /\ p # n /\ n # t.root /\ p # t.root /\ g \in Used(t) /\ g # p /\ g # n
      /\ t.color[g] = "black" /\ s \in Side /\ t.kid[s][g] = p
      /\ n # nil /\ p # nil /\ g # nil /\ n \in Link /\ p \in Link /\ g \in Link
      /\ t.parent[n] = p /\ t.parent[p] = g /\ \E z \in Side : t.kid[z][p] = n
  BY RedPairIs, SMTT(30)
<1>2. /\ Shape(t, u) /\ t \in TreeType /\ Heights(t, h, nil, "left") /\ Reds(t, n, nil)
      /\ n \in Used(t) /\ t.color[n] = "red" /\ t.color[p] = "red"
  BY <1>0 DEF RedPair, Shape
<1>3. o \in Side /\ o # s /\ Side = {s, o} /\ Other(o) = s /\ n = t.kid[s][p]
  BY <1>0, <1>1, Sides
<1>4. /\ Repainted(t, t1)
      /\ \A m \in Link : t1.color[m] = IF m = g THEN "red" ELSE IF m = p THEN "black" ELSE t.color[m]
  BY <1>2, RecoloredIs
<1>a. t2 = Rotate(t1, o, g)
  BY <1>0
<1> HIDE DEF t1
<1>5. Shape(t1, u) /\ Used(t1) = Used(t)
  BY <1>2, <1>4, RepaintedShape
<1>6. t1.kid = t.kid /\ t1.parent = t.parent /\ t1.root = t.root /\ t1.key = t.key /\ SideOf(t1, g) = d
  BY <1>4 DEF Repainted, SideOf
<1>7. Rotated(t1, t2, o, g)
  BY <1>1, <1>3, <1>5, <1>6, <1>a, RotateIs
<1>8. Shape(t2, u2) /\ Used(t2) = Used(t)
  <2>1. TurnedForks(t1, u, o, g) = u2
    BY <1>6 DEF TurnedForks
  <2> QED
    BY <2>1, <1>1, <1>3, <1>5, <1>6, <1>7, RotateShape
<1>9. Turned(t1, t2, o, g, s, p, q, d)
  BY <1>1, <1>3, <1>5, <1>6, <1>7, TurnedIs
<1>10. Heights(t2, h, nil, "left")
  BY <1>1, <1>2, <1>3, <1>4, <1>7, RedUpHeights, SMTT(30)
<1> HIDE DEF u2, d, o, q
<1>11. t2.color = t1.color /\ t2.key = t.key /\ t2.parent[g] = p
  BY <1>6, <1>9, SMTT(30) DEF Turned, TurnSame, TurnParents
<1>12. Reds(t2, n, nil)
  <2>1. ASSUME NEW m \in Used(t), t2.color[m] = "red", m # n
        PROVE  m # t2.root /\ t2.color[t2.parent[m]] = "black"
    <3>0. m # nil /\ m \in Link
      BY <1>2, Kids, SMTT(30)
    <3>r. t2.root = (IF q = nil THEN p ELSE t.root) /\ (q = nil <=> g = t.root)
      BY <1>6, <1>9, SMTT(30) DEF Turned, TurnAt, TurnSame
    <3>1. CASE m = g
      <4>1. m # t2.root
        BY <3>1, <3>r, <1>1
      <4>2. t2.color[p] = "black"
        BY <1>1, <1>4, <1>11
      <4> QED
        BY <3>1, <4>1, <4>2, <1>11
    <3>2. CASE m # g
      <4>0. t.color[m] = "red" /\ m # p
        BY <2>1, <3>0, <3>2, <1>4, <1>11
      <4>1. m # t.root
        BY <2>1, <4>0, <3>0, <1>2 DEF Reds
      <4>2. /\ t.parent[m] \in Used(t) /\ t.parent[m] # nil /\ t.parent[m] \in Link
            /\ \E y \in Side : t.kid[y][t.parent[m]] = m
        BY <4>1, <1>2, Kids
      <4>3. t.color[t.parent[m]] = "black"
        BY <2>1, <4>0, <4>2, <3>0, <1>2, SMTT(30) DEF Reds
      <4>4. m # t.kid[o][p]
        <5> SUFFICES ASSUME m = t.kid[o][p] PROVE FALSE
          OBVIOUS
        <5>1. p = t.parent[m]
          BY <1>1, <1>2, <1>3, <3>0 DEF Shape, Links
        <5> QED
          BY <5>1, <1>2, <4>3, Zenon
      <4>5. t2.parent[m] = t.parent[m]
        <5>1. m # t1.kid[o][p]
          BY <4>4, <1>6, SMTT(30)
        <5>2. t2.parent[m] = t1.parent[m]
          BY <3>0, <3>2, <4>0, <5>1, <1>9, SMTT(30) DEF Turned, TurnParents
        <5> QED
          BY <5>2, <1>6
      <4>6. t.parent[m] # g
        <5> SUFFICES ASSUME t.parent[m] = g PROVE FALSE
          OBVIOUS
        <5>1. m = t.kid[o][g]
          BY <4>0, <4>2, <1>1, <1>3
        <5> QED
          BY <5>1, <1>0, <4>0 DEF o
      <4>7. t2.color[t.parent[m]] = "black"
        BY <4>2, <4>3, <4>6, <1>4, <1>11
      <4>8. m # t2.root
        BY <4>0, <4>1, <3>r
      <4> QED
        BY <4>5, <4>7, <4>8
    <3> QED
      BY <3>1, <3>2
  <2>2. t2.color[nil] = "black"
    <3>1. nil \in Link /\ t.color[nil] = "black"
      BY <1>2 DEF Link, Reds
    <3> QED
      BY <3>1, <1>1, <1>4, <1>11
  <2> QED
    BY <2>1, <2>2, <1>8 DEF Reds
<1>13. t2.color[n] = "red"
  BY <1>1, <1>2, <1>4, <1>11
<1> QED
  BY <1>8, <1>10, <1>11, <1>12, <1>13 DEF u2, o

-----------------------------------------------------------------------------
(* The fixup of a delete.                                                  *)

\* A fixup of a delete at n, the child of p on side s, which is owed one black node.
OwedAt(t, u, h, n, p, s) ==
  /\ Shape(t, u) /\ Heights(t, h, p, s) /\ Reds(t, nil, n)
  /\ p \in Used(t) /\ s \in Side /\ t.kid[s][p] = n /\ t.color[n] = "black"

\* Then n has a brother b, which is not nil: it has the black nodes that n lacks.
LEMMA OwedAtIs ==
  ASSUME NEW t, NEW u, NEW h, NEW n, NEW p, NEW s, OwedAt(t, u, h, n, p, s),
         NEW o, o = Other(s), NEW b, b = t.kid[o][p]
  PROVE  /\ o \in Side /\ o # s /\ Side = {s, o} /\ Other(o) = s
         /\ b \in Used(t) /\ b # n /\ b # p /\ p # n /\ b # nil /\ p # nil
         /\ t.parent[b] = p /\ b # t.root
         /\ n \in Link /\ p \in Link /\ b \in Link /\ nil \in Link /\ t \in TreeType
         /\ h \in [Link -> Nat] /\ h[p] = h[n] + 2
         /\ n # nil => n \in Used(t) /\ t.parent[n] = p /\ n # t.root
         /\ p # t.root => t.parent[p] # n /\ t.parent[p] # b
<1>1. o \in Side /\ o # s /\ Side = {s, o} /\ Other(o) = s
  BY Sides DEF OwedAt
<1>2. p # nil /\ p \in Link /\ n \in Link /\ b \in Link /\ nil \in Link /\ t \in TreeType /\ p # n
  <2>1. p # nil /\ p \in Link
    BY Kids DEF OwedAt
  <2>2. n \in Link /\ b \in Link /\ p # n
    BY <1>1, <2>1, Smaller DEF OwedAt
  <2> QED
    BY <2>1, <2>2 DEF Link, OwedAt, Shape
<1>3. h \in [Link -> Nat] /\ h[p] = h[n] + 2 /\ h[nil] = 0
  BY DEF OwedAt, Heights, Rise
<1>4. t.color[nil] = "black"
  BY DEF OwedAt, Reds
<1>5. b # nil
  <2> SUFFICES ASSUME b = nil PROVE FALSE
    OBVIOUS
  <2>1. Rise(t, h, p, b, FALSE)
    BY <1>1 DEF OwedAt, Heights
  <2>2. h[p] = 1
    BY <1>3, <1>4, <2>1 DEF Rise
  <2>3. h[n] \in Nat
    BY <1>2, <1>3
  <2> QED
    BY <1>3, <2>2, <2>3
<1>6. b \in Used(t) /\ b # p /\ t.parent[b] = p
  BY <1>1, <1>5, Smaller DEF OwedAt, Shape, Links
<1>7. b # t.root /\ b # n
  BY <1>1, <1>2, <1>6, Kids DEF OwedAt
<1>8. n # nil => n \in Used(t) /\ t.parent[n] = p /\ n # t.root
  <2>1. n # nil => n \in Used(t) /\ t.parent[n] = p
    BY DEF OwedAt, Shape, Links
  <2> QED
    BY <2>1, <1>2, Kids DEF OwedAt
<1>9. ASSUME p # t.root PROVE t.parent[p] # n /\ t.parent[p] # b
  <2> SUFFICES ASSUME NEW y \in Side, t.parent[p] = t.kid[y][p] PROVE FALSE
    BY <1>1 DEF OwedAt
  <2>1. t.parent[p] \in Used(t) /\ t.kid[SideOf(t, p)][t.parent[p]] = p /\ SideOf(t, p) \in Side
    BY <1>9, Kids DEF OwedAt
  <2>2. u[p] \subseteq u[t.parent[p]] /\ u[p] # u[t.parent[p]]
    BY <2>1, Smaller DEF OwedAt
  <2>3. u[t.parent[p]] \subseteq u[p]
    BY Smaller DEF OwedAt
  <2> QED
    BY <2>2, <2>3
<1> QED
  BY <1>1, <1>2, <1>3, <1>5, <1>6, <1>7, <1>8, <1>9

\* The step of the fixup of a delete with a red brother.
BrotherRed(t, t2, p, s, b) ==
  /\ b = t.kid[Other(s)][p]
  /\ t.color[b] = "red"
  /\ t2 = Rotate(Recolored(t, b, p), s, p)

\* After it n is owed as before, under a red parent.
LEMMA DeleteBrotherRed ==
  ASSUME NEW t, NEW u, NEW h, NEW n, NEW p, NEW s, OwedAt(t, u, h, n, p, s),
         NEW b, NEW t2, BrotherRed(t, t2, p, s, b)
  PROVE  /\ OwedAt(t2, TurnedForks(t, u, s, p), h, n, p, s)
         /\ Used(t2) = Used(t) /\ t2.key = t.key /\ t2.color[p] = "red"
<1> DEFINE o == Other(s)
           d == SideOf(t, p)
           q == t.parent[p]
           u2 == TurnedForks(t, u, s, p)
           t1 == Recolored(t, b, p)
<1>0. /\ b = t.kid[Other(s)][p]
      /\ t.color[b] = "red"
      /\ t2 = Rotate(Recolored(t, b, p), s, p)
  BY DEF BrotherRed
<1>1. /\ o \in Side /\ o # s /\ Side = {s, o} /\ Other(o) = s
      /\ b \in Used(t) /\ b # n /\ b # p /\ p # n /\ b # nil /\ p # nil
      /\ t.parent[b] = p /\ b # t.root
      /\ n \in Link /\ p \in Link /\ b \in Link /\ nil \in Link /\ t \in TreeType
      /\ n # nil => n \in Used(t) /\ t.parent[n] = p /\ n # t.root
  BY <1>0, OwedAtIs
<1>2. /\ Shape(t, u) /\ Heights(t, h, p, s) /\ Reds(t, nil, n)
      /\ p \in Used(t) /\ s \in Side /\ t.kid[s][p] = n /\ t.color[n] = "black" /\ b = t.kid[o][p]
      /\ t.color[nil] = "black"
  BY <1>0 DEF OwedAt, Reds
<1>3. t.color[p] = "black"
  BY <1>0, <1>1, <1>2 DEF Reds
<1>4. /\ Repainted(t, t1)
      /\ \A m \in Link : t1.color[m] = IF m = p THEN "red" ELSE IF m = b THEN "black" ELSE t.color[m]
  BY <1>1, RecoloredIs
<1>a. t2 = Rotate(t1, s, p)
  BY <1>0
<1> HIDE DEF t1
<1>5. Shape(t1, u) /\ Used(t1) = Used(t)
  BY <1>2, <1>4, RepaintedShape
<1>6. t1.kid = t.kid /\ t1.parent = t.parent /\ t1.root = t.root /\ t1.key = t.key /\ SideOf(t1, p) = d
  BY <1>4 DEF Repainted, SideOf
<1>7. Rotated(t1, t2, s, p)
  BY <1>1, <1>2, <1>5, <1>6, <1>a, RotateIs
<1>8. Shape(t2, u2) /\ Used(t2) = Used(t)
  <2>1. TurnedForks(t1, u, s, p) = u2
    BY <1>6 DEF TurnedForks
  <2> QED
    BY <2>1, <1>1, <1>2, <1>5, <1>6, <1>7, RotateShape
<1>9. Turned(t1, t2, s, p, o, b, q, d)
  BY <1>1, <1>2, <1>5, <1>6, <1>7, TurnedIs
<1>10. Heights(t2, h, p, s)
  <2>1. t1.color[p] = "red" /\ t1.color[b] = t.color[p] /\ \A m \in Link : m # p /\ m # b => t1.color[m] = t.color[m]
    BY <1>1, <1>3, <1>4, SMTT(30)
  <2> QED
    BY <2>1, <1>0, <1>1, <1>2, <1>4, <1>7, RedUpHeights
<1> HIDE DEF u2, d, o, q
<1>11. t2.color = t1.color /\ t2.key = t.key /\ t2.parent[p] = b
  BY <1>6, <1>9, SMTT(30) DEF Turned, TurnSame, TurnParents
<1>r. t2.root = (IF q = nil THEN b ELSE t.root) /\ (q = nil <=> p = t.root)
  BY <1>6, <1>9, SMTT(30) DEF Turned, TurnAt, TurnSame
<1>12. Reds(t2, nil, n)
  <2>1. ASSUME NEW m \in Used(t), t2.color[m] = "red", m # n
        PROVE  m # t2.root /\ (t2.color[t2.parent[m]] = "black" \/ t2.parent[m] = n)
    <3>0. m # nil /\ m \in Link
      BY <1>2, Kids
    <3>1. CASE m = p
      <4>1. m # t2.root
        BY <3>1, <1>r, <1>1
      <4>2. t2.color[b] = "black"
        BY <1>1, <1>4, <1>11
      <4> QED
        BY <3>1, <4>1, <4>2, <1>11
    <3>2. CASE m # p
      <4>0. t.color[m] = "red" /\ m # b
        BY <2>1, <3>0, <3>2, <1>4, <1>11
      <4>1. m # t.root /\ (t.color[t.parent[m]] = "black" \/ t.parent[m] = n)
        BY <2>1, <4>0, <3>0, <1>2 DEF Reds
      <4>2. /\ t.parent[m] \in Used(t) /\ t.parent[m] # nil /\ t.parent[m] \in Link
            /\ \E y \in Side : t.kid[y][t.parent[m]] = m
        BY <4>1, <1>2, <3>0, Kids, SMTT(30)
      <4>4. m # t.kid[s][b]
        <5> SUFFICES ASSUME m = t.kid[s][b] PROVE FALSE
          OBVIOUS
        <5>1. b = t.parent[m]
          BY <1>1, <1>2, <3>0 DEF Shape, Links
        <5> QED
          BY <5>1, <1>0, <1>1, <1>2, <4>0, <4>1, <1>3
      <4>5. t2.parent[m] = t.parent[m]
        <5>1. m # t1.kid[s][b]
          BY <4>4, <1>6, SMTT(30)
        <5>2. t2.parent[m] = t1.parent[m]
          BY <3>0, <3>2, <4>0, <5>1, <1>9, SMTT(30) DEF Turned, TurnParents
        <5> QED
          BY <5>2, <1>6
      <4>6. t.parent[m] # p
        BY <4>0, <4>2, <2>1, <1>1, <1>2
      <4>7. t2.color[t.parent[m]] = t.color[t.parent[m]] \/ t2.color[t.parent[m]] = "black"
        BY <4>2, <4>6, <1>4, <1>11
      <4>8. m # t2.root
        BY <4>0, <4>1, <1>r
      <4> QED
        BY <4>1, <4>5, <4>7, <4>8
    <3> QED
      BY <3>1, <3>2
  <2>2. t2.color[nil] = "black"
    BY <1>1, <1>2, <1>4, <1>11
  <2> QED
    BY <2>1, <2>2, <1>8 DEF Reds
<1>13. t2.color[n] = "black" /\ t2.kid[s][p] = n
  <2>1. t2.color[n] = "black"
    BY <1>1, <1>2, <1>4, <1>11, SMTT(30)
  <2>2. t2.kid[s][p] = t1.kid[s][p]
    BY <1>9, SMTT(30) DEF Turned, TurnKids
  <2> QED
    BY <2>1, <2>2, <1>2, <1>6
<1>14. t2.color[p] = "red"
  BY <1>1, <1>4, <1>11
<1> QED
  BY <1>2, <1>8, <1>10, <1>11, <1>12, <1>13, <1>14 DEF OwedAt, u2

\* The step that paints a brother with two black children red.
KidsBlack(t, t2, p, s, c) ==
  /\ c = t.kid[Other(s)][p]
  /\ t.color[c] = "black"
  /\ t2 = Reddened(t, c)
  /\ t.color[t.kid[s][c]] = "black"
  /\ t.color[t.kid[Other(s)][c]] = "black"

\* The height of p is less by one.
Pushed(h, p, c) == [h EXCEPT ![p] = h[c]]

\* After it p is owed one black node, in the place of n.
LEMMA DeletePush ==
  ASSUME NEW t, NEW u, NEW h, NEW n, NEW p, NEW s, OwedAt(t, u, h, n, p, s),
         NEW c, NEW t2, KidsBlack(t, t2, p, s, c)
  PROVE  /\ Shape(t2, u) /\ Used(t2) = Used(t) /\ t2.key = t.key
         /\ Heights(t2, Pushed(h, p, c), t2.parent[p], SideOf(t2, p)) /\ Reds(t2, nil, p)
<1> DEFINE o == Other(s)
           q == t.parent[p]
           d == SideOf(t, p)
           h2 == [h EXCEPT ![p] = h[c]]
<1>0. /\ c = t.kid[Other(s)][p]
      /\ t.color[c] = "black"
      /\ t2 = Reddened(t, c)
      /\ t.color[t.kid[s][c]] = "black"
      /\ t.color[t.kid[Other(s)][c]] = "black"
  BY DEF KidsBlack
<1>1. /\ o \in Side /\ o # s /\ Side = {s, o} /\ Other(o) = s
      /\ c \in Used(t) /\ c # n /\ c # p /\ p # n /\ c # nil /\ p # nil
      /\ t.parent[c] = p /\ c # t.root
      /\ n \in Link /\ p \in Link /\ c \in Link /\ nil \in Link /\ t \in TreeType
      /\ h \in [Link -> Nat] /\ h[p] = h[n] + 2
      /\ n # nil => n \in Used(t) /\ t.parent[n] = p /\ n # t.root
  BY <1>0, OwedAtIs
<1>2. /\ Shape(t, u) /\ Heights(t, h, p, s) /\ Reds(t, nil, n)
      /\ p \in Used(t) /\ s \in Side /\ t.kid[s][p] = n /\ t.color[n] = "black" /\ c = t.kid[o][p]
      /\ t.color[nil] = "black" /\ h[nil] = 0
  BY <1>0 DEF OwedAt, Reds, Heights
<1>3. Repainted(t, t2) /\ \A m \in Link : t2.color[m] = IF m = c THEN "red" ELSE t.color[m]
  BY <1>0, <1>1, PaintIs DEF Reddened
<1>4. Shape(t2, u) /\ Used(t2) = Used(t)
  BY <1>0, <1>2, <1>3, RepaintedShape
<1>5. t2.kid = t.kid /\ t2.parent = t.parent /\ t2.root = t.root /\ t2.key = t.key /\ SideOf(t2, p) = d
  BY <1>3 DEF Repainted, SideOf
<1>6. /\ h2 \in [Link -> Nat] /\ h2[nil] = 0 /\ h2[p] = h[c]
      /\ \A m \in Link : m # p => h2[m] = h[m]
  BY <1>1, <1>2
<1>7. h[p] = h[c] + 1
  <2>1. Rise(t, h, p, c, FALSE)
    BY <1>1, <1>2 DEF Heights
  <2> QED
    BY <1>0, <2>1 DEF Rise
<1>8. \A m \in Used(t), y \in Side : t.kid[y][m] = p => m = q /\ y = d /\ m # p
  BY <1>2, Kids
<1>9. \A m \in Used(t), y \in Side : t.kid[y][m] = c => m = p /\ y = o
  BY <1>1, <1>2, Kids
<1>q. q # p
  <2>1. p = t.root => q = nil
    BY <1>1, <1>2 DEF Shape, Links
  <2>2. p # t.root => t.kid[d][q] = p /\ q \in Used(t) /\ d \in Side
    BY <1>2, Kids
  <2> QED
    BY <2>1, <2>2, <1>1, <1>8, SMTT(30)
<1> HIDE DEF q, d, h2, o
<1>10. ASSUME NEW m \in Used(t), NEW y \in Side PROVE Rise(t2, h2, m, t2.kid[y][m], m = q /\ y = d)
  <2> DEFINE k == t.kid[y][m]
  <2>0. Rise(t, h, m, k, m = p /\ y = s) /\ k \in Link /\ m \in Link /\ h[m] \in Nat /\ h[k] \in Nat /\ t2.kid[y][m] = k
    BY <1>1, <1>2, <1>5, Smaller DEF Heights
  <2>c. t2.color[k] = IF k = c THEN "red" ELSE t.color[k]
    BY <2>0, <1>3
  <2>1. CASE m = p /\ y = s
    <3>1. k = n /\ t2.color[n] = "black" /\ h2[n] = h[n]
      BY <2>1, <2>c, <1>1, <1>2, <1>6
    <3>2. h2[p] = h2[n] + 1
      BY <3>1, <1>1, <1>6, <1>7
    <3> QED
      BY <2>0, <2>1, <3>1, <3>2, <1>q DEF Rise
  <2>2. CASE m = p /\ y = o
    <3>1. k = c /\ t2.color[c] = "red" /\ h2[c] = h2[p]
      BY <2>2, <2>c, <1>1, <1>2, <1>6
    <3> QED
      BY <2>0, <2>2, <3>1, <1>q DEF Rise
  <2>3. CASE m # p /\ k = p
    <3>1. m = q /\ y = d /\ t2.color[p] = t.color[p] /\ h2[m] = h[m]
      BY <2>0, <2>3, <2>c, <1>1, <1>6, <1>8
    <3>2. t.color[p] \in {"red", "black"}
      BY <1>1 DEF TreeType
    <3> QED
      BY <2>0, <2>3, <3>1, <3>2, <1>6, <1>7 DEF Rise
  <2>4. CASE m # p /\ k # p
    <3>1. k # c /\ ~ (m = q /\ y = d)
      <4>1. q # nil => t.kid[d][q] = p
        BY <1>1, <1>2, Kids DEF q, d
      <4>2. m # nil
        BY <1>2, Kids
      <4> QED
        BY <2>4, <4>1, <4>2, <1>9
    <3>2. t2.color[k] = t.color[k] /\ h2[m] = h[m] /\ h2[k] = h[k]
      BY <2>0, <2>4, <2>c, <3>1, <1>6
    <3> QED
      BY <2>0, <2>4, <3>1, <3>2 DEF Rise
  <2> QED
    BY <2>1, <2>2, <2>3, <2>4, <1>1
<1>11. Heights(t2, h2, q, d)
  BY <1>4, <1>6, <1>10 DEF Heights
<1>12. Reds(t2, nil, p)
  <2>1. ASSUME NEW m \in Used(t), t2.color[m] = "red", m # p
        PROVE  m # t.root /\ (t2.color[t.parent[m]] = "black" \/ t.parent[m] = p)
    <3>0. m # nil /\ m \in Link
      BY <1>2, Kids
    <3>1. CASE m = c
      BY <3>1, <1>1
    <3>2. CASE m # c
      <4>0. t.color[m] = "red" /\ m # n
        BY <2>1, <3>0, <3>2, <1>2, <1>3
      <4>1. m # t.root /\ t.color[t.parent[m]] = "black"
        BY <4>0, <3>0, <1>2 DEF Reds
      <4>2. /\ t.parent[m] \in Used(t) /\ t.parent[m] \in Link
            /\ \E y \in Side : t.kid[y][t.parent[m]] = m
        BY <4>1, <1>2, Kids
      <4>3. t.parent[m] # c
        BY <1>0, <4>0, <4>2, <1>1 DEF o
      <4> QED
        BY <4>1, <4>2, <4>3, <1>3
    <3> QED
      BY <3>1, <3>2
  <2>2. t2.color[nil] = "black"
    BY <1>1, <1>2, <1>3
  <2> QED
    BY <2>1, <2>2, <1>4, <1>5 DEF Reds
<1> QED
  BY <1>4, <1>5, <1>11, <1>12 DEF q, d, h2, Pushed

\* The step that turns at a brother whose far child is black.
NearRed(t, t2, p, s, c, near) ==
  /\ c = t.kid[Other(s)][p]
  /\ near = t.kid[s][c]
  /\ t2 = Rotate(Recolored(t, near, c), Other(s), c)
  /\ t.color[near] = "red"
  /\ t.color[t.kid[Other(s)][c]] = "black"

\* After it n is owed as before, and the far child of its new brother is red.
LEMMA DeleteNearRed ==
  ASSUME NEW t, NEW u, NEW h, NEW n, NEW p, NEW s, OwedAt(t, u, h, n, p, s),
         NEW c, NEW near, NEW t2, NearRed(t, t2, p, s, c, near)
  PROVE  /\ OwedAt(t2, TurnedForks(t, u, Other(s), c), h, n, p, s)
         /\ Used(t2) = Used(t) /\ t2.key = t.key /\ t2.color[p] = t.color[p]
         /\ t2.kid[Other(s)][p] = near /\ t2.color[near] = "black"
         /\ t2.kid[Other(s)][near] = c /\ t2.color[c] = "red"
<1> DEFINE o == Other(s)
           u2 == TurnedForks(t, u, o, c)
           t1 == Recolored(t, near, c)
<1>0. /\ c = t.kid[Other(s)][p]
      /\ near = t.kid[s][c]
      /\ t2 = Rotate(Recolored(t, near, c), Other(s), c)
      /\ t.color[near] = "red"
      /\ t.color[t.kid[Other(s)][c]] = "black"
  BY SMTT(30) DEF NearRed
<1>1. /\ o \in Side /\ o # s /\ Side = {s, o} /\ Other(o) = s
      /\ c \in Used(t) /\ c # n /\ c # p /\ p # n /\ c # nil /\ p # nil
      /\ t.parent[c] = p /\ c # t.root
      /\ n \in Link /\ p \in Link /\ c \in Link /\ nil \in Link /\ t \in TreeType
      /\ n # nil => n \in Used(t) /\ t.parent[n] = p /\ n # t.root
  BY <1>0, OwedAtIs, SMTT(30)
<1>2. /\ Shape(t, u) /\ Heights(t, h, p, s) /\ Reds(t, nil, n)
      /\ p \in Used(t) /\ s \in Side /\ t.kid[s][p] = n /\ t.color[n] = "black" /\ c = t.kid[o][p]
      /\ t.color[nil] = "black"
  BY <1>0 DEF OwedAt, Reds
<1>b. /\ near # nil /\ near \in Used(t) /\ near \in Link /\ near # c /\ near # p /\ near # n /\ near # t.root
      /\ t.parent[near] = c
  <2>1. near # nil
    BY <1>0, <1>2
  <2>2. near \in Used(t) /\ near \in Link /\ near # c /\ t.parent[near] = c
    <3>1. Shape(t, u) /\ s \in Side /\ c \in Used(t) /\ t.kid[s][c] # nil /\ t.kid[s][c] = near
      BY <2>1, <1>0, <1>1, <1>2
    <3>2. /\ t.kid[s][c] \in Used(t) /\ t.kid[s][c] # c /\ t.kid[s][c] \in Link
          /\ t.parent[t.kid[s][c]] = c
      BY <3>1, KidOf
    <3> QED
      BY <3>1, <3>2
  <2>3. near # n /\ near # t.root
    BY <2>1, <2>2, <1>1, <1>2, Kids
  <2>4. near # p
    <3>0. Shape(t, u) /\ o \in Side /\ s \in Side /\ p \in Used(t) /\ c \in Used(t) /\ t.kid[o][p] = c /\ t.kid[s][c] = near
      BY <1>0, <1>1, <1>2
    <3>a. u[t.kid[o][p]] \subseteq u[p] /\ u[t.kid[o][p]] # u[p]
      BY <3>0, Smaller
    <3>b. u[t.kid[s][c]] \subseteq u[c]
      BY <3>0, Smaller
    <3>1. u[c] \subseteq u[p] /\ u[c] # u[p] /\ u[near] \subseteq u[c]
      BY <3>0, <3>a, <3>b, SMTT(30)
    <3> QED
      BY <3>1
  <2> QED
    BY <2>1, <2>2, <2>3, <2>4, SMTT(30)
<1>3. t.color[c] = "black"
  BY <1>0, <1>1, <1>2, <1>b DEF Reds
<1>4. /\ Repainted(t, t1)
      /\ \A m \in Link : t1.color[m] = IF m = c THEN "red" ELSE IF m = near THEN "black" ELSE t.color[m]
  BY <1>1, RecoloredIs, SMTT(30)
<1>a. t2 = Rotate(t1, o, c)
  BY <1>0
<1> HIDE DEF t1
<1>5. Shape(t1, u) /\ Used(t1) = Used(t)
  BY <1>2, <1>4, RepaintedShape
<1>6. t1.kid = t.kid /\ t1.parent = t.parent /\ t1.root = t.root /\ t1.key = t.key
  BY <1>4 DEF Repainted
<1>d. SideOf(t1, c) = o
  BY <1>1, <1>2, <1>5, <1>6, Kids
<1>e. Shape(t1, u) /\ o \in Side /\ c \in Used(t1) /\ t1.kid[Other(o)][c] # nil
  <2>1. Shape(t1, u) /\ o \in Side /\ c \in Used(t1)
    BY <1>1, <1>5
  <2>2. Other(o) = s /\ t1.kid = t.kid /\ near # nil
    BY <1>1, <1>6, <1>b, SMTT(30)
  <2>3. t1.kid[Other(o)][c] = near
    BY <2>2, <1>0
  <2> QED
    BY <2>1, <2>2, <2>3
<1>7. Rotated(t1, t2, o, c)
  BY <1>a, <1>e, RotateIs
<1>8. Shape(t2, u2) /\ Used(t2) = Used(t)
  <2>1. TurnedForks(t1, u, o, c) = u2
    BY <1>6 DEF TurnedForks
  <2> QED
    BY <2>1, <1>e, <1>5, <1>7, RotateShape
<1>9. Turned(t1, t2, o, c, s, near, p, o)
  <2>1. Turned(t1, t2, o, c, Other(o), t1.kid[Other(o)][c], t1.parent[c], SideOf(t1, c))
    BY <1>e, <1>7, TurnedIs, SMTT(30)
  <2>2. Other(o) = s /\ t1.kid[Other(o)][c] = near /\ t1.parent[c] = p
    BY <1>0, <1>1, <1>6
  <2> QED
    BY <2>1, <2>2, <1>d
<1>10. Heights(t2, h, p, s)
  <2>1. t1.color[c] = "red" /\ t1.color[near] = t.color[c] /\ \A m \in Link : m # c /\ m # near => t1.color[m] = t.color[m]
    BY <1>1, <1>3, <1>4, <1>b, SMTT(30)
  <2>2. t.kid[Other(o)][c] = near /\ t.color[near] = "red" /\ p # c /\ p # near
    BY <1>0, <1>1, <1>b
  <2>3. o \in Side /\ c \in Used(t) /\ near \in Used(t) /\ Repainted(t, t1) /\ Rotated(t1, t2, o, c) /\ Shape(t, u) /\ Heights(t, h, p, s)
    BY <1>1, <1>2, <1>4, <1>7, <1>b, SMTT(30)
  <2> HIDE DEF o
  <2> QED
    BY <2>1, <2>2, <2>3, RedUpHeights
<1>11. t2.color = t1.color /\ t2.key = t.key /\ t2.parent[c] = near /\ t2.root = t.root
  BY <1>1, <1>6, <1>9, SMTT(30) DEF Turned, TurnAt, TurnSame, TurnParents
<1>12. Reds(t2, nil, n)
  <2>1. ASSUME NEW m \in Used(t), t2.color[m] = "red", m # n
        PROVE  m # t2.root /\ (t2.color[t2.parent[m]] = "black" \/ t2.parent[m] = n)
    <3>0. m # nil /\ m \in Link
      BY <1>2, Kids
    <3>1. CASE m = c
      <4>2. t2.color[near] = "black"
        BY <1>b, <1>4, <1>11
      <4> QED
        BY <3>1, <4>2, <1>1, <1>11
    <3>2. CASE m # c
      <4>0. t.color[m] = "red" /\ m # near
        BY <2>1, <3>0, <3>2, <1>4, <1>11
      <4>1. m # t.root /\ (t.color[t.parent[m]] = "black" \/ t.parent[m] = n)
        BY <2>1, <4>0, <3>0, <1>2 DEF Reds
      <4>2. /\ t.parent[m] \in Used(t) /\ t.parent[m] # nil /\ t.parent[m] \in Link
            /\ \E y \in Side : t.kid[y][t.parent[m]] = m
        BY <4>1, <1>2, Kids, SMTT(30)
      <4>4. m # t.kid[o][near]
        <5> SUFFICES ASSUME m = t.kid[o][near] PROVE FALSE
          OBVIOUS
        <5>1. near = t.parent[m]
          BY <1>1, <1>2, <1>b, <3>0 DEF Shape, Links
        <5> QED
          BY <1>0, <5>1, <1>b, <4>1, Zenon
      <4>5. t2.parent[m] = t.parent[m]
        <5>1. m # t1.kid[o][near]
          BY <4>4, <1>6, SMTT(30)
        <5>2. t2.parent[m] = t1.parent[m]
          BY <3>0, <3>2, <4>0, <5>1, <1>9, SMTT(30) DEF Turned, TurnParents
        <5> QED
          BY <5>2, <1>6
      <4>6. t.parent[m] # c
        <5> SUFFICES ASSUME t.parent[m] = c PROVE FALSE
          BY SMTT(30)
        <5>1. m = t.kid[o][c]
          BY <1>0, <4>0, <4>2, <1>1, <1>b
        <5> QED
          BY <1>0, <5>1, <4>0
      <4>7. t2.color[t.parent[m]] = t.color[t.parent[m]] \/ t2.color[t.parent[m]] = "black"
        BY <4>2, <4>6, <1>4, <1>11
      <4> QED
        BY <4>1, <4>5, <4>7, <1>11
    <3> QED
      BY <3>1, <3>2
  <2>2. t2.color[nil] = "black"
    BY <1>1, <1>2, <1>4, <1>11, <1>b
  <2> QED
    BY <2>1, <2>2, <1>8 DEF Reds
<1>13. t2.color[n] = "black" /\ t2.color[near] = "black" /\ t2.color[c] = "red" /\ t2.color[p] = t.color[p]
  BY <1>1, <1>2, <1>4, <1>11, <1>b
<1>14. t2.kid[s][p] = n /\ t2.kid[o][p] = near /\ t2.kid[o][near] = c
  <2>1. t2.kid[s][p] = t1.kid[s][p] /\ t2.kid[o][p] = near /\ t2.kid[o][near] = c
    BY <1>1, <1>9, SMTT(30) DEF Turned, TurnAt, TurnKids
  <2> QED
    BY <2>1, <1>2, <1>6, SMTT(30)
<1> QED
  BY <1>2, <1>8, <1>10, <1>11, <1>12, <1>13, <1>14 DEF OwedAt

\* The last turn of a fixup of a delete, with a brother whose far child is red.
FarRed(t, t2, p, s, c, far) ==
  /\ c = t.kid[Other(s)][p]
  /\ t.color[c] = "black"
  /\ t2 = Rotate(AsParent(t, p, c, far), s, p)
  /\ far = t.kid[Other(s)][c]
  /\ t.color[far] = "red"

\* The heights of p and c after it.
Swapped(h, p, c) == [h EXCEPT ![p] = h[c], ![c] = h[p]]

\* After it nothing is owed any more; only the root may still have to be painted.
LEMMA DeleteLast ==
  ASSUME NEW t, NEW u, NEW h, NEW n, NEW p, NEW s, OwedAt(t, u, h, n, p, s),
         NEW c, NEW far, NEW t2, FarRed(t, t2, p, s, c, far)
  PROVE  /\ Shape(t2, TurnedForks(t, u, s, p)) /\ Used(t2) = Used(t) /\ t2.key = t.key
         /\ Heights(t2, Swapped(h, p, c), nil, "left") /\ Reds(t2, nil, t2.root)
<1> DEFINE o == Other(s)
           q == t.parent[p]
           d == SideOf(t, p)
           mid == t.kid[s][c]
           u2 == TurnedForks(t, u, s, p)
           t1 == AsParent(t, p, c, far)
           h2 == [h EXCEPT ![p] = h[c], ![c] = h[p]]
<1>0. /\ c = t.kid[Other(s)][p]
      /\ t.color[c] = "black"
      /\ t2 = Rotate(AsParent(t, p, c, far), s, p)
      /\ far = t.kid[Other(s)][c]
      /\ t.color[far] = "red"
  BY DEF FarRed
<1>1. /\ o \in Side /\ o # s /\ Side = {s, o} /\ Other(o) = s
      /\ c \in Used(t) /\ c # n /\ c # p /\ p # n /\ c # nil /\ p # nil
      /\ t.parent[c] = p /\ c # t.root
      /\ n \in Link /\ p \in Link /\ c \in Link /\ nil \in Link /\ t \in TreeType
      /\ n # nil => n \in Used(t) /\ t.parent[n] = p /\ n # t.root
      /\ h \in [Link -> Nat] /\ h[p] = h[n] + 2
      /\ p # t.root => q # n /\ q # c
  BY <1>0, OwedAtIs
<1>2. /\ Shape(t, u) /\ Heights(t, h, p, s) /\ Reds(t, nil, n)
      /\ p \in Used(t) /\ s \in Side /\ t.kid[s][p] = n /\ t.color[n] = "black" /\ c = t.kid[o][p]
      /\ t.color[nil] = "black" /\ h[nil] = 0 /\ t.color[p] \in {"red", "black"}
  BY <1>0, <1>1 DEF OwedAt, Reds, Heights, TreeType
<1>b. /\ far # nil /\ far \in Used(t) /\ far \in Link /\ far # c /\ far # p /\ far # n /\ far # t.root
      /\ t.parent[far] = c /\ mid \in Link /\ mid # far /\ mid # c /\ mid # p
      /\ mid # nil => mid \in Used(t) /\ t.parent[mid] = c
  <2>1. far # nil
    BY <1>0, <1>2, SMTT(30)
  <2>2. far \in Used(t) /\ far \in Link /\ far # c /\ t.parent[far] = c
    <3>1. Shape(t, u) /\ o \in Side /\ c \in Used(t) /\ t.kid[o][c] # nil /\ t.kid[o][c] = far
      BY <2>1, <1>0, <1>1, <1>2
    <3>2. /\ t.kid[o][c] \in Used(t) /\ t.kid[o][c] # c /\ t.kid[o][c] \in Link
          /\ t.parent[t.kid[o][c]] = c
      BY <3>1, KidOf
    <3> QED
      BY <3>1, <3>2
  <2>3. far # n /\ far # t.root
    BY <2>1, <2>2, <1>1, <1>2, Kids
  <2>4. far # p /\ mid # p
    <3>0. /\ Shape(t, u) /\ o \in Side /\ s \in Side /\ p \in Used(t) /\ c \in Used(t)
          /\ t.kid[o][p] = c /\ t.kid[o][c] = far /\ t.kid[s][c] = mid
      BY <1>0, <1>1, <1>2
    <3>a. u[t.kid[o][p]] \subseteq u[p] /\ u[t.kid[o][p]] # u[p]
      BY <3>0, Smaller
    <3>b. u[t.kid[o][c]] \subseteq u[c] /\ u[t.kid[s][c]] \subseteq u[c]
      BY <3>0, Smaller
    <3>1. u[c] \subseteq u[p] /\ u[c] # u[p] /\ u[far] \subseteq u[c] /\ u[mid] \subseteq u[c]
      BY <3>0, <3>a, <3>b, SMTT(30)
    <3> QED
      BY <3>1, SMTT(30)
  <2>5. mid \in Link /\ (mid # nil => mid \in Used(t) /\ t.parent[mid] = c /\ mid # c)
    BY <1>1, <1>2, Smaller, SMTT(30) DEF Shape, Links
  <2>6. mid # far
    <3>1. /\ Shape(t, u) /\ far \in Used(t) /\ c \in Used(t) /\ o \in Side /\ s \in Side /\ o # s
          /\ t.kid[o][c] = far /\ t.kid[s][c] = mid
      BY <1>0, <1>1, <1>2, <2>2
    <3>2. \A y \in Side : t.kid[y][c] = far => y = SideOf(t, far)
      BY <3>1, Kids
    <3> QED
      BY <3>1, <3>2
  <2>7. mid # c
    BY <2>5, <1>1
  <2> QED
    BY <2>1, <2>2, <2>3, <2>4, <2>5, <2>6, <2>7
<1>4. /\ Repainted(t, t1)
      /\ \A m \in Link : t1.color[m] = IF m = p \/ m = far THEN "black" ELSE IF m = c THEN t.color[p] ELSE t.color[m]
  BY <1>1, AsParentIs
<1>a. t2 = Rotate(t1, s, p)
  BY <1>0
<1> HIDE DEF t1
<1>5. Shape(t1, u) /\ Used(t1) = Used(t)
  BY <1>2, <1>4, RepaintedShape
<1>6. t1.kid = t.kid /\ t1.parent = t.parent /\ t1.root = t.root /\ t1.key = t.key /\ SideOf(t1, p) = d
  BY <1>4 DEF Repainted, SideOf
<1>7. Rotated(t1, t2, s, p)
  BY <1>1, <1>2, <1>5, <1>6, <1>a, RotateIs
<1>8. Shape(t2, u2) /\ Used(t2) = Used(t)
  <2>1. TurnedForks(t1, u, s, p) = u2
    BY <1>6 DEF TurnedForks
  <2> QED
    BY <2>1, <1>1, <1>2, <1>5, <1>6, <1>7, RotateShape
<1>9. Turned(t1, t2, s, p, o, c, q, d)
  BY <1>1, <1>2, <1>5, <1>6, <1>7, TurnedIs
<1>10. /\ h2 \in [Link -> Nat] /\ h2[nil] = 0 /\ h2[p] = h[c] /\ h2[c] = h[p]
       /\ \A m \in Link : m # p /\ m # c => h2[m] = h[m]
       /\ h[c] = h[n] + 1 /\ h[p] = h[c] + 1 /\ h[c] = h[far] /\ Rise(t, h, c, mid, FALSE)
  <2>1. Rise(t, h, p, c, FALSE)
    BY <1>1, <1>2 DEF Heights
  <2>2. Rise(t, h, c, mid, FALSE) /\ Rise(t, h, c, far, FALSE)
    BY <1>0, <1>1, <1>2 DEF Heights
  <2>3. h[p] = h[c] + 1 /\ h[c] = h[far]
    BY <1>0, <2>1, <2>2 DEF Rise
  <2>4. h[n] \in Nat /\ h[c] \in Nat
    BY <1>1
  <2>5. h[c] = h[n] + 1
    BY <2>3, <2>4, <1>1
  <2>6. h2 \in [Link -> Nat] /\ h2[p] = h[c] /\ h2[c] = h[p] /\ \A m \in Link : m # p /\ m # c => h2[m] = h[m]
    BY <1>1
  <2>7. h2[nil] = 0
    BY <2>6, <1>1, <1>2, SMTT(30)
  <2> QED
    BY <2>2, <2>3, <2>5, <2>6, <2>7
<1> HIDE DEF u2, d, o, q, mid, h2
<1>11. t2.color = t1.color /\ t2.key = t.key /\ t2.parent[p] = c /\ t2.parent[c] = q
  BY <1>6, <1>9, SMTT(30) DEF Turned, TurnSame, TurnParents
<1>r. t2.root = (IF q = nil THEN c ELSE t.root) /\ (q = nil <=> p = t.root)
  BY <1>6, <1>9, SMTT(30) DEF Turned, TurnAt, TurnSame
<1>k. /\ t2.kid[s][p] = n /\ t2.kid[o][p] = mid /\ t2.kid[s][c] = p /\ t2.kid[o][c] = far
      /\ q # nil => t2.kid[d][q] = c /\ t.kid[d][q] = p /\ q \in Used(t)
      /\ q # p /\ q # c
  <2>1. /\ t2.kid[s][p] = t1.kid[s][p] /\ t2.kid[o][p] = t1.kid[s][c] /\ t2.kid[s][c] = p /\ t2.kid[o][c] = t1.kid[o][c]
        /\ q # nil => t2.kid[d][q] = c /\ t1.kid[d][q] = p /\ q \in Used(t)
        /\ q # p /\ q # c
    BY <1>5, <1>9, SMTT(30) DEF Turned, TurnAt, TurnKids
  <2> QED
    BY <1>0, <2>1, <1>2, <1>6, ZenonT(60) DEF mid, o
<1>c. /\ t2.color[p] = "black" /\ t2.color[far] = "black" /\ t2.color[c] = t.color[p]
      /\ \A m \in Link : m # p /\ m # far /\ m # c => t2.color[m] = t.color[m]
  <2>1. t1.color[p] = "black" /\ t1.color[far] = "black"
    BY <1>1, <1>4, <1>b
  <2>2. t1.color[c] = t.color[p]
    BY <1>1, <1>4, <1>b
  <2>3. \A m \in Link : m # p /\ m # far /\ m # c => t1.color[m] = t.color[m]
    BY <1>4
  <2> QED
    BY <2>1, <2>2, <2>3, <1>11
<1>t. /\ \A m \in Used(t), z \in Side : m # p /\ m # c /\ m # q => t2.kid[z][m] = t.kid[z][m]
      /\ q # nil => \A z \in Side : z # d => t2.kid[z][q] = t.kid[z][q]
      /\ \A m \in Used(t), z \in Side : t.kid[z][m] = p => m = q /\ z = d
      /\ \A m \in Used(t), z \in Side : t.kid[z][m] = c => m = p /\ z = o
  <2>1. /\ \A m \in Used(t), z \in Side : m # p /\ m # c /\ m # q => t2.kid[z][m] = t1.kid[z][m]
        /\ q # nil => \A z \in Side : z # d => t2.kid[z][q] = t1.kid[z][q]
        /\ \A m \in Used(t), z \in Side : t1.kid[z][m] = p => m = q /\ z = d
        /\ \A m \in Used(t), z \in Side : t1.kid[z][m] = c => m = p /\ z = o
    <3>1. \A m \in Used(t), z \in Side : m # p /\ m # c /\ m # q => t2.kid[z][m] = t1.kid[z][m]
      BY <1>5, <1>9, SMTT(30) DEF Turned, TurnKids
    <3>2. q # nil => \A z \in Side : z # d => t2.kid[z][q] = t1.kid[z][q]
      BY <1>9, SMTT(30) DEF Turned, TurnKids
    <3>3. \A m \in Used(t), z \in Side : t1.kid[z][m] = p => m = q /\ z = d
      BY <1>5, <1>9, SMTT(30) DEF Turned, TurnAt
    <3>4. \A m \in Used(t), z \in Side : t1.kid[z][m] = c => m = p /\ z = o
      BY <1>5, <1>9, SMTT(30) DEF Turned, TurnAt
    <3> QED
      BY <3>1, <3>2, <3>3, <3>4, SMTT(30)
  <2>2. t1.kid = t.kid
    BY <1>6
  <2>3. \A m \in Used(t), z \in Side : m # p /\ m # c /\ m # q => t2.kid[z][m] = t.kid[z][m]
    <3>1. ASSUME NEW m \in Used(t), NEW z \in Side, m # p, m # c, m # q
          PROVE  t2.kid[z][m] = t.kid[z][m]
      <4>1. t2.kid[z][m] = t1.kid[z][m]
        BY <2>1, <3>1
      <4> QED
        BY <4>1, <2>2
    <3> QED
      BY <3>1
  <2>4. q # nil => \A z \in Side : z # d => t2.kid[z][q] = t.kid[z][q]
    BY <2>1, <2>2
  <2>5. \A m \in Used(t), z \in Side : t.kid[z][m] = p => m = q /\ z = d
    BY <2>1, <2>2
  <2>6. \A m \in Used(t), z \in Side : t.kid[z][m] = c => m = p /\ z = o
    BY <2>1, <2>2
  <2> QED
    BY <2>3, <2>4, <2>5, <2>6
<1>12. Heights(t2, h2, nil, "left")
  <2>1. ASSUME NEW m \in Used(t), NEW y \in Side
        PROVE  Rise(t2, h2, m, t2.kid[y][m], FALSE)
    <3>0. m # nil /\ m \in Link
      BY <1>2, Kids
    <3>1. CASE m = p /\ y = s
      <4>1. t2.kid[y][m] = n /\ t2.color[n] = "black" /\ h2[n] = h[n]
        BY <3>1, <1>1, <1>2, <1>4, <1>b, <1>k, <1>10, <1>11
      <4> QED
        BY <3>1, <4>1, <1>10 DEF Rise
    <3>2. CASE m = p /\ y = o
      <4>1. t2.kid[y][m] = mid /\ t2.color[mid] = t.color[mid] /\ h2[mid] = h[mid]
        BY <3>2, <1>4, <1>b, <1>k, <1>10, <1>11
      <4> QED
        BY <3>2, <4>1, <1>10 DEF Rise
    <3>3. CASE m = c /\ y = s
      <4>1. t2.kid[y][m] = p /\ t2.color[p] = "black"
        BY <3>3, <1>k, <1>c
      <4> QED
        BY <3>3, <4>1, <1>10 DEF Rise
    <3>4. CASE m = c /\ y = o
      <4>1. t2.kid[y][m] = far /\ t2.color[far] = "black" /\ h2[far] = h[far]
        BY <3>4, <1>b, <1>4, <1>k, <1>10, <1>11
      <4> QED
        BY <3>4, <4>1, <1>10 DEF Rise
    <3>5. CASE m # p /\ m # c /\ m = q /\ y = d
      <4>1. t2.kid[y][m] = c /\ t2.color[c] = t.color[p] /\ t.kid[y][m] = p /\ h2[m] = h[m]
        BY <3>0, <3>5, <1>k, <1>c, <1>10
      <4>2. Rise(t, h, m, p, m = p /\ y = s)
        BY <4>1, <1>2 DEF Heights
      <4>3. h2[c] = h[p] /\ t.color[p] \in {"red", "black"}
        BY <1>2, <1>10
      <4>4. /\ t.color[p] = "red" => h[m] = h[p]
            /\ t.color[p] = "black" => h[m] = h[p] + 1
        BY <4>2, <3>5 DEF Rise
      <4>5. /\ t2.color[c] = "red" => h2[m] = h2[c]
            /\ t2.color[c] = "black" => h2[m] = h2[c] + 1
        BY <4>1, <4>3, <4>4
      <4> QED
        BY <4>1, <4>5 DEF Rise
    <3>6. CASE m # p /\ m # c /\ ~ (m = q /\ y = d)
      <4>1. t2.kid[y][m] = t.kid[y][m] /\ t.kid[y][m] # p /\ t.kid[y][m] # c
        <5>1. t.kid[y][m] # p /\ t.kid[y][m] # c
          BY <3>6, <1>t
        <5>2. CASE m = q
          BY <5>1, <5>2, <3>0, <3>6, <1>t
        <5>3. CASE m # q
          BY <5>1, <5>3, <3>6, <1>t
        <5> QED
          BY <5>1, <5>2, <5>3
      <4>2. t.kid[y][m] # far
        BY <3>6, <1>2, <1>b, Kids
      <4>3. t.kid[y][m] \in Link
        BY <1>2, Smaller
      <4>4. t2.color[t.kid[y][m]] = t.color[t.kid[y][m]] /\ h2[t.kid[y][m]] = h[t.kid[y][m]] /\ h2[m] = h[m]
        BY <3>0, <3>6, <4>1, <4>2, <4>3, <1>4, <1>10, <1>11
      <4>5. Rise(t, h, m, t.kid[y][m], m = p /\ y = s)
        BY <1>2 DEF Heights
      <4> QED
        BY <3>6, <4>1, <4>4, <4>5 DEF Rise
    <3> QED
      BY <3>1, <3>2, <3>3, <3>4, <3>5, <3>6, <1>1
  <2>2. \A m \in Used(t) : m # nil
    BY <1>2, Kids
  <2>3. ASSUME NEW m \in Used(t), NEW y \in Side
        PROVE  Rise(t2, h2, m, t2.kid[y][m], m = nil /\ y = "left")
    BY <2>1, <2>2 DEF Rise
  <2> QED
    BY <2>3, <1>8, <1>10 DEF Heights
<1>13. Reds(t2, nil, t2.root)
  <2>1. ASSUME NEW m \in Used(t), t2.color[m] = "red", m # t2.root
        PROVE  t2.color[t2.parent[m]] = "black"
    <3>0. m # nil /\ m \in Link /\ m # p /\ m # far
      BY <2>1, <1>2, <1>c, Kids
    <3>1. CASE m = c
      <4>1. t.color[p] = "red" /\ q # nil
        BY <2>1, <3>1, <1>1, <1>b, <1>4, <1>11, <1>r
      <4>2. q \in Used(t) /\ q # n /\ p # t.root /\ q \in Link
        BY <4>1, <1>1, <1>2, <1>k, <1>r, Kids
      <4>3. t.color[q] = "black"
        BY <4>1, <4>2, <1>1, <1>2 DEF Reds, q
      <4>4. t2.color[q] = "black"
        BY <4>2, <4>3, <1>k, <1>4, <1>11
      <4> QED
        BY <3>1, <4>4, <1>11
    <3>2. CASE m # c
      <4>0. t.color[m] = "red" /\ m # n
        BY <2>1, <3>0, <3>2, <1>2, <1>4, <1>11
      <4>1. m # t.root /\ t.color[t.parent[m]] = "black"
        BY <4>0, <3>0, <1>2 DEF Reds
      <4>2. /\ t.parent[m] \in Used(t) /\ t.parent[m] # nil /\ t.parent[m] \in Link
            /\ \E y \in Side : t.kid[y][t.parent[m]] = m
        BY <4>1, <1>2, Kids
      <4>3. CASE m = mid
        <5>1. t2.parent[m] = p
          BY <3>0, <4>3, <1>6, <1>9, SMTT(30) DEF Turned, TurnParents, mid
        <5> QED
          BY <5>1, <1>1, <1>4, <1>11, SMTT(30)
      <4>4. CASE m # mid
        <5>1. t2.parent[m] = t.parent[m]
          BY <3>0, <3>2, <4>4, <1>6, <1>9, SMTT(30) DEF Turned, TurnParents, mid
        <5>2. t.parent[m] # c
          BY <1>0, <3>0, <4>2, <4>4, <1>1 DEF mid, o
        <5>3. t2.color[t.parent[m]] = "black"
          BY <4>1, <4>2, <5>2, <1>4, <1>11
        <5> QED
          BY <5>1, <5>3, SMTT(30)
      <4> QED
        BY <4>3, <4>4
    <3> QED
      BY <3>1, <3>2
  <2>2. t2.color[nil] = "black"
    BY <1>1, <1>2, <1>4, <1>11, <1>b
  <2> QED
    BY <2>1, <2>2, <1>8 DEF Reds
<1> QED
  BY <1>8, <1>11, <1>12, <1>13 DEF u2, h2, Swapped

-----------------------------------------------------------------------------
(* Insert.                                                                 *)

\* malloc returns a node that is free, if there is one.
LEMMA MallocIs ==
  ASSUME Free # {}, NEW k \in Key
  PROVE  Malloc(k) \in Free
<1> DEFINE M == [n \in Free |-> {m \in Node : m <= n}]
<1>1. CASE k \in Free
  BY <1>1 DEF Malloc
<1>2. CASE k \notin Free
  <2>1. Measure(M, Free, Node)
    BY Finite DEF Measure, Free
  <2>2. PICK n \in Free : \A m \in Free : M[m] \subseteq M[n] => M[m] = M[n]
    BY <2>1, Finite, LeastBy DEF HasLeast
  <2>3. ASSUME NEW m \in Free PROVE n <= m
    <3>1. m \in Int /\ n \in Int /\ m \in Node /\ n \in Node
      BY Finite DEF Free, Link
    <3>2. ASSUME m < n PROVE FALSE
      <4>1. \A j \in Node : j \in Int
        BY Finite DEF Link
      <4>2. M[m] \subseteq M[n]
        <5>1. M[m] = {j \in Node : j <= m} /\ M[n] = {j \in Node : j <= n}
          OBVIOUS
        <5>2. ASSUME NEW j \in Node, j <= m PROVE j <= n
          BY <3>1, <3>2, <4>1, <5>2
        <5> HIDE DEF M
        <5> QED
          BY <5>1, <5>2
      <4>3. n \in M[n] /\ n \notin M[m]
        BY <3>1, <3>2
      <4> QED
        BY <2>2, <4>2, <4>3
    <3> QED
      BY <3>1, <3>2
  <2> QED
    BY <1>2, <2>3 DEF Malloc
<1> QED
  BY <1>1, <1>2

\* t2 is t with n as a red leaf with key k, on side s of p.
Grown(t, t2, n, k, p, s) ==
  /\ t2 \in TreeType /\ t2.root = IF p = nil THEN n ELSE t.root
  /\ \A m \in Link :
       /\ t2.color[m] = IF m = n THEN "red" ELSE t.color[m]
       /\ t2.key[m] = IF m = n THEN k ELSE t.key[m]
       /\ t2.value[m] = IF m = n THEN k ELSE t.value[m]
       /\ t2.parent[m] = IF m = n THEN p ELSE t.parent[m]
       /\ \A z \in Side : t2.kid[z][m] = IF m = n THEN nil
                                         ELSE IF p # nil /\ m = p /\ z = s THEN n ELSE t.kid[z][m]

\* That is what Insert assigns.
LEMMA GrownIs ==
  ASSUME tree \in TreeType, NEW n \in Node, NEW k \in Key, NEW p \in Link, p # n,
         NEW t2, t2 = LET t == Create(n, k, p)
                      IN IF p = nil THEN [t EXCEPT !.root = n]
                         ELSE [t EXCEPT !.kid[IF t.key[p] > k THEN "left" ELSE "right"][p] = n]
  PROVE  Grown(tree, t2, n, k, p, IF tree.key[p] > k THEN "left" ELSE "right")
<1> DEFINE c == Create(n, k, p)
           s == IF tree.key[p] > k THEN "left" ELSE "right"
<1>0. n \in Link /\ k \in Link /\ nil \in Link /\ "left" \in Side /\ "right" \in Side /\ s \in Side
  BY DEF Link, Node, Side
<1>1. /\ c \in TreeType /\ c.root = tree.root
      /\ \A m \in Link :
           /\ c.color[m] = IF m = n THEN "red" ELSE tree.color[m]
           /\ c.key[m] = IF m = n THEN k ELSE tree.key[m]
           /\ c.value[m] = IF m = n THEN k ELSE tree.value[m]
           /\ c.parent[m] = IF m = n THEN p ELSE tree.parent[m]
           /\ \A z \in Side : c.kid[z][m] = IF m = n THEN nil ELSE tree.kid[z][m]
  <2>1. c \in TreeType /\ c.root = tree.root
    BY <1>0, ZenonT(60) DEF Create, TreeType
  <2>2. \A m \in Link : /\ c.color[m] = IF m = n THEN "red" ELSE tree.color[m]
                        /\ c.key[m] = IF m = n THEN k ELSE tree.key[m]
    BY <1>0 DEF Create, TreeType
  <2>3. \A m \in Link : /\ c.value[m] = IF m = n THEN k ELSE tree.value[m]
                        /\ c.parent[m] = IF m = n THEN p ELSE tree.parent[m]
    BY <1>0 DEF Create, TreeType
  <2>4. \A m \in Link, z \in Side : c.kid[z][m] = IF m = n THEN nil ELSE tree.kid[z][m]
    BY <1>0 DEF Create, TreeType, Side
  <2> QED
    BY <2>1, <2>2, <2>3, <2>4
<1>2. t2 = IF p = nil THEN [c EXCEPT !.root = n]
           ELSE [c EXCEPT !.kid[IF c.key[p] > k THEN "left" ELSE "right"][p] = n]
  OBVIOUS
<1> HIDE DEF c
<1>3. t2 = IF p = nil THEN [c EXCEPT !.root = n] ELSE [c EXCEPT !.kid[s][p] = n]
  <2>1. c.key[p] = tree.key[p]
    BY <1>1
  <2> QED
    BY <1>2, <2>1
<1> HIDE DEF s
<1>4. CASE p = nil
  <2>1. t2 = [c EXCEPT !.root = n]
    BY <1>3, <1>4
  <2>2. /\ t2 \in TreeType /\ t2.root = n /\ t2.color = c.color /\ t2.key = c.key /\ t2.value = c.value
        /\ t2.parent = c.parent /\ t2.kid = c.kid
    BY <1>0, <1>1, <2>1 DEF TreeType
  <2> QED
    BY <1>1, <1>4, <2>2 DEF Grown, s
<1>5. CASE p # nil
  <2>1. t2 = [c EXCEPT !.kid[s][p] = n]
    BY <1>3, <1>5
  <2>a. /\ c = [root |-> c.root, kid |-> c.kid, parent |-> c.parent, color |-> c.color,
                key |-> c.key, value |-> c.value]
        /\ c.kid \in [Side -> [Link -> Link]]
    BY <1>1 DEF TreeType
  <2>b. t2 = [root |-> c.root, kid |-> [c.kid EXCEPT ![s][p] = n], parent |-> c.parent,
              color |-> c.color, key |-> c.key, value |-> c.value]
    <3>1. t2 = [c EXCEPT !.kid = [c.kid EXCEPT ![s][p] = n]]
      BY <2>1
    <3> DEFINE K == [c.kid EXCEPT ![s][p] = n]
    <3>2. t2 = [c EXCEPT !.kid = K]
      BY <3>1
    <3> HIDE DEF K
    <3>3. t2 = [root |-> c.root, kid |-> K, parent |-> c.parent,
                color |-> c.color, key |-> c.key, value |-> c.value]
      BY <2>a, <3>2
    <3> QED
      BY <3>3 DEF K
  <2>c. /\ t2.root = c.root /\ t2.color = c.color /\ t2.key = c.key /\ t2.value = c.value
        /\ t2.parent = c.parent /\ t2.kid = [c.kid EXCEPT ![s][p] = n]
    BY <2>b
  <2>d. [c.kid EXCEPT ![s][p] = n] \in [Side -> [Link -> Link]]
    BY <2>a, <1>0, SMTT(30)
  <2>2. /\ t2 \in TreeType /\ t2.root = c.root /\ t2.color = c.color /\ t2.key = c.key /\ t2.value = c.value
        /\ t2.parent = c.parent
    <3>1. /\ c.root \in Link /\ c.parent \in [Link -> Link] /\ c.color \in [Link -> {"red", "black"}]
          /\ c.key \in [Link -> Link] /\ c.value \in [Link -> Link]
      BY <1>1 DEF TreeType
    <3> QED
      BY <3>1, <2>b, <2>c, <2>d DEF TreeType
  <2>3. \A m \in Link, z \in Side : t2.kid[z][m] = IF m = p /\ z = s THEN n ELSE c.kid[z][m]
    BY <1>0, <2>a, <2>c
  <2> QED
    BY <1>1, <1>5, <2>2, <2>3 DEF Grown, s
<1> QED
  BY <1>4, <1>5

\* The place of the key k in the search tree t, for the free node n.
PlaceFor(t, u, h, n, k, p, s) ==
  /\ Shape(t, u) /\ Heights(t, h, nil, "left") /\ Reds(t, nil, nil)
  /\ n \in Node /\ n \notin Used(t) /\ k \in Key /\ p \in Used(t) \cup {nil} /\ s \in Side
  /\ p = nil => t.root = nil
  /\ p # nil => t.kid[s][p] = nil /\ Before(s, k, t.key[p])
  /\ \A m \in Used(t), z \in Side : p \in u[t.kid[z][m]] => Before(z, k, t.key[m])

\* Then n is below all that p is below.
GrownForks(u, n, p) ==
  [m \in Link |-> IF m = n THEN {n} ELSE IF p \in u[m] THEN u[m] \cup {n} ELSE u[m]]

\* The new leaf is one more node in use, and no other node's link has been to it.
LEMMA PlaceIs ==
  ASSUME NEW t, NEW u, NEW h, NEW n, NEW k, NEW p, NEW s, PlaceFor(t, u, h, n, k, p, s),
         NEW t2, Grown(t, t2, n, k, p, s)
  PROVE  /\ n \in Link /\ n # nil /\ nil \in Link /\ p \in Link /\ p # n /\ k # 0 /\ n # t.root
         /\ Used(t2) = Used(t) \cup {n}
         /\ p = nil => Used(t) = {}
         /\ \A m \in Used(t) : m \in Link /\ m # nil /\ m # n /\ m \in Node /\ u[m] \subseteq Used(t) /\ m \in u[m]
         /\ \A m \in Used(t), z \in Side :
              /\ t.kid[z][m] \in Used(t) \cup {nil} /\ t.kid[z][m] # n /\ t.kid[z][m] # m
              /\ t2.kid[z][m] = IF m = p /\ z = s THEN n ELSE t.kid[z][m]
         /\ \A z \in Side : t2.kid[z][n] = nil
<1>1. n \in Link /\ n # nil /\ nil \in Link /\ p \in Link /\ p # n /\ k # 0
  BY KeyAssumption DEF PlaceFor, Node, Link, Used, nil
<1>2. n # t.root /\ Shape(t, u)
  BY <1>1 DEF PlaceFor, Shape, Links
<1>3. Used(t2) = Used(t) \cup {n}
  <2>1. \A m \in Link : t2.key[m] = IF m = n THEN k ELSE t.key[m]
    BY DEF Grown
  <2> QED
    BY <1>1, <2>1 DEF Used, PlaceFor, Link
<1>4. p = nil => Used(t) = {}
  BY DEF PlaceFor, Shape, Forks
<1>5. ASSUME NEW m \in Used(t)
      PROVE  m \in Link /\ m # nil /\ m # n /\ m \in Node /\ u[m] \subseteq Used(t) /\ m \in u[m]
  <2>1. u[m] \subseteq Node
    BY <1>2, Kids
  <2>2. \A v \in Node : v \in u[m] => v \in Used(t)
    BY <1>2, Nested
  <2> QED
    BY <1>2, <2>1, <2>2, Kids DEF PlaceFor
<1>6. ASSUME NEW m \in Used(t), NEW z \in Side
      PROVE  /\ t.kid[z][m] \in Used(t) \cup {nil} /\ t.kid[z][m] # n /\ t.kid[z][m] # m
             /\ t2.kid[z][m] = IF m = p /\ z = s THEN n ELSE t.kid[z][m]
  <2>1. t.kid[z][m] \in Used(t) \cup {nil} /\ t.kid[z][m] # m
    BY <1>2, <1>5, Smaller
  <2>2. t.kid[z][m] # n
    BY <2>1, <1>1 DEF PlaceFor
  <2>3. t2.kid[z][m] = IF m = n THEN nil ELSE IF p # nil /\ m = p /\ z = s THEN n ELSE t.kid[z][m]
    BY <1>5 DEF Grown
  <2> QED
    BY <2>1, <2>2, <2>3, <1>5
<1>7. \A z \in Side : t2.kid[z][n] = nil
  BY <1>1 DEF Grown
<1> QED
  BY <1>1, <1>2, <1>3, <1>4, <1>5, <1>6, <1>7

\* A search tree with a leaf in its place is one.
LEMMA GrownShape ==
  ASSUME NEW t, NEW u, NEW h, NEW n, NEW k, NEW p, NEW s, PlaceFor(t, u, h, n, k, p, s),
         NEW t2, Grown(t, t2, n, k, p, s)
  PROVE  Shape(t2, GrownForks(u, n, p))
<1> DEFINE u2 == GrownForks(u, n, p)
<1>1. /\ n \in Link /\ n # nil /\ nil \in Link /\ p \in Link /\ p # n /\ k # 0 /\ n # t.root
      /\ Used(t2) = Used(t) \cup {n}
      /\ p = nil => Used(t) = {}
      /\ \A m \in Used(t) : m \in Link /\ m # nil /\ m # n /\ m \in Node /\ u[m] \subseteq Used(t) /\ m \in u[m]
      /\ \A m \in Used(t), z \in Side :
           /\ t.kid[z][m] \in Used(t) \cup {nil} /\ t.kid[z][m] # n /\ t.kid[z][m] # m
           /\ t2.kid[z][m] = IF m = p /\ z = s THEN n ELSE t.kid[z][m]
      /\ \A z \in Side : t2.kid[z][n] = nil
  BY PlaceIs
<1>2. /\ Shape(t, u) /\ n \in Node /\ n \notin Used(t) /\ k \in Key /\ p \in Used(t) \cup {nil} /\ s \in Side
      /\ p = nil => t.root = nil
      /\ p # nil => t.kid[s][p] = nil /\ Before(s, k, t.key[p])
      /\ \A m \in Used(t), z \in Side : p \in u[t.kid[z][m]] => Before(z, k, t.key[m])
  BY DEF PlaceFor
<1>3. /\ t2 \in TreeType /\ t2.root = IF p = nil THEN n ELSE t.root
      /\ \A m \in Link : /\ t2.key[m] = IF m = n THEN k ELSE t.key[m]
                         /\ t2.value[m] = IF m = n THEN k ELSE t.value[m]
                         /\ t2.parent[m] = IF m = n THEN p ELSE t.parent[m]
      /\ \A m \in Link, z \in Side : m # n /\ m # p => t2.kid[z][m] = t.kid[z][m]
      /\ t2.parent[n] = p
  BY <1>1 DEF Grown
<1>4. /\ u \in [Link -> SUBSET Node] /\ u[nil] = {} /\ u[t.root] = Used(t)
      /\ t.root \in Used(t) \cup {nil}
  BY <1>2 DEF Shape, Links, Forks
<1>5. /\ u2 \in [Link -> SUBSET Node] /\ u2[n] = {n} /\ u2[nil] = {}
      /\ \A m \in Link : m # n => u2[m] = IF p \in u[m] THEN u[m] \cup {n} ELSE u[m]
  BY <1>1, <1>2, <1>4 DEF GrownForks
<1> HIDE DEF u2
<1>6. \A m \in Used(t) \cup {nil} : u[m] \subseteq Used(t) /\ u2[m] = IF p \in u[m] THEN u[m] \cup {n} ELSE u[m]
  BY <1>1, <1>4, <1>5
<1>7. ASSUME NEW m \in Used(t), NEW z \in Side
      PROVE  u2[t2.kid[z][m]] = IF (m = p /\ z = s) \/ p \in u[t.kid[z][m]]
                                THEN u[t.kid[z][m]] \cup {n} ELSE u[t.kid[z][m]]
  <2>1. CASE m = p /\ z = s
    BY <2>1, <1>1, <1>2, <1>4, <1>5
  <2>2. CASE ~ (m = p /\ z = s)
    BY <2>2, <1>1, <1>6
  <2> QED
    BY <2>1, <2>2
<1>8. Links(t2)
  <2>1. t2.key[nil] = 0 /\ t2.root \in Used(t2) \cup {nil}
    BY <1>1, <1>2, <1>3, <1>4 DEF Shape, Links
  <2>2. ASSUME NEW m \in Link, NEW z \in Side, m \notin Used(t2) PROVE t2.kid[z][m] = nil
    <3>1. m \notin Used(t) /\ m # n
      BY <2>2, <1>1
    <3>2. t2.kid[z][m] = IF m = n THEN nil ELSE IF p # nil /\ m = p /\ z = s THEN n ELSE t.kid[z][m]
      BY DEF Grown
    <3>3. t.kid[z][m] = nil
      BY <1>2, <3>1 DEF Shape, Links
    <3> QED
      BY <3>1, <3>2, <3>3, <1>2
  <2>3. t2.root # nil => t2.parent[t2.root] = nil
    <3>1. CASE p = nil
      BY <3>1, <1>3
    <3>2. CASE p # nil
      BY <3>2, <1>1, <1>2, <1>3, <1>4 DEF Shape, Links
    <3> QED
      BY <3>1, <3>2
  <2>4. ASSUME NEW m \in Used(t2), NEW z \in Side, t2.kid[z][m] # nil
        PROVE  t2.kid[z][m] \in Used(t2) /\ t2.parent[t2.kid[z][m]] = m
    <3>1. m \in Used(t)
      BY <2>4, <1>1
    <3>2. CASE m = p /\ z = s
      BY <3>1, <3>2, <1>1, <1>3
    <3>3. CASE ~ (m = p /\ z = s)
      <4>1. t2.kid[z][m] = t.kid[z][m]
        BY <3>1, <3>3, <1>1
      <4>2. t.kid[z][m] \in Used(t) /\ t.parent[t.kid[z][m]] = m
        BY <2>4, <3>1, <4>1, <1>2 DEF Shape, Links
      <4> QED
        BY <4>1, <4>2, <1>1, <1>3
    <3> QED
      BY <3>2, <3>3
  <2>5. ASSUME NEW m \in Used(t2), m # t2.root
        PROVE  t2.parent[m] \in Used(t2) /\ \E z \in Side : t2.kid[z][t2.parent[m]] = m
    <3>1. CASE m = n
      <4>1. p # nil /\ p \in Used(t)
        BY <3>1, <2>5, <1>2, <1>3
      <4> QED
        BY <3>1, <4>1, <1>1, <1>2, <1>3
    <3>2. CASE m # n
      <4>1. m \in Used(t) /\ p # nil /\ m # t.root
        BY <3>2, <2>5, <1>1, <1>3
      <4>2. PICK z \in Side : t.kid[z][t.parent[m]] = m
        BY <4>1, <1>2 DEF Shape, Links
      <4>3. t.parent[m] \in Used(t) /\ t2.parent[m] = t.parent[m]
        BY <3>2, <4>1, <1>1, <1>2, <1>3 DEF Shape, Links
      <4>4. t2.kid[z][t.parent[m]] = m
        BY <4>1, <4>2, <4>3, <1>1, <1>2
      <4> QED
        BY <4>3, <4>4, <1>1
    <3> QED
      BY <3>1, <3>2
  <2> QED
    BY <2>1, <2>2, <2>3, <2>4, <2>5 DEF Links
<1>9. Forks(t2, u2)
  <2>1. u2[t2.root] = Used(t2)
    <3>1. CASE p = nil
      BY <3>1, <1>1, <1>3, <1>5
    <3>2. CASE p # nil
      <4>1. t2.root = t.root /\ p \in u[t.root]
        BY <3>2, <1>2, <1>3, <1>4
      <4>2. u2[t.root] = u[t.root] \cup {n}
        BY <4>1, <1>4, <1>6
      <4> QED
        BY <4>1, <4>2, <1>1, <1>4
    <3> QED
      BY <3>1, <3>2
  <2>2. ASSUME NEW m \in Used(t2), NEW z \in Side
        PROVE  /\ u2[m] = {m} \cup u2[t2.kid[z][m]] \cup u2[t2.kid[Other(z)][m]]
               /\ m \notin u2[t2.kid[z][m]]
               /\ u2[t2.kid[z][m]] \cap u2[t2.kid[Other(z)][m]] = {}
    <3>0. Other(z) \in Side /\ Other(z) # z /\ Side = {z, Other(z)}
      BY Sides
    <3>1. CASE m = n
      BY <3>0, <3>1, <1>1, <1>5
    <3>2. CASE m # n
      <4> DEFINE a == u[t.kid[z][m]]
                 b == u[t.kid[Other(z)][m]]
                 a2 == u2[t2.kid[z][m]]
                 b2 == u2[t2.kid[Other(z)][m]]
      <4>1. m \in Used(t)
        BY <3>2, <1>1
      <4>2. u[m] = {m} \cup a \cup b /\ m \notin a /\ m \notin b /\ a \cap b = {}
        BY <4>1, <3>0, <1>2 DEF Shape, Forks
      <4>3. /\ a2 = IF (m = p /\ z = s) \/ p \in a THEN a \cup {n} ELSE a
            /\ b2 = IF (m = p /\ Other(z) = s) \/ p \in b THEN b \cup {n} ELSE b
            /\ u2[m] = IF p \in u[m] THEN u[m] \cup {n} ELSE u[m]
            /\ n \notin u[m] /\ s \in {z, Other(z)}
        BY <4>1, <3>0, <1>1, <1>2, <1>6, <1>7
      <4> HIDE DEF a, b, a2, b2
      <4>4. u2[m] = {m} \cup a2 \cup b2 /\ m \notin a2 /\ a2 \cap b2 = {}
        BY <3>0, <3>2, <4>2, <4>3
      <4> QED
        BY <4>4 DEF a2, b2
    <3> QED
      BY <3>1, <3>2
  <2> QED
    BY <2>1, <2>2, <1>5 DEF Forks
<1>10. Sorted(t2, u2)
  <2>1. ASSUME NEW m \in Used(t2) PROVE t2.value[m] = t2.key[m]
    BY <1>1, <1>2, <1>3 DEF Shape, Sorted
  <2>2. ASSUME NEW m \in Used(t2), NEW z \in Side, NEW v \in u2[t2.kid[z][m]]
        PROVE  Before(z, t2.key[v], t2.key[m])
    <3>1. m \in Used(t) /\ t2.key[m] = t.key[m]
      BY <2>2, <1>1, <1>3, <1>5
    <3>2. CASE v \in u[t.kid[z][m]]
      <4>1. Before(z, t.key[v], t.key[m])
        BY <3>1, <3>2, <1>2 DEF Shape, Sorted
      <4>2. v \in Used(t)
        BY <3>1, <3>2, <1>1, <1>6
      <4> QED
        BY <3>1, <4>1, <4>2, <1>1, <1>3
    <3>3. CASE v \notin u[t.kid[z][m]]
      <4>1. v = n /\ ((m = p /\ z = s) \/ p \in u[t.kid[z][m]])
        <5>1. \/ u2[t2.kid[z][m]] = u[t.kid[z][m]]
              \/ /\ u2[t2.kid[z][m]] = u[t.kid[z][m]] \cup {n}
                 /\ (m = p /\ z = s) \/ p \in u[t.kid[z][m]]
          BY <3>1, <1>7
        <5> QED
          BY <2>2, <3>3, <5>1
      <4>2. Before(z, k, t.key[m])
        BY <3>1, <4>1, <1>1, <1>2
      <4> QED
        BY <3>1, <4>1, <4>2, <1>1, <1>3
    <3> QED
      BY <3>2, <3>3
  <2> QED
    BY <2>1, <2>2 DEF Sorted
<1> QED
  BY <1>3, <1>8, <1>9, <1>10 DEF Shape, u2

\* A red leaf changes no height, and only it may have a red parent.
LEMMA GrownColors ==
  ASSUME NEW t, NEW u, NEW h, NEW n, NEW k, NEW p, NEW s, PlaceFor(t, u, h, n, k, p, s),
         NEW t2, Grown(t, t2, n, k, p, s)
  PROVE  Heights(t2, [h EXCEPT ![n] = 1], nil, "left") /\ Reds(t2, n, nil) /\ t2.color[n] = "red"
<1> DEFINE h2 == [h EXCEPT ![n] = 1]
<1>1. /\ n \in Link /\ n # nil /\ nil \in Link /\ p \in Link /\ p # n /\ n # t.root
      /\ Used(t2) = Used(t) \cup {n}
      /\ p = nil => Used(t) = {}
      /\ \A m \in Used(t) : m \in Link /\ m # nil /\ m # n
      /\ \A m \in Used(t), z \in Side :
           /\ t.kid[z][m] \in Used(t) \cup {nil} /\ t.kid[z][m] # n /\ t.kid[z][m] # m
           /\ t2.kid[z][m] = IF m = p /\ z = s THEN n ELSE t.kid[z][m]
      /\ \A z \in Side : t2.kid[z][n] = nil
  BY PlaceIs
<1>2. /\ Shape(t, u) /\ Heights(t, h, nil, "left") /\ Reds(t, nil, nil) /\ p \in Used(t) \cup {nil} /\ s \in Side
      /\ p # nil => t.kid[s][p] = nil
  BY DEF PlaceFor
<1>3. /\ t2.root = IF p = nil THEN n ELSE t.root
      /\ t2.color[n] = "red"
      /\ \A m \in Link : m # n => t2.color[m] = t.color[m] /\ t2.parent[m] = t.parent[m]
  BY <1>1 DEF Grown
<1>4. /\ h \in [Link -> Nat] /\ h[nil] = 0 /\ t.color[nil] = "black" /\ t2.color[nil] = "black"
      /\ h2 \in [Link -> Nat] /\ h2[n] = 1 /\ h2[nil] = 0
      /\ \A m \in Link : m # n => h2[m] = h[m]
  BY <1>1, <1>2, <1>3 DEF Heights, Reds
<1> HIDE DEF h2
<1>5. ASSUME NEW m \in Used(t2), NEW y \in Side
      PROVE  m # nil /\ Rise(t2, h2, m, t2.kid[y][m], FALSE)
  <2>1. CASE m = n
    BY <2>1, <1>1, <1>4 DEF Rise
  <2>2. CASE m # n
    <3>1. m \in Used(t) /\ m \in Link /\ m # nil /\ h2[m] = h[m]
      BY <2>2, <1>1, <1>4
    <3>2. Rise(t, h, m, t.kid[y][m], FALSE)
      BY <3>1, <1>2 DEF Heights
    <3>3. CASE m = p /\ y = s
      <4>1. t.kid[y][m] = nil /\ t2.kid[y][m] = n
        BY <3>1, <3>3, <1>1, <1>2
      <4> QED
        BY <3>1, <3>2, <4>1, <1>3, <1>4 DEF Rise
    <3>4. CASE ~ (m = p /\ y = s)
      <4>1. t2.kid[y][m] = t.kid[y][m] /\ t.kid[y][m] # n /\ t.kid[y][m] \in Link
        BY <3>1, <3>4, <1>1
      <4>2. h2[t.kid[y][m]] = h[t.kid[y][m]] /\ t2.color[t.kid[y][m]] = t.color[t.kid[y][m]]
        BY <4>1, <1>3, <1>4
      <4> QED
        BY <3>1, <3>2, <4>1, <4>2 DEF Rise
    <3> QED
      BY <3>1, <3>3, <3>4
  <2> QED
    BY <2>1, <2>2
<1>6. Heights(t2, h2, nil, "left")
  <2>1. ASSUME NEW m \in Used(t2), NEW y \in Side
        PROVE  Rise(t2, h2, m, t2.kid[y][m], m = nil /\ y = "left")
    BY <1>5 DEF Rise
  <2> QED
    BY <2>1, <1>4 DEF Heights
<1>7. Reds(t2, n, nil)
  <2>1. ASSUME NEW m \in Used(t2), t2.color[m] = "red", m # n
        PROVE  m # t2.root /\ t2.color[t2.parent[m]] = "black"
    <3>1. m \in Used(t) /\ m \in Link /\ m # nil /\ t.color[m] = "red" /\ p # nil /\ t2.root = t.root
      BY <2>1, <1>1, <1>3
    <3>2. m # t.root /\ (t.color[t.parent[m]] = "black" \/ t.parent[m] = nil)
      BY <3>1, <1>2 DEF Reds
    <3>3. t.parent[m] \in Used(t) /\ t2.parent[m] = t.parent[m]
      BY <2>1, <3>1, <3>2, <1>2, <1>3 DEF Shape, Links
    <3> QED
      BY <3>1, <3>2, <3>3, <1>1, <1>3
  <2> QED
    BY <2>1, <1>4 DEF Reds
<1> QED
  BY <1>3, <1>6, <1>7 DEF h2

-----------------------------------------------------------------------------
(* Delete.                                                                 *)

\* t2 is t with x, which was below y, in the place of y under p on side s, and the
\* key of y in n.
Cut(t, t2, n, y, x, p, s) ==
  /\ t2 \in TreeType /\ t2.root = IF p = nil THEN x ELSE t.root
  /\ \A m \in Link :
       /\ t2.color[m] = IF m = y THEN "black" ELSE t.color[m]
       /\ t2.key[m] = IF m = y THEN 0 ELSE IF m = n THEN t.key[y] ELSE t.key[m]
       /\ t2.value[m] = IF m = y THEN 0 ELSE IF m = n THEN t.value[y] ELSE t.value[m]
       /\ t2.parent[m] = IF m = y THEN nil ELSE IF m = x THEN p ELSE t.parent[m]
       /\ \A z \in Side : t2.kid[z][m] = IF m = y THEN nil
                                         ELSE IF p # nil /\ m = p /\ z = s THEN x ELSE t.kid[z][m]

\* What Replace does: x hangs where y hung.
Replaced(t, t2, p, x, s) ==
  /\ t2 \in TreeType /\ t2.root = IF p = nil THEN x ELSE t.root
  /\ t2.color = t.color /\ t2.key = t.key /\ t2.value = t.value /\ t2.parent = t.parent
  /\ \A m \in Link, z \in Side :
       t2.kid[z][m] = IF p # nil /\ m = p /\ z = s THEN x ELSE t.kid[z][m]

\* It changes the root or one link.
LEMMA ReplaceIs ==
  ASSUME NEW t \in TreeType, NEW y \in Node, NEW p \in Link, NEW x \in Link,
         NEW t2, t2 = Replace(t, y, p, x)
  PROVE  Replaced(t, t2, p, x, SideOf(t, y))
<1>1. CASE p = nil
  <2>1. t2 = [t EXCEPT !.root = x]
    BY <1>1 DEF Replace
  <2>a. /\ t = [root |-> t.root, kid |-> t.kid, parent |-> t.parent, color |-> t.color,
                key |-> t.key, value |-> t.value]
    BY Parts
  <2>2. t2 = [root |-> x, kid |-> t.kid, parent |-> t.parent, color |-> t.color,
              key |-> t.key, value |-> t.value]
    BY <2>1, <2>a
  <2>3. t2 \in TreeType
    BY <2>2, Parts DEF TreeType
  <2> QED
    BY <1>1, <2>2, <2>3 DEF Replaced
<1>2. CASE p # nil
  <2> DEFINE s == SideOf(t, y)
             K == [t.kid EXCEPT ![s][p] = x]
  <2>1. s \in Side
    BY DEF SideOf, Side
  <2>2. t2 = [t EXCEPT !.kid = K]
    BY <1>2 DEF Replace
  <2>3. K \in [Side -> [Link -> Link]] /\ \A m \in Link, z \in Side : K[z][m] = IF m = p /\ z = s THEN x ELSE t.kid[z][m]
    BY <2>1, Parts
  <2> HIDE DEF K
  <2>4. t2 = [root |-> t.root, kid |-> K, parent |-> t.parent, color |-> t.color,
              key |-> t.key, value |-> t.value]
    BY <2>2, Parts
  <2>5. t2 \in TreeType
    BY <2>3, <2>4, Parts DEF TreeType
  <2> QED
    BY <1>2, <2>3, <2>4, <2>5 DEF Replaced
<1> QED
  BY <1>1, <1>2

\* The node y of t given back to malloc, and a new parent for x, as Delete has them.
Freed(t, y) ==
  [t EXCEPT !.key[y] = 0, !.value[y] = 0, !.parent[y] = nil, !.color[y] = "black",
            !.kid.left[y] = nil, !.kid.right[y] = nil]

\* A new parent for x, which may be nil.
Adopted(t, x, p) == [t EXCEPT !.parent[x] = p]

\* What giving y back does to its fields.
Emptied(t, t2, y) ==
  /\ t2 \in TreeType /\ t2.root = t.root
  /\ \A m \in Link :
       /\ t2.color[m] = IF m = y THEN "black" ELSE t.color[m]
       /\ t2.key[m] = IF m = y THEN 0 ELSE t.key[m]
       /\ t2.value[m] = IF m = y THEN 0 ELSE t.value[m]
       /\ t2.parent[m] = IF m = y THEN nil ELSE t.parent[m]
       /\ \A z \in Side : t2.kid[z][m] = IF m = y THEN nil ELSE t.kid[z][m]

\* It changes no other node.
LEMMA FreeIs ==
  ASSUME NEW t \in TreeType, NEW y \in Node, NEW t2, t2 = Freed(t, y)
  PROVE  Emptied(t, t2, y)
<1>0. y \in Link /\ nil \in Link /\ 0 \in Link /\ "left" \in Side /\ "right" \in Side
  BY DEF Link, nil, Side
<1>1. t2 \in TreeType /\ t2.root = t.root
  BY <1>0, ZenonT(60) DEF Freed, TreeType
<1>2. \A m \in Link : t2.color[m] = IF m = y THEN "black" ELSE t.color[m]
  BY <1>0 DEF Freed, TreeType
<1>3. \A m \in Link : /\ t2.key[m] = IF m = y THEN 0 ELSE t.key[m]
                      /\ t2.value[m] = IF m = y THEN 0 ELSE t.value[m]
  BY <1>0 DEF Freed, TreeType
<1>4. \A m \in Link : t2.parent[m] = IF m = y THEN nil ELSE t.parent[m]
  BY <1>0 DEF Freed, TreeType
<1>5. \A m \in Link, z \in Side : t2.kid[z][m] = IF m = y THEN nil ELSE t.kid[z][m]
  BY <1>0 DEF Freed, TreeType, Side
<1> QED
  BY <1>1, <1>2, <1>3, <1>4, <1>5 DEF Emptied

\* Move changes the key and the value of n.
LEMMA MoveIs ==
  ASSUME NEW t \in TreeType, NEW n \in Node, NEW y \in Node
  PROVE  /\ Move(t, n, y) \in TreeType /\ Move(t, n, y).root = t.root
         /\ Move(t, n, y).color = t.color /\ Move(t, n, y).kid = t.kid /\ Move(t, n, y).parent = t.parent
         /\ \A m \in Link : /\ Move(t, n, y).key[m] = IF m = n THEN t.key[y] ELSE t.key[m]
                            /\ Move(t, n, y).value[m] = IF m = n THEN t.value[y] ELSE t.value[m]
<1> DEFINE t2 == Move(t, n, y)
           K == [t.key EXCEPT ![n] = t.key[y]]
           V == [t.value EXCEPT ![n] = t.value[y]]
<1>1. t2 = [t EXCEPT !.key = K, !.value = V]
  BY DEF Move
<1>2. /\ K \in [Link -> Link] /\ \A m \in Link : K[m] = IF m = n THEN t.key[y] ELSE t.key[m]
      /\ V \in [Link -> Link] /\ \A m \in Link : V[m] = IF m = n THEN t.value[y] ELSE t.value[m]
  BY Parts DEF Link
<1>a. t = [root |-> t.root, kid |-> t.kid, parent |-> t.parent, color |-> t.color,
           key |-> t.key, value |-> t.value]
  BY Parts
<1> HIDE DEF K, V, t2
<1>3. t2 = [root |-> t.root, kid |-> t.kid, parent |-> t.parent, color |-> t.color,
            key |-> K, value |-> V]
  BY <1>1, <1>a
<1>4. t2 \in TreeType
  BY <1>2, <1>3, Parts DEF TreeType
<1> QED
  BY <1>2, <1>3, <1>4 DEF t2

\* Together they are the cut that Delete makes.
LEMMA CutIs ==
  ASSUME NEW t \in TreeType, NEW n \in Node, NEW y \in Node, NEW x \in Link, x # y,
         NEW p, p = t.parent[y], p # y,
         NEW cut, cut = Replace(Adopted(t, x, p), y, p, x),
         NEW moved, moved = IF y = n THEN cut ELSE Move(cut, n, y),
         NEW t2, t2 = Freed(moved, y)
  PROVE  Cut(t, t2, n, y, x, p, SideOf(t, y))
<1> DEFINE t1 == Adopted(t, x, p)
           P == [t.parent EXCEPT ![x] = p]
           s == SideOf(t, y)
<1>0. p \in Link /\ y \in Link /\ n \in Link
  BY Parts DEF Link
<1>1. P \in [Link -> Link] /\ \A m \in Link : P[m] = IF m = x THEN p ELSE t.parent[m]
  BY <1>0, Parts
<1>2. t1 = [root |-> t.root, kid |-> t.kid, parent |-> P, color |-> t.color,
            key |-> t.key, value |-> t.value]
  <2>1. t1 = [t EXCEPT !.parent = P]
    BY DEF Adopted
  <2> HIDE DEF P, t1
  <2> QED
    BY <2>1, Parts
<1>3. cut = Replace(t1, y, p, x)
  OBVIOUS
<1> HIDE DEF P, t1
<1>4. /\ t1 \in TreeType /\ t1.root = t.root /\ t1.kid = t.kid /\ t1.color = t.color
      /\ t1.key = t.key /\ t1.value = t.value /\ t1.parent = P
  BY <1>1, <1>2, Parts DEF TreeType
<1>5. SideOf(t1, y) = s
  <2>1. t1.parent[y] = t.parent[y]
    BY <1>0, <1>1, <1>4
  <2> QED
    BY <2>1, <1>4 DEF SideOf
<1> HIDE DEF s
<1>a. Replaced(t1, cut, p, x, s)
  <2>1. Replaced(t1, cut, p, x, SideOf(t1, y))
    BY <1>0, <1>3, <1>4, ReplaceIs
  <2> QED
    BY <2>1, <1>5
<1>6. /\ cut \in TreeType /\ cut.root = IF p = nil THEN x ELSE t.root
      /\ cut.color = t.color /\ cut.key = t.key /\ cut.value = t.value /\ cut.parent = P
      /\ \A m \in Link, z \in Side :
           cut.kid[z][m] = IF p # nil /\ m = p /\ z = s THEN x ELSE t.kid[z][m]
  BY <1>4, <1>a, SMTT(30) DEF Replaced
<1>7. /\ moved \in TreeType /\ moved.root = cut.root
      /\ moved.color = cut.color /\ moved.kid = cut.kid /\ moved.parent = cut.parent
      /\ \A m \in Link : m # y => /\ moved.key[m] = IF m = n THEN cut.key[y] ELSE cut.key[m]
                                  /\ moved.value[m] = IF m = n THEN cut.value[y] ELSE cut.value[m]
  <2>1. CASE y = n
    BY <2>1, <1>6
  <2>2. CASE y # n
    BY <2>2, <1>6, MoveIs, SMTT(30)
  <2> QED
    BY <2>1, <2>2
<1>8. Emptied(moved, t2, y)
  BY <1>7, FreeIs
<1>9. ASSUME NEW m \in Link
      PROVE  /\ t2.color[m] = IF m = y THEN "black" ELSE t.color[m]
             /\ t2.key[m] = IF m = y THEN 0 ELSE IF m = n THEN t.key[y] ELSE t.key[m]
             /\ t2.value[m] = IF m = y THEN 0 ELSE IF m = n THEN t.value[y] ELSE t.value[m]
             /\ t2.parent[m] = IF m = y THEN nil ELSE IF m = x THEN p ELSE t.parent[m]
             /\ \A z \in Side : t2.kid[z][m] = IF m = y THEN nil
                                         ELSE IF p # nil /\ m = p /\ z = s THEN x ELSE t.kid[z][m]
  <2>0. /\ t2.color[m] = IF m = y THEN "black" ELSE moved.color[m]
        /\ t2.key[m] = IF m = y THEN 0 ELSE moved.key[m]
        /\ t2.value[m] = IF m = y THEN 0 ELSE moved.value[m]
        /\ t2.parent[m] = IF m = y THEN nil ELSE moved.parent[m]
        /\ \A z \in Side : t2.kid[z][m] = IF m = y THEN nil ELSE moved.kid[z][m]
    BY <1>8, ZenonT(60) DEF Emptied
  <2>a. /\ moved.color = t.color /\ moved.parent = P
        /\ m # y => /\ moved.key[m] = IF m = n THEN t.key[y] ELSE t.key[m]
                    /\ moved.value[m] = IF m = n THEN t.value[y] ELSE t.value[m]
        /\ \A z \in Side : moved.kid[z][m] = IF p # nil /\ m = p /\ z = s THEN x ELSE t.kid[z][m]
    BY <1>6, <1>7, SMTT(30)
  <2>1. t2.color[m] = IF m = y THEN "black" ELSE t.color[m]
    BY <2>0, <2>a, ZenonT(60)
  <2>2. t2.key[m] = IF m = y THEN 0 ELSE IF m = n THEN t.key[y] ELSE t.key[m]
    BY <2>0, <2>a, ZenonT(60)
  <2>3. t2.value[m] = IF m = y THEN 0 ELSE IF m = n THEN t.value[y] ELSE t.value[m]
    BY <2>0, <2>a, ZenonT(60)
  <2>4. t2.parent[m] = IF m = y THEN nil ELSE IF m = x THEN p ELSE t.parent[m]
    BY <2>0, <2>a, <1>1, Zenon
  <2>5. ASSUME NEW z \in Side
        PROVE  t2.kid[z][m] = IF m = y THEN nil ELSE IF p # nil /\ m = p /\ z = s THEN x ELSE t.kid[z][m]
    <3>1. t2.kid[z][m] = IF m = y THEN nil ELSE moved.kid[z][m]
      BY <2>0
    <3>2. moved.kid[z][m] = IF p # nil /\ m = p /\ z = s THEN x ELSE t.kid[z][m]
      BY <2>a
    <3>3. CASE m = y
      BY <3>1, <3>3
    <3>4. CASE m # y
      BY <3>1, <3>2, <3>4
    <3> QED
      BY <3>3, <3>4, SMTT(30)
  <2> QED
    BY <2>1, <2>2, <2>3, <2>4, <2>5, ZenonT(60)
<1> QED
  BY <1>6, <1>7, <1>8, <1>9, Zenon DEF Cut, s, Emptied

\* The node y that is cut out of the tree t, in which n loses its key, has no child
\* on side z; x takes the place of y under p on side s.
CutAt(t, u, n, y, z, x, p, s) ==
  /\ Shape(t, u) /\ n \in Used(t) /\ y \in Used(t) /\ z \in Side
  /\ t.kid[z][y] = nil /\ x = t.kid[Other(z)][y] /\ p = t.parent[y] /\ s = SideOf(t, y)
  /\ y # n => y \in u[t.kid["right"][n]]
              /\ \A v \in u[t.kid["right"][n]] : v # y => t.key[y] < t.key[v]

\* Then y is below no node.
CutForks(u, y) == [m \in Link |-> u[m] \ {y}]

\* The only child of y takes its place, and no other link leads to y.
LEMMA CutAtIs ==
  ASSUME NEW t, NEW u, NEW n, NEW y, NEW z, NEW x, NEW p, NEW s, CutAt(t, u, n, y, z, x, p, s),
         NEW t2, Cut(t, t2, n, y, x, p, s)
  PROVE  /\ nil \in Link /\ n \in Link /\ y \in Link /\ y # nil /\ x \in Link /\ p \in Link
         /\ x # y /\ p # y /\ (p # nil => x # p)
         /\ x \in Used(t) \cup {nil} /\ (x # nil => t.parent[x] = y /\ x # t.root)
         /\ s \in Side /\ (p = nil <=> y = t.root) /\ (p # nil => p \in Used(t) /\ t.kid[s][p] = y)
         /\ u[y] = {y} \cup u[x]
         /\ Used(t2) = Used(t) \ {y}
         /\ \A m \in Used(t) : m \in Link /\ m # nil /\ u[m] \subseteq Used(t) /\ m \in u[m]
         /\ \A m \in Used(t), w \in Side :
              /\ t.kid[w][m] \in Used(t) \cup {nil} /\ t.kid[w][m] # m
              /\ t.kid[w][m] = y => m = p /\ w = s
              /\ t.kid[w][m] = x /\ x # nil => m = y
              /\ m # y => t2.kid[w][m] = IF m = p /\ w = s THEN x ELSE t.kid[w][m]
<1>1. /\ Shape(t, u) /\ n \in Used(t) /\ y \in Used(t) /\ z \in Side
      /\ t.kid[z][y] = nil /\ x = t.kid[Other(z)][y] /\ p = t.parent[y] /\ s = SideOf(t, y)
      /\ Other(z) \in Side
  BY Sides DEF CutAt
<1>2. nil \in Link /\ n \in Link /\ y \in Link /\ y # nil
  BY <1>1, Kids DEF Link
<1>3. x \in Used(t) \cup {nil} /\ x # y /\ x \in Link
  BY <1>1, <1>2, Smaller
<1>4. x # nil => t.parent[x] = y /\ x # t.root /\ x \in Used(t)
  BY <1>1, <1>2, <1>3 DEF Shape, Links
<1>5. /\ s \in Side /\ (p = nil <=> y = t.root) /\ (p # nil => p \in Used(t) /\ t.kid[s][p] = y)
  BY <1>1, Kids
<1>6. u[y] = {y} \cup u[x]
  <2>1. u[y] = {y} \cup u[nil] \cup u[x] /\ u[nil] = {}
    BY <1>1 DEF Shape, Forks
  <2> QED
    BY <2>1
<1>7. ASSUME NEW m \in Used(t)
      PROVE  m \in Link /\ m # nil /\ m \in Node /\ u[m] \subseteq Used(t) /\ m \in u[m]
  <2>1. u[m] \subseteq Node
    BY <1>1, Kids
  <2>2. \A v \in Node : v \in u[m] => v \in Used(t)
    BY <1>1, Nested
  <2> QED
    BY <1>1, <2>1, <2>2, Kids
<1>8. p \in Link /\ p # y
  <2>1. p # nil => p # y
    BY <1>1, <1>5, <1>2, Smaller
  <2> QED
    BY <2>1, <1>2, <1>5, <1>7
<1>9. p # nil => x # p
  <2>1. ASSUME p # nil PROVE x # p
    <3>1. p \in Used(t) /\ s \in Side /\ t.kid[s][p] = y
      BY <2>1, <1>5
    <3>2. p \notin u[t.kid[s][p]]
      BY <3>1, <1>1 DEF Shape, Forks
    <3>3. x # nil => x \in u[x]
      BY <1>4, <1>7
    <3> QED
      BY <2>1, <3>1, <3>2, <3>3, <1>6
  <2> QED
    BY <2>1
<1>10. Used(t2) = Used(t) \ {y}
  <2>1. \A m \in Link : t2.key[m] = IF m = y THEN 0 ELSE IF m = n THEN t.key[y] ELSE t.key[m]
    BY DEF Cut
  <2> QED
    BY <1>1, <2>1 DEF Used, Link
<1>11. ASSUME NEW m \in Used(t), NEW w \in Side
       PROVE  /\ t.kid[w][m] \in Used(t) \cup {nil} /\ t.kid[w][m] # m
              /\ t.kid[w][m] = y => m = p /\ w = s
              /\ t.kid[w][m] = x /\ x # nil => m = y
              /\ m # y => t2.kid[w][m] = IF m = p /\ w = s THEN x ELSE t.kid[w][m]
  <2>1. t.kid[w][m] \in Used(t) \cup {nil} /\ t.kid[w][m] # m
    BY <1>1, <1>7, Smaller
  <2>2. t.kid[w][m] = y => m = p /\ w = s
    BY <1>1, Kids
  <2>3. t.kid[w][m] = x /\ x # nil => m = y
    BY <1>1, <1>4, Kids
  <2>4. m # y => t2.kid[w][m] = IF p # nil /\ m = p /\ w = s THEN x ELSE t.kid[w][m]
    BY <1>7 DEF Cut
  <2> QED
    BY <2>1, <2>2, <2>3, <2>4, <1>7
<1> QED
  BY <1>2, <1>3, <1>4, <1>5, <1>6, <1>7, <1>8, <1>9, <1>10, <1>11

\* A search tree without y, whose key is now the one of n, is a search tree: the key
\* of y is between those on both sides of n.
LEMMA CutShape ==
  ASSUME NEW t, NEW u, NEW n, NEW y, NEW z, NEW x, NEW p, NEW s, CutAt(t, u, n, y, z, x, p, s),
         NEW t2, Cut(t, t2, n, y, x, p, s)
  PROVE  Shape(t2, CutForks(u, y))
<1> DEFINE u2 == CutForks(u, y)
           e == t.kid["right"][n]
<1>1. /\ nil \in Link /\ n \in Link /\ y \in Link /\ y # nil /\ x \in Link /\ p \in Link
      /\ x # y /\ p # y /\ (p # nil => x # p)
      /\ x \in Used(t) \cup {nil} /\ (x # nil => t.parent[x] = y /\ x # t.root)
      /\ s \in Side /\ (p = nil <=> y = t.root) /\ (p # nil => p \in Used(t) /\ t.kid[s][p] = y)
      /\ u[y] = {y} \cup u[x]
      /\ Used(t2) = Used(t) \ {y}
      /\ \A m \in Used(t) : m \in Link /\ m # nil /\ u[m] \subseteq Used(t) /\ m \in u[m]
  BY CutAtIs
<1>2. \A m \in Used(t), w \in Side :
        /\ t.kid[w][m] \in Used(t) \cup {nil} /\ t.kid[w][m] # m
        /\ t.kid[w][m] = y => m = p /\ w = s
        /\ t.kid[w][m] = x /\ x # nil => m = y
        /\ m # y => t2.kid[w][m] = IF m = p /\ w = s THEN x ELSE t.kid[w][m]
  BY CutAtIs
<1>3. /\ Shape(t, u) /\ n \in Used(t) /\ y \in Used(t) /\ z \in Side
      /\ t.kid[z][y] = nil /\ x = t.kid[Other(z)][y]
      /\ y # n => y \in u[e] /\ \A v \in u[e] : v # y => t.key[y] < t.key[v]
  BY DEF CutAt
<1>4. /\ t2 \in TreeType /\ t2.root = IF p = nil THEN x ELSE t.root
      /\ \A m \in Link : /\ t2.key[m] = IF m = y THEN 0 ELSE IF m = n THEN t.key[y] ELSE t.key[m]
                         /\ t2.value[m] = IF m = y THEN 0 ELSE IF m = n THEN t.value[y] ELSE t.value[m]
                         /\ t2.parent[m] = IF m = y THEN nil ELSE IF m = x THEN p ELSE t.parent[m]
  BY DEF Cut
<1>5. /\ u \in [Link -> SUBSET Node] /\ u[nil] = {} /\ u[t.root] = Used(t)
      /\ t.root \in Used(t) \cup {nil}
  BY <1>3 DEF Shape, Links, Forks
<1>6. u2 \in [Link -> SUBSET Node] /\ \A m \in Link : u2[m] = u[m] \ {y}
  BY <1>5 DEF CutForks
<1> HIDE DEF u2, e
<1>7. ASSUME NEW m \in Used(t2), NEW w \in Side
      PROVE  u2[t2.kid[w][m]] = u[t.kid[w][m]] \ {y}
  <2>1. m \in Used(t) /\ m # y
    BY <1>1
  <2>2. CASE m = p /\ w = s
    <3>1. t2.kid[w][m] = x /\ t.kid[w][m] = y
      BY <2>1, <2>2, <1>1, <1>2
    <3> QED
      BY <3>1, <1>1, <1>6
  <2>3. CASE ~ (m = p /\ w = s)
    <3>1. t2.kid[w][m] = t.kid[w][m] /\ t.kid[w][m] \in Link
      BY <2>1, <2>3, <1>1, <1>2
    <3> QED
      BY <3>1, <1>6
  <2> QED
    BY <2>2, <2>3
<1>8. Links(t2)
  <2>1. t2.key[nil] = 0
    BY <1>1, <1>3, <1>4 DEF Shape, Links
  <2>2. t2.root \in Used(t2) \cup {nil}
    BY <1>1, <1>4, <1>5
  <2>3. ASSUME NEW m \in Link, NEW w \in Side, m \notin Used(t2) PROVE t2.kid[w][m] = nil
    <3>1. t2.kid[w][m] = IF m = y THEN nil ELSE IF p # nil /\ m = p /\ w = s THEN x ELSE t.kid[w][m]
      BY DEF Cut
    <3>2. CASE m = y
      BY <3>1, <3>2
    <3>3. CASE m # y
      <4>1. m \notin Used(t)
        BY <2>3, <3>3, <1>1
      <4>2. t.kid[w][m] = nil /\ ~ (p # nil /\ m = p)
        BY <4>1, <1>1, <1>3 DEF Shape, Links
      <4> QED
        BY <3>1, <3>3, <4>2
    <3> QED
      BY <3>2, <3>3
  <2>4. t2.root # nil => t2.parent[t2.root] = nil
    <3>1. CASE p = nil
      BY <3>1, <1>1, <1>4
    <3>2. CASE p # nil
      <4>1. t2.root = t.root /\ t.root # y
        BY <3>2, <1>1, <1>4
      <4>2. t.root # nil => t.parent[t.root] = nil /\ t.root # x /\ t.root \in Link
        BY <1>1, <1>3, <1>5 DEF Shape, Links
      <4> QED
        BY <4>1, <4>2, <1>4
    <3> QED
      BY <3>1, <3>2
  <2>5. ASSUME NEW m \in Used(t2), NEW w \in Side, t2.kid[w][m] # nil
        PROVE  t2.kid[w][m] \in Used(t2) /\ t2.parent[t2.kid[w][m]] = m
    <3>1. m \in Used(t) /\ m # y
      BY <1>1
    <3>2. CASE m = p /\ w = s
      <4>1. t2.kid[w][m] = x
        BY <3>1, <3>2, <1>2
      <4> QED
        BY <2>5, <3>2, <4>1, <1>1, <1>4
    <3>3. CASE ~ (m = p /\ w = s)
      <4>1. t2.kid[w][m] = t.kid[w][m] /\ t.kid[w][m] # y /\ t.kid[w][m] # x
        BY <2>5, <3>1, <3>3, <1>2
      <4>2. t.kid[w][m] \in Used(t) /\ t.parent[t.kid[w][m]] = m
        BY <2>5, <3>1, <4>1, <1>3 DEF Shape, Links
      <4> QED
        BY <4>1, <4>2, <1>1, <1>4
    <3> QED
      BY <3>2, <3>3
  <2>6. ASSUME NEW m \in Used(t2), m # t2.root
        PROVE  t2.parent[m] \in Used(t2) /\ \E w \in Side : t2.kid[w][t2.parent[m]] = m
    <3>1. m \in Used(t) /\ m # y /\ m \in Link /\ m # nil
      BY <1>1
    <3>2. CASE m = x
      <4>1. p # nil /\ t2.parent[m] = p
        BY <2>6, <3>1, <3>2, <1>4
      <4> QED
        BY <3>2, <4>1, <1>1, <1>2
    <3>3. CASE m # x
      <4>1. m # t.root
        BY <2>6, <3>1, <1>1, <1>4
      <4> DEFINE v == t.parent[m]
      <4>2. v \in Used(t) /\ \E w \in Side : t.kid[w][v] = m
        BY <3>1, <4>1, <1>3 DEF Shape, Links
      <4> HIDE DEF v
      <4>3. PICK w \in Side : t.kid[w][v] = m
        BY <4>2
      <4>4. t2.parent[m] = v
        BY <3>1, <3>3, <1>4 DEF v
      <4>5. v # y
        <5>1. Side = {z, Other(z)}
          BY <1>3, Sides
        <5> QED
          BY <3>1, <3>3, <4>3, <5>1, <1>3
      <4>6. t2.kid[w][v] = m
        BY <3>1, <4>2, <4>3, <4>5, <1>1, <1>2
      <4> QED
        BY <4>2, <4>4, <4>5, <4>6, <1>1
    <3> QED
      BY <3>2, <3>3
  <2> QED
    BY <2>1, <2>2, <2>3, <2>4, <2>5, <2>6 DEF Links
<1>9. Forks(t2, u2)
  <2>1. u2[t2.root] = Used(t2)
    <3>1. CASE p = nil
      BY <3>1, <1>1, <1>4, <1>5, <1>6
    <3>2. CASE p # nil
      <4>1. t2.root = t.root /\ t.root \in Link
        BY <3>2, <1>1, <1>4, <1>5
      <4> QED
        BY <4>1, <1>1, <1>5, <1>6
    <3> QED
      BY <3>1, <3>2
  <2>2. u2[nil] = {}
    BY <1>1, <1>5, <1>6
  <2>3. ASSUME NEW m \in Used(t2), NEW w \in Side
        PROVE  /\ u2[m] = {m} \cup u2[t2.kid[w][m]] \cup u2[t2.kid[Other(w)][m]]
               /\ m \notin u2[t2.kid[w][m]]
               /\ u2[t2.kid[w][m]] \cap u2[t2.kid[Other(w)][m]] = {}
    <3>1. m \in Used(t) /\ m # y /\ m \in Link /\ Other(w) \in Side
      BY <1>1, Sides
    <3> DEFINE a == u[t.kid[w][m]]
               b == u[t.kid[Other(w)][m]]
    <3>2. u[m] = {m} \cup a \cup b /\ m \notin a /\ a \cap b = {}
      BY <3>1, <1>3 DEF Shape, Forks
    <3>3. u2[t2.kid[w][m]] = a \ {y} /\ u2[t2.kid[Other(w)][m]] = b \ {y} /\ u2[m] = u[m] \ {y}
      BY <3>1, <1>6, <1>7
    <3> HIDE DEF a, b
    <3> QED
      BY <3>1, <3>2, <3>3
  <2> QED
    BY <2>1, <2>2, <2>3, <1>6 DEF Forks
<1>10. Sorted(t2, u2)
  <2>1. ASSUME NEW m \in Used(t2) PROVE t2.value[m] = t2.key[m]
    BY <1>1, <1>3, <1>4 DEF Shape, Sorted
  <2>2. ASSUME NEW m \in Used(t2), NEW w \in Side, NEW v \in u2[t2.kid[w][m]]
        PROVE  Before(w, t2.key[v], t2.key[m])
    <3>0. \A i \in Link : t.key[i] \in Int
      <4>1. \A i \in Link : t.key[i] \in Link
        BY <1>3, Parts DEF Shape
      <4> QED
        BY <4>1, Finite
    <3>1. v \in u[t.kid[w][m]] /\ v # y /\ m \in Used(t) /\ m # y /\ m \in Link
      BY <1>1, <1>7
    <3>2. v \in Used(t) /\ v \in Link
      BY <3>1, <1>1, <1>2, <1>5
    <3>3. Before(w, t.key[v], t.key[m]) /\ m \notin u[t.kid[w][m]]
      BY <3>1, <1>3 DEF Shape, Sorted, Forks
    <3>4. /\ t2.key[v] = IF v = n THEN t.key[y] ELSE t.key[v]
          /\ t2.key[m] = IF m = n THEN t.key[y] ELSE t.key[m]
      BY <3>1, <3>2, <1>4
    <3>5. CASE v # n /\ m # n
      BY <3>3, <3>4, <3>5
    <3>6. CASE m = n
      <4>1. v # n /\ y # n /\ t2.key[m] = t.key[y] /\ t2.key[v] = t.key[v]
        BY <3>1, <3>3, <3>4, <3>6
      <4>2. CASE w = "right"
        <5>1. t.key[y] < t.key[v]
          BY <3>1, <3>6, <4>1, <4>2, <1>3 DEF e
        <5> QED
          BY <3>0, <3>2, <4>1, <4>2, <5>1, <1>1 DEF Before
      <4>3. CASE w = "left"
        <5>1. Before("right", t.key[y], t.key[n])
          <6>1. "right" \in Side
            BY DEF Side
          <6> QED
            BY <4>1, <6>1, <1>3 DEF Shape, Sorted, e
        <5> QED
          BY <3>0, <3>2, <3>3, <3>6, <4>1, <4>3, <5>1, <1>1 DEF Before
      <4> QED
        BY <4>2, <4>3 DEF Side
    <3>7. CASE v = n /\ m # n
      <4>1. y # n /\ t2.key[v] = t.key[y] /\ t2.key[m] = t.key[m]
        BY <3>1, <3>4, <3>7
      <4>2. y \in u[t.kid[w][m]]
        <5>1. t.kid[w][m] \in Used(t)
          BY <3>1, <1>2, <1>5
        <5>2. n \in u[t.kid[w][m]] /\ n \in Node
          BY <3>1, <3>7, <1>3, Kids
        <5>3. u[n] \subseteq u[t.kid[w][m]]
          BY <5>1, <5>2, <1>3, Nested
        <5>4. u[e] \subseteq u[n]
          <6>1. "right" \in Side
            BY DEF Side
          <6> QED
            BY <6>1, <1>3, Smaller DEF e
        <5> QED
          BY <4>1, <5>3, <5>4, <1>3
      <4>3. Before(w, t.key[y], t.key[m])
        BY <3>1, <4>2, <1>3 DEF Shape, Sorted
      <4> QED
        BY <4>1, <4>3
    <3> QED
      BY <3>5, <3>6, <3>7
  <2> QED
    BY <2>1, <2>2 DEF Sorted
<1> QED
  BY <1>4, <1>8, <1>9, <1>10 DEF Shape, u2

\* x is where a fixup of a delete is, or would be: the root, or a child of its parent,
\* which the code asks even if x is nil.
Placed(t, x) ==
  /\ x \in Used(t) \cup {nil}
  /\ \/ x = t.root /\ (x = nil => t.parent[nil] = nil)
     \/ x # t.root /\ t.parent[x] \in Used(t) /\ t.kid[SideOf(t, x)][t.parent[x]] = x

\* If y was black, x is owed one black node; if it was red, nothing is.
LEMMA CutColors ==
  ASSUME NEW t, NEW u, NEW h, NEW n, NEW y, NEW z, NEW x, NEW p, NEW s, CutAt(t, u, n, y, z, x, p, s),
         Heights(t, h, nil, "left"), Reds(t, nil, nil),
         NEW t2, Cut(t, t2, n, y, x, p, s)
  PROVE  /\ t.color[y] = "black" => /\ Placed(t2, x) /\ Reds(t2, nil, x)
                                    /\ Heights(t2, h, t2.parent[x], SideOf(t2, x))
         /\ t.color[y] # "black" => Heights(t2, h, nil, "left") /\ Reds(t2, nil, nil)
<1>1. /\ nil \in Link /\ n \in Link /\ y \in Link /\ y # nil /\ x \in Link /\ p \in Link
      /\ x # y /\ p # y /\ (p # nil => x # p)
      /\ x \in Used(t) \cup {nil} /\ (x # nil => t.parent[x] = y /\ x # t.root)
      /\ s \in Side /\ (p = nil <=> y = t.root) /\ (p # nil => p \in Used(t) /\ t.kid[s][p] = y)
      /\ Used(t2) = Used(t) \ {y}
      /\ \A m \in Used(t) : m \in Link /\ m # nil
  BY CutAtIs
<1>2. \A m \in Used(t), w \in Side :
        /\ t.kid[w][m] \in Used(t) \cup {nil} /\ t.kid[w][m] # m
        /\ t.kid[w][m] = y => m = p /\ w = s
        /\ t.kid[w][m] = x /\ x # nil => m = y
        /\ m # y => t2.kid[w][m] = IF m = p /\ w = s THEN x ELSE t.kid[w][m]
  BY CutAtIs
<1>3. /\ Shape(t, u) /\ n \in Used(t) /\ y \in Used(t) /\ z \in Side /\ Other(z) \in Side
      /\ t.kid[z][y] = nil /\ x = t.kid[Other(z)][y]
  BY Sides DEF CutAt
<1>4. /\ t2.root = IF p = nil THEN x ELSE t.root
      /\ \A m \in Link : /\ t2.color[m] = IF m = y THEN "black" ELSE t.color[m]
                         /\ t2.parent[m] = IF m = y THEN nil ELSE IF m = x THEN p ELSE t.parent[m]
      /\ t2.parent[x] = p /\ t2.color[x] = t.color[x]
  BY <1>1 DEF Cut
<1>5. /\ h \in [Link -> Nat] /\ h[nil] = 0 /\ t.color[nil] = "black" /\ t2.color[nil] = "black"
      /\ t.color[x] \in {"red", "black"} /\ t.color[y] \in {"red", "black"}
      /\ h[x] \in Nat /\ h[y] \in Nat /\ h[p] \in Nat
  BY <1>1, <1>3, <1>4, Parts DEF Heights, Reds, Shape
<1>6. \A m \in Used(t), w \in Side : Rise(t, h, m, t.kid[w][m], FALSE)
  <2>1. \A m \in Used(t), w \in Side : Rise(t, h, m, t.kid[w][m], m = nil /\ w = "left")
    BY DEF Heights
  <2> QED
    BY <2>1, <1>1 DEF Rise
<1>7. h[y] = 1 /\ (t.color[x] = "red" => h[x] = 1) /\ (t.color[x] = "black" => h[x] = 0)
  <2>1. Rise(t, h, y, nil, FALSE) /\ Rise(t, h, y, x, FALSE)
    BY <1>3, <1>6
  <2> QED
    BY <2>1, <1>5 DEF Rise
<1>8. p # nil => /\ t.color[y] = "red" => h[p] = 1
                 /\ t.color[y] = "black" => h[p] = 2
  <2>1. p # nil => Rise(t, h, p, y, FALSE)
    BY <1>1, <1>6
  <2> QED
    BY <2>1, <1>5, <1>7 DEF Rise
<1>9. ASSUME NEW m \in Used(t2), NEW w \in Side, ~ (m = p /\ w = s)
      PROVE  Rise(t2, h, m, t2.kid[w][m], FALSE)
  <2>1. m \in Used(t) /\ m # y
    BY <1>1
  <2>2. t2.kid[w][m] = t.kid[w][m] /\ t.kid[w][m] \in Link /\ t.kid[w][m] # y
    BY <2>1, <1>1, <1>2, <1>9
  <2>3. t2.color[t.kid[w][m]] = t.color[t.kid[w][m]]
    BY <2>2, <1>4
  <2>4. Rise(t, h, m, t.kid[w][m], FALSE)
    BY <2>1, <1>6
  <2> QED
    BY <2>2, <2>3, <2>4 DEF Rise
<1>10. ASSUME NEW m \in Used(t2), t2.color[m] = "red", m # x
       PROVE  m # t2.root /\ t2.color[t2.parent[m]] = "black"
  <2>1. m \in Used(t) /\ m # y /\ m \in Link /\ m # nil
    BY <1>1
  <2>2. t.color[m] = "red" /\ t2.parent[m] = t.parent[m]
    BY <2>1, <1>4, <1>10
  <2>3. m # t.root /\ t.parent[m] \in Used(t) /\ t.color[t.parent[m]] = "black"
    <3>1. m # t.root /\ (t.color[t.parent[m]] = "black" \/ t.parent[m] = nil)
      BY <2>1, <2>2 DEF Reds
    <3>2. t.parent[m] \in Used(t)
      BY <2>1, <3>1, <1>3 DEF Shape, Links
    <3> QED
      BY <3>1, <3>2, <1>1
  <2>4. m # t2.root
    BY <2>3, <1>4, <1>10
  <2>5. t2.color[t.parent[m]] = "black"
    BY <2>3, <1>1, <1>4
  <2> QED
    BY <2>2, <2>4, <2>5
<1>11. ASSUME t.color[y] = "black"
       PROVE  Placed(t2, x) /\ Reds(t2, nil, x) /\ Heights(t2, h, t2.parent[x], SideOf(t2, x))
  <2>1. Reds(t2, nil, x)
    BY <1>5, <1>10 DEF Reds
  <2>2. CASE p = nil
    <3>1. Placed(t2, x)
      <4>1. x = nil => t2.parent[nil] = nil
        BY <2>2, <1>4
      <4> QED
        BY <2>2, <4>1, <1>1, <1>4 DEF Placed
    <3>2. ASSUME NEW m \in Used(t2), NEW w \in Side
          PROVE  Rise(t2, h, m, t2.kid[w][m], m = p /\ w = SideOf(t2, x))
      <4>1. m # p
        BY <2>2, <1>1
      <4> QED
        BY <4>1, <1>9 DEF Rise
    <3> QED
      BY <2>1, <3>1, <3>2, <1>4, <1>5 DEF Heights
  <2>3. CASE p # nil
    <3>1. p \in Used(t) /\ t.kid[s][p] = y /\ p \in Used(t2) /\ t2.kid[s][p] = x
      BY <2>3, <1>1, <1>2
    <3>2. ASSUME NEW w \in Side, w # s PROVE t2.kid[w][p] # x
      <4>1. t2.kid[w][p] = t.kid[w][p]
        BY <3>1, <3>2, <1>1, <1>2
      <4>2. CASE x # nil
        BY <3>1, <4>1, <4>2, <1>1, <1>2
      <4>3. CASE x = nil
        <5>1. Rise(t, h, p, t.kid[w][p], FALSE) /\ h[p] = 2
          BY <2>3, <3>1, <1>6, <1>8, <1>11
        <5>2. t.kid[w][p] # nil
          BY <5>1, <1>5 DEF Rise
        <5> QED
          BY <4>1, <4>3, <5>2
      <4> QED
        BY <4>2, <4>3
    <3>3. SideOf(t2, x) = s
      <4>1. t2.kid.left = t2.kid["left"]
        OBVIOUS
      <4>2. CASE s = "left"
        BY <3>1, <4>1, <4>2, <1>4 DEF SideOf
      <4>3. CASE s = "right"
        <5>1. t2.kid["left"][p] # x
          BY <3>2, <4>3 DEF Side
        <5> QED
          BY <4>1, <4>3, <5>1, <1>4 DEF SideOf
      <4> QED
        BY <4>2, <4>3, <1>1 DEF Side
    <3>4. Placed(t2, x)
      <4>1. x # t2.root
        <5>1. t2.root = t.root /\ t.root # nil
          <6>1. t.root # nil
            <7>1. t.root = nil => Used(t) = {}
              BY <1>3 DEF Shape, Forks
            <7> QED
              BY <7>1, <1>3
          <6> QED
            BY <6>1, <2>3, <1>4
        <5> QED
          BY <5>1, <1>1
      <4> QED
        BY <3>1, <3>3, <4>1, <1>1, <1>4 DEF Placed
    <3>5. Rise(t2, h, p, x, TRUE)
      BY <2>3, <1>4, <1>5, <1>7, <1>8, <1>11 DEF Rise
    <3>6. ASSUME NEW m \in Used(t2), NEW w \in Side
          PROVE  Rise(t2, h, m, t2.kid[w][m], m = p /\ w = s)
      <4>1. CASE m = p /\ w = s
        BY <3>1, <3>5, <4>1 DEF Rise
      <4>2. CASE ~ (m = p /\ w = s)
        BY <4>2, <1>9 DEF Rise
      <4> QED
        BY <4>1, <4>2
    <3>7. Heights(t2, h, p, s)
      BY <3>6, <1>5 DEF Heights
    <3> QED
      BY <2>1, <3>3, <3>4, <3>7, <1>4
  <2> QED
    BY <2>2, <2>3
<1>12. ASSUME t.color[y] # "black"
       PROVE  Heights(t2, h, nil, "left") /\ Reds(t2, nil, nil)
  <2>1. t.color[y] = "red"
    BY <1>5, <1>12
  <2>2. t.color[x] = "black"
    <3>1. CASE x = nil
      BY <3>1, <1>5
    <3>2. CASE x # nil
      <4>1. t.color[x] = "red" => t.color[y] = "black"
        BY <3>2, <1>1 DEF Reds
      <4> QED
        BY <4>1, <1>5, <1>12
    <3> QED
      BY <3>1, <3>2
  <2>3. Reds(t2, nil, nil)
    <3>1. ASSUME NEW m \in Used(t2), t2.color[m] = "red"
          PROVE  m # t2.root /\ t2.color[t2.parent[m]] = "black"
      <4>1. m # x
        BY <2>2, <3>1, <1>4
      <4> QED
        BY <3>1, <4>1, <1>10
    <3> QED
      BY <3>1, <1>5 DEF Reds
  <2>4. ASSUME NEW m \in Used(t2), NEW w \in Side
        PROVE  Rise(t2, h, m, t2.kid[w][m], m = nil /\ w = "left")
    <3>0. m # nil /\ m \in Used(t) /\ m # y
      BY <1>1
    <3>1. CASE m = p /\ w = s
      <4>1. t2.kid[w][m] = x
        BY <3>0, <3>1, <1>2
      <4>2. h[p] = 1 /\ h[x] = 0
        BY <2>1, <2>2, <3>0, <3>1, <1>7, <1>8
      <4> QED
        BY <2>2, <3>0, <3>1, <4>1, <4>2, <1>4 DEF Rise
    <3>2. CASE ~ (m = p /\ w = s)
      BY <3>0, <3>2, <1>9 DEF Rise
    <3> QED
      BY <3>1, <3>2
  <2>5. Heights(t2, h, nil, "left")
    BY <2>4, <1>5 DEF Heights
  <2> QED
    BY <2>3, <2>5
<1> QED
  BY <1>11, <1>12

-----------------------------------------------------------------------------
(* The steps.                                                              *)

\* What is true of a tree t when a call or a fixup is at r.
TreeWith(t, r, u, h) ==
  /\ Shape(t, u) /\ r \in [at : {"idle", "insert", "delete"}, x : Link]
  /\ r.at = "idle" => r.x = nil /\ Heights(t, h, nil, "left") /\ Reds(t, nil, nil)
  /\ r.at = "insert" => /\ r.x \in Used(t) /\ t.color[r.x] = "red"
                        /\ Heights(t, h, nil, "left") /\ Reds(t, r.x, nil)
  /\ r.at = "delete" => /\ Placed(t, r.x) /\ Reds(t, nil, r.x)
                        /\ Heights(t, h, t.parent[r.x], SideOf(t, r.x))

\* The same, for some subtrees u and heights h.
RBWith(t, r) == \E u, h : TreeWith(t, r, u, h)

\* The inductive invariant.  The subtrees and heights are no variables: what they are
\* follows from the tree.
RBInv == RBWith(tree, run)

\* The keys of the nodes in use.
KeysOf(t) == {t.key[n] : n \in Used(t)}

\* The empty tree has it.
LEMMA RBInit ==
  ASSUME Init
  PROVE  RBInv
<1> DEFINE u == [m \in Link |-> {}]
           h == [m \in Link |-> 0]
<1>1. /\ tree.root = nil /\ tree.kid = [s \in Side |-> [n \in Link |-> nil]]
      /\ tree.parent = [n \in Link |-> nil] /\ tree.color = [n \in Link |-> "black"]
      /\ tree.key = [n \in Link |-> 0] /\ tree.value = [n \in Link |-> 0]
      /\ run = Idle /\ nil \in Link /\ 0 \in Link
  BY DEF Init, Link, nil
<1>2. tree \in TreeType
  BY <1>1 DEF Init, TreeType, Link, nil
<1>3. Used(tree) = {}
  BY <1>1 DEF Used, Link
<1>4. u \in [Link -> SUBSET Node] /\ u[nil] = {} /\ h \in [Link -> Nat] /\ h[nil] = 0
  BY <1>1
<1> HIDE DEF u, h
<1>5. Shape(tree, u)
  BY <1>1, <1>2, <1>3, <1>4 DEF Shape, Links, Forks, Sorted
<1>6. Heights(tree, h, nil, "left") /\ Reds(tree, nil, nil)
  BY <1>1, <1>3, <1>4 DEF Heights, Reds
<1> QED
  BY <1>1, <1>5, <1>6 DEF RBInv, RBWith, TreeWith, Idle

\* Insert keeps it and adds its key.
LEMMA RBInsert ==
  ASSUME RBInv, NEW k \in Key, Insert(k)
  PROVE  RBWith(tree', run') /\ KeysOf(tree') = KeysOf(tree) \cup {k}
<1> DEFINE n == Malloc(k)
           p == Search(k).p
           s == IF tree.key[p] > k THEN "left" ELSE "right"
<1>1. PICK u, h : TreeWith(tree, run, u, h)
  BY DEF RBInv, RBWith
<1>2. /\ run.at = "idle" /\ Search(k).x = nil /\ Free # {} /\ run' = [at |-> "insert", x |-> n]
      /\ tree' = LET t == Create(n, k, p)
                 IN IF p = nil THEN [t EXCEPT !.root = n]
                    ELSE [t EXCEPT !.kid[IF t.key[p] > k THEN "left" ELSE "right"][p] = n]
  BY DEF Insert
<1>3. n \in Free
  BY <1>2, MallocIs
<1>4. n \in Node /\ n \notin Used(tree)
  BY <1>3 DEF Free, Used
<1>5. Shape(tree, u) /\ Heights(tree, h, nil, "left") /\ Reds(tree, nil, nil)
  BY <1>1, <1>2 DEF TreeWith
<1>6. SearchAt(u, k, Search(k))
  BY <1>5, SearchIs
<1> HIDE DEF n, p
<1>7. /\ p \in Used(tree) \cup {nil} /\ (p = nil => tree.root = nil)
      /\ p # nil => tree.key[p] # k /\ tree.kid[Way(k, p)][p] = nil
      /\ \A m \in Used(tree), z \in Side : p \in u[tree.kid[z][m]] => Before(z, k, tree.key[m])
  BY <1>2, <1>6 DEF SearchAt, p
<1>8. p \in Link /\ p # n /\ n \in Link
  BY <1>4, <1>7, KeyAssumption DEF Used, Link, Node, nil
<1>9. p # nil => s = Way(k, p) /\ Before(s, k, tree.key[p])
  <2>1. tree.key[p] \in Int /\ k \in Int
    <3>1. tree.key[p] \in Link
      BY <1>5, <1>8, Parts DEF Shape
    <3>2. tree.key[p] \in Int
      BY <3>1, Finite
    <3>3. k \in Int
      BY KeyAssumption
    <3> QED
      BY <3>2, <3>3
  <2> QED
    BY <2>1, <1>7 DEF Way, Before
<1>10. PlaceFor(tree, u, h, n, k, p, s)
  BY <1>4, <1>5, <1>7, <1>9 DEF PlaceFor, Side
<1>11. Grown(tree, tree', n, k, p, s)
  BY <1>2, <1>4, <1>5, <1>8, GrownIs DEF Shape
<1> HIDE DEF s
<1>12. Shape(tree', GrownForks(u, n, p))
  BY <1>10, <1>11, GrownShape
<1>13. Heights(tree', [h EXCEPT ![n] = 1], nil, "left") /\ Reds(tree', n, nil) /\ tree'.color[n] = "red"
  BY <1>10, <1>11, GrownColors
<1>14. Used(tree') = Used(tree) \cup {n} /\ \A m \in Used(tree) : m \in Link /\ m # n
  BY <1>10, <1>11, PlaceIs
<1>15. KeysOf(tree') = KeysOf(tree) \cup {k}
  <2>1. \A m \in Link : tree'.key[m] = IF m = n THEN k ELSE tree.key[m]
    BY <1>11 DEF Grown
  <2> QED
    BY <2>1, <1>8, <1>14 DEF KeysOf
<1>16. TreeWith(tree', run', GrownForks(u, n, p), [h EXCEPT ![n] = 1])
  BY <1>2, <1>8, <1>12, <1>13, <1>14 DEF TreeWith
<1> QED
  BY <1>15, <1>16 DEF RBWith

\* A turn of the fixup of an insert keeps it and the keys,
LEMMA RBInsertFixup ==
  ASSUME RBInv, InsertFixup
  PROVE  RBWith(tree', run') /\ KeysOf(tree') = KeysOf(tree)
<1> DEFINE n == run.x
           p == tree.parent[n]
           g == tree.parent[p]
           s == SideOf(tree, p)
           o == Other(s)
           uncle == tree.kid[o][g]
           inner == n = tree.kid[o][p]
           t == IF inner THEN Rotate(tree, s, p) ELSE tree
           m == IF inner THEN p ELSE n
           q == t.parent[m]
<1>1. PICK u, h : TreeWith(tree, run, u, h)
  BY SMTT(30) DEF RBInv, RBWith
<1>2. /\ run.at = "insert" /\ tree.color[p] = "red"
      /\ \/ /\ tree.color[uncle] = "red"
            /\ tree' = Paint(Paint(tree, "black", {p, uncle}), "red", {g})
            /\ run' = [run EXCEPT !.x = g]
         \/ /\ tree.color[uncle] # "red"
            /\ tree' = Rotate(Paint(Paint(t, "black", {q}), "red", {t.parent[q]}), o, t.parent[q])
            /\ run' = [run EXCEPT !.x = m]
  BY ZenonT(60) DEF InsertFixup
<1>3. run \in [at : {"idle", "insert", "delete"}, x : Link] /\ RedPair(tree, u, h, n, p, g, s)
  BY <1>1, <1>2, Zenon DEF TreeWith, RedPair
<1> HIDE DEF n, p, g, s, uncle, t, m, q
<1>4. /\ p \in Used(tree) /\ n \in Used(tree) /\ g \in Used(tree)
      /\ n \in Link /\ p \in Link /\ g \in Link /\ s \in Side /\ s = SideOf(tree, p)
  BY <1>3, RedPairIs DEF RedPair
<1>5. \A x \in Link : [run EXCEPT !.x = x] = [at |-> "insert", x |-> x]
  BY <1>2, <1>3
<1>6. ASSUME NEW x, x \in Used(tree'), x \in Link, run' = [run EXCEPT !.x = x], NEW u2, NEW h2,
             Shape(tree', u2), Heights(tree', h2, nil, "left"), Reds(tree', x, nil), tree'.color[x] = "red"
      PROVE  RBWith(tree', run')
  <2>1. run' = [at |-> "insert", x |-> x]
    BY <1>5, <1>6
  <2>2. TreeWith(tree', run', u2, h2)
    <3>1. run'.at = "insert" /\ run'.x = x /\ run' \in [at : {"idle", "insert", "delete"}, x : Link]
      <4>1. [at |-> "insert", x |-> x] \in [at : {"idle", "insert", "delete"}, x : Link]
        BY <1>6
      <4> QED
        BY <2>1, <4>1
    <3> QED
      BY <1>6, <3>1 DEF TreeWith
  <2> QED
    BY <2>2 DEF RBWith
<1>7. CASE tree.color[uncle] = "red"
  <2>1. /\ tree' = Paint(Paint(tree, "black", {p, uncle}), "red", {g})
        /\ run' = [run EXCEPT !.x = g]
    BY <1>2, <1>7
  <2>2. /\ Shape(tree', u) /\ Used(tree') = Used(tree) /\ tree'.key = tree.key
        /\ Heights(tree', Raised(h, g), nil, "left")
        /\ Reds(tree', g, nil) /\ tree'.color[g] = "red"
    <3>1. UncleRed(tree, tree', p, g, s, uncle)
      BY <2>1, <1>7 DEF uncle, UncleRed, RedAbove
    <3> QED
      BY <3>1, <1>3, InsertUncleRed
  <2>3. RBWith(tree', run')
    BY <2>1, <2>2, <1>4, <1>6
  <2> QED
    BY <2>2, <2>3 DEF KeysOf
<1>8. CASE tree.color[uncle] # "red"
  <2>1. /\ tree' = Rotate(Paint(Paint(t, "black", {q}), "red", {t.parent[q]}), o, t.parent[q])
        /\ run' = [run EXCEPT !.x = m]
    BY <1>2, <1>8
  <2>2. CASE inner
    <3> DEFINE u1 == TurnedForks(tree, u, s, p)
    <3>1. t = Rotate(tree, s, p) /\ m = p
      BY <2>2 DEF t, m
    <3>2. /\ RedPair(t, u1, h, p, n, g, s)
          /\ Used(t) = Used(tree) /\ t.key = tree.key /\ t.color = tree.color
          /\ t.kid[Other(s)][n] # p /\ t.kid[Other(s)][g] = uncle
      <4>1. InnerTurn(tree, t, n, p, s)
        BY <2>2, <3>1 DEF InnerTurn
      <4> QED
        BY <4>1, <1>3, InsertInner DEF uncle
    <3> HIDE DEF u1
    <3>3. q = n /\ t.parent[n] = g
      BY <3>1, <3>2, RedPairIs DEF q
    <3>4. /\ Shape(tree', TurnedForks(t, u1, o, g))
          /\ Used(tree') = Used(t) /\ tree'.key = t.key
          /\ Heights(tree', h, nil, "left") /\ Reds(tree', p, nil) /\ tree'.color[p] = "red"
      <4>1. tree' = Rotate(Recolored(t, n, g), Other(s), g)
        BY <2>1, <3>3 DEF Recolored
      <4>2. OuterTurn(t, tree', p, n, g, s)
        BY <3>2, <4>1, <1>8 DEF OuterTurn
      <4>3. /\ Shape(tree', TurnedForks(t, u1, Other(s), g))
            /\ Used(tree') = Used(t) /\ tree'.key = t.key
            /\ Heights(tree', h, nil, "left") /\ Reds(tree', p, nil) /\ tree'.color[p] = "red"
        BY <3>2, <4>2, InsertOuter
      <4> QED
        BY <4>3
    <3>5. RBWith(tree', run')
      BY <2>1, <3>1, <3>2, <3>4, <1>4, <1>6
    <3> QED
      BY <3>2, <3>4, <3>5 DEF KeysOf
  <2>3. CASE ~ inner
    <3>1. t = tree /\ m = n /\ q = p /\ t.parent[q] = g
      BY <2>3 DEF t, m, q, p, g
    <3>2. /\ Shape(tree', TurnedForks(tree, u, o, g))
          /\ Used(tree') = Used(tree) /\ tree'.key = tree.key
          /\ Heights(tree', h, nil, "left") /\ Reds(tree', n, nil) /\ tree'.color[n] = "red"
      <4>1. tree' = Rotate(Recolored(tree, p, g), Other(s), g)
        BY <2>1, <3>1 DEF Recolored
      <4>2. OuterTurn(tree, tree', n, p, g, s)
        BY <2>3, <4>1, <1>8 DEF OuterTurn, uncle
      <4>3. /\ Shape(tree', TurnedForks(tree, u, Other(s), g))
            /\ Used(tree') = Used(tree) /\ tree'.key = tree.key
            /\ Heights(tree', h, nil, "left") /\ Reds(tree', n, nil) /\ tree'.color[n] = "red"
        BY <1>3, <4>2, InsertOuter
      <4> QED
        BY <4>3
    <3>3. RBWith(tree', run')
      BY <2>1, <3>1, <3>2, <1>4, <1>6
    <3> QED
      BY <3>2, <3>3 DEF KeysOf
  <2> QED
    BY <2>2, <2>3
<1> QED
  BY <1>2, <1>7, <1>8

\* and so does painting the root at its end.
LEMMA RBInsertDone ==
  ASSUME RBInv, InsertDone
  PROVE  RBWith(tree', run') /\ KeysOf(tree') = KeysOf(tree)
<1> DEFINE x == run.x
<1>1. PICK u, h : TreeWith(tree, run, u, h)
  BY DEF RBInv, RBWith
<1>2. /\ run.at = "insert" /\ tree.color[tree.parent[x]] # "red"
      /\ tree' = Paint(tree, "black", {tree.root}) /\ run' = Idle
  BY DEF InsertDone
<1>3. /\ Shape(tree, u) /\ tree \in TreeType /\ Heights(tree, h, nil, "left") /\ Reds(tree, x, nil)
      /\ x \in Used(tree)
  BY <1>1, <1>2 DEF TreeWith, Shape
<1> HIDE DEF x
<1>4. /\ Repainted(tree, tree')
      /\ \A m \in Link : tree'.color[m] = IF m = tree.root THEN "black" ELSE tree.color[m]
  <2>1. /\ Repainted(tree, tree')
        /\ \A m \in Link : tree'.color[m] = IF m \in {tree.root} THEN "black" ELSE tree.color[m]
    BY <1>2, <1>3, PaintIs
  <2> QED
    BY <2>1
<1>5. Shape(tree', u) /\ Used(tree') = Used(tree)
  BY <1>3, <1>4, RepaintedShape
<1>6. \A m \in Used(tree), y \in Side : m \in Link /\ m # nil /\ tree.kid[y][m] \in Link /\ tree.kid[y][m] # tree.root
  <2> TAKE m \in Used(tree), y \in Side
  <2>1. m \in Link /\ m # nil /\ tree.kid[y][m] \in Link
    BY <1>3, Smaller
  <2>2. tree.root # nil
    BY <1>3 DEF Shape, Forks, Links
  <2>3. tree.root \in Used(tree) /\ tree.parent[tree.root] = nil
    BY <1>3, <2>2 DEF Shape, Links
  <2>4. tree.kid[y][m] # tree.root
    BY <1>3, <2>3, Kids
  <2> QED
    BY <2>1, <2>4
<1>7. tree.color \in [Link -> {"red", "black"}] /\ tree.parent \in [Link -> Link] /\ nil \in Link /\ tree.color[nil] = "black"
  BY <1>3 DEF TreeType, Link, Reds
<1>8. Heights(tree', h, nil, "left")
  <2>1. h \in [Link -> Nat] /\ h[nil] = 0
    BY <1>3 DEF Heights
  <2>2. ASSUME NEW m \in Used(tree), NEW y \in Side
        PROVE  Rise(tree', h, m, tree.kid[y][m], m = nil /\ y = "left")
    <3>1. Rise(tree, h, m, tree.kid[y][m], m = nil /\ y = "left")
      BY <1>3 DEF Heights
    <3>2. tree'.color[tree.kid[y][m]] = tree.color[tree.kid[y][m]]
      BY <1>4, <1>6
    <3> QED
      BY <3>1, <3>2 DEF Rise
  <2>3. tree'.kid = tree.kid
    BY <1>4 DEF Repainted
  <2> QED
    BY <2>1, <2>2, <2>3, <1>5 DEF Heights
<1>9. Reds(tree', nil, nil)
  <2>1. ASSUME NEW m \in Used(tree), tree'.color[m] = "red"
        PROVE  m # tree.root /\ tree'.color[tree.parent[m]] = "black"
    <3>1. m # tree.root /\ tree.color[m] = "red" /\ m \in Link /\ tree.parent[m] \in Link
      BY <2>1, <1>4, <1>6, <1>7 DEF Side
    <3>2. tree.color[tree.parent[m]] = "black"
      <4>1. CASE m = x
        BY <4>1, <3>1, <1>2, <1>7
      <4>2. CASE m # x
        <5>1. m # nil
          BY <1>6 DEF Side
        <5> QED
          BY <4>2, <5>1, <3>1, <1>3, <1>7 DEF Reds
      <4> QED
        BY <4>1, <4>2
    <3> QED
      BY <3>1, <3>2, <1>4
  <2>2. tree'.root = tree.root /\ tree'.parent = tree.parent
    BY <1>4 DEF Repainted
  <2>3. tree'.color[nil] = "black"
    BY <1>4, <1>7
  <2> QED
    BY <2>1, <2>2, <2>3, <1>5 DEF Reds
<1>10. TreeWith(tree', run', u, h)
  BY <1>2, <1>5, <1>7, <1>8, <1>9 DEF TreeWith, Idle
<1>11. tree'.key = tree.key
  BY <1>4 DEF Repainted
<1> QED
  BY <1>5, <1>10, <1>11 DEF RBWith, KeysOf

\* Delete keeps it and removes its key, though the node it cuts out may be another.
LEMMA RBDelete ==
  ASSUME RBInv, NEW k \in Key, Delete(k)
  PROVE  RBWith(tree', run') /\ KeysOf(tree') = KeysOf(tree) \ {k}
<1> DEFINE n == Search(k).x
           y == IF \E w \in Side : tree.kid[w][n] = nil THEN n ELSE Successor(n)
           x == IF tree.kid.left[y] # nil THEN tree.kid.left[y] ELSE tree.kid.right[y]
           p == tree.parent[y]
           s == SideOf(tree, y)
           z == IF tree.kid["left"][y] # nil THEN "right" ELSE "left"
           cut == Replace([tree EXCEPT !.parent[x] = p], y, p, x)
           moved == IF y = n THEN cut ELSE Move(cut, n, y)
<1>1. PICK u, h : TreeWith(tree, run, u, h)
  BY DEF RBInv, RBWith
<1>2. /\ run.at = "idle" /\ n # nil /\ tree' = Freed(moved, y)
      /\ run' = IF tree.color[y] = "black" THEN [at |-> "delete", x |-> x] ELSE Idle
  BY ZenonT(60) DEF Delete, Freed
<1>3. Shape(tree, u) /\ tree \in TreeType /\ Heights(tree, h, nil, "left") /\ Reds(tree, nil, nil)
  BY <1>1, <1>2, ZenonT(60) DEF TreeWith, Shape
<1>4. n \in Used(tree) /\ tree.key[n] = k
  BY <1>2, <1>3, SearchIs, Zenon DEF SearchAt
<1>5. cut = Replace(Adopted(tree, x, p), y, p, x)
  BY SMTT(30) DEF Adopted
<1> HIDE DEF n, cut
<1>6. /\ y \in Used(tree) /\ tree.kid[z][y] = nil /\ z \in Side /\ x = tree.kid[Other(z)][y]
      /\ y # n => y \in u[tree.kid["right"][n]]
              /\ \A v \in u[tree.kid["right"][n]] : v # y => tree.key[y] < tree.key[v]
  <2>1. CASE \E w \in Side : tree.kid[w][n] = nil
    <3>1. y = n
      BY <2>1
    <3>2. tree.kid["left"][n] = nil \/ tree.kid["right"][n] = nil
      BY <2>1 DEF Side
    <3> QED
      BY <3>1, <3>2, <1>4 DEF Side, Other
  <2>2. CASE ~ \E w \in Side : tree.kid[w][n] = nil
    <3>1. y = Mini(tree.kid["right"][n]) /\ tree.kid["right"][n] # nil /\ "right" \in Side
      BY <2>2 DEF Successor, Side
    <3>2. tree.kid["right"][n] \in Used(tree)
      BY <3>1, <1>3, <1>4, Smaller
    <3> HIDE DEF y
    <3>3. /\ y \in Used(tree) /\ y \in u[tree.kid["right"][n]] /\ tree.kid["left"][y] = nil
          /\ \A v \in u[tree.kid["right"][n]] : v # y => tree.key[y] < tree.key[v]
      BY <3>1, <3>2, <1>3, MiniIs
    <3> QED
      BY <3>3 DEF Side, Other
  <2> QED
    BY <2>1, <2>2, ZenonT(60)
<1> HIDE DEF y, x, z, moved
<1>7. CutAt(tree, u, n, y, z, x, p, s)
  BY <1>3, <1>4, <1>6 DEF CutAt
<1>8. n \in Node /\ y \in Node /\ x \in Link /\ x # y /\ p # y
  <2>1. n \in Node /\ y \in Node
    BY <1>4, <1>6 DEF Used
  <2>2. Other(z) \in Side
    BY <1>6, Sides
  <2>3. x \in Link /\ x # y
    BY <2>2, <1>3, <1>6, Smaller
  <2>4. p # y
    <3>1. CASE y = tree.root
      BY <3>1, <1>3, <1>6, Kids
    <3>2. CASE y # tree.root
      <4>1. p \in Used(tree) /\ tree.kid[s][p] = y /\ s \in Side
        BY <3>2, <1>3, <1>6, Kids
      <4> QED
        BY <4>1, <1>3, Smaller
    <3> QED
      BY <3>1, <3>2
  <2> QED
    BY <2>1, <2>3, <2>4
<1>9. Cut(tree, tree', n, y, x, p, s)
  <2>1. moved = IF y = n THEN cut ELSE Move(cut, n, y)
    BY DEF moved
  <2> QED
    BY <2>1, <1>2, <1>3, <1>5, <1>8, CutIs
<1> HIDE DEF p, s
<1>10. Shape(tree', CutForks(u, y))
  BY <1>7, <1>9, CutShape
<1>11. /\ tree.color[y] = "black" => /\ Placed(tree', x) /\ Reds(tree', nil, x)
                                     /\ Heights(tree', h, tree'.parent[x], SideOf(tree', x))
       /\ tree.color[y] # "black" => Heights(tree', h, nil, "left") /\ Reds(tree', nil, nil)
  BY <1>3, <1>7, <1>9, CutColors
<1>12. Used(tree') = Used(tree) \ {y}
  BY <1>7, <1>9, CutAtIs
<1>13. KeysOf(tree') = KeysOf(tree) \ {k}
  <2>1. \A m \in Used(tree) : m \in Link /\ m # nil
    BY <1>3, Kids
  <2>2. \A m \in Used(tree) : m # y => tree'.key[m] = IF m = n THEN tree.key[y] ELSE tree.key[m]
    BY <2>1, <1>9 DEF Cut
  <2>3. \A m \in Used(tree) : m # n => tree.key[m] # k
    BY <1>3, <1>4, Distinct
  <2>4. ASSUME NEW m \in Used(tree'), tree'.key[m] \notin KeysOf(tree) \ {k} PROVE FALSE
    <3>1. m \in Used(tree) /\ m # y
      BY <1>12
    <3>2. CASE m = n
      <4>1. tree'.key[m] = tree.key[y] /\ tree.key[y] # k
        BY <3>1, <3>2, <2>2, <2>3, <1>6
      <4> QED
        BY <4>1, <2>4, <1>6 DEF KeysOf
    <3>3. CASE m # n
      <4>1. tree'.key[m] = tree.key[m] /\ tree.key[m] # k
        BY <3>1, <3>3, <2>2, <2>3
      <4> QED
        BY <4>1, <2>4, <3>1 DEF KeysOf
    <3> QED
      BY <3>2, <3>3
  <2>5. ASSUME NEW m \in Used(tree), tree.key[m] # k PROVE tree.key[m] \in KeysOf(tree')
    <3>1. m # n
      BY <2>5, <1>4
    <3>2. CASE m = y
      <4>1. n \in Used(tree') /\ tree'.key[n] = tree.key[m]
        BY <3>1, <3>2, <2>2, <1>4, <1>12
      <4> QED
        BY <4>1 DEF KeysOf
    <3>3. CASE m # y
      <4>1. m \in Used(tree') /\ tree'.key[m] = tree.key[m]
        BY <3>1, <3>3, <2>2, <1>12
      <4> QED
        BY <4>1 DEF KeysOf
    <3> QED
      BY <3>2, <3>3
  <2>6. KeysOf(tree') \subseteq KeysOf(tree) \ {k}
    BY <2>4 DEF KeysOf
  <2>7. KeysOf(tree) \ {k} \subseteq KeysOf(tree')
    <3> SUFFICES ASSUME NEW e \in KeysOf(tree) \ {k} PROVE e \in KeysOf(tree')
      OBVIOUS
    <3>1. PICK m \in Used(tree) : e = tree.key[m]
      BY DEF KeysOf
    <3> QED
      BY <3>1, <2>5
  <2> QED
    BY <2>6, <2>7
<1>14. TreeWith(tree', run', CutForks(u, y), h)
  <2>1. nil \in Link
    BY DEF Link
  <2>2. CASE tree.color[y] = "black"
    <3>1. run' = [at |-> "delete", x |-> x]
      BY <2>2, <1>2
    <3>2. run' \in [at : {"idle", "insert", "delete"}, x : Link] /\ run'.at = "delete" /\ run'.x = x
      BY <3>1, <1>8
    <3> QED
      BY <3>2, <2>2, <1>10, <1>11 DEF TreeWith
  <2>3. CASE tree.color[y] # "black"
    <3>1. run' = [at |-> "idle", x |-> nil]
      BY <2>3, <1>2 DEF Idle
    <3>2. run' \in [at : {"idle", "insert", "delete"}, x : Link] /\ run'.at = "idle" /\ run'.x = nil
      BY <3>1, <2>1
    <3> QED
      BY <3>2, <2>3, <1>10, <1>11 DEF TreeWith
  <2> QED
    BY <2>2, <2>3
<1> QED
  BY <1>13, <1>14, SMTT(30) DEF RBWith

\* The brother c of the node n that a fixup of a delete is at, in a tree t that has
\* the nodes and keys of tree.
Brothered(t, u, h, n, p, s, c) ==
  /\ OwedAt(t, u, h, n, p, s) /\ c = t.kid[Other(s)][p] /\ t.color[c] = "black"
  /\ Used(t) = Used(tree) /\ t.key = tree.key

\* A turn of the fixup of a delete keeps the invariant and the keys: the brother is
\* made black if it is red, and then one of the three ends of the turn follows.
LEMMA RBDeleteFixup ==
  ASSUME RBInv, DeleteFixup
  PROVE  RBWith(tree', run') /\ KeysOf(tree') = KeysOf(tree)
<1> DEFINE n == run.x
           p == tree.parent[n]
           s == SideOf(tree, n)
           o == Other(s)
           b == tree.kid[o][p]
           t == IF tree.color[b] = "red"
                THEN Rotate(Paint(Paint(tree, "black", {b}), "red", {p}), s, p) ELSE tree
           c == t.kid[o][p]
           near == t.kid[s][c]
           far == t.kid[o][c]
           v == IF t.color[far] = "black"
                THEN Rotate(Paint(Paint(t, "black", {near}), "red", {c}), o, c) ELSE t
           d == v.kid[o][p]
           e == v.kid[o][d]
<1>1. PICK u, h : TreeWith(tree, run, u, h)
  BY DEF RBInv, RBWith
<1>2. /\ run.at = "delete" /\ n # tree.root /\ tree.color[n] = "black"
      /\ \/ /\ t.color[near] = "black" /\ t.color[far] = "black"
            /\ tree' = Paint(t, "red", {c})
            /\ run' = [run EXCEPT !.x = p]
         \/ /\ t.color[near] # "black" \/ t.color[far] # "black"
            /\ tree' = Rotate(Paint(Paint(v, v.color[p], {d}), "black", {p, e}), s, p)
            /\ run' = [run EXCEPT !.x = tree'.root]
  BY ZenonT(60) DEF DeleteFixup, Unfixed
<1>3. /\ run \in [at : {"idle", "insert", "delete"}, x : Link]
      /\ Shape(tree, u) /\ Placed(tree, n) /\ Reds(tree, nil, n) /\ Heights(tree, h, p, s)
  BY <1>1, <1>2, ZenonT(60) DEF TreeWith
<1> HIDE DEF n
<1>4. OwedAt(tree, u, h, n, p, s) /\ s \in Side
  <2>1. p \in Used(tree) /\ tree.kid[s][p] = n
    BY <1>2, <1>3, Zenon DEF Placed
  <2>2. s \in Side
    BY DEF SideOf, Side
  <2> QED
    BY <2>1, <2>2, <1>2, <1>3, ZenonT(60) DEF OwedAt
<1>5. \A x \in Link : [run EXCEPT !.x = x] = [at |-> "delete", x |-> x]
  <2>1. run.at = "delete" /\ run \in [at : {"idle", "insert", "delete"}, x : Link]
    BY <1>2, <1>3, Zenon
  <2> QED
    BY <2>1, SMTT(30)
<1>6. ASSUME NEW x, x \in Link, run' = [run EXCEPT !.x = x], NEW u2, NEW h2,
             Shape(tree', u2), Placed(tree', x), Reds(tree', nil, x),
             Heights(tree', h2, tree'.parent[x], SideOf(tree', x))
      PROVE  RBWith(tree', run')
  <2>1. run' = [at |-> "delete", x |-> x]
    BY <1>5, <1>6
  <2>2. run'.at = "delete" /\ run'.x = x /\ run' \in [at : {"idle", "insert", "delete"}, x : Link]
    BY <2>1, <1>6
  <2>3. TreeWith(tree', run', u2, h2)
    BY <2>2, <1>6, SMTT(30) DEF TreeWith
  <2> QED
    BY <2>3 DEF RBWith
<1> HIDE DEF p, s, b, v, e
<1>7. \E u1 : Brothered(t, u1, h, n, p, s, c)
  <2>1. CASE tree.color[b] = "red"
    <3>1. t = Rotate(Recolored(tree, b, p), s, p)
      BY <2>1 DEF Recolored
    <3> HIDE DEF t
    <3>2. BrotherRed(tree, t, p, s, b)
      BY <2>1, <3>1 DEF BrotherRed, b
    <3> DEFINE u1 == TurnedForks(tree, u, s, p)
    <3>3. /\ OwedAt(t, u1, h, n, p, s)
          /\ Used(t) = Used(tree) /\ t.key = tree.key /\ t.color[p] = "red"
      BY <3>2, <1>4, DeleteBrotherRed
    <3> HIDE DEF u1
    <3>4. c \in Used(t) /\ c # nil /\ c # n /\ t.parent[c] = p /\ p # n /\ c \in Link /\ t \in TreeType
      BY <3>3, OwedAtIs
    <3>5. t.color[c] # "red"
      BY <3>3, <3>4 DEF OwedAt, Reds
    <3>6. t.color[c] = "black"
      BY <3>4, <3>5 DEF TreeType
    <3>7. Brothered(t, u1, h, n, p, s, c)
      BY <3>3, <3>6 DEF Brothered
    <3> QED
      BY <3>7
  <2>2. CASE tree.color[b] # "red"
    <3>1. t = tree
      BY <2>2
    <3>2. c = b
      BY <3>1 DEF b
    <3> HIDE DEF t, c
    <3>3. b \in Link /\ tree \in TreeType
      BY <1>4, OwedAtIs DEF b
    <3>4. tree.color[b] = "black"
      BY <3>3, <2>2 DEF TreeType
    <3>5. Brothered(t, u, h, n, p, s, c)
      BY <3>1, <3>2, <3>4, <1>4 DEF Brothered, b
    <3> QED
      BY <3>5
  <2> QED
    BY <2>1, <2>2
<1>8. near = t.kid[s][c] /\ far = t.kid[o][c] /\ o = Other(s) /\ c = t.kid[o][p]
  BY SMTT(30)
<1>9. /\ t.color[far] = "black" => v = Rotate(Recolored(t, near, c), o, c)
      /\ t.color[far] # "black" => v = t
      /\ d = v.kid[o][p] /\ e = v.kid[o][d]
  BY Zenon DEF v, e, Recolored
<1> HIDE DEF t, c, near, far, d, o
<1>10. PICK u1 : Brothered(t, u1, h, n, p, s, c)
  BY <1>7
<1>11. /\ OwedAt(t, u1, h, n, p, s) /\ t.color[c] = "black"
       /\ Used(t) = Used(tree) /\ t.key = tree.key
  BY <1>10 DEF Brothered
<1>12. p \in Used(tree) /\ p \in Link /\ c \in Link /\ near \in Link /\ far \in Link /\ t \in TreeType
  <2>1. p \in Used(tree) /\ p \in Link /\ c \in Used(t) /\ c \in Link /\ t \in TreeType /\ o \in Side
    BY <1>8, <1>11, OwedAtIs DEF OwedAt
  <2>2. near \in Link /\ far \in Link
    BY <2>1, <1>4, <1>8, <1>11, Smaller DEF OwedAt
  <2> QED
    BY <2>1, <2>2
<1>13. CASE t.color[near] = "black" /\ t.color[far] = "black"
  <2>1. tree' = Reddened(t, c) /\ run' = [run EXCEPT !.x = p]
    BY <1>2, <1>13, SMTT(30) DEF Reddened
  <2>2. KidsBlack(t, tree', p, s, c)
    BY <2>1, <1>8, <1>11, <1>13 DEF KidsBlack
  <2>3. /\ Shape(tree', u1) /\ Used(tree') = Used(t) /\ tree'.key = t.key
        /\ Heights(tree', Pushed(h, p, c), tree'.parent[p], SideOf(tree', p)) /\ Reds(tree', nil, p)
    BY <2>2, <1>11, DeletePush
  <2>4. Placed(tree', p)
    <3>1. p \in Used(tree')
      BY <2>3, <1>11, <1>12
    <3>2. p # nil /\ (p # tree'.root => tree'.parent[p] \in Used(tree') /\ tree'.kid[SideOf(tree', p)][tree'.parent[p]] = p)
      BY <2>3, <3>1, Kids
    <3> QED
      BY <3>1, <3>2 DEF Placed
  <2>5. RBWith(tree', run')
    BY <2>1, <2>3, <2>4, <1>6, <1>12
  <2> QED
    BY <2>3, <2>5, <1>11 DEF KeysOf
<1>14. CASE t.color[near] # "black" \/ t.color[far] # "black"
  <2>1. tree' = Rotate(AsParent(v, p, d, e), s, p) /\ run' = [run EXCEPT !.x = tree'.root]
    BY <1>2, <1>14 DEF AsParent
  <2>2. \E u2 : /\ OwedAt(v, u2, h, n, p, s) /\ Used(v) = Used(t) /\ v.key = t.key
                /\ v.color[d] = "black" /\ v.color[e] = "red"
    <3>1. CASE t.color[far] = "black"
      <4>1. v = Rotate(Recolored(t, near, c), Other(s), c)
        BY <3>1, <1>8, <1>9, Zenon
      <4>2. t.color[near] = "red"
        BY <3>1, <1>12, <1>14, SMTT(30) DEF TreeType
      <4>3. NearRed(t, v, p, s, c, near)
        BY <3>1, <4>1, <4>2, <1>8 DEF NearRed
      <4> DEFINE u2 == TurnedForks(t, u1, Other(s), c)
      <4>4. /\ OwedAt(v, u2, h, n, p, s)
            /\ Used(v) = Used(t) /\ v.key = t.key
            /\ v.kid[Other(s)][p] = near /\ v.color[near] = "black"
            /\ v.kid[Other(s)][near] = c /\ v.color[c] = "red"
        BY <4>3, <1>11, DeleteNearRed, SMTT(30)
      <4> HIDE DEF u2
      <4>5. d = near /\ e = c
        BY <4>4, <1>8, <1>9
      <4> QED
        BY <4>4, <4>5, SMTT(30)
    <3>2. CASE t.color[far] # "black"
      <4>1. v = t /\ d = c /\ e = far
        BY <3>2, <1>8, <1>9
      <4>2. t.color[far] = "red"
        BY <3>2, <1>12 DEF TreeType
      <4> QED
        BY <4>1, <4>2, <1>11
    <3> QED
      BY <3>1, <3>2
  <2>3. PICK u2 : /\ OwedAt(v, u2, h, n, p, s) /\ Used(v) = Used(t) /\ v.key = t.key
                  /\ v.color[d] = "black" /\ v.color[e] = "red"
    BY <2>2, SMTT(30)
  <2>4. FarRed(v, tree', p, s, d, e)
    BY <2>1, <2>3, <1>8, <1>9 DEF FarRed
  <2> DEFINE u3 == TurnedForks(v, u2, s, p)
             h3 == Swapped(h, p, d)
  <2>5. /\ Shape(tree', u3) /\ Used(tree') = Used(v) /\ tree'.key = v.key
        /\ Heights(tree', h3, nil, "left") /\ Reds(tree', nil, tree'.root)
    BY <2>3, <2>4, DeleteLast
  <2> HIDE DEF u3, h3
  <2>6. tree'.root \in Used(tree') /\ tree'.root # nil
    <3>1. p \in Used(tree')
      BY <2>3, <2>5, <1>11, <1>12
    <3>2. tree'.root # nil
      BY <2>5, <3>1 DEF Shape, Forks
    <3> QED
      BY <2>5, <3>2 DEF Shape, Links
  <2>7. tree'.root \in Link /\ tree'.parent[tree'.root] = nil
    BY <2>5, <2>6, Kids
  <2>8. Heights(tree', h3, tree'.parent[tree'.root], SideOf(tree', tree'.root))
    <3>1. ASSUME NEW m \in Used(tree'), NEW y \in Side, NEW w
          PROVE  Rise(tree', h3, m, tree'.kid[y][m], m = nil /\ y = w)
      <4>1. m # nil
        BY <2>5, Kids
      <4>2. Rise(tree', h3, m, tree'.kid[y][m], m = nil /\ y = "left")
        BY <2>5 DEF Heights
      <4> QED
        BY <4>1, <4>2 DEF Rise
    <3> QED
      BY <3>1, <2>5, <2>7 DEF Heights
  <2>9. Placed(tree', tree'.root)
    BY <2>6 DEF Placed
  <2>10. RBWith(tree', run')
    BY <2>1, <2>5, <2>7, <2>8, <2>9, <1>6
  <2> QED
    BY <2>3, <2>5, <2>10, <1>11 DEF KeysOf
<1> QED
  BY <1>13, <1>14, SMTT(30)

\* A tree whose only change is the parent of nil.
Unparented(t, t2) ==
  /\ t2 \in TreeType /\ t2.root = t.root /\ t2.kid = t.kid /\ t2.color = t.color
  /\ t2.key = t.key /\ t2.value = t.value
  /\ \A m \in Link : m # nil => t2.parent[m] = t.parent[m]

\* That is the assignment at the end of the fixup of a delete.
LEMMA UnparentIs ==
  ASSUME NEW t \in TreeType
  PROVE  Unparented(t, [t EXCEPT !.parent[nil] = nil])
<1> DEFINE P == [t.parent EXCEPT ![nil] = nil]
           t2 == [t EXCEPT !.parent = P]
<1>1. P \in [Link -> Link] /\ \A m \in Link : m # nil => P[m] = t.parent[m]
  BY Parts DEF Link
<1> HIDE DEF P
<1>2. t2 = [root |-> t.root, kid |-> t.kid, parent |-> P, color |-> t.color,
            key |-> t.key, value |-> t.value]
  BY Parts
<1>3. t2 \in TreeType
  BY <1>1, <1>2, Parts DEF TreeType
<1>4. t2 = [t EXCEPT !.parent[nil] = nil]
  BY DEF P
<1> QED
  BY <1>1, <1>2, <1>3, <1>4 DEF Unparented

\* No search tree depends on it.
LEMMA UnparentedShape ==
  ASSUME NEW t, NEW u, Shape(t, u), NEW t2, Unparented(t, t2)
  PROVE  Shape(t2, u) /\ Used(t2) = Used(t)
<1>1. Used(t2) = Used(t)
  BY DEF Used, Unparented
<1>2. \A m \in Used(t) : m \in Link /\ m # nil /\ t2.parent[m] = t.parent[m]
  BY Kids DEF Unparented
<1>3. Links(t2)
  BY <1>1, <1>2 DEF Shape, Links, Unparented
<1>4. Forks(t2, u) /\ Sorted(t2, u)
  BY <1>1 DEF Shape, Forks, Sorted, Unparented
<1> QED
  BY <1>1, <1>3, <1>4 DEF Shape, Unparented

\* The end of a fixup of a delete keeps the invariant and the keys: painting the node
\* black pays what is owed to it.
LEMMA RBDeleteDone ==
  ASSUME RBInv, DeleteDone
  PROVE  RBWith(tree', run') /\ KeysOf(tree') = KeysOf(tree)
<1> DEFINE x == run.x
           p == tree.parent[x]
           s == SideOf(tree, x)
           t == Paint(tree, "black", {x})
<1>1. PICK u, h : TreeWith(tree, run, u, h)
  BY DEF RBInv, RBWith
<1>2. /\ run.at = "delete" /\ (x = tree.root \/ tree.color[x] # "black")
      /\ tree' = [t EXCEPT !.parent[nil] = nil] /\ run' = Idle
  BY DEF DeleteDone, Unfixed
<1>3. /\ Shape(tree, u) /\ tree \in TreeType /\ Placed(tree, x) /\ Reds(tree, nil, x)
      /\ Heights(tree, h, p, s) /\ x \in Link
  <2>1. run.at = "delete"
    BY <1>2
  <2> HIDE DEF t
  <2>2. run \in [at : {"idle", "insert", "delete"}, x : Link] /\ Shape(tree, u)
    BY <1>1 DEF TreeWith
  <2>3. Placed(tree, x) /\ Reds(tree, nil, x) /\ Heights(tree, h, p, s)
    BY <1>1, <2>1 DEF TreeWith
  <2>4. x \in Link /\ tree \in TreeType
    BY <2>2 DEF Shape
  <2> QED
    BY <2>2, <2>3, <2>4
<1> HIDE DEF x, p, s
<1>4. /\ Repainted(tree, t)
      /\ \A m \in Link : t.color[m] = IF m = x THEN "black" ELSE tree.color[m]
  <2>1. /\ Repainted(tree, t)
        /\ \A m \in Link : t.color[m] = IF m \in {x} THEN "black" ELSE tree.color[m]
    BY <1>3, PaintIs
  <2> QED
    BY <2>1
<1> HIDE DEF t
<1>5. Unparented(t, tree')
  BY <1>2, <1>4, UnparentIs DEF Repainted
<1>6. Shape(t, u) /\ Used(t) = Used(tree)
  BY <1>3, <1>4, RepaintedShape
<1>7. Shape(tree', u) /\ Used(tree') = Used(tree)
  BY <1>5, <1>6, UnparentedShape
<1>8. /\ tree'.kid = tree.kid /\ tree'.key = tree.key /\ tree'.root = tree.root
      /\ \A m \in Link : m # nil => tree'.parent[m] = tree.parent[m]
      /\ \A m \in Link : tree'.color[m] = IF m = x THEN "black" ELSE tree.color[m]
  BY <1>4, <1>5 DEF Repainted, Unparented
<1>9. /\ nil \in Link /\ tree.color[nil] = "black" /\ tree.color \in [Link -> {"red", "black"}]
      /\ tree.parent \in [Link -> Link]
      /\ \A m \in Used(tree) : m \in Link /\ m # nil
  <2>1. \A m \in Used(tree) : m \in Link /\ m # nil
    BY <1>3, Kids
  <2> QED
    BY <2>1, <1>3 DEF Link, Reds, TreeType
<1>10. Heights(tree', h, nil, "left")
  <2>1. h \in [Link -> Nat] /\ h[nil] = 0
    BY <1>3 DEF Heights
  <2>2. ASSUME NEW m \in Used(tree), NEW y \in Side
        PROVE  Rise(tree', h, m, tree.kid[y][m], FALSE)
    <3> DEFINE c == tree.kid[y][m]
    <3>1. Rise(tree, h, m, c, m = p /\ y = s) /\ c \in Link
      BY <1>3, <1>9, Smaller DEF Heights
    <3>2. CASE c = x /\ x # nil
      <4>1. x \in Used(tree)
        BY <3>2, <1>3 DEF Placed
      <4>2. m = p /\ y = s /\ x # tree.root
        BY <3>2, <4>1, <1>3, Kids DEF p, s
      <4>3. tree.color[x] = "red"
        BY <4>2, <1>2, <1>3, <1>9
      <4>4. tree'.color[x] = "black"
        BY <1>3, <1>8
      <4> QED
        BY <3>1, <3>2, <4>2, <4>3, <4>4 DEF Rise
    <3>3. CASE c # x \/ x = nil
      <4>1. ~ (m = p /\ y = s)
        <5> SUFFICES ASSUME m = p, y = s PROVE FALSE
          OBVIOUS
        <5>1. x # tree.root
          <6> SUFFICES ASSUME x = tree.root PROVE FALSE
            OBVIOUS
          <6>1. p = nil
            BY <1>3, <1>7 DEF Placed, Shape, Links, p
          <6> QED
            BY <6>1, <1>9
        <5>2. c = x
          BY <5>1, <1>3 DEF Placed, p, s
        <5>3. tree.color[x] # "black"
          BY <5>1, <1>2
        <5> QED
          BY <3>3, <5>2, <5>3, <1>9
      <4>2. tree'.color[c] = tree.color[c]
        BY <3>1, <3>3, <1>8, <1>9
      <4> QED
        BY <3>1, <4>1, <4>2 DEF Rise
    <3> QED
      BY <3>2, <3>3
  <2>3. ASSUME NEW m \in Used(tree), NEW y \in Side
        PROVE  Rise(tree', h, m, tree'.kid[y][m], m = nil /\ y = "left")
    BY <2>2, <1>8, <1>9 DEF Rise
  <2> QED
    BY <2>1, <2>3, <1>7 DEF Heights
<1>11. Reds(tree', nil, nil)
  <2>1. ASSUME NEW m \in Used(tree), tree'.color[m] = "red"
        PROVE  m # tree.root /\ tree'.color[tree.parent[m]] = "black"
    <3>1. m # x /\ tree.color[m] = "red" /\ m \in Link /\ m # nil /\ tree.parent[m] \in Link
      BY <2>1, <1>8, <1>9
    <3>2. m # tree.root /\ (tree.color[tree.parent[m]] = "black" \/ tree.parent[m] = x)
      BY <3>1, <1>3 DEF Reds
    <3> QED
      BY <3>1, <3>2, <1>8
  <2>2. tree'.color[nil] = "black"
    BY <1>8, <1>9
  <2> QED
    BY <2>1, <2>2, <1>7, <1>8, <1>9 DEF Reds
<1>12. TreeWith(tree', run', u, h)
  BY <1>2, <1>7, <1>9, <1>10, <1>11 DEF TreeWith, Idle
<1> QED
  BY <1>7, <1>8, <1>12 DEF RBWith, KeysOf

\* So the fixups keep both,
LEMMA RBLoop ==
  ASSUME RBInv, Loop
  PROVE  RBInv' /\ KeysOf(tree') = KeysOf(tree)
  BY RBInsertFixup, RBInsertDone, RBDeleteFixup, RBDeleteDone DEF Loop, RBInv

\* and every step keeps the invariant.
LEMMA RBNext ==
  ASSUME RBInv, [Next]_vars
  PROVE  RBInv'
<1>1. CASE Loop
  BY <1>1, RBLoop
<1>2. ASSUME NEW k \in Key, Insert(k) PROVE RBInv'
  BY <1>2, RBInsert DEF RBInv
<1>3. ASSUME NEW k \in Key, Delete(k) PROVE RBInv'
  BY <1>3, RBDelete DEF RBInv
<1>4. CASE UNCHANGED vars
  BY <1>4 DEF vars, RBInv
<1> QED
  BY <1>1, <1>2, <1>3, <1>4 DEF Next

-----------------------------------------------------------------------------
(* What the invariant gives.                                               *)

\* The nodes of the tree above n, and n, and the black nodes they count for.
Ancestors(u, n) == {m \in Used(tree) : n \in u[m]}

\* The black ones of them.
Blackened(u, n) == {m \in Ancestors(u, n) : tree.color[m] = "black"}

\* What a way down through n has counted when it has passed n.
Counted(u, n) ==
  Cardinality(Blackened(u, n)) + IF run.at = "delete" /\ run.x \in Ancestors(u, n) THEN 1 ELSE 0

\* The place to which a fixup of a delete owes a black node.
OwedTo(m, y) == run.at = "delete" /\ m = tree.parent[run.x] /\ y = SideOf(tree, run.x)

\* What TreeWith says of the heights, for each place a fixup may be at.
Weighed(u, h) ==
  /\ Shape(tree, u) /\ h \in [Link -> Nat] /\ h[nil] = 0 /\ tree.color[nil] = "black"
  /\ run.x \in Link /\ (run.at = "delete" => Placed(tree, run.x))
  /\ \A m \in Used(tree), y \in Side : Rise(tree, h, m, tree.kid[y][m], OwedTo(m, y))

\* It says so whatever the fixup is.
LEMMA WeighedIs ==
  ASSUME NEW u, NEW h, TreeWith(tree, run, u, h)
  PROVE  Weighed(u, h)
<1> DEFINE x == run.x
<1>1. /\ Shape(tree, u) /\ run \in [at : {"idle", "insert", "delete"}, x : Link]
      /\ run.at = "delete" => /\ Placed(tree, x) /\ Reds(tree, nil, x)
                              /\ Heights(tree, h, tree.parent[x], SideOf(tree, x))
  BY DEF TreeWith
<1>2. run.at # "delete" => Heights(tree, h, nil, "left") /\ tree.color[nil] = "black"
  BY <1>1 DEF TreeWith, Reds
<1>3. x \in Link
  BY <1>1
<1>4. \A m \in Used(tree) : m # nil
  BY <1>1, Kids
<1> HIDE DEF x
<1>5. CASE run.at = "delete"
  <2>1. Heights(tree, h, tree.parent[x], SideOf(tree, x)) /\ tree.color[nil] = "black"
    BY <1>1, <1>5 DEF Reds
  <2>2. \A m \in Used(tree), y \in Side : OwedTo(m, y) <=> m = tree.parent[x] /\ y = SideOf(tree, x)
    BY <1>5 DEF OwedTo, x
  <2>3. ASSUME NEW m \in Used(tree), NEW y \in Side
        PROVE  Rise(tree, h, m, tree.kid[y][m], OwedTo(m, y))
    <3>1. Rise(tree, h, m, tree.kid[y][m], m = tree.parent[x] /\ y = SideOf(tree, x))
      BY <2>1 DEF Heights
    <3> QED
      BY <2>2, <3>1 DEF Rise
  <2> QED
    BY <2>1, <2>3, <1>1, <1>3, <1>5 DEF Weighed, Heights, x
<1>6. CASE run.at # "delete"
  <2>1. ASSUME NEW m \in Used(tree), NEW y \in Side
        PROVE  Rise(tree, h, m, tree.kid[y][m], OwedTo(m, y))
    <3>1. Rise(tree, h, m, tree.kid[y][m], m = nil /\ y = "left")
      BY <1>2, <1>6 DEF Heights
    <3>2. ~ OwedTo(m, y) /\ m # nil
      BY <1>4, <1>6 DEF OwedTo
    <3> QED
      BY <3>1, <3>2 DEF Rise
  <2> QED
    BY <2>1, <1>1, <1>2, <1>3, <1>6 DEF Weighed, Heights, x
<1> QED
  BY <1>5, <1>6

\* Above a child is its parent, and what is above that.
LEMMA AncestorsOf ==
  ASSUME NEW u, Shape(tree, u), NEW n \in Used(tree), n # tree.root
  PROVE  /\ tree.parent[n] \in Used(tree)
         /\ Ancestors(u, n) = Ancestors(u, tree.parent[n]) \cup {n}
         /\ n \notin Ancestors(u, tree.parent[n])
<1> DEFINE q == tree.parent[n]
           s == SideOf(tree, n)
<1>1. q \in Used(tree) /\ tree.kid[s][q] = n /\ s \in Side /\ n \in u[n] /\ n \in Node /\ q \in Node
  BY Kids
<1>2. u[n] \subseteq u[q] /\ u[n] # u[q] /\ q \in u[q]
  BY <1>1, Smaller
<1>3. n \notin Ancestors(u, q)
  <2> SUFFICES ASSUME q \in u[n] PROVE FALSE
    BY DEF Ancestors
  <2>1. u[q] \subseteq u[n]
    BY <1>1, Nested
  <2> QED
    BY <2>1, <1>2
<1>4. ASSUME NEW m \in Used(tree), q \in u[m] PROVE n \in u[m]
  <2>1. u[q] \subseteq u[m]
    BY <1>1, <1>4, Nested
  <2> QED
    BY <2>1, <1>1, <1>2
<1>5. ASSUME NEW m \in Used(tree), n \in u[m], m # n PROVE q \in u[m]
  BY <1>1, <1>5, Nested
<1> HIDE DEF q
<1>6. Ancestors(u, n) = Ancestors(u, q) \cup {n}
  BY <1>1, <1>4, <1>5 DEF Ancestors
<1> QED
  BY <1>1, <1>3, <1>6 DEF q

\* From a parent to its child, what has been counted grows by what the height loses.
LEMMA CountedKid ==
  ASSUME NEW u, NEW h, Weighed(u, h), NEW n \in Used(tree), n # tree.root
  PROVE  Counted(u, n) + h[n] = Counted(u, tree.parent[n]) + h[tree.parent[n]]
<1> DEFINE q == tree.parent[n]
           s == SideOf(tree, n)
           x == run.x
<1>1. /\ q \in Used(tree)
      /\ Ancestors(u, n) = Ancestors(u, q) \cup {n} /\ n \notin Ancestors(u, q)
  BY AncestorsOf DEF Weighed
<1>2. /\ tree.kid[s][q] = n /\ s \in Side /\ n # nil /\ n \in Link /\ q \in Link
      /\ tree.color[n] \in {"red", "black"}
  <2>1. tree.kid[s][q] = n /\ s \in Side /\ n # nil /\ n \in Link
    BY Kids DEF Weighed
  <2>2. q \in Link
    BY <1>1, Kids DEF Weighed
  <2> QED
    BY <2>1, <2>2 DEF Weighed, Shape, TreeType
<1>3. OwedTo(q, s) <=> run.at = "delete" /\ n = x
  <2>1. ASSUME run.at = "delete", n = x PROVE OwedTo(q, s)
    BY <2>1 DEF OwedTo
  <2>2. ASSUME OwedTo(q, s) PROVE run.at = "delete" /\ n = x
    <3>1. run.at = "delete" /\ q = tree.parent[x] /\ s = SideOf(tree, x) /\ Placed(tree, x)
      BY <2>2 DEF OwedTo, Weighed
    <3>2. x # tree.root
      <4> SUFFICES ASSUME x = tree.root PROVE FALSE
        OBVIOUS
      <4>1. tree.parent[x] = nil
        BY <3>1 DEF Placed, Weighed, Shape, Links
      <4>2. q # nil
        BY <1>1, Kids DEF Weighed
      <4> QED
        BY <4>1, <4>2, <3>1
    <3>3. tree.kid[s][q] = x
      BY <3>1, <3>2 DEF Placed
    <3> QED
      BY <3>1, <3>3, <1>2
  <2> QED
    BY <2>1, <2>2
<1>4. Rise(tree, h, q, n, run.at = "delete" /\ n = x) /\ h[n] \in Nat /\ h[q] \in Nat
  <2>1. Rise(tree, h, q, n, OwedTo(q, s))
    BY <1>1, <1>2 DEF Weighed
  <2>2. h[n] \in Nat /\ h[q] \in Nat
    BY <1>2 DEF Weighed
  <2> QED
    BY <2>1, <2>2, <1>3 DEF Rise
<1>5. /\ IsFiniteSet(Blackened(u, q)) /\ Cardinality(Blackened(u, q)) \in Nat
      /\ n \notin Blackened(u, q)
      /\ Cardinality(Blackened(u, n)) = Cardinality(Blackened(u, q)) + IF tree.color[n] = "black" THEN 1 ELSE 0
  <2>1. IsFiniteSet(Blackened(u, q))
    <3>1. Blackened(u, q) \subseteq Node
      BY DEF Blackened, Ancestors, Used
    <3> QED
      BY <3>1, Finite, FS_Subset
  <2>2. n \notin Blackened(u, q) /\ Cardinality(Blackened(u, q)) \in Nat
    BY <2>1, <1>1, FS_CardinalityType DEF Blackened
  <2>3. CASE tree.color[n] = "black"
    <3>1. Blackened(u, n) = Blackened(u, q) \cup {n}
      BY <2>3, <1>1 DEF Blackened
    <3>2. Cardinality(Blackened(u, n)) = Cardinality(Blackened(u, q)) + 1
      BY <3>1, <2>1, <2>2, FS_AddElement
    <3> QED
      BY <3>2, <2>1, <2>2, <2>3
  <2>4. CASE tree.color[n] # "black"
    <3>1. Blackened(u, n) = Blackened(u, q)
      BY <2>4, <1>1 DEF Blackened
    <3> QED
      BY <3>1, <2>1, <2>2, <2>4
  <2> QED
    BY <2>3, <2>4
<1>6. CASE run.at = "delete" /\ n = x
  <2>1. x \in Ancestors(u, n) /\ x \notin Ancestors(u, q)
    BY <1>1, <1>6
  <2>2. Counted(u, n) = Cardinality(Blackened(u, n)) + 1 /\ Counted(u, q) = Cardinality(Blackened(u, q)) + 0
    BY <2>1, <1>6 DEF Counted
  <2>3. h[q] = h[n] + (IF tree.color[n] = "black" THEN 1 ELSE 0) + 1
    BY <1>2, <1>4, <1>6 DEF Rise
  <2> QED
    BY <2>2, <2>3, <1>4, <1>5
<1>7. CASE ~ (run.at = "delete" /\ n = x)
  <2> DEFINE more == IF run.at = "delete" /\ x \in Ancestors(u, q) THEN 1 ELSE 0
  <2>1. run.at = "delete" => (x \in Ancestors(u, n) <=> x \in Ancestors(u, q))
    BY <1>1, <1>7
  <2>2. Counted(u, n) = Cardinality(Blackened(u, n)) + more /\ Counted(u, q) = Cardinality(Blackened(u, q)) + more
    BY <2>1 DEF Counted
  <2>3. h[q] = h[n] + (IF tree.color[n] = "black" THEN 1 ELSE 0)
    BY <1>2, <1>4, <1>7 DEF Rise
  <2>4. more \in Nat
    OBVIOUS
  <2> HIDE DEF more
  <2> QED
    BY <2>2, <2>3, <2>4, <1>4, <1>5
<1> QED
  BY <1>6, <1>7

\* So their sum is the same for all nodes: from the root down, by least counterexample.
LEMMA CountedIs ==
  ASSUME NEW u, NEW h, Weighed(u, h)
  PROVE  \A n \in Used(tree) : Counted(u, n) + h[n] = Counted(u, tree.root) + h[tree.root]
<1> DEFINE W == {n \in Used(tree) : Counted(u, n) + h[n] # Counted(u, tree.root) + h[tree.root]}
<1>1. SUFFICES ASSUME W # {} PROVE FALSE
  OBVIOUS
<1>2. Measure([n \in W |-> Ancestors(u, n)], W, Node)
  <2>1. \A n \in W : Ancestors(u, n) \subseteq Node
    BY DEF Ancestors, Used
  <2> HIDE DEF W
  <2> QED
    BY <2>1, Finite DEF Measure
<1>3. HasLeast([n \in W |-> Ancestors(u, n)], W)
  BY <1>1, <1>2, LeastBy
<1>4. PICK n \in W : \A m \in W : Ancestors(u, m) \subseteq Ancestors(u, n) => Ancestors(u, m) = Ancestors(u, n)
  BY <1>3 DEF HasLeast
<1>5. n \in Used(tree) /\ n # tree.root /\ Counted(u, n) + h[n] # Counted(u, tree.root) + h[tree.root]
  OBVIOUS
<1>6. /\ tree.parent[n] \in Used(tree)
      /\ Ancestors(u, n) = Ancestors(u, tree.parent[n]) \cup {n}
      /\ n \notin Ancestors(u, tree.parent[n])
  BY <1>5, AncestorsOf DEF Weighed
<1> HIDE DEF W
<1>7. tree.parent[n] \notin W
  <2>1. /\ Ancestors(u, tree.parent[n]) \subseteq Ancestors(u, n)
        /\ Ancestors(u, tree.parent[n]) # Ancestors(u, n)
    BY <1>6
  <2> QED
    BY <2>1, <1>4
<1>8. Counted(u, tree.parent[n]) + h[tree.parent[n]] = Counted(u, tree.root) + h[tree.root]
  BY <1>6, <1>7 DEF W
<1>9. Counted(u, n) + h[n] = Counted(u, tree.parent[n]) + h[tree.parent[n]]
  BY <1>5, CountedKid
<1> QED
  BY <1>5, <1>8, <1>9

\* The nodes that the properties see are the nodes in use.
LEMMA InTreeIs ==
  ASSUME NEW u, Shape(tree, u)
  PROVE  /\ InTree = Used(tree)
         /\ \A n \in Used(tree) : Above(n) = Ancestors(u, n)
<1>1. tree.root \in Used(tree) \cup {nil} /\ u[tree.root] = Used(tree)
  BY DEF Shape, Links, Forks
<1>2. InTree = Used(tree)
  BY <1>1, BelowIs DEF InTree
<1>3. \A m \in Used(tree) : Below(m) = u[m]
  BY BelowIs
<1> QED
  BY <1>2, <1>3 DEF Above, Ancestors

\* A search tree is ordered,
LEMMA IsOrdered ==
  ASSUME NEW u, Shape(tree, u)
  PROVE  Ordered
<1>1. InTree = Used(tree)
  BY InTreeIs
<1>2. ASSUME NEW n \in Used(tree), NEW s \in Side
      PROVE  \A m \in Below(tree.kid[s][n]) : Before(s, tree.key[m], tree.key[n])
  <2>1. tree.kid[s][n] \in Used(tree) \cup {nil}
    BY Smaller
  <2>2. Below(tree.kid[s][n]) = u[tree.kid[s][n]]
    BY <2>1, BelowIs
  <2> QED
    BY <2>2 DEF Shape, Sorted
<1>3. \A n \in Used(tree) : tree.value[n] = tree.key[n]
  BY DEF Shape, Sorted
<1>4. "left" \in Side /\ "right" \in Side
  BY DEF Side
<1>5. \A n \in Used(tree) : /\ \A m \in Below(tree.kid["left"][n]) : Before("left", tree.key[m], tree.key[n])
                            /\ \A m \in Below(tree.kid["right"][n]) : Before("right", tree.key[m], tree.key[n])
  BY <1>2, <1>4
<1> QED
  BY <1>1, <1>3, <1>5 DEF Ordered, Before

\* and linked.
LEMMA IsLinked ==
  ASSUME NEW u, Shape(tree, u)
  PROVE  Linked
<1>1. InTree = Used(tree)
  BY InTreeIs
<1> QED
  BY <1>1 DEF Linked, Shape, Links

\* The colors of the invariant are those RedApart wants.
LEMMA IsRedApart ==
  ASSUME NEW u, NEW h, TreeWith(tree, run, u, h)
  PROVE  RedApart
<1> DEFINE x == run.x
           ins == IF run.at = "insert" THEN x ELSE nil
           del == IF run.at = "delete" THEN x ELSE nil
<1>1. Shape(tree, u) /\ run.at \in {"idle", "insert", "delete"}
  BY DEF TreeWith
<1>2. Reds(tree, ins, del)
  BY <1>1 DEF TreeWith
<1>3. InTree = Used(tree)
  BY <1>1, InTreeIs
<1>4. \A n \in Used(tree) : /\ n # nil /\ tree.color[n] \in {"red", "black"}
                            /\ n # tree.root => tree.parent[n] # nil
  <2> TAKE n \in Used(tree)
  <2>1. n # nil /\ n \in Link /\ (n # tree.root => tree.parent[n] # nil)
    BY <1>1, Kids
  <2> QED
    BY <2>1, <1>1 DEF Shape, TreeType
<1>5. tree.color[nil] = "black"
  BY <1>2 DEF Reds
<1>6. ASSUME NEW n \in Used(tree), tree.color[n] # "black", ~ (run.at = "delete" /\ n = x),
             ~ (run.at = "insert" /\ n = x)
      PROVE  /\ n # tree.root
             /\ tree.color[tree.parent[n]] = "black" \/ (run.at = "delete" /\ tree.parent[n] = x)
  <2>1. tree.color[n] = "red" /\ n # ins /\ n # del
    BY <1>4, <1>6
  <2>2. n # tree.root /\ (tree.color[tree.parent[n]] = "black" \/ tree.parent[n] = del)
    BY <2>1, <1>2 DEF Reds
  <2> QED
    BY <2>2, <1>4
<1> QED
  BY <1>3, <1>5, <1>6 DEF RedApart

\* What CountedIs says is the same for all nodes.
Total(u, h) == Counted(u, tree.root) + h[tree.root]

\* At a missing child the height has come down to one, and what is owed to it.
LEMMA BlacksAre ==
  ASSUME NEW u, NEW h, Weighed(u, h), NEW n \in Used(tree), NEW s \in Side, tree.kid[s][n] = nil
  PROVE  Blacks(n, s) = Total(u, h) - 1
<1> DEFINE x == run.x
           here == run.at = "delete" /\ x \in Ancestors(u, n)
           end == run.at = "delete" /\ x = nil /\ tree.parent[nil] = n /\ s = SideOf(tree, nil)
<1>1. Shape(tree, u) /\ n # nil /\ n \in Link /\ h[n] \in Nat
  <2>1. n # nil /\ n \in Link
    BY Kids DEF Weighed
  <2> QED
    BY <2>1 DEF Weighed
<1>2. Blacks(n, s) = Cardinality(Blackened(u, n)) + IF here \/ end THEN 1 ELSE 0
  <2>1. Above(n) = Ancestors(u, n)
    BY <1>1, InTreeIs
  <2> QED
    BY <2>1 DEF Blacks, Blackened
<1>3. Counted(u, n) = Cardinality(Blackened(u, n)) + IF here THEN 1 ELSE 0
  BY DEF Counted
<1>4. OwedTo(n, s) <=> end
  <2>1. ASSUME end PROVE OwedTo(n, s)
    BY <2>1 DEF OwedTo
  <2>2. ASSUME OwedTo(n, s) PROVE end
    <3>1. run.at = "delete" /\ n = tree.parent[x] /\ s = SideOf(tree, x) /\ Placed(tree, x)
      BY <2>2 DEF OwedTo, Weighed
    <3>2. x # tree.root
      <4> SUFFICES ASSUME x = tree.root PROVE FALSE
        OBVIOUS
      <4>1. tree.parent[x] = nil
        BY <3>1, <1>1 DEF Placed, Shape, Links
      <4> QED
        BY <4>1, <3>1, <1>1
    <3>3. tree.kid[s][n] = x
      BY <3>1, <3>2 DEF Placed
    <3> QED
      BY <3>1, <3>3
  <2> QED
    BY <2>1, <2>2
<1>5. h[n] = 1 + IF end THEN 1 ELSE 0
  <2>1. Rise(tree, h, n, nil, OwedTo(n, s)) /\ h[nil] = 0 /\ tree.color[nil] = "black"
    BY DEF Weighed
  <2> QED
    BY <2>1, <1>4 DEF Rise
<1>6. ~ (here /\ end)
  <2> SUFFICES ASSUME nil \in Ancestors(u, n) PROVE FALSE
    OBVIOUS
  <2> QED
    BY Finite DEF Ancestors, Used
<1>7. Cardinality(Blackened(u, n)) \in Nat
  <2>1. Blackened(u, n) \subseteq Node
    BY DEF Blackened, Ancestors, Used
  <2> QED
    BY <2>1, Finite, FS_Subset, FS_CardinalityType
<1>8. Counted(u, n) + h[n] = Total(u, h)
  BY CountedIs DEF Total
<1> HIDE DEF here, end
<1> DEFINE C == Cardinality(Blackened(u, n))
           a == IF here THEN 1 ELSE 0
           b == IF end THEN 1 ELSE 0
<1>9. Blacks(n, s) = C + (a + b)
  BY <1>2, <1>6
<1>10. (C + a) + (1 + b) = Total(u, h) /\ a \in Nat /\ b \in Nat /\ C \in Nat
  BY <1>3, <1>5, <1>7, <1>8
<1> HIDE DEF C, a, b
<1> QED
  BY <1>9, <1>10

\* So the ways down have as many black nodes.
LEMMA IsSameHeight ==
  ASSUME NEW u, NEW h, Weighed(u, h)
  PROVE  SameHeight
<1> DEFINE ends == {e \in InTree \X Side : tree.kid[e[2]][e[1]] = nil}
           B == {Blacks(e[1], e[2]) : e \in ends}
           H == Total(u, h) - 1
<1>1. InTree = Used(tree)
  BY InTreeIs DEF Weighed
<1>2. \A e \in ends : Blacks(e[1], e[2]) = H
  <2> TAKE e \in ends
  <2>1. e[1] \in Used(tree) /\ e[2] \in Side /\ tree.kid[e[2]][e[1]] = nil
    BY <1>1
  <2> QED
    BY <2>1, BlacksAre
<1> HIDE DEF ends, H
<1>3. B \subseteq {H}
  BY <1>2
<1> HIDE DEF B
<1>4. Cardinality(B) <= 1
  <2>1. IsFiniteSet({H}) /\ Cardinality({H}) = 1
    BY FS_Singleton
  <2> QED
    BY <1>3, <2>1, FS_Subset
<1> QED
  BY <1>4 DEF SameHeight, B, ends

\* In a search tree the search finds the keys of the tree and no other.
LEMMA IsFindable ==
  ASSUME NEW u, Shape(tree, u)
  PROVE  Findable
<1>1. InTree = Used(tree)
  BY InTreeIs
<1>2. ASSUME NEW k \in Key PROVE Search(k).x # nil <=> k \in Keys
  <2>1. SearchAt(u, k, Search(k)) /\ (Search(k).x = nil \/ tree.key[Search(k).x] = k)
    BY SearchIs
  <2>2. ASSUME Search(k).x # nil PROVE k \in Keys
    BY <1>1, <2>1, <2>2 DEF SearchAt, Keys
  <2>3. ASSUME k \in Keys PROVE Search(k).x # nil
    <3>1. PICK v \in Used(tree) : tree.key[v] = k
      BY <1>1, <2>3 DEF Keys
    <3>2. v \in u[Search(k).x]
      BY <2>1, <3>1 DEF SearchAt
    <3> QED
      BY <3>2 DEF Shape, Forks
  <2> QED
    BY <2>2, <2>3
<1> QED
  BY <1>2 DEF Findable

\* The invariant has all that Balanced asks.
LEMMA BalancedIs ==
  ASSUME RBInv
  PROVE  Balanced
<1>1. PICK u, h : TreeWith(tree, run, u, h)
  BY DEF RBInv, RBWith
<1>2. Shape(tree, u)
  BY <1>1 DEF TreeWith
<1>3. Weighed(u, h)
  BY <1>1, WeighedIs
<1>4. SameHeight
  BY <1>3, IsSameHeight
<1>5. RedApart
  BY <1>1, IsRedApart
<1> QED
  BY <1>2, <1>4, <1>5, IsOrdered, IsLinked, IsFindable DEF Balanced

\* The keys that the properties see are those of the nodes in use.
KeysAgree == Keys = KeysOf(tree)

\* The invariant gives that.
LEMMA KeysIs ==
  ASSUME RBInv
  PROVE  KeysAgree
<1>1. PICK u, h : TreeWith(tree, run, u, h)
  BY DEF RBInv, RBWith
<1>2. InTree = Used(tree)
  BY <1>1, InTreeIs DEF TreeWith
<1> QED
  BY <1>2 DEF KeysAgree, Keys, KeysOf

\* The invariant holds between the calls and at every turn of a fixup, for any keys.
THEOREM RBAlways == Spec => []RBInv
<1>1. Init => RBInv
  BY RBInit
<1>2. RBInv /\ [Next]_vars => RBInv'
  BY RBNext
<1> QED
  BY <1>1, <1>2, PTL DEF Spec

\* After any inserts and deletes of any keys, and at every turn of the fixups, the tree
\* is ordered and linked, the searches find its keys, no red node but the one the fixup is
\* at has a red parent, and all ways down have as many black nodes.
THEOREM TreeIsBalanced == Spec => []Balanced
<1>1. RBInv => Balanced
  BY BalancedIs
<1> QED
  BY <1>1, RBAlways, PTL

\* A call inserts or deletes its own key and no other one, and no fixup loses one.
THEOREM TreeKeepsKeys == Spec => KeysKept
<1>1. RBInv => KeysAgree
  BY KeysIs
<1>2. RBInv /\ KeysAgree /\ KeysAgree' /\ [Next]_vars
        => [ /\ \A k \in Key : Insert(k) => Keys' = Keys \cup {k}
             /\ \A k \in Key : Delete(k) => Keys' = Keys \ {k}
             /\ Loop => Keys' = Keys ]_vars
  <2> SUFFICES ASSUME RBInv, KeysAgree, KeysAgree'
               PROVE  /\ \A k \in Key : Insert(k) => Keys' = Keys \cup {k}
                      /\ \A k \in Key : Delete(k) => Keys' = Keys \ {k}
                      /\ Loop => Keys' = Keys
    OBVIOUS
  <2>1. Keys = KeysOf(tree) /\ Keys' = KeysOf(tree')
    BY DEF KeysAgree, KeysOf, Used
  <2>2. \A k \in Key : Insert(k) => KeysOf(tree') = KeysOf(tree) \cup {k}
    BY RBInsert
  <2>3. \A k \in Key : Delete(k) => KeysOf(tree') = KeysOf(tree) \ {k}
    BY RBDelete
  <2>4. Loop => KeysOf(tree') = KeysOf(tree)
    BY RBLoop
  <2> QED
    BY <2>1, <2>2, <2>3, <2>4
<1> QED
  BY <1>1, <1>2, RBAlways, PTL DEF Spec, KeysKept
=============================================================================
