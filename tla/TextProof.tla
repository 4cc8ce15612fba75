------------------------------ MODULE TextProof -----------------------------
(***************************************************************************)
(* The textbook functions compute what they should for all sequences of    *)
(* numbers.  Each function is a loop: Step is one turn of its body, Start  *)
(* the state it starts from, Loop the states it goes through and States    *)
(* the invariant that a turn keeps.                                        *)
(***************************************************************************)
EXTENDS TextSafety, TLAPS, FiniteSetTheorems, WellFoundedInduction

-----------------------------------------------------------------------------
(* Loops, and what sequences and sets of numbers are.                      *)

\* A set of subsets of a finite set that is not empty has one that contains no other.
LEMMA LeastSet ==
  ASSUME NEW B, IsFiniteSet(B), NEW F, F \subseteq SUBSET B, F # {}
  PROVE  \E S \in F : \A T \in F : T \subseteq S => T = S
<1>1. IsWellFoundedOn(StrictSubsetOrdering(B), FiniteSubsetsOf(B))
  BY FS_StrictSubsetOrderingWellFounded
<1>2. F \subseteq FiniteSubsetsOf(B)
  BY FS_FiniteSubsetsOfFinite
<1>3. PICK S \in F : \A T \in F : ~ (<<T, S>> \in StrictSubsetOrdering(B))
  BY <1>1, <1>2, WFMin
<1>4. \A T \in F : T \subseteq S => T = S
  BY <1>3 DEF StrictSubsetOrdering
<1> QED
  BY <1>4

\* M gives each element of W a subset of the finite set B.
Measure(M, W, B) == M \in [W -> SUBSET B] /\ IsFiniteSet(B)

\* Some element of W has a measure that is above no other one.
HasLeast(M, W) == \E w \in W : \A v \in W : M[v] \subseteq M[w] => M[v] = M[w]

\* With a measure, W has such an element if it has any: the counterexample that an
\* induction looks at.
LEMMA LeastBy ==
  ASSUME NEW B, NEW W, W # {}, NEW M, Measure(M, W, B)
  PROVE  HasLeast(M, W)
<1> DEFINE F == {M[w] : w \in W}
<1>1. F \subseteq SUBSET B /\ F # {} /\ IsFiniteSet(B)
  BY DEF Measure
<1> HIDE DEF F
<1>2. PICK S \in F : \A T \in F : T \subseteq S => T = S
  BY <1>1, LeastSet
<1>3. PICK w \in W : S = M[w]
  BY DEF F
<1>4. \A v \in W : M[v] \in F
  BY DEF F
<1> QED
  BY <1>2, <1>3, <1>4 DEF HasLeast

\* The same for numbers up to N.
LEMMA LeastNumber ==
  ASSUME NEW N \in Nat, NEW W, W \subseteq 0..N, W # {}
  PROVE  \E n \in W : \A m \in W : n <= m
<1> DEFINE M == [n \in W |-> 0..n]
<1>2. Measure(M, W, 0..N)
  BY FS_Interval DEF Measure
<1>3. \A n, m \in W : M[m] = 0..m /\ (M[n] = 0..n)
  OBVIOUS
<1> HIDE DEF M
<1>1. \A n \in W : n \in 0..N
  OBVIOUS
<1>0. HasLeast(M, W)
  BY <1>2, LeastBy
<1>4. PICK n \in W : \A m \in W : M[m] \subseteq M[n] => M[m] = M[n]
  BY <1>0, <1>1 DEF HasLeast
<1>5. ASSUME NEW m \in W, ~ (n <= m) PROVE FALSE
  <2>1. m \in Nat /\ n \in Nat /\ M[m] = 0..m /\ M[n] = 0..n
    BY <1>3
  <2>3. 0..m \subseteq 0..n
    BY <2>1, <1>5
  <2>4. 0..m = 0..n
    BY <1>4, <2>1, <2>3
  <2>2. n \in 0..m
    BY <2>1, <2>4
  <2> QED
    BY <2>1, <2>2, <1>5
<1> QED
  BY <1>5

\* f is the sequence of values of a loop with body G: what a recursive function on
\* 0..N such as the one in Search stands for.
Turns(N, D, G, f) ==
  /\ N \in Nat /\ G \in [D -> D] /\ f \in [0..N -> D]
  /\ \A d \in 1..N : f[d] = G[f[d - 1]]

\* The recursive function is there: it has a value for each of its arguments.
LEMMA LoopExists ==
  ASSUME NEW N \in Nat, NEW D, NEW w \in D, NEW G \in [D -> D]
  PROVE  \E f : Turns(N, D, G, f) /\ f[0] = w
<1> DEFINE Runs(n, f) == f \in [0..n -> D] /\ f[0] = w /\ \A d \in 1..n : f[d] = G[f[d - 1]]
           W == {n \in 0..N : ~ \E f : Runs(n, f)}
<1>1. SUFFICES ASSUME W # {} PROVE FALSE
  <2>1. N \notin W
    BY <1>1
  <2>2. \E f : Runs(N, f)
    BY <2>1
  <2> QED
    BY <2>2 DEF Turns
<1>2. W \subseteq 0..N
  OBVIOUS
<1> HIDE DEF W
<1>3. PICK n \in W : \A m \in W : n <= m
  BY <1>1, <1>2, LeastNumber
<1>4. n \in 0..N /\ ~ \E f : Runs(n, f)
  BY DEF W
<1>5. CASE n = 0
  <2>1. Runs(0, [d \in 0..0 |-> w])
    OBVIOUS
  <2> QED
    BY <2>1, <1>4, <1>5
<1>6. CASE n # 0
  <2>1. n - 1 \in 0..N /\ n - 1 \notin W
    BY <1>3, <1>4, <1>6
  <2>2. PICK f : Runs(n - 1, f)
    BY <2>1 DEF W
  <2> DEFINE g == [d \in 0..n |-> IF d = n THEN G[f[n - 1]] ELSE f[d]]
  <2>3. \A d \in 0..n : d # n => d \in 0..(n - 1)
    BY <1>4
  <2>4. n - 1 \in 0..(n - 1) /\ f[n - 1] \in D
    BY <1>4, <1>6, <2>2
  <2>5. g \in [0..n -> D]
    BY <2>2, <2>3, <2>4
  <2>6. g[0] = w
    BY <1>4, <1>6, <2>2
  <2>7. ASSUME NEW d \in 1..n PROVE g[d] = G[g[d - 1]]
    <3>1. d - 1 \in 0..n /\ d - 1 # n /\ d \in 0..n
      BY <1>4
    <3>2. g[d - 1] = f[d - 1]
      BY <3>1
    <3>3. CASE d = n
      BY <3>1, <3>2, <3>3
    <3>4. CASE d # n
      BY <3>1, <3>2, <3>4, <2>2, <1>4
    <3> QED
      BY <3>3, <3>4
  <2>8. Runs(n, g)
    BY <2>5, <2>6, <2>7
  <2> QED
    BY <2>8, <1>4
<1> QED
  BY <1>5, <1>6

\* g does the same turns, wherever it is.
Follows(N, D, G, g) == \A d \in 1..N : g[d - 1] \in D => g[d] = G[g[d - 1]]

\* Two loops that start alike end alike, so the function that CHOOSE picks is this one.
LEMMA LoopUnique ==
  ASSUME NEW N, NEW D, NEW G, NEW f, Turns(N, D, G, f),
         NEW g, Follows(N, D, G, g), g[0] = f[0]
  PROVE  g[N] = f[N]
<1> DEFINE W == {d \in 0..N : g[d] # f[d]}
<1>0. N \in Nat /\ f \in [0..N -> D] /\ \A d \in 1..N : f[d] = G[f[d - 1]]
  BY DEF Turns
<1>1. W = {}
  <2>1. SUFFICES ASSUME W # {} PROVE FALSE
    OBVIOUS
  <2>2. W \subseteq 0..N
    OBVIOUS
  <2>3. PICK d \in W : \A e \in W : d <= e
    <3> HIDE DEF W
    <3> QED
      BY <1>0, <2>1, <2>2, LeastNumber
  <2>4. d \in 0..N /\ g[d] # f[d]
    OBVIOUS
  <2>5. d \in 1..N /\ d - 1 \in 0..N /\ ~ (d <= d - 1)
    BY <1>0, <2>4
  <2>6. g[d - 1] = f[d - 1]
    BY <2>3, <2>5
  <2>7. f[d - 1] \in D
    BY <1>0, <2>5
  <2> QED
    BY <1>0, <2>4, <2>5, <2>6, <2>7 DEF Follows
<1>2. N \in 0..N
  BY <1>0
<1> QED
  BY <1>1, <1>2

\* A loop that makes the number M less at every turn has ended after N turns.
LEMMA LoopStops ==
  ASSUME NEW N, NEW D, NEW G, NEW f, Turns(N, D, G, f), NEW M, M \in [D -> Nat], M[f[0]] <= N,
         \A w \in D : G[w] = w \/ M[G[w]] < M[w]
  PROVE  f[N] \in D /\ G[f[N]] = f[N]
<1> DEFINE Goes(d) == G[f[d]] = f[d] \/ M[f[d]] <= N - d
           W == {d \in 0..N : ~ Goes(d)}
<1>1. N \in Nat /\ G \in [D -> D] /\ f \in [0..N -> D] /\ \A d \in 1..N : f[d] = G[f[d - 1]]
  BY DEF Turns
<1>2. ASSUME NEW d \in 1..N, Goes(d - 1) PROVE Goes(d)
  <2>1. d - 1 \in 0..N /\ d \in 0..N
    BY <1>1
  <2>2. f[d - 1] \in D /\ f[d] \in D /\ f[d] = G[f[d - 1]]
    BY <1>1, <2>1
  <2>3. M[f[d - 1]] \in Nat /\ M[f[d]] \in Nat
    BY <2>2
  <2> QED
    BY <1>1, <1>2, <2>2, <2>3
<1>3. W = {}
  <2> SUFFICES ASSUME W # {} PROVE FALSE
    OBVIOUS
  <2>1. W \subseteq 0..N
    OBVIOUS
  <2> HIDE DEF Goes
  <2>2. PICK d \in W : \A e \in W : d <= e
    <3> HIDE DEF W
    <3> QED
      BY <1>1, <2>1, LeastNumber
  <2>3. d \in 0..N /\ ~ Goes(d)
    OBVIOUS
  <2>4. d # 0
    <3>1. Goes(0)
      BY <1>1 DEF Goes
    <3> QED
      BY <2>3, <3>1
  <2>5. d \in 1..N /\ d - 1 \in 0..N /\ ~ (d <= d - 1)
    BY <1>1, <2>3, <2>4
  <2>6. Goes(d - 1)
    BY <2>2, <2>5
  <2> QED
    BY <2>3, <2>5, <2>6, <1>2
<1>4. N \in 0..N /\ f[N] \in D
  BY <1>1
<1>5. Goes(N)
  BY <1>3, <1>4
<1>6. M[f[N]] \in Nat /\ M[G[f[N]]] \in Nat
  BY <1>1, <1>4
<1> QED
  BY <1>1, <1>4, <1>5, <1>6

\* What a sequence of numbers is, for the provers.
LEMMA Numbers ==
  ASSUME NEW s \in Seq(Element)
  PROVE  /\ Len(s) \in Nat /\ DOMAIN s = 1..Len(s)
         /\ \A k \in 1..Len(s) : s[k] \in Element /\ s[k] \in Int
<1>1. Len(s) \in Nat /\ DOMAIN s = 1..Len(s) /\ \A k \in 1..Len(s) : s[k] \in Element
  OBVIOUS
<1> QED
  BY <1>1, ElementAssumption

\* A sequence after an assignment to one of its elements.
LEMMA Assigned ==
  ASSUME NEW s \in Seq(Element), NEW i \in 1..Len(s), NEW x \in Element
  PROVE  LET r == [s EXCEPT ![i] = x] IN
         /\ r \in Seq(Element) /\ Len(r) = Len(s)
         /\ \A k \in 1..Len(s) : r[k] = IF k = i THEN x ELSE s[k]
  OBVIOUS

\* f is a loop that starts with w, and so does every g that follows it, and both end alike.
EndsAs(n, D, G, w, f) ==
  /\ f \in [0..n -> D] /\ f[0] = w /\ \A d \in 1..n : f[d] = G[f[d - 1]]
  /\ f[n] \in D /\ G[f[n]] = f[n]
  /\ \A g : Follows(n, D, G, g) /\ g[0] = w => g[n] = f[n]

\* A loop with states D and turns G that makes M less at every turn: what it ends with.
LEMMA LoopRule ==
  ASSUME NEW n \in Nat, NEW D, NEW G, G \in [D -> D], NEW w, w \in D,
         NEW M, M \in [D -> Nat], M[w] <= n, \A v \in D : G[v] = v \/ M[G[v]] < M[v]
  PROVE  \E f : EndsAs(n, D, G, w, f)
<1>1. PICK f : Turns(n, D, G, f) /\ f[0] = w
  BY LoopExists
<1>2. f[n] \in D /\ G[f[n]] = f[n]
  BY <1>1, LoopStops
<1>3. \A g : Follows(n, D, G, g) /\ g[0] = w => g[n] = f[n]
  BY <1>1, LoopUnique
<1> QED
  BY <1>1, <1>2, <1>3 DEF Turns, EndsAs

\* The greatest element of a set of numbers.
LEMMA MaxIs ==
  ASSUME NEW n \in Nat, NEW S, S \subseteq 0..n, S # {}
  PROVE  Max(S) \in S /\ \A k \in S : k <= Max(S)
<1> DEFINE W == {m \in 0..n : n - m \in S}
<1>1. W # {}
  <2>1. PICK k \in S : k \in 0..n
    OBVIOUS
  <2>2. n - k \in 0..n /\ n - (n - k) = k
    BY <2>1
  <2> QED
    BY <2>1, <2>2
<1>2. PICK m \in W : \A k \in W : m <= k
  <2> W \subseteq 0..n
    OBVIOUS
  <2> HIDE DEF W
  <2> QED
    BY <1>1, LeastNumber
<1>3. n - m \in S /\ \A k \in S : n - m >= k
  <2>1. \A k \in S : n - k \in W /\ k \in 0..n
    OBVIOUS
  <2> QED
    BY <1>2, <2>1
<1>4. Max(S) \in S /\ \A k \in S : Max(S) >= k
  BY <1>3 DEF Max
<1>5. \A k \in S : k \in Int
  OBVIOUS
<1> HIDE DEF W
<1> QED
  BY <1>4, <1>5

\* The greater of two numbers.
LEMMA MaxOfTwo ==
  ASSUME NEW x \in Int, NEW y \in Int
  PROVE  Max({x, y}) = IF x >= y THEN x ELSE y
<1>1. PICK m \in {x, y} : \A k \in {x, y} : m >= k
  OBVIOUS
<1>2. Max({x, y}) \in {x, y} /\ \A k \in {x, y} : Max({x, y}) >= k
  BY <1>1 DEF Max
<1> QED
  BY <1>2

-----------------------------------------------------------------------------
(* test605.                                                                *)

\* One turn of the loop of test605, and its states.
Step605(s, w) ==
  IF w.i < Len(s)
  THEN IF At(s, w.i) = 1 THEN [w EXCEPT !.i = w.i + 2]
       ELSE IF w.i = Len(s) - 1 \/ At(s, w.i + 1) = 0
       THEN [i |-> w.i + 2, res |-> w.res + 1]
       ELSE [w EXCEPT !.i = w.i + 3]
  ELSE w
Start605 == [i |-> 0, res |-> 0]
Loop605(s) ==
  CHOOSE f : f = [k \in 0..Len(s) |-> IF k = 0 THEN Start605 ELSE Step605(s, f[k - 1])]

\* A bed with flowers (1) and places (0), and no flowers next to each other.
Bed(s) == \A k \in DOMAIN s : s[k] \in {0, 1} /\ (k > 1 => s[k] + s[k - 1] < 2)

\* The flowers of p up to place i.
UpTo(p, i) == Cardinality(p \cap (1..i))

\* g is res new flowers before place i, where there is no old one.
Planted(s, i, res, g) ==
  /\ g \in Beds(s) /\ g \subseteq 1..i - 1 /\ Cardinality(g) = res
  /\ i \in 1..Len(s) => s[i] = 0

States605(s) ==
  {w \in [i : 0..Len(s) + 2, res : Nat] :
     /\ \E g : Planted(s, w.i, w.res, g)
     /\ \A p \in Beds(s) : UpTo(p, w.i) <= w.res}

\* What being in Beds means.
LEMMA BedsAre ==
  ASSUME NEW s \in Seq(Element), NEW p
  PROVE  p \in Beds(s) <=>
           /\ p \subseteq 1..Len(s) /\ \A k \in p : s[k] = 0
           /\ \A k \in p : k + 1 \notin p /\ (k > 1 => s[k - 1] = 0) /\ (k < Len(s) => s[k + 1] = 0)
<1> DEFINE n == Len(s)
<1>1. n \in Nat /\ DOMAIN s = 1..n
  BY Numbers
<1>2. ASSUME NEW k \in 1..n
      PROVE  (\A m \in {k - 1, k + 1} \cap (1..n) : s[m] = 0)
               <=> (k > 1 => s[k - 1] = 0) /\ (k < n => s[k + 1] = 0)
  <2>1. (k - 1 \in 1..n <=> k > 1) /\ (k + 1 \in 1..n <=> k < n)
    BY <1>1
  <2> QED
    BY <2>1
<1> QED
  BY <1>1, <1>2 DEF Beds

\* One place more has at most one flower more.
LEMMA UpToNext ==
  ASSUME NEW p, NEW i \in Nat
  PROVE  /\ UpTo(p, i) \in Nat /\ UpTo(p, i + 1) \in Nat /\ UpTo(p, i + 1) <= UpTo(p, i) + 1
         /\ i + 1 \notin p => UpTo(p, i + 1) = UpTo(p, i)
<1>1. IsFiniteSet(1..i)
  BY FS_Interval
<1>2. IsFiniteSet(p \cap (1..i))
  BY <1>1, FS_Subset
<1>3. Cardinality(p \cap (1..i)) \in Nat
  BY <1>2, FS_CardinalityType
<1>4. CASE i + 1 \in p
  <2>1. p \cap (1..i + 1) = (p \cap (1..i)) \cup {i + 1} /\ i + 1 \notin p \cap (1..i)
    BY <1>4
  <2>2. Cardinality((p \cap (1..i)) \cup {i + 1}) = Cardinality(p \cap (1..i)) + 1
    BY <1>2, <2>1, FS_AddElement
  <2> QED
    <3>1. UpTo(p, i + 1) = UpTo(p, i) + 1 /\ UpTo(p, i) \in Nat
      BY <1>3, <2>1, <2>2 DEF UpTo
    <3> QED
      BY <3>1, <1>4
<1>5. CASE i + 1 \notin p
  <2>1. p \cap (1..i + 1) = p \cap (1..i)
    BY <1>5
  <2> QED
    BY <1>3, <2>1 DEF UpTo
<1> QED
  BY <1>4, <1>5

\* A turn keeps to the states and goes on.
LEMMA Turn605 ==
  ASSUME NEW s \in Seq(Element), Bed(s), NEW w \in States605(s)
  PROVE  LET v == Step605(s, w) IN
         v \in States605(s) /\ IF w.i < Len(s) THEN v.i > w.i ELSE v = w
<1> DEFINE n == Len(s)  v == Step605(s, w)
<1>n. PICK i, res : i = w.i /\ res = w.res
  OBVIOUS
<1>0. /\ n \in Nat /\ i \in 0..n + 2 /\ res \in Nat /\ w = [i |-> i, res |-> res]
      /\ \E g : Planted(s, i, res, g)
      /\ \A p \in Beds(s) : UpTo(p, i) <= res
  BY <1>n DEF States605
<1>1. CASE ~ (i < n)
  BY <1>1, <1>n DEF Step605
<1>2. CASE i < n
  <2>1. PICK g : Planted(s, i, res, g)
    BY <1>0
  <2>2. \A k \in 1..n : s[k] \in {0, 1} /\ (k > 1 => s[k] + s[k - 1] < 2)
    BY Numbers DEF Bed
  <2>3. i \in Nat /\ i + 1 \in 1..n /\ At(s, i) = s[i + 1] /\ At(s, i + 1) = s[i + 2] /\ (i = n - 1 <=> i + 1 = n)
    BY <1>0, <1>2 DEF At
  <2>4. \A p \in Beds(s) :
          /\ p \subseteq 1..n /\ \A k \in p : s[k] = 0
          /\ \A k \in p : k + 1 \notin p /\ (k > 1 => s[k - 1] = 0) /\ (k < n => s[k + 1] = 0)
    BY BedsAre
  <2>5. /\ g \in Beds(s) /\ g \subseteq 1..i - 1 /\ Cardinality(g) = res
        /\ i \in 1..n => s[i] = 0
    BY <2>1 DEF Planted
  <2>6. \A p \in Beds(s) :
          /\ UpTo(p, i) \in Nat /\ UpTo(p, i + 1) \in Nat /\ UpTo(p, i + 2) \in Nat /\ UpTo(p, i + 3) \in Nat
          /\ UpTo(p, i + 1) <= UpTo(p, i) + 1 /\ UpTo(p, i + 2) <= UpTo(p, i + 1) + 1
          /\ i + 1 \notin p => UpTo(p, i + 1) = UpTo(p, i)
          /\ i + 2 \notin p => UpTo(p, i + 2) = UpTo(p, i + 1)
          /\ i + 3 \notin p => UpTo(p, i + 3) = UpTo(p, i + 2)
    <3> SUFFICES ASSUME NEW p \in Beds(s)
          PROVE  /\ UpTo(p, i) \in Nat /\ UpTo(p, i + 1) \in Nat /\ UpTo(p, i + 2) \in Nat /\ UpTo(p, i + 3) \in Nat
                 /\ UpTo(p, i + 1) <= UpTo(p, i) + 1 /\ UpTo(p, i + 2) <= UpTo(p, i + 1) + 1
                 /\ i + 1 \notin p => UpTo(p, i + 1) = UpTo(p, i)
                 /\ i + 2 \notin p => UpTo(p, i + 2) = UpTo(p, i + 1)
                 /\ i + 3 \notin p => UpTo(p, i + 3) = UpTo(p, i + 2)
      OBVIOUS
    <3>1. i + 1 \in Nat /\ i + 2 \in Nat /\ (i + 1) + 1 = i + 2 /\ (i + 2) + 1 = i + 3
      BY <2>3
    <3> QED
      BY <2>3, <3>1, UpToNext
  <2>7. CASE s[i + 1] = 1
    <3>1. v = [i |-> i + 2, res |-> res]
      BY <1>n, <1>0, <1>2, <2>3, <2>7 DEF Step605
    <3>2. i + 2 \in 1..n => s[i + 2] = 0
      BY <2>2, <2>3, <2>7
    <3>3. Planted(s, i + 2, res, g)
      BY <2>3, <2>5, <3>2 DEF Planted
    <3>4. ASSUME NEW p \in Beds(s) PROVE UpTo(p, i + 2) <= res
      <4>1. i + 1 \notin p /\ i + 2 \notin p
        BY <2>3, <2>4, <2>7
      <4> QED
        BY <4>1, <2>6, <1>0
    <3> QED
      BY <3>1, <3>3, <3>4, <1>n, <1>0, <1>2 DEF States605
  <2>8. CASE s[i + 1] = 0 /\ (i + 1 = n \/ s[i + 2] = 0)
    <3>1. v = [i |-> i + 2, res |-> res + 1]
      BY <1>n, <1>0, <1>2, <2>3, <2>8 DEF Step605
    <3>2. g \cup {i + 1} \in Beds(s)
      <4>1. \A k \in g : k \in 1..i - 1 /\ k \in 1..n
        BY <2>4, <2>5
      <4>2. g \cup {i + 1} \subseteq 1..n /\ \A k \in g \cup {i + 1} : s[k] = 0
        BY <2>3, <2>4, <2>5, <2>8
      <4>3. ASSUME NEW k \in g \cup {i + 1}
            PROVE  k + 1 \notin g \cup {i + 1} /\ (k > 1 => s[k - 1] = 0) /\ (k < n => s[k + 1] = 0)
        <5>1. CASE k \in g
          BY <5>1, <4>1, <2>3, <2>4, <2>5
        <5>2. CASE k = i + 1
          <6>1. k + 1 \notin g /\ k + 1 # i + 1 /\ (k > 1 => i \in 1..n)
            BY <5>2, <4>1, <2>3
          <6> QED
            BY <5>2, <6>1, <2>3, <2>5, <2>8
        <5> QED
          BY <5>1, <5>2
      <4> QED
        BY <4>2, <4>3, BedsAre
    <3>3. Cardinality(g \cup {i + 1}) = res + 1
      <4>1. i - 1 \in Int /\ i + 1 \notin g
        BY <2>3, <2>5
      <4>2. IsFiniteSet(1..i - 1)
        BY <4>1, FS_Interval
      <4>3. IsFiniteSet(g)
        BY <4>2, <2>5, FS_Subset
      <4> QED
        BY <4>1, <4>3, <2>5, FS_AddElement
    <3>4. Planted(s, i + 2, res + 1, g \cup {i + 1})
      <4>1. g \cup {i + 1} \subseteq 1..(i + 2) - 1
        BY <2>3, <2>5
      <4>2. i + 2 \in 1..n => s[i + 2] = 0
        BY <2>3, <2>8
      <4> QED
        BY <3>2, <3>3, <4>1, <4>2 DEF Planted
    <3>5. ASSUME NEW p \in Beds(s) PROVE UpTo(p, i + 2) <= res + 1
      <4>1. i + 1 \notin p \/ i + 2 \notin p
        BY <2>3, <2>4, SMTT(20)
      <4> QED
        BY <4>1, <2>6, <1>0, SMTT(30)
    <3>6. i + 2 \in 0..n + 2 /\ res + 1 \in Nat
      BY <1>0, <1>2
    <3> QED
      BY <3>1, <3>4, <3>5, <3>6, <1>n, <1>2, <2>3, SMTT(30) DEF States605
  <2>9. CASE s[i + 1] # 1 /\ i + 1 # n /\ s[i + 2] # 0
    <3>1. v = [i |-> i + 3, res |-> res]
      BY <1>n, <1>0, <1>2, <2>3, <2>9 DEF Step605
    <3>2. i + 2 \in 1..n /\ s[i + 2] = 1 /\ (i + 3 \in 1..n => s[i + 3] = 0)
      BY <2>2, <2>3, <2>9
    <3>3. Planted(s, i + 3, res, g)
      BY <2>3, <2>5, <3>2 DEF Planted
    <3>4. ASSUME NEW p \in Beds(s) PROVE UpTo(p, i + 3) <= res
      <4>0. /\ p \subseteq 1..n /\ \A k \in p : s[k] = 0
            /\ \A k \in p : k + 1 \notin p /\ (k > 1 => s[k - 1] = 0) /\ (k < n => s[k + 1] = 0)
        BY <2>4
      <4>1. i + 1 \notin p /\ i + 2 \notin p /\ i + 3 \notin p
        <5>1. (i + 1) + 1 = i + 2 /\ (i + 3) - 1 = i + 2 /\ i + 1 < n /\ i + 3 > 1
          BY <2>3, <3>2
        <5> QED
          BY <4>0, <5>1, <3>2
      <4> QED
        BY <4>1, <2>6, <1>0
    <3>5. i + 3 \in 0..n + 2
      BY <1>0, <3>2
    <3> QED
      BY <3>1, <3>3, <3>4, <3>5, <1>n, <1>0, <1>2 DEF States605
  <2> QED
    BY <2>2, <2>3, <2>7, <2>8, <2>9
<1> QED
  BY <1>1, <1>2, <1>n

\* test605 finds a greatest set of flowers that can be planted.
LEMMA test605Is ==
  ASSUME NEW s \in Seq(Element), Bed(s)
  PROVE  test605(s) = Max({Cardinality(p) : p \in Beds(s)})
<1> DEFINE n == Len(s)  w0 == Start605  g == Loop605(s)  D == States605(s)
           G == [w \in D |-> Step605(s, w)]  M == [w \in D |-> IF w.i < n THEN n - w.i ELSE 0]
<1>1. n \in Nat /\ test605(s) = g[n].res
  BY DEF test605, While, Step605, Start605, Loop605
<1>2. w0 \in D
  <2>1. {} \in Beds(s) /\ Cardinality({}) = 0
    BY BedsAre, FS_EmptySet
  <2>2. \A p \in Beds(s) : UpTo(p, 0) <= 0
    <3> SUFFICES ASSUME NEW p \in Beds(s) PROVE UpTo(p, 0) <= 0
      OBVIOUS
    <3>1. p \cap (1..0) = {}
      OBVIOUS
    <3> QED
      BY <2>1, <3>1 DEF UpTo
  <2>3. Planted(s, 0, 0, {})
    BY <2>1 DEF Planted
  <2> QED
    BY <1>1, <2>2, <2>3 DEF Start605, States605
<1>3. G \in [D -> D]
  BY Turn605
<1>4. M \in [D -> Nat] /\ M[w0] <= n /\ \A w \in D : G[w] = w \/ M[G[w]] < M[w]
  <2>1. \A w \in D : w.i \in 0..n + 2
    BY DEF States605
  <2>2. \A w \in D : G[w] \in D /\ IF w.i < n THEN G[w].i > w.i ELSE G[w] = w
    BY Turn605
  <2>3. w0.i = 0
    BY DEF Start605
  <2> HIDE DEF D, G, w0
  <2> QED
    BY <2>1, <2>2, <2>3, <1>1, <1>2
<1>p. PICK f : EndsAs(n, D, G, w0, f)
  <2> HIDE DEF D, G, M, w0
  <2> QED
    BY <1>1, <1>2, <1>3, <1>4, LoopRule
<1>5. /\ f \in [0..n -> D] /\ f[0] = w0 /\ \A d \in 1..n : f[d] = G[f[d - 1]]
      /\ f[n] \in D /\ G[f[n]] = f[n]
      /\ \A p : Follows(n, D, G, p) /\ p[0] = w0 => p[n] = f[n]
  BY <1>p DEF EndsAs
<1>6. g[n] = f[n]
  <2>1. f = [k \in 0..n |-> IF k = 0 THEN w0 ELSE Step605(s, f[k - 1])]
    <3>1. \A d \in 1..n : d - 1 \in 0..n
      BY <1>1
    <3>2. \A d \in 1..n : f[d] = Step605(s, f[d - 1])
      BY <1>5, <3>1
    <3> HIDE DEF D
    <3> QED
      BY <1>5, <3>2, <1>1
  <2>2. g = [k \in 0..n |-> IF k = 0 THEN w0 ELSE Step605(s, g[k - 1])]
    BY <2>1 DEF Loop605
  <2>3. g[0] = w0 /\ \A d \in 1..n : g[d] = Step605(s, g[d - 1])
    BY <2>2, <1>1
  <2>4. Follows(n, D, G, g)
    BY <2>3 DEF Follows
  <2> HIDE DEF D, G, g
  <2> QED
    BY <1>5, <2>3, <2>4
<1>7. PICK i, res : i = f[n].i /\ res = f[n].res
  OBVIOUS
<1>8. /\ i \in 0..n + 2 /\ res \in Nat /\ test605(s) = res
      /\ \E h : Planted(s, i, res, h)
      /\ \A p \in Beds(s) : UpTo(p, i) <= res
  BY <1>1, <1>5, <1>6, <1>7 DEF States605
<1>9. i >= n
  <2>1. Step605(s, f[n]) = f[n]
    BY <1>5
  <2> QED
    BY <2>1, <1>1, <1>5, <1>7, <1>8, Turn605
<1> HIDE DEF w0, g, D, G, M
<1>10. \A p \in Beds(s) : Cardinality(p) <= res
  <2> SUFFICES ASSUME NEW p \in Beds(s) PROVE Cardinality(p) <= res
    OBVIOUS
  <2>1. p \subseteq 1..n
    BY BedsAre
  <2>2. p \cap (1..i) = p
    BY <2>1, <1>1, <1>8, <1>9
  <2> QED
    BY <2>2, <1>8 DEF UpTo
<1> DEFINE C == {Cardinality(p) : p \in Beds(s)}
<1>11. res \in C
  BY <1>8 DEF Planted
<1>12. \A c \in C : c <= res /\ c \in Nat
  <2> SUFFICES ASSUME NEW p \in Beds(s) PROVE Cardinality(p) <= res /\ Cardinality(p) \in Nat
    OBVIOUS
  <2>1. p \subseteq 1..n /\ IsFiniteSet(1..n)
    BY <1>1, BedsAre, FS_Interval
  <2> QED
    BY <2>1, <1>10, FS_Subset, FS_CardinalityType
<1>13. Max(C) = res
  <2> HIDE DEF C
  <2>1. C \subseteq 0..res /\ C # {}
    BY <1>8, <1>11, <1>12
  <2>2. Max(C) \in C /\ \A k \in C : k <= Max(C)
    BY <2>1, <1>8, MaxIs
  <2> QED
    <3>1. Max(C) \in Nat /\ Max(C) <= res /\ res <= Max(C)
      BY <2>2, <1>11, <1>12
    <3> QED
      BY <3>1, <1>8
<1> QED
  BY <1>8, <1>13

-----------------------------------------------------------------------------
(* test763.                                                                *)

\* The last place of x in s, from 0 on.
Last(s, x) == Max({k \in 0..Len(s) - 1 : At(s, k) = x})

\* One turn of the loop of test763, and its states.
Step763(s, w) ==
  LET max == Max({w.max, Last(s, At(s, w.j))}) IN
  IF w.j < Len(s)
  THEN IF w.j = max THEN [j |-> w.j + 1, max |-> max, start |-> max + 1,
                          res |-> Append(w.res, max - w.start + 1)]
       ELSE [w EXCEPT !.j = w.j + 1, !.max = max]
  ELSE w
Start763 == [j |-> 0, max |-> 0, start |-> 0, res |-> <<>>]
Loop763(s) ==
  CHOOSE f : f = [k \in 0..Len(s) |-> IF k = 0 THEN Start763 ELSE Step763(s, f[k - 1])]

\* No element is before place k and behind it as well.
CutAt(s, k) == \A i \in 1..k, j \in k + 1..Len(s) : s[i] # s[j]

\* t gives the sums of the first elements of res.
Sums(res, t) == /\ t \in [0..Len(res) -> Int] /\ t[0] = 0
                /\ \A k \in 1..Len(res) : t[k] = t[k - 1] + res[k]

\* Those sums are the cuts up to place j, the last one at start.
CutsAre(s, j, start, res, t) ==
  /\ Sums(res, t) /\ t[Len(res)] = start
  /\ {t[k] : k \in 1..Len(res)} = {k \in 1..j : CutAt(s, k)}

States763(s) ==
  {w \in [j : 0..Len(s), max : Nat, start : Int, res : Seq(Int)] :
     /\ w.j = 0 => w.max = 0
     /\ w.j > 0 => \E i \in 1..w.j : w.max = Last(s, s[i])
     /\ \A i \in 1..w.j : Last(s, s[i]) <= w.max
     /\ \E t : CutsAre(s, w.j, w.start, w.res, t)}

\* The last place of a character.
LEMMA LastIs ==
  ASSUME NEW s \in Seq(Element), NEW i \in 1..Len(s)
  PROVE  /\ Last(s, s[i]) \in 0..Len(s) - 1 /\ s[Last(s, s[i]) + 1] = s[i]
         /\ \A k \in 1..Len(s) : s[k] = s[i] => k - 1 <= Last(s, s[i])
<1> DEFINE n == Len(s)  S == {k \in 0..n - 1 : At(s, k) = s[i]}
<1>1. n \in Nat /\ n - 1 \in Nat /\ i - 1 \in 0..n - 1 /\ (i - 1) + 1 = i
  BY Numbers
<1>2. S \subseteq 0..n - 1 /\ i - 1 \in S
  BY <1>1 DEF At
<1>3. Max(S) \in S /\ \A k \in S : k <= Max(S)
  <2> HIDE DEF S
  <2> QED
    BY <1>1, <1>2, MaxIs
<1>4. Last(s, s[i]) = Max(S)
  BY DEF Last
<1>5. \A k \in 1..n : s[k] = s[i] => k - 1 \in S
  BY <1>1 DEF At
<1> QED
  BY <1>1, <1>3, <1>4, <1>5 DEF At

\* A sum more.
WithSum(t, n, x) == [k \in 0..n + 1 |-> IF k = n + 1 THEN t[n] + x ELSE t[k]]

\* What they are for n elements and x behind them.
SumsWith(res, t, n, x, r, q) ==
  /\ Sums(r, q) /\ Len(r) = n + 1 /\ q[n + 1] = t[n] + x
  /\ {q[k] : k \in 1..n + 1} = {t[k] : k \in 1..n} \cup {t[n] + x}

\* The sums of a sequence that is one longer.
LEMMA MoreSums ==
  ASSUME NEW res \in Seq(Int), NEW t, Sums(res, t), NEW x \in Int
  PROVE  SumsWith(res, t, Len(res), x, Append(res, x), WithSum(t, Len(res), x))
<1>0. PICK n, r, q : n = Len(res) /\ r = Append(res, x) /\ q = WithSum(t, n, x)
  OBVIOUS
<1>1. /\ n \in Nat /\ Len(r) = n + 1 /\ r[n + 1] = x /\ \A k \in 1..n : r[k] = res[k]
  BY <1>0
<1>2. /\ t \in [0..n -> Int] /\ t[0] = 0 /\ n \in 0..n /\ t[n] \in Int
      /\ \A k \in 1..n : t[k] = t[k - 1] + res[k]
  BY <1>0, <1>1, SMTT(30) DEF Sums
<1>3. q \in [0..n + 1 -> Int] /\ q[n + 1] = t[n] + x /\ \A k \in 0..n : q[k] = t[k]
  BY <1>0, <1>1, <1>2 DEF WithSum
<1>4. Sums(r, q)
  <2>1. \A k \in 1..n + 1 : q[k] = q[k - 1] + r[k]
    <3> SUFFICES ASSUME NEW k \in 1..n + 1 PROVE q[k] = q[k - 1] + r[k]
      OBVIOUS
    <3>1. k - 1 \in 0..n /\ ((k = n + 1 /\ k - 1 = n) \/ (k \in 1..n /\ k \in 0..n))
      BY <1>1
    <3>2. q[k - 1] = t[k - 1]
      BY <3>1, <1>3
    <3> QED
      BY <3>1, <3>2, <1>1, <1>2, <1>3
  <2>2. 0 \in 0..n
    BY <1>1
  <2> QED
    BY <2>1, <2>2, <1>1, <1>2, <1>3 DEF Sums
<1>5. {q[k] : k \in 1..n + 1} = {t[k] : k \in 1..n} \cup {t[n] + x}
  <2>1. \A k \in 1..n + 1 : k = n + 1 \/ k \in 1..n
    BY <1>1
  <2>2. n + 1 \in 1..n + 1 /\ \A k \in 1..n : k \in 1..n + 1 /\ k \in 0..n
    BY <1>1
  <2> QED
    BY <1>3, <2>1, <2>2
<1>6. SumsWith(res, t, n, x, r, q)
  BY <1>1, <1>3, <1>4, <1>5 DEF SumsWith
<1> QED
  BY <1>0, <1>6

\* The recursive function sum of GreedyIsBest.
SumOf(res) == CHOOSE f : f = [k \in 0..Len(res) |-> IF k = 0 THEN 0 ELSE f[k - 1] + res[k]]

\* The sums are what the recursive function of GreedyIsBest computes.
LEMMA SumsAre ==
  ASSUME NEW res \in Seq(Int), NEW t, Sums(res, t)
  PROVE  \A k \in 0..Len(res) : SumOf(res)[k] = t[k]
<1> DEFINE n == Len(res)  sum == SumOf(res)
<1>1. n \in Nat /\ t \in [0..n -> Int] /\ t[0] = 0 /\ \A k \in 1..n : t[k] = t[k - 1] + res[k]
  BY DEF Sums
<1>2. t = [k \in 0..n |-> IF k = 0 THEN 0 ELSE t[k - 1] + res[k]]
  BY <1>1
<1>3. sum = [k \in 0..n |-> IF k = 0 THEN 0 ELSE sum[k - 1] + res[k]]
  BY <1>2 DEF SumOf
<1> DEFINE W == {d \in 0..n : sum[d] # t[d]}
<1>4. SUFFICES ASSUME W # {} PROVE FALSE
  OBVIOUS
<1>5. PICK d \in W : \A e \in W : d <= e
  <2> W \subseteq 0..n
    OBVIOUS
  <2> HIDE DEF W
  <2> QED
    BY <1>1, <1>4, LeastNumber
<1>6. d \in 0..n /\ sum[d] # t[d] /\ d # 0
  BY <1>1, <1>3
<1>7. d \in 1..n /\ d - 1 \in 0..n /\ ~ (d <= d - 1)
  BY <1>1, <1>6
<1>8. sum[d - 1] = t[d - 1]
  BY <1>5, <1>7
<1> QED
  BY <1>1, <1>3, <1>6, <1>7, <1>8

\* A turn keeps to the states and goes on.
LEMMA Turn763 ==
  ASSUME NEW s \in Seq(Element), NEW w \in States763(s)
  PROVE  LET v == Step763(s, w) IN
         v \in States763(s) /\ IF w.j < Len(s) THEN v.j = w.j + 1 ELSE v = w
<1> DEFINE n == Len(s)  v == Step763(s, w)
<1>n. PICK j, max, start, res : j = w.j /\ max = w.max /\ start = w.start /\ res = w.res
  OBVIOUS
<1>0. /\ n \in Nat /\ j \in 0..n /\ max \in Nat /\ start \in Int /\ res \in Seq(Int)
      /\ j = 0 => max = 0
      /\ j > 0 => \E i \in 1..j : max = Last(s, s[i])
      /\ \A i \in 1..j : Last(s, s[i]) <= max
      /\ \E t : CutsAre(s, j, start, res, t)
      /\ w = [j |-> j, max |-> max, start |-> start, res |-> res]
  BY <1>n DEF States763
<1>1. CASE ~ (j < n)
  BY <1>1, <1>n DEF Step763
<1>2. CASE j < n
  <2>1. j + 1 \in 1..n /\ \A i \in 1..j : i \in 1..n
    BY <1>0, <1>2
  <2>2. PICK m : m = Last(s, s[j + 1])
    OBVIOUS
  <2>3. m \in Nat /\ m >= j /\ m <= n - 1 /\ s[m + 1] = s[j + 1]
    BY <1>0, <2>1, <2>2, LastIs
  <2>4. PICK x : x = Max({max, Last(s, At(s, j))})
    OBVIOUS
  <2>5. x = (IF max >= m THEN max ELSE m) /\ x \in Nat /\ x >= j /\ x >= max /\ x >= m
    <3>1. At(s, j) = s[j + 1]
      BY DEF At
    <3>2. x = Max({max, m}) /\ max \in Int /\ m \in Int /\ j \in Int
      BY <1>0, <2>2, <2>3, <2>4, <3>1
    <3>3. x = IF max >= m THEN max ELSE m
      BY <3>2, MaxOfTwo
    <3> QED
      BY <3>2, <3>3, <1>0, <2>3
  <2>6. \E i \in 1..j + 1 : x = Last(s, s[i])
    <3>1. x = m => \E i \in 1..j + 1 : x = Last(s, s[i])
      BY <2>1, <2>2
    <3>2. CASE x # m
      <4>1. x = max /\ j # 0
        BY <3>2, <2>5, <2>3, <1>0
      <4>2. PICK i \in 1..j : max = Last(s, s[i])
        BY <4>1, <1>0
      <4>3. i \in 1..j + 1
        BY <1>0
      <4> QED
        BY <4>1, <4>2, <4>3
    <3> QED
      BY <3>1, <3>2
  <2>7. \A i \in 1..j + 1 : Last(s, s[i]) <= x
    <3> SUFFICES ASSUME NEW i \in 1..j + 1 PROVE Last(s, s[i]) <= x
      OBVIOUS
    <3>1. i = j + 1 \/ i \in 1..j
      BY <1>0
    <3>2. CASE i = j + 1
      BY <3>2, <2>2, <2>5
    <3>3. CASE i \in 1..j
      <4>1. Last(s, s[i]) <= max /\ Last(s, s[i]) \in Int
        BY <3>3, <1>0, <2>1, LastIs, SMTT(20)
      <4> QED
        BY <4>1, <2>5, <1>0
    <3> QED
      BY <3>1, <3>2, <3>3
  <2>8. CutAt(s, j + 1) <=> x = j
    <3>1. ASSUME x = j PROVE CutAt(s, j + 1)
      <4> SUFFICES ASSUME NEW i \in 1..j + 1, NEW k \in j + 1 + 1..n, s[i] = s[k] PROVE FALSE
        BY DEF CutAt
      <4>1. i \in 1..n /\ k \in 1..n /\ k - 1 >= j + 1
        BY <1>0, <2>1
      <4>2. k - 1 <= Last(s, s[i]) /\ Last(s, s[i]) \in Int
        BY <4>1, LastIs
      <4> QED
        BY <4>1, <4>2, <2>7, <3>1, <1>0
    <3>2. ASSUME x # j PROVE ~ CutAt(s, j + 1)
      <4>1. PICK i \in 1..j + 1 : x = Last(s, s[i])
        BY <2>6
      <4>2. i \in 1..n
        BY <2>1, <1>0
      <4>5. Last(s, s[i]) \in 0..n - 1 /\ s[Last(s, s[i]) + 1] = s[i]
        BY <4>2, LastIs
      <4>3. x <= n - 1 /\ s[x + 1] = s[i]
        BY <1>0, <4>1, <4>5
      <4>4. x + 1 \in j + 1 + 1..n
        BY <4>3, <3>2, <2>5, <1>0, SMTT(30)
      <4> QED
        BY <4>3, <4>4 DEF CutAt
    <3> QED
      BY <3>1, <3>2
  <2>9. PICK t : CutsAre(s, j, start, res, t)
    BY <1>0
  <2>10. {k \in 1..j + 1 : CutAt(s, k)} = {k \in 1..j : CutAt(s, k)} \cup (IF x = j THEN {j + 1} ELSE {})
    <3>1. \A k : k \in 1..j + 1 <=> k \in 1..j \/ k = j + 1
      BY <1>0
    <3> QED
      BY <3>1, <2>8
  <2>11. j + 1 \in 0..n /\ j + 1 > 0
    BY <1>0, <2>1
  <2>12. CASE j = x
    <3>1. v = [j |-> j + 1, max |-> x, start |-> x + 1, res |-> Append(res, x - start + 1)]
      BY <1>n, <1>2, <2>4, <2>12 DEF Step763
    <3>2. PICK l, y : l = Len(res) /\ y = x - start + 1
      OBVIOUS
    <3>3. PICK r, q : r = Append(res, y) /\ q = WithSum(t, l, y)
      OBVIOUS
    <3>4. y \in Int /\ t[l] + y = j + 1 /\ x + 1 = j + 1
      BY <2>5, <1>0, <2>9, <2>12, <3>2, SMTT(30) DEF CutsAre
    <3>5. /\ Sums(r, q) /\ Len(r) = l + 1 /\ q[l + 1] = t[l] + y
          /\ {q[k] : k \in 1..l + 1} = {t[k] : k \in 1..l} \cup {t[l] + y}
      <4>1. Sums(res, t)
        BY <2>9 DEF CutsAre
      <4>2. res \in Seq(Int)
        BY <1>0
      <4>3. SumsWith(res, t, l, y, r, q)
        BY <4>1, <4>2, <3>2, <3>3, <3>4, MoreSums
      <4> QED
        BY <4>3 DEF SumsWith
    <3>6. CutsAre(s, j + 1, x + 1, r, q)
      BY <2>9, <2>10, <2>12, <3>2, <3>4, <3>5 DEF CutsAre
    <3>7. r \in Seq(Int) /\ x + 1 \in Int /\ v = [j |-> j + 1, max |-> x, start |-> x + 1, res |-> r]
      BY <1>0, <2>5, <3>1, <3>2, <3>3, <3>4
    <3>8. v \in States763(s)
      BY <3>6, <3>7, <2>5, <2>6, <2>7, <2>11 DEF States763
    <3> QED
      BY <3>7, <3>8, <1>n, <1>2
  <2>13. CASE j # x
    <3>1. v = [j |-> j + 1, max |-> x, start |-> start, res |-> res]
      BY <1>n, <1>0, <1>2, <2>4, <2>13 DEF Step763
    <3>2. CutsAre(s, j + 1, start, res, t)
      BY <2>9, <2>10, <2>13 DEF CutsAre
    <3> QED
      BY <3>1, <3>2, <1>n, <1>0, <1>2, <2>5, <2>6, <2>7, <2>11 DEF States763
  <2> QED
    BY <2>12, <2>13
<1> QED
  BY <1>1, <1>2, <1>n

\* test763 cuts at every place where it can be cut.
LEMMA test763Is ==
  ASSUME NEW s \in Seq(Element)
  PROVE  /\ test763(s) \in Seq(Int)
         /\ \E t : Sums(test763(s), t) /\ {t[k] : k \in 1..Len(test763(s))} = {k \in 1..Len(s) : CutAt(s, k)}
<1> DEFINE n == Len(s)  w0 == Start763  g == Loop763(s)  D == States763(s)
           G == [w \in D |-> Step763(s, w)]  M == [w \in D |-> n - w.j]
<1>1. n \in Nat /\ test763(s) = g[n].res
  BY DEF test763, While, Step763, Start763, Loop763, Last
<1>2. w0 \in D
  <2>1. CutsAre(s, 0, 0, <<>>, [k \in 0..0 |-> 0])
    BY DEF CutsAre, Sums
  <2> QED
    BY <1>1, <2>1 DEF Start763, States763
<1>3. G \in [D -> D]
  BY Turn763
<1>4. M \in [D -> Nat] /\ M[w0] <= n /\ \A w \in D : G[w] = w \/ M[G[w]] < M[w]
  <2>1. \A w \in D : w.j \in 0..n
    BY DEF States763
  <2>2. \A w \in D : G[w] \in D /\ (G[w] = w \/ G[w].j = w.j + 1)
    BY Turn763
  <2> HIDE DEF D, G
  <2> QED
    BY <2>1, <2>2, <1>1, <1>2
<1>p. PICK f : EndsAs(n, D, G, w0, f)
  <2> HIDE DEF D, G, M, w0
  <2> QED
    BY <1>1, <1>2, <1>3, <1>4, LoopRule
<1>5. /\ f \in [0..n -> D] /\ f[0] = w0 /\ \A d \in 1..n : f[d] = G[f[d - 1]]
      /\ f[n] \in D /\ G[f[n]] = f[n]
      /\ \A p : Follows(n, D, G, p) /\ p[0] = w0 => p[n] = f[n]
  BY <1>p DEF EndsAs
<1>6. g[n] = f[n]
  <2>1. f = [k \in 0..n |-> IF k = 0 THEN w0 ELSE Step763(s, f[k - 1])]
    <3>1. \A d \in 1..n : d - 1 \in 0..n
      BY <1>1
    <3>2. \A d \in 1..n : f[d] = Step763(s, f[d - 1])
      BY <1>5, <3>1
    <3> HIDE DEF D
    <3> QED
      BY <1>5, <3>2, <1>1
  <2>2. g = [k \in 0..n |-> IF k = 0 THEN w0 ELSE Step763(s, g[k - 1])]
    BY <2>1 DEF Loop763
  <2>3. g[0] = w0 /\ \A d \in 1..n : g[d] = Step763(s, g[d - 1])
    BY <2>2, <1>1
  <2>4. Follows(n, D, G, g)
    BY <2>3 DEF Follows
  <2> HIDE DEF D, G, g
  <2> QED
    BY <1>5, <2>3, <2>4
<1>7. f[n].j = n
  <2>1. Step763(s, f[n]) = f[n] /\ f[n].j \in 0..n
    BY <1>5 DEF States763
  <2> QED
    BY <1>5, <2>1, <1>1, Turn763
<1>8. f[n].res \in Seq(Int) /\ \E t : CutsAre(s, f[n].j, f[n].start, f[n].res, t)
  BY <1>5 DEF States763
<1> QED
  BY <1>1, <1>6, <1>7, <1>8 DEF CutsAre

-----------------------------------------------------------------------------
(* test665.                                                                *)

\* One turn of the loop of test665, and its last state.
Step665(n, w) ==
  LET i == w.i  falls == At(w.s, i - 1) > At(w.s, i) IN
  IF w.i < n /\ w.num <= 1
  THEN [i |-> i + 1, num |-> w.num + (IF falls THEN 1 ELSE 0),
        s |-> IF ~ falls THEN w.s
              ELSE IF Lowers(w.s, i) THEN Put(w.s, i - 1, At(w.s, i))
              ELSE Put(w.s, i, At(w.s, i - 1))]
  ELSE w
Start665(nums) == [i |-> 1, num |-> 0, s |-> nums]
Loop665(nums) ==
  CHOOSE f : f = [k \in 0..Len(nums) |-> IF k = 0 THEN Start665(nums) ELSE Step665(Len(nums), f[k - 1])]

\* The first m elements are in order.
SortedTo(s, m) == \A i, j \in 1..m : i < j => s[i] <= s[j]

\* s is nums after the fall behind place f has been repaired.
Repaired(nums, s, f) ==
  /\ nums[f] > nums[f + 1]
  /\ \/ s = [nums EXCEPT ![f] = nums[f + 1]]
     \/ f > 1 /\ nums[f + 1] < nums[f - 1] /\ s = [nums EXCEPT ![f + 1] = nums[f]]

\* One element can be replaced so that the rest is in order.
Mendable(nums) == \E i \in DOMAIN nums, x \in Element : Sorted([nums EXCEPT ![i] = x])

\* Such an element and its replacement are what Mendable asks for.
LEMMA Mended ==
  ASSUME NEW nums, NEW i \in DOMAIN nums, NEW x \in Element, NEW s, s = [nums EXCEPT ![i] = x], Sorted(s)
  PROVE  Mendable(nums)
BY Zenon DEF Mendable

\* The states of the loop.
States665(nums) ==
  {w \in [i : 1..Len(nums) + 1, num : 0..2, s : Seq(Element)] :
     /\ Len(w.s) = Len(nums) /\ (w.i = 1 \/ w.i <= Len(nums))
     /\ w.num = 0 => w.s = nums
     /\ w.num = 1 => \E f \in 1..w.i - 1 : Repaired(nums, w.s, f)
     /\ w.num < 2 => SortedTo(w.s, w.i)
     /\ w.num = 2 => Len(nums) > 0 /\ ~ Mendable(nums)}

\* A second fall cannot be mended.
LEMMA TwoFalls ==
  ASSUME NEW nums \in Seq(Element), NEW f \in 1..Len(nums) - 1, NEW g \in f + 1..Len(nums) - 1,
         NEW s, Repaired(nums, s, f), s[g] > s[g + 1]
  PROVE  ~ Mendable(nums)
<1> DEFINE n == Len(nums)
<1>1. /\ n \in Nat /\ f \in Nat /\ g \in Nat /\ 1 <= f /\ f < g /\ g < n /\ DOMAIN nums = 1..n
      /\ \A k \in 1..n : nums[k] \in Int
      /\ f \in 1..n /\ f + 1 \in 1..n /\ g \in 1..n /\ g + 1 \in 1..n
  BY Numbers
<1>2. SUFFICES ASSUME NEW i \in 1..n, NEW x \in Element, Sorted([nums EXCEPT ![i] = x])
               PROVE  FALSE
  BY <1>1 DEF Mendable
<1> DEFINE r == [nums EXCEPT ![i] = x]
<1>3. \A j, k \in 1..n : j < k => r[j] <= r[k]
  BY <1>1, <1>2 DEF Sorted
<1>4. \A k \in 1..n : k # i => r[k] = nums[k]
  BY <1>1
<1>5. i = f \/ i = f + 1
  BY <1>1, <1>3, <1>4, SMTT(30) DEF Repaired
<1> HIDE DEF r
<1>6. s[g + 1] = nums[g + 1]
  BY <1>1, SMTT(30) DEF Repaired
<1>7. s[g] = nums[g] => i = g /\ g = f + 1
  BY <1>1, <1>3, <1>4, <1>5, <1>6
<1>8. CASE s[g] = nums[g]
  <2>1. r[f] <= r[g + 1] /\ r[f] = nums[f] /\ r[g + 1] = nums[g + 1]
    BY <1>1, <1>3, <1>4, <1>7, <1>8
  <2> QED
    BY <2>1, <1>1, <1>6, <1>7, <1>8 DEF Repaired
<1>9. CASE s[g] # nums[g]
  <2>1. /\ g = f + 1 /\ f > 1 /\ nums[f + 1] < nums[f - 1] /\ s[g] = nums[f]
    BY <1>1, <1>9, SMTT(30) DEF Repaired
  <2>2. CASE i = f + 1
    <3>1. r[f] <= r[f + 2] /\ r[f] = nums[f] /\ r[f + 2] = nums[f + 2]
      BY <1>1, <1>3, <1>4, <2>1, <2>2
    <3> QED
      BY <3>1, <2>1, <1>1, <1>6
  <2>3. CASE i = f
    <3>1. f - 1 \in 1..n /\ r[f - 1] <= r[f + 1] /\ r[f - 1] = nums[f - 1] /\ r[f + 1] = nums[f + 1]
      BY <1>1, <1>3, <1>4, <2>1, <2>3
    <3> QED
      BY <3>1, <2>1, <1>1
  <2> QED
    BY <2>2, <2>3, <1>5
<1> QED
  BY <1>8, <1>9

\* A turn keeps to the states and goes on.
LEMMA Turn665 ==
  ASSUME NEW nums \in Seq(Element), NEW w \in States665(nums)
  PROVE  LET v == Step665(Len(nums), w) IN
         /\ v \in States665(nums)
         /\ IF w.i < Len(nums) /\ w.num <= 1 THEN v.i = w.i + 1 ELSE v = w
<1> DEFINE n == Len(nums)  v == Step665(n, w)
<1>n. PICK i, num, s : i = w.i /\ num = w.num /\ s = w.s
  OBVIOUS
<1>0. /\ n \in Nat /\ i \in 1..n + 1 /\ (i = 1 \/ i <= n) /\ num \in 0..2 /\ s \in Seq(Element) /\ Len(s) = n
      /\ num = 0 => s = nums
      /\ num = 1 => \E f \in 1..i - 1 : Repaired(nums, s, f)
      /\ num < 2 => SortedTo(s, i)
      /\ num = 2 => n > 0 /\ ~ Mendable(nums)
      /\ w = [i |-> i, num |-> num, s |-> s]
  BY <1>n DEF States665
<1>1. CASE ~ (i < n /\ num <= 1)
  BY <1>1, <1>n DEF Step665
<1>2. CASE i < n /\ num <= 1
  <2>1. /\ i \in 1..n /\ i + 1 \in 1..n /\ \A k \in 1..n : s[k] \in Int /\ s[k] \in Element
    BY <1>0, <1>2, Numbers
  <2>2. At(s, i - 1) = s[i] /\ At(s, i) = s[i + 1] /\ At(s, i - 2) = s[i - 1]
    BY <1>0 DEF At
  <2>0. \A j, k \in 1..i : j < k => s[j] <= s[k]
    BY <1>0, <1>2 DEF SortedTo
  <2>3. CASE s[i] <= s[i + 1]
    <3>1. v = [i |-> i + 1, num |-> num, s |-> s]
      <4>1. ~ (At(s, i - 1) > At(s, i))
        BY <2>1, <2>2, <2>3
      <4> QED
        BY <1>0, <1>2, <4>1 DEF Step665
    <3>2. SortedTo(s, i + 1)
      <4> SUFFICES ASSUME NEW j \in 1..i + 1, NEW k \in 1..i + 1, j < k PROVE s[j] <= s[k]
        BY DEF SortedTo
      <4>1. j \in 1..i /\ j \in 1..n /\ (k = i + 1 \/ k \in 1..i) /\ i \in 1..i
        BY <2>1
      <4>2. s[j] <= s[i]
        BY <4>1, <2>0, <2>1
      <4> QED
        BY <4>1, <4>2, <2>0, <2>1, <2>3
    <3>3. num = 1 => \E f \in 1..(i + 1) - 1 : Repaired(nums, s, f)
      BY <1>0
    <3> QED
      BY <3>1, <3>2, <3>3, <1>n, <1>0, <1>2, <2>1, SMTT(30) DEF States665
  <2>4. CASE s[i] > s[i + 1]
    <3>0. PICK t : t = IF Lowers(s, i) THEN [s EXCEPT ![i] = s[i + 1]] ELSE [s EXCEPT ![i + 1] = s[i]]
      OBVIOUS
    <3>1. v = [i |-> i + 1, num |-> num + 1, s |-> t]
      <4>1. Put(s, i - 1, s[i + 1]) = [s EXCEPT ![i] = s[i + 1]] /\ Put(s, i, s[i]) = [s EXCEPT ![i + 1] = s[i]]
        <5> i - 1 + 1 = i
          BY <1>0
        <5> QED
          BY DEF Put
      <4>2. At(s, i - 1) > At(s, i)
        BY <2>2, <2>4
      <4> QED
        BY <1>2, <1>n, <2>2, <3>0, <4>1, <4>2 DEF Step665
    <3>2. t \in Seq(Element) /\ Len(t) = n
      BY <1>0, <2>1, <3>0, Assigned
    <3>3. Lowers(s, i) <=> i = 1 \/ s[i + 1] >= s[i - 1]
      BY <2>2 DEF Lowers
    <3>4. CASE num = 0
      <4>1. Repaired(nums, t, i)
        <5>1. i - 1 \in 1..n \/ i = 1
          BY <2>1
        <5>2. ~ Lowers(s, i) => i > 1 /\ s[i + 1] < s[i - 1]
          BY <5>1, <2>1, <3>3
        <5> QED
          BY <5>2, <1>0, <2>4, <3>0, <3>4 DEF Repaired
      <4>2. SortedTo(t, i + 1)
        <5> SUFFICES ASSUME NEW j \in 1..i + 1, NEW k \in 1..i + 1, j < k PROVE t[j] <= t[k]
          BY DEF SortedTo
        <5>2. j \in 1..i /\ j \in 1..n /\ k \in 1..n /\ (k = i + 1 \/ k \in 1..i) /\ i \in 1..i
          BY <2>1
        <5>3. CASE Lowers(s, i)
          <6>1. t[j] = (IF j = i THEN s[i + 1] ELSE s[j]) /\ t[k] = IF k = i THEN s[i + 1] ELSE s[k]
            BY <5>2, <5>3, <1>0, <2>1, <3>0, Assigned
          <6>2. j < i => j <= i - 1 /\ i - 1 \in 1..i /\ i - 1 \in 1..n /\ i # 1
            BY <5>2, <2>1
          <6>3. j < i => s[j] <= s[i - 1]
            BY <6>2, <5>2, <2>0, <2>1
          <6>4. j < i => s[j] <= s[i + 1]
            BY <6>2, <6>3, <3>3, <5>3, <5>2, <2>1
          <6> QED
            BY <6>1, <6>4, <2>0, <5>2, <2>1
        <5>4. CASE ~ Lowers(s, i)
          <6>1. t[j] = s[j] /\ t[k] = IF k = i + 1 THEN s[i] ELSE s[k]
            BY <5>2, <5>4, <1>0, <2>1, <3>0, Assigned
          <6> QED
            BY <6>1, <2>0, <5>2, <2>1
        <5> QED
          BY <5>3, <5>4
      <4>3. i \in 1..(i + 1) - 1
        BY <2>1
      <4> QED
        BY <4>1, <4>2, <4>3, <3>1, <3>2, <3>4, <1>n, <1>0, <1>2, <2>1 DEF States665
    <3>5. CASE num = 1
      <4>1. PICK f \in 1..i - 1 : Repaired(nums, s, f)
        BY <1>0, <3>5
      <4>2. f \in 1..n - 1 /\ i \in f + 1..n - 1
        BY <2>1
      <4>3. ~ Mendable(nums)
        BY <4>1, <4>2, <2>4, TwoFalls
      <4> QED
        BY <4>3, <3>1, <3>2, <3>5, <1>n, <1>0, <1>2, <2>1 DEF States665
    <3> QED
      BY <3>4, <3>5, <1>0, <1>2
  <2> QED
    BY <2>3, <2>4, <1>0, <2>1
<1> QED
  BY <1>1, <1>2, <1>n

\* test665 finds out whether one element stands in the way.
LEMMA test665Is ==
  ASSUME NEW nums \in Seq(Element)
  PROVE  test665(nums) <=> Len(nums) < 2 \/ Mendable(nums)
<1> DEFINE n == Len(nums)  w0 == Start665(nums)  g == Loop665(nums)  D == States665(nums)
           G == [w \in D |-> Step665(n, w)]  M == [w \in D |-> n + 1 - w.i]
<1>1. n \in Nat /\ (test665(nums) <=> g[n].num < 2)
  BY DEF test665, While, Step665, Start665, Loop665
<1>2. w0 \in D
  BY <1>1 DEF Start665, States665, SortedTo
<1>3. G \in [D -> D]
  BY Turn665
<1>4. PICK f : Turns(n, D, G, f) /\ f[0] = w0
  <2> HIDE DEF D, G
  <2> QED
    BY <1>1, <1>2, <1>3, LoopExists
<1>5. f[n] \in D /\ G[f[n]] = f[n]
  <2>1. \A w \in D : w.i \in 1..n + 1
    BY DEF States665
  <2>2. M \in [D -> Nat] /\ M[f[0]] <= n
    <3>1. w0.i = 1
      BY DEF Start665
    <3> HIDE DEF D
    <3> QED
      BY <2>1, <1>2, <1>4, <1>1, <3>1
  <2>3. \A w \in D : G[w] = w \/ M[G[w]] < M[w]
    <3> SUFFICES ASSUME NEW w \in D PROVE G[w] = w \/ M[G[w]] < M[w]
      OBVIOUS
    <3>1. G[w] = w \/ (G[w] \in D /\ G[w].i = w.i + 1)
      BY Turn665
    <3> HIDE DEF D, G
    <3> QED
      BY <3>1, <2>1, <1>1
  <2> HIDE DEF D, G, M
  <2> QED
    BY <1>4, <2>2, <2>3, LoopStops
<1>6. g[n] = f[n]
  <2>1. f = [k \in 0..n |-> IF k = 0 THEN w0 ELSE Step665(n, f[k - 1])]
    <3>1. f \in [0..n -> D] /\ \A d \in 1..n : f[d] = G[f[d - 1]] /\ d - 1 \in 0..n
      BY <1>1, <1>4 DEF Turns
    <3>2. \A d \in 1..n : f[d] = Step665(n, f[d - 1])
      BY <3>1
    <3> HIDE DEF D
    <3> QED
      BY <3>1, <3>2, <1>4, <1>1
  <2>2. g = [k \in 0..n |-> IF k = 0 THEN w0 ELSE Step665(n, g[k - 1])]
    BY <2>1 DEF Loop665
  <2>3. g[0] = f[0] /\ \A d \in 1..n : g[d] = Step665(n, g[d - 1])
    BY <2>2, <1>4, <1>1, SMTT(30)
  <2>4. Follows(n, D, G, g)
    BY <2>3 DEF Follows
  <2> HIDE DEF D, G, g
  <2> QED
    BY <1>4, <2>3, <2>4, LoopUnique
<1>7. PICK e : e = f[n]
  OBVIOUS
<1>8. e \in D /\ (e.i >= n \/ e.num = 2)
  <2>1. e \in D /\ Step665(n, e) = e
    BY <1>5, <1>7
  <2>2. e.i \in 1..n + 1 /\ e.num \in 0..2
    BY <2>1 DEF States665
  <2>3. ~ (e.i < n /\ e.num <= 1)
    BY <2>1, <2>2, Turn665
  <2> QED
    BY <2>1, <2>2, <2>3, <1>1
<1>9. /\ e.num \in 0..2 /\ e.i \in 1..n + 1 /\ e.s \in Seq(Element) /\ Len(e.s) = n
      /\ (e.i = 1 \/ e.i <= n) /\ (e.num < 2 => e.i >= n)
      /\ e.num = 0 => e.s = nums
      /\ e.num = 1 => \E h \in 1..e.i - 1 : Repaired(nums, e.s, h)
      /\ e.num < 2 => SortedTo(e.s, e.i)
      /\ e.num = 2 => n > 0 /\ ~ Mendable(nums)
  BY <1>8 DEF States665
<1>10. test665(nums) <=> e.num < 2
  BY <1>1, <1>6, <1>7
<1> HIDE DEF w0, g, D, G, M
<1>11. DOMAIN nums = 1..n /\ \A k \in 1..n : nums[k] \in Element /\ nums[k] \in Int
  BY Numbers
<1>12. CASE e.num = 2
  <2>1. n < 2 => n = 0 \/ Mendable(nums)
    <3> SUFFICES ASSUME n = 1 PROVE Mendable(nums)
      BY <1>1
    <3>1. Sorted([nums EXCEPT ![1] = nums[1]])
      BY <1>11 DEF Sorted
    <3>2. 1 \in DOMAIN nums /\ nums[1] \in Element
      BY <1>11
    <3> QED
      BY <3>1, <3>2, Mended
  <2> QED
    BY <2>1, <1>9, <1>12, <1>1, <1>10
<1>13. CASE e.num < 2 /\ n >= 2
  <2>1. Sorted(e.s)
    BY <1>9, <1>13, <1>1, SMTT(30) DEF Sorted, SortedTo
  <2>2. CASE e.num = 0
    <3>1. 1 \in DOMAIN nums /\ nums[1] \in Element /\ e.s = [nums EXCEPT ![1] = nums[1]]
      <4>1. 1 \in 1..n /\ nums \in [1..n -> Element]
        BY <1>13, <1>1
      <4>2. nums = [nums EXCEPT ![1] = nums[1]]
        BY <4>1
      <4> QED
        BY <4>1, <4>2, <1>9, <1>11, <2>2
    <3>2. Mendable(nums)
      BY <2>1, <3>1, Mended
    <3> QED
      BY <3>2, <1>10, <1>13
  <2>3. CASE e.num = 1
    <3>1. PICK h \in 1..n - 1 : Repaired(nums, e.s, h)
      BY <1>9, <1>13, <2>3, <1>1
    <3>2. /\ h \in DOMAIN nums /\ h + 1 \in DOMAIN nums
          /\ nums[h] \in Element /\ nums[h + 1] \in Element
      BY <1>1, <1>11
    <3>3. e.s = [nums EXCEPT ![h] = nums[h + 1]] \/ e.s = [nums EXCEPT ![h + 1] = nums[h]]
      BY <3>1 DEF Repaired
    <3> QED
      BY <2>1, <3>2, <3>3, Mended, <1>10, <1>13
  <2> QED
    BY <2>2, <2>3, <1>9, <1>13
<1> QED
  BY <1>12, <1>13, <1>9, <1>10, <1>1

\* The greedy choices are as good as the best ones, for any sequence.
LEMMA GreedyIs ==
  ASSUME a \in Seq(Element)
  PROVE  GreedyIsBest
<1> DEFINE n == Len(a)  res == test763(a)
           sum == SumOf(res)
           cuts == {k \in DOMAIN a : \A i \in 1..k, j \in k + 1..Len(a) : a[i] # a[j]}
<1>1. DOMAIN a = 1..n /\ n \in Nat
  BY Numbers
<1>2. (\A k \in DOMAIN a : a[k] \in {0, 1} /\ (k > 1 => a[k] + a[k - 1] < 2))
        => test605(a) = Max({Cardinality(p) : p \in Beds(a)})
  BY test605Is DEF Bed
<1>3. {sum[k] : k \in DOMAIN res} = cuts
  <2>1. PICK t : Sums(res, t) /\ {t[k] : k \in 1..Len(res)} = {k \in 1..n : CutAt(a, k)}
    BY test763Is
  <2>2. res \in Seq(Int)
    BY test763Is
  <2>3. \A k \in 0..Len(res) : sum[k] = t[k]
    BY <2>1, <2>2, SumsAre
  <2> HIDE DEF res, sum
  <2>4. DOMAIN res = 1..Len(res) /\ \A k \in 1..Len(res) : k \in 0..Len(res)
    BY <2>2
  <2>5. {sum[k] : k \in DOMAIN res} = {t[k] : k \in 1..Len(res)}
    BY <2>3, <2>4
  <2>6. cuts = {k \in 1..n : CutAt(a, k)}
    BY <1>1 DEF CutAt
  <2> QED
    BY <2>1, <2>5, <2>6
<1>4. test665(a) <=> \/ Len(a) < 2
                     \/ \E i \in DOMAIN a, x \in Element : Sorted([a EXCEPT ![i] = x])
  BY test665Is DEF Mendable
<1> QED
  BY <1>2, <1>3, <1>4 DEF GreedyIsBest, SumOf

-----------------------------------------------------------------------------
(* Sequences with the same elements.                                       *)

\* How many of the places I of s hold elements of X.
Hits(s, I, X) == Cardinality({j \in I : s[j] \in X})

\* s and t have the same elements, each as often.
SameBag(s, t) == Len(s) = Len(t) /\ \A X : Hits(s, 1..Len(s), X) = Hits(t, 1..Len(t), X)

\* They are a number.
LEMMA HitsType ==
  ASSUME NEW s, NEW I, IsFiniteSet(I), NEW X
  PROVE  Hits(s, I, X) \in Nat /\ Hits(s, I, X) <= Cardinality(I) /\ Cardinality(I) \in Nat
<1>1. {j \in I : s[j] \in X} \subseteq I
  OBVIOUS
<1>2. IsFiniteSet({j \in I : s[j] \in X}) /\ Cardinality({j \in I : s[j] \in X}) <= Cardinality(I)
  BY <1>1, FS_Subset
<1> QED
  BY <1>2, FS_CardinalityType DEF Hits

\* What one place adds.
Hit(s, j, X) == IF s[j] \in X THEN 1 ELSE 0

\* One place more.
LEMMA HitsMore ==
  ASSUME NEW s, NEW I, IsFiniteSet(I), NEW X, NEW j, j \notin I
  PROVE  Hits(s, I \cup {j}, X) = Hits(s, I, X) + Hit(s, j, X)
<1> DEFINE H == {k \in I : s[k] \in X}
<1>1. IsFiniteSet(H) /\ j \notin H
  <2> H \subseteq I
    OBVIOUS
  <2> HIDE DEF H
  <2>1. IsFiniteSet(H)
    BY FS_Subset
  <2> QED
    BY <2>1
<1>2. Hits(s, I, X) = Cardinality(H) /\ Cardinality(H) \in Nat
  BY <1>1, FS_CardinalityType DEF Hits
<1>3. CASE s[j] \in X
  <2>1. {k \in I \cup {j} : s[k] \in X} = H \cup {j}
    BY <1>3
  <2>2. Cardinality(H \cup {j}) = Cardinality(H) + 1
    <3> HIDE DEF H
    <3> QED
      BY <1>1, FS_AddElement
  <2> QED
    BY <1>2, <1>3, <2>1, <2>2 DEF Hits, Hit
<1>4. CASE s[j] \notin X
  <2>1. {k \in I \cup {j} : s[k] \in X} = H
    BY <1>4
  <2>2. Hits(s, I \cup {j}, X) = Cardinality(H)
    BY <2>1 DEF Hits
  <2> HIDE DEF H
  <2> QED
    BY <1>2, <1>4, <2>2 DEF Hit
<1> QED
  BY <1>3, <1>4

\* s and t hold the same in the places I.
Alike(s, t, I) == \A j \in I : s[j] = t[j]

\* What the places hold is all that counts.
LEMMA HitsSame ==
  ASSUME NEW s, NEW t, NEW I, NEW X, Alike(s, t, I)
  PROVE  Hits(s, I, X) = Hits(t, I, X)
<1>1. {j \in I : s[j] \in X} = {j \in I : t[j] \in X}
  BY DEF Alike
<1> QED
  BY <1>1 DEF Hits

\* The exchange of two elements.
Exchanged(s, r, i, j) ==
  /\ r \in Seq(Element) /\ Len(r) = Len(s)
  /\ \A k \in 1..Len(s) : r[k] = IF k = j THEN s[i] ELSE IF k = i THEN s[j] ELSE s[k]

\* That is what Swap does.
LEMMA SwapIs ==
  ASSUME NEW s \in Seq(Element), NEW i \in 0..Len(s) - 1, NEW j \in 0..Len(s) - 1
  PROVE  Exchanged(s, Swap(s, i, j), i + 1, j + 1)
<1>1. Len(s) \in Nat /\ i + 1 \in 1..Len(s) /\ j + 1 \in 1..Len(s)
  BY Numbers
<1>2. At(s, i) = s[i + 1] /\ At(s, j) = s[j + 1] /\ s[i + 1] \in Element /\ s[j + 1] \in Element
  BY <1>1, Numbers DEF At
<1>3. PICK q : q = [s EXCEPT ![i + 1] = s[j + 1]]
  OBVIOUS
<1>4. q \in Seq(Element) /\ Len(q) = Len(s) /\ \A k \in 1..Len(s) : q[k] = IF k = i + 1 THEN s[j + 1] ELSE s[k]
  BY <1>1, <1>2, <1>3, Assigned
<1>5. PICK r : r = [q EXCEPT ![j + 1] = s[i + 1]]
  OBVIOUS
<1>6. r \in Seq(Element) /\ Len(r) = Len(q) /\ \A k \in 1..Len(q) : r[k] = IF k = j + 1 THEN s[i + 1] ELSE q[k]
  BY <1>1, <1>2, <1>4, <1>5, Assigned
<1>7. Swap(s, i, j) = r
  BY <1>2, <1>3, <1>5 DEF Swap, Put
<1> QED
  BY <1>4, <1>6, <1>7 DEF Exchanged

\* An assignment to one place.
Changed(s, r, n, i) == \A k \in 1..n : k # i => r[k] = s[k]

\* It moves hits.
LEMMA HitsAssigned ==
  ASSUME NEW s, NEW r, NEW n \in Nat, NEW i \in 1..n, Changed(s, r, n, i), NEW X
  PROVE  Hits(r, 1..n, X) = Hits(s, 1..n, X) - Hit(s, i, X) + Hit(r, i, X)
<1> DEFINE I == (1..n) \ {i}
<1>1. IsFiniteSet(I) /\ i \notin I /\ I \cup {i} = 1..n
  <2>1. IsFiniteSet(1..n) /\ I \subseteq 1..n
    BY FS_Interval
  <2>2. IsFiniteSet(I)
    BY <2>1, FS_Subset
  <2> QED
    BY <2>2
<1>2. Hits(r, I, X) = Hits(s, I, X)
  <2>1. Alike(r, s, I)
    BY DEF Alike, Changed
  <2> HIDE DEF I
  <2> QED
    BY <2>1, HitsSame
<1> HIDE DEF I
<1>3. Hits(s, I \cup {i}, X) = Hits(s, I, X) + Hit(s, i, X)
  BY <1>1, HitsMore
<1>4. Hits(r, I \cup {i}, X) = Hits(r, I, X) + Hit(r, i, X)
  BY <1>1, HitsMore
<1>5. Hits(s, I, X) \in Nat
  BY <1>1, HitsType
<1>6. Hit(s, i, X) \in Int /\ Hit(r, i, X) \in Int
  BY DEF Hit
<1>7. Hits(s, 1..n, X) = Hits(s, I, X) + Hit(s, i, X) /\ Hits(r, 1..n, X) = Hits(s, I, X) + Hit(r, i, X)
  BY <1>1, <1>2, <1>3, <1>4
<1> QED
  BY <1>5, <1>6, <1>7

\* An exchange moves none.
LEMMA SwapKeeps ==
  ASSUME NEW s \in Seq(Element), NEW r, NEW i \in 1..Len(s), NEW j \in 1..Len(s), Exchanged(s, r, i, j)
  PROVE  SameBag(r, s)
<1>0. PICK n : n = Len(s)
  OBVIOUS
<1>1. n \in Nat /\ i \in 1..n /\ j \in 1..n
  BY <1>0, Numbers
<1>2. PICK q : q = [k \in 1..n |-> IF k = i THEN s[j] ELSE s[k]]
  OBVIOUS
<1>3. SUFFICES ASSUME NEW X PROVE Hits(r, 1..n, X) = Hits(s, 1..n, X)
  BY <1>0 DEF SameBag, Exchanged
<1>4. Hits(q, 1..n, X) = Hits(s, 1..n, X) - Hit(s, i, X) + Hit(q, i, X)
  <2>1. Changed(s, q, n, i)
    BY <1>2 DEF Changed
  <2> QED
    BY <1>1, <2>1, HitsAssigned
<1>5. Hits(r, 1..n, X) = Hits(q, 1..n, X) - Hit(q, j, X) + Hit(r, j, X)
  <2>1. Changed(q, r, n, j)
    BY <1>0, <1>2 DEF Changed, Exchanged
  <2> QED
    BY <1>1, <2>1, HitsAssigned
<1>6. Hit(q, j, X) = Hit(s, j, X) /\ Hit(q, i, X) = Hit(s, j, X) /\ Hit(r, j, X) = Hit(s, i, X)
  <2>1. q[j] = s[j] /\ q[i] = s[j] /\ r[j] = s[i]
    BY <1>0, <1>1, <1>2 DEF Exchanged
  <2> QED
    BY <2>1 DEF Hit
<1>7. Hits(s, 1..n, X) \in Nat
  <2> IsFiniteSet(1..n)
    BY <1>1, FS_Interval
  <2> QED
    BY HitsType
<1>8. Hit(s, i, X) \in Int /\ Hit(s, j, X) \in Int
  BY DEF Hit
<1> QED
  BY <1>4, <1>5, <1>6, <1>7, <1>8

\* Permuted says the same of single elements.
LEMMA BagPermuted ==
  ASSUME NEW s \in Seq(Element), NEW t \in Seq(Element), SameBag(s, t)
  PROVE  Permuted(s, t)
<1>1. DOMAIN s = 1..Len(s) /\ DOMAIN t = 1..Len(t)
  BY Numbers
<1>2. ASSUME NEW x \in Element PROVE Count(s, x) = Count(t, x)
  <2>1. Hits(s, 1..Len(s), {x}) = Hits(t, 1..Len(t), {x})
    BY DEF SameBag
  <2>2. {k \in DOMAIN s : s[k] = x} = {j \in 1..Len(s) : s[j] \in {x}}
    BY <1>1
  <2>3. {k \in DOMAIN t : t[k] = x} = {j \in 1..Len(t) : t[j] \in {x}}
    BY <1>1
  <2> QED
    BY <2>1, <2>2, <2>3 DEF Count, Hits
<1> QED
  BY <1>2 DEF Permuted, SameBag

\* The elements in the places I are at most the one in place e, and all others at least.
Ranks(s, I, e) ==
  /\ e \in 1..Len(s) /\ I \subseteq 1..Len(s) /\ e \notin I
  /\ \A i \in I : s[i] <= s[e]
  /\ \A i \in (1..Len(s)) \ I : s[e] <= s[i]

\* Then e holds what its rank holds when the elements are sorted.
LEMMA RankIs ==
  ASSUME NEW s \in Seq(Int), NEW t \in Seq(Int), SameBag(s, t), Sorted(t), NEW e, NEW I, Ranks(s, I, e)
  PROVE  Cardinality(I) + 1 \in 1..Len(s) /\ t[Cardinality(I) + 1] = s[e]
<1> DEFINE n == Len(s)  R == (1..n) \ I
<1>0. PICK p : p = Cardinality(I) + 1
  OBVIOUS
<1>1. /\ n \in Nat /\ Len(t) = n /\ DOMAIN t = 1..n
      /\ \A k \in 1..n : s[k] \in Int /\ t[k] \in Int
  BY DEF SameBag
<1>2. \A X : Hits(s, 1..n, X) = Hits(t, 1..n, X)
  BY <1>1 DEF SameBag
<1>3. \A i, j \in 1..n : i < j => t[i] <= t[j]
  BY <1>1 DEF Sorted
<1>f. IsFiniteSet(1..n) /\ Cardinality(1..n) = n /\ I \subseteq 1..n /\ e \in 1..n
  <2>1. 1 \in Int /\ n \in Int /\ n - 1 + 1 = n /\ n >= 1
    BY <1>1 DEF Ranks
  <2>3. I \subseteq 1..n /\ e \in 1..n
    BY DEF Ranks
  <2> HIDE DEF n
  <2>2. IsFiniteSet(1..n) /\ Cardinality(1..n) = IF 1 > n THEN 0 ELSE n - 1 + 1
    BY <2>1, FS_Interval
  <2> QED
    BY <2>1, <2>2, <2>3
<1>4. /\ p \in 1..n /\ IsFiniteSet(I \cup {e}) /\ Cardinality(I \cup {e}) = p
      /\ IsFiniteSet(R) /\ Cardinality(R) = n - p + 1
  <2> HIDE DEF n
  <2>1. IsFiniteSet(I) /\ IsFiniteSet(R) /\ I \cap R = {} /\ I \cup R = 1..n
    BY <1>f, FS_Subset
  <2>2. Cardinality(I) \in Nat /\ Cardinality(R) \in Nat
    BY <2>1, FS_CardinalityType
  <2>3. IsFiniteSet(I \cup {e}) /\ Cardinality(I \cup {e}) = Cardinality(I) + 1
    BY <2>1, FS_AddElement DEF Ranks
  <2>4. Cardinality(1..n) = Cardinality(I) + Cardinality(R) - Cardinality(I \cap R) /\ Cardinality(I \cap R) = 0
    BY <2>1, FS_Union, FS_EmptySet
  <2>5. I \cup {e} \subseteq 1..n
    BY <1>f
  <2>6. Cardinality(I \cup {e}) <= n
    BY <2>5, <1>f, FS_Subset
  <2>7. n \in Nat /\ Cardinality(1..n) = n
    BY <1>1, <1>f
  <2> HIDE DEF R
  <2>8. PICK c, d : c = Cardinality(I) /\ d = Cardinality(R)
    OBVIOUS
  <2>9. c \in Nat /\ d \in Nat /\ n \in Nat /\ n = c + d - 0 /\ p = c + 1 /\ c + 1 <= n
    BY <2>2, <2>3, <2>4, <2>6, <2>7, <2>8, <1>0
  <2>10. p \in 1..n /\ d = n - p + 1
    BY <2>9
  <2> QED
    BY <2>1, <2>3, <2>8, <2>9, <2>10
<1>p. p \in Int /\ 1 <= p /\ p <= n /\ n \in Int
  BY <1>1, <1>4
<1>5. ~ (t[p] > s[e])
  <2> SUFFICES ASSUME t[p] > s[e] PROVE FALSE
    OBVIOUS
  <2> DEFINE X == {v \in Int : v <= s[e]}  S == {j \in 1..n : s[j] \in X}  T == {j \in 1..n : t[j] \in X}
  <2>1. I \cup {e} \subseteq S
    BY <1>1, <1>f DEF Ranks
  <2>2. T \subseteq 1..p - 1
    <3> SUFFICES ASSUME NEW j \in 1..n, t[j] <= s[e] PROVE j < p
      BY <1>1, <1>p
    <3>1. t[p] \in Int /\ t[j] \in Int /\ s[e] \in Int
      BY <1>1, <1>4, <1>f
    <3> QED
      BY <3>1, <1>1, <1>3, <1>4, SMTT(20)
  <2>3. IsFiniteSet(S) /\ Cardinality(S) = Cardinality(T)
    <3>1. S \subseteq 1..n
      OBVIOUS
    <3>2. Cardinality(S) = Cardinality(T)
      BY <1>2 DEF Hits
    <3> HIDE DEF S, n
    <3> QED
      BY <1>f, <3>1, <3>2, FS_Subset
  <2> HIDE DEF S, T, X, n
  <2>4. IsFiniteSet(1..p - 1) /\ Cardinality(1..p - 1) = p - 1
    <3>1. 1 \in Int /\ p - 1 \in Int /\ p - 1 >= 0
      BY <1>1, <1>4
    <3>2. IsFiniteSet(1..p - 1) /\ Cardinality(1..p - 1) = IF 1 > p - 1 THEN 0 ELSE (p - 1) - 1 + 1
      BY <3>1, FS_Interval
    <3> QED
      BY <3>1, <3>2
  <2>5. Cardinality(I \cup {e}) <= Cardinality(S) /\ Cardinality(T) <= Cardinality(1..p - 1)
    BY <2>1, <2>2, <2>3, <2>4, FS_Subset
  <2>6. Cardinality(S) \in Int /\ p \in Int
    BY <2>3, <1>4, FS_CardinalityType
  <2> QED
    BY <2>3, <2>4, <2>5, <2>6, <1>4
<1>6. ~ (t[p] < s[e])
  <2> SUFFICES ASSUME t[p] < s[e] PROVE FALSE
    OBVIOUS
  <2> DEFINE X == {v \in Int : v >= s[e]}  S == {j \in 1..n : s[j] \in X}  T == {j \in 1..n : t[j] \in X}
  <2>1. R \subseteq S
    BY <1>1, <1>f DEF Ranks
  <2>2. T \subseteq p + 1..n
    <3> SUFFICES ASSUME NEW j \in 1..n, t[j] >= s[e] PROVE p < j
      BY <1>1, <1>p
    <3>1. t[p] \in Int /\ t[j] \in Int /\ s[e] \in Int
      BY <1>1, <1>4, <1>f
    <3> QED
      BY <3>1, <1>1, <1>3, <1>4, SMTT(30)
  <2>3. IsFiniteSet(S) /\ Cardinality(S) = Cardinality(T)
    <3>1. S \subseteq 1..n
      OBVIOUS
    <3>2. Cardinality(S) = Cardinality(T)
      BY <1>2 DEF Hits
    <3> HIDE DEF S, n
    <3> QED
      BY <1>f, <3>1, <3>2, FS_Subset
  <2> HIDE DEF S, T, X, R, n
  <2>4. IsFiniteSet(p + 1..n) /\ Cardinality(p + 1..n) = n - p
    <3>1. p + 1 \in Int /\ n \in Int /\ p <= n
      BY <1>1, <1>4
    <3>2. IsFiniteSet(p + 1..n) /\ Cardinality(p + 1..n) = IF p + 1 > n THEN 0 ELSE n - (p + 1) + 1
      BY <3>1, FS_Interval
    <3> QED
      BY <3>1, <3>2, <1>4
  <2>5. Cardinality(R) <= Cardinality(S) /\ Cardinality(T) <= Cardinality(p + 1..n)
    BY <2>1, <2>2, <2>3, <2>4, FS_Subset
  <2>6. Cardinality(S) \in Int /\ p \in Int /\ n \in Int
    BY <2>3, <1>1, <1>4, FS_CardinalityType
  <2> QED
    BY <2>3, <2>4, <2>5, <2>6, <1>4
<1>7. t[p] = s[e]
  <2>1. t[p] \in Int /\ s[e] \in Int
    BY <1>1, <1>4, <1>f
  <2> QED
    BY <2>1, <1>5, <1>6
<1> QED
  BY <1>0, <1>4, <1>7

\* A place of s that parts its elements holds what it holds when they are sorted.
LEMMA ParterIs ==
  ASSUME NEW s \in Seq(Int), NEW t \in Seq(Int), SameBag(s, t), Sorted(t), NEW p \in 1..Len(s),
         \A i \in 1..Len(s) : (i < p => s[i] <= s[p]) /\ (i > p => s[p] <= s[i])
  PROVE  t[p] = s[p]
<1> DEFINE I == 1..p - 1
<1>1. p \in Int /\ 1 <= p /\ Len(s) \in Int /\ p <= Len(s) /\ s[p] \in Int
  OBVIOUS
<1>2. I \subseteq 1..Len(s) /\ p \notin I /\ (\A i \in I : s[i] <= s[p]) /\ \A i \in (1..Len(s)) \ I : s[p] <= s[i]
  <2>1. \A i \in I : i \in 1..Len(s) /\ i < p
    BY <1>1
  <2>2. \A i \in (1..Len(s)) \ I : i = p \/ i > p
    BY <1>1
  <2>3. s[p] <= s[p]
    BY <1>1
  <2> QED
    BY <2>1, <2>2, <2>3
<1>3. Cardinality(I) = p - 1
  <2>1. 1 \in Int /\ p - 1 \in Int
    BY <1>1
  <2>2. Cardinality(1..p - 1) = IF 1 > p - 1 THEN 0 ELSE (p - 1) - 1 + 1
    BY <2>1, FS_Interval
  <2> QED
    BY <2>2, <1>1
<1>r. Ranks(s, I, p)
  BY <1>2 DEF Ranks
<1> HIDE DEF I
<1>4. t[Cardinality(I) + 1] = s[p]
  BY <1>r, RankIs
<1> QED
  BY <1>1, <1>3, <1>4

\* There is one way to sort.
LEMMA SortedOnce ==
  ASSUME NEW s \in Seq(Int), NEW t \in Seq(Int), SameBag(s, t), Sorted(s), Sorted(t)
  PROVE  s = t
<1>1. Len(s) = Len(t) /\ Len(s) \in Nat /\ DOMAIN s = 1..Len(s)
  BY DEF SameBag
<1>2. \A p \in 1..Len(s) : t[p] = s[p]
  <2> SUFFICES ASSUME NEW p \in 1..Len(s) PROVE t[p] = s[p]
    OBVIOUS
  <2>1. \A i \in 1..Len(s) : (i < p => s[i] <= s[p]) /\ (i > p => s[p] <= s[i])
    BY <1>1 DEF Sorted
  <2> QED
    BY <2>1, ParterIs
<1> QED
  BY <1>1, <1>2

\* Elements are numbers.
LEMMA IntSeq ==
  ASSUME NEW s \in Seq(Element)
  PROVE  s \in Seq(Int)
BY Numbers

-----------------------------------------------------------------------------
(* MPSort.                                                                 *)

\* From the place after m on, s is sorted, and has nothing before it that is greater.
InPlace(s, m) == \A p, q \in 1..Len(s) : p < q /\ m < q => s[p] <= s[q]

\* One turn of the inner loop of MPSort, all its turns, and its states.
StepPass(n, v) ==
  IF v.j < n - v.i - 1
  THEN [v EXCEPT !.j = @ + 1,
                 !.s = IF At(@, v.j) > At(@, v.j + 1) THEN Swap(@, v.j, v.j + 1) ELSE @]
  ELSE v
LoopPass(n, w) ==
  CHOOSE f : f = [k \in 0..n |-> IF k = 0 THEN w ELSE StepPass(n, f[k - 1])]
Ahead(s, j) == \A k \in 1..j : s[k] <= s[j + 1]
StatesPass(s, i) ==
  {w \in [s : Seq(Element), i : {i}, j : 0..Len(s) - i - 1] :
     SameBag(w.s, s) /\ InPlace(w.s, Len(s) - i) /\ Ahead(w.s, w.j)}

\* The same of the outer loop.
StepSort(n, w) ==
  IF w.i < n - 1 THEN [LoopPass(n, [w EXCEPT !.j = 0])[n] EXCEPT !.i = w.i + 1] ELSE w
StartSort(s) == [s |-> s, i |-> 0, j |-> 0]
LoopSort(s) ==
  CHOOSE f : f = [k \in 0..Len(s) |-> IF k = 0 THEN StartSort(s) ELSE StepSort(Len(s), f[k - 1])]
StatesSort(s) ==
  {w \in [s : Seq(Element), i : 0..Len(s), j : Nat] :
     SameBag(w.s, s) /\ InPlace(w.s, Len(s) - w.i) /\ (w.i < Len(s) \/ Len(s) = 0)}

\* Having the same elements is an equivalence.
LEMMA SameBags ==
  /\ \A s : SameBag(s, s)
  /\ \A s, t : SameBag(s, t) => SameBag(t, s)
  /\ \A s, t, u : SameBag(s, t) /\ SameBag(t, u) => SameBag(s, u)
BY DEF SameBag

\* A turn of the inner loop keeps to the states and goes on.
LEMMA TurnPass ==
  ASSUME NEW s \in Seq(Element), NEW i0 \in Nat, i0 < Len(s) - 1, NEW w \in StatesPass(s, i0)
  PROVE  LET v == StepPass(Len(s), w) IN
         v \in StatesPass(s, i0) /\ IF w.j < Len(s) - i0 - 1 THEN v.j = w.j + 1 ELSE v = w
<1> DEFINE v == StepPass(Len(s), w)
<1>0. PICK n, t, i, j : n = Len(s) /\ t = w.s /\ i = w.i /\ j = w.j
  OBVIOUS
<1>1. /\ n \in Nat /\ t \in Seq(Element) /\ i = i0 /\ i < n - 1 /\ j \in 0..n - i - 1
      /\ w = [s |-> t, i |-> i, j |-> j] /\ SameBag(t, s) /\ InPlace(t, n - i) /\ Ahead(t, j)
  BY <1>0, Numbers DEF StatesPass
<1>2. /\ Len(t) = n /\ \A k \in 1..n : t[k] \in Int
      /\ \A p, q \in 1..n : p < q /\ n - i < q => t[p] <= t[q]
      /\ \A k \in 1..j : t[k] <= t[j + 1]
  BY <1>0, <1>1, Numbers DEF InPlace, Ahead, SameBag
<1>3. CASE ~ (j < n - i - 1)
  BY <1>0, <1>1, <1>3 DEF StepPass
<1>4. CASE j < n - i - 1
  <2>1. j \in 0..n - 1 /\ j + 1 \in 0..n - 1 /\ j + 1 \in 1..n /\ j + 2 \in 1..n
        /\ (j + 1) + 1 = j + 2 /\ j + 1 \in 0..n - i - 1
    BY <1>1, <1>4
  <2>2. PICK u : u = IF t[j + 1] > t[j + 2] THEN Swap(t, j, j + 1) ELSE t
    OBVIOUS
  <2>3. v = [s |-> u, i |-> i, j |-> j + 1]
    BY <1>0, <1>1, <1>4, <2>1, <2>2 DEF StepPass, At
  <2>4. CASE t[j + 1] > t[j + 2]
    <3>1. Exchanged(t, u, j + 1, j + 2)
      <4>1. Exchanged(t, Swap(t, j, j + 1), j + 1, (j + 1) + 1)
        BY <1>1, <1>2, <2>1, SwapIs
      <4> QED
        BY <4>1, <2>1, <2>2, <2>4
    <3>2. SameBag(u, t)
      BY <3>1, <1>1, <1>2, <2>1, SwapKeeps
    <3>3. /\ u \in Seq(Element) /\ Len(u) = n
          /\ \A k \in 1..n : u[k] = IF k = j + 2 THEN t[j + 1] ELSE IF k = j + 1 THEN t[j + 2] ELSE t[k]
      BY <3>1, <1>2 DEF Exchanged
    <3>4. InPlace(u, n - i)
      <4> SUFFICES ASSUME NEW p \in 1..n, NEW q \in 1..n, p < q, n - i < q PROVE u[p] <= u[q]
        BY <3>3 DEF InPlace
      <4>1. u[q] = t[q]
        BY <1>1, <1>4, <2>1, <3>3, SMTT(20)
      <4>2. PICK r \in 1..n : r < q /\ u[p] = t[r]
        <5>1. CASE p = j + 2
          BY <5>1, <2>1, <3>3
        <5>2. CASE p = j + 1
          <6>1. j + 2 < q
            BY <1>1, <1>4
          <6> QED
            BY <5>2, <6>1, <2>1, <3>3
        <5>3. CASE p # j + 1 /\ p # j + 2
          BY <5>3, <3>3
        <5> QED
          BY <5>1, <5>2, <5>3
      <4> QED
        BY <4>1, <4>2, <1>2
    <3>5. Ahead(u, j + 1)
      <4> SUFFICES ASSUME NEW k \in 1..j + 1 PROVE u[k] <= u[j + 2]
        BY <2>1 DEF Ahead
      <4>1. u[j + 2] = t[j + 1] /\ u[j + 1] = t[j + 2] /\ k \in 1..n
        BY <2>1, <3>3
      <4>2. CASE k = j + 1
        BY <4>1, <4>2, <2>1, <2>4, <1>2
      <4>3. CASE k # j + 1
        <5>1. k \in 1..j /\ u[k] = t[k]
          BY <4>1, <4>3, <2>1, <3>3
        <5> QED
          BY <4>1, <5>1, <1>2
      <4> QED
        BY <4>2, <4>3
    <3> QED
      BY <1>0, <1>1, <1>4, <2>1, <2>3, <3>2, <3>3, <3>4, <3>5, SameBags DEF StatesPass
  <2>5. CASE ~ (t[j + 1] > t[j + 2])
    <3>1. u = t
      BY <2>2, <2>5
    <3>2. Ahead(t, j + 1)
      <4> SUFFICES ASSUME NEW k \in 1..j + 1 PROVE t[k] <= t[j + 2]
        BY <2>1 DEF Ahead
      <4>1. t[j + 1] <= t[j + 2] /\ t[k] \in Int /\ t[j + 1] \in Int /\ t[j + 2] \in Int
        BY <1>2, <2>1, <2>5
      <4>2. CASE k = j + 1
        BY <4>1, <4>2
      <4>3. CASE k # j + 1
        <5>1. k \in 1..j
          BY <4>3, <2>1
        <5> QED
          BY <4>1, <5>1, <1>2
      <4> QED
        BY <4>2, <4>3
    <3> QED
      BY <1>0, <1>1, <1>4, <2>1, <2>3, <3>1, <3>2 DEF StatesPass
  <2> QED
    BY <2>4, <2>5
<1> QED
  BY <1>3, <1>4

\* What the inner loop leaves.
Passed(s, i, v) ==
  v \in [s : Seq(Element), i : {i}, j : Nat] /\ SameBag(v.s, s) /\ InPlace(v.s, Len(s) - (i + 1))

\* The inner loop takes a greatest element to the end of what is not sorted yet.
LEMMA PassIs ==
  ASSUME NEW s \in Seq(Element), NEW i \in Nat, i < Len(s) - 1, NEW w, w \in StatesPass(s, i), w.j = 0
  PROVE  Passed(s, i, LoopPass(Len(s), w)[Len(s)])
<1> DEFINE n == Len(s)  g == LoopPass(n, w)  D == StatesPass(s, i)
           G == [v \in D |-> StepPass(n, v)]  M == [v \in D |-> n - i - 1 - v.j]
<1>1. n \in Nat /\ w \in D /\ w.j = 0
  BY Numbers
<1>2. \A v \in D : v.j \in 0..n - i - 1
  BY DEF StatesPass
<1>3. \A v \in D : StepPass(n, v) \in D /\ IF v.j < n - i - 1 THEN StepPass(n, v).j = v.j + 1 ELSE StepPass(n, v) = v
  BY TurnPass
<1>4. G \in [D -> D] /\ M \in [D -> Nat] /\ M[w] <= n /\ \A v \in D : G[v] = v \/ M[G[v]] < M[v]
  <2> HIDE DEF D
  <2> QED
    BY <1>1, <1>2, <1>3
<1>p. PICK f : EndsAs(n, D, G, w, f)
  <2> HIDE DEF D, G, M
  <2> QED
    BY <1>1, <1>4, LoopRule
<1>5. /\ f \in [0..n -> D] /\ f[0] = w /\ \A d \in 1..n : f[d] = G[f[d - 1]]
      /\ f[n] \in D /\ G[f[n]] = f[n]
      /\ \A p : Follows(n, D, G, p) /\ p[0] = w => p[n] = f[n]
  BY <1>p DEF EndsAs
<1>6. g[n] = f[n]
  <2>1. f = [k \in 0..n |-> IF k = 0 THEN w ELSE StepPass(n, f[k - 1])]
    <3>1. \A d \in 1..n : d - 1 \in 0..n
      BY <1>1
    <3>2. \A d \in 1..n : f[d] = StepPass(n, f[d - 1])
      BY <1>5, <3>1
    <3> HIDE DEF D
    <3> QED
      BY <1>5, <3>2, <1>1
  <2>2. g = [k \in 0..n |-> IF k = 0 THEN w ELSE StepPass(n, g[k - 1])]
    BY <2>1 DEF LoopPass
  <2>3. g[0] = w /\ \A d \in 1..n : g[d] = StepPass(n, g[d - 1])
    BY <2>2, <1>1
  <2>4. Follows(n, D, G, g)
    BY <2>3 DEF Follows
  <2> HIDE DEF D, G, g
  <2> QED
    BY <1>5, <2>3, <2>4
<1>7. PICK v : v = f[n]
  OBVIOUS
<1>8. v \in D /\ StepPass(n, v) = v
  BY <1>5, <1>7
<1>9. v.j = n - i - 1
  <2>1. v.j \in 0..n - i - 1
    BY <1>8, <1>2
  <2>2. v.j < n - i - 1 => v.j = v.j + 1
    BY <1>3, <1>8
  <2> QED
    BY <2>1, <2>2, <1>1
<1> HIDE DEF G, M
<1>10. /\ v \in [s : Seq(Element), i : {i}, j : Nat] /\ SameBag(v.s, s)
       /\ InPlace(v.s, n - i) /\ Ahead(v.s, v.j)
  BY <1>8, <1>1 DEF StatesPass
<1>11. InPlace(v.s, n - (i + 1))
  <2>1. Len(v.s) = n
    BY <1>10 DEF SameBag
  <2> SUFFICES ASSUME NEW p \in 1..n, NEW q \in 1..n, p < q, n - (i + 1) < q PROVE v.s[p] <= v.s[q]
    BY <2>1 DEF InPlace
  <2>2. CASE n - i < q
    BY <2>1, <2>2, <1>10 DEF InPlace
  <2>3. CASE ~ (n - i < q)
    <3>1. q = v.j + 1 /\ p \in 1..v.j
      BY <1>1, <1>9, <2>3
    <3> QED
      BY <3>1, <1>10 DEF Ahead
  <2> QED
    BY <2>2, <2>3
<1> QED
  BY <1>6, <1>7, <1>10, <1>11 DEF Passed

\* A turn of the outer loop keeps to the states and goes on.
LEMMA TurnSort ==
  ASSUME NEW s \in Seq(Element), NEW w \in StatesSort(s)
  PROVE  LET v == StepSort(Len(s), w) IN
         v \in StatesSort(s) /\ IF w.i < Len(s) - 1 THEN v.i = w.i + 1 ELSE v = w
<1> DEFINE v == StepSort(Len(s), w)
<1>0. PICK n, t, i, j : n = Len(s) /\ t = w.s /\ i = w.i /\ j = w.j
  OBVIOUS
<1>1. /\ n \in Nat /\ t \in Seq(Element) /\ i \in 0..n /\ j \in Nat
      /\ w = [s |-> t, i |-> i, j |-> j] /\ SameBag(t, s) /\ InPlace(t, n - i)
  BY <1>0, Numbers DEF StatesSort
<1>2. CASE ~ (i < n - 1)
  BY <1>0, <1>1, <1>2 DEF StepSort
<1>3. CASE i < n - 1
  <2>1. PICK x : x = [s |-> t, i |-> i, j |-> 0]
    OBVIOUS
  <2>2. x \in StatesPass(s, i) /\ x.j = 0
    BY <1>0, <1>1, <1>3, <2>1 DEF StatesPass, Ahead
  <2>3. PICK y : y = LoopPass(n, x)[n]
    OBVIOUS
  <2>4. y \in [s : Seq(Element), i : {i}, j : Nat] /\ SameBag(y.s, s) /\ InPlace(y.s, n - (i + 1))
    <3>1. Passed(s, i, LoopPass(n, x)[n])
      BY <1>0, <1>1, <1>3, <2>2, PassIs
    <3> QED
      BY <1>0, <2>3, <3>1 DEF Passed
  <2>5. v = [y EXCEPT !.i = i + 1]
    BY <1>0, <1>1, <1>3, <2>1, <2>3, SMTT(30) DEF StepSort
  <2>6. v.s = y.s /\ v.i = i + 1 /\ v.j = y.j /\ v \in [s : Seq(Element), i : 0..n, j : Nat]
    <3>1. y.s \in Seq(Element) /\ y.j \in Nat /\ i + 1 \in 0..n
      BY <2>4, <1>1, <1>3
    <3>2. v = [s |-> y.s, i |-> i + 1, j |-> y.j]
      <4> HIDE DEF v
      <4> QED
        BY <2>4, <2>5
    <3> HIDE DEF v
    <3> QED
      BY <3>1, <3>2
  <2>7. v \in StatesSort(s)
    <3>0. i + 1 < n /\ n - (i + 1) = n - v.i
      BY <1>1, <1>3, <2>6
    <3>1. SameBag(v.s, s) /\ InPlace(v.s, n - v.i) /\ v.i < n
      <4> HIDE DEF v
      <4> QED
        BY <3>0, <2>4, <2>6
    <3> HIDE DEF v
    <3> QED
      BY <1>0, <2>6, <3>1 DEF StatesSort
  <2> QED
    BY <1>0, <1>3, <2>6, <2>7
<1> QED
  BY <1>2, <1>3

\* MPSort sorts.
SortOf(s, t) == t \in Seq(Element) /\ SameBag(t, s) /\ Sorted(t)

\* That is what it does.
LEMMA MPSortIs ==
  ASSUME NEW s \in Seq(Element)
  PROVE  SortOf(s, MPSort(s))
<1> DEFINE n == Len(s)  w0 == StartSort(s)  g == LoopSort(s)  D == StatesSort(s)
           G == [w \in D |-> StepSort(n, w)]  M == [w \in D |-> n - w.i]
<1>1. n \in Nat /\ MPSort(s) = g[n].s
  BY Numbers DEF MPSort, While, StepSort, StartSort, LoopSort, StepPass, LoopPass
<1>2. w0 \in D
  <2>1. InPlace(s, n - 0)
    BY <1>1 DEF InPlace
  <2> QED
    BY <2>1, <1>1, SameBags DEF StatesSort, StartSort
<1>3. \A v \in D : v.i \in 0..n
  BY DEF StatesSort
<1>4. \A v \in D : StepSort(n, v) \in D /\ IF v.i < n - 1 THEN StepSort(n, v).i = v.i + 1 ELSE StepSort(n, v) = v
  BY TurnSort
<1>5. G \in [D -> D] /\ M \in [D -> Nat] /\ M[w0] <= n /\ \A v \in D : G[v] = v \/ M[G[v]] < M[v]
  <2> HIDE DEF D
  <2> QED
    BY <1>1, <1>2, <1>3, <1>4
<1>p. PICK f : EndsAs(n, D, G, w0, f)
  <2> HIDE DEF D, G, M, w0
  <2> QED
    BY <1>1, <1>2, <1>5, LoopRule
<1>6. /\ f \in [0..n -> D] /\ f[0] = w0 /\ \A d \in 1..n : f[d] = G[f[d - 1]]
      /\ f[n] \in D /\ G[f[n]] = f[n]
      /\ \A p : Follows(n, D, G, p) /\ p[0] = w0 => p[n] = f[n]
  BY <1>p DEF EndsAs
<1>7. g[n] = f[n]
  <2>1. f = [k \in 0..n |-> IF k = 0 THEN w0 ELSE StepSort(n, f[k - 1])]
    <3>1. \A d \in 1..n : d - 1 \in 0..n
      BY <1>1
    <3>2. \A d \in 1..n : f[d] = StepSort(n, f[d - 1])
      BY <1>6, <3>1
    <3> HIDE DEF D
    <3> QED
      BY <1>6, <3>2, <1>1
  <2>2. g = [k \in 0..n |-> IF k = 0 THEN w0 ELSE StepSort(n, g[k - 1])]
    BY <2>1 DEF LoopSort
  <2>3. g[0] = w0 /\ \A d \in 1..n : g[d] = StepSort(n, g[d - 1])
    BY <2>2, <1>1
  <2>4. Follows(n, D, G, g)
    BY <2>3 DEF Follows
  <2> HIDE DEF D, G, g
  <2> QED
    BY <1>6, <2>3, <2>4
<1>8. PICK v : v = f[n]
  OBVIOUS
<1>9. v \in D /\ StepSort(n, v) = v
  BY <1>6, <1>8
<1>10. ~ (v.i < n - 1)
  <2>1. v.i \in 0..n
    BY <1>9, <1>3
  <2>2. v.i < n - 1 => v.i = v.i + 1
    BY <1>4, <1>9
  <2> QED
    BY <2>1, <2>2, <1>1
<1> HIDE DEF g, G, M, w0
<1>11. /\ v.s \in Seq(Element) /\ v.i \in 0..n /\ SameBag(v.s, s) /\ InPlace(v.s, n - v.i)
       /\ v.i < n \/ n = 0
  BY <1>9 DEF StatesSort
<1>12. Sorted(v.s)
  <2>1. Len(v.s) = n /\ DOMAIN v.s = 1..n
    BY <1>11, Numbers DEF SameBag
  <2> SUFFICES ASSUME NEW p \in 1..n, NEW q \in 1..n, p < q PROVE v.s[p] <= v.s[q]
    BY <2>1 DEF Sorted
  <2>2. n - v.i < q
    BY <1>1, <1>10, <1>11
  <2> QED
    BY <2>1, <2>2, <1>11 DEF InPlace
<1> QED
  BY <1>1, <1>7, <1>8, <1>11, <1>12 DEF SortOf

-----------------------------------------------------------------------------
(* test75.                                                                 *)

\* One turn of the loop of test75, all its turns, and its states.
Step75(n, w) ==
  IF w.k < n
  THEN LET x == At(w.s, w.k)
           put(on, t, i, v) == IF on THEN Put(t, i, v) ELSE t
       IN [s |-> put(x < 1, put(x < 2, Put(w.s, w.k, 2), w.i1, 1), w.i0, 0), k |-> w.k + 1,
           i1 |-> w.i1 + (IF x < 2 THEN 1 ELSE 0), i0 |-> w.i0 + (IF x < 1 THEN 1 ELSE 0)]
  ELSE w
Start75(s) == [s |-> s, k |-> 0, i1 |-> 0, i0 |-> 0]
Loop75(s) ==
  CHOOSE f : f = [k \in 0..Len(s) |-> IF k = 0 THEN Start75(s) ELSE Step75(Len(s), f[k - 1])]

\* Zeros, then ones, then twos up to k, and what has not been looked at.
Levels(s, t, k, i1, i0) ==
  /\ t \in Seq(0..2) /\ SameBag(t, s) /\ i0 <= i1 /\ i1 <= k /\ k <= Len(s)
  /\ \A p \in 1..Len(s) : t[p] = IF p <= i0 THEN 0 ELSE IF p <= i1 THEN 1 ELSE IF p <= k THEN 2 ELSE s[p]
States75(s) ==
  {w \in [s : Seq(0..2), k : Nat, i1 : Nat, i0 : Nat] : Levels(s, w.s, w.k, w.i1, w.i0)}

\* An assignment to a sequence of numbers up to two.
Levelled(t, r, i, x) ==
  /\ r \in Seq(0..2) /\ Len(r) = Len(t)
  /\ \A p \in 1..Len(t) : r[p] = IF p = i + 1 THEN x ELSE t[p]

\* That is what Put does.
LEMMA PutLevel ==
  ASSUME NEW t \in Seq(0..2), NEW i \in 0..Len(t) - 1, NEW x \in 0..2
  PROVE  Levelled(t, Put(t, i, x), i, x)
<1>1. i + 1 \in 1..Len(t)
  OBVIOUS
<1> QED
  BY <1>1 DEF Levelled, Put

\* A turn keeps to the states and goes on.
LEMMA Turn75 ==
  ASSUME NEW s \in Seq(0..2), NEW w \in States75(s)
  PROVE  LET v == Step75(Len(s), w) IN
         v \in States75(s) /\ IF w.k < Len(s) THEN v.k = w.k + 1 ELSE v = w
<1> DEFINE v == Step75(Len(s), w)
<1>0. PICK n, t, k, i1, i0 : n = Len(s) /\ t = w.s /\ k = w.k /\ i1 = w.i1 /\ i0 = w.i0
  OBVIOUS
<1>1. /\ n \in Nat /\ t \in Seq(0..2) /\ k \in 0..n /\ i1 \in 0..k /\ i0 \in 0..i1
      /\ w = [s |-> t, k |-> k, i1 |-> i1, i0 |-> i0] /\ SameBag(t, s) /\ Len(t) = n
      /\ \A p \in 1..n : t[p] = IF p <= i0 THEN 0 ELSE IF p <= i1 THEN 1 ELSE IF p <= k THEN 2 ELSE s[p]
  BY <1>0 DEF States75, Levels, SameBag
<1>2. CASE ~ (k < n)
  BY <1>0, <1>2 DEF Step75
<1>3. CASE k < n
  <2>1. k \in 0..n - 1 /\ i1 \in 0..n - 1 /\ i0 \in 0..n - 1 /\ k + 1 \in 1..n /\ i1 + 1 \in 1..n /\ i0 + 1 \in 1..n
    BY <1>1, <1>3
  <2>2. PICK x : x = t[k + 1]
    OBVIOUS
  <2>3. x \in 0..2 /\ x = s[k + 1] /\ At(t, k) = x
    BY <1>1, <2>1, <2>2 DEF At
  <2>4. PICK r2 : r2 = Put(t, k, 2)
    OBVIOUS
  <2>5. PICK r1 : r1 = IF x < 2 THEN Put(r2, i1, 1) ELSE r2
    OBVIOUS
  <2>6. PICK r0 : r0 = IF x < 1 THEN Put(r1, i0, 0) ELSE r1
    OBVIOUS
  <2>7. PICK j1, j0 : j1 = i1 + (IF x < 2 THEN 1 ELSE 0) /\ j0 = i0 + (IF x < 1 THEN 1 ELSE 0)
    OBVIOUS
  <2>8. v = [s |-> r0, k |-> k + 1, i1 |-> j1, i0 |-> j0]
    BY <1>0, <1>3, <2>3, <2>4, <2>5, <2>6, <2>7 DEF Step75
  <2>9. Levelled(t, r2, k, 2)
    BY <1>1, <2>1, <2>4, PutLevel
  <2>10. r2 \in Seq(0..2) /\ Len(r2) = n /\ \A p \in 1..n : r2[p] = IF p = k + 1 THEN 2 ELSE t[p]
    BY <1>1, <2>9 DEF Levelled
  <2>11. r1 \in Seq(0..2) /\ Len(r1) = n /\ \A p \in 1..n : r1[p] = IF p = i1 + 1 /\ x < 2 THEN 1 ELSE r2[p]
    <3>1. CASE x < 2
      <4>1. Levelled(r2, r1, i1, 1)
        BY <3>1, <2>1, <2>5, <2>10, PutLevel
      <4> QED
        BY <3>1, <4>1, <2>10 DEF Levelled
    <3>2. CASE ~ (x < 2)
      BY <3>2, <2>5, <2>10
    <3> QED
      BY <3>1, <3>2
  <2>12. r0 \in Seq(0..2) /\ Len(r0) = n /\ \A p \in 1..n : r0[p] = IF p = i0 + 1 /\ x < 1 THEN 0 ELSE r1[p]
    <3>1. CASE x < 1
      <4>1. Levelled(r1, r0, i0, 0)
        BY <3>1, <2>1, <2>6, <2>11, PutLevel
      <4> QED
        BY <3>1, <4>1, <2>11 DEF Levelled
    <3>2. CASE ~ (x < 1)
      BY <3>2, <2>6, <2>11
    <3> QED
      BY <3>1, <3>2
  <2>13. r2[k + 1] = 2 /\ r2[i1 + 1] = 2
    BY <1>1, <2>1, <2>10
  <2>14. x < 2 => r1[i1 + 1] = 1 /\ r1[i0 + 1] = 1
    BY <1>1, <2>1, <2>10, <2>11
  <2>15. x < 1 => r0[i0 + 1] = 0
    BY <2>1, <2>12
  <2>16. ASSUME NEW X PROVE Hits(r0, 1..n, X) = Hits(t, 1..n, X)
    <3> DEFINE h(z) == IF z \in X THEN 1 ELSE 0
    <3>0. \A z : h(z) \in Int
      OBVIOUS
    <3>1. Hits(r2, 1..n, X) = Hits(t, 1..n, X) - h(x) + h(2)
      <4>1. Changed(t, r2, n, k + 1)
        BY <2>10 DEF Changed
      <4>2. Hits(r2, 1..n, X) = Hits(t, 1..n, X) - Hit(t, k + 1, X) + Hit(r2, k + 1, X)
        BY <1>1, <2>1, <4>1, HitsAssigned
      <4> QED
        BY <4>2, <2>2, <2>13 DEF Hit
    <3>2. x < 2 => Hits(r1, 1..n, X) = Hits(r2, 1..n, X) - h(2) + h(1)
      <4> SUFFICES ASSUME x < 2 PROVE Hits(r1, 1..n, X) = Hits(r2, 1..n, X) - h(2) + h(1)
        OBVIOUS
      <4>1. Changed(r2, r1, n, i1 + 1)
        BY <2>11 DEF Changed
      <4>2. Hits(r1, 1..n, X) = Hits(r2, 1..n, X) - Hit(r2, i1 + 1, X) + Hit(r1, i1 + 1, X)
        BY <1>1, <2>1, <4>1, HitsAssigned
      <4> QED
        BY <4>2, <2>13, <2>14 DEF Hit
    <3>3. x < 1 => Hits(r0, 1..n, X) = Hits(r1, 1..n, X) - h(1) + h(0)
      <4> SUFFICES ASSUME x < 1 PROVE Hits(r0, 1..n, X) = Hits(r1, 1..n, X) - h(1) + h(0)
        OBVIOUS
      <4>1. Changed(r1, r0, n, i0 + 1)
        BY <2>12 DEF Changed
      <4>2. Hits(r0, 1..n, X) = Hits(r1, 1..n, X) - Hit(r1, i0 + 1, X) + Hit(r0, i0 + 1, X)
        BY <1>1, <2>1, <4>1, HitsAssigned
      <4>3. x < 2
        BY <2>3
      <4> QED
        BY <4>2, <4>3, <2>14, <2>15 DEF Hit
    <3>4. (~ (x < 2) => r1 = r2) /\ (~ (x < 1) => r0 = r1)
      BY <2>5, <2>6
    <3>5. Hits(t, 1..n, X) \in Int
      <4> IsFiniteSet(1..n)
        BY <1>1, FS_Interval
      <4> QED
        BY HitsType
    <3>6. x = 0 \/ x = 1 \/ x = 2
      BY <2>3
    <3> HIDE DEF h
    <3>7. CASE x = 0
      BY <3>7, <3>0, <3>1, <3>2, <3>3, <3>5
    <3>8. CASE x = 1
      <4>1. r0 = r1
        BY <3>4, <3>8
      <4> QED
        BY <4>1, <3>8, <3>0, <3>1, <3>2, <3>5
    <3>9. CASE x = 2
      <4>1. r0 = r2
        BY <3>4, <3>9
      <4> QED
        BY <4>1, <3>9, <3>0, <3>1, <3>5
    <3> QED
      BY <3>6, <3>7, <3>8, <3>9
  <2>17. SameBag(r0, s)
    <3>1. SameBag(r0, t)
      BY <2>12, <2>16, <1>1 DEF SameBag
    <3> QED
      BY <3>1, <1>1, SameBags
  <2>18. j0 \in Nat /\ j1 \in Nat /\ k + 1 \in Nat /\ j0 <= j1 /\ j1 <= k + 1 /\ k + 1 <= n
    BY <1>1, <1>3, <2>3, <2>7
  <2>19. \A p \in 1..n : r0[p] = IF p <= j0 THEN 0 ELSE IF p <= j1 THEN 1 ELSE IF p <= k + 1 THEN 2 ELSE s[p]
    <3> SUFFICES ASSUME NEW p \in 1..n
          PROVE  r0[p] = IF p <= j0 THEN 0 ELSE IF p <= j1 THEN 1 ELSE IF p <= k + 1 THEN 2 ELSE s[p]
      OBVIOUS
    <3>1. r0[p] = IF p = i0 + 1 /\ x < 1 THEN 0 ELSE IF p = i1 + 1 /\ x < 2 THEN 1
                  ELSE IF p = k + 1 THEN 2 ELSE t[p]
      BY <2>10, <2>11, <2>12
    <3>2. t[p] = IF p <= i0 THEN 0 ELSE IF p <= i1 THEN 1 ELSE IF p <= k THEN 2 ELSE s[p]
      BY <1>1
    <3>3. x = 0 \/ x = 1 \/ x = 2
      BY <2>3
    <3> QED
      BY <3>1, <3>2, <3>3, <2>7, <1>1, <1>3
  <2> QED
    <3>1. v \in States75(s)
      BY <1>0, <2>8, <2>12, <2>17, <2>18, <2>19 DEF States75, Levels
    <3> QED
      BY <3>1, <1>0, <1>3, <2>8
<1> QED
  BY <1>2, <1>3

\* test75 sorts.
LEMMA test75Is ==
  ASSUME NEW s \in Seq(0..2)
  PROVE  LET t == test75(s) IN t \in Seq(0..2) /\ SameBag(t, s) /\ Sorted(t)
<1> DEFINE n == Len(s)  w0 == Start75(s)  g == Loop75(s)  D == States75(s)
           G == [w \in D |-> Step75(n, w)]  M == [w \in D |-> n - w.k]
<1>1. n \in Nat /\ test75(s) = g[n].s
  BY DEF test75, While, Step75, Start75, Loop75
<1>2. w0 \in D
  <2>1. \A p \in 1..n : s[p] = IF p <= 0 THEN 0 ELSE IF p <= 0 THEN 1 ELSE IF p <= 0 THEN 2 ELSE s[p]
    OBVIOUS
  <2>2. Levels(s, s, 0, 0, 0)
    BY <2>1, <1>1, SameBags DEF Levels
  <2> QED
    BY <2>2 DEF States75, Start75
<1>3. \A v \in D : v.k \in 0..n
  BY <1>1 DEF States75, Levels
<1>4. \A v \in D : Step75(n, v) \in D /\ IF v.k < n THEN Step75(n, v).k = v.k + 1 ELSE Step75(n, v) = v
  BY Turn75
<1>5. G \in [D -> D] /\ M \in [D -> Nat] /\ M[w0] <= n /\ \A v \in D : G[v] = v \/ M[G[v]] < M[v]
  <2> HIDE DEF D
  <2> QED
    BY <1>1, <1>2, <1>3, <1>4
<1>p. PICK f : EndsAs(n, D, G, w0, f)
  <2> HIDE DEF D, G, M, w0
  <2> QED
    BY <1>1, <1>2, <1>5, LoopRule
<1>6. /\ f \in [0..n -> D] /\ f[0] = w0 /\ \A d \in 1..n : f[d] = G[f[d - 1]]
      /\ f[n] \in D /\ G[f[n]] = f[n]
      /\ \A p : Follows(n, D, G, p) /\ p[0] = w0 => p[n] = f[n]
  BY <1>p DEF EndsAs
<1>7. g[n] = f[n]
  <2>1. f = [k \in 0..n |-> IF k = 0 THEN w0 ELSE Step75(n, f[k - 1])]
    <3>1. \A d \in 1..n : d - 1 \in 0..n
      BY <1>1
    <3>2. \A d \in 1..n : f[d] = Step75(n, f[d - 1])
      BY <1>6, <3>1
    <3> HIDE DEF D
    <3> QED
      BY <1>6, <3>2, <1>1
  <2>2. g = [k \in 0..n |-> IF k = 0 THEN w0 ELSE Step75(n, g[k - 1])]
    BY <2>1 DEF Loop75
  <2>3. g[0] = w0 /\ \A d \in 1..n : g[d] = Step75(n, g[d - 1])
    BY <2>2, <1>1
  <2>4. Follows(n, D, G, g)
    BY <2>3 DEF Follows
  <2> HIDE DEF D, G, g
  <2> QED
    BY <1>6, <2>3, <2>4
<1>8. PICK v : v = f[n]
  OBVIOUS
<1>9. v \in D /\ Step75(n, v) = v
  BY <1>6, <1>8
<1>10. v.k = n
  <2>1. v.k \in 0..n
    BY <1>9, <1>3
  <2>2. v.k < n => v.k = v.k + 1
    BY <1>4, <1>9
  <2> QED
    BY <2>1, <2>2, <1>1
<1> HIDE DEF g, G, M, w0
<1>11. /\ v.s \in Seq(0..2) /\ v.i1 \in Nat /\ v.i0 \in Nat /\ v.i0 <= v.i1 /\ SameBag(v.s, s)
       /\ \A p \in 1..n : v.s[p] = IF p <= v.i0 THEN 0 ELSE IF p <= v.i1 THEN 1 ELSE 2
  BY <1>1, <1>9, <1>10 DEF States75, Levels
<1>12. Sorted(v.s)
  <2>1. DOMAIN v.s = 1..n
    BY <1>11 DEF SameBag
  <2> SUFFICES ASSUME NEW p \in 1..n, NEW q \in 1..n, p < q PROVE v.s[p] <= v.s[q]
    BY <2>1 DEF Sorted
  <2> QED
    BY <1>1, <1>11
<1> QED
  BY <1>1, <1>7, <1>8, <1>11, <1>12

\* Both sort, and there is one way to sort.
LEMMA test75Sorts ==
  ASSUME NEW s \in Seq(Element), \A k \in DOMAIN s : s[k] \in 0..2
  PROVE  test75(s) = MPSort(s)
<1>1. s \in Seq(0..2)
  BY Numbers
<1>2. PICK t, u : t = test75(s) /\ u = MPSort(s)
  OBVIOUS
<1>3. t \in Seq(0..2) /\ SameBag(t, s) /\ Sorted(t)
  BY <1>1, <1>2, test75Is
<1>4. u \in Seq(Element) /\ SameBag(u, s) /\ Sorted(u)
  BY <1>2, MPSortIs DEF SortOf
<1>5. t \in Seq(Int) /\ u \in Seq(Int)
  BY <1>3, <1>4, IntSeq
<1>6. SameBag(t, u)
  BY <1>3, <1>4, SameBags
<1> QED
  BY <1>2, <1>3, <1>4, <1>5, <1>6, SortedOnce

-----------------------------------------------------------------------------
(* FindIndex.                                                              *)

\* One turn of the loop of FindIndex, all its turns, and its states when it is given
\* the whole array.
StepIndex(s, end, v) ==
  IF v.i < end
  THEN IF At(v.s, v.i) < At(s, end)
       THEN [s |-> Swap(v.s, v.start + 1, v.i), i |-> v.i + 1, start |-> v.start + 1]
       ELSE [v EXCEPT !.i = @ + 1]
  ELSE v
StartIndex(s, begin) == [s |-> s, i |-> begin, start |-> begin - 1]
LoopIndex(s, begin, end) ==
  CHOOSE f : f = [k \in 0..Len(s) |-> IF k = 0 THEN StartIndex(s, begin) ELSE StepIndex(s, end, f[k - 1])]

\* The pivot is the last element: less up to start, not less up to i.
Divided(s, t, i, start) ==
  /\ SameBag(t, s) /\ t[Len(s)] = s[Len(s)] /\ start < i
  /\ \A k \in 1..i : (t[k] < s[Len(s)]) <=> k <= start + 1
StatesIndex(s) ==
  {w \in [s : Seq(Element), i : 0..Len(s) - 1, start : {-1} \cup Nat] : Divided(s, w.s, w.i, w.start)}

\* A turn keeps to the states and goes on.
LEMMA TurnIndex ==
  ASSUME NEW s \in Seq(Element), s # <<>>, NEW w \in StatesIndex(s)
  PROVE  LET v == StepIndex(s, Len(s) - 1, w) IN
         v \in StatesIndex(s) /\ IF w.i < Len(s) - 1 THEN v.i = w.i + 1 ELSE v = w
<1> DEFINE v == StepIndex(s, Len(s) - 1, w)
<1>0. PICK n, t, i, start, x : n = Len(s) /\ t = w.s /\ i = w.i /\ start = w.start /\ x = s[n]
  OBVIOUS
<1>1. /\ n \in Nat /\ n # 0 /\ t \in Seq(Element) /\ i \in 0..n - 1 /\ start \in {-1} \cup Nat /\ start < i
      /\ w = [s |-> t, i |-> i, start |-> start] /\ SameBag(t, s) /\ Len(t) = n /\ t[n] = x
      /\ \A k \in 1..i : (t[k] < x) <=> k <= start + 1
  BY <1>0 DEF StatesIndex, Divided, SameBag
<1>2. x \in Int /\ \A k \in 1..n : t[k] \in Int
  BY <1>0, <1>1, Numbers
<1>3. CASE ~ (i < n - 1)
  BY <1>0, <1>3 DEF StepIndex
<1>4. CASE i < n - 1
  <2>1. /\ start + 1 \in 0..n - 1 /\ start + 1 <= i /\ i \in 0..n - 1 /\ i + 1 \in 1..n /\ i + 1 # n /\ i + 1 \in 0..n - 1
        /\ (start + 1) + 1 = start + 2 /\ start + 2 \in 1..n /\ start + 2 <= i + 1 /\ (n - 1) + 1 = n
        /\ start + 1 \in {-1} \cup Nat
    BY <1>1, <1>4
  <2>2. At(t, i) = t[i + 1] /\ At(s, n - 1) = x
    BY <1>0, <2>1 DEF At
  <2>3. CASE t[i + 1] < x
    <3>1. PICK u : u = Swap(t, start + 1, i)
      OBVIOUS
    <3>2. v = [s |-> u, i |-> i + 1, start |-> start + 1]
      BY <1>0, <1>4, <2>2, <2>3, <3>1 DEF StepIndex
    <3>3. Exchanged(t, u, start + 2, i + 1)
      <4>1. Exchanged(t, Swap(t, start + 1, i), (start + 1) + 1, i + 1)
        BY <1>1, <2>1, SwapIs
      <4> QED
        BY <4>1, <2>1, <3>1
    <3>4. SameBag(u, s)
      <4>1. SameBag(u, t)
        BY <3>3, <1>1, <2>1, SwapKeeps
      <4> QED
        BY <4>1, <1>1, SameBags
    <3>5. /\ u \in Seq(Element)
          /\ \A k \in 1..n : u[k] = IF k = i + 1 THEN t[start + 2] ELSE IF k = start + 2 THEN t[i + 1] ELSE t[k]
      BY <3>3, <1>1 DEF Exchanged
    <3>6. u[n] = x
      BY <3>5, <1>1, <2>1
    <3>7. ASSUME NEW k \in 1..i + 1 PROVE (u[k] < x) <=> k <= (start + 1) + 1
      <4>1. k \in 1..n /\ k \in Int
        BY <1>1, <2>1
      <4>2. CASE k = i + 1 /\ start + 2 = i + 1
        BY <4>1, <4>2, <3>5, <2>1, <2>3
      <4>3. CASE k = i + 1 /\ start + 2 # i + 1
        <5>1. start + 2 \in 1..i /\ ~ (start + 2 <= start + 1)
          BY <4>3, <2>1, <1>1
        <5>2. ~ (t[start + 2] < x)
          BY <5>1, <1>1
        <5>3. u[k] = t[start + 2] /\ ~ (k <= (start + 1) + 1)
          BY <4>1, <4>3, <3>5, <2>1, <1>1
        <5> QED
          BY <5>2, <5>3
      <4>4. CASE k # i + 1 /\ k = start + 2
        BY <4>1, <4>4, <3>5, <2>1, <2>3
      <4>5. CASE k # i + 1 /\ k # start + 2
        <5>1. k \in 1..i /\ u[k] = t[k]
          BY <4>1, <4>5, <3>5, <1>1
        <5>2. k <= start + 1 <=> k <= start + 2
          BY <4>1, <4>5, <1>1
        <5> QED
          BY <5>1, <5>2, <2>1, <1>1
      <4> QED
        BY <4>2, <4>3, <4>4, <4>5
    <3>8. start + 1 < i + 1
      BY <1>1
    <3> QED
      BY <1>0, <1>4, <2>1, <3>2, <3>4, <3>5, <3>6, <3>7, <3>8, SMTT(30) DEF StatesIndex, Divided
  <2>4. CASE ~ (t[i + 1] < x)
    <3>1. v = [s |-> t, i |-> i + 1, start |-> start]
      BY <1>0, <1>1, <1>4, <2>2, <2>4 DEF StepIndex
    <3>2. ASSUME NEW k \in 1..i + 1 PROVE (t[k] < x) <=> k <= start + 1
      <4>1. CASE k = i + 1
        BY <4>1, <1>1, <2>4
      <4>2. CASE k # i + 1
        <5>1. k \in 1..i
          BY <4>2, <1>1
        <5> QED
          BY <5>1, <1>1
      <4> QED
        BY <4>1, <4>2
    <3>3. start < i + 1
      BY <1>1
    <3> QED
      BY <1>0, <1>1, <1>4, <2>1, <3>1, <3>2, <3>3, SMTT(20) DEF StatesIndex, Divided
  <2> QED
    BY <2>3, <2>4
<1> QED
  BY <1>0, <1>3, <1>4

\* FindIndex puts the pivot where it belongs.
LEMMA FindIndexIs ==
  ASSUME NEW s \in Seq(Element), s # <<>>
  PROVE  Partitioned(s, FindIndex(s, 0, Len(s) - 1))
<1> DEFINE n == Len(s)  w0 == StartIndex(s, 0)  g == LoopIndex(s, 0, n - 1)  D == StatesIndex(s)
           G == [w \in D |-> StepIndex(s, n - 1, w)]  M == [w \in D |-> n - 1 - w.i]
<1>1. n \in Nat /\ n # 0 /\ FindIndex(s, 0, n - 1) = [s |-> Swap(g[n].s, g[n].start + 1, n - 1), index |-> g[n].start]
  BY DEF FindIndex, While, StepIndex, StartIndex, LoopIndex
<1>2. w0 \in D
  <2>1. Divided(s, s, 0, -1)
    BY SameBags DEF Divided
  <2>2. w0 = [s |-> s, i |-> 0, start |-> -1]
    BY DEF StartIndex
  <2> QED
    BY <2>1, <2>2, <1>1 DEF StatesIndex
<1>3. \A v \in D : v.i \in 0..n - 1
  BY DEF StatesIndex
<1>4. \A v \in D : StepIndex(s, n - 1, v) \in D
                   /\ IF v.i < n - 1 THEN StepIndex(s, n - 1, v).i = v.i + 1 ELSE StepIndex(s, n - 1, v) = v
  BY TurnIndex
<1>5. G \in [D -> D] /\ M \in [D -> Nat] /\ M[w0] <= n /\ \A v \in D : G[v] = v \/ M[G[v]] < M[v]
  <2> HIDE DEF D
  <2> QED
    BY <1>1, <1>2, <1>3, <1>4
<1>p. PICK f : EndsAs(n, D, G, w0, f)
  <2> HIDE DEF D, G, M, w0
  <2> QED
    BY <1>1, <1>2, <1>5, LoopRule
<1>6. /\ f \in [0..n -> D] /\ f[0] = w0 /\ \A d \in 1..n : f[d] = G[f[d - 1]]
      /\ f[n] \in D /\ G[f[n]] = f[n]
      /\ \A p : Follows(n, D, G, p) /\ p[0] = w0 => p[n] = f[n]
  BY <1>p DEF EndsAs
<1>7. g[n] = f[n]
  <2>1. f = [k \in 0..n |-> IF k = 0 THEN w0 ELSE StepIndex(s, n - 1, f[k - 1])]
    <3>1. \A d \in 1..n : d - 1 \in 0..n
      BY <1>1
    <3>2. \A d \in 1..n : f[d] = StepIndex(s, n - 1, f[d - 1])
      BY <1>6, <3>1
    <3> HIDE DEF D
    <3> QED
      BY <1>6, <3>2, <1>1
  <2>2. g = [k \in 0..n |-> IF k = 0 THEN w0 ELSE StepIndex(s, n - 1, g[k - 1])]
    BY <2>1 DEF LoopIndex
  <2>3. g[0] = w0 /\ \A d \in 1..n : g[d] = StepIndex(s, n - 1, g[d - 1])
    BY <2>2, <1>1
  <2>4. Follows(n, D, G, g)
    BY <2>3 DEF Follows
  <2> HIDE DEF D, G, g
  <2> QED
    BY <1>6, <2>3, <2>4
<1>8. PICK v : v = f[n]
  OBVIOUS
<1>9. v \in D /\ StepIndex(s, n - 1, v) = v
  BY <1>6, <1>8
<1>10. v.i = n - 1
  <2>1. v.i \in 0..n - 1
    BY <1>9, <1>3
  <2>2. v.i < n - 1 => v.i = v.i + 1
    BY <1>4, <1>9
  <2> QED
    BY <2>1, <2>2, <1>1
<1> HIDE DEF g, G, M, w0
<1>11. PICK t, start, x, u : t = v.s /\ start = v.start /\ x = s[n] /\ u = Swap(t, start + 1, n - 1)
  OBVIOUS
<1>12. /\ t \in Seq(Element) /\ start \in {-1} \cup Nat /\ start < n - 1 /\ SameBag(t, s) /\ Len(t) = n /\ t[n] = x
       /\ \A k \in 1..n - 1 : (t[k] < x) <=> k <= start + 1
  BY <1>9, <1>10, <1>11 DEF StatesIndex, Divided, SameBag
<1>13. start + 1 \in 0..n - 1 /\ n - 1 \in 0..n - 1 /\ start + 2 \in 1..n /\ n \in 1..n
       /\ (start + 1) + 1 = start + 2 /\ (n - 1) + 1 = n
  BY <1>1, <1>12
<1>14. Exchanged(t, u, start + 2, n)
  <2>1. Exchanged(t, Swap(t, start + 1, n - 1), (start + 1) + 1, (n - 1) + 1)
    BY <1>12, <1>13, SwapIs
  <2> QED
    BY <2>1, <1>11, <1>13
<1>15. u \in Seq(Element) /\ Permuted(u, s)
  <2>1. SameBag(u, t) /\ u \in Seq(Element)
    <3>1. start + 2 \in 1..Len(t) /\ n \in 1..Len(t) /\ t \in Seq(Element)
      BY <1>12, <1>13
    <3>2. SameBag(u, t)
      BY <3>1, <1>14, SwapKeeps
    <3> QED
      BY <3>2, <1>14 DEF Exchanged
  <2> QED
    BY <2>1, <1>12, SameBags, BagPermuted
<1>16. \A k \in 1..n : u[k] = IF k = n THEN t[start + 2] ELSE IF k = start + 2 THEN x ELSE t[k]
  BY <1>12, <1>14 DEF Exchanged
<1>17. x \in Int /\ \A k \in 1..n : t[k] \in Int
  BY <1>11, <1>12, <1>13, Numbers
<1>18. ASSUME NEW k \in 0..n - 1 PROVE (u[k + 1] < x) <=> k < start + 1
  <2>1. k + 1 \in 1..n
    BY <1>1
  <2>2. CASE k + 1 = n /\ start + 2 # n
    <3>1. start + 2 \in 1..n - 1 /\ ~ (start + 2 <= start + 1)
      BY <2>2, <1>12, <1>13
    <3>2. ~ (t[start + 2] < x)
      BY <3>1, <1>12
    <3>3. u[k + 1] = t[start + 2] /\ ~ (k < start + 1)
      BY <2>1, <2>2, <1>12, <1>16
    <3> QED
      BY <3>2, <3>3
  <2>3. CASE k + 1 = start + 2
    <3>1. u[k + 1] = x
      BY <2>1, <2>3, <1>12, <1>16
    <3> QED
      BY <3>1, <2>3, <1>12, <1>17
  <2>4. CASE k + 1 # n /\ k + 1 # start + 2
    <3>1. k + 1 \in 1..n - 1 /\ u[k + 1] = t[k + 1] /\ (k + 1 <= start + 1 <=> k < start + 1)
      BY <2>1, <2>4, <1>12, <1>16
    <3> QED
      BY <3>1, <1>12
  <2> QED
    BY <2>2, <2>3, <2>4
<1>19. u[start + 2] = x
  BY <1>12, <1>13, <1>16
<1>20. PICK w : w = FindIndex(s, 0, n - 1)
  OBVIOUS
<1>21. w.s = u /\ w.index = start
  BY <1>1, <1>7, <1>8, <1>11, <1>20
<1> HIDE DEF D
<1>22. Partitioned(s, w)
  <2>1. At(w.s, w.index + 1) = x
    BY <1>13, <1>19, <1>21 DEF At
  <2>2. \A k \in 0..n - 1 : (At(w.s, k) < x) <=> k < w.index + 1
    BY <1>18, <1>21 DEF At
  <2> QED
    BY <2>1, <2>2, <1>11, <1>15, <1>21 DEF Partitioned
<1> QED
  BY <1>20, <1>22

-----------------------------------------------------------------------------
(* qSortFunc.                                                              *)

\* The least element of a set of numbers.
LEMMA MinIs ==
  ASSUME NEW n \in Nat, NEW S, S \subseteq 0..n, S # {}
  PROVE  Min(S) \in S /\ \A k \in S : Min(S) <= k
<1>1. PICK m \in S : \A k \in S : m <= k
  BY LeastNumber
<1> QED
  BY <1>1 DEF Min

\* What the two scans of qSortFunc stop at.
LastLess(s, l, r, x) == Max({k \in l..r : k = l \/ At(s, k) < x})
FirstMore(s, l, r, x) == Min({k \in l..r : k = r \/ At(s, k) >= x})

\* One turn of its loop, all turns, and the states: s has a hole at l, for the pivot x.
StepHole(x, w) ==
  IF w.l < w.r
  THEN LET r == LastLess(w.s, w.l, w.r, x)
           s == Put(w.s, w.l, At(w.s, r))
           l == FirstMore(s, w.l, r, x)
       IN [s |-> Put(s, r, At(s, l)), l |-> l, r |-> r]
  ELSE w
StartHole(s0, left, right, random) == [s |-> Swap(s0, random, left), l |-> left, r |-> right]
LoopHole(s0, left, right, random) ==
  CHOOSE f : f = [k \in 0..Len(s0) |-> IF k = 0 THEN StartHole(s0, left, right, random)
                                       ELSE StepHole(At(s0, random), f[k - 1])]

\* What is between left and right.
Values(s, left, right) == {s[k] : k \in left + 1..right + 1}

\* s is s0, with x in the hole at l, and some elements between left and right moved.
Moved(s0, s, left, right, l, x) ==
  /\ s \in Seq(Element) /\ SameBag([s EXCEPT ![l + 1] = x], s0)
  /\ \A k \in 1..Len(s0) : IF k \in left + 1..right + 1 THEN s[k] \in Values(s0, left, right) ELSE s[k] = s0[k]
Hole(s0, left, right, x, s, l, r) ==
  /\ Moved(s0, s, left, right, l, x) /\ l <= r
  /\ \A k \in left + 1..l : s[k] < x
  /\ \A k \in r + 2..right + 1 : s[k] >= x
StatesHole(s0, left, right, x) ==
  {w \in [s : Seq(Element), l : left..right, r : left..right] : Hole(s0, left, right, x, w.s, w.l, w.r)}

\* The element of place j moves to the hole.
LEMMA HoleMoves ==
  ASSUME NEW s0 \in Seq(Element), NEW left \in Nat, NEW right \in left..Len(s0) - 1, NEW x \in Element,
         NEW l \in left..right, NEW j \in left..right, NEW s, Moved(s0, s, left, right, l, x)
  PROVE  Moved(s0, Put(s, l, At(s, j)), left, right, j, x)
<1>0. PICK n, t, h, m : n = Len(s0) /\ t = Put(s, l, At(s, j)) /\ h = l + 1 /\ m = j + 1
  OBVIOUS
<1>1. /\ n \in Nat /\ h \in 1..n /\ m \in 1..n /\ s \in Seq(Element)
      /\ h \in left + 1..right + 1 /\ m \in left + 1..right + 1
  BY <1>0, Numbers DEF Moved
<1>2. PICK u : u = [s EXCEPT ![h] = x]
  OBVIOUS
<1>3. SameBag(u, s0)
  BY <1>0, <1>2 DEF Moved
<1>4. Len(s) = n
  BY <1>0, <1>1, <1>2, <1>3 DEF SameBag
<1>5. s[m] \in Element /\ t = [s EXCEPT ![h] = s[m]]
  BY <1>0, <1>1, <1>4, Numbers DEF Put, At
<1>6. t \in Seq(Element) /\ Len(t) = n /\ \A k \in 1..n : t[k] = IF k = h THEN s[m] ELSE s[k]
  BY <1>1, <1>4, <1>5, Assigned
<1>7. u \in Seq(Element) /\ Len(u) = n /\ \A k \in 1..n : u[k] = IF k = h THEN x ELSE s[k]
  BY <1>1, <1>2, <1>4, Assigned
<1>8. PICK v : v = [t EXCEPT ![m] = x]
  OBVIOUS
<1>9. v \in Seq(Element) /\ Len(v) = n /\ \A k \in 1..n : v[k] = IF k = m THEN x ELSE t[k]
  BY <1>1, <1>6, <1>8, Assigned
<1>10. Exchanged(u, v, h, m)
  <2>1. \A k \in 1..n : v[k] = IF k = m THEN u[h] ELSE IF k = h THEN u[m] ELSE u[k]
    BY <1>1, <1>6, <1>7, <1>9
  <2> QED
    BY <2>1, <1>7, <1>9 DEF Exchanged
<1>11. SameBag(v, s0)
  <2>1. SameBag(v, u)
    BY <1>1, <1>7, <1>10, SwapKeeps
  <2> QED
    BY <2>1, <1>3, SameBags
<1>12. \A k \in 1..n : IF k \in left + 1..right + 1 THEN s[k] \in Values(s0, left, right) ELSE s[k] = s0[k]
  BY <1>0 DEF Moved
<1>13. \A k \in 1..n : IF k \in left + 1..right + 1 THEN t[k] \in Values(s0, left, right) ELSE t[k] = s0[k]
  BY <1>1, <1>6, <1>12
<1> QED
  BY <1>0, <1>6, <1>8, <1>11, <1>13 DEF Moved

\* A turn keeps to the states, and brings the two ends closer.
LEMMA TurnHole ==
  ASSUME NEW s0 \in Seq(Element), NEW left \in Nat, NEW right \in left..Len(s0) - 1, NEW x \in Element,
         NEW w \in StatesHole(s0, left, right, x)
  PROVE  LET v == StepHole(x, w) IN
         /\ v \in StatesHole(s0, left, right, x)
         /\ IF w.l < w.r THEN v.r - v.l < w.r - w.l ELSE v = w
<1> DEFINE v == StepHole(x, w)
<1>0. PICK n, s, l, r : n = Len(s0) /\ s = w.s /\ l = w.l /\ r = w.r
  OBVIOUS
<1>1. /\ n \in Nat /\ s \in Seq(Element) /\ l \in left..right /\ r \in left..right /\ l <= r
      /\ w = [s |-> s, l |-> l, r |-> r] /\ Moved(s0, s, left, right, l, x)
      /\ \A k \in left + 1..l : s[k] < x
      /\ \A k \in r + 2..right + 1 : s[k] >= x
  BY <1>0, Numbers DEF StatesHole, Hole
<1>n. \A t, j : t \in Seq(Element) /\ Len(t) = n /\ j \in left..right =>
        At(t, j) = t[j + 1] /\ j + 1 \in 1..n /\ t[j + 1] \in Element /\ t[j + 1] \in Int
  <2> SUFFICES ASSUME NEW t \in Seq(Element), Len(t) = n, NEW j \in left..right
        PROVE  At(t, j) = t[j + 1] /\ j + 1 \in 1..n /\ t[j + 1] \in Element /\ t[j + 1] \in Int
    OBVIOUS
  <2>1. j + 1 \in 1..n
    BY <1>0, <1>1
  <2> QED
    BY <2>1, Numbers DEF At
<1>x. x \in Int
  BY ElementAssumption
<1>l. Len(s) = n
  BY <1>0, <1>1, Numbers DEF Moved, SameBag
<1>a. /\ left \in Int /\ l \in Int /\ r \in Int /\ right \in Int /\ n \in Int
      /\ 0 <= left /\ left <= l /\ l <= r /\ r <= right /\ right < n
  <2>1. n \in Nat /\ l \in left..right /\ r \in left..right /\ l <= r /\ right \in left..n - 1
    BY <1>0, <1>1
  <2> QED
    BY <2>1
<1>2. CASE ~ (l < r)
  BY <1>0, <1>2 DEF StepHole
<1>3. CASE l < r
  <2>1. PICK r1 : r1 = LastLess(s, l, r, x)
    OBVIOUS
  <2>2. r1 \in l..r /\ (r1 = l \/ s[r1 + 1] < x) /\ \A k \in l..r : k > r1 => ~ (s[k + 1] < x)
    <3> DEFINE S == {k \in l..r : k = l \/ At(s, k) < x}
    <3>1. S \subseteq 0..right /\ S # {} /\ right \in Nat
      <4>1. l \in S
        BY <1>a
      <4>2. S \subseteq l..r /\ l..r \subseteq 0..right /\ right \in Nat
        BY <1>a
      <4> HIDE DEF S
      <4> QED
        BY <4>1, <4>2
    <3> HIDE DEF S
    <3>2. Max(S) \in S /\ \A k \in S : k <= Max(S)
      BY <3>1, MaxIs
    <3> USE DEF S
    <3>3. r1 \in l..r /\ (r1 = l \/ At(s, r1) < x) /\ \A k \in l..r : (k = l \/ At(s, k) < x) => k <= r1
      BY <2>1, <3>2 DEF LastLess
    <3> HIDE DEF S
    <3>4. \A k \in l..r : At(s, k) = s[k + 1]
      BY DEF At
    <3>5. r1 \in l..r /\ (r1 = l \/ s[r1 + 1] < x)
      BY <3>3, <3>4
    <3>6. \A k \in l..r : s[k + 1] < x => k <= r1
      BY <3>3, <3>4
    <3> QED
      BY <3>5, <3>6, <1>a
  <2>3. PICK t : t = Put(s, l, At(s, r1))
    OBVIOUS
  <2>4. r1 \in left..right
    BY <1>1, <2>2
  <2>5. Moved(s0, t, left, right, r1, x)
    BY <1>0, <1>1, <2>3, <2>4, HoleMoves
  <2>6. t \in Seq(Element) /\ Len(t) = n /\ \A k \in 1..n : t[k] = IF k = l + 1 THEN s[r1 + 1] ELSE s[k]
    <3>1. l + 1 \in 1..n /\ s[r1 + 1] \in Element /\ t = [s EXCEPT ![l + 1] = s[r1 + 1]]
      BY <1>1, <1>n, <1>l, <2>3, <2>4 DEF Put
    <3> QED
      BY <3>1, <1>1, <1>l, Assigned
  <2>7. PICK l1 : l1 = FirstMore(t, l, r1, x)
    OBVIOUS
  <2>8. l1 \in l..r1 /\ (l1 = r1 \/ t[l1 + 1] >= x) /\ \A k \in l..r1 : k < l1 => t[k + 1] < x
    <3> DEFINE S == {k \in l..r1 : k = r1 \/ At(t, k) >= x}
    <3>0. r1 \in l..r
      BY <2>2
    <3>1. S \subseteq 0..right /\ S # {} /\ right \in Nat
      <4>1. r1 \in S
        BY <1>a, <3>0
      <4>2. S \subseteq l..r1 /\ l..r1 \subseteq 0..right /\ right \in Nat
        BY <1>a, <3>0
      <4> HIDE DEF S
      <4> QED
        BY <4>1, <4>2
    <3> HIDE DEF S
    <3>2. Min(S) \in S /\ \A k \in S : Min(S) <= k
      BY <3>1, MinIs
    <3> USE DEF S
    <3>3. l1 \in l..r1 /\ (l1 = r1 \/ At(t, l1) >= x) /\ \A k \in l..r1 : (k = r1 \/ At(t, k) >= x) => l1 <= k
      BY <2>7, <3>2 DEF FirstMore
    <3> HIDE DEF S
    <3>4. \A k \in l..r1 : k \in left..right
      BY <1>a, <3>0
    <3>5. \A k \in l..r1 : At(t, k) = t[k + 1] /\ t[k + 1] \in Int
      BY <3>4, <1>n, <2>6
    <3>6. l1 \in l..r1 /\ (l1 = r1 \/ t[l1 + 1] >= x)
      BY <3>3, <3>5
    <3>7. \A k \in l..r1 : t[k + 1] >= x => l1 <= k
      BY <3>3, <3>5
    <3> QED
      BY <3>0, <3>5, <3>6, <3>7, <1>a, <1>x
  <2>9. PICK u : u = Put(t, r1, At(t, l1))
    OBVIOUS
  <2>10. l1 \in left..right
    BY <1>1, <2>2, <2>8
  <2>11. Moved(s0, u, left, right, l1, x)
    BY <1>0, <1>1, <2>4, <2>5, <2>9, <2>10, HoleMoves
  <2>12. u \in Seq(Element) /\ Len(u) = n /\ \A k \in 1..n : u[k] = IF k = r1 + 1 THEN t[l1 + 1] ELSE t[k]
    <3>1. r1 + 1 \in 1..n /\ t[l1 + 1] \in Element /\ u = [t EXCEPT ![r1 + 1] = t[l1 + 1]]
      BY <1>n, <2>4, <2>6, <2>9, <2>10 DEF Put
    <3> QED
      BY <3>1, <2>6, Assigned
  <2>13. v = [s |-> u, l |-> l1, r |-> r1]
    BY <1>0, <1>3, <2>1, <2>3, <2>7, <2>9 DEF StepHole
  <2>14. l1 <= r1 /\ l <= l1 /\ r1 <= r /\ l1 \in Int /\ r1 \in Int /\ l \in Int /\ r \in Int
    <3>1. r1 \in l..r /\ l1 \in l..r1
      BY <2>2, <2>8
    <3> QED
      BY <1>a, <3>1
  <2>15. ASSUME NEW k \in left + 1..l1 PROVE u[k] < x
    <3>1. k \in 1..n /\ k # r1 + 1 /\ k - 1 \in left..right /\ (k - 1) + 1 = k
      BY <1>a, <2>14
    <3>2. u[k] = t[k]
      BY <3>1, <2>12
    <3>3. CASE k - 1 < l
      <4>1. t[k] = s[k] /\ k \in left + 1..l
        BY <3>1, <3>3, <2>6, <1>1
      <4> QED
        BY <4>1, <3>2, <1>1
    <3>4. CASE ~ (k - 1 < l)
      <4>1. k - 1 \in l..r1 /\ k - 1 < l1
        BY <3>1, <3>4, <2>14
      <4> QED
        BY <4>1, <3>1, <3>2, <2>8
    <3> QED
      BY <3>3, <3>4
  <2>16. ASSUME NEW k \in r1 + 2..right + 1 PROVE u[k] >= x
    <3>1. k \in 1..n /\ k # r1 + 1 /\ k - 1 \in left..right /\ (k - 1) + 1 = k /\ k # l + 1 /\ k - 1 > r1
      BY <1>a, <2>14
    <3>2. u[k] = s[k] /\ s[k] \in Int
      <4>1. u[k] = s[k]
        BY <3>1, <2>6, <2>12
      <4>2. s[k] \in Int
        BY <3>1, <1>1, <1>l, Numbers
      <4> QED
        BY <4>1, <4>2
    <3>3. CASE k - 1 <= r
      <4>1. k - 1 \in l..r
        BY <3>1, <3>3, <2>14
      <4>2. ~ (s[k] < x)
        BY <4>1, <3>1, <2>2
      <4> QED
        BY <4>2, <3>2, <1>x
    <3>4. CASE ~ (k - 1 <= r)
      <4>1. k \in r + 2..right + 1
        BY <3>1, <3>4, <2>14
      <4> QED
        BY <4>1, <3>2, <1>1
    <3> QED
      BY <3>3, <3>4
  <2>17. r1 - l1 < r - l
    <3>1. CASE r1 < r
      BY <3>1, <2>14
    <3>2. CASE r1 = r
      <4>1. s[r1 + 1] < x /\ l + 1 \in 1..n /\ l \in l..r1
        <5>1. r1 # l /\ l + 1 \in 1..n /\ l \in l..r1
          BY <3>2, <1>3, <1>a, <2>14
        <5> QED
          BY <5>1, <2>2
      <4>2. t[l + 1] = s[r1 + 1] /\ t[l + 1] \in Int
        BY <4>1, <2>6, <1>n, <1>1
      <4>3. l1 # l
        BY <4>1, <4>2, <2>8, <1>3, <3>2, <1>x
      <4> QED
        BY <4>3, <2>14
    <3> QED
      BY <3>1, <3>2, <2>14
  <2>18. v \in StatesHole(s0, left, right, x)
    <3>1. Hole(s0, left, right, x, u, l1, r1)
      BY <2>11, <2>14, <2>15, <2>16 DEF Hole
    <3> HIDE DEF v
    <3> QED
      BY <2>13, <2>12, <2>10, <2>4, <3>1 DEF StatesHole
  <2> QED
    BY <2>13, <2>17, <2>18, <1>0, <1>3
<1> QED
  BY <1>0, <1>2, <1>3

\* What qSortFunc leaves: the pivot is where it belongs between left and right, and
\* nothing else has changed.
Pivoted(s0, left, right, q) ==
  /\ q.s \in Seq(Element) /\ q.mid \in left..right /\ SameBag(q.s, s0)
  /\ \A k \in 1..Len(s0) :
       IF k \in left + 1..right + 1 THEN q.s[k] \in Values(s0, left, right) ELSE q.s[k] = s0[k]
  /\ \A k \in left + 1..q.mid : q.s[k] < q.s[q.mid + 1]
  /\ \A k \in q.mid + 2..right + 1 : q.s[k] >= q.s[q.mid + 1]

\* That is what it does, whatever rand() returns.
LEMMA qSortFuncIs ==
  ASSUME NEW s0 \in Seq(Element), NEW left \in Nat, NEW right \in left + 1..Len(s0) - 1,
         NEW rand, rand[right - left] \in Nat
  PROVE  Pivoted(s0, left, right, qSortFunc(s0, left, right, rand))
<1>0. PICK random, x : random = (rand[right - left] % (right - left)) + left /\ x = At(s0, random)
  OBVIOUS
<1> DEFINE n == Len(s0)  w0 == StartHole(s0, left, right, random)  g == LoopHole(s0, left, right, random)
           D == StatesHole(s0, left, right, x)
           G == [w \in D |-> StepHole(x, w)]  M == [w \in D |-> w.r - w.l]
<1>1. n \in Nat /\ qSortFunc(s0, left, right, rand) = [s |-> Put(g[n].s, g[n].l, x), mid |-> g[n].l]
  BY <1>0, Numbers DEF qSortFunc, While, Open, StepHole, StartHole, LoopHole, LastLess, FirstMore
<1>r. random \in left..right - 1
  <2>1. right - left \in Nat /\ right - left > 0
    OBVIOUS
  <2>2. rand[right - left] % (right - left) \in 0..(right - left) - 1
    BY <2>1
  <2> QED
    BY <1>0, <2>2
<1>x. random + 1 \in 1..n /\ left + 1 \in 1..n /\ x = s0[random + 1] /\ x \in Element
  <2>1. random + 1 \in 1..n /\ left + 1 \in 1..n /\ x = s0[random + 1]
    BY <1>0, <1>1, <1>r DEF At
  <2> QED
    BY <2>1, Numbers
<1>i. right \in left..n - 1 /\ x \in Int
  BY <1>x, ElementAssumption
<1>2. w0 \in D
  <2>1. PICK t : t = Swap(s0, random, left)
    OBVIOUS
  <2>2. Exchanged(s0, t, random + 1, left + 1)
    BY <1>1, <1>r, <2>1, SwapIs
  <2>3. /\ t \in Seq(Element) /\ Len(t) = n
        /\ \A k \in 1..n : t[k] = IF k = left + 1 THEN x ELSE IF k = random + 1 THEN s0[left + 1] ELSE s0[k]
    BY <2>2, <1>x DEF Exchanged
  <2>4. PICK u : u = [t EXCEPT ![left + 1] = x]
    OBVIOUS
  <2>5. u = t
    BY <2>3, <2>4, <1>x
  <2>6. SameBag(u, s0)
    BY <2>2, <2>5, <1>x, SwapKeeps
  <2>7. ASSUME NEW k \in 1..n
        PROVE  IF k \in left + 1..right + 1 THEN t[k] \in Values(s0, left, right) ELSE t[k] = s0[k]
    <3>1. left + 1 \in left + 1..right + 1 /\ random + 1 \in left + 1..right + 1
      BY <1>r
    <3>2. \A m \in left + 1..right + 1 : s0[m] \in Values(s0, left, right)
      BY DEF Values
    <3> QED
      BY <3>1, <3>2, <2>3, <1>x
  <2>8. Moved(s0, t, left, right, left, x)
    BY <2>3, <2>4, <2>6, <2>7 DEF Moved
  <2>9. Hole(s0, left, right, x, t, left, right)
    BY <2>8 DEF Hole
  <2>10. w0 = [s |-> t, l |-> left, r |-> right]
    BY <2>1 DEF StartHole
  <2> HIDE DEF w0
  <2> QED
    BY <2>3, <2>9, <2>10 DEF StatesHole
<1>3. \A v \in D : v.l \in left..right /\ v.r \in left..right /\ v.l <= v.r
  BY DEF StatesHole, Hole
<1>4. \A v \in D : StepHole(x, v) \in D
                   /\ IF v.l < v.r THEN StepHole(x, v).r - StepHole(x, v).l < v.r - v.l ELSE StepHole(x, v) = v
  BY TurnHole, <1>i, <1>x
<1>5. G \in [D -> D] /\ M \in [D -> Nat] /\ M[w0] <= n /\ \A v \in D : G[v] = v \/ M[G[v]] < M[v]
  <2> HIDE DEF D
  <2>1. w0.l \in left..right /\ w0.r \in left..right
    BY <1>2, <1>3
  <2>2. M[w0] <= n
    BY <1>1, <1>2, <2>1
  <2>3. \A v \in D : v.r - v.l \in Nat
    BY <1>3
  <2>4. G \in [D -> D] /\ M \in [D -> Nat]
    BY <1>4, <2>3
  <2>5. \A v \in D : G[v] = v \/ M[G[v]] < M[v]
    BY <1>4
  <2> QED
    BY <2>2, <2>4, <2>5
<1>p. PICK f : EndsAs(n, D, G, w0, f)
  <2> HIDE DEF D, G, M, w0
  <2> QED
    BY <1>1, <1>2, <1>5, LoopRule
<1>6. /\ f \in [0..n -> D] /\ f[0] = w0 /\ \A d \in 1..n : f[d] = G[f[d - 1]]
      /\ f[n] \in D /\ G[f[n]] = f[n]
      /\ \A p : Follows(n, D, G, p) /\ p[0] = w0 => p[n] = f[n]
  BY <1>p DEF EndsAs
<1>7. g[n] = f[n]
  <2>1. f = [k \in 0..n |-> IF k = 0 THEN w0 ELSE StepHole(x, f[k - 1])]
    <3>1. \A d \in 1..n : d - 1 \in 0..n
      BY <1>1
    <3>2. \A d \in 1..n : f[d] = StepHole(x, f[d - 1])
      BY <1>6, <3>1
    <3> HIDE DEF D
    <3> QED
      BY <1>6, <3>2, <1>1
  <2>2. g = [k \in 0..n |-> IF k = 0 THEN w0 ELSE StepHole(x, g[k - 1])]
    BY <2>1, <1>0 DEF LoopHole
  <2>3. g[0] = w0 /\ \A d \in 1..n : g[d] = StepHole(x, g[d - 1])
    BY <2>2, <1>1, SMTT(20)
  <2>4. Follows(n, D, G, g)
    BY <2>3 DEF Follows
  <2> HIDE DEF D, G, g
  <2> QED
    BY <1>6, <2>3, <2>4
<1>8. PICK v, t, l, u, q : v = f[n] /\ t = v.s /\ l = v.l /\ u = Put(t, l, x) /\ q = qSortFunc(s0, left, right, rand)
  OBVIOUS
<1>9. v \in D /\ StepHole(x, v) = v
  BY <1>6, <1>8
<1>10. v.r = l /\ l \in left..right
  <2>1. v.l \in left..right /\ v.r \in left..right /\ v.l <= v.r
    BY <1>9, <1>3
  <2>2. v.l < v.r => v.r - v.l < v.r - v.l
    BY <1>4, <1>9
  <2> QED
    BY <2>1, <2>2, <1>8
<1>11. q.s = u /\ q.mid = l
  BY <1>1, <1>7, <1>8
<1> HIDE DEF g, G, M, w0
<1>12. /\ t \in Seq(Element) /\ Moved(s0, t, left, right, l, x)
       /\ \A k \in left + 1..l : t[k] < x
       /\ \A k \in l + 2..right + 1 : t[k] >= x
  BY <1>8, <1>9, <1>10 DEF StatesHole, Hole
<1>13. u = [t EXCEPT ![l + 1] = x] /\ SameBag(u, s0)
  BY <1>8, <1>12 DEF Moved, Put
<1>14. l + 1 \in 1..n /\ Len(t) = n
  BY <1>10, <1>12, <1>13, <1>1 DEF SameBag
<1>15. u \in Seq(Element) /\ \A k \in 1..n : u[k] = IF k = l + 1 THEN x ELSE t[k]
  BY <1>12, <1>13, <1>14, <1>x, Assigned
<1>16. ASSUME NEW k \in 1..n
       PROVE  IF k \in left + 1..right + 1 THEN u[k] \in Values(s0, left, right) ELSE u[k] = s0[k]
  <2>1. IF k \in left + 1..right + 1 THEN t[k] \in Values(s0, left, right) ELSE t[k] = s0[k]
    BY <1>12 DEF Moved
  <2>2. random + 1 \in left + 1..right + 1 /\ l + 1 \in left + 1..right + 1
    BY <1>r, <1>10
  <2>3. x \in Values(s0, left, right)
    BY <2>2, <1>x DEF Values
  <2> QED
    BY <2>1, <2>2, <2>3, <1>15
<1>17. u[l + 1] = x
  BY <1>14, <1>15
<1>18. ASSUME NEW k \in left + 1..l PROVE u[k] < u[l + 1]
  <2>1. k \in 1..n /\ k # l + 1
    BY <1>14, <1>10, <1>1
  <2> QED
    BY <2>1, <1>12, <1>15, <1>17
<1>19. ASSUME NEW k \in l + 2..right + 1 PROVE u[k] >= u[l + 1]
  <2>1. k \in 1..n /\ k # l + 1
    BY <1>14, <1>10, <1>1
  <2> QED
    BY <2>1, <1>12, <1>15, <1>17
<1> QED
  BY <1>8, <1>10, <1>11, <1>13, <1>15, <1>16, <1>18, <1>19 DEF Pivoted

-----------------------------------------------------------------------------
(* test215.                                                                *)

\* One turn of the loop of test215, all its turns, and its states.
Step215(n, k, rand, w) ==
  IF w.l < w.r
  THEN LET q == qSortFunc(w.s, w.l, w.r, rand) IN
       IF q.mid = n - k THEN [s |-> q.s, l |-> q.mid, r |-> q.mid]
       ELSE IF q.mid < n - k THEN [w EXCEPT !.s = q.s, !.l = q.mid + 1]
       ELSE [w EXCEPT !.s = q.s, !.r = q.mid - 1]
  ELSE w
Start215(s) == [s |-> s, l |-> 0, r |-> Len(s) - 1]
Loop215(s, k, rand) ==
  CHOOSE f : f = [d \in 0..Len(s) |-> IF d = 0 THEN Start215(s) ELSE Step215(Len(s), k, rand, f[d - 1])]

\* Nothing before l is greater than what comes from l on, and nothing after r is less
\* than what comes before.
Split(t, l, r) ==
  \A i, j \in 1..Len(t) : (i <= l /\ l < j) \/ (i <= r + 1 /\ r + 1 < j) => t[i] <= t[j]
States215(s, k) ==
  {w \in [s : Seq(Element), l : 0..Len(s) - k, r : Len(s) - k..Len(s) - 1] :
     SameBag(w.s, s) /\ Split(w.s, w.l, w.r)}

\* A partition step keeps what is left and right of it where it is, and splits the rest.
LEMMA PivotSplits ==
  ASSUME NEW t \in Seq(Element), NEW l \in Nat, NEW r \in l + 1..Len(t) - 1, Split(t, l, r),
         NEW q, Pivoted(t, l, r, q)
  PROVE  Split(q.s, l, r) /\ Split(q.s, q.mid + 1, r) /\ Split(q.s, l, q.mid - 1) /\ Split(q.s, q.mid, q.mid)
<1>0. PICK n, u, mid, x : n = Len(t) /\ u = q.s /\ mid = q.mid /\ x = u[mid + 1]
  OBVIOUS
<1>1. /\ n \in Nat /\ l \in Nat /\ mid \in Nat /\ r \in Nat /\ l < r /\ r < n /\ l <= mid /\ mid <= r
      /\ u \in Seq(Element) /\ Len(u) = n
      /\ \A k \in 1..n : IF k \in l + 1..r + 1 THEN u[k] \in Values(t, l, r) ELSE u[k] = t[k]
      /\ \A k \in l + 1..mid : u[k] < x
      /\ \A k \in mid + 2..r + 1 : u[k] >= x
  BY <1>0, Numbers DEF Pivoted, SameBag
<1>2. x \in Int /\ \A k \in 1..n : u[k] \in Int
  <2>1. mid + 1 \in 1..n
    BY <1>1
  <2> QED
    BY <2>1, <1>0, <1>1, Numbers
<1>3. \A i, j \in 1..n : (i <= l /\ l < j) \/ (i <= r + 1 /\ r + 1 < j) => t[i] <= t[j]
  BY <1>0 DEF Split
<1>4. \A i, j \in 1..n : (i <= l /\ l < j) \/ (i <= r + 1 /\ r + 1 < j) => u[i] <= u[j]
  <2> SUFFICES ASSUME NEW i \in 1..n, NEW j \in 1..n, (i <= l /\ l < j) \/ (i <= r + 1 /\ r + 1 < j)
        PROVE u[i] <= u[j]
    OBVIOUS
  <2>1. \A k \in 1..n : IF k \in l + 1..r + 1 THEN \E m \in l + 1..r + 1 : u[k] = t[m] ELSE u[k] = t[k]
    BY <1>1 DEF Values
  <2>2. PICK i1 \in 1..n : u[i] = t[i1] /\ IF i \in l + 1..r + 1 THEN i1 \in l + 1..r + 1 ELSE i1 = i
    <3>1. \A m \in l + 1..r + 1 : m \in 1..n
      BY <1>1
    <3> QED
      BY <2>1, <3>1
  <2>3. PICK j1 \in 1..n : u[j] = t[j1] /\ IF j \in l + 1..r + 1 THEN j1 \in l + 1..r + 1 ELSE j1 = j
    <3>1. \A m \in l + 1..r + 1 : m \in 1..n
      BY <1>1
    <3> QED
      BY <2>1, <3>1
  <2>4. (i1 <= l /\ l < j1) \/ (i1 <= r + 1 /\ r + 1 < j1)
    <3>0. l \in Int /\ r \in Int /\ l < r
      BY <1>1
    <3>1. CASE i <= l /\ l < j
      <4>1. i1 = i
        BY <3>0, <3>1, <2>2
      <4>2. l < j1
        BY <3>0, <3>1, <2>3
      <4> QED
        BY <4>1, <4>2, <3>1
    <3>2. CASE i <= r + 1 /\ r + 1 < j
      <4>1. j1 = j
        BY <3>0, <3>2, <2>3
      <4>2. i1 <= r + 1
        BY <3>0, <3>2, <2>2
      <4> QED
        BY <4>1, <4>2, <3>2
    <3> QED
      BY <3>1, <3>2
  <2> QED
    BY <1>3, <2>2, <2>3, <2>4
<1>5. \A i, j \in 1..n : i <= mid /\ mid < j => u[i] <= u[j]
  <2> SUFFICES ASSUME NEW i \in 1..n, NEW j \in 1..n, i <= mid, mid < j PROVE u[i] <= u[j]
    OBVIOUS
  <2>1. CASE i <= l
    BY <2>1, <1>1, <1>4
  <2>2. CASE j > r + 1
    <3>1. i <= r + 1
      BY <1>1
    <3> QED
      BY <2>2, <3>1, <1>4
  <2>3. CASE ~ (i <= l) /\ ~ (j > r + 1)
    <3>1. u[i] < x
      BY <2>3, <1>1
    <3>2. x <= u[j]
      <4>1. CASE j = mid + 1
        BY <4>1, <1>0, <1>2
      <4>2. CASE j # mid + 1
        <5>1. j \in mid + 2..r + 1
          BY <4>2, <2>3, <1>1
        <5>2. u[j] >= x
          BY <5>1, <1>1
        <5> QED
          BY <5>2, <1>2
      <4> QED
        BY <4>1, <4>2
    <3> QED
      BY <3>1, <3>2, <1>2
  <2> QED
    BY <2>1, <2>2, <2>3
<1>6. \A i, j \in 1..n : i <= mid + 1 /\ mid + 1 < j => u[i] <= u[j]
  <2> SUFFICES ASSUME NEW i \in 1..n, NEW j \in 1..n, i <= mid + 1, mid + 1 < j PROVE u[i] <= u[j]
    OBVIOUS
  <2>1. CASE i <= mid
    <3>1. mid < j
      BY <1>1
    <3> QED
      BY <2>1, <3>1, <1>5
  <2>2. CASE i = mid + 1
    <3>1. CASE j > r + 1
      <4>1. i <= r + 1
        BY <1>1
      <4> QED
        BY <3>1, <4>1, <1>4
    <3>2. CASE ~ (j > r + 1)
      <4>1. j \in mid + 2..r + 1
        BY <3>2, <1>1
      <4>2. u[j] >= x
        BY <4>1, <1>1
      <4> QED
        BY <4>2, <2>2, <1>0, <1>2
    <3> QED
      BY <3>1, <3>2
  <2> QED
    BY <2>1, <2>2, <1>1
<1>7. Split(u, l, r)
  BY <1>1, <1>4 DEF Split
<1>8. Split(u, mid + 1, r)
  BY <1>1, <1>4, <1>6 DEF Split
<1>9. Split(u, l, mid - 1)
  <2>1. (mid - 1) + 1 = mid
    BY <1>1
  <2> QED
    BY <2>1, <1>1, <1>4, <1>5 DEF Split
<1>10. Split(u, mid, mid)
  BY <1>1, <1>5, <1>6 DEF Split
<1> QED
  BY <1>0, <1>7, <1>8, <1>9, <1>10

\* What rand() may return to a selection among n elements.
Picks(n, rand) == \A m \in 1..n - 1 : rand[m] \in Nat

\* A turn keeps to the states, and brings the two ends closer.
LEMMA Turn215 ==
  ASSUME NEW s \in Seq(Element), NEW k \in 1..Len(s), NEW rand, Picks(Len(s), rand),
         NEW w \in States215(s, k)
  PROVE  LET v == Step215(Len(s), k, rand, w) IN
         v \in States215(s, k) /\ IF w.l < w.r THEN v.r - v.l < w.r - w.l ELSE v = w
<1> DEFINE v == Step215(Len(s), k, rand, w)
<1>0. PICK n, t, l, r : n = Len(s) /\ t = w.s /\ l = w.l /\ r = w.r
  OBVIOUS
<1>1. /\ t \in Seq(Element) /\ w = [s |-> t, l |-> l, r |-> r] /\ SameBag(t, s) /\ Split(t, l, r)
      /\ l \in 0..n - k /\ r \in n - k..n - 1
  BY <1>0 DEF States215
<1>a. n \in Nat /\ k \in 1..n /\ l \in Nat /\ r \in Nat /\ l <= n - k /\ n - k <= r /\ r <= n - 1
  BY <1>0, <1>1, Numbers
<1>l. Len(t) = n
  BY <1>0, <1>1 DEF SameBag
<1>2. CASE ~ (l < r)
  BY <1>0, <1>2 DEF Step215
<1>3. CASE l < r
  <2>1. PICK q : q = qSortFunc(t, l, r, rand)
    OBVIOUS
  <2>2. r \in l + 1..Len(t) - 1
    BY <1>3, <1>a, <1>l
  <2>3. Pivoted(t, l, r, q)
    <3>1. r - l \in 1..n - 1
      BY <1>3, <1>a
    <3>2. rand[r - l] \in Nat
      BY <3>1, <1>0 DEF Picks
    <3> QED
      BY <3>2, <2>1, <2>2, <1>1, <1>a, qSortFuncIs
  <2>4. PICK u, mid : u = q.s /\ mid = q.mid
    OBVIOUS
  <2>5. Split(u, mid + 1, r) /\ Split(u, l, mid - 1) /\ Split(u, mid, mid)
    BY <2>2, <2>3, <2>4, <1>1, <1>a, PivotSplits
  <2>6. u \in Seq(Element) /\ mid \in l..r /\ SameBag(u, s)
    <3>1. u \in Seq(Element) /\ mid \in l..r /\ SameBag(u, t)
      BY <2>3, <2>4 DEF Pivoted
    <3> QED
      BY <3>1, <1>1, SameBags
  <2>7. mid \in Int /\ l <= mid /\ mid <= r
    BY <2>6, <1>a
  <2>8. CASE mid = n - k
    <3>1. v = [s |-> u, l |-> mid, r |-> mid]
      BY <1>0, <1>3, <2>1, <2>4, <2>8 DEF Step215
    <3>2. mid \in 0..n - k /\ mid \in n - k..n - 1 /\ mid - mid < r - l
      BY <2>8, <1>a, <1>3, <2>7
    <3>3. v \in States215(s, k)
      <4> HIDE DEF v
      <4> QED
        BY <3>1, <3>2, <2>5, <2>6, <1>0 DEF States215
    <3> QED
      BY <3>1, <3>2, <3>3, <1>0, <1>3
  <2>9. CASE mid < n - k
    <3>1. v = [s |-> u, l |-> mid + 1, r |-> r]
      <4>1. mid # n - k
        BY <2>9, <2>7, <1>a
      <4> QED
        BY <4>1, <1>0, <1>1, <1>3, <2>1, <2>4, <2>9 DEF Step215
    <3>2. mid + 1 \in 0..n - k /\ r \in n - k..n - 1 /\ r - (mid + 1) < r - l
      BY <2>9, <1>a, <1>3, <2>7
    <3>3. v \in States215(s, k)
      <4> HIDE DEF v
      <4> QED
        BY <3>1, <3>2, <2>5, <2>6, <1>0 DEF States215
    <3> QED
      BY <3>1, <3>2, <3>3, <1>0, <1>3
  <2>10. CASE mid > n - k
    <3>1. v = [s |-> u, l |-> l, r |-> mid - 1]
      <4>1. mid # n - k /\ ~ (mid < n - k)
        BY <2>10, <2>7, <1>a
      <4> QED
        BY <4>1, <1>0, <1>1, <1>3, <2>1, <2>4 DEF Step215
    <3>2. l \in 0..n - k /\ mid - 1 \in n - k..n - 1 /\ (mid - 1) - l < r - l
      BY <2>10, <1>a, <1>3, <2>7
    <3>3. v \in States215(s, k)
      <4> HIDE DEF v
      <4> QED
        BY <3>1, <3>2, <2>5, <2>6, <1>0 DEF States215
    <3> QED
      BY <3>1, <3>2, <3>3, <1>0, <1>3
  <2> QED
    BY <2>7, <2>8, <2>9, <2>10, <1>a
<1> QED
  BY <1>0, <1>2, <1>3

\* test215 finds what is at that place after sorting.
LEMMA test215Is ==
  ASSUME NEW s \in Seq(Element), NEW k \in 1..Len(s), NEW rand, Picks(Len(s), rand)
  PROVE  test215(s, k, rand) = At(MPSort(s), Len(s) - k)
<1> DEFINE n == Len(s)  w0 == Start215(s)  g == Loop215(s, k, rand)  D == States215(s, k)
           G == [w \in D |-> Step215(n, k, rand, w)]  M == [w \in D |-> w.r - w.l]
<1>1. n \in Nat /\ test215(s, k, rand) = At(g[n].s, g[n].l)
  BY Numbers DEF test215, While, Open, Step215, Start215, Loop215
<1>2. w0 \in D
  <2>1. Split(s, 0, n - 1)
    BY <1>1 DEF Split
  <2>2. w0 = [s |-> s, l |-> 0, r |-> n - 1] /\ 0 \in 0..n - k /\ n - 1 \in n - k..n - 1
    BY <1>1 DEF Start215
  <2> HIDE DEF w0
  <2> QED
    BY <2>1, <2>2, SameBags DEF States215
<1>3. \A v \in D : v.l \in 0..n - k /\ v.r \in n - k..n - 1
  BY DEF States215
<1>4. \A v \in D : Step215(n, k, rand, v) \in D
        /\ IF v.l < v.r THEN Step215(n, k, rand, v).r - Step215(n, k, rand, v).l < v.r - v.l ELSE Step215(n, k, rand, v) = v
  BY Turn215
<1>5. G \in [D -> D] /\ M \in [D -> Nat] /\ M[w0] <= n /\ \A v \in D : G[v] = v \/ M[G[v]] < M[v]
  <2> HIDE DEF D
  <2>1. w0.l = 0 /\ w0.r = n - 1
    BY DEF Start215
  <2>2. M[w0] <= n
    <3> HIDE DEF w0
    <3> QED
      BY <1>1, <1>2, <2>1
  <2>3. \A v \in D : v.r - v.l \in Nat
    BY <1>1, <1>3
  <2>4. G \in [D -> D] /\ M \in [D -> Nat]
    BY <1>4, <2>3
  <2>5. \A v \in D : G[v] = v \/ M[G[v]] < M[v]
    BY <1>4
  <2> QED
    BY <2>2, <2>4, <2>5
<1>p. PICK f : EndsAs(n, D, G, w0, f)
  <2> HIDE DEF D, G, M, w0
  <2> QED
    BY <1>1, <1>2, <1>5, LoopRule
<1>6. /\ f \in [0..n -> D] /\ f[0] = w0 /\ \A d \in 1..n : f[d] = G[f[d - 1]]
      /\ f[n] \in D /\ G[f[n]] = f[n]
      /\ \A p : Follows(n, D, G, p) /\ p[0] = w0 => p[n] = f[n]
  BY <1>p DEF EndsAs
<1>7. g[n] = f[n]
  <2>1. f = [d \in 0..n |-> IF d = 0 THEN w0 ELSE Step215(n, k, rand, f[d - 1])]
    <3>1. \A d \in 1..n : d - 1 \in 0..n
      BY <1>1
    <3>2. \A d \in 1..n : f[d] = Step215(n, k, rand, f[d - 1])
      BY <1>6, <3>1
    <3> HIDE DEF D
    <3> QED
      BY <1>6, <3>2, <1>1
  <2>2. g = [d \in 0..n |-> IF d = 0 THEN w0 ELSE Step215(n, k, rand, g[d - 1])]
    BY <2>1 DEF Loop215
  <2>3. g[0] = w0 /\ \A d \in 1..n : g[d] = Step215(n, k, rand, g[d - 1])
    BY <2>2, <1>1, SMTT(30)
  <2>4. Follows(n, D, G, g)
    BY <2>3 DEF Follows
  <2> HIDE DEF D, G, g
  <2> QED
    BY <1>6, <2>3, <2>4
<1>8. PICK v, t, p, u : v = f[n] /\ t = v.s /\ p = v.l + 1 /\ u = MPSort(s)
  OBVIOUS
<1>9. v \in D /\ Step215(n, k, rand, v) = v
  BY <1>6, <1>8
<1>10. v.l = n - k /\ v.r = n - k
  <2>1. v.l \in 0..n - k /\ v.r \in n - k..n - 1
    BY <1>9, <1>3
  <2>2. v.l < v.r => v.r - v.l < v.r - v.l
    BY <1>4, <1>9
  <2> QED
    BY <2>1, <2>2, <1>1
<1>11. test215(s, k, rand) = t[p]
  BY <1>1, <1>7, <1>8 DEF At
<1> HIDE DEF g, G, M, w0
<1>12. t \in Seq(Element) /\ SameBag(t, s) /\ Split(t, n - k, n - k)
  BY <1>8, <1>9, <1>10 DEF States215
<1>13. u \in Seq(Element) /\ SameBag(u, s) /\ Sorted(u)
  BY <1>8, MPSortIs DEF SortOf
<1>14. SameBag(t, u) /\ Len(t) = n
  BY <1>12, <1>13, SameBags DEF SameBag
<1>15. p = (n - k) + 1 /\ p \in 1..n
  BY <1>1, <1>8, <1>10
<1>16. \A i \in 1..n : (i < p => t[i] <= t[p]) /\ (i > p => t[p] <= t[i])
  <2> SUFFICES ASSUME NEW i \in 1..n PROVE (i < p => t[i] <= t[p]) /\ (i > p => t[p] <= t[i])
    OBVIOUS
  <2>1. i < p => i <= n - k /\ n - k < p
    BY <1>1, <1>15
  <2>2. i > p => p <= (n - k) + 1 /\ (n - k) + 1 < i
    BY <1>1, <1>15
  <2> QED
    BY <2>1, <2>2, <1>12, <1>14, <1>15 DEF Split
<1>17. u[p] = t[p]
  BY <1>12, <1>13, <1>14, <1>15, <1>16, IntSeq, ParterIs
<1> QED
  BY <1>8, <1>11, <1>15, <1>17 DEF At

-----------------------------------------------------------------------------
(* test88.                                                                 *)

\* One turn of the loop of test88, and all its turns.
Step88(num2, w) ==
  IF w.n >= 0
  THEN LET first == w.m >= 0 /\ TakesFirst(At(w.s, w.m), At(num2, w.n))
       IN [s |-> Put(w.s, w.pos, IF first THEN At(w.s, w.m) ELSE At(num2, w.n)),
           pos |-> w.pos - 1, m |-> w.m - (IF first THEN 1 ELSE 0),
           n |-> w.n - (IF first THEN 0 ELSE 1)]
  ELSE w
Start88(num1, num2) ==
  [s |-> num1 \o num2, pos |-> Len(num1) + Len(num2) - 1, m |-> Len(num1) - 1, n |-> Len(num2) - 1]
Loop88(num1, num2) ==
  CHOOSE f : f = [k \in 0..Len(num1) + Len(num2) |->
                    IF k = 0 THEN Start88(num1, num2) ELSE Step88(num2, f[k - 1])]

\* The places of the elements of both arrays that are not merged yet.
Waiting(m0, m, n) == (1..m + 1) \cup (m0 + 1..m0 + n + 1)

\* t is s0, both arrays, with the elements after m + n + 2 merged.
Merged(s0, m0, t, m, n) ==
  /\ t \in Seq(Element) /\ Len(t) = Len(s0)
  /\ \A k \in 1..m + 1 : t[k] = s0[k]
  /\ \A i, j \in m + n + 3..Len(s0) : i < j => t[i] <= t[j]
  /\ \A i \in Waiting(m0, m, n), j \in m + n + 3..Len(s0) : s0[i] <= t[j]
  /\ \A X : Hits(s0, Waiting(m0, m, n), X) + Hits(t, m + n + 3..Len(s0), X) = Hits(s0, 1..Len(s0), X)
States88(num1, num2) ==
  {w \in [s : Seq(Element), pos : Int, m : -1..Len(num1) - 1, n : -1..Len(num2) - 1] :
     w.pos = w.m + w.n + 1 /\ Merged(num1 \o num2, Len(num1), w.s, w.m, w.n)}

\* Both arrays in one.
LEMMA BothIs ==
  ASSUME NEW p \in Seq(Element), NEW q \in Seq(Element)
  PROVE  /\ p \o q \in Seq(Element) /\ Len(p \o q) = Len(p) + Len(q) /\ Len(p) \in Nat /\ Len(q) \in Nat
         /\ \A k \in 1..Len(p) : (p \o q)[k] = p[k]
         /\ \A k \in 1..Len(q) : (p \o q)[Len(p) + k] = q[k]
OBVIOUS

\* The greatest of the waiting elements, at place g, goes to the last free place.
LEMMA MergeStep ==
  ASSUME NEW s0 \in Seq(Element), NEW m0 \in 0..Len(s0), NEW t, NEW m \in -1..m0 - 1,
         NEW n \in -1..Len(s0) - m0 - 1, Merged(s0, m0, t, m, n), NEW g \in Waiting(m0, m, n),
         \A i \in Waiting(m0, m, n) : s0[i] <= s0[g],
         NEW m1 \in -1..m, NEW n1 \in -1..n, m1 + n1 = m + n - 1,
         Waiting(m0, m1, n1) \cup {g} = Waiting(m0, m, n), g \notin Waiting(m0, m1, n1)
  PROVE  Merged(s0, m0, Put(t, m + n + 1, s0[g]), m1, n1)
<1>0. PICK N, p, x, u : N = Len(s0) /\ p = m + n + 2 /\ x = s0[g] /\ u = Put(t, m + n + 1, s0[g])
  OBVIOUS
<1>1. /\ N \in Nat /\ m0 \in Int /\ 0 <= m0 /\ m0 <= N /\ m \in Int /\ m < m0 /\ n \in Int /\ n < N - m0
      /\ m1 \in Int /\ n1 \in Int /\ m1 <= m /\ n1 <= n /\ -1 <= m1 /\ -1 <= n1
      /\ p \in 1..N /\ (m + n + 1) + 1 = p /\ m + n + 3 = p + 1 /\ m1 + n1 + 3 = p /\ m1 + 1 < p
  BY <1>0, Numbers
<1>2. /\ t \in Seq(Element) /\ Len(t) = N
      /\ \A k \in 1..m + 1 : t[k] = s0[k]
      /\ \A i, j \in p + 1..N : i < j => t[i] <= t[j]
      /\ \A i \in Waiting(m0, m, n), j \in p + 1..N : s0[i] <= t[j]
      /\ \A X : Hits(s0, Waiting(m0, m, n), X) + Hits(t, p + 1..N, X) = Hits(s0, 1..N, X)
  BY <1>0, <1>1 DEF Merged
<1>3. Waiting(m0, m, n) \subseteq 1..N
  BY <1>1 DEF Waiting
<1>4. x \in Element /\ x \in Int
  BY <1>0, <1>3, Numbers
<1>5. u \in Seq(Element) /\ Len(u) = N /\ \A k \in 1..N : u[k] = IF k = p THEN x ELSE t[k]
  <2>1. u = [t EXCEPT ![p] = x]
    BY <1>0, <1>1 DEF Put
  <2> QED
    BY <2>1, <1>1, <1>2, <1>4, Assigned
<1>6. \A k \in 1..m1 + 1 : u[k] = s0[k]
  <2> SUFFICES ASSUME NEW k \in 1..m1 + 1 PROVE u[k] = s0[k]
    OBVIOUS
  <2>1. k \in 1..N /\ k # p /\ k \in 1..m + 1
    BY <1>1
  <2> QED
    BY <2>1, <1>2, <1>5
<1>7. \A j \in p..N : IF j = p THEN u[j] = x ELSE j \in p + 1..N /\ u[j] = t[j] /\ x <= t[j]
  <2> SUFFICES ASSUME NEW j \in p..N PROVE IF j = p THEN u[j] = x ELSE j \in p + 1..N /\ u[j] = t[j] /\ x <= t[j]
    OBVIOUS
  <2>1. j \in 1..N /\ (j # p => j \in p + 1..N)
    BY <1>1
  <2> QED
    BY <2>1, <1>0, <1>2, <1>5
<1>8. \A i, j \in p..N : i < j => u[i] <= u[j]
  <2> SUFFICES ASSUME NEW i \in p..N, NEW j \in p..N, i < j PROVE u[i] <= u[j]
    OBVIOUS
  <2>1. j # p
    BY <1>1
  <2> QED
    BY <2>1, <1>2, <1>7
<1>9. \A i \in Waiting(m0, m1, n1), j \in p..N : s0[i] <= u[j]
  <2> SUFFICES ASSUME NEW i \in Waiting(m0, m1, n1), NEW j \in p..N PROVE s0[i] <= u[j]
    OBVIOUS
  <2>1. i \in Waiting(m0, m, n)
    OBVIOUS
  <2> QED
    BY <2>1, <1>0, <1>2, <1>7
<1>10. ASSUME NEW X
       PROVE  Hits(s0, Waiting(m0, m1, n1), X) + Hits(u, p..N, X) = Hits(s0, 1..N, X)
  <2>1. Hits(s0, Waiting(m0, m, n), X) + Hits(t, p + 1..N, X) = Hits(s0, 1..N, X)
    BY <1>2
  <2>2. IsFiniteSet(Waiting(m0, m1, n1)) /\ IsFiniteSet(p + 1..N) /\ p \notin p + 1..N /\ (p + 1..N) \cup {p} = p..N
    <3>1. IsFiniteSet(1..N)
      BY <1>1, FS_Interval
    <3>2. Waiting(m0, m1, n1) \subseteq 1..N
      BY <1>3
    <3>3. p + 1..N \subseteq 1..N /\ p \notin p + 1..N /\ (p + 1..N) \cup {p} = p..N
      BY <1>1
    <3> QED
      BY <3>1, <3>2, <3>3, FS_Subset
  <2>3. Hits(s0, Waiting(m0, m1, n1) \cup {g}, X) = Hits(s0, Waiting(m0, m1, n1), X) + Hit(s0, g, X)
    BY <2>2, HitsMore
  <2>4. Hits(u, (p + 1..N) \cup {p}, X) = Hits(u, p + 1..N, X) + Hit(u, p, X)
    BY <2>2, HitsMore
  <2>5. Hits(u, p + 1..N, X) = Hits(t, p + 1..N, X)
    <3>1. Alike(u, t, p + 1..N)
      BY <1>1, <1>5 DEF Alike
    <3> QED
      BY <3>1, HitsSame
  <2>6. Hit(u, p, X) = Hit(s0, g, X) /\ Hit(u, p, X) \in Int
    BY <1>0, <1>1, <1>5 DEF Hit
  <2>7. Hits(s0, Waiting(m0, m1, n1), X) \in Int /\ Hits(t, p + 1..N, X) \in Int
    BY <2>2, HitsType
  <2>8. Hits(s0, Waiting(m0, m, n), X) = Hits(s0, Waiting(m0, m1, n1), X) + Hit(s0, g, X)
    BY <2>3
  <2>9. Hits(u, p..N, X) = Hits(t, p + 1..N, X) + Hit(s0, g, X)
    BY <2>2, <2>4, <2>5, <2>6
  <2> QED
    BY <2>1, <2>6, <2>7, <2>8, <2>9
<1>11. Merged(s0, m0, u, m1, n1)
  BY <1>0, <1>1, <1>5, <1>6, <1>8, <1>9, <1>10 DEF Merged
<1> QED
  BY <1>0, <1>11

\* A turn keeps to the states and goes on.
LEMMA Turn88 ==
  ASSUME NEW num1 \in Seq(Element), NEW num2 \in Seq(Element), Sorted(num1), Sorted(num2),
         NEW w \in States88(num1, num2)
  PROVE  LET v == Step88(num2, w) IN
         v \in States88(num1, num2) /\ IF w.n >= 0 THEN v.m + v.n < w.m + w.n ELSE v = w
<1> DEFINE v == Step88(num2, w)
<1>0. PICK m0, n0, s0, t, m, n : m0 = Len(num1) /\ n0 = Len(num2) /\ s0 = num1 \o num2 /\ t = w.s /\ m = w.m /\ n = w.n
  OBVIOUS
<1>1. /\ s0 \in Seq(Element) /\ Len(s0) = m0 + n0 /\ m0 \in Nat /\ n0 \in Nat
      /\ \A k \in 1..m0 : s0[k] = num1[k] /\ s0[k] \in Int
      /\ \A k \in 1..n0 : s0[m0 + k] = num2[k] /\ num2[k] \in Int /\ num2[k] \in Element
  BY <1>0, BothIs, Numbers
<1>2. /\ m \in -1..m0 - 1 /\ n \in -1..n0 - 1 /\ Merged(s0, m0, t, m, n)
      /\ w = [s |-> t, pos |-> m + n + 1, m |-> m, n |-> n]
  BY <1>0 DEF States88
<1>3. /\ \A i, j \in 1..m0 : i < j => s0[i] <= s0[j]
      /\ \A i, j \in 1..n0 : i < j => num2[i] <= num2[j]
  <2>1. DOMAIN num1 = 1..m0 /\ DOMAIN num2 = 1..n0
    BY <1>0, Numbers
  <2> QED
    BY <2>1, <1>1 DEF Sorted
<1>4. CASE ~ (n >= 0)
  BY <1>0, <1>4 DEF Step88
<1>5. CASE n >= 0
  <2>a. m \in Int /\ n \in Int /\ 0 <= n /\ n < n0 /\ -1 <= m /\ m < m0 /\ m0 \in Nat /\ n0 \in Nat
    BY <1>1, <1>2, <1>5
  <2>1. At(num2, n) = num2[n + 1] /\ n + 1 \in 1..n0
    BY <2>a DEF At
  <2>2. \A i \in Waiting(m0, m, n) : i \in 1..m + 1 \/ \E j \in 1..n + 1 : i = m0 + j
    <3> SUFFICES ASSUME NEW i \in m0 + 1..m0 + n + 1 PROVE \E j \in 1..n + 1 : i = m0 + j
      BY DEF Waiting
    <3>1. i - m0 \in 1..n + 1 /\ i = m0 + (i - m0)
      BY <2>a
    <3> QED
      BY <3>1
  <2>3. \A i \in 1..m + 1 : m >= 0 /\ s0[i] <= s0[m + 1] /\ s0[i] \in Int
    <3> SUFFICES ASSUME NEW i \in 1..m + 1 PROVE m >= 0 /\ s0[i] <= s0[m + 1] /\ s0[i] \in Int
      OBVIOUS
    <3>1. i \in 1..m0 /\ m + 1 \in 1..m0 /\ m >= 0 /\ (i # m + 1 => i < m + 1)
      BY <2>a
    <3>2. s0[i] \in Int
      BY <3>1, <1>1
    <3> QED
      BY <3>1, <3>2, <1>3
  <2>4. \A j \in 1..n + 1 : s0[m0 + j] <= num2[n + 1] /\ s0[m0 + j] = num2[j] /\ num2[j] \in Int
    <3> SUFFICES ASSUME NEW j \in 1..n + 1 PROVE s0[m0 + j] <= num2[n + 1] /\ s0[m0 + j] = num2[j] /\ num2[j] \in Int
      OBVIOUS
    <3>1. j \in 1..n0 /\ n + 1 \in 1..n0 /\ (j # n + 1 => j < n + 1)
      BY <2>a
    <3>2. num2[j] \in Int /\ s0[m0 + j] = num2[j]
      BY <3>1, <1>1
    <3> QED
      BY <3>1, <3>2, <1>3
  <2>5. m >= 0 => At(t, m) = s0[m + 1] /\ s0[m + 1] \in Int /\ m + 1 \in 1..m + 1
    <3> SUFFICES ASSUME m >= 0 PROVE At(t, m) = s0[m + 1] /\ s0[m + 1] \in Int /\ m + 1 \in 1..m + 1
      OBVIOUS
    <3>1. m + 1 \in 1..m + 1 /\ m + 1 \in 1..m0
      BY <2>a
    <3> QED
      BY <3>1, <1>1, <1>2 DEF At, Merged
  <2>6. num2[n + 1] \in Int /\ s0[m0 + (n + 1)] = num2[n + 1]
    BY <2>1, <1>1
  <2>7. CASE m >= 0 /\ s0[m + 1] > num2[n + 1]
    <3>1. PICK u : u = Put(t, m + n + 1, s0[m + 1])
      OBVIOUS
    <3>2. v = [s |-> u, pos |-> m + n + 1 - 1, m |-> m - 1, n |-> n]
      <4>1. (m >= 0 /\ TakesFirst(At(t, m), At(num2, n))) = TRUE
        BY <2>1, <2>5, <2>7 DEF TakesFirst
      <4>2. n - 0 = n
        BY <2>a
      <4> QED
        BY <4>1, <4>2, <3>1, <1>0, <1>2, <1>5, <2>5, <2>7, SMTT(20) DEF Step88
    <3>3. \A i \in Waiting(m0, m, n) : s0[i] <= s0[m + 1]
      BY <2>2, <2>3, <2>4, <2>5, <2>6, <2>7, SMTT(20)
    <3>4. /\ m + 1 \in Waiting(m0, m, n) /\ m + 1 \notin Waiting(m0, m - 1, n)
          /\ Waiting(m0, m - 1, n) \cup {m + 1} = Waiting(m0, m, n)
      BY <2>a, <2>7 DEF Waiting
    <3>5. /\ m0 \in 0..Len(s0) /\ n \in -1..Len(s0) - m0 - 1 /\ m - 1 \in -1..m /\ n \in -1..n
          /\ (m - 1) + n = m + n - 1
      BY <2>a, <2>7, <1>1
    <3>6. Merged(s0, m0, u, m - 1, n)
      BY <3>1, <3>3, <3>4, <3>5, <1>1, <1>2, MergeStep
    <3>7. m - 1 \in -1..m0 - 1 /\ m + n + 1 - 1 = (m - 1) + n + 1 /\ m + n + 1 - 1 \in Int /\ u \in Seq(Element)
      BY <3>6, <2>a, <2>7 DEF Merged
    <3>8. v \in States88(num1, num2)
      <4> HIDE DEF v
      <4> QED
        BY <3>2, <3>6, <3>7, <1>0, <1>2 DEF States88
    <3>9. (m - 1) + n < m + n
      BY <2>a
    <3> QED
      BY <3>2, <3>8, <3>9, <1>0, <1>5
  <2>8. CASE ~ (m >= 0 /\ s0[m + 1] > num2[n + 1])
    <3>1. PICK u : u = Put(t, m + n + 1, s0[m0 + n + 1])
      OBVIOUS
    <3>0. m0 + n + 1 = m0 + (n + 1)
      BY <2>a
    <3>2. v = [s |-> u, pos |-> m + n + 1 - 1, m |-> m, n |-> n - 1]
      <4> DEFINE first == m >= 0 /\ TakesFirst(At(t, m), At(num2, n))
      <4>1. ~ first
        BY <2>1, <2>5, <2>8 DEF TakesFirst
      <4>2. m - 0 = m
        BY <2>a
      <4>3. At(num2, n) = s0[m0 + n + 1]
        BY <2>1, <2>6, <3>0
      <4> QED
        <5>1. v = [s |-> Put(t, m + n + 1, IF first THEN At(t, m) ELSE At(num2, n)),
                   pos |-> m + n + 1 - 1, m |-> m - (IF first THEN 1 ELSE 0),
                   n |-> n - (IF first THEN 0 ELSE 1)]
          BY <1>0, <1>2, <1>5 DEF Step88
        <5> HIDE DEF first, v
        <5> QED
          BY <4>1, <4>2, <4>3, <3>1, <5>1
    <3>3. \A i \in Waiting(m0, m, n) : s0[i] <= s0[m0 + n + 1]
      BY <2>2, <2>3, <2>4, <2>5, <2>6, <2>8, <3>0
    <3>4. /\ m0 + n + 1 \in Waiting(m0, m, n) /\ m0 + n + 1 \notin Waiting(m0, m, n - 1)
          /\ Waiting(m0, m, n - 1) \cup {m0 + n + 1} = Waiting(m0, m, n)
      BY <2>a DEF Waiting
    <3>5. /\ m0 \in 0..Len(s0) /\ n \in -1..Len(s0) - m0 - 1 /\ m \in -1..m /\ n - 1 \in -1..n
          /\ m + (n - 1) = m + n - 1
      BY <2>a, <1>1
    <3>6. Merged(s0, m0, u, m, n - 1)
      BY <3>1, <3>3, <3>4, <3>5, <1>1, <1>2, MergeStep
    <3>7. n - 1 \in -1..n0 - 1 /\ m + n + 1 - 1 = m + (n - 1) + 1 /\ m + n + 1 - 1 \in Int /\ u \in Seq(Element)
      BY <3>6, <2>a DEF Merged
    <3>8. v \in States88(num1, num2)
      <4> HIDE DEF v
      <4> QED
        BY <3>2, <3>6, <3>7, <1>0, <1>2 DEF States88
    <3>9. m + (n - 1) < m + n
      BY <2>a
    <3> QED
      BY <3>2, <3>8, <3>9, <1>0, <1>5
  <2> QED
    BY <2>7, <2>8
<1> QED
  BY <1>4, <1>5, <1>0

\* test88 merges.
LEMMA test88Is ==
  ASSUME NEW num1 \in Seq(Element), NEW num2 \in Seq(Element), Sorted(num1), Sorted(num2)
  PROVE  SortOf(num1 \o num2, test88(num1, num2))
<1>0. PICK m0, n0, s0, N : m0 = Len(num1) /\ n0 = Len(num2) /\ s0 = num1 \o num2 /\ N = m0 + n0
  OBVIOUS
<1> DEFINE w0 == Start88(num1, num2)  g == Loop88(num1, num2)  D == States88(num1, num2)
           G == [w \in D |-> Step88(num2, w)]  M == [w \in D |-> w.m + w.n + 2]
<1>1. /\ N \in Nat /\ m0 \in Nat /\ n0 \in Nat /\ s0 \in Seq(Element) /\ Len(s0) = N
      /\ test88(num1, num2) = g[N].s
  <2>1. test88(num1, num2) = g[N].s
    BY <1>0 DEF test88, While, Step88, Start88, Loop88
  <2> HIDE DEF g
  <2> QED
    BY <2>1, <1>0, BothIs
<1>2. w0 \in D
  <2>1. m0 - 1 \in Int /\ n0 - 1 \in Int /\ (m0 - 1) + (n0 - 1) + 3 = N + 1 /\ (m0 - 1) + 1 = m0
        /\ m0 + (n0 - 1) + 1 = N /\ N + 1 > N
    BY <1>0, <1>1
  <2>2. Waiting(m0, m0 - 1, n0 - 1) = 1..N
    BY <2>1, <1>0, <1>1 DEF Waiting
  <2>3. ASSUME NEW X PROVE Hits(s0, 1..N, X) + Hits(s0, N + 1..N, X) = Hits(s0, 1..N, X)
    <3>1. {j \in N + 1..N : s0[j] \in X} = {}
      BY <1>1
    <3>2. Hits(s0, N + 1..N, X) = 0
      BY <3>1, FS_EmptySet DEF Hits
    <3>3. IsFiniteSet(1..N)
      BY <1>1, FS_Interval
    <3>4. Hits(s0, 1..N, X) \in Nat
      BY <3>3, HitsType
    <3> QED
      BY <3>2, <3>4
  <2>4. N + 1..N = {}
    BY <1>1
  <2>5. Merged(s0, m0, s0, m0 - 1, n0 - 1)
    BY <2>1, <2>2, <2>3, <2>4, <1>1 DEF Merged
  <2>6. w0 = [s |-> s0, pos |-> N - 1, m |-> m0 - 1, n |-> n0 - 1]
    BY <1>0 DEF Start88
  <2>7. N - 1 \in Int /\ N - 1 = (m0 - 1) + (n0 - 1) + 1 /\ m0 - 1 \in -1..m0 - 1 /\ n0 - 1 \in -1..n0 - 1
    BY <1>0, <1>1
  <2> HIDE DEF w0
  <2> QED
    BY <2>5, <2>6, <2>7, <1>0, <1>1 DEF States88
<1>3. \A v \in D : v.m \in -1..m0 - 1 /\ v.n \in -1..n0 - 1
  BY <1>0 DEF States88
<1>4. \A v \in D : Step88(num2, v) \in D
        /\ IF v.n >= 0 THEN Step88(num2, v).m + Step88(num2, v).n < v.m + v.n ELSE Step88(num2, v) = v
  BY Turn88
<1>5. G \in [D -> D] /\ M \in [D -> Nat] /\ M[w0] <= N /\ \A v \in D : G[v] = v \/ M[G[v]] < M[v]
  <2> HIDE DEF D
  <2>1. w0.m = m0 - 1 /\ w0.n = n0 - 1
    BY <1>0 DEF Start88
  <2>2. M[w0] <= N
    <3> HIDE DEF w0
    <3> QED
      BY <1>0, <1>1, <1>2, <2>1
  <2>3. \A v \in D : v.m + v.n + 2 \in Nat
    BY <1>1, <1>3, SMTT(30)
  <2>4. G \in [D -> D] /\ M \in [D -> Nat]
    BY <1>4, <2>3
  <2>5. ASSUME NEW v \in D PROVE G[v] = v \/ M[G[v]] < M[v]
    <3>1. PICK u : u = Step88(num2, v)
      OBVIOUS
    <3>2. u \in D /\ IF v.n >= 0 THEN u.m + u.n < v.m + v.n ELSE u = v
      BY <3>1, <1>4
    <3>3. u.m \in Int /\ u.n \in Int /\ v.m \in Int /\ v.n \in Int
      BY <3>2, <1>1, <1>3
    <3> QED
      BY <3>1, <3>2, <3>3
  <2> QED
    BY <2>2, <2>4, <2>5
<1>p. PICK f : EndsAs(N, D, G, w0, f)
  <2> HIDE DEF D, G, M, w0
  <2> QED
    BY <1>1, <1>2, <1>5, LoopRule
<1>6. /\ f \in [0..N -> D] /\ f[0] = w0 /\ \A d \in 1..N : f[d] = G[f[d - 1]]
      /\ f[N] \in D /\ G[f[N]] = f[N]
      /\ \A p : Follows(N, D, G, p) /\ p[0] = w0 => p[N] = f[N]
  BY <1>p DEF EndsAs
<1>7. g[N] = f[N]
  <2>1. f = [d \in 0..N |-> IF d = 0 THEN w0 ELSE Step88(num2, f[d - 1])]
    <3>1. \A d \in 1..N : d - 1 \in 0..N
      BY <1>1
    <3>2. \A d \in 1..N : f[d] = Step88(num2, f[d - 1])
      BY <1>6, <3>1
    <3> HIDE DEF D
    <3> QED
      BY <1>6, <3>2, <1>1
  <2>2. g = [d \in 0..N |-> IF d = 0 THEN w0 ELSE Step88(num2, g[d - 1])]
    BY <2>1, <1>0 DEF Loop88
  <2>3. g[0] = w0 /\ \A d \in 1..N : g[d] = Step88(num2, g[d - 1])
    BY <2>2, <1>1
  <2>4. Follows(N, D, G, g)
    BY <2>3 DEF Follows
  <2> HIDE DEF D, G, g
  <2> QED
    BY <1>6, <2>3, <2>4
<1>8. PICK v, t, m : v = f[N] /\ t = v.s /\ m = v.m
  OBVIOUS
<1>9. v \in D /\ Step88(num2, v) = v
  BY <1>6, <1>8
<1>10. v.n = -1 /\ m \in -1..m0 - 1
  <2>1. v.m \in -1..m0 - 1 /\ v.n \in -1..n0 - 1
    BY <1>9, <1>3
  <2>2. v.n >= 0 => v.m + v.n < v.m + v.n
    BY <1>4, <1>9
  <2>3. v.m \in Int /\ v.n \in Int /\ ~ (v.n >= 0)
    BY <2>1, <2>2, <1>1
  <2> QED
    BY <2>1, <2>3, <1>1, <1>8
<1>11. test88(num1, num2) = t
  BY <1>1, <1>7, <1>8
<1> HIDE DEF g, G, M, w0
<1>12. Merged(s0, m0, t, m, -1)
  BY <1>0, <1>8, <1>9, <1>10 DEF States88
<1> HIDE DEF D
<1>13. m + -1 + 3 = m + 2 /\ m0 + -1 + 1 = m0 /\ m0 + 1 > m0 /\ m + 2 = (m + 1) + 1 /\ m + 1 \in 0..m0 /\ m0 <= N
  BY <1>0, <1>1, <1>10
<1>14. Waiting(m0, m, -1) = 1..m + 1
  <2>1. m0 + 1..m0 = {}
    BY <1>1
  <2> QED
    BY <2>1, <1>13 DEF Waiting
<1>15. /\ t \in Seq(Element) /\ Len(t) = N
       /\ \A k \in 1..m + 1 : t[k] = s0[k]
       /\ \A i, j \in m + 2..N : i < j => t[i] <= t[j]
       /\ \A i \in 1..m + 1, j \in m + 2..N : s0[i] <= t[j]
       /\ \A X : Hits(s0, 1..m + 1, X) + Hits(t, m + 2..N, X) = Hits(s0, 1..N, X)
  BY <1>1, <1>12, <1>13, <1>14 DEF Merged
<1>16. Sorted(t)
  <2>1. DOMAIN t = 1..N
    BY <1>15, Numbers
  <2>2. \A i, j \in 1..m0 : i < j => s0[i] <= s0[j]
    <3>1. DOMAIN num1 = 1..m0 /\ \A k \in 1..m0 : s0[k] = num1[k]
      BY <1>0, BothIs, Numbers
    <3> QED
      BY <3>1 DEF Sorted
  <2> SUFFICES ASSUME NEW i \in 1..N, NEW j \in 1..N, i < j PROVE t[i] <= t[j]
    BY <2>1 DEF Sorted
  <2>3. CASE j <= m + 1
    <3>1. i \in 1..m + 1 /\ j \in 1..m + 1 /\ i \in 1..m0 /\ j \in 1..m0
      BY <2>3, <1>13, <1>10, <1>1
    <3> QED
      BY <3>1, <2>2, <1>15
  <2>4. CASE i <= m + 1 /\ ~ (j <= m + 1)
    <3>1. i \in 1..m + 1 /\ j \in m + 2..N
      BY <2>4, <1>13, <1>10
    <3> QED
      BY <3>1, <1>15
  <2>5. CASE ~ (i <= m + 1)
    <3>1. i \in m + 2..N /\ j \in m + 2..N
      BY <2>5, <1>13, <1>10
    <3> QED
      BY <3>1, <1>15
  <2> QED
    BY <2>3, <2>4, <2>5, <1>13
<1>17. SameBag(t, s0)
  <2> SUFFICES ASSUME NEW X PROVE Hits(t, 1..N, X) = Hits(s0, 1..N, X)
    BY <1>1, <1>15 DEF SameBag
  <2>1. Hits(t, 1..m + 1, X) = Hits(s0, 1..m + 1, X)
    <3>1. Alike(t, s0, 1..m + 1)
      BY <1>15 DEF Alike
    <3> QED
      BY <3>1, HitsSame
  <2>2. Hits(t, 1..N, X) = Hits(t, 1..m + 1, X) + Hits(t, m + 2..N, X)
    <3> DEFINE S == {j \in 1..m + 1 : t[j] \in X}  T == {j \in m + 2..N : t[j] \in X}
    <3>1. m + 1 \in Int /\ m + 2 \in Int /\ 0 <= m + 1 /\ m + 1 <= N /\ m + 2 = (m + 1) + 1
      BY <1>1, <1>10, <1>13
    <3>2. {j \in 1..N : t[j] \in X} = S \cup T /\ S \cap T = {} /\ S \subseteq 1..m + 1 /\ T \subseteq m + 2..N
      <4>1. 1..N = (1..m + 1) \cup (m + 2..N) /\ (1..m + 1) \cap (m + 2..N) = {}
        BY <3>1, <1>1
      <4> QED
        BY <4>1
    <3>3. IsFiniteSet(1..m + 1) /\ IsFiniteSet(m + 2..N)
      BY <3>1, <1>1, FS_Interval
    <3>4. Hits(t, 1..N, X) = Cardinality(S \cup T) /\ Hits(t, 1..m + 1, X) = Cardinality(S)
          /\ Hits(t, m + 2..N, X) = Cardinality(T)
      BY <3>2 DEF Hits
    <3> HIDE DEF S, T
    <3>5. IsFiniteSet(S) /\ IsFiniteSet(T)
      BY <3>2, <3>3, FS_Subset
    <3>6. Cardinality(S) \in Nat /\ Cardinality(T) \in Nat /\ Cardinality(S \cap T) = 0
      BY <3>2, <3>5, FS_CardinalityType, FS_EmptySet
    <3>7. Cardinality(S \cup T) = Cardinality(S) + Cardinality(T) - Cardinality(S \cap T)
      BY <3>5, FS_Union
    <3> QED
      BY <3>4, <3>6, <3>7
  <2> QED
    BY <2>1, <2>2, <1>15
<1> QED
  BY <1>0, <1>11, <1>15, <1>16, <1>17 DEF SortOf

\* Two sorts of the same elements are the same.
LEMMA OneSort ==
  ASSUME NEW s \in Seq(Element), NEW t, SortOf(s, t)
  PROVE  t = MPSort(s)
<1>1. PICK u : u = MPSort(s)
  OBVIOUS
<1>2. SortOf(s, u)
  BY <1>1, MPSortIs
<1>3. t \in Seq(Int) /\ u \in Seq(Int) /\ Sorted(t) /\ Sorted(u) /\ SameBag(t, u)
  BY <1>2, IntSeq, SameBags DEF SortOf
<1> QED
  BY <1>1, <1>3, SortedOnce

\* The sorts and merges agree with the definitions, for all sequences of numbers.
LEMMA SortsAre ==
  ASSUME a \in Seq(Element), b \in Seq(Element)
  PROVE  SortsSort
<1>1. Sorted(MPSort(a)) /\ Permuted(MPSort(a), a)
  BY MPSortIs, BagPermuted DEF SortOf
<1>2. (\A k \in DOMAIN a : a[k] \in 0..2) => test75(a) = MPSort(a)
  BY test75Sorts
<1>3. a # <<>> => Partitioned(a, FindIndex(a, 0, Len(a) - 1))
  BY FindIndexIs
<1>4. \A rand \in Pivots(Len(a)), k \in 1..Len(a) : test215(a, k, rand) = At(MPSort(a), Len(a) - k)
  <2> SUFFICES ASSUME NEW rand \in Pivots(Len(a)), NEW k \in 1..Len(a)
               PROVE  test215(a, k, rand) = At(MPSort(a), Len(a) - k)
    OBVIOUS
  <2>1. Len(a) \in Nat
    OBVIOUS
  <2>2. Picks(Len(a), rand)
    BY <2>1 DEF Pivots, Picks
  <2> QED
    BY <2>2, test215Is
<1>5. Sorted(a) /\ Sorted(b) => test88(a, b) = MPSort(a \o b)
  <2> SUFFICES ASSUME Sorted(a), Sorted(b) PROVE test88(a, b) = MPSort(a \o b)
    OBVIOUS
  <2>1. SortOf(a \o b, test88(a, b))
    BY test88Is
  <2>2. a \o b \in Seq(Element)
    BY BothIs
  <2> QED
    BY <2>1, <2>2, OneSort
<1> QED
  BY <1>1, <1>2, <1>3, <1>4, <1>5 DEF SortsSort

-----------------------------------------------------------------------------
(* test34.                                                                 *)

\* One turn of a search that halves, all turns of the two searches, and their states:
\* S holds the places the search is to stop before.
StepBound(left, w) ==
  IF w.l < w.r
  THEN IF left THEN [w EXCEPT !.r = Middle(w)] ELSE [w EXCEPT !.l = Middle(w) + 1]
  ELSE w
StartBound(s) == [l |-> 0, r |-> Len(s)]
LoopLower(s, target) ==
  CHOOSE f : f = [k \in 0..Len(s) |-> IF k = 0 THEN StartBound(s)
                    ELSE StepBound(At(s, Middle(f[k - 1])) >= target, f[k - 1])]
LoopUpper(s, target) ==
  CHOOSE f : f = [k \in 0..Len(s) |-> IF k = 0 THEN StartBound(s)
                    ELSE StepBound(At(s, Middle(f[k - 1])) > target, f[k - 1])]
StatesBound(n, S) ==
  {w \in [l : 0..n, r : 0..n] :
     w.l <= w.r /\ (\A k \in 1..w.l : k \notin S) /\ (\A k \in w.r + 1..n : k \in S)}

\* A turn keeps to the states, and brings the two ends closer.
LEMMA TurnBound ==
  ASSUME NEW n \in Nat, NEW S, \A i, j \in 1..n : i < j /\ i \in S => j \in S,
         NEW w \in StatesBound(n, S), NEW left,
         w.l < w.r => left = (Middle(w) + 1 \in S)
  PROVE  LET v == StepBound(left, w) IN
         v \in StatesBound(n, S) /\ IF w.l < w.r THEN v.r - v.l < w.r - w.l ELSE v = w
<1> DEFINE v == StepBound(left, w)
<1>0. PICK l, r, m : l = w.l /\ r = w.r /\ m = Middle(w)
  OBVIOUS
<1>1. /\ l \in 0..n /\ r \in 0..n /\ l <= r /\ w = [l |-> l, r |-> r]
      /\ (\A k \in 1..l : k \notin S) /\ (\A k \in r + 1..n : k \in S)
  BY <1>0 DEF StatesBound
<1>2. CASE ~ (l < r)
  BY <1>0, <1>2 DEF StepBound
<1>3. CASE l < r
  <2>1. m \in Int /\ l <= m /\ m < r /\ l \in Int /\ r \in Int /\ 0 <= l /\ r <= n
    <3>1. m = l + (r - l) \div 2 /\ r - l \in Nat /\ r - l > 0
      BY <1>0, <1>1, <1>3 DEF Middle
    <3>2. (r - l) \div 2 \in Nat /\ (r - l) \div 2 < r - l
      BY <3>1
    <3> QED
      BY <3>1, <3>2, <1>1
  <2>2. m + 1 \in 1..n
    BY <2>1
  <2>3. CASE m + 1 \in S
    <3>1. v = [l |-> l, r |-> m]
      BY <1>0, <1>1, <1>3, <2>3 DEF StepBound
    <3>2. \A k \in m + 1..n : k \in S
      <4> SUFFICES ASSUME NEW k \in m + 1..n PROVE k \in S
        OBVIOUS
      <4>1. k \in 1..n /\ (k # m + 1 => m + 1 < k)
        BY <2>1
      <4> QED
        BY <4>1, <2>2, <2>3
    <3>3. m \in 0..n /\ l <= m /\ m - l < r - l
      BY <2>1
    <3>4. v \in StatesBound(n, S)
      <4> HIDE DEF v
      <4> QED
        BY <3>1, <3>2, <3>3, <1>1 DEF StatesBound
    <3> QED
      BY <3>1, <3>3, <3>4, <1>0, <1>3
  <2>4. CASE m + 1 \notin S
    <3>1. v = [l |-> m + 1, r |-> r]
      BY <1>0, <1>1, <1>3, <2>4 DEF StepBound
    <3>2. \A k \in 1..m + 1 : k \notin S
      <4> SUFFICES ASSUME NEW k \in 1..m + 1, k \in S PROVE FALSE
        OBVIOUS
      <4>1. k \in 1..n /\ (k # m + 1 => k < m + 1)
        BY <2>1
      <4> QED
        BY <4>1, <2>2, <2>4
    <3>3. m + 1 \in 0..n /\ m + 1 <= r /\ r - (m + 1) < r - l
      BY <2>1
    <3>4. v \in StatesBound(n, S)
      <4> HIDE DEF v
      <4> QED
        BY <3>1, <3>2, <3>3, <1>1 DEF StatesBound
    <3> QED
      BY <3>1, <3>3, <3>4, <1>0, <1>3
  <2> QED
    BY <2>3, <2>4
<1> QED
  BY <1>0, <1>2, <1>3

\* p parts the places that are not in S from those that are.
Parts2(p, n, S) == p \in 0..n /\ (\A k \in 1..p : k \notin S) /\ (\A k \in p + 1..n : k \in S)

\* The middle of what is left lies in it.
LEMMA MiddleIs ==
  ASSUME NEW n \in Nat, NEW S, NEW w \in StatesBound(n, S), w.l < w.r
  PROVE  Middle(w) \in 0..n - 1
<1>0. PICK l, r : l = w.l /\ r = w.r
  OBVIOUS
<1>1. l \in 0..n /\ r \in 0..n /\ l < r
  BY <1>0 DEF StatesBound
<1>2. r - l \in Nat /\ r - l > 0 /\ Middle(w) = l + (r - l) \div 2
  BY <1>0, <1>1 DEF Middle
<1>3. (r - l) \div 2 \in Nat /\ (r - l) \div 2 < r - l
  BY <1>2
<1> QED
  BY <1>1, <1>2, <1>3

\* The search stops before the first element that is not less than target.
LEMMA LowerIs ==
  ASSUME NEW s \in Seq(Element), Sorted(s), NEW target \in Int
  PROVE  Parts2(LowerBound(s, target), Len(s), {k \in 1..Len(s) : s[k] >= target})
<1>0. PICK n, S : n = Len(s) /\ S = {k \in 1..n : s[k] >= target}
  OBVIOUS
<1> DEFINE w0 == StartBound(s)  g == LoopLower(s, target)  D == StatesBound(n, S)
           step(w) == StepBound(At(s, Middle(w)) >= target, w)
           G == [w \in D |-> step(w)]  M == [w \in D |-> w.r - w.l]
<1>1. n \in Nat /\ LowerBound(s, target) = g[n].l
  <2>1. LowerBound(s, target) = g[Len(s)].l
    BY DEF LowerBound, Bound, While, Open, StepBound, StartBound, LoopLower
  <2> HIDE DEF g
  <2> QED
    BY <2>1, <1>0, Numbers
<1>2. w0 \in D
  <2>1. w0 = [l |-> 0, r |-> n]
    BY <1>0 DEF StartBound
  <2> HIDE DEF w0
  <2> QED
    BY <2>1, <1>1 DEF StatesBound
<1>3. \A v \in D : v.l \in 0..n /\ v.r \in 0..n /\ v.l <= v.r
  BY DEF StatesBound
<1>4. ASSUME NEW v \in D
      PROVE  step(v) \in D /\ IF v.l < v.r THEN step(v).r - step(v).l < v.r - v.l ELSE step(v) = v
  <2>1. \A i, j \in 1..n : i < j /\ i \in S => j \in S
    <3>1. DOMAIN s = 1..n /\ \A k \in 1..n : s[k] \in Int
      BY <1>0, Numbers
    <3>2. \A i, j \in 1..n : i < j => s[i] <= s[j]
      BY <3>1 DEF Sorted
    <3> QED
      BY <3>1, <3>2, <1>0
  <2>2. v.l < v.r => (At(s, Middle(v)) >= target) = (Middle(v) + 1 \in S)
    <3> SUFFICES ASSUME v.l < v.r PROVE (At(s, Middle(v)) >= target) <=> (Middle(v) + 1 \in S)
      OBVIOUS
    <3>1. Middle(v) \in 0..n - 1
      BY <1>1, MiddleIs
    <3>2. Middle(v) + 1 \in 1..n
      BY <3>1, <1>1
    <3> QED
      BY <3>2, <1>0 DEF At
  <2> QED
    BY <1>1, <2>1, <2>2, TurnBound
<1>5. G \in [D -> D] /\ M \in [D -> Nat] /\ M[w0] <= n /\ \A v \in D : G[v] = v \/ M[G[v]] < M[v]
  <2> HIDE DEF D, step
  <2>1. w0.l = 0 /\ w0.r = n
    BY <1>0 DEF StartBound
  <2>2. M[w0] <= n
    <3> HIDE DEF w0
    <3> QED
      BY <1>1, <1>2, <2>1
  <2>3. \A v \in D : v.r - v.l \in Nat
    BY <1>1, <1>3
  <2>4. G \in [D -> D] /\ M \in [D -> Nat]
    BY <1>4, <2>3
  <2>5. \A v \in D : G[v] = v \/ M[G[v]] < M[v]
    BY <1>4
  <2> QED
    BY <2>2, <2>4, <2>5
<1>p. PICK f : EndsAs(n, D, G, w0, f)
  <2> HIDE DEF D, G, M, w0
  <2> QED
    BY <1>1, <1>2, <1>5, LoopRule
<1>6. /\ f \in [0..n -> D] /\ f[0] = w0 /\ \A d \in 1..n : f[d] = G[f[d - 1]]
      /\ f[n] \in D /\ G[f[n]] = f[n]
      /\ \A p : Follows(n, D, G, p) /\ p[0] = w0 => p[n] = f[n]
  BY <1>p DEF EndsAs
<1>7. g[n] = f[n]
  <2>1. f = [d \in 0..n |-> IF d = 0 THEN w0 ELSE StepBound(At(s, Middle(f[d - 1])) >= target, f[d - 1])]
    <3>1. \A d \in 1..n : d - 1 \in 0..n
      BY <1>1
    <3>2. \A d \in 1..n : f[d] = StepBound(At(s, Middle(f[d - 1])) >= target, f[d - 1])
      BY <1>6, <3>1
    <3> HIDE DEF D
    <3> QED
      BY <1>6, <3>2, <1>1
  <2>2. g = [d \in 0..n |-> IF d = 0 THEN w0 ELSE StepBound(At(s, Middle(g[d - 1])) >= target, g[d - 1])]
    BY <2>1, <1>0 DEF LoopLower
  <2>3. g[0] = w0 /\ \A d \in 1..n : g[d] = StepBound(At(s, Middle(g[d - 1])) >= target, g[d - 1])
    BY <2>2, <1>1
  <2>4. Follows(n, D, G, g)
    BY <2>3 DEF Follows
  <2> HIDE DEF D, G, g
  <2> QED
    BY <1>6, <2>3, <2>4
<1>8. PICK v : v = f[n]
  OBVIOUS
<1>9. v \in D /\ step(v) = v
  BY <1>6, <1>8
<1>10. v.l = v.r
  <2>1. v.l \in 0..n /\ v.r \in 0..n /\ v.l <= v.r
    BY <1>9, <1>3
  <2>2. v.l < v.r => v.r - v.l < v.r - v.l
    <3> HIDE DEF step, D
    <3> QED
      BY <1>4, <1>9
  <2> QED
    BY <2>1, <2>2, <1>1
<1>11. LowerBound(s, target) = v.l
  BY <1>1, <1>7, <1>8
<1> HIDE DEF g, G, M, w0
<1>12. Parts2(v.l, n, S)
  BY <1>9, <1>10 DEF StatesBound, Parts2
<1> QED
  BY <1>0, <1>11, <1>12

\* The search stops before the first element that is greater than target.
LEMMA UpperIs ==
  ASSUME NEW s \in Seq(Element), Sorted(s), NEW target \in Int
  PROVE  Parts2(UpperBound(s, target), Len(s), {k \in 1..Len(s) : s[k] > target})
<1>0. PICK n, S : n = Len(s) /\ S = {k \in 1..n : s[k] > target}
  OBVIOUS
<1> DEFINE w0 == StartBound(s)  g == LoopUpper(s, target)  D == StatesBound(n, S)
           step(w) == StepBound(At(s, Middle(w)) > target, w)
           G == [w \in D |-> step(w)]  M == [w \in D |-> w.r - w.l]
<1>1. n \in Nat /\ UpperBound(s, target) = g[n].l
  <2>1. UpperBound(s, target) = g[Len(s)].l
    BY DEF UpperBound, Bound, While, Open, StepBound, StartBound, LoopUpper
  <2> HIDE DEF g
  <2> QED
    BY <2>1, <1>0, Numbers
<1>2. w0 \in D
  <2>1. w0 = [l |-> 0, r |-> n]
    BY <1>0 DEF StartBound
  <2> HIDE DEF w0
  <2> QED
    BY <2>1, <1>1 DEF StatesBound
<1>3. \A v \in D : v.l \in 0..n /\ v.r \in 0..n /\ v.l <= v.r
  BY DEF StatesBound
<1>4. ASSUME NEW v \in D
      PROVE  step(v) \in D /\ IF v.l < v.r THEN step(v).r - step(v).l < v.r - v.l ELSE step(v) = v
  <2>1. \A i, j \in 1..n : i < j /\ i \in S => j \in S
    <3>1. DOMAIN s = 1..n /\ \A k \in 1..n : s[k] \in Int
      BY <1>0, Numbers
    <3>2. \A i, j \in 1..n : i < j => s[i] <= s[j]
      BY <3>1 DEF Sorted
    <3> QED
      BY <3>1, <3>2, <1>0
  <2>2. v.l < v.r => (At(s, Middle(v)) > target) = (Middle(v) + 1 \in S)
    <3> SUFFICES ASSUME v.l < v.r PROVE (At(s, Middle(v)) > target) <=> (Middle(v) + 1 \in S)
      OBVIOUS
    <3>1. Middle(v) \in 0..n - 1
      BY <1>1, MiddleIs
    <3>2. Middle(v) + 1 \in 1..n
      BY <3>1, <1>1
    <3> QED
      BY <3>2, <1>0 DEF At
  <2> QED
    BY <1>1, <2>1, <2>2, TurnBound
<1>5. G \in [D -> D] /\ M \in [D -> Nat] /\ M[w0] <= n /\ \A v \in D : G[v] = v \/ M[G[v]] < M[v]
  <2> HIDE DEF D, step
  <2>1. w0.l = 0 /\ w0.r = n
    BY <1>0 DEF StartBound
  <2>2. M[w0] <= n
    <3> HIDE DEF w0
    <3> QED
      BY <1>1, <1>2, <2>1
  <2>3. \A v \in D : v.r - v.l \in Nat
    BY <1>1, <1>3
  <2>4. G \in [D -> D] /\ M \in [D -> Nat]
    BY <1>4, <2>3
  <2>5. \A v \in D : G[v] = v \/ M[G[v]] < M[v]
    BY <1>4
  <2> QED
    BY <2>2, <2>4, <2>5
<1>p. PICK f : EndsAs(n, D, G, w0, f)
  <2> HIDE DEF D, G, M, w0
  <2> QED
    BY <1>1, <1>2, <1>5, LoopRule
<1>6. /\ f \in [0..n -> D] /\ f[0] = w0 /\ \A d \in 1..n : f[d] = G[f[d - 1]]
      /\ f[n] \in D /\ G[f[n]] = f[n]
      /\ \A p : Follows(n, D, G, p) /\ p[0] = w0 => p[n] = f[n]
  BY <1>p DEF EndsAs
<1>7. g[n] = f[n]
  <2>1. f = [d \in 0..n |-> IF d = 0 THEN w0 ELSE StepBound(At(s, Middle(f[d - 1])) > target, f[d - 1])]
    <3>1. \A d \in 1..n : d - 1 \in 0..n
      BY <1>1
    <3>2. \A d \in 1..n : f[d] = StepBound(At(s, Middle(f[d - 1])) > target, f[d - 1])
      BY <1>6, <3>1
    <3> HIDE DEF D
    <3> QED
      BY <1>6, <3>2, <1>1
  <2>2. g = [d \in 0..n |-> IF d = 0 THEN w0 ELSE StepBound(At(s, Middle(g[d - 1])) > target, g[d - 1])]
    BY <2>1, <1>0 DEF LoopUpper
  <2>3. g[0] = w0 /\ \A d \in 1..n : g[d] = StepBound(At(s, Middle(g[d - 1])) > target, g[d - 1])
    BY <2>2, <1>1
  <2>4. Follows(n, D, G, g)
    BY <2>3 DEF Follows
  <2> HIDE DEF D, G, g
  <2> QED
    BY <1>6, <2>3, <2>4
<1>8. PICK v : v = f[n]
  OBVIOUS
<1>9. v \in D /\ step(v) = v
  BY <1>6, <1>8
<1>10. v.l = v.r
  <2>1. v.l \in 0..n /\ v.r \in 0..n /\ v.l <= v.r
    BY <1>9, <1>3
  <2>2. v.l < v.r => v.r - v.l < v.r - v.l
    <3> HIDE DEF step, D
    <3> QED
      BY <1>4, <1>9
  <2> QED
    BY <2>1, <2>2, <1>1
<1>11. UpperBound(s, target) = v.l
  BY <1>1, <1>7, <1>8
<1> HIDE DEF g, G, M, w0
<1>12. Parts2(v.l, n, S)
  BY <1>9, <1>10 DEF StatesBound, Parts2
<1> QED
  BY <1>0, <1>11, <1>12

\* test34 finds the first and the last place of x.
LEMMA test34Is ==
  ASSUME NEW s \in Seq(Element), Sorted(s), NEW x \in Element
  PROVE  LET at == {k \in 0..Len(s) - 1 : At(s, k) = x}
         IN test34(s, x) = IF at = {} THEN <<-1, -1>> ELSE <<Min(at), Max(at)>>
<1> DEFINE at == {k \in 0..Len(s) - 1 : At(s, k) = x}
<1>0. PICK n, p, q : n = Len(s) /\ p = LowerBound(s, x) /\ q = UpperBound(s, x)
  OBVIOUS
<1>1. n \in Nat /\ x \in Int /\ \A k \in 1..n : s[k] \in Int
  BY <1>0, Numbers, ElementAssumption
<1>2. p \in 0..n /\ (\A k \in 1..p : ~ (s[k] >= x)) /\ (\A k \in p + 1..n : s[k] >= x)
  <2>1. Parts2(p, n, {k \in 1..n : s[k] >= x})
    BY <1>0, <1>1, LowerIs
  <2>2. \A k \in 1..p : k \in 1..n
    BY <1>1, <2>1 DEF Parts2
  <2> QED
    BY <2>1, <2>2 DEF Parts2
<1>3. q \in 0..n /\ (\A k \in 1..q : ~ (s[k] > x)) /\ (\A k \in q + 1..n : s[k] > x)
  <2>1. Parts2(q, n, {k \in 1..n : s[k] > x})
    BY <1>0, <1>1, UpperIs
  <2>2. \A k \in 1..q : k \in 1..n
    BY <1>1, <2>1 DEF Parts2
  <2> QED
    BY <2>1, <2>2 DEF Parts2
<1>4. \A k \in 0..n - 1 : k \in at <=> p <= k /\ k < q
  <2> SUFFICES ASSUME NEW k \in 0..n - 1 PROVE s[k + 1] = x <=> p <= k /\ k < q
    BY <1>0 DEF At
  <2>1. k + 1 \in 1..n /\ s[k + 1] \in Int /\ k \in Int /\ p \in Int /\ q \in Int
    BY <1>1, <1>2, <1>3
  <2>2. p <= k <=> s[k + 1] >= x
    <3>1. p <= k => k + 1 \in p + 1..n
      BY <2>1
    <3>2. ~ (p <= k) => k + 1 \in 1..p
      BY <2>1
    <3> QED
      BY <3>1, <3>2, <1>2
  <2>3. k < q <=> ~ (s[k + 1] > x)
    <3>1. k < q => k + 1 \in 1..q
      BY <2>1
    <3>2. ~ (k < q) => k + 1 \in q + 1..n
      BY <2>1
    <3> QED
      BY <3>1, <3>2, <1>3
  <2> QED
    BY <2>1, <2>2, <2>3, <1>1
<1>5. p = n \/ At(s, p) # x <=> ~ (p < q)
  <2>1. CASE p = n
    BY <2>1, <1>1, <1>3
  <2>2. CASE p # n
    <3>1. p \in 0..n - 1 /\ p <= p
      BY <2>2, <1>1, <1>2
    <3> QED
      BY <3>1, <2>2, <1>0, <1>4
  <2> QED
    BY <2>1, <2>2
<1>6. CASE ~ (p < q)
  <2>1. at = {}
    <3>1. \A k \in 0..n - 1 : ~ (p <= k /\ k < q)
      BY <1>2, <1>3, <1>6
    <3> QED
      BY <3>1, <1>0, <1>4
  <2>2. test34(s, x) = <<-1, -1>>
    BY <1>0, <1>5, <1>6 DEF test34
  <2> QED
    BY <2>1, <2>2
<1>7. CASE p < q
  <2>1. test34(s, x) = <<p, q - 1>>
    BY <1>0, <1>5, <1>7 DEF test34
  <2>2. p \in at /\ q - 1 \in at /\ \A k \in at : p <= k /\ k <= q - 1 /\ k \in Int
    <3>1. p \in 0..n - 1 /\ q - 1 \in 0..n - 1 /\ p <= q - 1 /\ q - 1 < q /\ p <= p
      BY <1>1, <1>2, <1>3, <1>7
    <3>2. p \in at /\ q - 1 \in at
      BY <3>1, <1>4, <1>7
    <3>3. \A k \in at : k \in 0..n - 1
      BY <1>0
    <3>4. \A k \in at : p <= k /\ k < q
      BY <3>3, <1>4
    <3> HIDE DEF at
    <3> QED
      BY <3>2, <3>3, <3>4, <1>3
  <2>3. Min(at) = p /\ Max(at) = q - 1 /\ at # {}
    <3>1. at \subseteq 0..n
      BY <1>0
    <3> HIDE DEF at
    <3>2. /\ Min(at) \in at /\ \A k \in at : Min(at) <= k
          /\ Max(at) \in at /\ \A k \in at : k <= Max(at)
      BY <3>1, <2>2, <1>1, MinIs, MaxIs
    <3>3. p \in Int /\ q - 1 \in Int
      BY <2>2
    <3>4. Min(at) \in Int /\ Max(at) \in Int /\ Min(at) <= p /\ p <= Min(at) /\ q - 1 <= Max(at) /\ Max(at) <= q - 1
      BY <3>2, <2>2
    <3> QED
      BY <3>3, <3>4, <2>2
  <2> QED
    BY <2>1, <2>3
<1> QED
  BY <1>6, <1>7

-----------------------------------------------------------------------------
(* test69.                                                                 *)

\* One turn of the loop of test69, all its turns, and its states: the root is between
\* l - 1 and r.
Step69(x, w) ==
  IF w.l <= w.r
  THEN LET mid == Middle(w)  sqrt == x \div mid IN
       IF sqrt = mid THEN [l |-> mid + 1, r |-> mid]
       ELSE IF sqrt < mid THEN [w EXCEPT !.r = mid - 1] ELSE [w EXCEPT !.l = mid + 1]
  ELSE w
Start69(x) == [l |-> 1, r |-> x]
Loop69(x) ==
  CHOOSE f : f = [k \in 0..x |-> IF k = 0 THEN Start69(x) ELSE Step69(x, f[k - 1])]
States69(x) ==
  {w \in [l : 1..x + 1, r : 0..x] :
     w.l <= w.r + 1 /\ (w.l - 1) * (w.l - 1) <= x /\ x < (w.r + 1) * (w.r + 1)}

\* The square of a greater number is greater.
LEMMA Squares ==
  ASSUME NEW i \in Nat, NEW j \in Nat, i <= j
  PROVE  i * i <= j * j
<1>1. i * i <= i * j /\ i * j <= j * j
  OBVIOUS
<1>2. i * i \in Nat /\ i * j \in Nat /\ j * j \in Nat
  OBVIOUS
<1> QED
  BY <1>1, <1>2

\* What a quotient tells of a square.
LEMMA Quotient ==
  ASSUME NEW x \in Nat, NEW m \in Nat, m > 0
  PROVE  LET q == x \div m IN
         /\ q \in Nat /\ (q >= m => m * m <= x) /\ (q = m => x < (m + 1) * (m + 1)) /\ (q < m => x < m * m)
<1>1. PICK q : q = x \div m
  OBVIOUS
<1>2. q \in Nat /\ q * m <= x /\ x < (q + 1) * m
  BY <1>1
<1>3. ASSUME q >= m PROVE m * m <= x
  <2>1. m * m <= q * m
    BY <1>2, <1>3
  <2>2. m * m \in Nat /\ q * m \in Nat
    BY <1>2
  <2> QED
    BY <1>2, <2>1, <2>2
<1>4. ASSUME q = m PROVE x < (m + 1) * (m + 1)
  <2>1. (m + 1) * m <= (m + 1) * (m + 1)
    OBVIOUS
  <2>2. (m + 1) * m \in Nat /\ (m + 1) * (m + 1) \in Nat
    OBVIOUS
  <2> QED
    BY <1>2, <1>4, <2>1, <2>2
<1>5. ASSUME q < m PROVE x < m * m
  <2>1. q + 1 <= m /\ q + 1 \in Nat
    BY <1>2, <1>5
  <2>2. (q + 1) * m <= m * m
    BY <2>1
  <2>3. m * m \in Nat /\ (q + 1) * m \in Nat
    BY <1>2
  <2> QED
    BY <1>2, <2>2, <2>3
<1> QED
  BY <1>1, <1>2, <1>3, <1>4, <1>5

\* A turn keeps to the states, and brings the two ends closer.
LEMMA Turn69 ==
  ASSUME NEW x \in Nat, NEW w \in States69(x)
  PROVE  LET v == Step69(x, w) IN
         v \in States69(x) /\ IF w.l <= w.r THEN v.r - v.l < w.r - w.l ELSE v = w
<1> DEFINE v == Step69(x, w)
<1>0. PICK l, r, m, q : l = w.l /\ r = w.r /\ m = Middle(w) /\ q = x \div m
  OBVIOUS
<1>1. /\ l \in 1..x + 1 /\ r \in 0..x /\ l <= r + 1 /\ w = [l |-> l, r |-> r]
      /\ (l - 1) * (l - 1) <= x /\ x < (r + 1) * (r + 1)
  BY <1>0 DEF States69
<1>2. CASE ~ (l <= r)
  BY <1>0, <1>2 DEF Step69
<1>3. CASE l <= r
  <2>1. m \in Int /\ l <= m /\ m <= r /\ l \in Int /\ r \in Int /\ 1 <= l /\ r <= x /\ m \in Nat /\ m > 0
    <3>a. l \in Int /\ r \in Int /\ l <= r /\ 1 <= l /\ r <= x
      BY <1>1, <1>3
    <3>1. m = l + (r - l) \div 2 /\ r - l \in Nat
      <4>1. r - l \in Nat
        BY <3>a
      <4> QED
        BY <4>1, <1>0 DEF Middle
    <3>2. (r - l) \div 2 \in Nat /\ (r - l) \div 2 <= r - l
      BY <3>1
    <3> QED
      BY <3>1, <3>2, <3>a
  <2>2. q \in Nat /\ (q >= m => m * m <= x) /\ (q = m => x < (m + 1) * (m + 1)) /\ (q < m => x < m * m)
    BY <1>0, <2>1, Quotient
  <2>3. m + 1 \in 1..x + 1 /\ m \in 0..x /\ m - 1 \in 0..x /\ (m + 1) - 1 = m /\ (m - 1) + 1 = m
    BY <2>1
  <2>4. CASE q = m
    <3>1. v = [l |-> m + 1, r |-> m]
      BY <1>0, <1>3, <2>4 DEF Step69
    <3>2. m * m <= x
      BY <2>2, <2>4
    <3>3. v \in States69(x)
      <4> HIDE DEF v
      <4> QED
        BY <3>1, <3>2, <2>1, <2>2, <2>3, <2>4 DEF States69
    <3>4. m - (m + 1) < r - l
      BY <2>1
    <3> QED
      BY <3>1, <3>3, <3>4, <1>0, <1>3
  <2>5. CASE q < m
    <3>1. v = [l |-> l, r |-> m - 1]
      BY <1>0, <1>1, <1>3, <2>5, <2>1, <2>2 DEF Step69
    <3>2. l <= (m - 1) + 1 /\ (m - 1) - l < r - l
      BY <2>1
    <3>3. v \in States69(x)
      <4>1. x < ((m - 1) + 1) * ((m - 1) + 1)
        BY <2>2, <2>3, <2>5
      <4> HIDE DEF v
      <4> QED
        BY <3>1, <3>2, <4>1, <1>1, <2>3 DEF States69
    <3> QED
      BY <3>1, <3>2, <3>3, <1>0, <1>3
  <2>6. CASE q > m
    <3>1. v = [l |-> m + 1, r |-> r]
      BY <1>0, <1>1, <1>3, <2>6, <2>1, <2>2 DEF Step69
    <3>2. m + 1 <= r + 1 /\ r - (m + 1) < r - l
      BY <2>1
    <3>3. v \in States69(x)
      <4>1. ((m + 1) - 1) * ((m + 1) - 1) <= x
        BY <2>1, <2>2, <2>3, <2>6
      <4> HIDE DEF v
      <4> QED
        BY <3>1, <3>2, <4>1, <1>1, <2>3 DEF States69
    <3> QED
      BY <3>1, <3>2, <3>3, <1>0, <1>3
  <2> QED
    BY <2>1, <2>2, <2>4, <2>5, <2>6
<1> QED
  BY <1>0, <1>2, <1>3

\* p is the root of x, rounded down.
RootIs(x, p) == p \in 0..x /\ p * p <= x /\ x < (p + 1) * (p + 1)

\* The greatest number with a square up to x is that.
LEMMA RootMax ==
  ASSUME NEW x \in Nat, NEW p, RootIs(x, p)
  PROVE  Max({r \in 0..x : r * r <= x}) = p
<1> DEFINE S == {r \in 0..x : r * r <= x}
<1>1. p \in S /\ p \in Nat /\ x < (p + 1) * (p + 1)
  BY DEF RootIs
<1>2. ASSUME NEW k \in S PROVE k <= p
  <2>1. k \in Nat /\ k * k <= x
    OBVIOUS
  <2> SUFFICES ASSUME ~ (k <= p) PROVE FALSE
    OBVIOUS
  <2>2. p + 1 \in Nat /\ p + 1 <= k
    BY <1>1, <2>1
  <2>3. (p + 1) * (p + 1) <= k * k
    BY <2>1, <2>2, Squares
  <2>4. (p + 1) * (p + 1) \in Nat /\ k * k \in Nat
    BY <2>1, <2>2
  <2> QED
    BY <1>1, <2>1, <2>3, <2>4
<1>3. S \subseteq 0..x
  OBVIOUS
<1> HIDE DEF S
<1>4. Max(S) \in S /\ \A k \in S : k <= Max(S)
  BY <1>1, <1>3, MaxIs
<1>5. Max(S) \in Int /\ p \in Int /\ Max(S) <= p /\ p <= Max(S)
  <2>1. p \in S /\ p \in Int
    BY <1>1
  <2>2. Max(S) \in 0..x /\ Max(S) <= p
    BY <1>2, <1>3, <1>4
  <2>3. p <= Max(S)
    BY <1>4, <2>1
  <2> QED
    BY <2>1, <2>2, <2>3
<1>6. Max(S) = p
  BY <1>5
<1> QED
  BY <1>6 DEF S

\* What the loop ends with.
LEMMA Root69 ==
  ASSUME NEW x \in Nat, x # 0
  PROVE  RootIs(x, Loop69(x)[x].r)
<1> DEFINE w0 == Start69(x)  g == Loop69(x)  D == States69(x)
           G == [w \in D |-> Step69(x, w)]  M == [w \in D |-> w.r + 1 - w.l]
<1>1. x \in Nat
  OBVIOUS
<1>2. w0 \in D /\ w0.l = 1 /\ w0.r = x
  <2>1. x < (x + 1) * (x + 1)
    <3>1. (x + 1) * (x + 1) = x * x + x + x + 1 /\ x * x \in Nat
      OBVIOUS
    <3> QED
      BY <3>1
  <2>2. 1 \in 1..x + 1 /\ x \in 0..x /\ 1 <= x + 1 /\ (1 - 1) * (1 - 1) <= x
    OBVIOUS
  <2> QED
    BY <2>1, <2>2 DEF Start69, States69
<1>3. \A v \in D : v.l \in 1..x + 1 /\ v.r \in 0..x /\ v.l <= v.r + 1
  BY DEF States69
<1>4. \A v \in D : Step69(x, v) \in D
        /\ IF v.l <= v.r THEN Step69(x, v).r - Step69(x, v).l < v.r - v.l ELSE Step69(x, v) = v
  BY Turn69
<1>5. G \in [D -> D] /\ M \in [D -> Nat] /\ M[w0] <= x /\ \A v \in D : G[v] = v \/ M[G[v]] < M[v]
  <2> HIDE DEF D
  <2>2. M[w0] <= x
    <3> HIDE DEF w0
    <3> QED
      BY <1>2
  <2>3. \A v \in D : v.r + 1 - v.l \in Nat
    BY <1>3
  <2>4. G \in [D -> D] /\ M \in [D -> Nat]
    BY <1>4, <2>3
  <2>5. ASSUME NEW v \in D PROVE G[v] = v \/ M[G[v]] < M[v]
    <3>1. PICK u : u = Step69(x, v)
      OBVIOUS
    <3>2. u \in D /\ IF v.l <= v.r THEN u.r - u.l < v.r - v.l ELSE u = v
      BY <3>1, <1>4
    <3>3. u.l \in Int /\ u.r \in Int /\ v.l \in Int /\ v.r \in Int
      BY <3>2, <1>3
    <3> QED
      BY <3>1, <3>2, <3>3
  <2> QED
    BY <2>2, <2>4, <2>5
<1>p. PICK f : EndsAs(x, D, G, w0, f)
  <2> HIDE DEF D, G, M, w0
  <2> QED
    BY <1>1, <1>2, <1>5, LoopRule
<1>6. /\ f \in [0..x -> D] /\ f[0] = w0 /\ \A d \in 1..x : f[d] = G[f[d - 1]]
      /\ f[x] \in D /\ G[f[x]] = f[x]
      /\ \A p : Follows(x, D, G, p) /\ p[0] = w0 => p[x] = f[x]
  BY <1>p DEF EndsAs
<1>7. g[x] = f[x]
  <2>1. f = [d \in 0..x |-> IF d = 0 THEN w0 ELSE Step69(x, f[d - 1])]
    <3>1. \A d \in 1..x : d - 1 \in 0..x
      BY <1>1
    <3>2. \A d \in 1..x : f[d] = Step69(x, f[d - 1])
      BY <1>6, <3>1
    <3> HIDE DEF D
    <3> QED
      BY <1>6, <3>2, <1>1
  <2>2. g = [d \in 0..x |-> IF d = 0 THEN w0 ELSE Step69(x, g[d - 1])]
    BY <2>1 DEF Loop69
  <2>3. g[0] = w0 /\ \A d \in 1..x : g[d] = Step69(x, g[d - 1])
    BY <2>2, <1>1
  <2>4. Follows(x, D, G, g)
    BY <2>3 DEF Follows
  <2> HIDE DEF D, G, g
  <2> QED
    BY <1>6, <2>3, <2>4
<1>8. PICK v : v = f[x]
  OBVIOUS
<1>9. v \in D /\ Step69(x, v) = v
  BY <1>6, <1>8
<1>10. v.l = v.r + 1
  <2>1. v.l \in 1..x + 1 /\ v.r \in 0..x /\ v.l <= v.r + 1
    BY <1>9, <1>3
  <2>2. v.l <= v.r => v.r - v.l < v.r - v.l
    <3> HIDE DEF D
    <3> QED
      BY <1>4, <1>9
  <2> QED
    BY <2>1, <2>2
<1>11. (v.r + 1) - 1 = v.r /\ v.r \in 0..x
  BY <1>9, <1>3
<1>12. (v.l - 1) * (v.l - 1) <= x /\ x < (v.r + 1) * (v.r + 1)
  BY <1>9 DEF States69
<1>13. v.r * v.r <= x
  BY <1>10, <1>11, <1>12
<1> HIDE DEF g, D, G, M, w0
<1>14. RootIs(x, g[x].r)
  BY <1>7, <1>8, <1>11, <1>12, <1>13 DEF RootIs
<1> QED
  BY <1>14 DEF g

\* test69 returns the root.
LEMMA test69Is ==
  ASSUME NEW x \in Nat
  PROVE  test69(x) = Max({r \in 0..x : r * r <= x})
<1>0. CASE x = 0
  <2>1. test69(0) = 0
    BY DEF test69
  <2>2. 0 * 0 = 0 /\ (0 + 1) * (0 + 1) = 1 /\ 0 \in 0..0
    OBVIOUS
  <2>3. RootIs(0, 0)
    BY <2>2 DEF RootIs
  <2> QED
    BY <1>0, <2>1, <2>3, RootMax
<1>n. CASE x # 0
  <2> DEFINE w0 == Start69(x)  g == Loop69(x)
  <2>1. test69(x) = g[x].r
    BY <1>n DEF test69, While, Step69, Start69, Loop69
  <2>2. RootIs(x, g[x].r)
    <3> HIDE DEF g
    <3> QED
      BY <1>n, Root69 DEF g
  <2> QED
    BY <2>1, <2>2, RootMax
<1> QED
  BY <1>0, <1>n

-----------------------------------------------------------------------------
(* test81.                                                                 *)

\* s is in order up to place p and behind it, and what is behind it is not greater.
TurnedAt(s, p) ==
  /\ p \in 0..Len(s)
  /\ \A i, j \in 0..Len(s) - 1 : i < j => IF i < p /\ p <= j THEN At(s, j) <= At(s, i) ELSE At(s, i) <= At(s, j)

\* A sorted array that has been rotated is.
LEMMA RotatedIs ==
  ASSUME NEW s \in Seq(Element), Rotated(s)
  PROVE  \E p : TurnedAt(s, p)
<1>1. PICK n : n = Len(s)
  OBVIOUS
<1>2. n \in Nat /\ \A k \in 1..n : s[k] \in Element
  BY <1>1, Numbers
<1>3. PICK p \in 0..n : Sorted(SubSeq(s, p + 1, n) \o SubSeq(s, 1, p))
  BY <1>1 DEF Rotated
<1>4. PICK x, y, u : x = SubSeq(s, p + 1, n) /\ y = SubSeq(s, 1, p) /\ u = x \o y
  OBVIOUS
<1>5. /\ x \in Seq(Element) /\ Len(x) = n - p /\ \A k \in 1..n - p : x[k] = s[p + k]
      /\ y \in Seq(Element) /\ Len(y) = p /\ \A k \in 1..p : y[k] = s[k]
  BY <1>1, <1>2, <1>3, <1>4
<1>6. /\ u \in Seq(Element) /\ Len(u) = n
      /\ \A k \in 1..n : u[k] = IF k <= n - p THEN x[k] ELSE y[k - (n - p)]
  <2>1. n - p \in Nat /\ p \in Nat
    BY <1>2, <1>3
  <2>2. /\ u \in Seq(Element) /\ Len(u) = (n - p) + p
        /\ \A k \in 1..n - p : u[k] = x[k]
        /\ \A k \in 1..p : u[(n - p) + k] = y[k]
    <3>1. /\ x \o y \in Seq(Element) /\ Len(x \o y) = Len(x) + Len(y)
          /\ \A k \in 1..Len(x) : (x \o y)[k] = x[k]
          /\ \A k \in 1..Len(y) : (x \o y)[Len(x) + k] = y[k]
      BY <1>5, BothIs
    <3>2. u = x \o y /\ Len(x) = n - p /\ Len(y) = p
      BY <1>4, <1>5
    <3> QED
      BY <3>1, <3>2
  <2>3. ASSUME NEW k \in 1..n, ~ (k <= n - p) PROVE u[k] = y[k - (n - p)]
    <3>1. k - (n - p) \in 1..p /\ (n - p) + (k - (n - p)) = k
      BY <1>2, <2>1, <2>3
    <3> QED
      BY <3>1, <2>2
  <2>4. \A k \in 1..n : k <= n - p => k \in 1..n - p
    OBVIOUS
  <2>5. (n - p) + p = n
    BY <1>2, <2>1
  <2> QED
    BY <2>2, <2>3, <2>4, <2>5
<1>7. \A i, j \in 1..n : i < j => u[i] <= u[j]
  BY <1>3, <1>4, <1>6, Numbers DEF Sorted
<1>8. (\A k \in p + 1..n : s[k] = u[k - p]) /\ (\A k \in 1..p : s[k] = u[k + (n - p)])
  <2>1. ASSUME NEW k \in p + 1..n PROVE s[k] = u[k - p]
    <3>1. k - p \in 1..n /\ k - p \in 1..n - p /\ k - p <= n - p /\ p + (k - p) = k
      BY <1>2, <1>3
    <3> QED
      BY <3>1, <1>5, <1>6
  <2>2. ASSUME NEW k \in 1..p PROVE s[k] = u[k + (n - p)]
    <3>1. k + (n - p) \in 1..n /\ ~ (k + (n - p) <= n - p) /\ (k + (n - p)) - (n - p) = k
      BY <1>2, <1>3
    <3> QED
      BY <3>1, <1>5, <1>6
  <2> QED
    BY <2>1, <2>2
<1>9. ASSUME NEW i \in 0..n - 1, NEW j \in 0..n - 1, i < j
      PROVE  IF i < p /\ p <= j THEN At(s, j) <= At(s, i) ELSE At(s, i) <= At(s, j)
  <2>1. At(s, i) = s[i + 1] /\ At(s, j) = s[j + 1] /\ i + 1 \in 1..n /\ j + 1 \in 1..n
    BY <1>2 DEF At
  <2>2. CASE i < p /\ p <= j
    <3>0. j + 1 \in p + 1..n /\ i + 1 \in 1..p
      BY <1>2, <1>3, <2>2
    <3>1. s[j + 1] = u[(j + 1) - p] /\ s[i + 1] = u[(i + 1) + (n - p)]
      BY <3>0, <1>8
    <3>2. (j + 1) - p \in 1..n /\ (i + 1) + (n - p) \in 1..n /\ (j + 1) - p < (i + 1) + (n - p)
      BY <1>2, <1>3, <2>2
    <3> QED
      BY <3>1, <3>2, <1>7, <2>1, <2>2
  <2>3. CASE i < p /\ ~ (p <= j)
    <3>0. j + 1 \in 1..p /\ i + 1 \in 1..p
      BY <1>2, <1>3, <2>3
    <3>1. s[j + 1] = u[(j + 1) + (n - p)] /\ s[i + 1] = u[(i + 1) + (n - p)]
      BY <3>0, <1>8
    <3>2. /\ (j + 1) + (n - p) \in 1..n /\ (i + 1) + (n - p) \in 1..n
          /\ (i + 1) + (n - p) < (j + 1) + (n - p)
      BY <3>0, <1>2, <1>3, <1>9
    <3> QED
      BY <3>1, <3>2, <1>7, <2>1, <2>3
  <2>4. CASE ~ (i < p)
    <3>0. j + 1 \in p + 1..n /\ i + 1 \in p + 1..n
      BY <1>2, <1>3, <1>9, <2>4
    <3>1. s[j + 1] = u[(j + 1) - p] /\ s[i + 1] = u[(i + 1) - p]
      BY <3>0, <1>8
    <3>2. (j + 1) - p \in 1..n /\ (i + 1) - p \in 1..n /\ (i + 1) - p < (j + 1) - p
      BY <3>0, <1>2, <1>3, <1>9
    <3> QED
      BY <3>1, <3>2, <1>7, <2>1, <2>4
  <2> QED
    BY <2>2, <2>3, <2>4
<1> QED
  BY <1>1, <1>3, <1>9 DEF TurnedAt

\* x is in s, from place l to place r.
Inside(s, x, l, r) == \E j \in l..r : At(s, j) = x

\* One turn of the loop of test81, all its turns, and its states.
Step81(s, target, w) ==
  IF Apart(w)
  THEN LET mid == w.l + (w.r - w.l + 1) \div 2  x == At(s, mid) IN
       IF Hidden(s, w, mid) THEN [w EXCEPT !.found = x = target, !.r = w.r - 1]
       ELSE IF x < At(s, w.r)
            THEN IF x <= target /\ target <= At(s, w.r) THEN [w EXCEPT !.l = mid]
                 ELSE [w EXCEPT !.r = mid - 1]
       ELSE IF At(s, w.l) <= target /\ target < x THEN [w EXCEPT !.r = mid - 1]
            ELSE [w EXCEPT !.l = mid]
  ELSE w
Start81(s) == [l |-> 0, r |-> Len(s) - 1, found |-> FALSE]
Loop81(s, target) ==
  CHOOSE f : f = [k \in 0..2 * Len(s) |-> IF k = 0 THEN Start81(s) ELSE Step81(s, target, f[k - 1])]
States81(s, target) ==
  {w \in [l : 0..Len(s) - 1, r : 0..Len(s) - 1, found : BOOLEAN] :
     w.l <= w.r /\ (Inside(s, target, 0, Len(s) - 1) <=> w.found \/ Inside(s, target, w.l, w.r))}

\* The upper middle of what is left.
LEMMA UpperMiddle ==
  ASSUME NEW l \in Int, NEW r \in Int, l < r
  PROVE  LET m == l + (r - l + 1) \div 2 IN m \in Int /\ l < m /\ m <= r
<1>1. PICK d : d = r - l + 1
  OBVIOUS
<1>2. d \in Nat /\ d > 1
  BY <1>1
<1>3. d \div 2 \in Nat /\ 0 < d \div 2 /\ d \div 2 < d
  BY <1>2
<1> QED
  BY <1>1, <1>3

\* A turn keeps to the states, and brings the two ends closer.
LEMMA Turn81 ==
  ASSUME NEW s \in Seq(Element), NEW p, TurnedAt(s, p), NEW target \in Element, NEW w \in States81(s, target)
  PROVE  LET v == Step81(s, target, w) IN
         v \in States81(s, target) /\ IF Apart(w) THEN v.r - v.l < w.r - w.l ELSE v = w
<1> DEFINE v == Step81(s, target, w)
<1>0. PICK n, e, l, r, m, x :
        /\ n = Len(s) /\ e = [k \in 0..n - 1 |-> At(s, k)] /\ l = w.l /\ r = w.r
        /\ m = l + (r - l + 1) \div 2 /\ x = At(s, m)
  OBVIOUS
<1>1. /\ n \in Nat /\ l \in 0..n - 1 /\ r \in 0..n - 1 /\ l <= r /\ w.found \in BOOLEAN
      /\ w = [l |-> l, r |-> r, found |-> w.found] /\ target \in Int
      /\ Inside(s, target, 0, n - 1) <=> w.found \/ Inside(s, target, l, r)
  BY <1>0, Numbers, ElementAssumption DEF States81
<1>2. CASE ~ Apart(w)
  BY <1>2 DEF Step81
<1>3. CASE Apart(w)
  <2>1. l < r /\ w = [l |-> l, r |-> r, found |-> FALSE]
    <3>1. l < r /\ w.found = FALSE
      BY <1>0, <1>1, <1>3 DEF Apart, Open
    <3> QED
      BY <3>1, <1>1
  <2>2. n \in Int /\ l \in Int /\ r \in Int /\ m \in Int /\ l < m /\ m <= r /\ 0 <= l /\ r <= n - 1
    BY <1>0, <1>1, <2>1, UpperMiddle, SMTT(30)
  <2>3. l \in 0..n - 1 /\ r \in 0..n - 1 /\ m \in 0..n - 1 /\ m - 1 \in 0..n - 1 /\ r - 1 \in 0..n - 1
    BY <2>2, <1>1
  <2>4. /\ \A k \in 0..n - 1 : e[k] = At(s, k) /\ e[k] \in Int
        /\ x = e[m] /\ At(s, r) = e[r] /\ At(s, l) = e[l]
    <3>1. \A k \in 0..n - 1 : e[k] = At(s, k)
      BY <1>0
    <3>2. ASSUME NEW k \in 0..n - 1 PROVE At(s, k) \in Int
      <4>1. k + 1 \in 1..n
        BY <1>1
      <4> QED
        BY <4>1, <1>0, Numbers DEF At
    <3> QED
      BY <3>1, <3>2, <2>3, <1>0
  <2>e. x \in Int /\ e[r] \in Int /\ e[l] \in Int /\ w.l = l /\ w.r = r
    <3>1. e[m] \in Int /\ e[r] \in Int /\ e[l] \in Int
      BY <2>3, <2>4
    <3> QED
      BY <3>1, <2>4, <1>0
  <2>5. \A i, j \in 0..n - 1 : i < j => IF i < p /\ p <= j THEN e[j] <= e[i] ELSE e[i] <= e[j]
    BY <1>0, <2>4 DEF TurnedAt
  <2>p. p \in Int
    BY <1>0, <1>1 DEF TurnedAt
  <2>i. \A i, j \in 0..n - 1 : Inside(s, target, i, j) <=> \E k \in i..j : e[k] = target
    <3> SUFFICES ASSUME NEW i \in 0..n - 1, NEW j \in 0..n - 1
                 PROVE  Inside(s, target, i, j) <=> \E k \in i..j : e[k] = target
      OBVIOUS
    <3>1. \A k \in i..j : k \in 0..n - 1
      BY <2>2
    <3> QED
      BY <3>1, <2>4 DEF Inside
  <2>6. CASE x = e[r]
    <3>1. v = [l |-> l, r |-> r - 1, found |-> (x = target)]
      BY <1>0, <1>1, <1>3, <2>4, <2>6 DEF Step81, Hidden
    <3>2. Inside(s, target, l, r) <=> (x = target) \/ Inside(s, target, l, r - 1)
      <4>1. \A k \in l..r : k \in l..r - 1 \/ k = r
        BY <2>2
      <4>2. \A k \in l..r - 1 : k \in l..r
        BY <2>2
      <4>3. r \in l..r
        BY <2>2
      <4> QED
        BY <4>1, <4>2, <4>3, <2>i, <2>3, <2>6
    <3>3. l <= r - 1 /\ (r - 1) - l < r - l
      BY <2>2
    <3>4. v \in States81(s, target)
      <4>1. Inside(s, target, 0, n - 1) <=> (x = target) \/ Inside(s, target, l, r - 1)
        BY <1>1, <2>1, <3>2
      <4> HIDE DEF v
      <4> QED
        BY <1>0, <3>1, <3>3, <4>1, <2>3 DEF States81
    <3> QED
      BY <3>1, <3>3, <3>4, <1>0, <1>3
  <2>7. ASSUME v = [l |-> m, r |-> r, found |-> FALSE],
               Inside(s, target, l, r) => Inside(s, target, m, r)
        PROVE  v \in States81(s, target) /\ v.r - v.l < r - l
    <3>1. Inside(s, target, m, r) => Inside(s, target, l, r)
      BY <2>2, <2>3, <2>i
    <3>2. m <= r /\ r - m < r - l
      BY <2>2
    <3>3. Inside(s, target, 0, n - 1) <=> Inside(s, target, m, r)
      BY <1>1, <2>1, <2>7, <3>1
    <3> HIDE DEF v
    <3> QED
      BY <1>0, <2>3, <2>7, <3>2, <3>3 DEF States81
  <2>8. ASSUME v = [l |-> l, r |-> m - 1, found |-> FALSE],
               Inside(s, target, l, r) => Inside(s, target, l, m - 1)
        PROVE  v \in States81(s, target) /\ v.r - v.l < r - l
    <3>1. Inside(s, target, l, m - 1) => Inside(s, target, l, r)
      BY <2>2, <2>3, <2>i
    <3>2. l <= m - 1 /\ (m - 1) - l < r - l
      BY <2>2
    <3>3. Inside(s, target, 0, n - 1) <=> Inside(s, target, l, m - 1)
      BY <1>1, <2>1, <2>8, <3>1
    <3> HIDE DEF v
    <3> QED
      BY <1>0, <2>3, <2>8, <3>2, <3>3 DEF States81
  <2>s. \A k \in l..r : k \in 0..n - 1 /\ (k \in m..r \/ k \in l..m - 1)
    BY <2>2
  <2>9. CASE x < e[r] /\ x <= target /\ target <= e[r]
    <3>1. v = [l |-> m, r |-> r, found |-> FALSE]
      <4>1. x # e[r] /\ w.l = l /\ w.r = r
        BY <2>e, <2>9
      <4> QED
        BY <4>1, <2>e, <1>0, <1>3, <2>1, <2>4, <2>9 DEF Step81, Hidden
    <3>2. ASSUME NEW k \in l..m - 1, e[k] = target PROVE Inside(s, target, m, r)
      <4>1. k \in 0..n - 1 /\ k < m /\ k < r /\ m \in m..r /\ r \in m..r
        BY <2>2
      <4>2. e[m] = target \/ e[r] = target
        <5> e[k] \in Int /\ e[m] \in Int /\ e[r] \in Int
          BY <4>1, <2>3, <2>4
        <5>1. CASE k < p /\ p <= m
          <6>1. p <= r
            BY <2>2, <2>p, <5>1
          <6>2. e[r] <= e[k]
            BY <4>1, <2>3, <2>5, <5>1, <6>1
          <6> QED
            BY <6>2, <2>9, <3>2
        <5>2. CASE ~ (k < p /\ p <= m)
          <6>1. e[k] <= e[m]
            BY <4>1, <2>3, <2>5, <5>2
          <6> QED
            BY <6>1, <2>4, <2>9, <3>2
        <5> QED
          BY <5>1, <5>2
      <4> QED
        BY <4>1, <4>2, <2>3, <2>i
    <3>3. Inside(s, target, l, r) => Inside(s, target, m, r)
      BY <2>3, <2>i, <2>s, <3>2
    <3> QED
      BY <3>1, <3>3, <2>7, <2>2, <1>0, <1>3
  <2>10. CASE x < e[r] /\ ~ (x <= target /\ target <= e[r])
    <3>1. v = [l |-> l, r |-> m - 1, found |-> FALSE]
      <4>1. x # e[r] /\ w.l = l /\ w.r = r
        BY <2>e, <2>10
      <4> QED
        BY <4>1, <2>e, <1>0, <1>3, <2>1, <2>4, <2>10 DEF Step81, Hidden
    <3>2. ASSUME NEW k \in m..r, e[k] = target PROVE FALSE
      <4>1. k \in 0..n - 1 /\ m <= k /\ k <= r
        BY <2>2
      <4>2. e[k] \in Int /\ e[m] \in Int /\ e[r] \in Int
        BY <4>1, <2>3, <2>4
      <4>3. m # r
        BY <2>10, <2>4, <4>2
      <4>4. ~ (m < p /\ p <= r)
        BY <4>2, <4>3, <2>2, <2>3, <2>4, <2>5, <2>10
      <4>5. e[m] <= e[k]
        <5>1. m # k => ~ (m < p /\ p <= k)
          BY <4>1, <4>4, <2>2, <2>p
        <5> QED
          BY <5>1, <4>1, <4>2, <2>2, <2>3, <2>5
      <4>6. e[k] <= e[r]
        <5>1. k # r => ~ (k < p /\ p <= r)
          BY <4>1, <4>4, <2>2, <2>p
        <5> QED
          BY <5>1, <4>1, <4>2, <2>2, <2>3, <2>5
      <4> QED
        BY <4>5, <4>6, <3>2, <2>4, <2>10
    <3>3. Inside(s, target, l, r) => Inside(s, target, l, m - 1)
      BY <2>3, <2>i, <2>s, <3>2
    <3> QED
      BY <3>1, <3>3, <2>8, <1>0, <1>3
  <2>r. x > e[r] => m < r /\ m < p /\ p <= r
    <3>1. x > e[r] => m # r
      BY <2>3, <2>4
    <3>2. e[m] \in Int /\ e[r] \in Int
      BY <2>3, <2>4
    <3> QED
      BY <3>1, <3>2, <2>2, <2>3, <2>4, <2>5
  <2>11. CASE x > e[r] /\ e[l] <= target /\ target < x
    <3>1. v = [l |-> l, r |-> m - 1, found |-> FALSE]
      <4>1. ~ (x < e[r]) /\ x # e[r]
        BY <2>e, <2>11
      <4> QED
        BY <4>1, <2>e, <1>0, <1>3, <2>1, <2>4, <2>11 DEF Step81, Hidden
    <3>2. ASSUME NEW k \in m..r, e[k] = target PROVE Inside(s, target, l, m - 1)
      <4>1. k \in 0..n - 1 /\ m <= k /\ k <= r /\ l < k /\ l < p /\ l \in l..m - 1
        BY <2>2, <2>p, <2>r, <2>11
      <4>2. e[k] \in Int /\ e[m] \in Int /\ e[l] \in Int
        BY <4>1, <2>3, <2>4
      <4>3. p <= k
        <5> SUFFICES ASSUME ~ (p <= k) PROVE FALSE
          OBVIOUS
        <5>1. e[m] <= e[k]
          BY <4>1, <4>2, <2>2, <2>3, <2>5
        <5> QED
          BY <5>1, <4>2, <2>4, <2>11, <3>2
      <4>4. e[k] <= e[l]
        BY <4>1, <4>3, <2>3, <2>5
      <4>5. e[l] = target
        BY <4>2, <4>4, <2>11, <3>2
      <4> QED
        BY <4>1, <4>5, <2>3, <2>i
    <3>3. Inside(s, target, l, r) => Inside(s, target, l, m - 1)
      BY <2>3, <2>i, <2>s, <3>2
    <3> QED
      BY <3>1, <3>3, <2>8, <1>0, <1>3
  <2>12. CASE x > e[r] /\ ~ (e[l] <= target /\ target < x)
    <3>1. v = [l |-> m, r |-> r, found |-> FALSE]
      <4>1. ~ (x < e[r]) /\ x # e[r]
        BY <2>e, <2>12
      <4> QED
        BY <4>1, <2>e, <1>0, <1>3, <2>1, <2>4, <2>12 DEF Step81, Hidden
    <3>2. ASSUME NEW k \in l..m - 1, e[k] = target PROVE Inside(s, target, m, r)
      <4>1. k \in 0..n - 1 /\ l <= k /\ k < m /\ m \in m..r /\ k < p /\ m < p
        BY <2>2, <2>p, <2>r, <2>12
      <4>2. e[k] \in Int /\ e[m] \in Int /\ e[l] \in Int
        BY <4>1, <2>3, <2>4
      <4>3. e[k] <= e[m]
        BY <4>1, <2>2, <2>3, <2>5, <2>p
      <4>4. e[l] <= e[k]
        BY <4>1, <4>2, <2>2, <2>3, <2>5, <2>p
      <4>5. e[m] = target
        BY <4>2, <4>3, <4>4, <2>4, <2>12, <3>2
      <4> QED
        BY <4>1, <4>5, <2>3, <2>i
    <3>3. Inside(s, target, l, r) => Inside(s, target, m, r)
      BY <2>3, <2>i, <2>s, <3>2
    <3> QED
      BY <3>1, <3>3, <2>7, <2>2, <1>0, <1>3
  <2>13. x = e[r] \/ x < e[r] \/ x > e[r]
    BY <2>3, <2>4
  <2> QED
    BY <2>6, <2>9, <2>10, <2>11, <2>12, <2>13
<1> QED
  BY <1>2, <1>3

\* test81 finds target in a rotated array if it is there, and only then.
LEMMA test81Is ==
  ASSUME NEW s \in Seq(Element), s # <<>>, Rotated(s), NEW target \in Element
  PROVE  test81(s, target) <=> \E k \in DOMAIN s : s[k] = target
<1>0. PICK n, N : n = Len(s) /\ N = 2 * n
  OBVIOUS
<1> DEFINE w0 == Start81(s)  g == Loop81(s, target)  D == States81(s, target)
           G == [w \in D |-> Step81(s, target, w)]  M == [w \in D |-> w.r - w.l]
<1>1. N \in Nat /\ n \in Nat /\ n > 0 /\ n - 1 <= N
  <2>1. n \in Nat /\ n # 0
    BY <1>0, Numbers
  <2> QED
    BY <2>1, <1>0
<1>2. w0 \in D
  <2>1. 0 \in 0..n - 1 /\ n - 1 \in 0..n - 1 /\ 0 <= n - 1
    BY <1>1
  <2> QED
    BY <1>0, <2>1 DEF Start81, States81
<1>3. \A v \in D : v.l \in 0..n - 1 /\ v.r \in 0..n - 1 /\ v.l <= v.r /\ v.found \in BOOLEAN
  BY <1>0 DEF States81
<1>4. \A v \in D : Step81(s, target, v) \in D
        /\ IF Apart(v) THEN Step81(s, target, v).r - Step81(s, target, v).l < v.r - v.l ELSE Step81(s, target, v) = v
  <2>1. PICK p : TurnedAt(s, p)
    BY RotatedIs
  <2> QED
    BY <2>1, Turn81
<1>5. G \in [D -> D] /\ M \in [D -> Nat] /\ M[w0] <= N /\ \A v \in D : G[v] = v \/ M[G[v]] < M[v]
  <2> HIDE DEF D
  <2>1. w0.l = 0 /\ w0.r = n - 1
    BY <1>0 DEF Start81
  <2>2. M[w0] <= N
    <3> HIDE DEF w0
    <3> QED
      BY <1>1, <1>2, <2>1
  <2>3. \A v \in D : v.r - v.l \in Nat
    BY <1>1, <1>3
  <2>4. G \in [D -> D] /\ M \in [D -> Nat]
    BY <1>4, <2>3
  <2>5. \A v \in D : G[v] = v \/ M[G[v]] < M[v]
    BY <1>4
  <2> QED
    BY <2>2, <2>4, <2>5
<1>p. PICK f : EndsAs(N, D, G, w0, f)
  <2> HIDE DEF D, G, M, w0
  <2> QED
    BY <1>1, <1>2, <1>5, LoopRule
<1>6. /\ f \in [0..N -> D] /\ f[0] = w0 /\ \A d \in 1..N : f[d] = G[f[d - 1]]
      /\ f[N] \in D /\ G[f[N]] = f[N]
      /\ \A z : Follows(N, D, G, z) /\ z[0] = w0 => z[N] = f[N]
  BY <1>p DEF EndsAs
<1>7. g[N] = f[N]
  <2>1. f = [d \in 0..N |-> IF d = 0 THEN w0 ELSE Step81(s, target, f[d - 1])]
    <3>1. \A d \in 1..N : d - 1 \in 0..N
      BY <1>1
    <3>2. \A d \in 1..N : f[d] = Step81(s, target, f[d - 1])
      BY <1>6, <3>1
    <3> HIDE DEF D
    <3> QED
      BY <1>6, <3>2, <1>1
  <2>2. g = [d \in 0..N |-> IF d = 0 THEN w0 ELSE Step81(s, target, g[d - 1])]
    BY <2>1, <1>0 DEF Loop81
  <2>3. g[0] = w0 /\ \A d \in 1..N : g[d] = Step81(s, target, g[d - 1])
    BY <2>2, <1>1
  <2>4. Follows(N, D, G, g)
    BY <2>3 DEF Follows
  <2> HIDE DEF D, G, g
  <2> QED
    BY <1>6, <2>3, <2>4
<1>8. PICK v : v = f[N]
  OBVIOUS
<1>9. v \in D /\ Step81(s, target, v) = v
  BY <1>6, <1>8
<1>10. v.found \/ v.l = v.r
  <2>1. v.l \in 0..n - 1 /\ v.r \in 0..n - 1 /\ v.l <= v.r /\ v.found \in BOOLEAN
    BY <1>9, <1>3
  <2>2. Apart(v) => v.r - v.l < v.r - v.l
    <3> HIDE DEF D
    <3> QED
      BY <1>4, <1>9
  <2>3. ~ Apart(v)
    BY <2>1, <2>2
  <2> QED
    BY <2>1, <2>3 DEF Apart, Open
<1>11. test81(s, target) <=> v.found \/ At(s, v.r) = target
  <2>1. test81(s, target) <=> g[2 * Len(s)].found \/ At(s, g[2 * Len(s)].r) = target
    BY DEF test81, While, Step81, Start81, Loop81
  <2> HIDE DEF g
  <2> QED
    BY <2>1, <1>0, <1>7, <1>8
<1> HIDE DEF g, G, M, w0
<1>12. Inside(s, target, 0, n - 1) <=> v.found \/ Inside(s, target, v.l, v.r)
  BY <1>0, <1>9 DEF States81
<1>13. v.l = v.r => (Inside(s, target, v.l, v.r) <=> At(s, v.r) = target)
  <2>1. v.r \in Int
    BY <1>1, <1>3, <1>9
  <2>2. v.r..v.r = {v.r}
    BY <2>1
  <2> QED
    BY <2>2 DEF Inside
<1>14. Inside(s, target, 0, n - 1) <=> \E k \in DOMAIN s : s[k] = target
  <2>1. DOMAIN s = 1..n
    BY <1>0, Numbers
  <2>2. ASSUME NEW k \in 1..n, s[k] = target PROVE Inside(s, target, 0, n - 1)
    <3>1. k - 1 \in 0..n - 1 /\ At(s, k - 1) = s[k]
      BY <1>1 DEF At
    <3> QED
      BY <3>1, <2>2 DEF Inside
  <2>3. ASSUME NEW k \in 0..n - 1, At(s, k) = target PROVE \E j \in 1..n : s[j] = target
    <3>1. k + 1 \in 1..n
      BY <1>1
    <3> QED
      BY <3>1, <2>3 DEF At
  <2> QED
    BY <2>1, <2>2, <2>3 DEF Inside
<1>15. v.found => Inside(s, target, 0, n - 1)
  BY <1>12
<1>16. At(s, v.r) = target => Inside(s, target, 0, n - 1)
  <2>1. v.r \in 0..n - 1
    BY <1>3, <1>9
  <2> QED
    BY <2>1 DEF Inside
<1> QED
  BY <1>10, <1>11, <1>12, <1>13, <1>14, <1>15, <1>16

-----------------------------------------------------------------------------
(* test167 and test154.                                                    *)

\* One turn of the loop of test167, all its turns, and its states: the places i and j
\* are between l and r.
Step167(s, target, w) ==
  IF w.l # w.r /\ At(s, w.l) + At(s, w.r) # target
  THEN IF At(s, w.l) + At(s, w.r) > target THEN [w EXCEPT !.r = w.r - 1] ELSE [w EXCEPT !.l = w.l + 1]
  ELSE w
Start167(s) == [l |-> 0, r |-> Len(s) - 1]
Loop167(s, target) ==
  CHOOSE f : f = [k \in 0..Len(s) |-> IF k = 0 THEN Start167(s) ELSE Step167(s, target, f[k - 1])]
States167(s, i, j) == {w \in [l : 0..i, r : j..Len(s) - 1] : TRUE}

\* A turn keeps to the states, and brings the two ends closer.
LEMMA Turn167 ==
  ASSUME NEW s \in Seq(Element), Sorted(s), NEW i \in 0..Len(s) - 1, NEW j \in 0..Len(s) - 1, i < j,
         NEW w \in States167(s, i, j)
  PROVE  LET target == At(s, i) + At(s, j)  v == Step167(s, target, w) IN
         /\ v \in States167(s, i, j)
         /\ IF At(s, w.l) + At(s, w.r) # target THEN v.r - v.l < w.r - w.l ELSE v = w
<1> DEFINE v == Step167(s, At(s, i) + At(s, j), w)
<1>0. PICK n, l, r, x, y, p, q : /\ n = Len(s) /\ l = w.l /\ r = w.r /\ x = At(s, i) /\ y = At(s, j)
                                 /\ p = At(s, l) /\ q = At(s, r)
  OBVIOUS
<1>1. /\ n \in Nat /\ i \in 0..n - 1 /\ j \in 0..n - 1 /\ l \in 0..i /\ r \in j..n - 1
      /\ w = [l |-> l, r |-> r]
  BY <1>0, Numbers DEF States167
<1>2. /\ x \in Int /\ y \in Int /\ p \in Int /\ q \in Int /\ p <= x /\ y <= q
      /\ (l = i => p = x) /\ (r = j => q = y)
  <2>1. /\ i + 1 \in 1..n /\ j + 1 \in 1..n /\ l + 1 \in 1..n /\ r + 1 \in 1..n
        /\ (l # i => l + 1 < i + 1) /\ (r # j => j + 1 < r + 1)
    BY <1>1
  <2>2. x = s[i + 1] /\ y = s[j + 1] /\ p = s[l + 1] /\ q = s[r + 1]
    BY <1>0 DEF At
  <2>3. (\A k \in 1..n : s[k] \in Int) /\ \A h, k \in 1..n : h < k => s[h] <= s[k]
    BY <1>0, Numbers DEF Sorted
  <2>4. s[i + 1] \in Int /\ s[j + 1] \in Int
    BY <2>1, <2>3
  <2>5. s[l + 1] <= s[i + 1] /\ s[j + 1] <= s[r + 1]
    BY <2>1, <2>3, <2>4
  <2> QED
    BY <2>1, <2>2, <2>3, <2>5
<1>3. l \in Int /\ r \in Int /\ i \in Int /\ j \in Int /\ n \in Int /\ 0 <= l /\ l <= i /\ i < j /\ j <= r /\ r <= n - 1
  BY <1>1
<1>4. CASE p + q = x + y
  <2>1. v = w
    BY <1>0, <1>4 DEF Step167
  <2> QED
    BY <2>1, <1>0, <1>4
<1>5. CASE p + q > x + y
  <2>1. v = [l |-> l, r |-> r - 1]
    <3>1. l # r /\ p + q # x + y
      BY <1>2, <1>3, <1>5
    <3> HIDE DEF v
    <3>2. v = [w EXCEPT !.r = w.r - 1]
      BY <1>0, <1>5, <3>1 DEF Step167, v
    <3> QED
      BY <3>2, <1>0, <1>1
  <2>2. r # j
    BY <1>2, <1>3, <1>5
  <2>3. r - 1 \in j..n - 1 /\ (r - 1) - l < r - l
    BY <1>3, <2>2
  <2>4. v \in States167(s, i, j)
    BY <1>0, <1>1, <2>1, <2>3 DEF States167
  <2> QED
    BY <1>0, <1>2, <1>5, <2>1, <2>3, <2>4
<1>6. CASE p + q < x + y
  <2>1. v = [l |-> l + 1, r |-> r]
    <3>1. l # r /\ p + q # x + y /\ ~ (p + q > x + y)
      BY <1>2, <1>3, <1>6
    <3> HIDE DEF v
    <3>2. v = [w EXCEPT !.l = w.l + 1]
      BY <1>0, <1>6, <3>1 DEF Step167, v
    <3> QED
      BY <3>2, <1>0, <1>1
  <2>2. l # i
    BY <1>2, <1>3, <1>6
  <2>3. l + 1 \in 0..i /\ r - (l + 1) < r - l
    BY <1>3, <2>2
  <2>4. v \in States167(s, i, j)
    BY <1>0, <1>1, <2>1, <2>3 DEF States167
  <2> QED
    BY <1>0, <1>2, <1>6, <2>1, <2>3, <2>4
<1> QED
  BY <1>2, <1>4, <1>5, <1>6

\* test167 finds two elements with the sum.
LEMMA test167Is ==
  ASSUME NEW s \in Seq(Element), Sorted(s), NEW i0 \in DOMAIN s, NEW j0 \in DOMAIN s, i0 < j0
  PROVE  LET found == test167(s, s[i0] + s[j0])
         IN found[1] < found[2] /\ s[found[1]] + s[found[2]] = s[i0] + s[j0]
<1>0. PICK n, i, j, target : n = Len(s) /\ i = i0 - 1 /\ j = j0 - 1 /\ target = At(s, i) + At(s, j)
  OBVIOUS
<1> DEFINE w0 == Start167(s)  g == Loop167(s, target)  D == States167(s, i, j)
           G == [w \in D |-> Step167(s, target, w)]  M == [w \in D |-> w.r - w.l]
<1>1. n \in Nat /\ i \in 0..n - 1 /\ j \in 0..n - 1 /\ i < j /\ i + 1 = i0 /\ j + 1 = j0
  <2>1. i0 \in 1..n /\ j0 \in 1..n /\ n \in Nat
    BY <1>0, Numbers
  <2> QED
    BY <2>1, <1>0
<1>2. w0 \in D
  <2>1. 0 \in 0..i /\ n - 1 \in j..n - 1
    BY <1>1
  <2> QED
    BY <1>0, <2>1 DEF Start167, States167
<1>3. \A v \in D : v.l \in 0..i /\ v.r \in j..n - 1
  BY <1>0 DEF States167
<1>4. \A v \in D : /\ Step167(s, target, v) \in D
                   /\ IF At(s, v.l) + At(s, v.r) # target
                      THEN Step167(s, target, v).r - Step167(s, target, v).l < v.r - v.l
                      ELSE Step167(s, target, v) = v
  BY <1>0, <1>1, Turn167
<1>5. G \in [D -> D] /\ M \in [D -> Nat] /\ M[w0] <= n /\ \A v \in D : G[v] = v \/ M[G[v]] < M[v]
  <2> HIDE DEF D
  <2>1. w0.l = 0 /\ w0.r = n - 1
    BY <1>0 DEF Start167
  <2>2. M[w0] <= n
    <3> HIDE DEF w0
    <3> QED
      BY <1>1, <1>2, <2>1
  <2>3. \A v \in D : v.r - v.l \in Nat
    BY <1>1, <1>3
  <2>4. G \in [D -> D] /\ M \in [D -> Nat]
    BY <1>4, <2>3
  <2>5. \A v \in D : G[v] = v \/ M[G[v]] < M[v]
    BY <1>4
  <2> QED
    BY <2>2, <2>4, <2>5
<1>p. PICK f : EndsAs(n, D, G, w0, f)
  <2> HIDE DEF D, G, M, w0
  <2> QED
    BY <1>1, <1>2, <1>5, LoopRule
<1>6. /\ f \in [0..n -> D] /\ f[0] = w0 /\ \A d \in 1..n : f[d] = G[f[d - 1]]
      /\ f[n] \in D /\ G[f[n]] = f[n]
      /\ \A p : Follows(n, D, G, p) /\ p[0] = w0 => p[n] = f[n]
  BY <1>p DEF EndsAs
<1>7. g[n] = f[n]
  <2>1. f = [d \in 0..n |-> IF d = 0 THEN w0 ELSE Step167(s, target, f[d - 1])]
    <3>1. \A d \in 1..n : d - 1 \in 0..n
      BY <1>1
    <3>2. \A d \in 1..n : f[d] = Step167(s, target, f[d - 1])
      BY <1>6, <3>1
    <3> HIDE DEF D
    <3> QED
      BY <1>6, <3>2, <1>1
  <2>2. g = [d \in 0..n |-> IF d = 0 THEN w0 ELSE Step167(s, target, g[d - 1])]
    BY <2>1, <1>0 DEF Loop167
  <2>3. g[0] = w0 /\ \A d \in 1..n : g[d] = Step167(s, target, g[d - 1])
    BY <2>2, <1>1
  <2>4. Follows(n, D, G, g)
    BY <2>3 DEF Follows
  <2> HIDE DEF D, G, g
  <2> QED
    BY <1>6, <2>3, <2>4
<1>8. PICK v : v = f[n]
  OBVIOUS
<1>9. v \in D /\ Step167(s, target, v) = v
  BY <1>6, <1>8
<1>10. At(s, v.l) + At(s, v.r) = target
  <2>1. v.l \in 0..i /\ v.r \in j..n - 1
    BY <1>9, <1>3
  <2>2. At(s, v.l) + At(s, v.r) # target => v.r - v.l < v.r - v.l
    <3> HIDE DEF D
    <3> QED
      BY <1>4, <1>9
  <2>3. v.r - v.l \in Int
    BY <1>1, <2>1
  <2> QED
    BY <2>2, <2>3
<1>11. test167(s, target) = <<v.l + 1, v.r + 1>>
  <2>1. test167(s, target) = <<g[Len(s)].l + 1, g[Len(s)].r + 1>>
    BY DEF test167, While, Step167, Start167, Loop167
  <2> HIDE DEF g
  <2> QED
    BY <2>1, <1>0, <1>7, <1>8
<1> HIDE DEF g, G, M, w0, D
<1>12. v.l + 1 < v.r + 1
  <2>1. v.l \in 0..i /\ v.r \in j..n - 1
    BY <1>9, <1>3
  <2> QED
    BY <1>1, <2>1
<1>13. target = s[i0] + s[j0]
  BY <1>0, <1>1 DEF At
<1> QED
  BY <1>10, <1>11, <1>12, <1>13 DEF At

\* The places of s that the loop of test154 has left, apart from l.
Ahead154(s, l, r, x) == \E j \in l + 1..r : At(s, j) <= x

\* One turn of that loop, all its turns, and its states: res is an element that has
\* been left, and no element is less than it and than all that are ahead.
Step154(s, w) ==
  IF Apart(w)
  THEN LET mid == w.l + (w.r - w.l + 1) \div 2  x == At(s, mid) IN
       IF x < At(s, w.r) THEN [w EXCEPT !.r = mid - 1, !.res = IF x > w.res THEN w.res ELSE x]
       ELSE IF x > At(s, w.r)
            THEN IF x >= w.res /\ w.res < At(s, w.r) THEN [w EXCEPT !.found = TRUE, !.res = At(s, w.l)]
                 ELSE [w EXCEPT !.l = mid, !.res = x]
       ELSE [w EXCEPT !.r = w.r - 1, !.res = IF At(s, w.r) <= w.res THEN At(s, w.r) ELSE w.res]
  ELSE w
Start154(s) == [l |-> 0, r |-> Len(s) - 1, found |-> FALSE, res |-> At(s, 0)]
Loop154(s) ==
  CHOOSE f : f = [k \in 0..2 * Len(s) |-> IF k = 0 THEN Start154(s) ELSE Step154(s, f[k - 1])]
States154(s) ==
  {w \in [l : 0..Len(s) - 1, r : 0..Len(s) - 1, found : {FALSE}, res : Element] :
     /\ w.l <= w.r
     /\ \E k \in 0..Len(s) - 1 : (k <= w.l \/ k > w.r) /\ At(s, k) = w.res
     /\ \A k \in 0..Len(s) - 1 : w.res <= At(s, k) \/ Ahead154(s, w.l, w.r, At(s, k))}

\* A turn keeps to the states, and brings the two ends closer.
LEMMA Turn154 ==
  ASSUME NEW s \in Seq(Element), NEW p, TurnedAt(s, p), NEW w \in States154(s)
  PROVE  LET v == Step154(s, w) IN
         v \in States154(s) /\ IF Apart(w) THEN v.r - v.l < w.r - w.l ELSE v = w
<1> DEFINE v == Step154(s, w)
<1>0. PICK n, e, l, r, m, x, res :
        /\ n = Len(s) /\ e = [k \in 0..n - 1 |-> At(s, k)] /\ l = w.l /\ r = w.r /\ res = w.res
        /\ m = l + (r - l + 1) \div 2 /\ x = At(s, m)
  OBVIOUS
<1>1. /\ n \in Nat /\ l \in 0..n - 1 /\ r \in 0..n - 1 /\ l <= r /\ res \in Element
      /\ w = [l |-> l, r |-> r, found |-> FALSE, res |-> res]
  BY <1>0, Numbers DEF States154
<1>2. CASE ~ Apart(w)
  BY <1>2 DEF Step154
<1>3. CASE Apart(w)
  <2>1. l < r
    BY <1>0, <1>3 DEF Apart, Open
  <2>2. n \in Int /\ l \in Int /\ r \in Int /\ m \in Int /\ l < m /\ m <= r /\ 0 <= l /\ r <= n - 1
    BY <1>0, <1>1, <2>1, UpperMiddle
  <2>3. l \in 0..n - 1 /\ r \in 0..n - 1 /\ m \in 0..n - 1 /\ m - 1 \in 0..n - 1 /\ r - 1 \in 0..n - 1
    BY <2>2, <1>1
  <2>4. /\ \A k \in 0..n - 1 : e[k] = At(s, k) /\ e[k] \in Element /\ e[k] \in Int
        /\ x = e[m] /\ At(s, r) = e[r] /\ At(s, l) = e[l]
    <3>1. \A k \in 0..n - 1 : e[k] = At(s, k)
      BY <1>0
    <3>2. ASSUME NEW k \in 0..n - 1 PROVE At(s, k) \in Element /\ At(s, k) \in Int
      <4>1. k + 1 \in 1..n
        BY <1>1
      <4> QED
        BY <4>1, <1>0, Numbers DEF At
    <3> QED
      BY <3>1, <3>2, <2>3, <1>0
  <2>e. /\ x \in Int /\ e[r] \in Int /\ e[l] \in Int /\ res \in Int /\ x \in Element /\ e[r] \in Element
        /\ w.l = l /\ w.r = r /\ w.res = res
    <3>1. e[m] \in Element /\ e[r] \in Element /\ e[m] \in Int /\ e[r] \in Int /\ e[l] \in Int
      BY <2>3, <2>4
    <3> QED
      BY <3>1, <2>4, <1>0, <1>1, ElementAssumption
  <2>5. \A i, j \in 0..n - 1 : i < j => IF i < p /\ p <= j THEN e[j] <= e[i] ELSE e[i] <= e[j]
    BY <1>0, <2>4 DEF TurnedAt
  <2>p. p \in Int
    BY <1>0, <1>1 DEF TurnedAt
  <2>6. PICK k0 \in 0..n - 1 : (k0 <= l \/ k0 > r) /\ e[k0] = res
    BY <1>0, <2>4 DEF States154
  <2>7. \A k \in 0..n - 1 : res <= e[k] \/ \E j \in l + 1..r : e[j] <= e[k]
    <3> SUFFICES ASSUME NEW k \in 0..n - 1 PROVE res <= e[k] \/ \E j \in l + 1..r : e[j] <= e[k]
      OBVIOUS
    <3>1. w.res <= At(s, k) \/ Ahead154(s, w.l, w.r, At(s, k))
      BY <1>0 DEF States154
    <3>2. \A j \in l + 1..r : j \in 0..n - 1
      BY <2>2
    <3> QED
      BY <3>1, <3>2, <2>4, <2>e DEF Ahead154
  \* What has to be shown of the next state.
  <2>8. ASSUME NEW l1 \in 0..n - 1, NEW r1 \in 0..n - 1, NEW y, y \in Element, l1 <= r1,
               v = [l |-> l1, r |-> r1, found |-> FALSE, res |-> y],
               \E k \in 0..n - 1 : (k <= l1 \/ k > r1) /\ e[k] = y,
               \A k \in 0..n - 1 : y <= e[k] \/ \E j \in l1 + 1..r1 : e[j] <= e[k]
        PROVE  v \in States154(s)
    <3>1. ASSUME NEW k \in 0..n - 1 PROVE y <= At(s, k) \/ Ahead154(s, l1, r1, At(s, k))
      <4>1. \A j \in l1 + 1..r1 : j \in 0..n - 1
        BY <2>2
      <4> QED
        BY <4>1, <2>4, <2>8 DEF Ahead154
    <3>2. \E k \in 0..n - 1 : (k <= l1 \/ k > r1) /\ At(s, k) = y
      BY <2>4, <2>8
    <3> HIDE DEF v
    <3> QED
      BY <1>0, <2>8, <3>1, <3>2 DEF States154
  <2>9. CASE x < e[r]
    <3> DEFINE y == IF x > res THEN res ELSE x
    <3>1. v = [l |-> l, r |-> m - 1, found |-> FALSE, res |-> y]
      BY <2>e, <1>0, <1>1, <1>3, <2>4, <2>9 DEF Step154
    <3>2. l <= m - 1 /\ (m - 1) - l < r - l
      BY <2>2
    <3>3. y \in Element /\ y \in Int /\ y <= res /\ y <= x
      BY <2>e, <1>1
    <3>4. \E k \in 0..n - 1 : (k <= l \/ k > m - 1) /\ e[k] = y
      <4>1. k0 <= l \/ k0 > m - 1
        BY <2>2, <2>6
      <4>2. m > m - 1
        BY <2>2
      <4> QED
        BY <4>1, <4>2, <2>3, <2>4, <2>6
    <3>5. ASSUME NEW k \in 0..n - 1 PROVE y <= e[k] \/ \E j \in l + 1..m - 1 : e[j] <= e[k]
      <4>1. CASE res <= e[k]
        BY <4>1, <3>3, <2>e, <2>4
      <4>2. CASE \E j \in l + 1..r : e[j] <= e[k]
        <5>1. PICK j \in l + 1..r : e[j] <= e[k]
          BY <4>2
        <5>2. CASE j < m
          <6>1. j \in l + 1..m - 1
            BY <2>2, <5>2
          <6> QED
            BY <6>1, <5>1
        <5>3. CASE ~ (j < m)
          <6>1. j \in 0..n - 1 /\ m <= j /\ j <= r
            BY <2>2, <5>3
          <6>2. ~ (m < p /\ p <= r)
            <7>1. m # r
              BY <2>4, <2>9, <2>e
            <7> QED
              BY <7>1, <2>2, <2>3, <2>4, <2>5, <2>9, <2>e
          <6>3. e[m] <= e[j]
            <7>1. m # j => ~ (m < p /\ p <= j)
              BY <6>1, <6>2, <2>2, <2>p
            <7> QED
              BY <7>1, <6>1, <2>2, <2>3, <2>4, <2>5, <2>e
          <6>4. e[j] \in Int /\ e[k] \in Int
            BY <6>1, <2>4
          <6> QED
            BY <6>3, <6>4, <5>1, <3>3, <2>4, <2>e
        <5> QED
          BY <5>2, <5>3
      <4> QED
        BY <4>1, <4>2, <2>7
    <3>6. v \in States154(s)
      <4> HIDE DEF v, y
      <4> QED
        BY <3>1, <3>2, <3>3, <3>4, <3>5, <2>3, <2>8
    <3> QED
      BY <3>1, <3>2, <3>6, <2>e, <1>3
  <2>10. CASE x > e[r]
    <3>1. m < r /\ m < p /\ p <= r /\ e[r] <= res
      <4>1. m # r
        BY <2>4, <2>e, <2>10
      <4>2. m < p /\ p <= r
        BY <4>1, <2>2, <2>3, <2>4, <2>5, <2>e, <2>10
      <4>3. e[r] <= e[k0]
        <5>1. CASE k0 <= l
          <6>1. k0 < r /\ k0 < p
            BY <5>1, <2>2, <2>p, <4>2
          <6> QED
            BY <6>1, <4>2, <2>3, <2>5
        <5>2. CASE k0 > r
          <6>1. ~ (r < p)
            BY <2>2, <2>p, <4>2
          <6> QED
            BY <6>1, <5>2, <2>3, <2>5
        <5> QED
          BY <5>1, <5>2, <2>6
      <4> QED
        BY <4>1, <4>2, <4>3, <2>2, <2>6
    <3>2. v = [l |-> m, r |-> r, found |-> FALSE, res |-> x]
      <4>1. ~ (res < e[r]) /\ ~ (x < e[r])
        BY <3>1, <2>e, <2>10
      <4> QED
        BY <4>1, <2>e, <1>0, <1>1, <1>3, <2>4, <2>10 DEF Step154
    <3>3. m <= r /\ r - m < r - l
      BY <2>2
    <3>4. \E k \in 0..n - 1 : (k <= m \/ k > r) /\ e[k] = x
      <4>1. m <= m
        BY <2>2
      <4> QED
        BY <4>1, <2>3, <2>4
    <3>5. ASSUME NEW k \in 0..n - 1 PROVE x <= e[k] \/ \E j \in m + 1..r : e[j] <= e[k]
      <4>1. p \in m + 1..r /\ p \in 0..n - 1
        BY <3>1, <2>2, <2>p
      <4>2. e[p] \in Int /\ e[k] \in Int
        BY <4>1, <2>4
      <4>3. CASE k < p
        BY <4>1, <4>2, <4>3, <2>5, <2>p
      <4>4. CASE ~ (k < p)
        <5>1. e[p] <= e[k]
          BY <4>1, <4>2, <4>4, <2>5, <2>p
        <5> QED
          BY <5>1, <4>1
      <4> QED
        BY <4>3, <4>4, <4>1
    <3>6. v \in States154(s)
      <4> HIDE DEF v
      <4> QED
        <5>1. x \in Element /\ m <= r /\ m \in 0..n - 1 /\ r \in 0..n - 1
          BY <3>3, <2>3, <2>e
        <5>2. \A k \in 0..n - 1 : x <= e[k] \/ \E j \in m + 1..r : e[j] <= e[k]
          BY <3>5
        <5> QED
          BY <5>1, <5>2, <3>2, <3>4, <2>8
    <3> QED
      BY <3>2, <3>3, <3>6, <2>e, <1>3
  <2>11. CASE x = e[r]
    <3> DEFINE y == IF e[r] <= res THEN e[r] ELSE res
    <3>1. v = [l |-> l, r |-> r - 1, found |-> FALSE, res |-> y]
      <4>1. ~ (x < e[r]) /\ ~ (x > e[r])
        BY <2>e, <2>11
      <4> QED
        BY <4>1, <2>e, <1>0, <1>1, <1>3, <2>4 DEF Step154
    <3>2. l <= r - 1 /\ (r - 1) - l < r - l
      BY <2>2
    <3>3. y \in Element /\ y \in Int /\ y <= res /\ y <= e[r]
      BY <2>e, <1>1
    <3>4. \E k \in 0..n - 1 : (k <= l \/ k > r - 1) /\ e[k] = y
      <4>1. k0 <= l \/ k0 > r - 1
        BY <2>2, <2>6
      <4>2. r > r - 1
        BY <2>2
      <4> QED
        BY <4>1, <4>2, <2>3, <2>4, <2>6
    <3>5. ASSUME NEW k \in 0..n - 1 PROVE y <= e[k] \/ \E j \in l + 1..r - 1 : e[j] <= e[k]
      <4>1. CASE res <= e[k]
        BY <4>1, <3>3, <2>e, <2>4
      <4>2. CASE \E j \in l + 1..r : e[j] <= e[k]
        <5>1. PICK j \in l + 1..r : e[j] <= e[k]
          BY <4>2
        <5>2. CASE j = r
          BY <5>1, <5>2, <3>3, <2>e, <2>4
        <5>3. CASE j # r
          <6>1. j \in l + 1..r - 1
            BY <2>2, <5>3
          <6> QED
            BY <6>1, <5>1
        <5> QED
          BY <5>2, <5>3
      <4> QED
        BY <4>1, <4>2, <2>7
    <3>6. v \in States154(s)
      <4> HIDE DEF v, y
      <4> QED
        BY <3>1, <3>2, <3>3, <3>4, <3>5, <2>3, <2>8
    <3> QED
      BY <3>1, <3>2, <3>6, <2>e, <1>3
  <2>12. x = e[r] \/ x < e[r] \/ x > e[r]
    BY <2>e
  <2> QED
    BY <2>9, <2>10, <2>11, <2>12
<1> QED
  BY <1>2, <1>3

\* test154 finds the least element of a rotated array.
LEMMA test154Is ==
  ASSUME NEW s \in Seq(Element), s # <<>>, Rotated(s)
  PROVE  test154(s) = Min({s[k] : k \in DOMAIN s})
<1>0. PICK n, N : n = Len(s) /\ N = 2 * n
  OBVIOUS
<1> DEFINE w0 == Start154(s)  g == Loop154(s)  D == States154(s)
           G == [w \in D |-> Step154(s, w)]  M == [w \in D |-> w.r - w.l]
<1>1. N \in Nat /\ n \in Nat /\ n > 0 /\ n - 1 <= N /\ 0 \in 0..n - 1
  <2>1. n \in Nat /\ n # 0
    BY <1>0, Numbers
  <2> QED
    BY <2>1, <1>0
<1>a. \A k \in 0..n - 1 : At(s, k) \in Element /\ At(s, k) \in Int
  <2> SUFFICES ASSUME NEW k \in 0..n - 1 PROVE At(s, k) \in Element /\ At(s, k) \in Int
    OBVIOUS
  <2>1. k + 1 \in 1..n
    BY <1>1
  <2> QED
    BY <2>1, <1>0, Numbers DEF At
<1>2. w0 \in D
  <2>1. 0 \in 0..n - 1 /\ n - 1 \in 0..n - 1 /\ 0 <= n - 1 /\ 0 <= 0
    BY <1>1
  <2>2. ASSUME NEW k \in 0..n - 1 PROVE At(s, 0) <= At(s, k) \/ Ahead154(s, 0, n - 1, At(s, k))
    <3>1. CASE k = 0
      <4>1. At(s, 0) \in Int
        BY <1>a, <2>1
      <4> QED
        BY <3>1, <4>1
    <3>2. CASE k # 0
      <4>1. k \in 0 + 1..n - 1 /\ At(s, k) \in Int
        BY <3>2, <1>1, <1>a
      <4>2. At(s, k) <= At(s, k)
        BY <4>1
      <4> QED
        BY <4>1, <4>2 DEF Ahead154
    <3> QED
      BY <3>1, <3>2
  <2>3. At(s, 0) \in Element /\ w0 = [l |-> 0, r |-> n - 1, found |-> FALSE, res |-> At(s, 0)]
    BY <1>0, <1>a, <2>1 DEF Start154
  <2> HIDE DEF w0
  <2> QED
    BY <1>0, <2>1, <2>2, <2>3 DEF States154
<1>3. \A v \in D : v.l \in 0..n - 1 /\ v.r \in 0..n - 1 /\ v.l <= v.r /\ v.found = FALSE /\ v.res \in Element
  BY <1>0 DEF States154
<1>4. \A v \in D : Step154(s, v) \in D
        /\ IF Apart(v) THEN Step154(s, v).r - Step154(s, v).l < v.r - v.l ELSE Step154(s, v) = v
  <2>1. PICK p : TurnedAt(s, p)
    BY RotatedIs
  <2> QED
    BY <2>1, Turn154
<1>5. G \in [D -> D] /\ M \in [D -> Nat] /\ M[w0] <= N /\ \A v \in D : G[v] = v \/ M[G[v]] < M[v]
  <2> HIDE DEF D
  <2>1. w0.l = 0 /\ w0.r = n - 1
    BY <1>0 DEF Start154
  <2>2. M[w0] <= N
    <3> HIDE DEF w0
    <3> QED
      BY <1>1, <1>2, <2>1
  <2>3. \A v \in D : v.r - v.l \in Nat
    BY <1>1, <1>3
  <2>4. G \in [D -> D] /\ M \in [D -> Nat]
    BY <1>4, <2>3
  <2>5. \A v \in D : G[v] = v \/ M[G[v]] < M[v]
    BY <1>4
  <2> QED
    BY <2>2, <2>4, <2>5
<1>p. PICK f : EndsAs(N, D, G, w0, f)
  <2> HIDE DEF D, G, M, w0
  <2> QED
    BY <1>1, <1>2, <1>5, LoopRule
<1>6. /\ f \in [0..N -> D] /\ f[0] = w0 /\ \A d \in 1..N : f[d] = G[f[d - 1]]
      /\ f[N] \in D /\ G[f[N]] = f[N]
      /\ \A p : Follows(N, D, G, p) /\ p[0] = w0 => p[N] = f[N]
  BY <1>p DEF EndsAs
<1>7. g[N] = f[N]
  <2>1. f = [d \in 0..N |-> IF d = 0 THEN w0 ELSE Step154(s, f[d - 1])]
    <3>1. \A d \in 1..N : d - 1 \in 0..N
      BY <1>1
    <3>2. \A d \in 1..N : f[d] = Step154(s, f[d - 1])
      BY <1>6, <3>1
    <3> HIDE DEF D
    <3> QED
      BY <1>6, <3>2, <1>1
  <2>2. g = [d \in 0..N |-> IF d = 0 THEN w0 ELSE Step154(s, g[d - 1])]
    BY <2>1, <1>0 DEF Loop154
  <2>3. g[0] = w0 /\ \A d \in 1..N : g[d] = Step154(s, g[d - 1])
    BY <2>2, <1>1
  <2>4. Follows(N, D, G, g)
    BY <2>3 DEF Follows
  <2> HIDE DEF D, G, g
  <2> QED
    BY <1>6, <2>3, <2>4
<1>8. PICK v : v = f[N]
  OBVIOUS
<1>9. v \in D /\ Step154(s, v) = v
  BY <1>6, <1>8
<1>10. v.l = v.r
  <2>1. v.l \in 0..n - 1 /\ v.r \in 0..n - 1 /\ v.l <= v.r /\ v.found = FALSE
    BY <1>9, <1>3
  <2>2. Apart(v) => v.r - v.l < v.r - v.l
    <3> HIDE DEF D
    <3> QED
      BY <1>4, <1>9
  <2>3. ~ Apart(v)
    BY <2>1, <2>2
  <2> QED
    BY <2>1, <2>3 DEF Apart, Open
<1>11. test154(s) = v.res
  <2>1. test154(s) = g[2 * Len(s)].res
    BY DEF test154, While, Step154, Start154, Loop154
  <2> HIDE DEF g
  <2> QED
    BY <2>1, <1>0, <1>7, <1>8
<1> HIDE DEF g, G, M, w0
<1>12. PICK k0 \in 0..n - 1 : At(s, k0) = v.res
  BY <1>0, <1>9 DEF States154
<1>13. \A k \in 0..n - 1 : v.res <= At(s, k)
  <2>1. \A k \in 0..n - 1 : v.res <= At(s, k) \/ Ahead154(s, v.l, v.r, At(s, k))
    BY <1>0, <1>9 DEF States154
  <2>2. v.r \in Int
    BY <1>1, <1>3, <1>9
  <2>3. v.l + 1..v.r = {}
    BY <1>10, <2>2
  <2> QED
    BY <2>1, <2>3 DEF Ahead154
<1> DEFINE S == {s[k] : k \in DOMAIN s}
<1>14. v.res \in S /\ \A y \in S : v.res <= y /\ y \in Int
  <2>1. DOMAIN s = 1..n /\ \A k \in 1..n : s[k] \in Int
    BY <1>0, Numbers
  <2>2. k0 + 1 \in 1..n
    BY <1>1
  <2>3. \A k \in 1..n : k - 1 \in 0..n - 1 /\ At(s, k - 1) = s[k]
    BY <1>1 DEF At
  <2> QED
    BY <2>1, <2>2, <2>3, <1>12, <1>13 DEF At
<1> HIDE DEF S
<1>15. Min(S) \in S /\ \A y \in S : Min(S) <= y
  BY <1>14 DEF Min
<1>16. Min(S) = v.res
  <2>1. Min(S) \in Int /\ v.res \in Int /\ Min(S) <= v.res /\ v.res <= Min(S)
    BY <1>14, <1>15
  <2> QED
    BY <2>1
<1> QED
  BY <1>11, <1>16 DEF S

-----------------------------------------------------------------------------
(* Sorting two arrays in one.                                              *)

\* No element is greater than v before places i of p and j of q, and none is less behind.
Below(p, q, i, j, v) == (\A k \in 1..i : p[k] <= v) /\ \A k \in 1..j : q[k] <= v
Above(p, q, i, j, v) == (\A k \in i + 1..Len(p) : v <= p[k]) /\ \A k \in j + 1..Len(q) : v <= q[k]

\* v is one of the elements before those places, but behind x and y.
Within(p, q, x, y, i, j, v) == (\E k \in x + 1..i : p[k] = v) \/ \E k \in y + 1..j : q[k] = v

\* Where such places part two arrays, v is at their rank of t, or at the next one.
Ranked(p, q, t) ==
  \A i \in 0..Len(p), j \in 0..Len(q), v \in Int :
    Below(p, q, i, j, v) /\ Above(p, q, i, j, v) =>
      /\ Within(p, q, 0, 0, i, j, v) => t[i + j] = v
      /\ Within(p, q, i, j, Len(p), Len(q), v) => t[i + j + 1] = v

\* The places of the first i elements of p and the first j of q in p \o q.
Fronts(p, i, j) == (1..i) \cup (Len(p) + 1..Len(p) + j)

\* Their number.
LEMMA FrontsAre ==
  ASSUME NEW m \in Nat, NEW i \in Nat, NEW j \in Nat, i <= m
  PROVE  /\ IsFiniteSet((1..i) \cup (m + 1..m + j))
         /\ Cardinality((1..i) \cup (m + 1..m + j)) = i + j
<1>1. PICK X, Y : X = 1..i /\ Y = m + 1..m + j
  OBVIOUS
<1>2. /\ IsFiniteSet(X) /\ Cardinality(X) = i
      /\ IsFiniteSet(Y) /\ Cardinality(Y) = j
  <2>1. 1 \in Int /\ i \in Int /\ m + 1 \in Int /\ m + j \in Int
    OBVIOUS
  <2>2. /\ IsFiniteSet(X) /\ Cardinality(X) = IF 1 > i THEN 0 ELSE i - 1 + 1
        /\ IsFiniteSet(Y) /\ Cardinality(Y) = IF m + 1 > m + j THEN 0 ELSE (m + j) - (m + 1) + 1
    BY <1>1, <2>1, FS_Interval
  <2> QED
    BY <2>2
<1>3. X \cap Y = {}
  BY <1>1
<1>4. IsFiniteSet(X \cup Y) /\ Cardinality(X \cup Y) = Cardinality(X) + Cardinality(Y) - Cardinality(X \cap Y)
  BY <1>2, FS_Union
<1>5. Cardinality(X \cap Y) = 0
  BY <1>3, FS_EmptySet
<1> QED
  BY <1>1, <1>2, <1>4, <1>5

\* What both arrays in one hold there, and elsewhere.
LEMMA FrontsHold ==
  ASSUME NEW p \in Seq(Element), NEW q \in Seq(Element), NEW i \in 0..Len(p), NEW j \in 0..Len(q)
  PROVE  /\ Fronts(p, i, j) \subseteq 1..Len(p \o q)
         /\ \A k \in Fronts(p, i, j) : \/ k \in 1..i /\ (p \o q)[k] = p[k]
                                       \/ k - Len(p) \in 1..j /\ (p \o q)[k] = q[k - Len(p)]
         /\ \A k \in (1..Len(p \o q)) \ Fronts(p, i, j) :
              \/ k \in i + 1..Len(p) /\ (p \o q)[k] = p[k]
              \/ k - Len(p) \in j + 1..Len(q) /\ (p \o q)[k] = q[k - Len(p)]
<1>0. PICK m, n, u : m = Len(p) /\ n = Len(q) /\ u = p \o q
  OBVIOUS
<1>1. /\ m \in Nat /\ n \in Nat /\ i \in 0..m /\ j \in 0..n /\ Len(u) = m + n
      /\ (\A k \in 1..m : u[k] = p[k]) /\ \A k \in 1..n : u[m + k] = q[k]
  BY <1>0, BothIs
<1>2. \A k \in m + 1..m + n : u[k] = q[k - m]
  <2> SUFFICES ASSUME NEW k \in m + 1..m + n PROVE u[k] = q[k - m]
    OBVIOUS
  <2>1. k - m \in 1..n /\ m + (k - m) = k
    BY <1>1
  <2> QED
    BY <2>1, <1>1
<1>a. m \in Nat /\ n \in Nat /\ i \in 0..m /\ j \in 0..n
  BY <1>1
<1>3. PICK F : F = (1..i) \cup (m + 1..m + j)
  OBVIOUS
<1>4. F \subseteq 1..m + n
  BY <1>3, <1>a
<1>5. ASSUME NEW k \in F PROVE (k \in 1..i /\ u[k] = p[k]) \/ (k - m \in 1..j /\ u[k] = q[k - m])
  <2>1. CASE k \in 1..i
    <3>1. k \in 1..m
      BY <2>1, <1>a
    <3> QED
      BY <2>1, <3>1, <1>1
  <2>2. CASE k \in m + 1..m + j
    <3>1. k \in m + 1..m + n /\ k - m \in 1..j
      BY <2>2, <1>a
    <3> QED
      BY <3>1, <1>2
  <2> QED
    BY <2>1, <2>2, <1>3
<1>6. ASSUME NEW k \in 1..m + n, k \notin F
      PROVE  (k \in i + 1..m /\ u[k] = p[k]) \/ (k - m \in j + 1..n /\ u[k] = q[k - m])
  <2>1. ~ (k \in 1..i) /\ ~ (k \in m + 1..m + j)
    BY <1>3, <1>6
  <2>2. CASE k <= m
    <3>1. k \in i + 1..m /\ k \in 1..m
      BY <2>1, <2>2, <1>a
    <3> QED
      BY <3>1, <1>1
  <2>3. CASE ~ (k <= m)
    <3>1. k \in m + 1..m + n /\ k - m \in j + 1..n
      BY <2>1, <2>3, <1>a
    <3> QED
      BY <3>1, <1>2
  <2> QED
    BY <2>2, <2>3
<1> QED
  BY <1>0, <1>1, <1>3, <1>4, <1>5, <1>6 DEF Fronts

\* Sorting both arrays in one gives the ranks.
LEMMA RanksAre ==
  ASSUME NEW p \in Seq(Element), NEW q \in Seq(Element), NEW t, SortOf(p \o q, t)
  PROVE  Ranked(p, q, t)
<1>0. PICK m, n, s : m = Len(p) /\ n = Len(q) /\ s = p \o q
  OBVIOUS
<1>1. /\ m \in Nat /\ n \in Nat /\ s \in Seq(Int) /\ Len(s) = m + n
      /\ (\A k \in 1..m : s[k] = p[k] /\ p[k] \in Int) /\ \A k \in 1..n : s[m + k] = q[k] /\ q[k] \in Int
  <2>1. /\ s \in Seq(Element) /\ m \in Nat /\ n \in Nat /\ Len(s) = m + n
        /\ (\A k \in 1..m : s[k] = p[k]) /\ \A k \in 1..n : s[m + k] = q[k]
    BY <1>0, BothIs
  <2>2. s \in Seq(Int)
    BY <2>1, IntSeq
  <2> QED
    BY <2>1, <2>2, <1>0, Numbers
<1>2. t \in Seq(Int) /\ SameBag(s, t) /\ Sorted(t)
  BY <1>0, IntSeq, SameBags DEF SortOf
<1>3. SUFFICES ASSUME NEW i \in 0..m, NEW j \in 0..n, NEW v \in Int, Below(p, q, i, j, v), Above(p, q, i, j, v)
               PROVE  /\ Within(p, q, 0, 0, i, j, v) => t[i + j] = v
                      /\ Within(p, q, i, j, m, n, v) => t[i + j + 1] = v
  BY <1>0 DEF Ranked
<1>4. PICK F : F = Fronts(p, i, j)
  OBVIOUS
<1>5. F \subseteq 1..Len(s) /\ IsFiniteSet(F) /\ Cardinality(F) = i + j
  <2>1. i \in Nat /\ j \in Nat /\ i <= m
    BY <1>1
  <2>2. IsFiniteSet(F) /\ Cardinality(F) = i + j
    BY <2>1, <1>0, <1>1, <1>4, FrontsAre DEF Fronts
  <2> QED
    BY <2>2, <1>0, <1>4, FrontsHold
<1>6. \A k \in F : s[k] <= v /\ s[k] \in Int
  <2> SUFFICES ASSUME NEW k \in F PROVE s[k] <= v /\ s[k] \in Int
    OBVIOUS
  <2>1. (k \in 1..i /\ s[k] = p[k]) \/ (k - m \in 1..j /\ s[k] = q[k - m])
    BY <1>0, <1>4, FrontsHold
  <2>2. (k \in 1..i => k \in 1..m) /\ (k - m \in 1..j => k - m \in 1..n)
    BY <1>1
  <2> QED
    BY <2>1, <2>2, <1>1, <1>3 DEF Below
<1>7. \A k \in (1..Len(s)) \ F : v <= s[k] /\ s[k] \in Int
  <2> SUFFICES ASSUME NEW k \in (1..Len(s)) \ F PROVE v <= s[k] /\ s[k] \in Int
    OBVIOUS
  <2>1. (k \in i + 1..m /\ s[k] = p[k]) \/ (k - m \in j + 1..n /\ s[k] = q[k - m])
    BY <1>0, <1>4, FrontsHold
  <2>2. (k \in i + 1..m => k \in 1..m) /\ (k - m \in j + 1..n => k - m \in 1..n)
    BY <1>1
  <2> QED
    BY <2>1, <2>2, <1>0, <1>1, <1>3 DEF Above
<1>n. i \in Int /\ j \in Int /\ 0 <= i /\ i <= m /\ 0 <= j /\ j <= n /\ m \in Int /\ n \in Int
  BY <1>1
<1>8. ASSUME Within(p, q, 0, 0, i, j, v) PROVE t[i + j] = v
  <2>1. PICK e \in F : s[e] = v
    <3>1. CASE \E k \in 0 + 1..i : p[k] = v
      <4>1. PICK k \in 1..i : p[k] = v
        BY <3>1
      <4>2. k \in 1..m
        BY <1>n
      <4> QED
        BY <4>1, <4>2, <1>0, <1>1, <1>4 DEF Fronts
    <3>2. CASE \E k \in 0 + 1..j : q[k] = v
      <4>1. PICK k \in 1..j : q[k] = v
        BY <3>2
      <4>2. k \in 1..n /\ m + k \in m + 1..m + j
        BY <1>n
      <4> QED
        BY <4>1, <4>2, <1>0, <1>1, <1>4 DEF Fronts
    <3> QED
      BY <1>8, <3>1, <3>2 DEF Within
  <2> DEFINE I == F \ {e}
  <2>2. Ranks(s, I, e)
    <3>1. \A k \in (1..Len(s)) \ I : k = e \/ k \in (1..Len(s)) \ F
      OBVIOUS
    <3>2. s[e] <= s[e]
      BY <2>1
    <3>3. \A k \in I : s[k] <= s[e]
      BY <2>1, <1>6
    <3>4. \A k \in (1..Len(s)) \ I : s[e] <= s[k]
      BY <2>1, <3>1, <3>2, <1>7
    <3> QED
      BY <2>1, <3>3, <3>4, <1>5 DEF Ranks
  <2>3. Cardinality(I) = i + j - 1
    <3>1. Cardinality(F \ {e}) = IF e \in F THEN Cardinality(F) - 1 ELSE Cardinality(F)
      BY <1>5, FS_RemoveElement
    <3> QED
      BY <3>1, <1>5, <2>1
  <2>4. Cardinality(I) + 1 = i + j
    BY <2>3, <1>n
  <2> HIDE DEF I
  <2>5. t[Cardinality(I) + 1] = s[e]
    BY <1>1, <1>2, <2>2, RankIs
  <2> QED
    BY <2>1, <2>4, <2>5
<1>9. ASSUME Within(p, q, i, j, m, n, v) PROVE t[i + j + 1] = v
  <2>1. PICK e \in (1..Len(s)) \ F : s[e] = v
    <3>0. \A x : x \in F <=> x \in 1..i \/ x \in m + 1..m + j
      BY <1>0, <1>4 DEF Fronts
    <3>1. CASE \E k \in i + 1..m : p[k] = v
      <4>1. PICK k \in i + 1..m : p[k] = v
        BY <3>1
      <4>2. k \in 1..m /\ k \in 1..m + n /\ ~ (k \in 1..i) /\ ~ (k \in m + 1..m + j)
        BY <1>n
      <4> QED
        BY <3>0, <4>1, <4>2, <1>1
    <3>2. CASE \E k \in j + 1..n : q[k] = v
      <4>1. PICK k \in j + 1..n : q[k] = v
        BY <3>2
      <4>2. k \in 1..n /\ m + k \in 1..m + n /\ ~ (m + k \in 1..i) /\ ~ (m + k \in m + 1..m + j)
        BY <1>n
      <4> QED
        BY <3>0, <4>1, <4>2, <1>1
    <3> QED
      BY <1>9, <3>1, <3>2 DEF Within
  <2>2. Ranks(s, F, e)
    <3>1. \A k \in F : s[k] <= s[e]
      BY <2>1, <1>6
    <3>2. \A k \in (1..Len(s)) \ F : s[e] <= s[k]
      BY <2>1, <1>7
    <3> QED
      BY <2>1, <3>1, <3>2, <1>5 DEF Ranks
  <2>3. t[Cardinality(F) + 1] = s[e]
    BY <1>1, <1>2, <2>2, RankIs
  <2> QED
    BY <2>1, <2>3, <1>5
<1> QED
  BY <1>8, <1>9

\* The order of the arrays does not matter.
LEMMA RankedSwap ==
  ASSUME NEW p \in Seq(Element), NEW q \in Seq(Element), NEW t, Ranked(p, q, t)
  PROVE  Ranked(q, p, t)
<1> SUFFICES ASSUME NEW j \in 0..Len(q), NEW i \in 0..Len(p), NEW v \in Int, Below(q, p, j, i, v), Above(q, p, j, i, v)
             PROVE  /\ Within(q, p, 0, 0, j, i, v) => t[j + i] = v
                    /\ Within(q, p, j, i, Len(q), Len(p), v) => t[j + i + 1] = v
  BY DEF Ranked
<1>1. Below(p, q, i, j, v) /\ Above(p, q, i, j, v)
  BY DEF Below, Above
<1>2. /\ Within(p, q, 0, 0, i, j, v) => t[i + j] = v
      /\ Within(p, q, i, j, Len(p), Len(q), v) => t[i + j + 1] = v
  BY <1>1 DEF Ranked
<1>3. i + j = j + i
  BY Numbers
<1>4. /\ Within(q, p, 0, 0, j, i, v) => Within(p, q, 0, 0, i, j, v)
      /\ Within(q, p, j, i, Len(q), Len(p), v) => Within(p, q, i, j, Len(p), Len(q), v)
  BY DEF Within
<1> QED
  BY <1>2, <1>3, <1>4

\* Some v parts the arrays at i and j, if that is not their beginning.
Cut(p, q, i, j) ==
  /\ i \in 0..Len(p) /\ j \in 0..Len(q)
  /\ i + j > 0 => \E v \in Int : Below(p, q, i, j, v) /\ Above(p, q, i, j, v)

\* The next element is the one of p.
Takes(p, q, i, j) == j = Len(q) \/ (i < Len(p) /\ p[i + 1] <= q[j + 1])

\* A merge step moves the cut, and the element it takes has the next rank.
Merges(p, q, t, i, j) ==
  IF Takes(p, q, i, j)
  THEN LET v == p[i + 1] IN
       /\ i + 1 \in 0..Len(p) /\ v \in Element /\ v \in Int /\ t[i + j + 1] = v
       /\ Below(p, q, i + 1, j, v) /\ Above(p, q, i + 1, j, v)
  ELSE LET v == q[j + 1] IN
       /\ j + 1 \in 0..Len(q) /\ v \in Element /\ v \in Int /\ t[i + j + 1] = v
       /\ Below(p, q, i, j + 1, v) /\ Above(p, q, i, j + 1, v)

\* The elements behind k are not less than the one at k.
LEMMA Onward ==
  ASSUME NEW p \in Seq(Element), Sorted(p), NEW i \in 0..Len(p) - 1
  PROVE  \A k \in i + 1..Len(p) : p[i + 1] <= p[k] /\ p[k] \in Int
<1>1. /\ Len(p) \in Nat /\ DOMAIN p = 1..Len(p)
      /\ \A k \in 1..Len(p) : p[k] \in Int
  BY Numbers
<1>2. \A k \in i + 1..Len(p) : k \in 1..Len(p) /\ (k = i + 1 \/ i + 1 < k)
  BY <1>1
<1>3. i + 1 \in 1..Len(p)
  BY <1>1
<1>4. p[i + 1] <= p[i + 1]
  BY <1>1, <1>3
<1> QED
  BY <1>1, <1>2, <1>3, <1>4 DEF Sorted

\* So it does.
LEMMA TakeStep ==
  ASSUME NEW p \in Seq(Element), NEW q \in Seq(Element), Sorted(p), Sorted(q), NEW t, Ranked(p, q, t),
         NEW i, NEW j, Cut(p, q, i, j), i + j < Len(p) + Len(q)
  PROVE  Merges(p, q, t, i, j)
<1>0. PICK m, n : m = Len(p) /\ n = Len(q)
  OBVIOUS
<1>1. /\ m \in Nat /\ n \in Nat /\ i \in 0..m /\ j \in 0..n /\ i + j < m + n
      /\ (\A k \in 1..m : p[k] \in Element /\ p[k] \in Int) /\ \A k \in 1..n : q[k] \in Element /\ q[k] \in Int
  BY <1>0, Numbers DEF Cut
<1>n. /\ m \in Int /\ n \in Int /\ i \in Int /\ j \in Int /\ 0 <= i /\ i <= m /\ 0 <= j /\ j <= n /\ i + j < m + n
  BY <1>1
<1>2. ASSUME NEW v \in Int, NEW x \in Int, Above(p, q, i, j, v),
             (i < m /\ x = p[i + 1]) \/ (j < n /\ x = q[j + 1])
      PROVE  v <= x
  <2>1. (i < m => i + 1 \in i + 1..m) /\ (j < n => j + 1 \in j + 1..n)
    BY <1>n
  <2> QED
    BY <2>1, <1>0, <1>2 DEF Above
<1>3. ASSUME NEW x \in Int, (i < m /\ x = p[i + 1]) \/ (j < n /\ x = q[j + 1])
      PROVE  Below(p, q, i, j, x)
  <2>a. (\A k \in 1..i : k \in 1..m) /\ \A k \in 1..j : k \in 1..n
    BY <1>n
  <2>1. CASE i + j > 0
    <3>1. PICK v \in Int : Below(p, q, i, j, v) /\ Above(p, q, i, j, v)
      BY <2>1 DEF Cut
    <3>2. v <= x
      BY <3>1, <1>2, <1>3
    <3>3. ASSUME NEW k \in 1..i PROVE p[k] <= x
      <4>1. p[k] <= v /\ p[k] \in Int
        BY <3>1, <2>a, <1>1 DEF Below
      <4> QED
        BY <4>1, <3>2
    <3>4. ASSUME NEW k \in 1..j PROVE q[k] <= x
      <4>1. q[k] <= v /\ q[k] \in Int
        BY <3>1, <2>a, <1>1 DEF Below
      <4> QED
        BY <4>1, <3>2
    <3> QED
      BY <3>3, <3>4 DEF Below
  <2>2. CASE ~ (i + j > 0)
    <3>1. 1..i = {} /\ 1..j = {}
      BY <2>2, <1>n
    <3> QED
      BY <3>1 DEF Below
  <2> QED
    BY <2>1, <2>2
<1>4. CASE Takes(p, q, i, j)
  <2> DEFINE v == p[i + 1]
  <2>1. i < m /\ i + 1 \in 0..m /\ i + 1 \in 1..m /\ i \in 0..m - 1
    <3>1. i < m
      BY <1>0, <1>4, <1>n DEF Takes
    <3> QED
      BY <3>1, <1>n
  <2>2. v \in Element /\ v \in Int
    BY <2>1, <1>1
  <2>3. \A k \in i + 1..m : v <= p[k]
    BY <1>0, <2>1, Onward
  <2>4. \A k \in j + 1..n : v <= q[k]
    <3>1. CASE j = n
      <4>1. j + 1..n = {}
        BY <3>1, <1>n
      <4> QED
        BY <4>1
    <3>2. CASE j # n
      <4>1. j \in 0..n - 1 /\ j + 1 \in 1..n
        BY <3>2, <1>n
      <4>2. v <= q[j + 1] /\ q[j + 1] \in Int
        BY <1>0, <1>1, <1>4, <3>2, <4>1 DEF Takes
      <4>3. \A k \in j + 1..n : q[j + 1] <= q[k] /\ q[k] \in Int
        BY <1>0, <4>1, Onward
      <4> QED
        BY <4>2, <4>3, <2>2
    <3> QED
      BY <3>1, <3>2
  <2>5. Below(p, q, i, j, v)
    BY <1>3, <2>1, <2>2
  <2>6. Above(p, q, i, j, v)
    BY <1>0, <2>3, <2>4 DEF Above
  <2>7. t[i + j + 1] = v
    <3>1. i + 1 \in i + 1..m
      BY <2>1
    <3>2. Within(p, q, i, j, m, n, v)
      BY <3>1 DEF Within
    <3> QED
      BY <1>0, <1>1, <2>2, <2>5, <2>6, <3>2 DEF Ranked
  <2>8. Below(p, q, i + 1, j, v)
    <3>1. \A k \in 1..i + 1 : k \in 1..i \/ k = i + 1
      BY <1>n
    <3>2. v <= v
      BY <2>2
    <3> QED
      BY <3>1, <3>2, <2>5 DEF Below
  <2>9. Above(p, q, i + 1, j, v)
    <3>1. \A k \in i + 1 + 1..m : k \in i + 1..m
      BY <1>n
    <3> QED
      BY <1>0, <3>1, <2>3, <2>4 DEF Above
  <2> QED
    BY <1>0, <1>4, <2>1, <2>2, <2>7, <2>8, <2>9 DEF Merges
<1>5. CASE ~ Takes(p, q, i, j)
  <2> DEFINE v == q[j + 1]
  <2>1. j < n /\ j + 1 \in 0..n /\ j + 1 \in 1..n /\ j \in 0..n - 1
    <3>1. j # n
      BY <1>0, <1>5 DEF Takes
    <3> QED
      BY <3>1, <1>n
  <2>2. v \in Element /\ v \in Int
    BY <2>1, <1>1
  <2>3. \A k \in j + 1..n : v <= q[k]
    BY <1>0, <2>1, Onward
  <2>4. \A k \in i + 1..m : v <= p[k]
    <3>1. CASE i = m
      <4>1. i + 1..m = {}
        BY <3>1, <1>n
      <4> QED
        BY <4>1
    <3>2. CASE i # m
      <4>1. i < m /\ i \in 0..m - 1 /\ i + 1 \in 1..m
        BY <3>2, <1>n
      <4>2. ~ (p[i + 1] <= v) /\ p[i + 1] \in Int
        BY <1>0, <1>1, <1>5, <4>1 DEF Takes
      <4>3. \A k \in i + 1..m : p[i + 1] <= p[k] /\ p[k] \in Int
        BY <1>0, <4>1, Onward
      <4> QED
        BY <4>2, <4>3, <2>2
    <3> QED
      BY <3>1, <3>2
  <2>5. Below(p, q, i, j, v)
    BY <1>3, <2>1, <2>2
  <2>6. Above(p, q, i, j, v)
    BY <1>0, <2>3, <2>4 DEF Above
  <2>7. t[i + j + 1] = v
    <3>1. j + 1 \in j + 1..n
      BY <2>1
    <3>2. Within(p, q, i, j, m, n, v)
      BY <3>1 DEF Within
    <3> QED
      BY <1>0, <1>1, <2>2, <2>5, <2>6, <3>2 DEF Ranked
  <2>8. Below(p, q, i, j + 1, v)
    <3>1. \A k \in 1..j + 1 : k \in 1..j \/ k = j + 1
      BY <1>n
    <3>2. v <= v
      BY <2>2
    <3> QED
      BY <3>1, <3>2, <2>5 DEF Below
  <2>9. Above(p, q, i, j + 1, v)
    <3>1. \A k \in j + 1 + 1..n : k \in j + 1..n
      BY <1>n
    <3> QED
      BY <1>0, <3>1, <2>3, <2>4 DEF Above
  <2> QED
    BY <1>0, <1>5, <2>1, <2>2, <2>7, <2>8, <2>9 DEF Merges
<1> QED
  BY <1>4, <1>5

-----------------------------------------------------------------------------
(* findMedianSortedArrays.                                                 *)

\* One turn of the loop of findMedianSortedArrays, all its turns, and its states: s is
\* the beginning of t.
StepMerge(p, q, w) ==
  IF w.i < Len(p) \/ w.j < Len(q)
  THEN IF Takes(p, q, w.i, w.j) THEN [w EXCEPT !.s = Append(w.s, At(p, w.i)), !.i = w.i + 1]
       ELSE [w EXCEPT !.s = Append(w.s, At(q, w.j)), !.j = w.j + 1]
  ELSE w
StartMerge == [s |-> <<>>, i |-> 0, j |-> 0]
LoopMerge(p, q) ==
  CHOOSE f : f = [k \in 0..Len(p) + Len(q) |-> IF k = 0 THEN StartMerge ELSE StepMerge(p, q, f[k - 1])]
StatesMerge(p, q, t) ==
  {w \in [s : Seq(Element), i : 0..Len(p), j : 0..Len(q)] :
     /\ Len(w.s) = w.i + w.j /\ Cut(p, q, w.i, w.j)
     /\ \A k \in 1..w.i + w.j : w.s[k] = t[k]}

\* A sequence that agrees with t still does with the next element.
LEMMA AgreeMore ==
  ASSUME NEW s \in Seq(Element), NEW d \in Nat, Len(s) = d, NEW t, \A k \in 1..d : s[k] = t[k],
         NEW x \in Element, t[d + 1] = x
  PROVE  LET r == Append(s, x) IN
         r \in Seq(Element) /\ Len(r) = d + 1 /\ \A k \in 1..d + 1 : r[k] = t[k]
<1>1. PICK r : r = Append(s, x)
  OBVIOUS
<1>2. r \in Seq(Element) /\ Len(r) = d + 1 /\ r[d + 1] = x /\ \A k \in 1..d : r[k] = s[k]
  BY <1>1
<1>3. \A k \in 1..d + 1 : k \in 1..d \/ k = d + 1
  OBVIOUS
<1> QED
  BY <1>1, <1>2, <1>3

\* A turn keeps to the states, and takes one element.
LEMMA TurnMerge ==
  ASSUME NEW p \in Seq(Element), NEW q \in Seq(Element), Sorted(p), Sorted(q), NEW t, Ranked(p, q, t),
         NEW w \in StatesMerge(p, q, t)
  PROVE  LET v == StepMerge(p, q, w) IN
         /\ v \in StatesMerge(p, q, t)
         /\ IF w.i < Len(p) \/ w.j < Len(q) THEN v.i + v.j = w.i + w.j + 1 ELSE v = w
<1> DEFINE v == StepMerge(p, q, w)
<1>0. PICK m, n, s, i, j : m = Len(p) /\ n = Len(q) /\ s = w.s /\ i = w.i /\ j = w.j
  OBVIOUS
<1>1. /\ m \in Nat /\ n \in Nat /\ s \in Seq(Element) /\ i \in 0..m /\ j \in 0..n
      /\ w = [s |-> s, i |-> i, j |-> j]
      /\ Len(s) = i + j /\ Cut(p, q, i, j) /\ \A k \in 1..i + j : s[k] = t[k]
  BY <1>0, Numbers DEF StatesMerge
<1>2. i \in Int /\ j \in Int /\ m \in Int /\ n \in Int /\ 0 <= i /\ 0 <= j /\ i <= m /\ j <= n
      /\ i + j \in Nat /\ (i + 1) + j = i + j + 1 /\ i + (j + 1) = i + j + 1
  BY <1>1
<1>3. ASSUME ~ (i < m \/ j < n) PROVE v = w
  BY <1>0, <1>3 DEF StepMerge
<1>4. ASSUME i < m \/ j < n, Takes(p, q, i, j)
      PROVE  v \in StatesMerge(p, q, t) /\ v.i + v.j = i + j + 1
  <2>1. PICK x, r : x = p[i + 1] /\ r = Append(s, x)
    OBVIOUS
  <2>2. i + j < m + n
    BY <1>2, <1>4
  <2>3. /\ i + 1 \in 0..m /\ x \in Element /\ x \in Int /\ t[i + j + 1] = x
        /\ Below(p, q, i + 1, j, x) /\ Above(p, q, i + 1, j, x)
    BY <2>1, <2>2, <1>0, <1>1, <1>4, TakeStep DEF Merges
  <2>4. Cut(p, q, i + 1, j)
    BY <2>3, <1>0, <1>1 DEF Cut
  <2>5. r \in Seq(Element) /\ Len(r) = i + j + 1 /\ \A k \in 1..i + j + 1 : r[k] = t[k]
    <3>1. PICK d \in Nat : d = i + j
      BY <1>2
    <3>2. Len(s) = d /\ (\A k \in 1..d : s[k] = t[k]) /\ t[d + 1] = x /\ x \in Element
      BY <3>1, <2>3, <1>1
    <3>3. r \in Seq(Element) /\ Len(r) = d + 1 /\ \A k \in 1..d + 1 : r[k] = t[k]
      BY <2>1, <3>2, <1>1, AgreeMore
    <3> QED
      BY <3>1, <3>3
  <2>6. v = [s |-> r, i |-> i + 1, j |-> j]
    BY <2>1, <1>0, <1>1, <1>4 DEF StepMerge, At
  <2> HIDE DEF v
  <2>7. v \in StatesMerge(p, q, t)
    <3>1. v.s = r /\ v.i = i + 1 /\ v.j = j
      BY <2>6
    <3>2. v \in [s : Seq(Element), i : 0..m, j : 0..n]
      BY <2>3, <2>5, <2>6, <1>1
    <3> QED
      BY <3>1, <3>2, <2>4, <2>5, <1>0, <1>2 DEF StatesMerge
  <2> QED
    BY <2>6, <2>7, <1>2
<1>5. ASSUME i < m \/ j < n, ~ Takes(p, q, i, j)
      PROVE  v \in StatesMerge(p, q, t) /\ v.i + v.j = i + j + 1
  <2>1. PICK x, r : x = q[j + 1] /\ r = Append(s, x)
    OBVIOUS
  <2>2. i + j < m + n
    BY <1>2, <1>5
  <2>3. /\ j + 1 \in 0..n /\ x \in Element /\ x \in Int /\ t[i + j + 1] = x
        /\ Below(p, q, i, j + 1, x) /\ Above(p, q, i, j + 1, x)
    BY <2>1, <2>2, <1>0, <1>1, <1>5, TakeStep DEF Merges
  <2>4. Cut(p, q, i, j + 1)
    BY <2>3, <1>0, <1>1 DEF Cut
  <2>5. r \in Seq(Element) /\ Len(r) = i + j + 1 /\ \A k \in 1..i + j + 1 : r[k] = t[k]
    <3>1. PICK d \in Nat : d = i + j
      BY <1>2
    <3>2. Len(s) = d /\ (\A k \in 1..d : s[k] = t[k]) /\ t[d + 1] = x /\ x \in Element
      BY <3>1, <2>3, <1>1
    <3>3. r \in Seq(Element) /\ Len(r) = d + 1 /\ \A k \in 1..d + 1 : r[k] = t[k]
      BY <2>1, <3>2, <1>1, AgreeMore
    <3> QED
      BY <3>1, <3>3
  <2>6. v = [s |-> r, i |-> i, j |-> j + 1]
    BY <2>1, <1>0, <1>1, <1>5 DEF StepMerge, At
  <2> HIDE DEF v
  <2>7. v \in StatesMerge(p, q, t)
    <3>1. v.s = r /\ v.i = i /\ v.j = j + 1
      BY <2>6
    <3>2. v \in [s : Seq(Element), i : 0..m, j : 0..n]
      BY <2>3, <2>5, <2>6, <1>1
    <3> QED
      BY <3>1, <3>2, <2>4, <2>5, <1>0, <1>2 DEF StatesMerge
  <2> QED
    BY <2>6, <2>7, <1>2
<1>6. v \in StatesMerge(p, q, t) /\ IF i < m \/ j < n THEN v.i + v.j = i + j + 1 ELSE v = w
  <2> HIDE DEF v
  <2> QED
    BY <1>3, <1>4, <1>5
<1> QED
  BY <1>0, <1>6

\* What the loop merges is t, so it returns the median of t.
LEMMA MergeMedian ==
  ASSUME NEW p \in Seq(Element), NEW q \in Seq(Element), Sorted(p), Sorted(q),
         NEW t \in Seq(Element), Len(t) = Len(p) + Len(q), Ranked(p, q, t)
  PROVE  findMedianSortedArrays(p, q) = calcMedian(t)
<1>0. PICK m, n, N : m = Len(p) /\ n = Len(q) /\ N = m + n
  OBVIOUS
<1> DEFINE w0 == StartMerge  g == LoopMerge(p, q)  D == StatesMerge(p, q, t)
           G == [w \in D |-> StepMerge(p, q, w)]  M == [w \in D |-> N - (w.i + w.j)]
<1>1. m \in Nat /\ n \in Nat /\ N \in Nat /\ Len(t) = N
  BY <1>0, Numbers
<1>2. w0 \in D
  <2>1. 0 \in 0..m /\ 0 \in 0..n /\ 0 + 0 = 0 /\ 1..0 = {} /\ <<>> \in Seq(Element) /\ Len(<<>>) = 0
    BY <1>1
  <2>2. Cut(p, q, 0, 0)
    BY <2>1, <1>0 DEF Cut
  <2> QED
    BY <2>1, <2>2, <1>0 DEF StartMerge, StatesMerge
<1>3. \A v \in D : v.i \in 0..m /\ v.j \in 0..n /\ v.i + v.j \in 0..N
  <2>1. \A v \in D : v.i \in 0..m /\ v.j \in 0..n
    BY <1>0 DEF StatesMerge
  <2>2. \A i \in 0..m, j \in 0..n : i + j \in 0..N
    BY <1>0, <1>1
  <2> HIDE DEF D
  <2> QED
    BY <2>1, <2>2
<1>4. \A v \in D : StepMerge(p, q, v) \in D
        /\ IF v.i < m \/ v.j < n THEN StepMerge(p, q, v).i + StepMerge(p, q, v).j = v.i + v.j + 1
           ELSE StepMerge(p, q, v) = v
  BY <1>0, TurnMerge
<1>5. G \in [D -> D] /\ M \in [D -> Nat] /\ M[w0] <= N /\ \A v \in D : G[v] = v \/ M[G[v]] < M[v]
  <2> HIDE DEF D
  <2>1. w0.i = 0 /\ w0.j = 0
    BY DEF StartMerge
  <2>2. M[w0] <= N
    <3> HIDE DEF w0
    <3> QED
      BY <1>1, <1>2, <2>1
  <2>3. \A v \in D : N - (v.i + v.j) \in Nat
    BY <1>1, <1>3
  <2>4. G \in [D -> D] /\ M \in [D -> Nat]
    BY <1>4, <2>3
  <2>5. ASSUME NEW v \in D PROVE G[v] = v \/ M[G[v]] < M[v]
    <3>1. PICK u : u = StepMerge(p, q, v)
      OBVIOUS
    <3>2. u \in D /\ IF v.i < m \/ v.j < n THEN u.i + u.j = v.i + v.j + 1 ELSE u = v
      BY <3>1, <1>4
    <3>3. u.i + u.j \in Int /\ v.i + v.j \in Int
      BY <3>2, <1>1, <1>3
    <3>4. M[u] = N - (u.i + u.j) /\ M[v] = N - (v.i + v.j) /\ G[v] = u
      BY <3>1, <3>2
    <3> HIDE DEF M, G
    <3> QED
      BY <3>2, <3>3, <3>4, <1>1
  <2> QED
    BY <2>2, <2>4, <2>5
<1>p. PICK f : EndsAs(N, D, G, w0, f)
  <2> HIDE DEF D, G, M, w0
  <2> QED
    BY <1>1, <1>2, <1>5, LoopRule
<1>6. /\ f \in [0..N -> D] /\ f[0] = w0 /\ \A d \in 1..N : f[d] = G[f[d - 1]]
      /\ f[N] \in D /\ G[f[N]] = f[N]
      /\ \A z : Follows(N, D, G, z) /\ z[0] = w0 => z[N] = f[N]
  BY <1>p DEF EndsAs
<1>7. g[N] = f[N]
  <2>1. f = [d \in 0..N |-> IF d = 0 THEN w0 ELSE StepMerge(p, q, f[d - 1])]
    <3>1. \A d \in 1..N : d - 1 \in 0..N
      BY <1>1
    <3>2. \A d \in 1..N : f[d] = StepMerge(p, q, f[d - 1])
      BY <1>6, <3>1
    <3> HIDE DEF D
    <3> QED
      BY <1>6, <3>2, <1>1
  <2>2. g = [d \in 0..N |-> IF d = 0 THEN w0 ELSE StepMerge(p, q, g[d - 1])]
    BY <2>1, <1>0 DEF LoopMerge
  <2>3. g[0] = w0 /\ \A d \in 1..N : g[d] = StepMerge(p, q, g[d - 1])
    BY <2>2, <1>1
  <2>4. Follows(N, D, G, g)
    BY <2>3 DEF Follows
  <2> HIDE DEF D, G, g
  <2> QED
    BY <1>6, <2>3, <2>4
<1>8. PICK v : v = f[N]
  OBVIOUS
<1>9. v \in D /\ StepMerge(p, q, v) = v
  BY <1>6, <1>8
<1>10. v.i = m /\ v.j = n
  <2>1. v.i \in 0..m /\ v.j \in 0..n /\ v.i + v.j \in 0..N
    BY <1>9, <1>3
  <2>2. v.i < m \/ v.j < n => v.i + v.j = v.i + v.j + 1
    <3> HIDE DEF D
    <3> QED
      BY <1>4, <1>9
  <2> QED
    BY <1>1, <2>1, <2>2
<1>11. findMedianSortedArrays(p, q) = calcMedian(v.s)
  <2>1. findMedianSortedArrays(p, q) = calcMedian(g[Len(p) + Len(q)].s)
    BY DEF findMedianSortedArrays, While, StepMerge, StartMerge, LoopMerge, Takes, At
  <2> HIDE DEF g
  <2> QED
    BY <2>1, <1>0, <1>7, <1>8
<1> HIDE DEF g, G, M, w0
<1>12. v.s = t
  <2>1. v.s \in Seq(Element) /\ Len(v.s) = v.i + v.j /\ \A k \in 1..v.i + v.j : v.s[k] = t[k]
    BY <1>9 DEF StatesMerge
  <2>2. v.i + v.j = N
    BY <1>0, <1>10
  <2> QED
    BY <2>1, <2>2, <1>1, SMTT(20)
<1> QED
  BY <1>11, <1>12

-----------------------------------------------------------------------------
(* The k-th of two arrays.                                                 *)

\* One of the elements right before places i of p and j of q, behind x and y, is v.
Ends(p, q, x, y, i, j, v) == (i > x /\ p[i] = v) \/ (j > y /\ q[j] = v)

\* v is the k-th of the elements behind x and y.
Kth(p, q, x, y, k, v) ==
  \E i \in x..Len(p), j \in y..Len(q) :
    i + j = x + y + k /\ Below(p, q, i, j, v) /\ Above(p, q, i, j, v) /\ Ends(p, q, x, y, i, j, v)

\* The cut after d elements, made by t[d] if there is one.
SplitAt(p, q, t, d) ==
  \E i \in 0..Len(p), j \in 0..Len(q) :
    /\ i + j = d /\ Cut(p, q, i, j)
    /\ d > 0 => /\ t[d] \in Int /\ Below(p, q, i, j, t[d]) /\ Above(p, q, i, j, t[d])
                /\ Ends(p, q, 0, 0, i, j, t[d])

\* After each number of elements there is a cut.
LEMMA SplitExists ==
  ASSUME NEW p \in Seq(Element), NEW q \in Seq(Element), Sorted(p), Sorted(q), NEW t, Ranked(p, q, t),
         NEW e \in 0..Len(p) + Len(q)
  PROVE  SplitAt(p, q, t, e)
<1>0. PICK m, n, N : m = Len(p) /\ n = Len(q) /\ N = m + n
  OBVIOUS
<1> DEFINE W == {d \in 0..N : ~ SplitAt(p, q, t, d)}
<1>1. m \in Nat /\ n \in Nat /\ N \in Nat
  BY <1>0, Numbers
<1>2. SUFFICES ASSUME W # {} PROVE FALSE
  BY <1>0
<1>3. W \subseteq 0..N
  OBVIOUS
<1> HIDE DEF W
<1>4. PICK d \in W : \A c \in W : d <= c
  BY <1>1, <1>2, <1>3, LeastNumber
<1>5. d \in 0..N /\ ~ SplitAt(p, q, t, d)
  BY DEF W
<1>6. CASE d = 0
  <2>1. 0 \in 0..m /\ 0 \in 0..n /\ 0 + 0 = 0 /\ ~ (0 > 0)
    BY <1>1
  <2>2. Cut(p, q, 0, 0)
    BY <2>1, <1>0 DEF Cut
  <2> QED
    BY <2>1, <2>2, <1>0, <1>5, <1>6 DEF SplitAt
<1>7. CASE d # 0
  <2>1. d - 1 \in 0..N /\ ~ (d <= d - 1)
    BY <1>1, <1>5, <1>7
  <2>2. SplitAt(p, q, t, d - 1)
    BY <2>1, <1>4 DEF W
  <2>3. PICK i \in 0..m, j \in 0..n : i + j = d - 1 /\ Cut(p, q, i, j)
    BY <2>2, <1>0 DEF SplitAt
  <2>4. /\ i + j < m + n /\ i + j + 1 = d /\ (i + 1) + j = d /\ i + (j + 1) = d /\ d > 0
        /\ i + 1 > 0 /\ j + 1 > 0
    BY <2>3, <1>0, <1>1, <1>5, <1>7
  <2>5. Merges(p, q, t, i, j)
    BY <2>3, <2>4, <1>0, TakeStep
  <2>6. CASE Takes(p, q, i, j)
    <3>1. PICK v : v = p[i + 1]
      OBVIOUS
    <3>2. i + 1 \in 0..m /\ v \in Int /\ t[d] = v /\ Below(p, q, i + 1, j, v) /\ Above(p, q, i + 1, j, v)
      BY <3>1, <2>4, <2>5, <2>6, <1>0 DEF Merges
    <3>3. Cut(p, q, i + 1, j) /\ Ends(p, q, 0, 0, i + 1, j, v)
      BY <3>1, <3>2, <2>3, <2>4, <1>0 DEF Cut, Ends
    <3> QED
      BY <3>2, <3>3, <2>3, <2>4, <1>0, <1>5 DEF SplitAt
  <2>7. CASE ~ Takes(p, q, i, j)
    <3>1. PICK v : v = q[j + 1]
      OBVIOUS
    <3>2. j + 1 \in 0..n /\ v \in Int /\ t[d] = v /\ Below(p, q, i, j + 1, v) /\ Above(p, q, i, j + 1, v)
      BY <3>1, <2>4, <2>5, <2>7, <1>0 DEF Merges
    <3>3. Cut(p, q, i, j + 1) /\ Ends(p, q, 0, 0, i, j + 1, v)
      BY <3>1, <3>2, <2>3, <2>4, <1>0 DEF Cut, Ends
    <3> QED
      BY <3>2, <3>3, <2>3, <2>4, <1>0, <1>5 DEF SplitAt
  <2> QED
    BY <2>6, <2>7
<1> QED
  BY <1>6, <1>7

\* So each element of t is the one at its rank.
LEMMA KthFirst ==
  ASSUME NEW p \in Seq(Element), NEW q \in Seq(Element), Sorted(p), Sorted(q), NEW t, Ranked(p, q, t),
         NEW k \in 1..Len(p) + Len(q)
  PROVE  t[k] \in Int /\ Kth(p, q, 0, 0, k, t[k])
<1>1. Len(p) \in Nat /\ Len(q) \in Nat
  BY Numbers
<1>2. k \in 0..Len(p) + Len(q) /\ k > 0 /\ 0 + 0 + k = k
  BY <1>1
<1>3. SplitAt(p, q, t, k)
  BY <1>2, SplitExists
<1> QED
  BY <1>2, <1>3 DEF SplitAt, Kth

\* The order of the arrays does not matter.
LEMMA KthSwap ==
  ASSUME NEW p, NEW q, NEW x \in Nat, NEW y \in Nat, NEW k, NEW v, Kth(p, q, x, y, k, v),
         Len(p) \in Nat, Len(q) \in Nat
  PROVE  Kth(q, p, y, x, k, v)
<1>1. PICK i \in x..Len(p), j \in y..Len(q) :
        i + j = x + y + k /\ Below(p, q, i, j, v) /\ Above(p, q, i, j, v) /\ Ends(p, q, x, y, i, j, v)
  BY DEF Kth
<1>2. Below(q, p, j, i, v) /\ Above(q, p, j, i, v) /\ Ends(q, p, y, x, j, i, v)
  BY <1>1 DEF Below, Above, Ends
<1>3. i + j = j + i /\ x + y = y + x
  BY <1>1
<1> QED
  BY <1>1, <1>2, <1>3 DEF Kth

\* A sorted array does not fall.
LEMMA Rises ==
  ASSUME NEW p \in Seq(Element), Sorted(p), NEW i \in 1..Len(p), NEW j \in 1..Len(p), i <= j
  PROVE  p[i] <= p[j] /\ p[i] \in Int /\ p[j] \in Int
<1>1. DOMAIN p = 1..Len(p) /\ p[i] \in Int /\ p[j] \in Int /\ Len(p) \in Nat
  BY Numbers
<1>2. CASE i = j
  BY <1>1, <1>2
<1>3. CASE i # j
  <2>1. i < j
    BY <1>1, <1>3
  <2> QED
    BY <2>1, <1>1 DEF Sorted
<1> QED
  BY <1>2, <1>3

\* Two elements that getKth compares: g is at most Len(p) and h at most Len(q), and
\* there are not more than k elements up to them.
Compared(p, q, x, y, k, g, h) ==
  /\ x \in Nat /\ y \in Nat /\ k \in Nat /\ g \in x + 1..Len(p) /\ h \in y + 1..Len(q)
  /\ (g - x) + (h - y) <= k

\* If the one of q is less, the elements up to it are not the k-th.
LEMMA KthDropsQ ==
  ASSUME NEW p \in Seq(Element), NEW q \in Seq(Element), NEW x, NEW y, NEW k, NEW v \in Int, Kth(p, q, x, y, k, v),
         NEW g, NEW h, Compared(p, q, x, y, k, g, h), p[g] > q[h]
  PROVE  Kth(p, q, x, h, k - (h - y), v)
<1>0. PICK m, n : m = Len(p) /\ n = Len(q)
  OBVIOUS
<1>1. /\ m \in Nat /\ n \in Nat /\ x \in Nat /\ y \in Nat /\ k \in Nat /\ g \in x + 1..m /\ h \in y + 1..n
      /\ (g - x) + (h - y) <= k
  BY <1>0, Numbers DEF Compared
<1>2. PICK i \in x..m, j \in y..n :
        i + j = x + y + k /\ Below(p, q, i, j, v) /\ Above(p, q, i, j, v) /\ Ends(p, q, x, y, i, j, v)
  BY <1>0 DEF Kth
<1>3. g \in 1..m /\ h \in 1..n
  BY <1>1
<1>4. p[g] \in Int /\ q[h] \in Int
  BY <1>0, <1>3, Numbers
<1>5. /\ x \in Int /\ y \in Int /\ k \in Int /\ g \in Int /\ h \in Int /\ i \in Int /\ j \in Int /\ m \in Int /\ n \in Int
      /\ x < g /\ g <= m /\ y < h /\ h <= n /\ x <= i /\ i <= m /\ y <= j /\ j <= n /\ (g - x) + (h - y) <= k
      /\ i + j = x + y + k /\ 0 <= x /\ 0 <= y
  BY <1>1, <1>2
<1>6. g <= i => p[g] <= v
  <2>1. g <= i => g \in 1..i
    BY <1>5
  <2> QED
    BY <2>1, <1>2 DEF Below
<1>7. h > j => v <= q[h]
  <2>1. h > j => h \in j + 1..n
    BY <1>5
  <2> QED
    BY <2>1, <1>0, <1>2 DEF Above
<1>8. h <= j
  <2>1. h > j => g <= i
    BY <1>5
  <2> QED
    BY <2>1, <1>4, <1>5, <1>6, <1>7
<1>9. j \in h..n /\ i + j = x + h + (k - (h - y))
  BY <1>5, <1>8
<1>10. Ends(p, q, x, h, i, j, v)
  <2>1. j = h => g <= i
    BY <1>5
  <2>2. j = h => q[j] # v
    BY <2>1, <1>4, <1>6
  <2>3. j = h \/ j > h
    BY <1>5, <1>8
  <2> QED
    BY <2>2, <2>3, <1>2 DEF Ends
<1> QED
  BY <1>0, <1>2, <1>9, <1>10 DEF Kth

\* If the one of p is not greater, the elements up to it can be left out.
LEMMA KthDropsP ==
  ASSUME NEW p \in Seq(Element), NEW q \in Seq(Element), Sorted(p), Sorted(q), NEW x, NEW y, NEW k,
         NEW v \in Int, Kth(p, q, x, y, k, v), NEW g, NEW h, Compared(p, q, x, y, k, g, h), p[g] <= q[h]
  PROVE  Kth(p, q, g, y, k - (g - x), v)
<1>0. PICK m, n : m = Len(p) /\ n = Len(q)
  OBVIOUS
<1>1. /\ m \in Nat /\ n \in Nat /\ x \in Nat /\ y \in Nat /\ k \in Nat /\ g \in x + 1..m /\ h \in y + 1..n
      /\ (g - x) + (h - y) <= k
  BY <1>0, Numbers DEF Compared
<1>2. PICK i \in x..m, j \in y..n :
        i + j = x + y + k /\ Below(p, q, i, j, v) /\ Above(p, q, i, j, v) /\ Ends(p, q, x, y, i, j, v)
  BY <1>0 DEF Kth
<1>3. g \in 1..m /\ h \in 1..n
  BY <1>1
<1>4. p[g] \in Int /\ q[h] \in Int
  BY <1>0, <1>3, Numbers
<1>5. /\ x \in Int /\ y \in Int /\ k \in Int /\ g \in Int /\ h \in Int /\ i \in Int /\ j \in Int /\ m \in Int /\ n \in Int
      /\ x < g /\ g <= m /\ y < h /\ h <= n /\ x <= i /\ i <= m /\ y <= j /\ j <= n /\ (g - x) + (h - y) <= k
      /\ i + j = x + y + k /\ 0 <= x /\ 0 <= y
  BY <1>1, <1>2
<1>6. \A l \in h..n : q[h] <= q[l] /\ q[l] \in Int
  <2> SUFFICES ASSUME NEW l \in h..n PROVE q[h] <= q[l] /\ q[l] \in Int
    OBVIOUS
  <2>1. l \in 1..n /\ h <= l
    BY <1>5
  <2> QED
    BY <2>1, <1>0, <1>3, Rises
<1>7. \A l \in 1..g : p[l] <= p[g] /\ p[l] \in Int
  <2> SUFFICES ASSUME NEW l \in 1..g PROVE p[l] <= p[g] /\ p[l] \in Int
    OBVIOUS
  <2>1. l \in 1..m /\ l <= g
    BY <1>5
  <2> QED
    BY <2>1, <1>0, <1>3, Rises
<1>8. CASE g <= i
  <2>1. i \in g..m /\ i + j = g + y + (k - (g - x))
    BY <1>5, <1>8
  <2>2. Ends(p, q, g, y, i, j, v)
    <3>1. CASE i = g /\ p[i] = v
      <4>1. h <= j /\ j > y /\ j \in 1..j /\ j \in h..n
        BY <3>1, <1>5
      <4>2. q[j] <= v
        BY <4>1, <1>2 DEF Below
      <4>3. q[h] <= q[j] /\ q[j] \in Int
        BY <4>1, <1>6
      <4>4. q[j] = v
        BY <4>2, <4>3, <3>1, <1>4
      <4> QED
        BY <4>1, <4>4 DEF Ends
    <3>2. CASE ~ (i = g /\ p[i] = v)
      <4>1. i = g \/ i > g
        BY <1>5, <1>8
      <4> QED
        BY <4>1, <3>2, <1>2 DEF Ends
    <3> QED
      BY <3>1, <3>2
  <2> QED
    BY <2>1, <2>2, <1>0, <1>2 DEF Kth
<1>9. CASE ~ (g <= i)
  <2>1. PICK f : f = j - (g - i)
    OBVIOUS
  <2>2. /\ f \in Int /\ h <= f /\ f <= j /\ h <= j /\ y < f /\ g + f = g + y + (k - (g - x))
        /\ g \in i + 1..m /\ h \in 1..j /\ f \in y..n /\ g \in g..m /\ f \in h..n /\ f \in 1..j
    BY <2>1, <1>5, <1>9
  <2>3. q[h] <= v /\ v <= p[g]
    BY <2>2, <1>0, <1>2 DEF Below, Above
  <2>4. p[g] = v /\ q[h] = v
    BY <2>3, <1>4
  <2>5. Below(p, q, g, f, v)
    <3>1. \A l \in 1..g : p[l] <= v
      BY <2>4, <1>7
    <3>2. \A l \in 1..f : l \in 1..j
      BY <2>2, <1>5
    <3> QED
      BY <3>1, <3>2, <1>2 DEF Below
  <2>6. Above(p, q, g, f, v)
    <3>1. \A l \in g + 1..m : l \in i + 1..m
      BY <1>5, <1>9
    <3>2. \A l \in f + 1..n : l \in h..n
      BY <2>2, <1>5
    <3>3. \A l \in f + 1..n : v <= q[l]
      BY <3>2, <2>4, <1>6
    <3> QED
      BY <3>1, <3>3, <1>0, <1>2 DEF Above
  <2>7. Ends(p, q, g, y, g, f, v)
    <3>1. q[f] <= v
      BY <2>2, <1>2 DEF Below
    <3>2. q[h] <= q[f] /\ q[f] \in Int
      BY <2>2, <1>6
    <3>3. q[f] = v
      BY <3>1, <3>2, <2>4
    <3>4. f > y
      BY <2>2, <1>5
    <3> QED
      BY <3>3, <3>4 DEF Ends
  <2> QED
    BY <2>2, <2>5, <2>6, <2>7, <1>0 DEF Kth
<1> QED
  BY <1>8, <1>9

\* Without elements of p, the k-th one is in q.
LEMMA KthLast ==
  ASSUME NEW p \in Seq(Element), NEW q \in Seq(Element), NEW x, NEW y \in 0..Len(q), NEW k \in Nat, NEW v \in Int,
         Kth(p, q, x, y, k, v), x = Len(p)
  PROVE  q[y + k] = v
<1>0. Len(p) \in Nat /\ Len(q) \in Nat
  BY Numbers
<1>1. PICK i \in x..Len(p), j \in y..Len(q) : i + j = x + y + k /\ Ends(p, q, x, y, i, j, v)
  BY DEF Kth
<1>2. ~ (i > x) /\ j = y + k
  BY <1>0, <1>1
<1> QED
  BY <1>1, <1>2 DEF Ends

\* The lesser of two numbers.
LEMMA MinOfTwo ==
  ASSUME NEW x \in Int, NEW y \in Int
  PROVE  Min({x, y}) = IF x <= y THEN x ELSE y
<1>1. PICK m \in {x, y} : \A k \in {x, y} : m <= k
  OBVIOUS
<1>2. Min({x, y}) \in {x, y} /\ \A k \in {x, y} : Min({x, y}) <= k
  BY <1>1 DEF Min
<1> QED
  BY <1>2

\* With elements in both, the first one is the lesser of their first ones.
LEMMA KthOne ==
  ASSUME NEW p \in Seq(Element), NEW q \in Seq(Element), NEW x \in 0..Len(p) - 1, NEW y \in 0..Len(q) - 1,
         NEW v \in Int, Kth(p, q, x, y, 1, v)
  PROVE  Min({p[x + 1], q[y + 1]}) = v
<1>0. PICK m, n : m = Len(p) /\ n = Len(q)
  OBVIOUS
<1>1. m \in Nat /\ n \in Nat /\ x \in 0..m - 1 /\ y \in 0..n - 1 /\ x + 1 \in 1..m /\ y + 1 \in 1..n
  BY <1>0, Numbers
<1>2. PICK i \in x..m, j \in y..n : i + j = x + y + 1 /\ Above(p, q, i, j, v) /\ Ends(p, q, x, y, i, j, v)
  BY <1>0 DEF Kth
<1>3. p[x + 1] \in Int /\ q[y + 1] \in Int
  BY <1>0, <1>1, Numbers
<1>4. (i = x + 1 /\ j = y) \/ (i = x /\ j = y + 1)
  BY <1>1, <1>2
<1>5. CASE i = x + 1 /\ j = y
  <2>1. ~ (j > y) /\ y + 1 \in j + 1..n
    BY <1>1, <1>5
  <2>2. p[x + 1] = v /\ v <= q[y + 1]
    BY <2>1, <1>0, <1>2, <1>5 DEF Ends, Above
  <2> QED
    BY <2>2, <1>3, MinOfTwo
<1>6. CASE i = x /\ j = y + 1
  <2>1. ~ (i > x) /\ x + 1 \in i + 1..m
    BY <1>1, <1>6
  <2>2. q[y + 1] = v /\ v <= p[x + 1]
    BY <2>1, <1>0, <1>2, <1>6 DEF Ends, Above
  <2> QED
    BY <2>2, <1>3, MinOfTwo
<1> QED
  BY <1>4, <1>5, <1>6

-----------------------------------------------------------------------------
(* findMedianSortedArraysEx2.                                              *)

\* One turn of getKth, all its turns, and its states: v is the k-th of what is left.
HalfKth(w, len) == (IF len < w.k \div 2 THEN len ELSE w.k \div 2) - 1
LenP(w) == w.end1 - w.start1 + 1
LenQ(w) == w.end2 - w.start2 + 1
SwapKth(w) ==
  [p |-> w.q, start1 |-> w.start2, end1 |-> w.end2,
   q |-> w.p, start2 |-> w.start1, end2 |-> w.end1, k |-> w.k]
CallKth(w) ==
  LET i == w.start1 + HalfKth(w, LenP(w))  j == w.start2 + HalfKth(w, LenQ(w)) IN
  IF LenP(w) > LenQ(w) THEN SwapKth(w)
  ELSE IF At(w.p, i) > At(w.q, j)
       THEN [w EXCEPT !.start2 = j + 1, !.k = w.k - (j - w.start2 + 1)]
       ELSE [w EXCEPT !.start1 = i + 1, !.k = w.k - (i - w.start1 + 1)]
StepKth(w) == IF LenP(w) > LenQ(w) \/ (LenP(w) # 0 /\ w.k # 1) THEN CallKth(w) ELSE w
StartKth(p, q, k) ==
  [p |-> p, start1 |-> 0, end1 |-> Len(p) - 1, q |-> q, start2 |-> 0, end2 |-> Len(q) - 1, k |-> k]
LoopKth(p, q, k) ==
  CHOOSE f : f = [d \in 0..2 * (Len(p) + Len(q)) |-> IF d = 0 THEN StartKth(p, q, k) ELSE StepKth(f[d - 1])]
SortedArrays == {p \in Seq(Element) : Sorted(p)}
StatesKth(k0, v) ==
  {w \in [p : SortedArrays, start1 : Nat, end1 : Int, q : SortedArrays, start2 : Nat, end2 : Int, k : 1..k0] :
     /\ w.end1 = Len(w.p) - 1 /\ w.end2 = Len(w.q) - 1
     /\ w.start1 <= Len(w.p) /\ w.start2 <= Len(w.q)
     /\ Kth(w.p, w.q, w.start1, w.start2, w.k, v)}

\* How far a state is from the end: every call halves k, or is the one before that.
RankKth(w) == 2 * (w.k - 1) + (IF LenP(w) > LenQ(w) THEN 1 ELSE 0)

\* What the elements of StatesKth are, for the provers.
LEMMA StatesKthAre ==
  ASSUME NEW k0 \in Nat, NEW v, NEW p, NEW q, NEW x, NEW y, NEW k
  PROVE  [p |-> p, start1 |-> x, end1 |-> Len(p) - 1, q |-> q, start2 |-> y, end2 |-> Len(q) - 1, k |-> k]
           \in StatesKth(k0, v)
         <=> /\ p \in SortedArrays /\ q \in SortedArrays /\ x \in 0..Len(p) /\ y \in 0..Len(q) /\ k \in 1..k0
             /\ Kth(p, q, x, y, k, v)
<1> DEFINE w == [p |-> p, start1 |-> x, end1 |-> Len(p) - 1, q |-> q, start2 |-> y, end2 |-> Len(q) - 1, k |-> k]
<1>1. /\ w.p = p /\ w.q = q /\ w.start1 = x /\ w.start2 = y /\ w.end1 = Len(p) - 1 /\ w.end2 = Len(q) - 1
      /\ w.k = k
  OBVIOUS
<1>2. w \in StatesKth(k0, v) <=>
        /\ w \in [p : SortedArrays, start1 : Nat, end1 : Int, q : SortedArrays, start2 : Nat, end2 : Int, k : 1..k0]
        /\ x <= Len(p) /\ y <= Len(q) /\ Kth(p, q, x, y, k, v)
  <2> HIDE DEF w
  <2> QED
    BY <1>1 DEF StatesKth
<1>3. p \in SortedArrays => Len(p) \in Nat /\ Len(p) - 1 \in Int
  BY DEF SortedArrays
<1>4. q \in SortedArrays => Len(q) \in Nat /\ Len(q) - 1 \in Int
  BY DEF SortedArrays
<1>5. w \in [p : SortedArrays, start1 : Nat, end1 : Int, q : SortedArrays, start2 : Nat, end2 : Int, k : 1..k0]
      <=> p \in SortedArrays /\ q \in SortedArrays /\ x \in Nat /\ y \in Nat /\ k \in 1..k0
  BY <1>3, <1>4
<1>6. p \in SortedArrays => (x \in 0..Len(p) <=> x \in Nat /\ x <= Len(p))
  BY <1>3
<1>7. q \in SortedArrays => (y \in 0..Len(q) <=> y \in Nat /\ y <= Len(q))
  BY <1>4
<1> HIDE DEF w
<1>8. w \in StatesKth(k0, v) <=>
        /\ p \in SortedArrays /\ q \in SortedArrays /\ x \in 0..Len(p) /\ y \in 0..Len(q) /\ k \in 1..k0
        /\ Kth(p, q, x, y, k, v)
  BY <1>2, <1>5, <1>6, <1>7
<1> QED
  BY <1>8 DEF w

\* Any state, taken apart.
LEMMA StatesKthParts ==
  ASSUME NEW k0 \in Nat, NEW v, NEW w \in StatesKth(k0, v)
  PROVE  /\ w = [p |-> w.p, start1 |-> w.start1, end1 |-> Len(w.p) - 1,
                 q |-> w.q, start2 |-> w.start2, end2 |-> Len(w.q) - 1, k |-> w.k]
         /\ w.p \in Seq(Element) /\ w.q \in Seq(Element) /\ Sorted(w.p) /\ Sorted(w.q)
         /\ Len(w.p) \in Nat /\ Len(w.q) \in Nat
         /\ w.start1 \in 0..Len(w.p) /\ w.start2 \in 0..Len(w.q) /\ w.k \in 1..k0
         /\ LenP(w) = Len(w.p) - w.start1 /\ LenQ(w) = Len(w.q) - w.start2
         /\ Kth(w.p, w.q, w.start1, w.start2, w.k, v)
<1>1. /\ w \in [p : SortedArrays, start1 : Nat, end1 : Int, q : SortedArrays, start2 : Nat, end2 : Int, k : 1..k0]
      /\ w.end1 = Len(w.p) - 1 /\ w.end2 = Len(w.q) - 1
      /\ w.start1 <= Len(w.p) /\ w.start2 <= Len(w.q)
      /\ Kth(w.p, w.q, w.start1, w.start2, w.k, v)
  BY DEF StatesKth
<1>2. w.p \in SortedArrays /\ w.q \in SortedArrays /\ w.start1 \in Nat /\ w.start2 \in Nat /\ w.k \in 1..k0
  BY <1>1
<1>3. w.p \in Seq(Element) /\ w.q \in Seq(Element) /\ Sorted(w.p) /\ Sorted(w.q)
  BY <1>2 DEF SortedArrays
<1>4. Len(w.p) \in Nat /\ Len(w.q) \in Nat
  BY <1>3
<1>5. w = [p |-> w.p, start1 |-> w.start1, end1 |-> Len(w.p) - 1,
           q |-> w.q, start2 |-> w.start2, end2 |-> Len(w.q) - 1, k |-> w.k]
  BY <1>1
<1>6. LenP(w) = Len(w.p) - w.start1 /\ LenQ(w) = Len(w.q) - w.start2
  BY <1>1, <1>2, <1>4, SMTT(20) DEF LenP, LenQ
<1>7. w.start1 \in 0..Len(w.p) /\ w.start2 \in 0..Len(w.q)
  BY <1>1, <1>2, <1>4
<1> QED
  BY <1>1, <1>2, <1>3, <1>4, <1>5, <1>6, <1>7

\* A turn keeps to the states, and comes closer to the end.
LEMMA TurnKth ==
  ASSUME NEW k0 \in Nat, NEW v \in Int, NEW w \in StatesKth(k0, v)
  PROVE  LET u == StepKth(w) IN
         /\ u \in StatesKth(k0, v)
         /\ IF LenP(w) > LenQ(w) \/ (LenP(w) # 0 /\ w.k # 1) THEN RankKth(u) < RankKth(w) ELSE u = w
<1> DEFINE u == StepKth(w)
<1>0. PICK p, q, x, y, k, m, n : /\ p = w.p /\ q = w.q /\ x = w.start1 /\ y = w.start2 /\ k = w.k
                                 /\ m = Len(p) /\ n = Len(q)
  OBVIOUS
<1>1. /\ w = [p |-> p, start1 |-> x, end1 |-> m - 1, q |-> q, start2 |-> y, end2 |-> n - 1, k |-> k]
      /\ p \in Seq(Element) /\ q \in Seq(Element) /\ Sorted(p) /\ Sorted(q) /\ m \in Nat /\ n \in Nat
      /\ x \in 0..m /\ y \in 0..n /\ k \in 1..k0 /\ LenP(w) = m - x /\ LenQ(w) = n - y
      /\ Kth(p, q, x, y, k, v)
  BY <1>0, StatesKthParts
<1>2. p \in SortedArrays /\ q \in SortedArrays
  BY <1>1 DEF SortedArrays
<1>3. /\ m \in Int /\ n \in Int /\ x \in Int /\ y \in Int /\ k \in Int /\ 0 <= x /\ x <= m /\ 0 <= y /\ y <= n
      /\ 1 <= k /\ k <= k0
  BY <1>1
<1>4. CASE m - x > n - y
  <2>1. u = SwapKth(w)
    BY <1>1, <1>4 DEF StepKth, CallKth
  <2>2. u = [p |-> q, start1 |-> y, end1 |-> n - 1, q |-> p, start2 |-> x, end2 |-> m - 1, k |-> k]
    BY <2>1, <1>1 DEF SwapKth
  <2> HIDE DEF u
  <2>3. Kth(q, p, y, x, k, v)
    <3>1. x \in Nat /\ y \in Nat
      BY <1>3
    <3> QED
      BY <3>1, <1>0, <1>1, KthSwap
  <2>4. u \in StatesKth(k0, v)
    BY <2>2, <2>3, <1>0, <1>1, <1>2, StatesKthAre
  <2>5. LenP(u) = n - y /\ LenQ(u) = m - x /\ u.k = k
    BY <2>2, <1>3 DEF LenP, LenQ
  <2>6. RankKth(u) = 2 * (k - 1) /\ RankKth(w) = 2 * (k - 1) + 1
    <3>1. ~ (n - y > m - x)
      BY <1>3, <1>4
    <3>2. RankKth(u) = 2 * (k - 1) + 0
      BY <2>5, <3>1 DEF RankKth
    <3>3. RankKth(w) = 2 * (k - 1) + 1
      BY <1>0, <1>1, <1>4 DEF RankKth
    <3> QED
      BY <3>2, <3>3, <1>3
  <2>7. RankKth(u) < RankKth(w)
    BY <2>6, <1>3
  <2> QED
    BY <2>4, <2>7, <1>1, <1>4 DEF u
<1>5. CASE ~ (m - x > n - y) /\ m - x # 0 /\ k # 1
  <2>1. PICK c, g, h : /\ c = k \div 2
                       /\ g = x + (IF m - x < c THEN m - x ELSE c)
                       /\ h = y + (IF n - y < c THEN n - y ELSE c)
    OBVIOUS
  <2>2. c \in Int /\ 1 <= c /\ c + c <= k
    BY <2>1, <1>3, <1>5
  <2>3. /\ g \in Int /\ h \in Int /\ x < g /\ g <= m /\ y < h /\ h <= n /\ g - x <= c /\ h - y <= c
    BY <2>1, <2>2, <1>3, <1>5
  <2>4. Compared(p, q, x, y, k, g, h)
    <3>1. (g - x) + (h - y) <= k
      BY <2>2, <2>3, <1>3
    <3> QED
      BY <3>1, <2>3, <1>0, <1>3, SMTT(30) DEF Compared
  <2>5. x + HalfKth(w, LenP(w)) = g - 1 /\ y + HalfKth(w, LenQ(w)) = h - 1
    <3>1. HalfKth(w, LenP(w)) = (IF m - x < c THEN m - x ELSE c) - 1
      BY <2>1, <1>0, <1>1 DEF HalfKth
    <3>2. HalfKth(w, LenQ(w)) = (IF n - y < c THEN n - y ELSE c) - 1
      BY <2>1, <1>0, <1>1 DEF HalfKth
    <3> QED
      BY <3>1, <3>2, <2>1, <2>2, <1>3
  <2>6. At(p, g - 1) = p[g] /\ At(q, h - 1) = q[h]
    <3>1. g - 1 + 1 = g /\ h - 1 + 1 = h
      BY <2>3
    <3> QED
      BY <3>1 DEF At
  <2>7. u = IF p[g] > q[h] THEN [w EXCEPT !.start2 = h - 1 + 1, !.k = k - (h - 1 - y + 1)]
            ELSE [w EXCEPT !.start1 = g - 1 + 1, !.k = k - (g - 1 - x + 1)]
    <3>1. u = CallKth(w)
      BY <1>0, <1>1, <1>5 DEF StepKth
    <3> HIDE DEF u
    <3> QED
      BY <3>1, <2>5, <2>6, <1>0, <1>1, <1>5 DEF CallKth
  <2> HIDE DEF u
  <2>8. h - 1 + 1 = h /\ h - 1 - y + 1 = h - y /\ g - 1 + 1 = g /\ g - 1 - x + 1 = g - x
    BY <2>3, <1>3
  <2>9. g \in 0..m /\ h \in 0..n /\ k - (h - y) \in 1..k0 /\ k - (g - x) \in 1..k0
    BY <2>2, <2>3, <1>3
  <2>10. p[g] \in Int /\ q[h] \in Int
    <3>1. g \in 1..m /\ h \in 1..n
      BY <2>3, <1>3
    <3> QED
      BY <3>1, <1>0, <1>1, Numbers
  <2>11. u \in StatesKth(k0, v) /\ u.k \in Int /\ u.k <= k - 1
    <3>1. CASE p[g] > q[h]
      <4>1. Kth(p, q, x, h, k - (h - y), v)
        BY <2>4, <3>1, <1>1, KthDropsQ
      <4>2. u = [p |-> p, start1 |-> x, end1 |-> m - 1, q |-> q, start2 |-> h, end2 |-> n - 1, k |-> k - (h - y)]
        BY <2>7, <2>8, <3>1, <1>1
      <4>3. u \in StatesKth(k0, v)
        BY <4>1, <4>2, <2>9, <1>0, <1>1, <1>2, StatesKthAre
      <4>4. k - (h - y) \in Int /\ k - (h - y) <= k - 1
        BY <2>3, <1>3
      <4> QED
        BY <4>2, <4>3, <4>4
    <3>2. CASE ~ (p[g] > q[h])
      <4>1. p[g] <= q[h]
        BY <2>10, <3>2
      <4>2. Kth(p, q, g, y, k - (g - x), v)
        BY <2>4, <4>1, <1>1, KthDropsP
      <4>3. u = [p |-> p, start1 |-> g, end1 |-> m - 1, q |-> q, start2 |-> y, end2 |-> n - 1, k |-> k - (g - x)]
        BY <2>7, <2>8, <3>2, <1>1
      <4>4. u \in StatesKth(k0, v)
        BY <4>2, <4>3, <2>9, <1>0, <1>1, <1>2, StatesKthAre
      <4>5. k - (g - x) \in Int /\ k - (g - x) <= k - 1
        BY <2>3, <1>3
      <4> QED
        BY <4>3, <4>4, <4>5
    <3> QED
      BY <3>1, <3>2
  <2>12. RankKth(u) < RankKth(w)
    <3>1. PICK e \in {0, 1} : RankKth(u) = 2 * (u.k - 1) + e
      BY DEF RankKth
    <3>2. RankKth(w) = 2 * (k - 1)
      BY <1>0, <1>1, <1>3, <1>5 DEF RankKth
    <3> QED
      BY <3>1, <3>2, <2>11, <1>3
  <2> QED
    BY <2>11, <2>12, <1>0, <1>1, <1>5 DEF u
<1>6. CASE ~ (m - x > n - y) /\ ~ (m - x # 0 /\ k # 1)
  <2>1. u = w
    BY <1>0, <1>1, <1>6 DEF StepKth
  <2> QED
    BY <2>1, <1>0, <1>1, <1>6
<1> QED
  BY <1>4, <1>5, <1>6

\* getKth finds what the ranks say.
LEMMA getKthIs ==
  ASSUME NEW p0 \in Seq(Element), NEW q0 \in Seq(Element), Sorted(p0), Sorted(q0),
         NEW k0 \in 1..Len(p0) + Len(q0), NEW v \in Int, Kth(p0, q0, 0, 0, k0, v)
  PROVE  getKth(p0, q0, k0) = v
<1>0. PICK m, n, N : m = Len(p0) /\ n = Len(q0) /\ N = 2 * (m + n)
  OBVIOUS
<1> DEFINE w0 == StartKth(p0, q0, k0)  g == LoopKth(p0, q0, k0)  D == StatesKth(k0, v)
           G == [w \in D |-> StepKth(w)]  M == [w \in D |-> RankKth(w)]
<1>1. m \in Nat /\ n \in Nat /\ N \in Nat /\ k0 \in 1..m + n /\ k0 \in Nat
  BY <1>0, Numbers
<1>2. w0 \in D
  <2>1. 0 \in 0..Len(p0) /\ 0 \in 0..Len(q0) /\ k0 \in 1..k0
    BY <1>0, <1>1
  <2>2. p0 \in SortedArrays /\ q0 \in SortedArrays
    BY DEF SortedArrays
  <2> QED
    BY <1>1, <2>1, <2>2, StatesKthAre DEF StartKth
<1>3. \A w \in D : RankKth(w) \in 0..N
  <2> SUFFICES ASSUME NEW w \in D PROVE RankKth(w) \in 0..N
    OBVIOUS
  <2>1. w.k \in 1..k0
    BY <1>1, StatesKthParts
  <2>2. PICK e \in {0, 1} : RankKth(w) = 2 * (w.k - 1) + e
    BY DEF RankKth
  <2> HIDE DEF D
  <2> QED
    BY <2>1, <2>2, <1>0, <1>1, SMTT(20)
<1>4. \A w \in D : StepKth(w) \in D
        /\ IF LenP(w) > LenQ(w) \/ (LenP(w) # 0 /\ w.k # 1) THEN RankKth(StepKth(w)) < RankKth(w)
           ELSE StepKth(w) = w
  BY <1>1, TurnKth
<1>5. G \in [D -> D] /\ M \in [D -> Nat] /\ M[w0] <= N /\ \A w \in D : G[w] = w \/ M[G[w]] < M[w]
  <2> HIDE DEF D, w0
  <2>1. \A w \in D : RankKth(w) \in Nat /\ RankKth(w) <= N
    BY <1>1, <1>3
  <2> QED
    BY <2>1, <1>2, <1>4
<1>p. PICK f : EndsAs(N, D, G, w0, f)
  <2> HIDE DEF D, G, M, w0
  <2> QED
    BY <1>1, <1>2, <1>5, LoopRule
<1>6. /\ f \in [0..N -> D] /\ f[0] = w0 /\ \A d \in 1..N : f[d] = G[f[d - 1]]
      /\ f[N] \in D /\ G[f[N]] = f[N]
      /\ \A z : Follows(N, D, G, z) /\ z[0] = w0 => z[N] = f[N]
  BY <1>p DEF EndsAs
<1>7. g[N] = f[N]
  <2>1. f = [d \in 0..N |-> IF d = 0 THEN w0 ELSE StepKth(f[d - 1])]
    <3>1. \A d \in 1..N : d - 1 \in 0..N
      BY <1>1
    <3>2. \A d \in 1..N : f[d] = StepKth(f[d - 1])
      BY <1>6, <3>1
    <3> HIDE DEF D
    <3> QED
      BY <1>6, <3>2, <1>1
  <2>2. g = [d \in 0..N |-> IF d = 0 THEN w0 ELSE StepKth(g[d - 1])]
    BY <2>1, <1>0 DEF LoopKth
  <2>3. g[0] = w0 /\ \A d \in 1..N : g[d] = StepKth(g[d - 1])
    BY <2>2, <1>1
  <2>4. Follows(N, D, G, g)
    BY <2>3 DEF Follows
  <2> HIDE DEF D, G, g
  <2> QED
    BY <1>6, <2>3, <2>4
<1>8. PICK w : w = f[N]
  OBVIOUS
<1>9. w \in D /\ StepKth(w) = w
  BY <1>6, <1>8
<1>10. ~ (LenP(w) > LenQ(w)) /\ (LenP(w) = 0 \/ w.k = 1)
  <2>1. RankKth(w) \in Int
    BY <1>1, <1>3, <1>9
  <2>2. ~ (RankKth(w) < RankKth(w))
    BY <2>1
  <2> HIDE DEF D
  <2> QED
    BY <2>2, <1>4, <1>9
<1>11. getKth(p0, q0, k0) = IF LenP(w) = 0 THEN At(w.q, w.start2 + w.k - 1)
                            ELSE Min({At(w.p, w.start1), At(w.q, w.start2)})
  <2>1. getKth(p0, q0, k0) =
          LET z == g[2 * (Len(p0) + Len(q0))]
          IN IF LenP(z) = 0 THEN At(z.q, z.start2 + z.k - 1) ELSE Min({At(z.p, z.start1), At(z.q, z.start2)})
    BY DEF getKth, While, StepKth, StartKth, LoopKth, CallKth, SwapKth, HalfKth, LenP, LenQ
  <2> HIDE DEF g
  <2> QED
    BY <2>1, <1>0, <1>7, <1>8
<1> HIDE DEF g, G, M, w0
<1>12. /\ w.p \in Seq(Element) /\ w.q \in Seq(Element) /\ Len(w.p) \in Nat /\ Len(w.q) \in Nat
       /\ w.start1 \in 0..Len(w.p) /\ w.start2 \in 0..Len(w.q) /\ w.k \in 1..k0
       /\ LenP(w) = Len(w.p) - w.start1 /\ LenQ(w) = Len(w.q) - w.start2
       /\ Kth(w.p, w.q, w.start1, w.start2, w.k, v)
  BY <1>1, <1>9, StatesKthParts
<1> HIDE DEF D
<1>13. CASE LenP(w) = 0
  <2>1. w.start1 = Len(w.p) /\ w.k \in Nat /\ w.start2 + w.k - 1 + 1 = w.start2 + w.k
    BY <1>1, <1>12, <1>13, SMTT(20)
  <2>2. w.q[w.start2 + w.k] = v
    <3>1. /\ w.p \in Seq(Element) /\ w.q \in Seq(Element) /\ w.start2 \in 0..Len(w.q)
          /\ Kth(w.p, w.q, w.start1, w.start2, w.k, v)
      BY <1>12
    <3> QED
      BY <2>1, <3>1, KthLast
  <2> QED
    BY <2>1, <2>2, <1>11, <1>13 DEF At
<1>14. CASE LenP(w) # 0
  <2>1. w.k = 1 /\ w.start1 \in 0..Len(w.p) - 1 /\ w.start2 \in 0..Len(w.q) - 1
    BY <1>10, <1>12, <1>14, SMTT(20)
  <2>2. Min({w.p[w.start1 + 1], w.q[w.start2 + 1]}) = v
    BY <2>1, <1>12, KthOne
  <2> QED
    BY <2>2, <1>11, <1>14 DEF At
<1> QED
  BY <1>13, <1>14

\* Which of the ranks the median is made of.
LEMMA MedianRanks ==
  ASSUME NEW t \in Seq(Element), NEW N \in Nat \ {0}, Len(t) = N
  PROVE  /\ (N + 1) \div 2 \in 1..N /\ (N + 2) \div 2 \in 1..N
         /\ calcMedian(t) = t[(N + 1) \div 2] + t[(N + 2) \div 2]
<1>1. PICK x : x = N \div 2
  OBVIOUS
<1>2. x \in Nat /\ (N = 2 * x \/ N = 2 * x + 1)
  BY <1>1
<1>3. CASE N = 2 * x
  <2>1. (N + 1) \div 2 = x /\ (N + 2) \div 2 = x + 1 /\ x > 0 /\ N % 2 = 0 /\ x - 1 + 1 = x /\ x \in Int
    BY <1>2, <1>3
  <2>2. t[x] \in Int /\ t[x + 1] \in Int
    <3>1. x \in 1..N /\ x + 1 \in 1..N
      BY <2>1, <1>3
    <3> QED
      BY <3>1, Numbers
  <2>3. calcMedian(t) = t[x + 1] + t[x]
    BY <2>1, <1>1 DEF calcMedian, At
  <2> QED
    BY <2>1, <2>2, <2>3, <1>3
<1>4. CASE N = 2 * x + 1
  <2>1. (N + 1) \div 2 = x + 1 /\ (N + 2) \div 2 = x + 1 /\ N % 2 # 0 /\ x + 1 \in 1..N
    BY <1>2, <1>4
  <2>2. t[x + 1] \in Int
    BY <2>1, Numbers
  <2>3. calcMedian(t) = 2 * t[x + 1]
    BY <2>1, <1>1 DEF calcMedian, At
  <2> QED
    BY <2>1, <2>2, <2>3
<1> QED
  BY <1>2, <1>3, <1>4

\* So the two searches for the middle ranks give the median.
LEMMA KthMedian ==
  ASSUME NEW p \in Seq(Element), NEW q \in Seq(Element), Sorted(p), Sorted(q),
         NEW t \in Seq(Element), Len(t) = Len(p) + Len(q), Len(t) # 0, Ranked(p, q, t)
  PROVE  findMedianSortedArraysEx2(p, q) = calcMedian(t)
<1>1. PICK N \in Nat \ {0} : N = Len(p) + Len(q)
  BY Numbers
<1>2. (N + 1) \div 2 \in 1..N /\ (N + 2) \div 2 \in 1..N
      /\ calcMedian(t) = t[(N + 1) \div 2] + t[(N + 2) \div 2]
  BY <1>1, MedianRanks
<1>3. ASSUME NEW k \in 1..N PROVE getKth(p, q, k) = t[k]
  <2>1. t[k] \in Int /\ Kth(p, q, 0, 0, k, t[k])
    BY <1>1, KthFirst
  <2> QED
    BY <2>1, <1>1, getKthIs
<1>4. findMedianSortedArraysEx2(p, q) = getKth(p, q, (N + 1) \div 2) + getKth(p, q, (N + 2) \div 2)
  BY <1>1 DEF findMedianSortedArraysEx2
<1> QED
  BY <1>2, <1>3, <1>4

-----------------------------------------------------------------------------
(* test4.                                                                  *)

\* The place in the longer array that test4 cuts for place i in the shorter one, p.
Other4(p, q, i) == (Len(p) + Len(q) + 1) \div 2 - i

\* The elements before a cut, and those behind it.
Lefts(p, q, i, j) == {p[k] : k \in 1..i} \cup {q[k] : k \in 1..j}
Rights(p, q, i, j) == {p[k] : k \in i + 1..Len(p)} \cup {q[k] : k \in j + 1..Len(q)}

\* What test4 looks at to see whether the cut is too low, or too high, in p.
Forward4(p, q, i, j) == j # 0 /\ i # Len(p) /\ At(q, j - 1) > At(p, i)
Backward4(p, q, i, j) == i # 0 /\ j # Len(q) /\ At(p, i - 1) > At(q, j)

\* One turn of test4, all its turns, and its states: a right cut is between l and r.
Step4(p, q, w) ==
  IF w.l <= w.r /\ (\/ Forward4(p, q, Middle(w), Other4(p, q, Middle(w)))
                    \/ Backward4(p, q, Middle(w), Other4(p, q, Middle(w))))
  THEN IF Forward4(p, q, Middle(w), Other4(p, q, Middle(w))) THEN [w EXCEPT !.l = Middle(w) + 1]
       ELSE [w EXCEPT !.r = Middle(w) - 1]
  ELSE w
Start4(p) == [l |-> 0, r |-> Len(p)]
Loop4(p, q) ==
  CHOOSE f : f = [k \in 0..Len(p) + 1 |-> IF k = 0 THEN Start4(p) ELSE Step4(p, q, f[k - 1])]
States4(p, e) == {w \in [l : 0..Len(p), r : 0..Len(p)] : w.l <= e /\ e <= w.r}

\* e and f are a right cut, made by v.
RightCut(p, q, e, f, v) ==
  /\ e \in 0..Len(p) /\ f \in 0..Len(q) /\ e + f = (Len(p) + Len(q) + 1) \div 2 /\ v \in Int
  /\ Below(p, q, e, f, v) /\ Above(p, q, e, f, v)

\* The shorter array is short enough: every place in it has one in the other array.
LEMMA Other4Is ==
  ASSUME NEW p \in Seq(Element), NEW q \in Seq(Element), Len(p) <= Len(q), NEW i \in 0..Len(p)
  PROVE  Other4(p, q, i) \in 0..Len(q) /\ i + Other4(p, q, i) = (Len(p) + Len(q) + 1) \div 2
<1>1. PICK m, n, h : m = Len(p) /\ n = Len(q) /\ h = (m + n + 1) \div 2
  OBVIOUS
<1>2. m \in Nat /\ n \in Nat /\ m <= n /\ i \in 0..m
  BY <1>1
<1>3. h \in Nat /\ m <= h /\ h <= n
  BY <1>1, <1>2
<1>4. h - i \in 0..n /\ i + (h - i) = h
  BY <1>2, <1>3
<1> QED
  BY <1>1, <1>4 DEF Other4

\* A cut that is too low is below the right one, and one that is too high above it.
LEMMA Direction ==
  ASSUME NEW p \in Seq(Element), NEW q \in Seq(Element), NEW e, NEW f, NEW v, RightCut(p, q, e, f, v),
         NEW i \in 0..Len(p), NEW j \in 0..Len(q), i + j = (Len(p) + Len(q) + 1) \div 2
  PROVE  /\ Forward4(p, q, i, j) => i + 1 <= e
         /\ Backward4(p, q, i, j) => e <= i - 1
<1>0. PICK m, n : m = Len(p) /\ n = Len(q)
  OBVIOUS
<1>1. /\ m \in Nat /\ n \in Nat /\ i \in 0..m /\ j \in 0..n /\ e \in 0..m /\ f \in 0..n
      /\ e + f = i + j /\ v \in Int
      /\ (\A k \in 1..m : p[k] \in Int) /\ \A k \in 1..n : q[k] \in Int
  BY <1>0, Numbers DEF RightCut
<1>2. /\ m \in Int /\ n \in Int /\ i \in Int /\ j \in Int /\ e \in Int /\ f \in Int
      /\ 0 <= i /\ i <= m /\ 0 <= j /\ j <= n /\ 0 <= e /\ e <= m /\ 0 <= f /\ f <= n /\ e + f = i + j
  BY <1>1
<1>3. /\ (\A k \in 1..e : p[k] <= v) /\ (\A k \in 1..f : q[k] <= v)
      /\ (\A k \in e + 1..m : v <= p[k]) /\ \A k \in f + 1..n : v <= q[k]
  BY <1>0 DEF RightCut, Below, Above
<1>4. At(q, j - 1) = q[j] /\ At(p, i) = p[i + 1] /\ At(p, i - 1) = p[i] /\ At(q, j) = q[j + 1]
  <2>1. j - 1 + 1 = j /\ i - 1 + 1 = i
    BY <1>2
  <2> QED
    BY <2>1 DEF At
<1>5. ASSUME Forward4(p, q, i, j), ~ (i + 1 <= e) PROVE FALSE
  <2>1. j # 0 /\ i # m /\ q[j] > p[i + 1]
    BY <1>0, <1>4, <1>5 DEF Forward4
  <2>2. j \in 1..f /\ i + 1 \in e + 1..m /\ i + 1 \in 1..m /\ j \in 1..n
    BY <2>1, <1>2, <1>5
  <2>3. q[j] <= v /\ v <= p[i + 1] /\ q[j] \in Int /\ p[i + 1] \in Int
    BY <2>2, <1>1, <1>3
  <2> QED
    BY <2>1, <2>3, <1>1
<1>6. ASSUME Backward4(p, q, i, j), ~ (e <= i - 1) PROVE FALSE
  <2>1. i # 0 /\ j # n /\ p[i] > q[j + 1]
    BY <1>0, <1>4, <1>6 DEF Backward4
  <2>2. i \in 1..e /\ j + 1 \in f + 1..n /\ i \in 1..m /\ j + 1 \in 1..n
    BY <2>1, <1>2, <1>6
  <2>3. p[i] <= v /\ v <= q[j + 1] /\ p[i] \in Int /\ q[j + 1] \in Int
    BY <2>2, <1>1, <1>3
  <2> QED
    BY <2>1, <2>3, <1>1
<1> QED
  BY <1>5, <1>6

\* At a cut that is neither, no element before it is greater than one behind it.
LEMMA Crossing ==
  ASSUME NEW p \in Seq(Element), NEW q \in Seq(Element), Sorted(p), Sorted(q),
         NEW i \in 0..Len(p), NEW j \in 0..Len(q), ~ Forward4(p, q, i, j), ~ Backward4(p, q, i, j)
  PROVE  /\ \A x \in Lefts(p, q, i, j), y \in Rights(p, q, i, j) : x <= y
         /\ Lefts(p, q, i, j) \subseteq Int /\ Rights(p, q, i, j) \subseteq Int
<1>0. PICK m, n : m = Len(p) /\ n = Len(q)
  OBVIOUS
<1>1. /\ m \in Nat /\ n \in Nat /\ i \in 0..m /\ j \in 0..n
      /\ (\A k \in 1..m : p[k] \in Int) /\ \A k \in 1..n : q[k] \in Int
  BY <1>0, Numbers
<1>2. m \in Int /\ n \in Int /\ i \in Int /\ j \in Int /\ 0 <= i /\ i <= m /\ 0 <= j /\ j <= n
  BY <1>1
<1>3. At(q, j - 1) = q[j] /\ At(p, i) = p[i + 1] /\ At(p, i - 1) = p[i] /\ At(q, j) = q[j + 1]
  <2>1. j - 1 + 1 = j /\ i - 1 + 1 = i
    BY <1>2
  <2> QED
    BY <2>1 DEF At
<1>4. j # 0 /\ i # m => q[j] <= p[i + 1]
  <2>1. j # 0 /\ i # m => j \in 1..n /\ i + 1 \in 1..m
    BY <1>2
  <2>2. j # 0 /\ i # m => ~ (q[j] > p[i + 1])
    BY <1>0, <1>3 DEF Forward4
  <2> QED
    BY <2>1, <2>2, <1>1
<1>5. i # 0 /\ j # n => p[i] <= q[j + 1]
  <2>1. i # 0 /\ j # n => i \in 1..m /\ j + 1 \in 1..n
    BY <1>2
  <2>2. i # 0 /\ j # n => ~ (p[i] > q[j + 1])
    BY <1>0, <1>3 DEF Backward4
  <2> QED
    BY <2>1, <2>2, <1>1
<1>6. \A k \in 1..i : k \in 1..m /\ p[k] \in Int /\ i # 0 /\ i \in 1..m /\ p[i] \in Int /\ p[k] <= p[i]
  <2> SUFFICES ASSUME NEW k \in 1..i
               PROVE  k \in 1..m /\ p[k] \in Int /\ i # 0 /\ i \in 1..m /\ p[i] \in Int /\ p[k] <= p[i]
    OBVIOUS
  <2>1. k \in 1..m /\ i \in 1..m /\ k <= i /\ i # 0
    BY <1>2
  <2> QED
    BY <2>1, <1>0, Rises
<1>7. \A k \in 1..j : k \in 1..n /\ q[k] \in Int /\ j # 0 /\ j \in 1..n /\ q[j] \in Int /\ q[k] <= q[j]
  <2> SUFFICES ASSUME NEW k \in 1..j
               PROVE  k \in 1..n /\ q[k] \in Int /\ j # 0 /\ j \in 1..n /\ q[j] \in Int /\ q[k] <= q[j]
    OBVIOUS
  <2>1. k \in 1..n /\ j \in 1..n /\ k <= j /\ j # 0
    BY <1>2
  <2> QED
    BY <2>1, <1>0, Rises
<1>8. \A l \in i + 1..m : l \in 1..m /\ p[l] \in Int /\ i # m /\ p[i + 1] \in Int /\ p[i + 1] <= p[l]
                          /\ \A k \in 1..i : p[k] <= p[l]
  <2> SUFFICES ASSUME NEW l \in i + 1..m
               PROVE  l \in 1..m /\ p[l] \in Int /\ i # m /\ p[i + 1] \in Int /\ p[i + 1] <= p[l]
                      /\ \A k \in 1..i : p[k] <= p[l]
    OBVIOUS
  <2>1. l \in 1..m /\ i + 1 \in 1..m /\ i + 1 <= l /\ i # m
    BY <1>2
  <2>2. ASSUME NEW k \in 1..i PROVE p[k] <= p[l]
    <3>1. k \in 1..m /\ k <= l
      BY <2>1, <1>2
    <3> QED
      BY <2>1, <3>1, <1>0, Rises
  <2> QED
    BY <2>1, <2>2, <1>0, Rises
<1>9. \A l \in j + 1..n : l \in 1..n /\ q[l] \in Int /\ j # n /\ q[j + 1] \in Int /\ q[j + 1] <= q[l]
                          /\ \A k \in 1..j : q[k] <= q[l]
  <2> SUFFICES ASSUME NEW l \in j + 1..n
               PROVE  l \in 1..n /\ q[l] \in Int /\ j # n /\ q[j + 1] \in Int /\ q[j + 1] <= q[l]
                      /\ \A k \in 1..j : q[k] <= q[l]
    OBVIOUS
  <2>1. l \in 1..n /\ j + 1 \in 1..n /\ j + 1 <= l /\ j # n
    BY <1>2
  <2>2. ASSUME NEW k \in 1..j PROVE q[k] <= q[l]
    <3>1. k \in 1..n /\ k <= l
      BY <2>1, <1>2
    <3> QED
      BY <2>1, <3>1, <1>0, Rises
  <2> QED
    BY <2>1, <2>2, <1>0, Rises
<1>10. ASSUME NEW k \in 1..i, NEW l \in j + 1..n PROVE p[k] <= q[l]
  <2>1. p[k] \in Int /\ i # 0 /\ p[i] \in Int /\ p[k] <= p[i]
    BY <1>6
  <2>2. q[l] \in Int /\ j # n /\ q[j + 1] \in Int /\ q[j + 1] <= q[l]
    BY <1>9
  <2> QED
    BY <2>1, <2>2, <1>5
<1>11. ASSUME NEW k \in 1..j, NEW l \in i + 1..m PROVE q[k] <= p[l]
  <2>1. q[k] \in Int /\ j # 0 /\ q[j] \in Int /\ q[k] <= q[j]
    BY <1>7
  <2>2. p[l] \in Int /\ i # m /\ p[i + 1] \in Int /\ p[i + 1] <= p[l]
    BY <1>8
  <2> QED
    BY <2>1, <2>2, <1>4
<1>12. ASSUME NEW x \in Lefts(p, q, i, j), NEW y \in Rights(p, q, i, j) PROVE x <= y
  <2>1. (\E k \in 1..i : x = p[k]) \/ \E k \in 1..j : x = q[k]
    BY DEF Lefts
  <2>2. (\E l \in i + 1..m : y = p[l]) \/ \E l \in j + 1..n : y = q[l]
    BY <1>0 DEF Rights
  <2> QED
    BY <2>1, <2>2, <1>8, <1>9, <1>10, <1>11
<1>13. Lefts(p, q, i, j) \subseteq Int
  BY <1>6, <1>7 DEF Lefts
<1>14. Rights(p, q, i, j) \subseteq Int
  BY <1>0, <1>8, <1>9 DEF Rights
<1> QED
  BY <1>12, <1>13, <1>14

\* Halves gives the two sides.
LEMMA HalvesAre ==
  ASSUME NEW p \in Seq(Element), NEW q \in Seq(Element), NEW i \in 0..Len(p), NEW j \in 0..Len(q)
  PROVE  Halves(p, q, i, j).left = Lefts(p, q, i, j) /\ Halves(p, q, i, j).right = Rights(p, q, i, j)
<1> DEFINE Shifted(s, x, y) == {At(s, k) : k \in x..y - 1} = {s[k] : k \in x + 1..y}
<1>1. Len(p) \in Nat /\ Len(q) \in Nat
  BY Numbers
<1>2. ASSUME NEW s, NEW x \in Int, NEW y \in Int PROVE Shifted(s, x, y)
  <2>1. ASSUME NEW k \in x..y - 1 PROVE k + 1 \in x + 1..y
    OBVIOUS
  <2>2. ASSUME NEW k \in x + 1..y PROVE k - 1 \in x..y - 1 /\ k - 1 + 1 = k
    OBVIOUS
  <2>3. {At(s, k) : k \in x..y - 1} \subseteq {s[k] : k \in x + 1..y}
    BY <2>1 DEF At
  <2>4. {s[k] : k \in x + 1..y} \subseteq {At(s, k) : k \in x..y - 1}
    BY <2>2 DEF At
  <2> QED
    BY <2>3, <2>4
<1>3. 0 + 1 = 1 /\ 0 \in Int /\ i \in Int /\ j \in Int /\ Len(p) \in Int /\ Len(q) \in Int
  BY <1>1
<1>s. Shifted(p, 0, i) /\ Shifted(q, 0, j) /\ Shifted(p, i, Len(p)) /\ Shifted(q, j, Len(q))
  <2> HIDE DEF Shifted
  <2> QED
    BY <1>2, <1>3
<1>4. /\ {At(p, k) : k \in 0..i - 1} = {p[k] : k \in 0 + 1..i}
      /\ {At(q, k) : k \in 0..j - 1} = {q[k] : k \in 0 + 1..j}
      /\ {At(p, k) : k \in i..Len(p) - 1} = {p[k] : k \in i + 1..Len(p)}
      /\ {At(q, k) : k \in j..Len(q) - 1} = {q[k] : k \in j + 1..Len(q)}
  BY <1>s
<1> QED
  BY <1>3, <1>4 DEF Halves, Lefts, Rights

\* The elements before a cut have a greatest one.
LEMMA LeftsMax ==
  ASSUME NEW p \in Seq(Element), NEW q \in Seq(Element), Sorted(p), Sorted(q),
         NEW i \in 0..Len(p), NEW j \in 0..Len(q), i + j > 0
  PROVE  LET S == Lefts(p, q, i, j) IN Max(S) \in S /\ \A x \in S : x <= Max(S)
<1>0. PICK m, n, S : m = Len(p) /\ n = Len(q) /\ S = Lefts(p, q, i, j)
  OBVIOUS
<1>1. m \in Nat /\ n \in Nat /\ i \in 0..m /\ j \in 0..n
  BY <1>0, Numbers
<1>2. ASSUME NEW k \in 1..i PROVE i \in 1..i /\ p[i] \in S /\ p[k] <= p[i] /\ p[k] \in Int /\ p[i] \in Int
  <2>1. k \in 1..m /\ i \in 1..m /\ k <= i /\ i \in 1..i
    BY <1>1
  <2> QED
    BY <2>1, <1>0, Rises DEF Lefts
<1>3. ASSUME NEW k \in 1..j PROVE j \in 1..j /\ q[j] \in S /\ q[k] <= q[j] /\ q[k] \in Int /\ q[j] \in Int
  <2>1. k \in 1..n /\ j \in 1..n /\ k <= j /\ j \in 1..j
    BY <1>1
  <2> QED
    BY <2>1, <1>0, Rises DEF Lefts
<1>4. \A x \in S : x \in Int /\ ((i \in 1..i /\ x <= p[i]) \/ (j \in 1..j /\ x <= q[j]))
  <2> SUFFICES ASSUME NEW x \in S PROVE x \in Int /\ ((i \in 1..i /\ x <= p[i]) \/ (j \in 1..j /\ x <= q[j]))
    OBVIOUS
  <2>1. (\E k \in 1..i : x = p[k]) \/ \E k \in 1..j : x = q[k]
    BY <1>0 DEF Lefts
  <2> QED
    BY <2>1, <1>2, <1>3
<1>5. \E e \in S : \A x \in S : x <= e
  <2>1. CASE ~ (i \in 1..i)
    <3>1. j \in 1..j
      BY <2>1, <1>1
    <3> QED
      BY <2>1, <3>1, <1>3, <1>4
  <2>2. CASE ~ (j \in 1..j)
    <3>1. i \in 1..i
      BY <2>2, <1>1
    <3> QED
      BY <2>2, <3>1, <1>2, <1>4
  <2>3. CASE i \in 1..i /\ j \in 1..j
    <3>1. p[i] \in S /\ p[i] \in Int /\ q[j] \in S /\ q[j] \in Int
      BY <2>3, <1>2, <1>3
    <3>2. CASE p[i] <= q[j]
      <4>1. \A x \in S : x <= q[j]
        BY <3>1, <3>2, <1>4
      <4> QED
        BY <3>1, <4>1
    <3>3. CASE ~ (p[i] <= q[j])
      <4>1. \A x \in S : x <= p[i]
        BY <3>1, <3>3, <1>4
      <4> QED
        BY <3>1, <4>1
    <3> QED
      BY <3>2, <3>3
  <2> QED
    BY <2>1, <2>2, <2>3
<1>6. Max(S) \in S /\ \A x \in S : Max(S) >= x
  <2>1. \E e \in S : \A x \in S : e >= x
    BY <1>4, <1>5
  <2> QED
    BY <2>1 DEF Max
<1> QED
  BY <1>0, <1>4, <1>6

\* The elements behind a cut have a least one.
LEMMA RightsMin ==
  ASSUME NEW p \in Seq(Element), NEW q \in Seq(Element), Sorted(p), Sorted(q),
         NEW i \in 0..Len(p), NEW j \in 0..Len(q), i + j < Len(p) + Len(q)
  PROVE  LET S == Rights(p, q, i, j) IN Min(S) \in S /\ \A x \in S : Min(S) <= x
<1>0. PICK m, n, S : m = Len(p) /\ n = Len(q) /\ S = Rights(p, q, i, j)
  OBVIOUS
<1>1. m \in Nat /\ n \in Nat /\ i \in 0..m /\ j \in 0..n /\ i + j < m + n
  BY <1>0, Numbers
<1>2. ASSUME NEW k \in i + 1..m
      PROVE  i < m /\ p[i + 1] \in S /\ p[i + 1] <= p[k] /\ p[k] \in Int /\ p[i + 1] \in Int
  <2>1. k \in 1..m /\ i + 1 \in 1..m /\ i + 1 <= k /\ i + 1 \in i + 1..m /\ i < m
    BY <1>1
  <2> QED
    BY <2>1, <1>0, Rises DEF Rights
<1>3. ASSUME NEW k \in j + 1..n
      PROVE  j < n /\ q[j + 1] \in S /\ q[j + 1] <= q[k] /\ q[k] \in Int /\ q[j + 1] \in Int
  <2>1. k \in 1..n /\ j + 1 \in 1..n /\ j + 1 <= k /\ j + 1 \in j + 1..n /\ j < n
    BY <1>1
  <2> QED
    BY <2>1, <1>0, Rises DEF Rights
<1>4. \A x \in S : x \in Int /\ ((i < m /\ p[i + 1] <= x) \/ (j < n /\ q[j + 1] <= x))
  <2> SUFFICES ASSUME NEW x \in S PROVE x \in Int /\ ((i < m /\ p[i + 1] <= x) \/ (j < n /\ q[j + 1] <= x))
    OBVIOUS
  <2>1. (\E k \in i + 1..m : x = p[k]) \/ \E k \in j + 1..n : x = q[k]
    BY <1>0 DEF Rights
  <2> QED
    BY <2>1, <1>2, <1>3
<1>a. (i < m => i + 1 \in i + 1..m) /\ (j < n => j + 1 \in j + 1..n)
  BY <1>1
<1>5. \E e \in S : \A x \in S : e <= x
  <2>1. CASE ~ (i < m)
    <3>1. j < n
      BY <2>1, <1>1
    <3> QED
      BY <2>1, <3>1, <1>a, <1>3, <1>4
  <2>2. CASE ~ (j < n)
    <3>1. i < m
      BY <2>2, <1>1
    <3> QED
      BY <2>2, <3>1, <1>a, <1>2, <1>4
  <2>3. CASE i < m /\ j < n
    <3>1. p[i + 1] \in S /\ p[i + 1] \in Int /\ q[j + 1] \in S /\ q[j + 1] \in Int
      BY <2>3, <1>a, <1>2, <1>3
    <3>2. CASE p[i + 1] <= q[j + 1]
      <4>1. \A x \in S : p[i + 1] <= x
        BY <3>1, <3>2, <1>4
      <4> QED
        BY <3>1, <4>1
    <3>3. CASE ~ (p[i + 1] <= q[j + 1])
      <4>1. \A x \in S : q[j + 1] <= x
        BY <3>1, <3>3, <1>4
      <4> QED
        BY <3>1, <4>1
    <3> QED
      BY <3>2, <3>3
  <2> QED
    BY <2>1, <2>2, <2>3
<1>6. Min(S) \in S /\ \A x \in S : Min(S) <= x
  BY <1>5 DEF Min
<1> QED
  BY <1>0, <1>6

\* They have the ranks at the cut.
LEMMA CutRanks ==
  ASSUME NEW p \in Seq(Element), NEW q \in Seq(Element), Sorted(p), Sorted(q), NEW t, Ranked(p, q, t),
         NEW i \in 0..Len(p), NEW j \in 0..Len(q), ~ Forward4(p, q, i, j), ~ Backward4(p, q, i, j), i + j > 0
  PROVE  /\ Max(Lefts(p, q, i, j)) = t[i + j]
         /\ i + j < Len(p) + Len(q) => Min(Rights(p, q, i, j)) = t[i + j + 1]
<1>0. PICK L, R : L = Lefts(p, q, i, j) /\ R = Rights(p, q, i, j)
  OBVIOUS
<1>1. (\A x \in L, y \in R : x <= y) /\ L \subseteq Int /\ R \subseteq Int
  BY <1>0, Crossing
<1>2. /\ (\A k \in 1..i : p[k] \in L) /\ (\A k \in 1..j : q[k] \in L)
      /\ (\A k \in i + 1..Len(p) : p[k] \in R) /\ \A k \in j + 1..Len(q) : q[k] \in R
  BY <1>0 DEF Lefts, Rights
<1>3. Max(L) = t[i + j]
  <2>1. PICK x : x = Max(L)
    OBVIOUS
  <2>2. x \in L /\ \A y \in L : y <= x
    BY <2>1, <1>0, LeftsMax
  <2>3. Below(p, q, i, j, x) /\ Above(p, q, i, j, x) /\ x \in Int
    BY <2>2, <1>1, <1>2 DEF Below, Above
  <2>4. Within(p, q, 0, 0, i, j, x)
    <3>1. 0 + 1 = 1
      OBVIOUS
    <3> QED
      BY <2>2, <3>1, <1>0 DEF Within, Lefts
  <2> QED
    BY <2>1, <2>3, <2>4 DEF Ranked
<1>4. ASSUME i + j < Len(p) + Len(q) PROVE Min(R) = t[i + j + 1]
  <2>1. PICK x : x = Min(R)
    OBVIOUS
  <2>2. x \in R /\ \A y \in R : x <= y
    BY <2>1, <1>0, <1>4, RightsMin
  <2>3. Below(p, q, i, j, x) /\ Above(p, q, i, j, x) /\ x \in Int
    BY <2>2, <1>1, <1>2 DEF Below, Above
  <2>4. Within(p, q, i, j, Len(p), Len(q), x)
    BY <2>2, <1>0 DEF Within, Rights
  <2> QED
    BY <2>1, <2>3, <2>4 DEF Ranked
<1> QED
  BY <1>0, <1>3, <1>4

\* A turn of test4 keeps the right cut, and brings the two ends closer.
LEMMA Turn4 ==
  ASSUME NEW p \in Seq(Element), NEW q \in Seq(Element), Len(p) <= Len(q),
         NEW e, NEW f, NEW v, RightCut(p, q, e, f, v), NEW w \in States4(p, e)
  PROVE  LET u == Step4(p, q, w)  i == Middle(w)  j == Other4(p, q, i) IN
         /\ i \in 0..Len(p)
         /\ u \in States4(p, e)
         /\ IF Forward4(p, q, i, j) \/ Backward4(p, q, i, j) THEN u.r - u.l < w.r - w.l ELSE u = w
<1> DEFINE u == Step4(p, q, w)
<1>0. PICK m, n, i, j, l, r : /\ m = Len(p) /\ n = Len(q) /\ i = Middle(w) /\ j = Other4(p, q, i)
                              /\ l = w.l /\ r = w.r
  OBVIOUS
<1>1. /\ m \in Nat /\ n \in Nat /\ l \in 0..m /\ r \in 0..m /\ l <= e /\ e <= r /\ e \in 0..m
      /\ w = [l |-> l, r |-> r]
  BY <1>0, Numbers DEF States4, RightCut
<1>2. i \in Int /\ l <= i /\ i <= r /\ l \in Int /\ r \in Int /\ e \in Int /\ 0 <= l /\ r <= m /\ m \in Int
  BY <1>0, <1>1, SMTT(30) DEF Middle
<1>3. i \in 0..m /\ l <= r
  BY <1>1, <1>2
<1>4. j \in 0..n /\ i + j = (Len(p) + Len(q) + 1) \div 2
  BY <1>0, <1>3, Other4Is
<1>5. (Forward4(p, q, i, j) => i + 1 <= e) /\ (Backward4(p, q, i, j) => e <= i - 1)
  BY <1>0, <1>3, <1>4, Direction
<1>6. CASE Forward4(p, q, i, j)
  <2>1. u = [l |-> i + 1, r |-> r]
    BY <1>0, <1>1, <1>3, <1>6 DEF Step4
  <2>2. i + 1 \in 0..m /\ i + 1 <= e /\ r - (i + 1) < r - l
    BY <1>1, <1>2, <1>5, <1>6
  <2>3. u \in States4(p, e)
    BY <2>1, <2>2, <1>0, <1>1 DEF States4
  <2> QED
    BY <2>1, <2>2, <2>3, <1>0, <1>3, <1>6
<1>7. CASE ~ Forward4(p, q, i, j) /\ Backward4(p, q, i, j)
  <2>1. u = [l |-> l, r |-> i - 1]
    BY <1>0, <1>1, <1>3, <1>7 DEF Step4
  <2>2. i - 1 \in 0..m /\ e <= i - 1 /\ (i - 1) - l < r - l
    BY <1>1, <1>2, <1>5, <1>7
  <2>3. u \in States4(p, e)
    BY <2>1, <2>2, <1>0, <1>1 DEF States4
  <2> QED
    BY <2>1, <2>2, <2>3, <1>0, <1>3, <1>7
<1>8. CASE ~ Forward4(p, q, i, j) /\ ~ Backward4(p, q, i, j)
  <2>1. u = w
    BY <1>0, <1>8 DEF Step4
  <2> QED
    BY <2>1, <1>0, <1>3, <1>8
<1> QED
  BY <1>6, <1>7, <1>8

\* What test4 returns from the state that its loop ends in.
Answer4(p, q, w) ==
  LET i == Middle(w)  j == Other4(p, q, i) IN
  IF w.l > w.r THEN 0
  ELSE IF (Len(p) + Len(q)) % 2 # 0 THEN 2 * Max(Halves(p, q, i, j).left)
  ELSE Max(Halves(p, q, i, j).left) + Min(Halves(p, q, i, j).right)

\* All of test4, with the shorter array first.
Run4(p, q) == Answer4(p, q, Loop4(p, q)[Len(p) + 1])

\* From a cut that is neither too low nor too high it is the median.
LEMMA Answer4Is ==
  ASSUME NEW p \in Seq(Element), NEW q \in Seq(Element), Sorted(p), Sorted(q), Len(p) <= Len(q),
         NEW t \in Seq(Element), Len(t) = Len(p) + Len(q), Len(t) # 0, Ranked(p, q, t),
         NEW w, NEW i \in 0..Len(p), i = Middle(w), ~ (w.l > w.r),
         ~ Forward4(p, q, i, Other4(p, q, i)), ~ Backward4(p, q, i, Other4(p, q, i))
  PROVE  Answer4(p, q, w) = calcMedian(t)
<1>0. PICK j, N, h, L, R : /\ j = Other4(p, q, i) /\ N = Len(p) + Len(q) /\ h = (N + 1) \div 2
                           /\ L = Lefts(p, q, i, j) /\ R = Rights(p, q, i, j)
  OBVIOUS
<1>1. N \in Nat \ {0} /\ Len(t) = N
  BY <1>0, Numbers
<1>2. j \in 0..Len(q) /\ i + j = h
  BY <1>0, Other4Is
<1>3. /\ h \in 1..N /\ (N + 2) \div 2 \in 1..N
      /\ calcMedian(t) = t[h] + t[(N + 2) \div 2]
  BY <1>0, <1>1, MedianRanks
<1>4. h > 0 /\ h \in Int
  BY <1>1, <1>3
<1>5. Max(L) = t[h] /\ (h < N => Min(R) = t[h + 1])
  BY <1>0, <1>2, <1>4, CutRanks, SMTT(30)
<1>6. Halves(p, q, i, j).left = L /\ Halves(p, q, i, j).right = R
  BY <1>0, <1>2, HalvesAre
<1>7. Answer4(p, q, w) = IF N % 2 # 0 THEN 2 * Max(L) ELSE Max(L) + Min(R)
  BY <1>0, <1>6 DEF Answer4
<1>8. PICK x : x = N \div 2
  OBVIOUS
<1>9. x \in Nat /\ (N = 2 * x \/ N = 2 * x + 1)
  BY <1>1, <1>8
<1>10. CASE N = 2 * x
  <2>1. h = x /\ (N + 2) \div 2 = h + 1 /\ h < N /\ N % 2 = 0
    BY <1>0, <1>1, <1>9, <1>10, SMTT(20)
  <2> QED
    BY <2>1, <1>3, <1>5, <1>7
<1>11. CASE N = 2 * x + 1
  <2>1. (N + 2) \div 2 = h /\ N % 2 # 0
    <3>1. (N + 1) \div 2 = x + 1 /\ (N + 2) \div 2 = x + 1 /\ N % 2 = 1
      BY <1>9, <1>11
    <3> QED
      BY <3>1, <1>0
  <2>2. t[h] \in Int
    BY <1>1, <1>3, Numbers
  <2> QED
    BY <2>1, <2>2, <1>3, <1>5, <1>7
<1> QED
  BY <1>9, <1>10, <1>11

\* With the shorter array first, test4 finds the median.
LEMMA Shorter4 ==
  ASSUME NEW p \in Seq(Element), NEW q \in Seq(Element), Sorted(p), Sorted(q), Len(p) <= Len(q),
         NEW t \in Seq(Element), Len(t) = Len(p) + Len(q), Len(t) # 0, Ranked(p, q, t)
  PROVE  Run4(p, q) = calcMedian(t)
<1>0. PICK m, N : m = Len(p) /\ N = m + 1
  OBVIOUS
<1>1. m \in Nat /\ N \in Nat
  BY <1>0, Numbers
<1>a. PICK e, f0, x : RightCut(p, q, e, f0, x)
  <2>1. PICK h, n : h = (Len(p) + Len(q) + 1) \div 2 /\ n = Len(p) + Len(q)
    OBVIOUS
  <2>2. n \in Nat /\ n # 0
    BY <2>1, Numbers
  <2>3. h \in 0..n /\ h > 0
    BY <2>1, <2>2
  <2>4. SplitAt(p, q, t, h)
    BY <2>1, <2>3, SplitExists
  <2>5. PICK i \in 0..Len(p), j \in 0..Len(q) :
          i + j = h /\ t[h] \in Int /\ Below(p, q, i, j, t[h]) /\ Above(p, q, i, j, t[h])
    BY <2>3, <2>4 DEF SplitAt
  <2>6. RightCut(p, q, i, j, t[h])
    BY <2>1, <2>5 DEF RightCut
  <2> QED
    BY <2>6
<1> DEFINE w0 == Start4(p)  g == Loop4(p, q)  D == States4(p, e)
           G == [w \in D |-> Step4(p, q, w)]  M == [w \in D |-> w.r - w.l]
<1>2. w0 \in D
  <2>1. 0 \in 0..m /\ m \in 0..m /\ 0 <= e /\ e <= m
    BY <1>0, <1>1, <1>a DEF RightCut
  <2> QED
    BY <1>0, <2>1 DEF Start4, States4
<1>3. \A w \in D : w.l \in 0..m /\ w.r \in 0..m /\ w.l <= e /\ e <= w.r /\ e \in 0..m
  BY <1>0, <1>a DEF States4, RightCut
<1>4. \A w \in D : /\ Middle(w) \in 0..Len(p)
                   /\ Step4(p, q, w) \in D
                   /\ IF \/ Forward4(p, q, Middle(w), Other4(p, q, Middle(w)))
                         \/ Backward4(p, q, Middle(w), Other4(p, q, Middle(w)))
                      THEN Step4(p, q, w).r - Step4(p, q, w).l < w.r - w.l ELSE Step4(p, q, w) = w
  BY <1>a, Turn4
<1>5. G \in [D -> D] /\ M \in [D -> Nat] /\ M[w0] <= N /\ \A w \in D : G[w] = w \/ M[G[w]] < M[w]
  <2> HIDE DEF D
  <2>1. w0.l = 0 /\ w0.r = m
    BY <1>0 DEF Start4
  <2>2. M[w0] <= N
    <3> HIDE DEF w0
    <3> QED
      BY <1>0, <1>1, <1>2, <2>1
  <2>3. \A w \in D : w.r - w.l \in Nat
    BY <1>1, <1>3
  <2>4. G \in [D -> D] /\ M \in [D -> Nat]
    BY <1>4, <2>3
  <2>5. \A w \in D : G[w] = w \/ M[G[w]] < M[w]
    BY <1>4
  <2> QED
    BY <2>2, <2>4, <2>5
<1>p. PICK f : EndsAs(N, D, G, w0, f)
  <2> HIDE DEF D, G, M, w0
  <2> QED
    BY <1>1, <1>2, <1>5, LoopRule
<1>6. /\ f \in [0..N -> D] /\ f[0] = w0 /\ \A d \in 1..N : f[d] = G[f[d - 1]]
      /\ f[N] \in D /\ G[f[N]] = f[N]
      /\ \A z : Follows(N, D, G, z) /\ z[0] = w0 => z[N] = f[N]
  BY <1>p DEF EndsAs
<1>7. g[N] = f[N]
  <2>1. f = [d \in 0..N |-> IF d = 0 THEN w0 ELSE Step4(p, q, f[d - 1])]
    <3>1. \A d \in 1..N : d - 1 \in 0..N
      BY <1>1
    <3>2. \A d \in 1..N : f[d] = Step4(p, q, f[d - 1])
      BY <1>6, <3>1
    <3> HIDE DEF D
    <3> QED
      BY <1>6, <3>2, <1>1
  <2>2. g = [d \in 0..N |-> IF d = 0 THEN w0 ELSE Step4(p, q, g[d - 1])]
    BY <2>1, <1>0 DEF Loop4
  <2>3. g[0] = w0 /\ \A d \in 1..N : g[d] = Step4(p, q, g[d - 1])
    BY <2>2, <1>1
  <2>4. Follows(N, D, G, g)
    BY <2>3 DEF Follows
  <2> HIDE DEF D, G, g
  <2> QED
    BY <1>6, <2>3, <2>4
<1>8. PICK w : w = f[N]
  OBVIOUS
<1>9. w \in D /\ Step4(p, q, w) = w
  BY <1>6, <1>8
<1>10. w.l \in 0..m /\ w.r \in 0..m /\ ~ (w.l > w.r)
  <2>1. w.l \in 0..m /\ w.r \in 0..m /\ w.l <= e /\ e <= w.r /\ e \in 0..m
    BY <1>3, <1>9
  <2> QED
    BY <2>1, <1>1
<1>11. /\ Middle(w) \in 0..Len(p)
       /\ ~ Forward4(p, q, Middle(w), Other4(p, q, Middle(w)))
       /\ ~ Backward4(p, q, Middle(w), Other4(p, q, Middle(w)))
  <2>1. ~ (w.r - w.l < w.r - w.l)
    BY <1>1, <1>10
  <2> HIDE DEF D
  <2> QED
    BY <2>1, <1>4, <1>9
<1> HIDE DEF g, G, M, w0, D
<1>12. Answer4(p, q, w) = calcMedian(t)
  BY <1>10, <1>11, Answer4Is
<1> QED
  BY <1>0, <1>7, <1>8, <1>12 DEF g, Run4

\* In either order.
LEMMA test4Is ==
  ASSUME NEW p \in Seq(Element), NEW q \in Seq(Element), Sorted(p), Sorted(q),
         NEW t \in Seq(Element), Len(t) = Len(p) + Len(q), Len(t) # 0, Ranked(p, q, t)
  PROVE  test4(p, q) = calcMedian(t)
<1>1. Len(p) \in Nat /\ Len(q) \in Nat
  BY Numbers
<1>2. test4(p, q) = Run4(IF Len(p) > Len(q) THEN q ELSE p, IF Len(p) > Len(q) THEN p ELSE q)
  BY DEF test4, While, Run4, Step4, Start4, Loop4, Answer4, Forward4, Backward4, Other4
<1>3. CASE Len(p) > Len(q)
  <2>1. test4(p, q) = Run4(q, p)
    BY <1>2, <1>3
  <2>2. Len(q) <= Len(p) /\ Len(t) = Len(q) + Len(p)
    BY <1>1, <1>3
  <2>3. Ranked(q, p, t)
    BY RankedSwap
  <2> QED
    BY <2>1, <2>2, <2>3, Shorter4
<1>4. CASE ~ (Len(p) > Len(q))
  <2>1. test4(p, q) = Run4(p, q)
    BY <1>2, <1>4
  <2>2. Len(p) <= Len(q)
    BY <1>1, <1>4
  <2> QED
    BY <2>1, <2>2, Shorter4
<1> QED
  BY <1>3, <1>4

\* The three ways to the median agree.
LEMMA MediansAre ==
  ASSUME NEW p \in Seq(Element), NEW q \in Seq(Element), Sorted(p), Sorted(q), p \o q # <<>>
  PROVE  {findMedianSortedArrays(p, q), findMedianSortedArraysEx2(p, q), test4(p, q)} = {calcMedian(MPSort(p \o q))}
<1>1. PICK s, t : s = p \o q /\ t = MPSort(s)
  OBVIOUS
<1>2. s \in Seq(Element) /\ Len(s) = Len(p) + Len(q) /\ Len(s) # 0
  <2>1. s \in Seq(Element) /\ Len(s) = Len(p) + Len(q)
    BY <1>1, BothIs
  <2> QED
    BY <2>1, <1>1
<1>3. t \in Seq(Element) /\ Len(t) = Len(p) + Len(q) /\ Len(t) # 0 /\ Ranked(p, q, t)
  <2>1. SortOf(p \o q, t)
    BY <1>1, <1>2, MPSortIs
  <2>2. t \in Seq(Element) /\ Len(t) = Len(s)
    BY <2>1, <1>1 DEF SortOf, SameBag
  <2> QED
    BY <2>1, <2>2, <1>2, RanksAre
<1>4. /\ findMedianSortedArrays(p, q) = calcMedian(t)
      /\ findMedianSortedArraysEx2(p, q) = calcMedian(t)
      /\ test4(p, q) = calcMedian(t)
  BY <1>3, MergeMedian, KthMedian, test4Is
<1> QED
  BY <1>1, <1>4

\* The searches agree with the definitions, for all sequences of numbers.
LEMMA SearchesAre ==
  ASSUME a \in Seq(Element), b \in Seq(Element)
  PROVE  SearchesFind
<1>1. test69(Len(a) * Len(b)) = Max({r \in 0..Len(a) * Len(b) : r * r <= Len(a) * Len(b)})
  <2>1. Len(a) \in Nat /\ Len(b) \in Nat
    BY Numbers
  <2>2. PICK x \in Nat : x = Len(a) * Len(b)
    BY <2>1
  <2>3. test69(x) = Max({r \in 0..x : r * r <= x})
    BY test69Is
  <2> QED
    BY <2>2, <2>3
<1>2. Sorted(a) => \A x \in Element :
        LET at == {k \in 0..Len(a) - 1 : At(a, k) = x}
        IN test34(a, x) = IF at = {} THEN <<-1, -1>> ELSE <<Min(at), Max(at)>>
  BY test34Is
<1>3. a # <<>> /\ Rotated(a) =>
        /\ \A x \in Element : test81(a, x) <=> \E k \in DOMAIN a : a[k] = x
        /\ test154(a) = Min({a[k] : k \in DOMAIN a})
  BY test81Is, test154Is
<1>4. Sorted(a) => \A i, j \in DOMAIN a : i < j =>
        LET found == test167(a, a[i] + a[j])
        IN found[1] < found[2] /\ a[found[1]] + a[found[2]] = a[i] + a[j]
  BY test167Is
<1>5. Sorted(a) /\ Sorted(b) /\ a \o b # <<>> =>
        {findMedianSortedArrays(a, b), findMedianSortedArraysEx2(a, b), test4(a, b)} = {calcMedian(MPSort(a \o b))}
  BY MediansAre
<1> QED
  BY <1>1, <1>2, <1>3, <1>4, <1>5 DEF SearchesFind

-----------------------------------------------------------------------------
(* The theorems.                                                           *)

\* The inputs are sequences of numbers, which they stay as they grow.
LEMMA InputsAre == TextSpec => [](a \in Seq(Element) /\ b \in Seq(Element))
<1>1. TextInit => a \in Seq(Element) /\ b \in Seq(Element)
  BY DEF TextInit
<1>2. a \in Seq(Element) /\ b \in Seq(Element) /\ [Grow]_<<a, b>>
      => (a \in Seq(Element) /\ b \in Seq(Element))'
  <2> SUFFICES ASSUME a \in Seq(Element), b \in Seq(Element), [Grow]_<<a, b>>
               PROVE  a' \in Seq(Element) /\ b' \in Seq(Element)
    OBVIOUS
  <2>1. ASSUME NEW s \in Seq(Element), NEW x \in Element PROVE Append(s, x) \in Seq(Element)
    OBVIOUS
  <2>2. CASE Grow
    <3>1. PICK x \in Element : (a' = Append(a, x) /\ b' = b) \/ (b' = Append(b, x) /\ a' = a)
      BY <2>2 DEF Grow
    <3> QED
      BY <3>1, <2>1
  <2>3. CASE UNCHANGED <<a, b>>
    BY <2>3
  <2> QED
    BY <2>2, <2>3
<1> QED
  BY <1>1, <1>2, PTL DEF TextSpec

\* For every sequence of flower beds, of characters or of numbers, the greedy choices
\* of test605, test763 and test665 are as good as the best ones.
THEOREM GreedyChoices == TextSpec => []GreedyIsBest
<1>1. a \in Seq(Element) => GreedyIsBest
  BY GreedyIs
<1> QED
  BY <1>1, InputsAre, PTL

\* For all sequences of numbers, MPSort, test75 and test88 return the elements in order,
\* FindIndex puts the pivot where it belongs, one behind the index it returns, and
\* test215 finds the k-th largest wherever each of its calls of rand() takes the pivot.
THEOREM SortsAndSelects == TextSpec => []SortsSort
<1>1. a \in Seq(Element) /\ b \in Seq(Element) => SortsSort
  BY SortsAre
<1> QED
  BY <1>1, InputsAre, PTL

\* For all sequences of numbers, test34, test81, test154 and test167 find what is in a
\* sorted or rotated array and nothing else, and findMedianSortedArrays,
\* findMedianSortedArraysEx2 and test4 agree on the median of two sorted ones.
THEOREM SearchesHold == TextSpec => []SearchesFind
<1>1. a \in Seq(Element) /\ b \in Seq(Element) => SearchesFind
  BY SearchesAre
<1> QED
  BY <1>1, InputsAre, PTL

\* test69 returns the root of every number, rounded down.
THEOREM RootOfAll == \A x \in Nat : test69(x) = Max({r \in 0..x : r * r <= x})
  BY test69Is

=============================================================================
